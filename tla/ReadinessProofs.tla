-------------------------- MODULE ReadinessProofs --------------------------
(* Proofs about the readiness cache, for any set of calls, background
   refreshes and providers, and with calls dropped at any await. *)
EXTENDS Readiness, TLAPS

(* Type correctness of the readiness cache: the snapshot, the responses and
   the waiters keep their types whatever call is dropped where. *)
THEOREM ReadinessTypes == ReadySpec => []ReadyTypeOK
<1>1. ReadyInit => ReadyTypeOK
  <2>1. 0 \in 0..MaxProbes
    BY ReadinessConstants DEF ReadinessConstants
  <2>2. ReadyInit => call \in [Actor -> {"idle", "notify", "done", "dropped"} \cup Awaits]
    BY DEF ReadyInit
  <2> QED BY <2>1, <2>2 DEF ReadyInit, ReadyTypeOK
<1>2. ReadyTypeOK /\ [ReadyNext]_readyVars => ReadyTypeOK'
  <2> SUFFICES ASSUME ReadyTypeOK, [ReadyNext]_readyVars PROVE ReadyTypeOK'
    OBVIOUS
  <2> USE DEF ReadyTypeOK, Actor, Awaits, CallGoes
  <2>1. ASSUME NEW k \in Caller, Call(k) PROVE ReadyTypeOK'
    <3>1. Version(value) \in 0..MaxProbes
      BY ReadinessConstants DEF Version, Response, ReadinessConstants
    <3> QED BY <2>1, <3>1 DEF Call
  <2>2. ASSUME NEW k \in Caller, Serve(k) PROVE ReadyTypeOK'
    <3>1. CASE ServeFresh(k) BY <3>1 DEF ServeFresh
    <3>2. CASE ServeStale(k) BY <3>2 DEF ServeStale
    <3>3. CASE AwaitRefresh(k) BY <3>3 DEF AwaitRefresh
    <3>4. CASE Notified(k) BY <3>4 DEF Notified
    <3>5. CASE BeginColdRefresh(k) BY <3>5 DEF BeginColdRefresh
    <3>6. ASSUME NEW r \in Refresher, ServeStaleAndRefresh(k, r) PROVE ReadyTypeOK'
      BY <3>6 DEF ServeStaleAndRefresh
    <3> QED BY <2>2, <3>1, <3>2, <3>3, <3>4, <3>5, <3>6 DEF Serve
  <2>3. ASSUME NEW k \in Caller, DropCall(k) PROVE ReadyTypeOK'
    BY <2>3 DEF DropCall
  <2>4. ASSUME NEW a \in Actor, Refresh(a) PROVE ReadyTypeOK'
    <3>1. CASE Probe(a)
      <4> PICK up \in SUBSET Provider :
            result' = [result EXCEPT ![a] =
              [version |-> probes + 1, ready |-> Enabled /\ Provider # {} /\ up # {}]]
        BY <3>1 DEF Probe
      <4>1. probes + 1 \in 1..MaxProbes
        BY <3>1, ReadinessConstants DEF Probe, ReadinessConstants
      <4>2. [version |-> probes + 1, ready |-> Enabled /\ Provider # {} /\ up # {}] \in Response
        BY <4>1 DEF Response
      <4> QED BY <3>1, <4>1, <4>2 DEF Probe
    <3>2. CASE Store(a) BY <3>2 DEF Store
    <3>3. CASE FinishRefresh(a) BY <3>3 DEF FinishRefresh
    <3> QED BY <2>4, <3>1, <3>2, <3>3 DEF Refresh
  <2>5. CASE Expire BY <2>5 DEF Expire
  <2>6. CASE UNCHANGED readyVars BY <2>6 DEF readyVars
  <2> QED BY <2>1, <2>2, <2>3, <2>4, <2>5, <2>6 DEF ReadyNext
<1> QED BY <1>1, <1>2, PTL DEF ReadySpec

(* At most one refresh runs, and the flag is up while it does: concurrent
   cold-start calls coalesce behind one probe, and an expired snapshot is
   refreshed once, also when the probing call is dropped. *)
THEOREM Coalesced == ReadySpec => []SingleRefresh
<1>1. ReadyInit => SingleRefresh
  BY DEF ReadyInit, SingleRefresh, Probing
<1>2. ReadyTypeOK /\ SingleRefresh /\ [ReadyNext]_readyVars => SingleRefresh'
  <2> SUFFICES ASSUME ReadyTypeOK, SingleRefresh, [ReadyNext]_readyVars PROVE SingleRefresh'
    OBVIOUS
  <2>0. call \in [Actor -> {"idle", "notify", "done", "dropped"} \cup Awaits]
    BY DEF ReadyTypeOK
  <2> USE <2>0 DEF SingleRefresh, Probing, CallGoes
  <2>1. ASSUME NEW k \in Caller, Call(k) PROVE SingleRefresh'
    BY <2>1 DEF Call
  <2>2. ASSUME NEW k \in Caller, Serve(k) PROVE SingleRefresh'
    <3>1. CASE ServeFresh(k) BY <3>1 DEF ServeFresh
    <3>2. CASE ServeStale(k) BY <3>2 DEF ServeStale
    <3>3. CASE AwaitRefresh(k) BY <3>3 DEF AwaitRefresh
    <3>4. CASE Notified(k) BY <3>4 DEF Notified
    <3>5. CASE BeginColdRefresh(k) BY <3>5 DEF BeginColdRefresh
    <3>6. ASSUME NEW r \in Refresher, ServeStaleAndRefresh(k, r) PROVE SingleRefresh'
      BY <3>6 DEF ServeStaleAndRefresh
    <3> QED BY <2>2, <3>1, <3>2, <3>3, <3>4, <3>5, <3>6 DEF Serve
  <2>3. ASSUME NEW k \in Caller, DropCall(k) PROVE SingleRefresh'
    BY <2>3 DEF DropCall
  <2>4. ASSUME NEW a \in Actor, Refresh(a) PROVE SingleRefresh'
    <3>1. CASE Probe(a) BY <3>1 DEF Probe
    <3>2. CASE Store(a) BY <3>2 DEF Store
    <3>3. CASE FinishRefresh(a) BY <3>3 DEF FinishRefresh
    <3> QED BY <2>4, <3>1, <3>2, <3>3 DEF Refresh
  <2>5. CASE Expire BY <2>5 DEF Expire
  <2>6. CASE UNCHANGED readyVars BY <2>6 DEF readyVars
  <2> QED BY <2>1, <2>2, <2>3, <2>4, <2>5, <2>6 DEF ReadyNext
<1> QED BY <1>1, <1>2, ReadinessTypes, PTL DEF ReadySpec

(* No waiter is left without a notification to come: registering before the
   unlock closes the window between the check and the await. *)
THEOREM NotificationsArrive == ReadySpec => []NoLostNotification
<1>1. ReadyInit => NoLostNotification
  BY DEF ReadyInit, NoLostNotification
<1>2. ReadyTypeOK /\ NoLostNotification /\ [ReadyNext]_readyVars => NoLostNotification'
  <2> SUFFICES ASSUME ReadyTypeOK, NoLostNotification, [ReadyNext]_readyVars PROVE NoLostNotification'
    OBVIOUS
  <2>0. call \in [Actor -> {"idle", "notify", "done", "dropped"} \cup Awaits]
    BY DEF ReadyTypeOK
  <2> USE <2>0 DEF NoLostNotification, CallGoes
  <2>1. ASSUME NEW k \in Caller, Call(k) PROVE NoLostNotification'
    BY <2>1 DEF Call
  <2>2. ASSUME NEW k \in Caller, Serve(k) PROVE NoLostNotification'
    <3>1. CASE ServeFresh(k) BY <3>1 DEF ServeFresh
    <3>2. CASE ServeStale(k) BY <3>2 DEF ServeStale
    <3>3. CASE AwaitRefresh(k) BY <3>3 DEF AwaitRefresh
    <3>4. CASE Notified(k) BY <3>4 DEF Notified
    <3>5. CASE BeginColdRefresh(k) BY <3>5 DEF BeginColdRefresh
    <3>6. ASSUME NEW r \in Refresher, ServeStaleAndRefresh(k, r) PROVE NoLostNotification'
      BY <3>6 DEF ServeStaleAndRefresh
    <3> QED BY <2>2, <3>1, <3>2, <3>3, <3>4, <3>5, <3>6 DEF Serve
  <2>3. ASSUME NEW k \in Caller, DropCall(k) PROVE NoLostNotification'
    <3>1. call[k] # "notify"
      BY <2>3, ReadinessConstants DEF DropCall, ReadinessConstants, Awaits
    <3> QED BY <2>3, <3>1 DEF DropCall
  <2>4. ASSUME NEW a \in Actor, Refresh(a) PROVE NoLostNotification'
    <3>1. CASE Probe(a) BY <3>1 DEF Probe
    <3>2. CASE Store(a) BY <3>2 DEF Store
    <3>3. CASE FinishRefresh(a) BY <3>3 DEF FinishRefresh
    <3> QED BY <2>4, <3>1, <3>2, <3>3 DEF Refresh
  <2>5. CASE Expire BY <2>5 DEF Expire
  <2>6. CASE UNCHANGED readyVars BY <2>6 DEF readyVars
  <2> QED BY <2>1, <2>2, <2>3, <2>4, <2>5, <2>6 DEF ReadyNext
<1> QED BY <1>1, <1>2, ReadinessTypes, PTL DEF ReadySpec
=============================================================================
