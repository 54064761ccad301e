--------------------------- MODULE LearningProofs ---------------------------
(* Proofs about the parts that learn from answers: the session and the
   promotion gate of the AARNN bridge, for any set of exchanges, capacities and
   windows, the interaction ledger with its mirror worker, for any set of
   records and any number of attempts, faults and snapshots, and the trainer's
   pipeline with its spool, for any rows, snapshots, targets and faults. *)
EXTENDS InteractionLedger, AarnnBridge, TrainerPipeline, FiniteSetTheorems, WellFoundedInduction, TLAPS

-----------------------------------------------------------------------------
(* The AARNN bridge: types.                                                *)

\* A job is the record of its fields.
JobFields(j) == j = [pc |-> j.pc, session |-> j.session, round |-> j.round, tries |-> j.tries]
JobTyped(j) == j.pc \in MirrorStep /\ j.session \in Nat /\ j.round \in 1 .. 2 /\ j.tries \in Nat

\* A record with these fields is a job.
LEMMA JobType == \A j : JobFields(j) /\ JobTyped(j) => j \in MirrorJob
BY DEF JobFields, JobTyped, MirrorJob

\* What the actions write into a job keeps its type ...
LEMMA JobUpdate ==
  ASSUME NEW j \in MirrorJob, NEW pc \in MirrorStep, NEW n \in Nat
  PROVE  /\ [j EXCEPT !.pc = pc] \in MirrorJob
         /\ [j EXCEPT !.session = n, !.pc = pc] \in MirrorJob
         /\ [j EXCEPT !.tries = n, !.pc = pc] \in MirrorJob
         /\ [j EXCEPT !.pc = pc, !.round = 2, !.tries = n] \in MirrorJob
<1>1. ASSUME NEW h, h = [j EXCEPT !.session = n, !.pc = pc] PROVE h \in MirrorJob
  <2>1. JobFields(h) BY <1>1 DEF JobFields, MirrorJob
  <2>2. JobTyped(h) BY <1>1 DEF JobTyped, MirrorJob
  <2> QED BY <2>1, <2>2, JobType
<1>2. ASSUME NEW h, h = [j EXCEPT !.tries = n, !.pc = pc] PROVE h \in MirrorJob
  <2>1. JobFields(h) BY <1>2 DEF JobFields, MirrorJob
  <2>2. JobTyped(h) BY <1>2 DEF JobTyped, MirrorJob
  <2> QED BY <2>1, <2>2, JobType
<1>3. ASSUME NEW h, h = [j EXCEPT !.pc = pc, !.round = 2, !.tries = n] PROVE h \in MirrorJob
  <2>1. JobFields(h) BY <1>3 DEF JobFields, MirrorJob
  <2>2. JobTyped(h) BY <1>3 DEF JobTyped, MirrorJob
  <2> QED BY <2>1, <2>2, JobType
<1>4. [j EXCEPT !.pc = pc] \in MirrorJob
  BY DEF MirrorJob
<1> QED BY <1>1, <1>2, <1>3, <1>4

\* ... and so do the jobs of all exchanges.
LEMMA JobUpdates ==
  ASSUME NEW f \in [Exchange -> MirrorJob], NEW x \in Exchange, NEW pc \in MirrorStep,
         NEW n \in Nat
  PROVE  /\ [f EXCEPT ![x].pc = pc] \in [Exchange -> MirrorJob]
         /\ [f EXCEPT ![x].session = n, ![x].pc = pc] \in [Exchange -> MirrorJob]
         /\ [f EXCEPT ![x].tries = n, ![x].pc = pc] \in [Exchange -> MirrorJob]
         /\ [f EXCEPT ![x].pc = pc, ![x].round = 2, ![x].tries = n] \in [Exchange -> MirrorJob]
<1>1. f[x] \in MirrorJob
  BY SMTT(30)
<1>2. /\ [f[x] EXCEPT !.pc = pc] \in MirrorJob
      /\ [f[x] EXCEPT !.session = n, !.pc = pc] \in MirrorJob
      /\ [f[x] EXCEPT !.tries = n, !.pc = pc] \in MirrorJob
      /\ [f[x] EXCEPT !.pc = pc, !.round = 2, !.tries = n] \in MirrorJob
  BY <1>1, JobUpdate
<1>3. /\ [f EXCEPT ![x].session = n, ![x].pc = pc]
           = [f EXCEPT ![x] = [f[x] EXCEPT !.session = n, !.pc = pc]]
      /\ [f EXCEPT ![x].tries = n, ![x].pc = pc]
           = [f EXCEPT ![x] = [f[x] EXCEPT !.tries = n, !.pc = pc]]
      /\ [f EXCEPT ![x].pc = pc, ![x].round = 2, ![x].tries = n]
           = [f EXCEPT ![x] = [f[x] EXCEPT !.pc = pc, !.round = 2, !.tries = n]]
  OBVIOUS
<1> QED BY <1>2, <1>3

\* One more sample makes the history at most one longer.
LEMMA PushGrows ==
  ASSUME NEW s \in Seq({0, 1}), NEW q \in {0, 1}
  PROVE  Push(s, q) \in Seq({0, 1}) /\ Len(Push(s, q)) <= Len(s) + 1
<1>1. Append(s, q) \in Seq({0, 1}) /\ Len(Append(s, q)) = Len(s) + 1
  OBVIOUS
<1>2. CASE Len(Append(s, q)) > HistoryWindow
  <2>1. Append(s, q) # <<>>
    BY <1>1
  <2>2. Tail(Append(s, q)) \in Seq({0, 1}) /\ Len(Tail(Append(s, q))) = Len(s)
    BY <1>1, <2>1
  <2> QED BY <1>2, <2>2 DEF Push
<1>3. CASE ~(Len(Append(s, q)) > HistoryWindow)
  BY <1>1, <1>3 DEF Push
<1> QED BY <1>2, <1>3

\* What a weighing adds to the history: two samples before the sustained gate is
\* asked, four in all.
LEMMA JudgedGrows ==
  ASSUME NEW s \in Seq({0, 1}), NEW q \in {0, 1}, NEW a \in BOOLEAN, NEW p \in {0, 1}
  PROVE  LET v == Judged(Push(s, q), q, a)
         IN  /\ Push(v.samples, p) \in Seq({0, 1})
             /\ Len(Push(v.samples, p)) <= Len(s) + 4
             /\ v.sustained => Len(s) + 2 >= Sustained
<1> DEFINE one == Push(s, q)
           two == Push(one, q)
           three == Push(two, q)
           v == Judged(one, q, a)
<1>1. one \in Seq({0, 1}) /\ Len(one) <= Len(s) + 1
  BY PushGrows
<1>2. two \in Seq({0, 1}) /\ Len(two) <= Len(one) + 1
  BY PushGrows, <1>1
<1>3. three \in Seq({0, 1}) /\ Len(three) <= Len(two) + 1
  BY PushGrows, <1>2
<1>4. v.samples = two \/ v.samples = three
  BY DEF Judged
<1>5. v.samples \in Seq({0, 1}) /\ Len(v.samples) <= Len(s) + 3
  <2> HIDE DEF v, three, two, one
  <2>1. Len(s) \in Nat /\ Len(one) \in Nat /\ Len(two) \in Nat /\ Len(three) \in Nat
    BY <1>1, <1>2, <1>3
  <2> QED BY <1>1, <1>2, <1>3, <1>4, <2>1
<1>6. Push(v.samples, p) \in Seq({0, 1}) /\ Len(Push(v.samples, p)) <= Len(v.samples) + 1
  <2> HIDE DEF v
  <2> QED BY <1>5, PushGrows
<1>7. v.sustained => Len(two) >= Sustained
  BY DEF Judged, SustainedGate
<1> HIDE DEF v, two, one, three
<1>8. Len(s) \in Nat /\ Len(one) \in Nat /\ Len(two) \in Nat /\ Len(v.samples) \in Nat
      /\ Len(Push(v.samples, p)) \in Nat /\ Sustained \in Nat
  BY <1>1, <1>2, <1>5, <1>6, BridgeAssumption DEF BridgeAssumption
<1>9. /\ Len(Push(v.samples, p)) <= Len(s) + 4
      /\ v.sustained => Len(s) + 2 >= Sustained
  BY <1>1, <1>2, <1>5, <1>6, <1>7, <1>8
<1> QED BY <1>6, <1>9 DEF v, one

(* Type correctness of the bridge: the channel, the jobs, the cached session
   and the promotion history keep their types in every interleaving of the
   exchanges with AARNN's restarts. *)
THEOREM BridgeTypes == BridgeSpec => []BridgeTypeOK
<1>1. BridgeInit => BridgeTypeOK
  <2> SUFFICES ASSUME BridgeInit PROVE BridgeTypeOK
    OBVIOUS
  <2>1. NewJob \in MirrorJob
    BY DEF NewJob, MirrorJob, MirrorStep
  <2>2. EmptySlot \in Slot
    BY DEF EmptySlot, Slot
  <2>3. 0 \in 0 .. BridgeFaults
    BY BridgeAssumption DEF BridgeAssumption
  <2> QED BY <2>1, <2>2, <2>3, FS_EmptySet DEF BridgeInit, BridgeTypeOK
<1>2. BridgeTypeOK /\ [BridgeNext]_bridgeVars => BridgeTypeOK'
  <2> SUFFICES ASSUME BridgeTypeOK, [BridgeNext]_bridgeVars PROVE BridgeTypeOK'
    OBVIOUS
  <2> DEFINE Jobs == [Exchange -> MirrorJob]
             To(x, pc) == [mirrorJob EXCEPT ![x].pc = pc]
             With(x, n, pc) == [mirrorJob EXCEPT ![x].session = n, ![x].pc = pc]
             Tried(x, n, pc) == [mirrorJob EXCEPT ![x].tries = n, ![x].pc = pc]
  <2> USE DEF BridgeTypeOK
  <2>0. /\ mirrorJob \in Jobs
        /\ \A x \in Exchange : \A pc \in MirrorStep : To(x, pc) \in Jobs
        /\ \A x \in Exchange : \A pc \in MirrorStep : \A n \in Nat :
             With(x, n, pc) \in Jobs /\ Tried(x, n, pc) \in Jobs
        /\ bridgeFaults' = bridgeFaults \/ BridgeFault => bridgeFaults' \in 0 .. BridgeFaults
        /\ \A x \in Exchange : mirrorJob[x] \in MirrorJob
    <3>1. \A x \in Exchange : \A pc \in MirrorStep : To(x, pc) \in Jobs
      <4> SUFFICES ASSUME NEW x \in Exchange, NEW pc \in MirrorStep PROVE To(x, pc) \in Jobs
        BY Zenon
      <4> QED BY JobUpdates, 0 \in Nat
    <3>3. \A x \in Exchange : \A pc \in MirrorStep : \A n \in Nat :
            With(x, n, pc) \in Jobs /\ Tried(x, n, pc) \in Jobs
      <4> TAKE x \in Exchange
      <4> TAKE pc \in MirrorStep
      <4> TAKE n \in Nat
      <4> QED BY JobUpdates
    <3>2. bridgeFaults' = bridgeFaults \/ BridgeFault => bridgeFaults' \in 0 .. BridgeFaults
      BY BridgeAssumption DEF BridgeFault, BridgeAssumption
    <3> QED BY <3>1, <3>2, <3>3
  <2>1. ASSUME NEW x \in Exchange, Enqueue(x) PROVE BridgeTypeOK'
    <3>1. mirrorJob' \in Jobs
      <4>1. mirrorJob' = To(x, "queued") \/ mirrorJob' = To(x, "dropped")
        BY <2>1 DEF Enqueue, Step
      <4> HIDE DEF To, Jobs
      <4> QED BY <2>0, <4>1 DEF MirrorStep
    <3>2. bus' \in Seq(Exchange)
      <4>1. Append(bus, x) \in Seq(Exchange)
        OBVIOUS
      <4>2. bus' = bus \/ bus' = Append(bus, x)
        BY <2>1 DEF Enqueue
      <4> QED BY <4>1, <4>2
    <3>3. caller' \in [Exchange -> {"idle", "waiting", "left", "weighing", "aarnn", "llm", "kept"}]
      BY <2>1 DEF Enqueue
    <3> HIDE DEF Jobs
    <3>4. Jobs = [Exchange -> MirrorJob]
      BY DEF Jobs
    <3> QED BY <2>1, <3>1, <3>2, <3>3, <3>4, SMTT(30) DEF Enqueue, sessionVars, gateVars
  <2>2. ASSUME NEW x \in Exchange, MirrorSpeech(x) PROVE BridgeTypeOK'
    <3>1. mirrorJob' \in Jobs
      BY <2>2, <2>0 DEF MirrorSpeech, Step, MirrorStep
    <3> QED BY <2>2, <3>1 DEF MirrorSpeech, sessionVars, gateVars
  <2>3. ASSUME NEW x \in Exchange, LockSlot(x) PROVE BridgeTypeOK'
    <3> DEFINE n == IF slot.kind = "active" THEN slot.id ELSE 0
               pc == IF slot.kind # "active" /\ mirrorJob[x].round = 2 THEN "failed" ELSE "send"
    <3>1. n \in Nat /\ pc \in MirrorStep
      BY DEF Slot, MirrorStep
    <3>2. mirrorJob' = With(x, n, pc) \/ mirrorJob' = To(x, "create")
      BY <2>3 DEF LockSlot, Step
    <3>3. mirrorJob' \in Jobs
      <4>1. "create" \in MirrorStep
        BY DEF MirrorStep
      <4> HIDE DEF n, pc, To, With, Jobs
      <4>2. With(x, n, pc) \in Jobs
        BY <2>0, <3>1
      <4>3. To(x, "create") \in Jobs
        BY <2>0, <4>1
      <4> QED BY <3>2, <4>2, <4>3
    <3> QED BY <2>3, <3>3 DEF LockSlot, gateVars
  <2>4. ASSUME NEW x \in Exchange, CreateSession(x) PROVE BridgeTypeOK'
    <3>1. CASE /\ issued' = issued + 1 /\ valid' = valid \cup {issued + 1}
               /\ slot' = [kind |-> "active", id |-> issued + 1, live |-> TRUE]
               /\ mirrorJob' = [mirrorJob EXCEPT ![x].session = issued + 1, ![x].pc = "send"]
               /\ UNCHANGED bridgeFaults
      <4>0. mirrorJob' = With(x, issued + 1, "send") /\ issued + 1 \in Nat /\ "send" \in MirrorStep
        BY <3>1 DEF MirrorStep
      <4>1. mirrorJob' \in Jobs
        <5> HIDE DEF With, Jobs
        <5> QED BY <2>0, <4>0
      <4>2. slot' \in Slot
        BY <3>1, SMTT(30) DEF Slot
      <4> QED BY <2>4, <3>1, <4>1, <4>2 DEF CreateSession, gateVars
    <3>2. CASE /\ BridgeFault
               /\ \E kind \in {"unsupported", "failed"} : slot' = [kind |-> kind, id |-> 0, live |-> TRUE]
               /\ mirrorJob' = [mirrorJob EXCEPT ![x].session = 0,
                                  ![x].pc = IF mirrorJob[x].round = 2 THEN "failed" ELSE "send"]
               /\ UNCHANGED <<issued, valid>>
      <4> DEFINE pc == IF mirrorJob[x].round = 2 THEN "failed" ELSE "send"
      <4>0. mirrorJob' = With(x, 0, pc) /\ pc \in MirrorStep
        BY <3>2 DEF MirrorStep
      <4>1. mirrorJob' \in Jobs
        <5> HIDE DEF With, Jobs, pc
        <5> QED BY <2>0, <4>0, 0 \in Nat
      <4>2. slot' \in Slot
        BY <3>2 DEF Slot
      <4> QED BY <2>0, <2>4, <3>2, <4>1, <4>2 DEF CreateSession, gateVars
    <3> QED BY <2>4, <3>1, <3>2 DEF CreateSession
  <2>5. ASSUME NEW x \in Exchange, Invalidate(x) PROVE BridgeTypeOK'
    <3>1. mirrorJob' \in Jobs
      BY <2>5, JobUpdates, ZenonT(60) DEF Invalidate, MirrorStep
    <3>2. slot' \in Slot
      BY <2>5 DEF Invalidate, Invalidated, EmptySlot, Slot
    <3> QED BY <2>5, <3>1, <3>2, SMTT(30) DEF Invalidate, gateVars
  <2>6. ASSUME NEW x \in Exchange, Attempt(x) PROVE BridgeTypeOK'
    <3> DEFINE n == mirrorJob[x].tries + 1
               pc == IF n < HttpAttempts THEN "send" ELSE "failed"
    <3>0. mirrorJob[x].tries \in Nat
      BY <2>0 DEF MirrorJob
    <3>1. n \in Nat /\ pc \in MirrorStep
      BY <3>0 DEF MirrorStep
    <3>2. [mirrorJob EXCEPT ![x].tries = @ + 1, ![x].pc = pc]
             = [mirrorJob EXCEPT ![x].tries = n, ![x].pc = pc]
      OBVIOUS
    <3>3. \/ mirrorJob' = Tried(x, n, pc)
          \/ \E to \in {"answered", "rejected", "failed"} : mirrorJob' = To(x, to)
      BY <2>6, <3>2 DEF Attempt, Step
    <3>4. mirrorJob' \in Jobs
      <4>1. {"answered", "rejected", "failed"} \subseteq MirrorStep
        BY DEF MirrorStep
      <4> HIDE DEF n, pc, To, Tried, Jobs
      <4>2. Tried(x, n, pc) \in Jobs
        BY <2>0, <3>1
      <4>3. \A to \in {"answered", "rejected", "failed"} : To(x, to) \in Jobs
        BY <2>0, <4>1
      <4> QED BY <3>3, <4>2, <4>3
    <3>5. bridgeFaults' \in 0 .. BridgeFaults
      BY <2>0, <2>6 DEF Attempt
    <3> QED BY <2>6, <3>4, <3>5 DEF Attempt, sessionVars, gateVars
  <2>7. ASSUME NEW x \in Exchange, Deliver(x) PROVE BridgeTypeOK'
    <3>1. mirrorJob' \in Jobs
      BY <2>7, <2>0 DEF Deliver, Step, MirrorStep
    <3> QED BY <2>7, <3>1 DEF Deliver, sessionVars, gateVars
  <2>8. ASSUME NEW x \in Exchange, StopWaiting(x) PROVE BridgeTypeOK'
    BY <2>8 DEF StopWaiting, sessionVars, gateVars
  <2>9. ASSUME NEW x \in Exchange, NEW q \in {0, 1}, NEW a \in BOOLEAN, Weigh(x, q, a)
        PROVE BridgeTypeOK'
    <3>1. samples' \in Seq({0, 1})
      BY <2>9, JudgedGrows DEF Weigh
    <3>2. judged' \in SUBSET Exchange /\ IsFiniteSet(judged')
      BY <2>9, FS_AddElement DEF Weigh
    <3>3. Cardinality(judged') \in Nat
      BY <3>2, FS_CardinalityType
    <3>4. sustainedBy' \in [Exchange -> Nat]
      BY <2>9, <3>3 DEF Weigh
    <3>5. caller' \in [Exchange -> {"idle", "waiting", "left", "weighing", "aarnn", "llm", "kept"}]
      BY <2>9 DEF Weigh
    <3> QED BY <2>9, <3>1, <3>2, <3>4, <3>5 DEF Weigh, sessionVars
  <2>10. CASE Receive
    BY <2>10 DEF Receive, sessionVars, gateVars
  <2>11. CASE StartMirror
    <3>1. inHand \in Exchange
      BY <2>11, SMTT(30) DEF StartMirror
    <3>2. mirrorJob' \in Jobs
      BY <2>11, <2>0, <3>1 DEF StartMirror, Step, MirrorStep
    <3> QED BY <2>11, <3>1, <3>2 DEF StartMirror, sessionVars, gateVars
  <2>12. CASE SlotAges
    <3>1. slot' \in Slot /\ slot.id \in Nat
      BY <2>12 DEF SlotAges, Slot
    <3> QED BY <2>0, <2>12, <3>1 DEF SlotAges, gateVars
  <2>13. CASE ServerRestarts
    BY <2>0, <2>13 DEF ServerRestarts, gateVars
  <2>14. CASE BridgeDone \/ UNCHANGED bridgeVars
    BY <2>14 DEF BridgeDone, bridgeVars
  <2> QED BY <2>1, <2>2, <2>3, <2>4, <2>5, <2>6, <2>7, <2>8, <2>9, <2>10, <2>11, <2>12, <2>13, <2>14
          DEF BridgeNext
<1> QED BY <1>1, <1>2, PTL DEF BridgeSpec

-----------------------------------------------------------------------------
(* The AARNN bridge: its session.                                          *)

\* A session ends before another is issued: every session that was issued ended, or is
\* the live one of the slot; a session AARNN does not accept has ended, so that what is
\* dropped after a rejection has ended too; and a creation runs while none is live.
SessionInv ==
  /\ ended \subseteq 1 .. issued /\ valid \subseteq 1 .. issued /\ slot.id \in 0 .. issued
  /\ \A x \in Exchange : mirrorJob[x].session \in 0 .. issued
  /\ \A i \in 1 .. issued : i \in ended \/ (slot.live /\ slot.kind = "active" /\ slot.id = i)
  /\ slotOwner # "free" => ~slot.live
  /\ \A i \in 1 .. issued : i \in valid \/ i \in ended
  /\ \A x \in Exchange : mirrorJob[x].pc = "rejected" => mirrorJob[x].session \in ended \cup {0}

\* Job x went on to pc with session n, and no other job moved.
Goes(x, n, pc) ==
  \A y \in Exchange :
    /\ mirrorJob'[y].pc = IF y = x THEN pc ELSE mirrorJob[y].pc
    /\ mirrorJob'[y].session = IF y = x THEN n ELSE mirrorJob[y].session

LEMMA JobGoes ==
  ASSUME mirrorJob \in [Exchange -> MirrorJob], NEW x \in Exchange, NEW pc, NEW n
  PROVE  /\ mirrorJob' = [mirrorJob EXCEPT ![x].pc = pc] => Goes(x, mirrorJob[x].session, pc)
         /\ mirrorJob' = [mirrorJob EXCEPT ![x].session = n, ![x].pc = pc] => Goes(x, n, pc)
         /\ mirrorJob' = [mirrorJob EXCEPT ![x].tries = n, ![x].pc = pc]
              => Goes(x, mirrorJob[x].session, pc)
         /\ mirrorJob' = [mirrorJob EXCEPT ![x].pc = pc, ![x].round = 2, ![x].tries = n]
              => Goes(x, mirrorJob[x].session, pc)
BY DEF MirrorJob, Goes

\* A step of a job that leaves the session's variables alone keeps the invariant, when
\* it is rejected only with a session that AARNN does not accept.
LEMMA JobKeepsSession ==
  ASSUME BridgeTypeOK, SessionInv, NEW x \in Exchange, NEW pc, UNCHANGED sessionVars,
         Goes(x, mirrorJob[x].session, pc), pc = "rejected" => mirrorJob[x].session \notin valid
  PROVE  SessionInv'
<1>1. ASSUME NEW y \in Exchange, mirrorJob'[y].pc = "rejected"
      PROVE  mirrorJob'[y].session \in ended \cup {0}
  <2>1. mirrorJob'[y].session = mirrorJob[y].session /\ mirrorJob[y].session \in 0 .. issued
    BY DEF Goes, SessionInv
  <2>2. CASE y = x /\ pc = "rejected"
    <3>1. mirrorJob[x].session = 0 \/ mirrorJob[x].session \in 1 .. issued
      BY <2>1, <2>2 DEF BridgeTypeOK
    <3> QED BY <2>1, <2>2, <3>1 DEF SessionInv
  <2>3. CASE mirrorJob[y].pc = "rejected"
    BY <2>1, <2>3 DEF SessionInv
  <2> QED BY <1>1, <2>2, <2>3 DEF Goes
<1>2. \A y \in Exchange : mirrorJob'[y].session \in 0 .. issued
  BY DEF Goes, SessionInv
<1> QED BY <1>1, <1>2 DEF SessionInv, sessionVars

\* When every session ended or is the slot's, at most one has not ended.
LEMMA OneSessionLeft ==
  ASSUME BridgeTypeOK, SessionInv
  PROVE  NoSessionStampede
<1>1. IsFiniteSet(1 .. issued) /\ Cardinality(1 .. issued) = issued
  <2>1. issued \in Nat /\ issued \in Int /\ 1 \in Int
    BY DEF BridgeTypeOK
  <2>2. /\ IsFiniteSet(1 .. issued)
        /\ Cardinality(1 .. issued) = IF 1 > issued THEN 0 ELSE issued - 1 + 1
    BY <2>1, FS_Interval
  <2> QED BY <2>1, <2>2
<1>2. ended \in SUBSET (1 .. issued)
  BY DEF SessionInv
<1>3. IsFiniteSet(ended)
  BY <1>1, <1>2, FS_Subset
<1>4. IsFiniteSet(ended \cup {slot.id}) /\ Cardinality(ended \cup {slot.id}) <= Cardinality(ended) + 1
  <2>1. Cardinality(ended) \in Nat
    BY <1>3, FS_CardinalityType
  <2> QED BY <1>3, <2>1, FS_AddElement
<1>5. 1 .. issued \in SUBSET (ended \cup {slot.id})
  BY DEF SessionInv
<1>6. issued <= Cardinality(ended \cup {slot.id})
  <2>1. Cardinality(1 .. issued) <= Cardinality(ended \cup {slot.id})
    BY <1>4, <1>5, FS_Subset
  <2> QED BY <1>1, <2>1
<1>7. Cardinality(ended) \in Nat /\ Cardinality(ended \cup {slot.id}) \in Nat /\ issued \in Nat
  BY <1>3, <1>4, FS_CardinalityType DEF BridgeTypeOK
<1> QED BY <1>4, <1>6, <1>7 DEF NoSessionStampede

\* A new session is asked for only when the one before ended: no set of exchanges that
\* are rejected together, in any order with the ageing of the slot and AARNN's restarts,
\* replaces one session twice (peripheral_session, invalidate_peripheral_session).
THEOREM NoStampede == BridgeSpec => []NoSessionStampede
<1>1. BridgeInit => SessionInv
  BY DEF BridgeInit, SessionInv, EmptySlot, NewJob
<1>2. BridgeTypeOK /\ SessionInv /\ [BridgeNext]_bridgeVars => SessionInv'
  <2> SUFFICES ASSUME BridgeTypeOK, SessionInv, [BridgeNext]_bridgeVars PROVE SessionInv'
    OBVIOUS
  <2>0. /\ mirrorJob \in [Exchange -> MirrorJob] /\ slot \in Slot /\ issued \in Nat
        /\ ended \subseteq 1 .. issued /\ valid \subseteq 1 .. issued /\ slot.id \in 0 .. issued
        /\ \A x \in Exchange : mirrorJob[x].session \in 0 .. issued
    BY DEF BridgeTypeOK, SessionInv
  <2>1. ASSUME NEW x \in Exchange, NEW pc, Step(x, pc), UNCHANGED sessionVars,
               pc = "rejected" => mirrorJob[x].session \notin valid
        PROVE  SessionInv'
    BY <2>0, <2>1, JobGoes, JobKeepsSession DEF Step
  <2>2. ASSUME UNCHANGED mirrorJob, UNCHANGED sessionVars PROVE SessionInv'
    BY <2>2 DEF SessionInv, sessionVars
  <2>3. ASSUME NEW x \in Exchange, Enqueue(x) PROVE SessionInv'
    BY <2>1, <2>3 DEF Enqueue
  <2>4. ASSUME NEW x \in Exchange, MirrorSpeech(x) PROVE SessionInv'
    BY <2>1, <2>4 DEF MirrorSpeech
  <2>5. ASSUME NEW x \in Exchange, LockSlot(x) PROVE SessionInv'
    <3>1. \E pc \in {"failed", "send", "create"}, n \in {slot.id, 0, mirrorJob[x].session} : Goes(x, n, pc)
      <4>1. CASE slot.live
        BY <2>0, <2>5, <4>1, JobGoes DEF LockSlot
      <4>2. CASE ~slot.live
        BY <2>0, <2>5, <4>2, JobGoes DEF LockSlot, Step
      <4> QED BY <4>1, <4>2
    <3>2. slotOwner' # "free" => ~slot.live
      BY <2>5 DEF LockSlot, SessionInv
    <3>3. UNCHANGED <<slot, valid, issued, ended>>
      BY <2>5 DEF LockSlot
    <3> QED BY <2>0, <3>1, <3>2, <3>3 DEF SessionInv, Goes
  <2>6. ASSUME NEW x \in Exchange, CreateSession(x) PROVE SessionInv'
    <3>1. ~slot.live /\ 1 .. issued \subseteq ended
      <4>1. slotOwner # "free"
        BY <2>6, BridgeAssumption DEF CreateSession, BridgeAssumption
      <4> QED BY <4>1 DEF SessionInv
    <3>2. CASE /\ issued' = issued + 1 /\ valid' = valid \cup {issued + 1}
               /\ slot' = [kind |-> "active", id |-> issued + 1, live |-> TRUE]
               /\ mirrorJob' = [mirrorJob EXCEPT ![x].session = issued + 1, ![x].pc = "send"]
      <4>1. Goes(x, issued + 1, "send")
        BY <2>0, <3>2, JobGoes
      <4>2. slot'.id = issued + 1 /\ slot'.live /\ slot'.kind = "active"
        BY <3>2
      <4>3. slotOwner' = "free" /\ ended' = ended
        BY <2>6 DEF CreateSession
      <4>4. 1 .. issued' = (1 .. issued) \cup {issued + 1} /\ 0 .. issued \subseteq 0 .. issued'
        BY <2>0, <3>2
      <4> QED BY <2>0, <3>1, <3>2, <4>1, <4>2, <4>3, <4>4 DEF SessionInv, Goes
    <3>3. CASE /\ \E kind \in {"unsupported", "failed"} : slot' = [kind |-> kind, id |-> 0, live |-> TRUE]
               /\ mirrorJob' = [mirrorJob EXCEPT ![x].session = 0,
                                  ![x].pc = IF mirrorJob[x].round = 2 THEN "failed" ELSE "send"]
               /\ UNCHANGED <<issued, valid>>
      <4>1. \E pc \in {"failed", "send"} : Goes(x, 0, pc)
        BY <2>0, <3>3, JobGoes
      <4>2. slot'.id = 0
        BY <3>3
      <4>3. slotOwner' = "free" /\ ended' = ended
        BY <2>6 DEF CreateSession
      <4> QED BY <2>0, <3>1, <3>3, <4>1, <4>2, <4>3 DEF SessionInv, Goes
    <3> QED BY <2>6, <3>2, <3>3 DEF CreateSession
  <2>7. ASSUME NEW x \in Exchange, Invalidate(x) PROVE SessionInv'
    <3>1. Goes(x, mirrorJob[x].session, "session")
      BY <2>0, <2>7, JobGoes DEF Invalidate
    <3>2. mirrorJob[x].session \in ended \cup {0}
      BY <2>7 DEF Invalidate, At, SessionInv
    <3>3. slot' = slot \/ (slot' = EmptySlot /\ (slot.kind = "active" => slot.id = mirrorJob[x].session))
      BY <2>7 DEF Invalidate, Invalidated
    <3>4. UNCHANGED <<slotOwner, valid, issued, ended>> /\ slotOwner = "free"
      BY <2>7 DEF Invalidate
    <3>5. \A i \in 1 .. issued : i \in ended \/ (slot'.live /\ slot'.kind = "active" /\ slot'.id = i)
      BY <2>0, <3>2, <3>3 DEF SessionInv
    <3>6. slot'.id \in 0 .. issued
      BY <2>0, <3>3 DEF EmptySlot
    <3> QED BY <2>0, <3>1, <3>4, <3>5, <3>6 DEF SessionInv, Goes
  <2>8. ASSUME NEW x \in Exchange, Attempt(x) PROVE SessionInv'
    <3> DEFINE pc == IF mirrorJob[x].tries + 1 < HttpAttempts THEN "send" ELSE "failed"
               n == mirrorJob[x].tries + 1
    <3>1. CASE mirrorJob' = [mirrorJob EXCEPT ![x].tries = n, ![x].pc = pc]
      <4>1. pc # "rejected"
        OBVIOUS
      <4>2. Goes(x, mirrorJob[x].session, pc)
        <5> HIDE DEF n, pc
        <5> QED BY <2>0, <3>1, JobGoes
      <4> HIDE DEF pc
      <4> QED BY <2>8, <4>1, <4>2, JobKeepsSession DEF Attempt
    <3>2. CASE \E to \in {"answered", "rejected", "failed"} :
                 Step(x, to) /\ (to = "rejected" => mirrorJob[x].session \notin valid)
      BY <2>1, <2>8, <3>2 DEF Attempt
    <3>3. [mirrorJob EXCEPT ![x].tries = @ + 1, ![x].pc = pc]
             = [mirrorJob EXCEPT ![x].tries = n, ![x].pc = pc]
      OBVIOUS
    <3> QED BY <2>8, <3>1, <3>2, <3>3 DEF Attempt
  <2>9. ASSUME NEW x \in Exchange, Deliver(x) PROVE SessionInv'
    BY <2>1, <2>9 DEF Deliver
  <2>10. ASSUME NEW x \in Exchange, StopWaiting(x) PROVE SessionInv'
    BY <2>2, <2>10 DEF StopWaiting
  <2>11. ASSUME NEW x \in Exchange, NEW q \in {0, 1}, NEW a \in BOOLEAN, Weigh(x, q, a)
         PROVE SessionInv'
    BY <2>2, <2>11 DEF Weigh
  <2>12. CASE Receive
    BY <2>2, <2>12 DEF Receive
  <2>13. CASE StartMirror
    BY <2>1, <2>13, BridgeAssumption DEF StartMirror, BridgeTypeOK, BridgeAssumption
  <2>14. CASE SlotAges
    <3>1. slot'.id = slot.id
      BY <2>0, <2>14 DEF SlotAges, Slot
    <3>2. UNCHANGED <<mirrorJob, slotOwner, valid, issued>> /\ slotOwner = "free"
      BY <2>14 DEF SlotAges
    <3>3. ended' = ended \cup ({slot.id} \ {0})
      BY <2>14 DEF SlotAges
    <3>4. ended' \subseteq 1 .. issued /\ \A i \in 1 .. issued : i \in ended'
      <4>1. {slot.id} \ {0} \subseteq 1 .. issued
        BY <2>0
      <4>2. \A i \in 1 .. issued : i \in ended \/ i = slot.id
        BY DEF SessionInv
      <4>3. \A i \in 1 .. issued : i # 0
        BY <2>0
      <4> HIDE DEF SessionInv
      <4> QED BY <2>0, <3>3, <4>1, <4>2, <4>3
    <3> QED BY <2>0, <3>1, <3>2, <3>3, <3>4 DEF SessionInv
  <2>15. CASE ServerRestarts
    <3>1. UNCHANGED <<mirrorJob, slot, slotOwner, issued>> /\ ended' = ended \cup valid /\ valid' = {}
      BY <2>15 DEF ServerRestarts
    <3> QED BY <2>0, <3>1 DEF SessionInv
  <2>16. CASE BridgeDone \/ UNCHANGED bridgeVars
    BY <2>2, <2>16 DEF BridgeDone, bridgeVars, sessionVars
  <2> QED BY <2>3, <2>4, <2>5, <2>6, <2>7, <2>8, <2>9, <2>10, <2>11, <2>12, <2>13, <2>14, <2>15, <2>16
          DEF BridgeNext
<1> QED BY <1>1, <1>2, OneSessionLeft, BridgeTypes, PTL DEF BridgeSpec

-----------------------------------------------------------------------------
(* The AARNN bridge: its promotion gate.                                   *)

\* An exchange is judged once, after which its caller keeps what it chose, and adds at
\* most four samples to the history.
GateInv ==
  /\ \A x \in judged : caller[x] \in {"aarnn", "kept"} /\ x \notin Speech
  /\ \A x \in Exchange : caller[x] = "weighing" => x \notin Speech
  /\ Len(samples) <= 4 * Cardinality(judged)
  /\ PromotionIsSustained

\* A caller that was not judged moves, to be weighed only when it is not speech.
LEMMA CallerKeepsGate ==
  ASSUME BridgeTypeOK, GateInv, UNCHANGED gateVars, NEW x \in Exchange, x \notin judged,
         NEW to, caller' = [caller EXCEPT ![x] = to], to = "weighing" => x \notin Speech
  PROVE  GateInv'
BY DEF BridgeTypeOK, GateInv, gateVars, PromotionIsSustained

\* AARNN's reply replaces a provider's as sustained only after enough exchanges were
\* judged: although one is sampled up to four times, (Sustained + 2) / 4 of them at least
\* stand behind it, whatever the history window forgets (evaluate_candidate).
THEOREM Sustains == BridgeSpec => []PromotionIsSustained
<1>1. BridgeInit => GateInv
  <2> SUFFICES ASSUME BridgeInit PROVE GateInv
    OBVIOUS
  <2>1. Len(samples) = 0 /\ Cardinality(judged) = 0
    BY FS_EmptySet DEF BridgeInit
  <2> QED BY <2>1 DEF BridgeInit, GateInv, PromotionIsSustained
<1>2. BridgeTypeOK /\ GateInv /\ [BridgeNext]_bridgeVars => GateInv'
  <2> SUFFICES ASSUME BridgeTypeOK, GateInv, [BridgeNext]_bridgeVars PROVE GateInv'
    OBVIOUS
  <2>1. ASSUME UNCHANGED caller, UNCHANGED gateVars PROVE GateInv'
    BY <2>1 DEF GateInv, gateVars, PromotionIsSustained
  <2>2. ASSUME NEW x \in Exchange, Enqueue(x) PROVE GateInv'
    <3>1. x \notin judged
      BY <2>2 DEF Enqueue, GateInv
    <3>2. \/ caller' = [caller EXCEPT ![x] = "waiting"]
          \/ caller' = [caller EXCEPT ![x] = "llm"]
      BY <2>2 DEF Enqueue
    <3>3. UNCHANGED gateVars
      BY <2>2 DEF Enqueue
    <3> QED BY <3>1, <3>2, <3>3, CallerKeepsGate
  <2>3. ASSUME NEW x \in Exchange, MirrorSpeech(x) PROVE GateInv'
    <3>1. x \notin judged
      BY <2>3 DEF MirrorSpeech, GateInv
    <3> QED BY <2>3, <3>1, CallerKeepsGate DEF MirrorSpeech
  <2>4. ASSUME NEW x \in Exchange, LockSlot(x) \/ CreateSession(x) \/ Invalidate(x) \/ Attempt(x)
        PROVE GateInv'
    BY <2>1, <2>4 DEF LockSlot, CreateSession, Invalidate, Attempt
  <2>5. ASSUME NEW x \in Exchange, Deliver(x) PROVE GateInv'
    <3>1. CASE caller[x] # "waiting"
      <4>1. UNCHANGED <<caller, gateVars>>
        BY <2>5, <3>1 DEF Deliver, BridgeTypeOK
      <4> QED BY <2>1, <4>1
    <3>2. CASE caller[x] = "waiting"
      <4> DEFINE to == IF At(x, "answered") /\ x \notin Speech THEN "weighing" ELSE "llm"
      <4>1. x \notin judged
        BY <3>2 DEF GateInv
      <4>2. caller' = [caller EXCEPT ![x] = to]
        BY <2>5, <3>2 DEF Deliver, BridgeTypeOK
      <4>3. to = "weighing" => x \notin Speech
        OBVIOUS
      <4> HIDE DEF to
      <4> QED BY <2>5, <4>1, <4>2, <4>3, CallerKeepsGate DEF Deliver
    <3> QED BY <3>1, <3>2
  <2>6. ASSUME NEW x \in Exchange, StopWaiting(x) PROVE GateInv'
    <3>1. x \notin judged
      BY <2>6 DEF StopWaiting, GateInv
    <3> QED BY <2>6, <3>1, CallerKeepsGate DEF StopWaiting
  <2>7. ASSUME NEW x \in Exchange, NEW q \in {0, 1}, NEW a \in BOOLEAN, Weigh(x, q, a)
        PROVE GateInv'
    <3> DEFINE v == Judged(Push(samples, q), q, a)
    <3>1. x \notin judged /\ x \notin Speech
      BY <2>7 DEF Weigh, GateInv
    <3>2. judged' = judged \cup {x} /\ IsFiniteSet(judged)
      BY <2>7 DEF Weigh, BridgeTypeOK
    <3>3. Cardinality(judged') = Cardinality(judged) + 1 /\ Cardinality(judged) \in Nat
      BY <3>1, <3>2, FS_AddElement, FS_CardinalityType
    <3>4. PICK p \in {0, 1} : samples' = Push(v.samples, p)
      BY <2>7 DEF Weigh
    <3>5. /\ samples' \in Seq({0, 1}) /\ Len(samples') <= Len(samples) + 4
          /\ v.sustained => Len(samples) + 2 >= Sustained
      BY <3>4, JudgedGrows DEF BridgeTypeOK
    <3>6. Len(samples) \in Nat /\ Len(samples') \in Nat /\ Sustained \in Nat
          /\ Len(samples) <= 4 * Cardinality(judged)
      BY <3>5, BridgeAssumption DEF BridgeTypeOK, BridgeAssumption, GateInv
    <3>7. Len(samples') <= 4 * Cardinality(judged')
      BY <3>3, <3>5, <3>6
    <3>8. v.sustained => 4 * Cardinality(judged') >= Sustained + 2
      BY <3>3, <3>5, <3>6
    <3>9. /\ sustainedBy' = [sustainedBy EXCEPT ![x] = IF v.sustained THEN Cardinality(judged') ELSE 0]
          /\ caller' = [caller EXCEPT ![x] = IF v.promoted THEN "aarnn" ELSE "kept"]
      BY <2>7 DEF Weigh
    <3> HIDE DEF v
    <3>10. PromotionIsSustained'
      BY <3>8, <3>9 DEF GateInv, PromotionIsSustained, BridgeTypeOK
    <3>11. \A y \in judged' : caller'[y] \in {"aarnn", "kept"} /\ y \notin Speech
      BY <3>1, <3>2, <3>9 DEF GateInv, BridgeTypeOK
    <3>12. \A y \in Exchange : caller'[y] = "weighing" => y \notin Speech
      BY <3>9 DEF GateInv, BridgeTypeOK
    <3> QED BY <3>7, <3>10, <3>11, <3>12 DEF GateInv
  <2>8. CASE Receive \/ StartMirror \/ SlotAges \/ ServerRestarts
    BY <2>1, <2>8 DEF Receive, StartMirror, SlotAges, ServerRestarts
  <2>9. CASE BridgeDone \/ UNCHANGED bridgeVars
    BY <2>1, <2>9 DEF BridgeDone, bridgeVars, gateVars
  <2> QED BY <2>2, <2>3, <2>4, <2>5, <2>6, <2>7, <2>8, <2>9 DEF BridgeNext
<1>3. GateInv => PromotionIsSustained
  BY DEF GateInv
<1> QED BY <1>1, <1>2, <1>3, BridgeTypes, PTL DEF BridgeSpec

-----------------------------------------------------------------------------
(* The interaction ledger: types.                                          *)

\* A worker, a row and an admission are the records of their fields.
WorkerFields(w) ==
  w = [pc |-> w.pc, batch |-> w.batch, entry |-> w.entry, failed |-> w.failed, seen |-> w.seen]
WorkerTyped(w) ==
  /\ w.pc \in MirrorPc /\ w.batch \in SUBSET Entry /\ w.entry \in Entry \cup {NoEntry}
  /\ w.failed \in BOOLEAN /\ w.seen \in 0 .. Snapshots
RowFields(w) ==
  w = [mirror |-> w.mirror, attempts |-> w.attempts, due |-> w.due, closed |-> w.closed,
       sample |-> w.sample]
RowTyped(w) ==
  /\ w.mirror \in {"none", "retry", "mirrored", "failed"} /\ w.attempts \in Nat
  /\ w.due \in BOOLEAN /\ w.closed \in BOOLEAN /\ w.sample \in BOOLEAN

LEMMA WorkerType == \A w : WorkerFields(w) /\ WorkerTyped(w) => w \in MirrorWorker
BY DEF WorkerFields, WorkerTyped, MirrorWorker

LEMMA RowType == \A w : RowFields(w) /\ RowTyped(w) => w \in LedgerRow
BY DEF RowFields, RowTyped, LedgerRow

\* The row that mark_mirror_success writes.
LEMMA AfterSuccessType ==
  ASSUME NEW w \in LedgerRow
  PROVE  AfterSuccess(w) \in LedgerRow /\ AfterSuccess(w).mirror = "mirrored"
<1>1. ASSUME NEW v, v = AfterSuccess(w) PROVE RowFields(v)
  BY <1>1 DEF AfterSuccess, RowFields, LedgerRow
<1>2. ASSUME NEW v, v = AfterSuccess(w) PROVE RowTyped(v) /\ v.mirror = "mirrored"
  BY <1>2, LedgerAssumption DEF AfterSuccess, RowTyped, LedgerRow, LedgerAssumption
<1> QED BY <1>1, <1>2, RowType

\* The row that mark_mirror_retry writes: one attempt more, closed when it was the last.
LEMMA AfterFailureType ==
  ASSUME NEW w \in LedgerRow
  PROVE  /\ AfterFailure(w) \in LedgerRow /\ AfterFailure(w).attempts = w.attempts + 1
         /\ AfterFailure(w).mirror = IF w.attempts + 1 >= MirrorAttempts THEN "failed" ELSE "retry"
<1>1. ASSUME NEW v, v = AfterFailure(w) PROVE RowFields(v)
  BY <1>1 DEF AfterFailure, RowFields, LedgerRow
<1>2. ASSUME NEW v, v = AfterFailure(w)
      PROVE  /\ RowTyped(v) /\ v.attempts = w.attempts + 1
             /\ v.mirror = IF w.attempts + 1 >= MirrorAttempts THEN "failed" ELSE "retry"
  <2>0. w.attempts \in Nat /\ w.attempts + 1 \in Nat /\ w.sample \in BOOLEAN
    BY DEF LedgerRow
  <2>1. CASE w.attempts + 1 >= MirrorAttempts
    <3>1. v = [w EXCEPT !.attempts = @ + 1, !.mirror = "failed", !.closed = TRUE, !.due = TRUE]
      BY <1>2, <2>1 DEF AfterFailure
    <3>2. /\ v.mirror = "failed" /\ v.attempts = w.attempts + 1 /\ v.closed = TRUE /\ v.due = TRUE
          /\ v.sample = w.sample
      BY <3>1 DEF LedgerRow
    <3> QED BY <2>0, <2>1, <3>2 DEF RowTyped
  <2>2. CASE ~(w.attempts + 1 >= MirrorAttempts)
    <3>1. v = [w EXCEPT !.attempts = @ + 1, !.mirror = "retry", !.due = FALSE]
      BY <1>2, <2>2 DEF AfterFailure
    <3>2. /\ v.mirror = "retry" /\ v.attempts = w.attempts + 1 /\ v.closed = w.closed
          /\ v.due = FALSE /\ v.sample = w.sample /\ w.closed \in BOOLEAN
      BY <3>1 DEF LedgerRow
    <3> QED BY <2>0, <2>2, <3>2 DEF RowTyped
  <2> QED BY <2>1, <2>2
<1> QED BY <1>1, <1>2, RowType

\* The type of the worker: each of its steps, one by one.
LEMMA WorkerStays ==
  ASSUME LedgerTypeOK, LedgerNext
  PROVE  worker' \in MirrorWorker
<1>0. /\ worker \in MirrorWorker /\ IdleWorker \in MirrorWorker
      /\ pointer.now \in 0 .. Snapshots
  BY LedgerAssumption DEF LedgerTypeOK, IdleWorker, MirrorWorker, MirrorPc, LedgerAssumption
<1>1. CASE UNCHANGED worker \/ worker' = IdleWorker
  BY <1>0, <1>1
<1>2. CASE Fetch
  <2> DEFINE due == {i \in DOMAIN ids : Pending(ids[i])}
             batch == {ids[i] : i \in {i \in due : Cardinality({j \in due : j < i}) < BatchSize}}
             entries == {[id |-> r, pending |-> row[r].mirror \notin {"mirrored", "failed"}] :
                           r \in batch}
  <2>1. worker' = [IdleWorker EXCEPT !.pc = "take", !.batch = entries]
    BY <1>2 DEF Fetch
  <2>2. batch \subseteq Record
    <3>1. \A i \in DOMAIN ids : ids[i] \in Record
      BY DEF LedgerTypeOK
    <3> QED BY <3>1
  <2>3. entries \in SUBSET Entry
    <3> HIDE DEF batch
    <3>1. ASSUME NEW r \in batch
          PROVE  [id |-> r, pending |-> row[r].mirror \notin {"mirrored", "failed"}] \in Entry
      BY <2>2 DEF Entry
    <3> QED BY <3>1
  <2> HIDE DEF entries
  <2>4. WorkerFields(worker')
    <3>1. ASSUME NEW w, w = [IdleWorker EXCEPT !.pc = "take", !.batch = entries] PROVE WorkerFields(w)
      BY <3>1 DEF WorkerFields, IdleWorker
    <3> QED BY <2>1, <3>1
  <2>5. WorkerTyped(worker')
    BY <2>1, <2>3, LedgerAssumption DEF WorkerTyped, IdleWorker, MirrorPc, LedgerAssumption
  <2> QED BY <2>4, <2>5, WorkerType
<1>3. CASE Take
  <2>1. CASE worker.batch = {}
    BY <1>0, <1>3, <2>1 DEF Take
  <2>2. CASE worker.batch # {}
    <3> PICK e \in worker.batch :
          worker' = [IdleWorker EXCEPT !.pc = "replay", !.batch = worker.batch \ {e}, !.entry = e]
      BY <1>3, <2>2 DEF Take
    <3>1. e \in Entry /\ worker.batch \ {e} \in SUBSET Entry
      BY <1>0 DEF MirrorWorker
    <3>2. WorkerFields(worker')
      <4>1. ASSUME NEW w,
                   w = [IdleWorker EXCEPT !.pc = "replay", !.batch = worker.batch \ {e}, !.entry = e]
            PROVE  WorkerFields(w)
        BY <4>1 DEF WorkerFields, IdleWorker
      <4> QED BY <4>1
    <3>3. WorkerTyped(worker')
      BY <3>1, LedgerAssumption DEF WorkerTyped, IdleWorker, MirrorPc, LedgerAssumption
    <3> QED BY <3>2, <3>3, WorkerType
  <2> QED BY <2>1, <2>2
<1>4. CASE ReplayEntry
  <2> PICK ok \in BOOLEAN :
        worker' = [worker EXCEPT !.pc = "sample", !.failed = worker.entry.pending /\ ~ok]
    BY <1>4 DEF ReplayEntry
  <2> DEFINE f == worker.entry.pending /\ ~ok
  <2>0. worker' = [worker EXCEPT !.pc = "sample", !.failed = f] /\ f \in BOOLEAN
    OBVIOUS
  <2> HIDE DEF f
  <2>1. WorkerFields(worker')
    <3>1. ASSUME NEW w, w = [worker EXCEPT !.pc = "sample", !.failed = f] PROVE WorkerFields(w)
      BY <1>0, <3>1 DEF WorkerFields, MirrorWorker
    <3> QED BY <2>0, <3>1
  <2>2. WorkerTyped(worker')
    BY <1>0, <2>0 DEF WorkerTyped, MirrorWorker, MirrorPc
  <2> QED BY <2>1, <2>2, WorkerType
<1>5. CASE Compare
  <2> DEFINE to == IF ~validating THEN "sampled"
                   ELSE IF worker.entry.id \in Unanswered THEN "mark"
                   ELSE IF worker.entry.id \in Concealed \/ pointer.now = 0 THEN "sampled" ELSE "answer"
  <2>1. worker' = [worker EXCEPT !.seen = pointer.now, !.pc = to] /\ to \in MirrorPc
    BY <1>5 DEF Compare, MirrorPc
  <2> HIDE DEF to
  <2>2. WorkerFields(worker')
    <3>1. ASSUME NEW w, w = [worker EXCEPT !.seen = pointer.now, !.pc = to] PROVE WorkerFields(w)
      BY <1>0, <3>1 DEF WorkerFields, MirrorWorker
    <3> QED BY <2>1, <3>1
  <2>3. WorkerTyped(worker')
    BY <1>0, <2>1 DEF WorkerTyped, MirrorWorker
  <2> QED BY <2>2, <2>3, WorkerType
<1>6. CASE \E to \in {"verdict", "sampled", "mark"} : worker' = [worker EXCEPT !.pc = to]
  BY <1>0, <1>6 DEF MirrorWorker, MirrorPc
<1>7. CASE MarkMirrored
  <2>1. worker' = [worker EXCEPT !.pc = "take", !.entry = NoEntry, !.failed = FALSE]
    BY <1>7 DEF MarkMirrored
  <2>2. WorkerFields(worker')
    <3>1. ASSUME NEW w, w = [worker EXCEPT !.pc = "take", !.entry = NoEntry, !.failed = FALSE]
          PROVE  WorkerFields(w)
      BY <1>0, <3>1 DEF WorkerFields, MirrorWorker
    <3> QED BY <2>1, <3>1
  <2>3. WorkerTyped(worker')
    BY <1>0, <2>1 DEF WorkerTyped, MirrorWorker, MirrorPc
  <2> QED BY <2>2, <2>3, WorkerType
<1>8. CASE Answer
  BY <1>1, <1>6, <1>8 DEF Answer
<1>9. CASE Verdict \/ MarkSampled
  BY <1>6, <1>9 DEF Verdict, MarkSampled
<1> QED BY <1>1, <1>2, <1>3, <1>4, <1>5, <1>7, <1>8, <1>9
    DEF LedgerNext, Send, Admitted, GiveUp, RetryDue, SampleDue, PersistRecord, CooldownEnds,
        Publish, Restore, ScheduleSamples, MirrorWorkerDies, mirrorVars

\* One more observation of version v, and the counts it starts from.
LEMMA ObservedType ==
  ASSUME admission \in Admission, NEW v \in 0 .. Snapshots, NEW useful \in BOOLEAN
  PROVE  LET a == Observed(v, useful)
             same == admission.version = v /\ admission.samples > 0
         IN  /\ a \in Admission /\ a.version = v /\ ~a.admitted
             /\ a.samples = IF same THEN admission.samples + 1 ELSE 1
             /\ a.useful = (IF same THEN admission.useful ELSE 0) + (IF useful THEN 1 ELSE 0)
BY SMTT(30) DEF Observed, Admission

\* The steps of a row: the mirror worker's verdict on one, or a change of when it is due.
LEMMA RowStays ==
  ASSUME LedgerTypeOK, LedgerNext
  PROVE  row' \in [Record -> LedgerRow]
<1>0. row \in [Record -> LedgerRow]
  BY DEF LedgerTypeOK
<1>1. CASE UNCHANGED row
  BY <1>0, <1>1
<1>2. CASE \E r \in Record, b \in BOOLEAN : row' = [row EXCEPT ![r].due = b]
  BY <1>0, <1>2 DEF LedgerRow
<1>3. CASE \E r, b : b \in BOOLEAN /\ row' = [row EXCEPT ![r].sample = b]
  BY <1>0, <1>3, ZenonT(60) DEF LedgerRow
<1>4. CASE ScheduleSamples
  <2>1. \A r \in Record : [row[r] EXCEPT !.sample = TRUE] \in LedgerRow
    BY <1>0 DEF LedgerRow
  <2> QED BY <1>0, <1>4, <2>1 DEF ScheduleSamples
<1>5. CASE MarkMirrored
  <2> DEFINE r == worker.entry.id
  <2>1. CASE r \notin Record
    BY <1>0, <1>5, <2>1 DEF MarkMirrored
  <2>2. CASE r \in Record
    <3>1. \/ row' = row
          \/ row' = [row EXCEPT ![r] = IF worker.failed THEN AfterFailure(row[r]) ELSE AfterSuccess(row[r])]
      BY <1>0, <1>5 DEF MarkMirrored
    <3>2. AfterFailure(row[r]) \in LedgerRow /\ AfterSuccess(row[r]) \in LedgerRow
      BY <1>0, <2>2, AfterFailureType, AfterSuccessType
    <3> HIDE DEF r
    <3> QED BY <1>0, <2>2, <3>1, <3>2
  <2> QED BY <2>1, <2>2
<1> QED BY <1>1, <1>2, <1>3, <1>4, <1>5
    DEF LedgerNext, Send, Admitted, GiveUp, RetryDue, SampleDue, PersistRecord, CooldownEnds,
        Publish, Restore, Fetch, Take, ReplayEntry, Compare, Answer, Verdict, MarkSampled,
        MirrorWorkerDies

(* Type correctness of the ledger: its queue, rows, worker and verdicts keep
   their types whatever is lost, retried or interrupted. *)
THEOREM LedgerTypes == LedgerSpec => []LedgerTypeOK
<1>1. LedgerInit => LedgerTypeOK
  <2> SUFFICES ASSUME LedgerInit PROVE LedgerTypeOK
    OBVIOUS
  <2>1. NewRow \in LedgerRow
    BY DEF NewRow, LedgerRow
  <2>2. IdleWorker \in MirrorWorker
    BY LedgerAssumption DEF IdleWorker, MirrorWorker, MirrorPc, LedgerAssumption
  <2>3. /\ pointer \in [now : 0 .. Snapshots, before : 0 .. Snapshots + 1]
        /\ admission \in Admission
    BY LedgerAssumption DEF LedgerInit, Admission, LedgerAssumption
  <2>4. queue \in Seq(Record) /\ ids \in Seq(Record)
    BY DEF LedgerInit
  <2>5. /\ fate \in [Record -> {"new", "sent", "dropped", "filed", "lost"}]
        /\ row \in [Record -> LedgerRow]
        /\ replays \in [Record -> Nat] /\ earned \in [1 .. Snapshots -> Nat]
    BY <2>1 DEF LedgerInit
  <2> QED BY <2>2, <2>3, <2>4, <2>5 DEF LedgerInit, LedgerTypeOK
<1>2. LedgerTypeOK /\ [LedgerNext]_ledgerVars => LedgerTypeOK'
  <2> SUFFICES ASSUME LedgerTypeOK, LedgerNext PROVE LedgerTypeOK'
    BY DEF ledgerVars, LedgerTypeOK
  <2> DEFINE Rest == UNCHANGED <<pointer, admission, validating, replays, delivered, earned>>
             Store == UNCHANGED <<queue, sending, fate, cooling, ids>>
             Logs == UNCHANGED <<pointer, admission, validating, earned>>
  <2>0. /\ worker' \in MirrorWorker /\ row' \in [Record -> LedgerRow]
        /\ mishaps' = mishaps \/ mishaps' = mishaps + 1 => mishaps' \in Nat
    BY WorkerStays, RowStays DEF LedgerTypeOK
  <2>1. ASSUME NEW r \in Record, Send(r) \/ Admitted(r) \/ GiveUp(r) PROVE LedgerTypeOK'
    <3>1. queue' = queue \/ queue' = Append(queue, r)
      BY <2>1 DEF Send, Admitted, GiveUp
    <3>2. queue' \in Seq(Record)
      <4>1. Append(queue, r) \in Seq(Record)
        BY DEF LedgerTypeOK
      <4> QED BY <3>1, <4>1 DEF LedgerTypeOK
    <3>3. fate' \in [Record -> {"new", "sent", "dropped", "filed", "lost"}] /\ sending' \in SUBSET Record
      BY <2>1 DEF Send, Admitted, GiveUp, LedgerTypeOK
    <3>4. UNCHANGED <<cooling, ids, row, pointer, validating, mishaps>> /\ UNCHANGED mirrorVars
      BY <2>1 DEF Send, Admitted, GiveUp
    <3> QED BY <2>0, <3>2, <3>3, <3>4 DEF LedgerTypeOK, mirrorVars
  <2>2. CASE PersistRecord
    <3>1. Head(queue) \in Record /\ Tail(queue) \in Seq(Record)
      BY <2>2 DEF PersistRecord, LedgerTypeOK
    <3>2. Append(ids, Head(queue)) \in Seq(Record)
      BY <3>1 DEF LedgerTypeOK
    <3>3. ids' \in Seq(Record) /\ cooling' \in BOOLEAN
          /\ fate' \in [Record -> {"new", "sent", "dropped", "filed", "lost"}]
      BY <2>2, <3>1, <3>2 DEF PersistRecord, LedgerTypeOK
    <3>4. mishaps' \in Nat
      BY <2>0, <2>2 DEF PersistRecord, Mishap, Smooth
    <3> QED BY <2>0, <2>2, <3>1, <3>3, <3>4 DEF PersistRecord, LedgerTypeOK, mirrorVars
  <2>3. ASSUME NEW r \in Record, RetryDue(r) \/ SampleDue(r) PROVE LedgerTypeOK'
    BY <2>0, <2>3 DEF RetryDue, SampleDue, LedgerTypeOK, mirrorVars, storeVars
  <2>4. CASE CooldownEnds
    BY <2>0, <2>4 DEF CooldownEnds, LedgerTypeOK, mirrorVars
  <2>5. CASE Publish \/ Restore \/ ScheduleSamples
    <3>1. pointer' \in [now : 0 .. Snapshots, before : 0 .. Snapshots + 1]
      <4>1. /\ pointer \in [now : 0 .. Snapshots, before : 0 .. Snapshots + 1] /\ Snapshots \in Nat
            /\ pointer.now \in 0 .. Snapshots /\ pointer.before \in 0 .. Snapshots + 1
        BY LedgerAssumption DEF LedgerTypeOK, LedgerAssumption
      <4>2. CASE Publish
        <5>1. pointer' = [now |-> pointer.now + 1, before |-> pointer.now] /\ pointer.now < Snapshots
          BY <4>2 DEF Publish
        <5>2. pointer.now + 1 \in 0 .. Snapshots /\ pointer.now \in 0 .. Snapshots + 1
          BY <4>1, <5>1
        <5> QED BY <5>1, <5>2
      <4>3. CASE Restore
        <5>1. pointer' = [now |-> pointer.before, before |-> Snapshots + 1]
              /\ pointer.before < pointer.now
          BY <4>3 DEF Restore
        <5>2. pointer.before \in 0 .. Snapshots /\ Snapshots + 1 \in 0 .. Snapshots + 1
          BY <4>1, <5>1
        <5> QED BY <5>1, <5>2
      <4>4. CASE ScheduleSamples
        <5>1. pointer' = [pointer EXCEPT !.before = pointer.now]
          BY <4>4 DEF ScheduleSamples
        <5>2. pointer.now \in 0 .. Snapshots + 1
          BY <4>1
        <5> QED BY <4>1, <5>1, <5>2
      <4> QED BY <2>5, <4>2, <4>3, <4>4
    <3> QED BY <2>0, <2>5, <3>1
        DEF Publish, Restore, ScheduleSamples, LedgerTypeOK, mirrorVars, storeVars
  <2>6. CASE Fetch \/ Take \/ Compare
    BY <2>0, <2>6 DEF Fetch, Take, Compare, LedgerTypeOK, storeVars
  <2>7. CASE ReplayEntry
    <3>1. worker.entry.pending => worker.entry.id \in Record
      BY DEF LedgerTypeOK, MirrorWorker, Entry, NoEntry
    <3>2. delivered' \in SUBSET Record
      BY <2>7, <3>1 DEF ReplayEntry, LedgerTypeOK
    <3>3. replays' \in [Record -> Nat]
      <4> DEFINE x == worker.entry.id
      <4>1. \/ replays' = [replays EXCEPT ![x] = replays[x] + 1]
            \/ replays' = [replays EXCEPT ![x] = replays[x]]
        BY <2>7 DEF ReplayEntry
      <4>2. replays \in [Record -> Nat]
        BY DEF LedgerTypeOK
      <4> HIDE DEF x
      <4>3. CASE x \in Record
        <5>1. replays[x] \in Nat /\ replays[x] + 1 \in Nat
          BY <4>2, <4>3
        <5> QED BY <4>1, <4>2, <5>1
      <4>4. CASE x \notin Record
        BY <4>1, <4>2, <4>4
      <4> QED BY <4>3, <4>4
    <3> QED BY <2>0, <2>7, <3>2, <3>3 DEF ReplayEntry, LedgerTypeOK, storeVars
  <2>8. CASE Answer
    <3>1. worker.seen \in 0 .. Snapshots /\ pointer.now \in 0 .. Snapshots
      BY DEF LedgerTypeOK, MirrorWorker
    <3>2. admission' \in Admission
      <4>1. \A v \in 0 .. Snapshots, useful \in BOOLEAN : Observed(v, useful) \in Admission
        BY ObservedType DEF LedgerTypeOK
      <4>2. \/ \E useful \in BOOLEAN : admission' = Observed(worker.seen, useful)
            \/ admission' = Observed(pointer.now, FALSE)
            \/ admission' = admission
        BY <2>8 DEF Answer
      <4> QED BY <3>1, <4>1, <4>2 DEF LedgerTypeOK
    <3>3. earned' \in [1 .. Snapshots -> Nat]
      <4> DEFINE x == worker.seen
      <4>1. \/ earned' = [earned EXCEPT ![x] = earned[x] + 1]
            \/ earned' = [earned EXCEPT ![x] = earned[x]]
            \/ earned' = earned
        BY <2>8 DEF Answer
      <4> HIDE DEF x
      <4> QED BY <4>1 DEF LedgerTypeOK
    <3>4. mishaps' \in Nat
      BY <2>0, <2>8 DEF Answer
    <3> QED BY <2>0, <2>8, <3>2, <3>3, <3>4 DEF Answer, LedgerTypeOK, storeVars
  <2>9. CASE Verdict
    <3>1. admission' \in Admission
      BY <2>9 DEF Verdict, LedgerTypeOK, Admission
    <3>2. mishaps' \in Nat
      BY <2>0, <2>9 DEF Verdict, Mishap, Smooth
    <3>3. worker' \in MirrorWorker
      <4>1. \/ worker' = [worker EXCEPT !.pc = "sampled"]
            \/ worker' = [worker EXCEPT !.pc = "mark"]
        BY <2>9 DEF Verdict
      <4> QED BY <4>1 DEF LedgerTypeOK, MirrorWorker, MirrorPc
    <3> QED BY <2>0, <2>9, <3>1, <3>2, <3>3 DEF Verdict, LedgerTypeOK, storeVars
  <2>10. CASE MarkSampled \/ MarkMirrored \/ MirrorWorkerDies
    <3>1. mishaps' \in Nat
      BY <2>0, <2>10 DEF MarkSampled, MarkMirrored, MirrorWorkerDies, Mishap, Smooth
    <3> QED BY <2>0, <2>10, <3>1 DEF MarkSampled, MarkMirrored, MirrorWorkerDies, LedgerTypeOK, storeVars
  <2> QED BY <2>1, <2>2, <2>3, <2>4, <2>5, <2>6, <2>7, <2>8, <2>9, <2>10 DEF LedgerNext
<1> QED BY <1>1, <1>2, PTL DEF LedgerSpec

-----------------------------------------------------------------------------
(* The interaction ledger: replays and what they were worth.               *)

Busy == worker.pc \notin {"idle", "take"}
Replayed == worker.pc \in {"sample", "answer", "verdict", "sampled", "mark"}
Open(r) == row[r].mirror \in {"none", "retry"}

\* A replay of r that was counted and is not yet in its row.
Uncounted(r) == IF Replayed /\ worker.entry.pending /\ worker.entry.id = r THEN 1 ELSE 0

\* What the worker holds is what the table says: an entry is pending exactly while its row
\* is open, no row is held twice, and a replay that did not fail was delivered.
HeldInv ==
  /\ \A e \in worker.batch : e.pending <=> Open(e.id)
  /\ \A e, f \in worker.batch : e.id = f.id => e = f
  /\ Busy => /\ worker.entry \in Entry
             /\ worker.entry.pending <=> Open(worker.entry.id)
             /\ \A e \in worker.batch : e.id # worker.entry.id
  /\ Replayed => /\ worker.failed => worker.entry.pending
                 /\ worker.entry.pending /\ ~worker.failed => worker.entry.id \in delivered

\* The attempts of an open row lag its replays by the one that is under way and by what
\* was lost in faults; a row is closed as failed only after all of them.
RowOK(r) ==
  /\ Open(r) => /\ row[r].attempts < MirrorAttempts
                /\ row[r].attempts + Uncounted(r) <= replays[r]
                /\ replays[r] <= row[r].attempts + mishaps + Uncounted(r)
  /\ row[r].mirror = "failed" => /\ row[r].attempts >= MirrorAttempts
                                 /\ row[r].attempts <= replays[r]
  /\ row[r].mirror = "mirrored" => r \in delivered \/ replays[r] >= MirrorAttempts
  /\ replays[r] <= MirrorAttempts + mishaps

MirrorInv == HeldInv /\ \A r \in Record : RowOK(r)

\* The mirror status and the attempts of every row stay.
SameRows ==
  \A r \in Record : row'[r].mirror = row[r].mirror /\ row'[r].attempts = row[r].attempts

LEMMA MirrorNumbers ==
  ASSUME LedgerTypeOK
  PROVE  /\ MirrorAttempts \in Nat \ {0} /\ mishaps \in Nat
         /\ \A r \in Record : /\ row[r].attempts \in Nat /\ replays[r] \in Nat
                              /\ Uncounted(r) \in {0, 1}
                              /\ row[r].mirror \in {"none", "retry", "mirrored", "failed"}
BY LedgerAssumption DEF LedgerTypeOK, LedgerRow, LedgerAssumption, Uncounted

\* What concerns neither the worker nor the status of a row keeps the invariant.
LEMMA OthersKeepMirror ==
  ASSUME LedgerTypeOK, MirrorInv, UNCHANGED <<worker, replays, delivered>>, SameRows,
         mishaps' = mishaps \/ mishaps' = mishaps + 1
  PROVE  MirrorInv'
<1>1. \A r \in Record : Open(r)' = Open(r) /\ Uncounted(r)' = Uncounted(r)
  BY DEF Open, Uncounted, Replayed, SameRows
<1>2. HeldInv'
  BY <1>1 DEF MirrorInv, HeldInv, Busy, Replayed, LedgerTypeOK, MirrorWorker, Entry
<1>3. ASSUME NEW r \in Record PROVE RowOK(r)'
  <2>1. RowOK(r)
    BY DEF MirrorInv
  <2> QED BY <1>1, <2>1, MirrorNumbers DEF RowOK, SameRows
<1> QED BY <1>2, <1>3 DEF MirrorInv

\* The worker goes on with an entry that was replayed.
LEMMA WorkKeepsMirror ==
  ASSUME LedgerTypeOK, MirrorInv, UNCHANGED <<replays, delivered>>, SameRows,
         mishaps' = mishaps \/ mishaps' = mishaps + 1, Replayed, Replayed',
         worker'.batch = worker.batch, worker'.entry = worker.entry, worker'.failed = worker.failed
  PROVE  MirrorInv'
<1>1. \A r \in Record : Open(r)' = Open(r) /\ Uncounted(r)' = Uncounted(r)
  BY DEF Open, Uncounted, SameRows
<1>2. Busy /\ Busy'
  BY DEF Busy, Replayed
<1>3. HeldInv'
  BY <1>1, <1>2 DEF MirrorInv, HeldInv, LedgerTypeOK, MirrorWorker, Entry
<1>4. ASSUME NEW r \in Record PROVE RowOK(r)'
  <2>1. RowOK(r)
    BY DEF MirrorInv
  <2> QED BY <1>1, <2>1, MirrorNumbers DEF RowOK, SameRows
<1> QED BY <1>3, <1>4 DEF MirrorInv

\* The worker lets everything go: with a fault when a replay was not yet counted.
LEMMA DropKeepsMirror ==
  ASSUME LedgerTypeOK, MirrorInv, UNCHANGED <<replays, delivered>>, SameRows,
         worker' = IdleWorker,
         mishaps' = mishaps + 1 \/ (mishaps' = mishaps /\ ~Replayed)
  PROVE  MirrorInv'
<1>1. \A r \in Record : Open(r)' = Open(r) /\ Uncounted(r)' = 0
  BY DEF Open, Uncounted, SameRows, IdleWorker, Replayed
<1>2. HeldInv'
  BY DEF HeldInv, IdleWorker, Busy, Replayed
<1>3. ASSUME NEW r \in Record PROVE RowOK(r)'
  <2>1. RowOK(r) /\ (~Replayed => Uncounted(r) = 0)
    BY DEF MirrorInv, Uncounted
  <2> QED BY <1>1, <2>1, MirrorNumbers DEF RowOK, SameRows
<1> QED BY <1>2, <1>3 DEF MirrorInv

\* fetch_pending_mirror: what is fetched agrees with the table it came from.
LEMMA FetchKeepsMirror ==
  ASSUME LedgerTypeOK, MirrorInv, Fetch
  PROVE  MirrorInv'
<1> DEFINE due == {i \in DOMAIN ids : Pending(ids[i])}
           batch == {ids[i] : i \in {i \in due : Cardinality({j \in due : j < i}) < BatchSize}}
           entry(r) == [id |-> r, pending |-> row[r].mirror \notin {"mirrored", "failed"}]
           entries == {entry(r) : r \in batch}
<1>1. /\ worker' = [IdleWorker EXCEPT !.pc = "take", !.batch = entries]
      /\ UNCHANGED <<row, replays, delivered, mishaps>> /\ worker.pc = "idle"
  BY DEF Fetch
<1>2. batch \subseteq Record
  <2>1. \A i \in DOMAIN ids : ids[i] \in Record
    BY DEF LedgerTypeOK
  <2> QED BY <2>1
<1> HIDE DEF batch
<1>3. /\ \A e \in entries : e.pending <=> Open(e.id)
      /\ \A e, f \in entries : e.id = f.id => e = f
  <2>1. \A r \in batch : row[r].mirror \in {"none", "retry", "mirrored", "failed"}
    BY <1>2, MirrorNumbers
  <2>2. \A r \in batch : entry(r).id = r /\ (entry(r).pending <=> Open(r))
    BY <2>1 DEF Open
  <2> HIDE DEF entry
  <2> QED BY <2>2
<1> HIDE DEF entries
<1>4. worker'.pc = "take" /\ worker'.batch = entries
  BY <1>1 DEF IdleWorker
<1>5. HeldInv'
  BY <1>1, <1>3, <1>4 DEF HeldInv, Busy, Replayed, Open
<1>6. \A r \in Record : Open(r)' = Open(r) /\ Uncounted(r)' = 0 /\ Uncounted(r) = 0
  BY <1>1, <1>4 DEF Open, Uncounted, Replayed
<1>7. ASSUME NEW r \in Record PROVE RowOK(r)'
  <2>1. RowOK(r)
    BY DEF MirrorInv
  <2> QED BY <1>1, <1>6, <2>1 DEF RowOK
<1> QED BY <1>5, <1>7 DEF MirrorInv

\* The worker takes one entry out of its batch, whichever.
LEMMA TakeKeepsMirror ==
  ASSUME LedgerTypeOK, MirrorInv, Take
  PROVE  MirrorInv'
<1>1. worker.pc = "take" /\ UNCHANGED <<row, replays, delivered, mishaps>>
  BY DEF Take
<1>2. CASE worker' = IdleWorker
  BY <1>1, <1>2, DropKeepsMirror DEF Replayed, SameRows
<1>3. ASSUME NEW e \in worker.batch,
             worker' = [IdleWorker EXCEPT !.pc = "replay", !.batch = worker.batch \ {e}, !.entry = e]
      PROVE  MirrorInv'
  <2>1. worker'.pc = "replay" /\ worker'.batch = worker.batch \ {e} /\ worker'.entry = e
    BY <1>3 DEF IdleWorker
  <2>2. e \in Entry /\ worker.batch \in SUBSET Entry
    BY DEF LedgerTypeOK, MirrorWorker
  <2>3. \A r : Open(r)' = Open(r) /\ Uncounted(r)' = 0 /\ Uncounted(r) = 0
    BY <1>1, <2>1 DEF Open, Uncounted, Replayed
  <2>4. HeldInv'
    BY <2>1, <2>2, <2>3 DEF MirrorInv, HeldInv, Busy, Replayed
  <2>5. ASSUME NEW r \in Record PROVE RowOK(r)'
    <3>1. RowOK(r)
      BY DEF MirrorInv
    <3> QED BY <1>1, <2>3, <3>1 DEF RowOK
  <2> QED BY <2>4, <2>5 DEF MirrorInv
<1> QED BY <1>2, <1>3 DEF Take

\* The prompt and the response are replayed: when the entry is pending its row is open, so
\* that attempts are left.
LEMMA ReplayKeepsMirror ==
  ASSUME LedgerTypeOK, MirrorInv, ReplayEntry
  PROVE  MirrorInv'
<1> DEFINE e == worker.entry
           x == e.id
<1>1. PICK ok \in BOOLEAN :
        /\ worker' = [worker EXCEPT !.pc = "sample", !.failed = e.pending /\ ~ok]
        /\ delivered' = IF e.pending /\ ok THEN delivered \cup {x} ELSE delivered
  BY DEF ReplayEntry
<1>2. /\ worker.pc = "replay" /\ UNCHANGED <<row, mishaps>>
      /\ replays' = [replays EXCEPT ![x] = IF e.pending THEN replays[x] + 1 ELSE replays[x]]
  BY DEF ReplayEntry
<1>3. /\ worker'.pc = "sample" /\ worker'.batch = worker.batch /\ worker'.entry = e
      /\ worker'.failed <=> (e.pending /\ ~ok)
  BY <1>1 DEF LedgerTypeOK, MirrorWorker
<1>4. /\ e \in Entry /\ x \in Record /\ (e.pending <=> Open(x))
      /\ \A f \in worker.batch : (f.pending <=> Open(f.id)) /\ f.id # x
      /\ \A f, g \in worker.batch : f.id = g.id => f = g
  BY <1>2 DEF MirrorInv, HeldInv, Busy, Entry
<1>5. \A r : Open(r)' = Open(r) /\ Uncounted(r) = 0
  BY <1>2 DEF Open, Uncounted, Replayed
<1>6. \A r : Uncounted(r)' = IF e.pending /\ r = x THEN 1 ELSE 0
  BY <1>3 DEF Uncounted, Replayed
<1>7. \A r \in Record : replays'[r] = replays[r] + (IF e.pending /\ r = x THEN 1 ELSE 0)
  BY <1>2, <1>4 DEF LedgerTypeOK
<1>8. HeldInv'
  BY <1>1, <1>3, <1>4, <1>5 DEF HeldInv, Busy, Replayed
<1>9. ASSUME NEW r \in Record PROVE RowOK(r)'
  <2>1. RowOK(r)
    BY DEF MirrorInv
  <2>2. r \in delivered => r \in delivered'
    BY <1>1
  <2>3. CASE e.pending /\ r = x
    <3>1. Open(r)
      BY <1>4, <2>3
    <3> QED BY <1>2, <1>5, <1>6, <1>7, <2>1, <2>2, <2>3, <3>1, MirrorNumbers DEF RowOK, Open
  <2>4. CASE ~(e.pending /\ r = x)
    <3>1. Uncounted(r)' = 0 /\ replays'[r] = replays[r]
      BY <1>6, <1>7, <2>4, MirrorNumbers
    <3> QED BY <1>2, <1>5, <2>1, <2>2, <3>1 DEF RowOK
  <2> QED BY <2>3, <2>4
<1> QED BY <1>8, <1>9 DEF MirrorInv

\* mark_mirror_success and mark_mirror_retry write what the replay was worth, or a failed
\* statement leaves the row open for another replay.
LEMMA MarkKeepsMirror ==
  ASSUME LedgerTypeOK, MirrorInv, MarkMirrored
  PROVE  MirrorInv'
<1> DEFINE e == worker.entry
           x == e.id
<1>1. /\ worker.pc = "mark" /\ UNCHANGED <<replays, delivered>>
      /\ worker' = [worker EXCEPT !.pc = "take", !.entry = NoEntry, !.failed = FALSE]
      /\ \/ row' = [row EXCEPT ![x] = IF worker.failed THEN AfterFailure(row[x]) ELSE AfterSuccess(row[x])]
            /\ mishaps' = mishaps
         \/ row' = row /\ mishaps' = mishaps + 1
  BY DEF MarkMirrored, Mishap, Smooth
<1>2. worker'.pc = "take" /\ worker'.batch = worker.batch
  BY <1>1 DEF LedgerTypeOK, MirrorWorker
<1>3. /\ e \in Entry /\ x \in Record /\ (e.pending <=> Open(x))
      /\ \A f \in worker.batch : (f.pending <=> Open(f.id)) /\ f.id # x /\ f.id \in Record
      /\ \A f, g \in worker.batch : f.id = g.id => f = g
      /\ worker.failed => e.pending
      /\ e.pending /\ ~worker.failed => x \in delivered
  BY <1>1 DEF MirrorInv, HeldInv, Busy, Replayed, Entry, LedgerTypeOK, MirrorWorker
<1>4. \A r : Uncounted(r)' = 0 /\ Uncounted(r) = IF e.pending /\ r = x THEN 1 ELSE 0
  BY <1>1, <1>2 DEF Uncounted, Replayed
<1>5. \A r \in Record : r # x => row'[r] = row[r]
  BY <1>1 DEF LedgerTypeOK
<1>6. HeldInv'
  BY <1>2, <1>3, <1>5 DEF HeldInv, Busy, Replayed, Open
<1>7. ASSUME NEW r \in Record PROVE RowOK(r)'
  <2>1. RowOK(r)
    BY DEF MirrorInv
  <2>2. CASE row'[r] = row[r] /\ (r = x => mishaps' = mishaps + 1)
    <3>1. mishaps' = mishaps \/ mishaps' = mishaps + 1
      BY <1>1
    <3> QED BY <1>1, <1>4, <2>1, <2>2, <3>1, MirrorNumbers DEF RowOK, Open
  <2>3. CASE /\ r = x /\ mishaps' = mishaps
             /\ row'[x] = IF worker.failed THEN AfterFailure(row[x]) ELSE AfterSuccess(row[x])
    <3>1. row[x] \in LedgerRow
      BY <1>3 DEF LedgerTypeOK
    <3>2. CASE worker.failed
      <4>1. /\ row'[x].attempts = row[x].attempts + 1
            /\ row'[x].mirror = IF row[x].attempts + 1 >= MirrorAttempts THEN "failed" ELSE "retry"
        BY <2>3, <3>1, <3>2, AfterFailureType
      <4>2. Open(x) /\ Uncounted(x) = 1
        BY <1>3, <1>4, <3>2
      <4> QED BY <1>1, <1>3, <1>4, <2>1, <2>3, <4>1, <4>2, MirrorNumbers DEF RowOK, Open
    <3>3. CASE ~worker.failed
      <4>1. row'[x].mirror = "mirrored"
        BY <2>3, <3>1, <3>3, AfterSuccessType
      <4>2. x \in delivered \/ replays[x] >= MirrorAttempts
        BY <1>3, <2>1, <2>3, <3>3, MirrorNumbers DEF RowOK, Open
      <4> QED BY <1>1, <2>1, <2>3, <4>1, <4>2 DEF RowOK, Open
    <3> QED BY <3>2, <3>3
  <2>4. row \in [Record -> LedgerRow]
    BY DEF LedgerTypeOK
  <2>5. CASE r # x
    BY <1>5, <2>2, <2>5
  <2>6. CASE r = x
    <3>1. CASE row' = row /\ mishaps' = mishaps + 1
      BY <2>2, <3>1
    <3>2. CASE /\ row' = [row EXCEPT ![x] = IF worker.failed THEN AfterFailure(row[x])
                                            ELSE AfterSuccess(row[x])]
               /\ mishaps' = mishaps
      BY <1>3, <2>3, <2>4, <2>6, <3>2
    <3> QED BY <1>1, <3>1, <3>2
  <2> QED BY <2>5, <2>6
<1> QED BY <1>6, <1>7 DEF MirrorInv

\* The rows, the worker and the replays agree.
LEMMA MirrorInvariant == LedgerSpec => []MirrorInv
<1>1. LedgerInit => MirrorInv
  <2> SUFFICES ASSUME LedgerInit PROVE MirrorInv
    OBVIOUS
  <2>1. HeldInv
    BY DEF LedgerInit, HeldInv, IdleWorker, Busy, Replayed
  <2>2. ASSUME NEW r \in Record PROVE RowOK(r)
    BY LedgerAssumption
    DEF LedgerInit, RowOK, Open, Uncounted, Replayed, IdleWorker, NewRow, LedgerAssumption
  <2> QED BY <2>1, <2>2 DEF MirrorInv
<1>2. LedgerTypeOK /\ MirrorInv /\ [LedgerNext]_ledgerVars => MirrorInv'
  <2> SUFFICES ASSUME LedgerTypeOK, MirrorInv, [LedgerNext]_ledgerVars PROVE MirrorInv'
    OBVIOUS
  <2>0. row \in [Record -> LedgerRow] /\ worker \in MirrorWorker
    BY DEF LedgerTypeOK
  <2>1. ASSUME NEW r \in Record, Send(r) \/ Admitted(r) \/ GiveUp(r) PROVE MirrorInv'
    BY <2>1, OthersKeepMirror DEF Send, Admitted, GiveUp, mirrorVars, SameRows
  <2>2. ASSUME NEW r \in Record, RetryDue(r) \/ SampleDue(r) PROVE MirrorInv'
    <3>1. SameRows
      BY <2>0, <2>2 DEF RetryDue, SampleDue, SameRows, LedgerRow
    <3> QED BY <2>2, <3>1, OthersKeepMirror DEF RetryDue, SampleDue, mirrorVars
  <2>3. CASE PersistRecord
    BY <2>3, OthersKeepMirror DEF PersistRecord, mirrorVars, SameRows, Mishap, Smooth
  <2>4. CASE CooldownEnds \/ Publish \/ Restore
    BY <2>4, OthersKeepMirror DEF CooldownEnds, Publish, Restore, mirrorVars, SameRows
  <2>5. CASE ScheduleSamples
    <3>1. SameRows
      BY <2>0, <2>5 DEF ScheduleSamples, SameRows, LedgerRow
    <3> QED BY <2>5, <3>1, OthersKeepMirror DEF ScheduleSamples, mirrorVars
  <2>6. CASE Fetch
    BY <2>6, FetchKeepsMirror
  <2>7. CASE Take
    BY <2>7, TakeKeepsMirror
  <2>8. CASE ReplayEntry
    BY <2>8, ReplayKeepsMirror
  <2>9. CASE Compare
    <3> DEFINE to == IF ~validating THEN "sampled"
                     ELSE IF worker.entry.id \in Unanswered THEN "mark"
                     ELSE IF worker.entry.id \in Concealed \/ pointer.now = 0 THEN "sampled" ELSE "answer"
    <3>1. worker' = [worker EXCEPT !.seen = pointer.now, !.pc = to] /\ worker.pc = "sample"
          /\ UNCHANGED <<row, mishaps, replays, delivered>>
      BY <2>9 DEF Compare
    <3>2. to \in {"sampled", "mark", "answer"}
      OBVIOUS
    <3> HIDE DEF to
    <3>3. Replayed /\ Replayed' /\ worker'.batch = worker.batch /\ worker'.entry = worker.entry
          /\ worker'.failed = worker.failed
      BY <2>0, <3>1, <3>2 DEF Replayed, MirrorWorker
    <3> QED BY <3>1, <3>3, WorkKeepsMirror DEF SameRows
  <2>10. ASSUME Replayed, UNCHANGED <<replays, delivered>>, SameRows,
                mishaps' = mishaps \/ mishaps' = mishaps + 1,
                NEW to \in {"verdict", "sampled", "mark"}, worker' = [worker EXCEPT !.pc = to]
         PROVE  MirrorInv'
    <3>1. Replayed' /\ worker'.batch = worker.batch /\ worker'.entry = worker.entry
          /\ worker'.failed = worker.failed
      BY <2>0, <2>10 DEF Replayed, MirrorWorker
    <3> QED BY <2>10, <3>1, WorkKeepsMirror
  <2>11. CASE Answer
    <3>1. UNCHANGED <<row, replays, delivered>> /\ worker.pc = "answer"
      BY <2>11 DEF Answer
    <3>2. CASE worker' = [worker EXCEPT !.pc = "verdict"]
      <4>1. mishaps' = mishaps
        BY <2>0, <2>11, <3>2 DEF Answer, MirrorWorker
      <4> QED BY <2>10, <3>1, <3>2, <4>1 DEF Replayed, SameRows
    <3>3. CASE worker' = IdleWorker
      <4>1. mishaps' = mishaps + 1
        BY <2>11, <3>3 DEF Answer, IdleWorker
      <4> QED BY <3>1, <3>3, <4>1, DropKeepsMirror DEF SameRows
    <3>4. CASE worker' = [worker EXCEPT !.pc = "mark"]
      <4>1. mishaps' = mishaps + 1
        BY <2>0, <2>11, <3>4 DEF Answer, MirrorWorker
      <4> QED BY <2>10, <3>1, <3>4, <4>1 DEF Replayed, SameRows
    <3> QED BY <2>11, <3>2, <3>3, <3>4 DEF Answer
  <2>12. CASE Verdict
    <3>1. /\ Replayed /\ SameRows /\ UNCHANGED <<replays, delivered>>
          /\ mishaps' = mishaps \/ mishaps' = mishaps + 1
      BY <2>12 DEF Verdict, Replayed, SameRows, Mishap, Smooth
    <3>2. \E to \in {"verdict", "sampled", "mark"} : worker' = [worker EXCEPT !.pc = to]
      BY <2>12 DEF Verdict
    <3> QED BY <2>10, <3>1, <3>2
  <2>13. CASE MarkSampled
    <3>1. SameRows
      BY <2>0, <2>13 DEF MarkSampled, SameRows, LedgerRow
    <3> QED BY <2>10, <2>13, <3>1 DEF MarkSampled, Replayed, Mishap, Smooth
  <2>14. CASE MarkMirrored
    BY <2>14, MarkKeepsMirror
  <2>15. CASE MirrorWorkerDies
    BY <2>15, DropKeepsMirror DEF MirrorWorkerDies, SameRows, Mishap
  <2>16. CASE UNCHANGED ledgerVars
    BY <2>16, OthersKeepMirror DEF ledgerVars, SameRows
  <2> QED BY <2>1, <2>2, <2>3, <2>4, <2>5, <2>6, <2>7, <2>8, <2>9, <2>11, <2>12, <2>13, <2>14, <2>15,
             <2>16 DEF LedgerNext
<1> QED BY <1>1, <1>2, LedgerTypes, PTL DEF LedgerSpec

\* A row is closed as mirrored only when one replay delivered every exchange of it, or its
\* attempts were used up before: for any batches, faults and worker restarts
\* (mark_mirror_success after mirror_semantic_error).
THEOREM MirroredDelivered == LedgerSpec => []MirroredMeansDelivered
<1>1. LedgerTypeOK /\ MirrorInv => MirroredMeansDelivered
  BY DEF LedgerTypeOK, MirrorInv, RowOK, MirroredMeansDelivered, Range
<1> QED BY <1>1, LedgerTypes, MirrorInvariant, PTL

\* A pending row is replayed at most max_attempts times, and once more for each failed
\* statement or crash (mark_mirror_retry, fetch_pending_mirror).
THEOREM BoundedReplays == LedgerSpec => []ReplaysBounded
<1>1. MirrorInv => ReplaysBounded
  BY DEF MirrorInv, RowOK, ReplaysBounded
<1> QED BY <1>1, MirrorInvariant, PTL

-----------------------------------------------------------------------------
(* The interaction ledger: verdicts on trained snapshots.                  *)

\* The useful samples that are counted are answers of the snapshot they are counted for.
EarnedInv ==
  /\ worker.pc = "answer" => worker.seen \in 1 .. Snapshots
  /\ admission.samples > 0 => /\ admission.version \in 1 .. Snapshots
                              /\ admission.useful <= earned[admission.version]
  /\ admission.admitted => Worthy

\* A rate that is reached by some useful answers is reached by more of them.
LEMMA MoreIsEnough ==
  ASSUME NEW a \in Nat, NEW b \in Nat, NEW c \in Nat, NEW d \in Nat, a <= b, a * c >= d
  PROVE  b * c >= d
<1>1. (b - a) * c >= 0
  OBVIOUS
<1>2. b * c = a * c + (b - a) * c
  OBVIOUS
<1>3. a * c \in Nat /\ b * c \in Nat /\ (b - a) * c \in Int
  OBVIOUS
<1> QED BY <1>1, <1>2, <1>3

\* One more observation of a snapshot is covered when its useful ones are.
LEMMA ObservedIsEarned ==
  ASSUME LedgerTypeOK, EarnedInv, NEW v \in 1 .. Snapshots, NEW useful \in BOOLEAN,
         admission' = Observed(v, useful), worker'.pc = "verdict",
         earned' = IF useful THEN [earned EXCEPT ![v] = earned[v] + 1] ELSE earned
  PROVE  EarnedInv'
<1> DEFINE same == admission.version = v /\ admission.samples > 0
           n == IF useful THEN 1 ELSE 0
<1>1. /\ admission'.version = v /\ ~admission'.admitted
      /\ admission'.useful = (IF same THEN admission.useful ELSE 0) + n
  <2>1. v \in 0 .. Snapshots /\ admission \in Admission
    BY LedgerAssumption DEF LedgerTypeOK, LedgerAssumption
  <2> QED BY <2>1, ObservedType
<1>2. earned'[v] = earned[v] + n /\ earned[v] \in Nat
  <2>1. earned \in [1 .. Snapshots -> Nat] /\ earned[v] \in Nat
    BY DEF LedgerTypeOK
  <2>2. CASE useful
    BY <2>1, <2>2
  <2>3. CASE ~useful
    BY <2>1, <2>3
  <2> QED BY <2>2, <2>3
<1>3. same => admission.useful <= earned[v]
  BY DEF EarnedInv
<1>4. admission.useful \in Nat /\ n \in Nat
  BY DEF LedgerTypeOK, Admission
<1> HIDE DEF n, same
<1>5. admission'.useful <= earned'[v]
  BY <1>1, <1>2, <1>3, <1>4
<1> QED BY <1>1, <1>5 DEF EarnedInv

\* A snapshot is admitted on minimum_samples comparisons of its own, of which its own useful
\* answers make up minimum_useful_rate, for every minimum and every rate, also when the
\* pointer moves while an answer is awaited, a failure is charged to the new snapshot and
\* statements are lost (record_observation).
THEOREM EarnedAdmission == LedgerSpec => []AdmissionEarned
<1>1. LedgerInit => EarnedInv
  BY DEF LedgerInit, EarnedInv, IdleWorker
<1>2. LedgerTypeOK /\ EarnedInv /\ [LedgerNext]_ledgerVars => EarnedInv'
  <2> SUFFICES ASSUME LedgerTypeOK, EarnedInv, [LedgerNext]_ledgerVars PROVE EarnedInv'
    OBVIOUS
  <2>0. worker \in MirrorWorker /\ pointer.now \in 0 .. Snapshots
    BY DEF LedgerTypeOK
  <2>1. ASSUME UNCHANGED <<admission, earned>>,
               worker' = worker \/ worker'.pc # "answer"
        PROVE  EarnedInv'
    BY <2>1 DEF EarnedInv, Worthy
  <2>2. CASE Compare
    <3> DEFINE to == IF ~validating THEN "sampled"
                     ELSE IF worker.entry.id \in Unanswered THEN "mark"
                     ELSE IF worker.entry.id \in Concealed \/ pointer.now = 0 THEN "sampled" ELSE "answer"
    <3>1. worker' = [worker EXCEPT !.seen = pointer.now, !.pc = to] /\ UNCHANGED <<admission, earned>>
      BY <2>2 DEF Compare
    <3>2. to = "answer" => pointer.now \in 1 .. Snapshots
      BY <2>0, LedgerAssumption DEF LedgerAssumption
    <3> HIDE DEF to
    <3>3. worker'.pc = to /\ worker'.seen = pointer.now
      BY <2>0, <3>1 DEF MirrorWorker
    <3> QED BY <3>1, <3>2, <3>3 DEF EarnedInv, Worthy
  <2>3. CASE Answer
    <3>1. worker.pc = "answer" /\ worker.seen \in 1 .. Snapshots
      BY <2>3 DEF Answer, EarnedInv
    <3>2. CASE worker' = IdleWorker /\ UNCHANGED <<admission, earned>>
      BY <2>1, <3>2 DEF IdleWorker
    <3>5. CASE worker' = [worker EXCEPT !.pc = "mark"] /\ UNCHANGED <<admission, earned>>
      <4>1. worker'.pc = "mark"
        BY <2>0, <3>5 DEF MirrorWorker
      <4> QED BY <2>1, <3>5, <4>1
    <3>3. CASE /\ pointer.now > 0 /\ admission' = Observed(pointer.now, FALSE) /\ UNCHANGED earned
               /\ worker' = [worker EXCEPT !.pc = "verdict"]
      <4>1. pointer.now \in 1 .. Snapshots /\ worker'.pc = "verdict"
        BY <2>0, <3>3, LedgerAssumption DEF LedgerAssumption, MirrorWorker
      <4> QED BY <3>3, <4>1, ObservedIsEarned
    <3>4. ASSUME NEW useful \in BOOLEAN, admission' = Observed(worker.seen, useful),
                 earned' = [earned EXCEPT ![worker.seen] = IF useful THEN @ + 1 ELSE @],
                 worker' = [worker EXCEPT !.pc = "verdict"]
          PROVE  EarnedInv'
      <4>1. earned' = IF useful THEN [earned EXCEPT ![worker.seen] = earned[worker.seen] + 1] ELSE earned
        BY <3>4 DEF LedgerTypeOK
      <4>2. worker'.pc = "verdict"
        BY <2>0, <3>4 DEF MirrorWorker
      <4> QED BY <3>1, <3>4, <4>1, <4>2, ObservedIsEarned
    <3> QED BY <2>3, <3>2, <3>3, <3>4, <3>5 DEF Answer
  <2>4. CASE Verdict
    <3>1. CASE UNCHANGED <<admission, earned>> /\ worker' = [worker EXCEPT !.pc = "mark"]
      <4>1. worker'.pc = "mark"
        BY <2>0, <3>1 DEF MirrorWorker
      <4> QED BY <2>1, <3>1, <4>1
    <3>2. ASSUME NEW good \in BOOLEAN, admission' = [admission EXCEPT !.admitted = good /\ Worthy],
                 worker' = [worker EXCEPT !.pc = "sampled"], UNCHANGED earned
          PROVE  EarnedInv'
      <4>1. /\ admission'.version = admission.version /\ admission'.samples = admission.samples
            /\ admission'.useful = admission.useful
            /\ admission'.admitted => Worthy
        BY <3>2 DEF LedgerTypeOK, Admission
      <4>2. worker'.pc = "sampled"
        BY <2>0, <3>2 DEF MirrorWorker
      <4>3. admission'.admitted => Worthy'
        BY <4>1 DEF Worthy
      <4> QED BY <3>2, <4>1, <4>2, <4>3 DEF EarnedInv
    <3> QED BY <2>4, <3>1, <3>2 DEF Verdict
  <2>5. CASE Fetch \/ Take \/ ReplayEntry \/ MarkSampled \/ MarkMirrored \/ MirrorWorkerDies
    <3>1. worker'.pc # "answer"
      <4>0. CASE Fetch
        <5>1. \E b : worker' = [IdleWorker EXCEPT !.pc = "take", !.batch = b]
          BY <4>0 DEF Fetch
        <5> QED BY <5>1 DEF IdleWorker
      <4>1. CASE Take \/ MirrorWorkerDies
        <5>1. \/ worker' = IdleWorker
              \/ \E b, e : worker' = [IdleWorker EXCEPT !.pc = "replay", !.batch = b, !.entry = e]
          BY <4>1 DEF Take, MirrorWorkerDies
        <5>2. CASE \E b, e : worker' = [IdleWorker EXCEPT !.pc = "replay", !.batch = b, !.entry = e]
          <6> PICK b, e : worker' = [IdleWorker EXCEPT !.pc = "replay", !.batch = b, !.entry = e]
            BY <5>2
          <6> QED BY DEF IdleWorker
        <5>3. CASE worker' = IdleWorker
          BY <5>3 DEF IdleWorker
        <5> QED BY <5>1, <5>2, <5>3
      <4>2. CASE ReplayEntry
        BY <2>0, <4>2 DEF ReplayEntry, MirrorWorker
      <4>3. CASE MarkSampled \/ MarkMirrored
        BY <2>0, <4>3 DEF MarkSampled, MarkMirrored, MirrorWorker
      <4> QED BY <2>5, <4>0, <4>1, <4>2, <4>3
    <3>2. UNCHANGED <<admission, earned>>
      BY <2>5 DEF Fetch, Take, ReplayEntry, MarkSampled, MarkMirrored, MirrorWorkerDies
    <3> QED BY <2>1, <3>1, <3>2
  <2>6. CASE UNCHANGED <<worker, admission, earned>>
    BY <2>1, <2>6
  <2> QED BY <2>2, <2>3, <2>4, <2>5, <2>6
      DEF LedgerNext, Send, Admitted, GiveUp, RetryDue, SampleDue, PersistRecord, CooldownEnds,
          Publish, Restore, ScheduleSamples, mirrorVars, ledgerVars
<1>3. LedgerTypeOK /\ EarnedInv => AdmissionEarned
  <2> SUFFICES ASSUME LedgerTypeOK, EarnedInv, admission.admitted
               PROVE  /\ admission.samples >= MinSamples
                      /\ earned[admission.version] * RateDen >= RateNum * admission.samples
    BY DEF AdmissionEarned
  <2>1. /\ admission.samples \in Nat /\ admission.useful \in Nat /\ MinSamples \in Nat \ {0}
        /\ RateNum \in Nat /\ RateDen \in Nat
    BY LedgerAssumption DEF LedgerTypeOK, Admission, LedgerAssumption
  <2>2. /\ admission.samples >= MinSamples
        /\ admission.useful * RateDen >= RateNum * admission.samples
    BY DEF EarnedInv, Worthy
  <2>3. admission.samples > 0
    BY <2>1, <2>2
  <2>4. earned[admission.version] \in Nat /\ admission.useful <= earned[admission.version]
    BY <2>3 DEF EarnedInv, LedgerTypeOK
  <2>5. RateNum * admission.samples \in Nat
    BY <2>1
  <2>6. earned[admission.version] * RateDen >= RateNum * admission.samples
    BY <2>1, <2>2, <2>4, <2>5, MoreIsEnough
  <2> QED BY <2>2, <2>6
<1> QED BY <1>1, <1>2, <1>3, LedgerTypes, PTL DEF LedgerSpec

-----------------------------------------------------------------------------
(* The trainer: types.                                                     *)

Between == {"down", "poll", "inspect", "collect"}
Promoting == {"create", "copy", "adapter", "publish", "health", "undo"}
TrainerStep == Between \cup Promoting \cup {"prepare", "submit", "wait", "train", "qualify", "select",
                                            "tidy", "report", "finish", "mark"}
Pointer == [snap: 0 .. SnapshotBound, target: 0 .. Targets]
TrainerState == [pc: TrainerStep, snap: 0 .. SnapshotBound, prev: Pointer, target: 0 .. Targets,
                 err: {"none", "plain", "infra", "fatal"}, restore: BOOLEAN]
TrainingRow == [status: {"new", "retry", "failed", "trained", "snapshotted"}, attempts: Nat,
                due: BOOLEAN, infra: BOOLEAN]

TrainerTypeOK ==
  /\ deployment \in [spooled: BOOLEAN, runnable: BOOLEAN, registers: BOOLEAN]
  /\ deployment.spooled => deployment.runnable
  /\ ledgerRow \in [TrainRow -> TrainingRow]
  /\ dataset \in [Snapshot -> SUBSET TrainRow]
  /\ files \in [Snapshot -> SUBSET {"trained", "pipeline"}]
  /\ request \in [Snapshot -> {"none", "queued", "running"}]
  /\ result \in [Snapshot -> {"none", "ok", "failed"}]
  /\ requestOld \in SUBSET Snapshot
  /\ marker \in [snap: 0 .. SnapshotBound, fresh: BOOLEAN]
  /\ tagged \in SUBSET Snapshot
  /\ alias \in 0 .. SnapshotBound
  /\ active \in Pointer
  /\ tr \in TrainerState
  /\ slips \in Nat
  /\ interrupted \in BOOLEAN
  /\ healthy \in SUBSET Snapshot

\* A snapshot is in the worker's hands exactly outside its idle steps.
TrainerPlaced == tr.pc \in Between <=> tr.snap = 0

\* The chosen target is one of the ranked ones, or none.
LEMMA TargetInRange == \A t \in TargetChoices : t \in 0 .. Targets
<1> SUFFICES ASSUME NEW up \in SUBSET (1 .. Targets), up # {} PROVE Min(up) \in 0 .. Targets
  BY TrainerAssumption DEF TargetChoices
<1>1. up \subseteq Nat /\ up \in SUBSET Nat
  BY TrainerAssumption
<1>2. PICK n \in up : \A m \in up : ~(<<m, n>> \in OpToRel(<, Nat))
  BY <1>1, WFMin, NatLessThanWellFounded
<1>3. \A m \in up : ~(m < n)
  BY <1>1, <1>2 DEF OpToRel
<1>4. n \in up /\ \A m \in up : n <= m
  BY <1>1, <1>3
<1>5. Min(up) \in up
  BY <1>4 DEF Min
<1>6. \A m \in 1 .. Targets : m \in 0 .. Targets
  BY TrainerAssumption DEF TrainerAssumption
<1> QED
  BY <1>5, <1>6

\* Rows and states of the worker are the records of their fields.
TrainingFields(w) ==
  w = [status |-> w.status, attempts |-> w.attempts, due |-> w.due, infra |-> w.infra]
TrainingTyped(w) ==
  /\ w.status \in {"new", "retry", "failed", "trained", "snapshotted"} /\ w.attempts \in Nat
  /\ w.due \in BOOLEAN /\ w.infra \in BOOLEAN
StateFields(w) ==
  w = [pc |-> w.pc, snap |-> w.snap, prev |-> w.prev, target |-> w.target, err |-> w.err,
       restore |-> w.restore]
StateTyped(w) ==
  /\ w.pc \in TrainerStep /\ w.snap \in 0 .. SnapshotBound /\ w.prev \in Pointer
  /\ w.target \in 0 .. Targets /\ w.err \in {"none", "plain", "infra", "fatal"}
  /\ w.restore \in BOOLEAN

LEMMA TrainingRowType == \A w : TrainingFields(w) /\ TrainingTyped(w) => w \in TrainingRow
BY DEF TrainingFields, TrainingTyped, TrainingRow

LEMMA TrainerStateType == \A w : StateFields(w) /\ StateTyped(w) => w \in TrainerState
BY DEF StateFields, StateTyped, TrainerState

\* What is written to a row is a row.
LEMMA RetriedRow ==
  ASSUME NEW w \in TrainingRow, NEW max, NEW infra \in BOOLEAN
  PROVE  Retried(w, max, infra) \in TrainingRow /\ Retried(w, max, infra).status \in {"retry", "failed"}
<1>0. w.attempts \in Nat /\ w.attempts + 1 \in Nat
  BY DEF TrainingRow
<1>1. ASSUME NEW v, v = Retried(w, max, infra)
      PROVE  v \in TrainingRow /\ v.status \in {"retry", "failed"}
  <2> DEFINE status == IF w.attempts + 1 >= max THEN "failed" ELSE "retry"
  <2>1. status \in {"retry", "failed"}
    OBVIOUS
  <2>2. v = [w EXCEPT !.attempts = w.attempts + 1, !.due = FALSE, !.infra = infra, !.status = status]
    BY <1>1 DEF Retried
  <2> HIDE DEF status
  <2>3. TrainingFields(v)
    BY <2>2 DEF TrainingFields, TrainingRow
  <2>4. TrainingTyped(v) /\ v.status = status
    BY <1>0, <2>1, <2>2 DEF TrainingTyped, TrainingRow
  <2> QED
    BY <2>1, <2>3, <2>4, TrainingRowType
<1> QED
  BY <1>1

LEMMA RecoveredRow ==
  ASSUME NEW w \in TrainingRow
  PROVE  /\ Recovered(w) \in TrainingRow
         /\ Recovered(w).status = w.status \/ (w.status = "failed" /\ Recovered(w).status = "retry")
<1>1. ASSUME NEW v, v = [w EXCEPT !.status = "retry", !.attempts = 0, !.due = TRUE, !.infra = FALSE]
      PROVE  v \in TrainingRow /\ v.status = "retry"
  <2>1. TrainingFields(v)
    BY <1>1 DEF TrainingFields, TrainingRow
  <2>2. TrainingTyped(v) /\ v.status = "retry"
    BY <1>1 DEF TrainingTyped, TrainingRow
  <2> QED
    BY <2>1, <2>2, TrainingRowType
<1>2. Recovered(w) = w \/ (w.status = "failed" /\
        Recovered(w) = [w EXCEPT !.status = "retry", !.attempts = 0, !.due = TRUE, !.infra = FALSE])
  BY DEF Recovered
<1> QED
  BY <1>1, <1>2

LEMMA TrainedRow ==
  ASSUME NEW w \in TrainingRow, NEW o \in {"trained", "snapshotted"}
  PROVE  Trained(w, o) \in TrainingRow /\ Trained(w, o).status = o
<1>1. ASSUME NEW v, v = Trained(w, o)
      PROVE  v \in TrainingRow /\ v.status = o
  <2>0. w.attempts \in Nat /\ w.attempts + 1 \in Nat
    BY DEF TrainingRow
  <2>1. v = [w EXCEPT !.attempts = w.attempts + 1, !.status = o, !.due = FALSE]
    BY <1>1 DEF Trained
  <2>2. TrainingFields(v)
    BY <2>1 DEF TrainingFields, TrainingRow
  <2>3. TrainingTyped(v) /\ v.status = o
    BY <2>0, <2>1 DEF TrainingTyped, TrainingRow
  <2> QED
    BY <2>2, <2>3, TrainingRowType
<1> QED
  BY <1>1

\* What is written to the worker's state is such a state.
LEMMA TrainerStates ==
  ASSUME TrainerTypeOK, NEW pc \in TrainerStep
  PROVE  /\ Resting(pc) \in TrainerState
         /\ Resting(pc).pc = pc /\ Resting(pc).snap = 0 /\ Resting(pc).err = "none"
         /\ [tr EXCEPT !.pc = pc] \in TrainerState
         /\ \A err \in {"plain", "infra", "fatal"} : [tr EXCEPT !.pc = pc, !.err = err] \in TrainerState
         /\ \A s \in 0 .. SnapshotBound : [Resting(pc) EXCEPT !.snap = s] \in TrainerState
<1>0. tr \in TrainerState /\ 0 \in 0 .. SnapshotBound /\ 0 \in 0 .. Targets
  BY TrainerAssumption DEF TrainerTypeOK, TrainerAssumption
<1>1. Nothing \in Pointer
  BY <1>0 DEF Nothing, Pointer
<1>2. Resting(pc) \in TrainerState /\ Resting(pc).pc = pc /\ Resting(pc).snap = 0 /\ Resting(pc).err = "none"
  BY <1>0, <1>1 DEF Resting, TrainerState
<1>3. [tr EXCEPT !.pc = pc] \in TrainerState
  BY <1>0 DEF TrainerState
<1>4. ASSUME NEW err \in {"plain", "infra", "fatal"}, NEW v, v = [tr EXCEPT !.pc = pc, !.err = err]
      PROVE  v \in TrainerState
  <2>1. StateFields(v)
    BY <1>0, <1>4 DEF StateFields, TrainerState
  <2>2. StateTyped(v)
    BY <1>0, <1>4 DEF StateTyped, TrainerState
  <2> QED
    BY <2>1, <2>2, TrainerStateType
<1>5. ASSUME NEW s \in 0 .. SnapshotBound PROVE [Resting(pc) EXCEPT !.snap = s] \in TrainerState
  BY <1>2, <1>5 DEF TrainerState
<1> QED
  BY <1>2, <1>3, <1>4, <1>5

\* Sending rows back, all of them or those of a set, keeps the rows' type.
LEMMA RetryTypes ==
  ASSUME TrainerTypeOK, NEW rows, NEW max, NEW infra \in BOOLEAN
  PROVE  RetryAll(rows, max, infra) => ledgerRow' \in [TrainRow -> TrainingRow]
<1>1. \A r \in TrainRow : ledgerRow[r] \in TrainingRow
  BY DEF TrainerTypeOK
<1>2. \A r \in TrainRow : Retried(ledgerRow[r], max, infra) \in TrainingRow
  BY <1>1, RetriedRow
<1> QED
  BY <1>1, <1>2 DEF RetryAll

\* Every variable of the trainer keeps its type, and the worker has a snapshot in its
\* hands exactly outside its idle steps.
THEOREM TrainerTypes == TrainerSpec => [](TrainerTypeOK /\ TrainerPlaced)
<1>1. TrainerInit => TrainerTypeOK /\ TrainerPlaced
  <2> SUFFICES ASSUME TrainerInit PROVE TrainerTypeOK /\ TrainerPlaced
    OBVIOUS
  <2>0. 0 \in 0 .. SnapshotBound /\ 0 \in 0 .. Targets
    BY TrainerAssumption DEF TrainerAssumption
  <2>1. tr \in TrainerState /\ tr.pc = "down" /\ tr.snap = 0
    BY <2>0 DEF TrainerInit, Resting, TrainerState, Nothing, Pointer, TrainerStep, Between
  <2>2. active \in Pointer /\ marker \in [snap: 0 .. SnapshotBound, fresh: BOOLEAN]
    BY <2>0 DEF TrainerInit, Nothing, NoMarker, Pointer
  <2>3. ledgerRow \in [TrainRow -> TrainingRow]
    BY DEF TrainerInit, TrainingRow
  <2>4. deployment \in [spooled: BOOLEAN, runnable: BOOLEAN, registers: BOOLEAN]
        /\ (deployment.spooled => deployment.runnable)
    <3>1. PICK a \in BOOLEAN, b \in BOOLEAN, c \in BOOLEAN :
            deployment = [spooled |-> a, runnable |-> b, registers |-> c] /\ (a => b)
      BY Zenon DEF TrainerInit
    <3> QED
      BY <3>1
  <2> QED
    BY <2>0, <2>1, <2>2, <2>3, <2>4 DEF TrainerTypeOK, TrainerInit, TrainerPlaced, Between
<1>2. TrainerTypeOK /\ TrainerPlaced /\ [TrainerNext]_trainerVars => TrainerTypeOK' /\ TrainerPlaced'
  <2> SUFFICES ASSUME TrainerTypeOK, TrainerPlaced, [TrainerNext]_trainerVars
               PROVE  TrainerTypeOK' /\ TrainerPlaced'
    OBVIOUS
  <2>0. 0 \in 0 .. SnapshotBound /\ 0 \in 0 .. Targets /\ tr.snap \in 0 .. SnapshotBound
    BY TrainerAssumption DEF TrainerAssumption, TrainerTypeOK, TrainerState
  <2>a. tr \in TrainerState /\ tr.pc \in TrainerStep /\ tr.err \in {"none", "plain", "infra", "fatal"}
    BY DEF TrainerTypeOK, TrainerState
  <2>M. /\ NoMarker \in [snap: 0 .. SnapshotBound, fresh: BOOLEAN]
        /\ [snap |-> tr.snap, fresh |-> TRUE] \in [snap: 0 .. SnapshotBound, fresh: BOOLEAN]
    BY <2>0 DEF NoMarker
  <2>g. ASSUME NEW pc \in TrainerStep, Goto(pc)
        PROVE  tr' \in TrainerState /\ tr'.pc = pc /\ tr'.snap = tr.snap
    BY <2>a, <2>g, TrainerStates DEF Goto, TrainerState
  <2>f. ASSUME NEW pc \in TrainerStep, NEW err \in {"plain", "infra", "fatal"}, Fail(pc, err)
        PROVE  tr' \in TrainerState /\ tr'.pc = pc /\ tr'.snap = tr.snap
    BY <2>a, <2>f, TrainerStates DEF Fail, TrainerState
  <2>s. slips' = slips \/ Slip => slips' \in Nat
    BY DEF Slip, TrainerTypeOK
  <2> USE DEF spoolVars, servedVars, NoSlip
  <2>1. ASSUME NEW r \in TrainRow, BackoffEnds(r) PROVE TrainerTypeOK' /\ TrainerPlaced'
    <3>1. ledgerRow' \in [TrainRow -> TrainingRow]
      <4>1. ledgerRow[r] \in TrainingRow
        BY DEF TrainerTypeOK
      <4>2. [ledgerRow[r] EXCEPT !.due = TRUE] \in TrainingRow
        BY <4>1 DEF TrainingRow
      <4>3. ledgerRow' = [ledgerRow EXCEPT ![r] = [ledgerRow[r] EXCEPT !.due = TRUE]]
        BY <2>1 DEF BackoffEnds
      <4> QED
        BY <4>2, <4>3 DEF TrainerTypeOK
    <3> QED
      BY <2>1, <3>1 DEF BackoffEnds, TrainerTypeOK, TrainerPlaced
  <2>2. CASE StartTrainer
    <3>1. ledgerRow' \in [TrainRow -> TrainingRow]
      <4>1. \A r \in TrainRow : Recovered(ledgerRow[r]) \in TrainingRow
        BY RecoveredRow DEF TrainerTypeOK
      <4> QED
        BY <2>2, <4>1 DEF StartTrainer
    <3>2. active' \in Pointer
      BY <2>2, TargetInRange DEF StartTrainer, Retargeted, TrainerTypeOK, Pointer
    <3>3. "poll" \in TrainerStep /\ tr' = Resting("poll")
      BY <2>2, SMTT(30) DEF StartTrainer, TrainerStep, Between
    <3>4. tr' \in TrainerState /\ tr'.pc = "poll" /\ tr'.snap = 0
      BY <3>3, TrainerStates
    <3> QED
      BY <2>2, <3>1, <3>2, <3>4 DEF StartTrainer, TrainerTypeOK, TrainerPlaced, Between
  <2>3. CASE Requeue
    <3>1. tr' \in TrainerState /\ tr'.pc = "inspect" /\ tr'.snap = tr.snap /\ tr.pc = "poll"
      BY <2>3, <2>g DEF Requeue, TrainerStep, Between
    <3>2. ledgerRow' \in [TrainRow -> TrainingRow]
      BY <2>3, RetryTypes DEF Requeue, TrainerTypeOK
    <3>3. request' \in [Snapshot -> {"none", "queued", "running"}] /\ requestOld' \in SUBSET Snapshot
      <4>1. CASE deployment.spooled
        BY <2>3, <4>1 DEF Requeue, TrainerTypeOK
      <4>2. CASE ~deployment.spooled
        <5>1. request' = request /\ requestOld' = requestOld
          BY <2>3, <4>2 DEF Requeue
        <5> QED
          BY <5>1 DEF TrainerTypeOK
      <4> QED
        BY <4>1, <4>2
    <3>4. TrainerPlaced'
      BY <3>1 DEF TrainerPlaced, Between
    <3>5. UNCHANGED <<deployment, dataset, files, marker, slips, interrupted, result, tagged, alias, active, healthy>>
      BY <2>3 DEF Requeue
    <3> QED
      BY <3>1, <3>2, <3>3, <3>4, <3>5 DEF TrainerTypeOK
  <2>4. CASE Inspect
    <3>1. ledgerRow' \in [TrainRow -> TrainingRow]
      <4> DEFINE once(w) == Retried(w, TrainAttempts, FALSE)
      <4>1. \A w \in TrainingRow : once(w) \in TrainingRow
        BY RetriedRow
      <4>2. CASE ledgerRow' = ledgerRow
        BY <4>2 DEF TrainerTypeOK
      <4>3. ASSUME NEW failed, ledgerRow' = [r \in TrainRow |->
                      IF r \in dataset[marker.snap]
                      THEN IF failed THEN once(once(ledgerRow[r])) ELSE once(ledgerRow[r])
                      ELSE ledgerRow[r]]
            PROVE  ledgerRow' \in [TrainRow -> TrainingRow]
        <5> HIDE DEF once
        <5> QED
          BY <4>1, <4>3 DEF TrainerTypeOK
      <4> QED
        BY <2>4, <4>2, <4>3, Zenon DEF Inspect
    <3>2. marker' \in [snap: 0 .. SnapshotBound, fresh: BOOLEAN]
      BY <2>M, <2>4 DEF Inspect, TrainerTypeOK
    <3>3. tr' \in TrainerState /\ (tr'.pc \in Between <=> tr'.snap = 0)
      <4>1. tr.pc = "inspect" /\ tr.snap = 0 /\ marker.snap \in 0 .. SnapshotBound
        BY <2>4 DEF Inspect, TrainerPlaced, Between, TrainerTypeOK
      <4>2. CASE \E pc \in {"poll", "collect"} : Goto(pc)
        BY <2>g, <4>1, <4>2 DEF TrainerStep, Between
      <4>3. CASE marker.snap # 0 /\ tr' = [Resting("prepare") EXCEPT !.snap = marker.snap]
        <5>1. "prepare" \in TrainerStep
          BY SMTT(30) DEF TrainerStep
        <5>2. tr' \in TrainerState
          BY <4>1, <4>3, <5>1, TrainerStates
        <5>3. tr'.pc = "prepare" /\ tr'.snap = marker.snap
          BY <4>3 DEF Resting
        <5> QED
          BY <4>3, <5>2, <5>3 DEF Between
      <4> QED
        BY <2>4, <4>2, <4>3 DEF Inspect
    <3> QED
      BY <2>4, <3>1, <3>2, <3>3 DEF Inspect, TrainerTypeOK, TrainerPlaced
  <2>5. CASE Collect
    <3>0. tr.pc = "collect" /\ tr.snap = 0
      BY <2>5 DEF Collect, TrainerPlaced, Between
    <3>1. ledgerRow' \in [TrainRow -> TrainingRow]
      BY <2>5, RetryTypes DEF Collect, TrainerTypeOK
    <3>2. dataset' \in [Snapshot -> SUBSET TrainRow]
      <4>1. Batch \in SUBSET TrainRow
        BY DEF Batch
      <4> QED
        BY <2>5, <4>1 DEF Collect, Written, TrainerTypeOK
    <3>3. CASE Goto("poll") /\ marker' = marker
      <4>1. tr' \in TrainerState /\ tr'.pc = "poll" /\ tr'.snap = 0
        BY <2>g, <3>0, <3>3 DEF TrainerStep, Between
      <4> QED
        BY <2>5, <2>s, <3>1, <3>2, <3>3, <4>1 DEF Collect, TrainerTypeOK, TrainerPlaced, Between
    <3>4. ASSUME NEW s \in Snapshot, marker' = [snap |-> s, fresh |-> TRUE],
                 tr' = [Resting("prepare") EXCEPT !.snap = s]
          PROVE  TrainerTypeOK' /\ TrainerPlaced'
      <4>0. "prepare" \in TrainerStep /\ s \in 0 .. SnapshotBound /\ s # 0
        BY TrainerAssumption, SMTT(30) DEF TrainerStep, Snapshot, TrainerAssumption
      <4>1. tr' \in TrainerState
        BY <3>4, <4>0, TrainerStates
      <4>2. tr'.pc = "prepare" /\ tr'.snap = s
        BY <3>4 DEF Resting
      <4>3. marker' \in [snap: 0 .. SnapshotBound, fresh: BOOLEAN]
        BY <3>4, <4>0
      <4> QED
        BY <2>5, <2>s, <3>1, <3>2, <4>0, <4>1, <4>2, <4>3 DEF Collect, TrainerTypeOK, TrainerPlaced, Between
    <3> QED
      BY <2>5, <3>3, <3>4 DEF Collect
  \* The steps of one snapshot keep it in the worker's hands ...
  <2>k. ASSUME tr' \in TrainerState, tr'.snap = tr.snap, tr'.pc \notin Between, tr.pc \notin Between
        PROVE  TrainerPlaced'
    BY <2>k DEF TrainerPlaced
  \* ... and go on to another step, with or without an error.
  <2>m. ASSUME \/ \E pc \in TrainerStep \ Between : Goto(pc)
               \/ \E pc \in TrainerStep \ Between, err \in {"plain", "infra", "fatal"} : Fail(pc, err),
               tr.pc \notin Between
        PROVE  tr' \in TrainerState /\ TrainerPlaced'
    BY <2>m, <2>g, <2>f, <2>k
  <2>n. {"train", "submit", "wait", "qualify", "select", "report", "finish", "tidy", "mark"} \cup Promoting
          \subseteq TrainerStep \ Between /\ "prepare" \notin Between
    BY DEF TrainerStep, Between, Promoting
  <2>6. CASE Prepare
    <3>1. tr' \in TrainerState /\ TrainerPlaced'
      BY <2>6, <2>m, <2>n DEF Prepare
    <3> QED
      BY <2>6, <2>s, <3>1 DEF Prepare, TrainerTypeOK
  <2>7. CASE Submit
    <3>1. tr' \in TrainerState /\ TrainerPlaced'
      BY <2>7, <2>m, <2>n DEF Submit
    <3> QED
      BY <2>7, <3>1 DEF Submit, TrainerTypeOK
  <2>8. CASE AwaitResult
    <3>1. tr' \in TrainerState /\ TrainerPlaced'
      BY <2>8, <2>m, <2>n DEF AwaitResult
    <3>2. marker' \in [snap: 0 .. SnapshotBound, fresh: BOOLEAN]
      BY <2>M, <2>8 DEF AwaitResult, TrainerTypeOK
    <3> QED
      BY <2>8, <2>s, <3>1, <3>2 DEF AwaitResult, TrainerTypeOK
  <2>9. CASE TrainLocally
    <3>1. tr' \in TrainerState /\ TrainerPlaced'
      BY <2>9, <2>m, <2>n DEF TrainLocally
    <3> QED
      BY <2>9, <3>1 DEF TrainLocally, TrainerTypeOK
  <2>10. CASE Qualify
    <3>1. tr' \in TrainerState /\ TrainerPlaced'
      BY <2>10, <2>m, <2>n DEF Qualify
    <3> QED
      BY <2>10, <3>1 DEF Qualify, TrainerTypeOK
  <2>11. CASE SelectTarget
    <3>1. tr' \in TrainerState /\ TrainerPlaced'
      <4>1. CASE Fail("finish", "plain")
        BY <2>11, <2>m, <2>n, <4>1 DEF SelectTarget
      <4>2. ASSUME NEW t \in 0 .. Targets, NEW pc \in {"create", "report"},
                   tr' = [tr EXCEPT !.pc = pc, !.target = t, !.prev = active]
            PROVE  tr' \in TrainerState /\ TrainerPlaced'
        <5>1. pc \in TrainerStep \ Between /\ tr.pc = "select" /\ "select" \notin Between
          BY <2>11, <2>n, <4>2 DEF SelectTarget, Promoting
        <5>2. StateFields(tr')
          BY <2>a, <4>2 DEF StateFields, TrainerState
        <5>3. StateTyped(tr') /\ tr'.snap = tr.snap /\ tr'.pc = pc
          BY <2>a, <4>2, <5>1 DEF StateTyped, TrainerState, TrainerTypeOK
        <5> QED
          BY <5>1, <5>2, <5>3, <2>k, TrainerStateType
      <4>3. \A t \in IF Targets = 0 THEN {0} ELSE TargetChoices : t \in 0 .. Targets
        BY <2>0, TargetInRange
      <4> QED
        BY <2>11, <4>1, <4>2, <4>3 DEF SelectTarget
    <3> QED
      BY <2>11, <3>1, SMTT(30) DEF SelectTarget, TrainerTypeOK
  <2>e. AdapterErrors \cup ManifestErrors \cup UploadErrors \cup CreateErrors \subseteq {"plain", "infra", "fatal"}
    BY DEF AdapterErrors, ManifestErrors, UploadErrors, CreateErrors
  <2>p. tr.pc \notin Between => tr.snap \in Snapshot
    BY <2>0, TrainerAssumption DEF TrainerPlaced, Snapshot, TrainerAssumption
  <2>12. CASE CreateModel
    <3>1. tr' \in TrainerState /\ TrainerPlaced'
      BY <2>12, <2>e, <2>m, <2>n DEF CreateModel, Promoting
    <3> QED
      BY <2>12, <2>n, <2>p, <3>1 DEF CreateModel, TrainerTypeOK, Promoting
  <2>13. CASE CopyAlias
    <3>1. tr' \in TrainerState /\ TrainerPlaced'
      BY <2>13, <2>m, <2>n DEF CopyAlias, Promoting
    <3> QED
      BY <2>0, <2>13, <3>1 DEF CopyAlias, TrainerTypeOK
  <2>14. CASE PublishAdapter
    <3>1. tr' \in TrainerState /\ TrainerPlaced'
      BY <2>14, <2>m, <2>n DEF PublishAdapter, Promoting
    <3> QED
      BY <2>14, <3>1 DEF PublishAdapter, TrainerTypeOK
  <2>15. CASE PublishActive
    <3>1. tr' \in TrainerState /\ TrainerPlaced'
      BY <2>15, <2>m, <2>n DEF PublishActive, Promoting
    <3>2. active' \in Pointer
      BY <2>0, <2>15, <2>a DEF PublishActive, TrainerTypeOK, Pointer, TrainerState
    <3> QED
      BY <2>15, <3>1, <3>2 DEF PublishActive, TrainerTypeOK
  <2>16. CASE CheckHealth
    <3>1. tr' \in TrainerState /\ TrainerPlaced'
      <4>1. CASE Goto("tidy")
        BY <2>16, <2>m, <2>n, <4>1 DEF CheckHealth, Promoting
      <4>2. CASE tr' = [tr EXCEPT !.pc = "undo", !.err = "plain", !.restore = TRUE]
        <5>1. "undo" \in TrainerStep \ Between /\ tr.pc = "health" /\ "health" \notin Between
          BY <2>16, <2>n DEF CheckHealth, Promoting
        <5>2. StateFields(tr')
          BY <2>a, <4>2 DEF StateFields, TrainerState
        <5>3. StateTyped(tr') /\ tr'.snap = tr.snap /\ tr'.pc = "undo"
          BY <2>a, <4>2, <5>1 DEF StateTyped, TrainerState
        <5> QED
          BY <5>1, <5>2, <5>3, <2>k, TrainerStateType
      <4> QED
        BY <2>16, <4>1, <4>2 DEF CheckHealth
    <3> QED
      BY <2>16, <2>n, <2>p, <3>1 DEF CheckHealth, TrainerTypeOK, Promoting
  <2>17. CASE RollBack
    <3>1. tr' \in TrainerState /\ TrainerPlaced'
      BY <2>17, <2>m, <2>n DEF RollBack, Promoting
    <3>2. active' \in Pointer /\ tr.prev.snap \in 0 .. SnapshotBound
      BY <2>17, <2>a DEF RollBack, TrainerTypeOK, TrainerState, Pointer
    <3>3. alias' \in 0 .. SnapshotBound
      BY <2>17, <3>2 DEF RollBack, TrainerTypeOK
    <3> QED
      BY <2>17, <2>s, <3>1, <3>2, <3>3 DEF RollBack, TrainerTypeOK
  <2>18. CASE Tidy
    <3>1. tr' \in TrainerState /\ TrainerPlaced'
      BY <2>18, <2>m, <2>n DEF Tidy
    <3>2. tagged' \in SUBSET Snapshot
      BY <2>18 DEF Tidy, Rotated, Newest, TrainerTypeOK
    <3>3. files' \in [Snapshot -> SUBSET {"trained", "pipeline"}]
      BY <2>18 DEF Tidy, TrainerTypeOK
    <3> QED
      BY <2>18, <3>1, <3>2, <3>3 DEF Tidy, TrainerTypeOK
  <2>19. CASE WriteReport
    <3>1. tr' \in TrainerState /\ TrainerPlaced'
      BY <2>19, <2>m, <2>n DEF WriteReport
    <3> QED
      BY <2>19, <2>s, <3>1 DEF WriteReport, TrainerTypeOK
  <2>20. CASE FinishSnapshot
    <3>1. tr' \in TrainerState /\ TrainerPlaced'
      BY <2>20, <2>m, <2>n DEF FinishSnapshot
    <3>2. marker' \in [snap: 0 .. SnapshotBound, fresh: BOOLEAN]
      BY <2>M, <2>20 DEF FinishSnapshot, TrainerTypeOK
    <3> QED
      BY <2>20, <2>s, <3>1, <3>2 DEF FinishSnapshot, TrainerTypeOK
  <2>21. CASE MarkRows
    <3>1. "poll" \in TrainerStep /\ tr' = Resting("poll")
      BY <2>21 DEF MarkRows, TrainerStep, Between
    <3>2. tr' \in TrainerState /\ tr'.pc = "poll" /\ tr'.snap = 0
      BY <3>1, TrainerStates
    <3>3. ledgerRow' \in [TrainRow -> TrainingRow]
      <4>1. CASE ledgerRow' = [r \in TrainRow |->
                   IF r \in dataset[tr.snap] THEN Trained(ledgerRow[r], Observation) ELSE ledgerRow[r]]
                 /\ tr.err = "none"
        <5>1. Observation \in {"trained", "snapshotted"}
          BY <4>1 DEF Observation
        <5>2. \A r \in TrainRow : Trained(ledgerRow[r], Observation) \in TrainingRow /\ ledgerRow[r] \in TrainingRow
          BY <5>1, TrainedRow DEF TrainerTypeOK
        <5> QED
          BY <4>1, <5>2
      <4>2. CASE RetryAll(dataset[tr.snap], IF tr.err = "fatal" THEN 1 ELSE TrainAttempts, tr.err = "infra")
        BY <4>2, RetryTypes
      <4> QED
        BY <2>21, <4>1, <4>2 DEF MarkRows, TrainerTypeOK
    <3> QED
      BY <2>21, <2>s, <3>2, <3>3 DEF MarkRows, TrainerTypeOK, TrainerPlaced, Between
  <2>22. CASE TrainerCrash
    <3>1. "down" \in TrainerStep /\ tr' = Resting("down")
      BY <2>22 DEF TrainerCrash, TrainerStep, Between
    <3>2. tr' \in TrainerState /\ tr'.pc = "down" /\ tr'.snap = 0
      BY <3>1, TrainerStates
    <3> QED
      BY <2>22, <2>s, <3>2 DEF TrainerCrash, TrainerTypeOK, TrainerPlaced, Between
  <2>23. ASSUME NEW s \in Snapshot, Dispatch(s) \/ JobEnds(s) \/ RequestAges(s)
         PROVE  TrainerTypeOK' /\ TrainerPlaced'
    <3>1. CASE Dispatch(s)
      BY <3>1 DEF Dispatch, TrainerTypeOK, TrainerPlaced
    <3>2. CASE JobEnds(s)
      BY <2>s, <3>2 DEF JobEnds, TrainerTypeOK, TrainerPlaced
    <3>3. CASE RequestAges(s)
      BY <3>3 DEF RequestAges, TrainerTypeOK, TrainerPlaced
    <3> QED
      BY <2>23, <3>1, <3>2, <3>3
  <2>24. CASE HeartbeatAges
    BY <2>24 DEF HeartbeatAges, TrainerTypeOK, TrainerPlaced
  <2>25. CASE UNCHANGED trainerVars
    BY <2>25 DEF trainerVars, TrainerTypeOK, TrainerPlaced
  <2> QED
    BY <2>1, <2>2, <2>3, <2>4, <2>5, <2>6, <2>7, <2>8, <2>9, <2>10, <2>11, <2>12, <2>13, <2>14,
       <2>15, <2>16, <2>17, <2>18, <2>19, <2>20, <2>21, <2>22, <2>23, <2>24, <2>25 DEF TrainerNext
<1> QED
  BY <1>1, <1>2, PTL DEF TrainerSpec

-----------------------------------------------------------------------------
(* The trainer: what holds of its snapshots.                               *)

\* Snapshots are numbered as they are written, and only the newest is in the worker's
\* hands or named by the marker.
Dated(n) ==
  /\ \A s \in Snapshot : dataset[s] # {} <=> s <= n
  /\ marker.snap \in {0, n} /\ tr.snap \in {0, n}
  /\ \A s \in tagged \cup healthy : s <= n
  /\ \A s \in Snapshot : request[s] # "none" => s <= n
SnapshotsDated == \E n \in 0 .. SnapshotBound : Dated(n)

\* The marker names the snapshot in the worker's hands until that is finished, and an
\* error leads to its end.
SnapshotHeld ==
  /\ tr.pc = "collect" => marker.snap = 0
  /\ tr.snap # 0 /\ tr.pc # "mark" => marker.snap = tr.snap
  /\ tr.pc = "mark" => marker.snap \in {0, tr.snap}
  /\ tr.err # "none" => tr.pc \in {"undo", "report", "finish", "mark"}

\* A request waits for its result, and the worker has left none in the queue when it
\* goes on with a snapshot.
SpoolLawful ==
  /\ ~deployment.spooled => tr.pc \notin {"submit", "wait"} /\ \A s \in Snapshot : request[s] = "none"
  /\ \A s \in Snapshot : request[s] # "none" => result[s] = "none"
  /\ tr.pc = "train" => ~deployment.spooled
  /\ tr.pc \in Promoting \cup {"qualify", "select", "tidy", "report"} => request[tr.snap] # "queued"

\* The active snapshot, and the one to go back to, keep their artifacts and their model.
Kept(s) == s # 0 => "trained" \in files[s] /\ s \in tagged
BothKept ==
  /\ Kept(active.snap)
  /\ tr.pc \in Promoting => Kept(tr.prev.snap)
  /\ tr.pc \in (Promoting \ {"undo"}) \cup {"select", "tidy"} => "trained" \in files[tr.snap]
  /\ tr.pc \in {"copy", "adapter", "publish", "health", "tidy"} => tr.snap \in tagged
  /\ tr.pc \in {"health", "tidy"} => active.snap = tr.snap

\* The alias and the pointer agree outside the steps of a promotion that move them.
Served == active.snap # 0 => active.snap \in healthy /\ alias = active.snap
ServedLawful ==
  ~interrupted =>
    /\ tr.pc \notin {"adapter", "publish", "health", "undo"} => Served
    /\ tr.pc \in Promoting => tr.prev.snap \in healthy \cup {0}
    /\ tr.pc \in {"adapter", "publish", "health"} => alias = tr.snap
    /\ tr.pc \in {"create", "copy", "adapter", "publish"} \/ (tr.pc = "undo" /\ ~tr.restore)
         => active.snap = tr.prev.snap

(* What a row can still cost: it was promoted with some snapshots, it may go into one
   more, and each request left in the queue may send it back once more. A row whose
   promoted snapshot is on its way to being recorded goes into no other. *)
InHand(r) == tr.snap # 0 /\ r \in dataset[tr.snap]
Settled(r) ==
  /\ InHand(r) /\ tr.snap \in healthy /\ tr.err = "none"
  /\ tr.pc \in {"tidy", "report", "finish"} \/ (tr.pc = "mark" /\ marker.snap = 0)
Again(r) ==
  /\ ~Settled(r)
  /\ \/ ledgerRow[r].status \in {"new", "retry", "failed"}
     \/ marker.snap # 0 /\ r \in dataset[marker.snap]
     \/ InHand(r)
Left(r) ==
  {s \in Snapshot : /\ request[s] = "queued" /\ r \in dataset[s]
                    /\ s # marker.snap \/ tr.pc = "finish"}
PromotedIn(r) == {s \in healthy : r \in dataset[s]}
RowPaid(r) ==
  Cardinality(PromotedIn(r)) + (IF Again(r) THEN 1 ELSE 0) + Cardinality(Left(r)) <= 1 + slips
RowsPaid == \A r \in TrainRow : RowPaid(r)

\* Sets of snapshots are finite.
LEMMA SnapshotSets ==
  ASSUME NEW A \in SUBSET Snapshot, NEW B \in SUBSET Snapshot, A \subseteq B
  PROVE  /\ Cardinality(A) \in Nat /\ Cardinality(B) \in Nat /\ Cardinality(A) <= Cardinality(B)
         /\ IsFiniteSet(A) /\ IsFiniteSet(B)
<1>1. IsFiniteSet(Snapshot)
  BY FS_Interval, TrainerAssumption DEF Snapshot, TrainerAssumption
<1> QED
  BY <1>1, FS_Subset, FS_CardinalityType

LEMMA OneMoreSnapshot ==
  ASSUME NEW A \in SUBSET Snapshot, NEW B \in SUBSET Snapshot, NEW s \in Snapshot, A \subseteq B \cup {s}
  PROVE  Cardinality(A) <= Cardinality(B) + 1 /\ Cardinality(A) \in Nat /\ Cardinality(B) \in Nat
<1>1. IsFiniteSet(B) /\ Cardinality(B) \in Nat
  BY SnapshotSets
<1>2. Cardinality(A) \in Nat /\ Cardinality(A) <= Cardinality(B \cup {s}) /\ Cardinality(B \cup {s}) \in Nat
  BY SnapshotSets
<1>3. Cardinality(B \cup {s}) \in {Cardinality(B), Cardinality(B) + 1}
  BY <1>1, FS_AddElement
<1> QED
  BY <1>1, <1>2, <1>3

LEMMA OneLessSnapshot ==
  ASSUME NEW A \in SUBSET Snapshot, NEW B \in SUBSET Snapshot, NEW s \in B, A \subseteq B \ {s}
  PROVE  Cardinality(A) + 1 <= Cardinality(B) /\ Cardinality(A) \in Nat /\ Cardinality(B) \in Nat
<1>1. IsFiniteSet(B) /\ Cardinality(B) \in Nat
  BY SnapshotSets
<1>2. Cardinality(A) \in Nat /\ Cardinality(A) <= Cardinality(B \ {s}) /\ Cardinality(B \ {s}) \in Nat
  BY SnapshotSets
<1>3. Cardinality(B \ {s}) = Cardinality(B) - 1
  BY <1>1, FS_RemoveElement
<1> QED
  BY <1>1, <1>2, <1>3

\* How a step may pay for a row: it adds nothing; a fault pays for the row's return, or
\* for the request that it leaves; a request that sends the row back is used up; and a
\* promotion uses up the row's return.
LEMMA RowStaysPaid ==
  ASSUME TrainerTypeOK, TrainerTypeOK', NEW r \in TrainRow, RowPaid(r), slips' >= slips,
         PromotedIn(r)' \subseteq PromotedIn(r), Left(r)' \subseteq Left(r),
         Again(r)' => Again(r) \/ slips' = slips + 1
  PROVE  RowPaid(r)'
<1> DEFINE P == PromotedIn(r)
           W == Left(r)
           a == IF Again(r) THEN 1 ELSE 0
<1>1. Cardinality(P') \in Nat /\ Cardinality(P) \in Nat /\ Cardinality(P') <= Cardinality(P)
  BY SnapshotSets DEF PromotedIn, TrainerTypeOK
<1>2. Cardinality(W') \in Nat /\ Cardinality(W) \in Nat /\ Cardinality(W') <= Cardinality(W)
  BY SnapshotSets DEF Left
<1>3. a \in 0 .. 1 /\ a' \in 0 .. 1 /\ (a' <= a \/ slips' = slips + 1)
  BY DEF Again
<1>4. slips \in Nat /\ slips' \in Nat
  BY DEF TrainerTypeOK
<1>5. Cardinality(P) + a + Cardinality(W) <= 1 + slips
  BY DEF RowPaid
<1> HIDE DEF P, W, a
<1>6. Cardinality(P') + a' + Cardinality(W') <= 1 + slips'
  BY <1>1, <1>2, <1>3, <1>4, <1>5
<1> QED
  BY <1>6 DEF RowPaid, P, W, a

LEMMA RowLeft ==
  ASSUME TrainerTypeOK, TrainerTypeOK', NEW r \in TrainRow, RowPaid(r), slips' = slips + 1,
         PromotedIn(r)' \subseteq PromotedIn(r), NEW s \in Snapshot, Left(r)' \subseteq Left(r) \cup {s},
         Again(r)' => Again(r)
  PROVE  RowPaid(r)'
<1> DEFINE P == PromotedIn(r)
           W == Left(r)
           a == IF Again(r) THEN 1 ELSE 0
<1>1. Cardinality(P') \in Nat /\ Cardinality(P) \in Nat /\ Cardinality(P') <= Cardinality(P)
  BY SnapshotSets DEF PromotedIn, TrainerTypeOK
<1>2. Cardinality(W') \in Nat /\ Cardinality(W) \in Nat /\ Cardinality(W') <= Cardinality(W) + 1
  BY OneMoreSnapshot DEF Left
<1>3. a \in 0 .. 1 /\ a' \in 0 .. 1 /\ a' <= a
  BY DEF Again
<1>4. slips \in Nat
  BY DEF TrainerTypeOK
<1>5. Cardinality(P) + a + Cardinality(W) <= 1 + slips
  BY DEF RowPaid
<1> HIDE DEF P, W, a
<1>6. Cardinality(P') + a' + Cardinality(W') <= 1 + slips'
  BY <1>1, <1>2, <1>3, <1>4, <1>5
<1> QED
  BY <1>6 DEF RowPaid, P, W, a

LEMMA RowSentBack ==
  ASSUME TrainerTypeOK, TrainerTypeOK', NEW r \in TrainRow, RowPaid(r), slips' = slips,
         PromotedIn(r)' \subseteq PromotedIn(r), NEW s \in Left(r), Left(r)' \subseteq Left(r) \ {s}
  PROVE  RowPaid(r)'
<1> DEFINE P == PromotedIn(r)
           W == Left(r)
           a == IF Again(r) THEN 1 ELSE 0
<1>1. Cardinality(P') \in Nat /\ Cardinality(P) \in Nat /\ Cardinality(P') <= Cardinality(P)
  BY SnapshotSets DEF PromotedIn, TrainerTypeOK
<1>2. Cardinality(W') \in Nat /\ Cardinality(W) \in Nat /\ Cardinality(W') + 1 <= Cardinality(W)
  <2>1. W \in SUBSET Snapshot /\ W' \in SUBSET Snapshot /\ s \in W /\ W' \subseteq W \ {s}
    BY DEF Left
  <2> HIDE DEF W
  <2> QED
    BY <2>1, OneLessSnapshot
<1>3. a \in 0 .. 1 /\ a' \in 0 .. 1
  BY DEF Again
<1>4. slips \in Nat
  BY DEF TrainerTypeOK
<1>5. Cardinality(P) + a + Cardinality(W) <= 1 + slips
  BY DEF RowPaid
<1> HIDE DEF P, W, a
<1>6. Cardinality(P') + a' + Cardinality(W') <= 1 + slips'
  BY <1>1, <1>2, <1>3, <1>4, <1>5
<1> QED
  BY <1>6 DEF RowPaid, P, W, a

LEMMA RowPromoted ==
  ASSUME TrainerTypeOK, TrainerTypeOK', NEW r \in TrainRow, RowPaid(r), slips' = slips,
         NEW s \in Snapshot, PromotedIn(r)' \subseteq PromotedIn(r) \cup {s}, Left(r)' \subseteq Left(r),
         Again(r), ~Again(r)'
  PROVE  RowPaid(r)'
<1> DEFINE P == PromotedIn(r)
           W == Left(r)
<1>1. Cardinality(P') \in Nat /\ Cardinality(P) \in Nat /\ Cardinality(P') <= Cardinality(P) + 1
  BY OneMoreSnapshot DEF PromotedIn, TrainerTypeOK
<1>2. Cardinality(W') \in Nat /\ Cardinality(W) \in Nat /\ Cardinality(W') <= Cardinality(W)
  BY SnapshotSets DEF Left
<1>4. slips \in Nat
  BY DEF TrainerTypeOK
<1>5. Cardinality(P) + 1 + Cardinality(W) <= 1 + slips
  BY DEF RowPaid
<1> HIDE DEF P, W
<1>6. Cardinality(P') + 0 + Cardinality(W') <= 1 + slips'
  BY <1>1, <1>2, <1>4, <1>5
<1> QED
  BY <1>6 DEF RowPaid, P, W

\* What Goto, Fail and Resting do to the worker's state.
Moved(pc, err) ==
  /\ tr'.pc = pc /\ tr'.err = err /\ tr'.snap = tr.snap /\ tr'.prev = tr.prev
  /\ tr'.target = tr.target /\ tr'.restore = tr.restore

LEMMA TrainerMoves ==
  ASSUME TrainerTypeOK, NEW pc, NEW err
  PROVE  /\ Goto(pc) => Moved(pc, tr.err)
         /\ Fail(pc, err) => Moved(pc, err)
         /\ tr' = Resting(pc) => tr'.pc = pc /\ tr'.snap = 0 /\ tr'.err = "none"
<1>1. tr \in TrainerState
  BY DEF TrainerTypeOK
<1>2. Goto(pc) => Moved(pc, tr.err)
  BY <1>1 DEF Goto, Moved, TrainerState
<1>3. Fail(pc, err) => Moved(pc, err)
  BY <1>1 DEF Fail, Moved, TrainerState
<1> QED
  BY <1>2, <1>3 DEF Resting

LEMMA RowsStay ==
  ASSUME TrainerTypeOK, TrainerTypeOK', RowsPaid, dataset' = dataset, healthy' = healthy, slips' >= slips,
         \A r \in TrainRow : Left(r)' \subseteq Left(r) /\ (Again(r)' => Again(r) \/ slips' = slips + 1)
  PROVE  RowsPaid'
<1> SUFFICES ASSUME NEW r \in TrainRow PROVE RowPaid(r)'
  BY DEF RowsPaid
<1>1. RowPaid(r) /\ PromotedIn(r)' = PromotedIn(r)
  BY DEF RowsPaid, PromotedIn
<1> QED
  BY <1>1, RowStaysPaid

\* A step within a snapshot brings no row back.
LEMMA HandStays ==
  ASSUME NEW r, ledgerRow' = ledgerRow, dataset' = dataset, healthy' = healthy,
         marker'.snap = marker.snap, tr'.snap = tr.snap, Settled(r) => Settled(r)'
  PROVE  Again(r)' => Again(r)
BY DEF Again, InHand

(* The steps of one snapshot, from its training to its report: what they all leave
   alone, and what each of them must show. *)
LEMMA WithinSnapshot ==
  ASSUME TrainerTypeOK, TrainerTypeOK', TrainerPlaced, SnapshotsDated, SnapshotHeld, SpoolLawful, RowsPaid,
         NEW pc, NEW err, Moved(pc, err) \/ (tr'.pc = pc /\ tr'.err = err /\ tr'.snap = tr.snap),
         tr.pc \notin Between \cup {"finish", "mark", "tidy"}, pc \notin Between \cup {"mark", "tidy"},
         err # "none" => pc \in {"undo", "report", "finish"},
         UNCHANGED <<deployment, ledgerRow, dataset, healthy, result>>, marker'.snap = marker.snap,
         slips' = slips \/ slips' = slips + 1,
         tagged' \subseteq tagged \cup {tr.snap},
         \A s \in Snapshot : request'[s] # request[s] => s = tr.snap,
         deployment.spooled \/ request' = request,
         request'[tr.snap] # "none" => result[tr.snap] = "none",
         pc \in {"submit", "wait"} => deployment.spooled, pc = "train" => ~deployment.spooled,
         pc \notin {"submit", "wait", "train"} =>
           request'[tr.snap] # "queued" \/ (pc = "finish" /\ slips' = slips + 1),
         tr.pc = "report" => pc = "finish" /\ request' = request /\ (err = tr.err \/ slips' = slips + 1)
  PROVE  SnapshotsDated' /\ SnapshotHeld' /\ SpoolLawful' /\ RowsPaid'
<1>0. tr.snap \in Snapshot /\ tr.snap # 0 /\ tr.pc # "collect" /\ slips \in Nat /\ marker.snap = tr.snap
      /\ tr'.pc = pc /\ tr'.err = err /\ tr'.snap = tr.snap
  BY TrainerAssumption
     DEF TrainerPlaced, TrainerTypeOK, TrainerState, Snapshot, TrainerAssumption, Between, Moved, SnapshotHeld
<1>1. SnapshotsDated'
  <2>1. PICK n \in 0 .. SnapshotBound : Dated(n)
    BY DEF SnapshotsDated
  <2>2. tr.snap <= n
    BY <1>0, <2>1 DEF Dated
  <2>3. Dated(n)'
    BY <1>0, <2>1, <2>2 DEF Dated
  <2> QED
    BY <2>3 DEF SnapshotsDated
<1>2. SnapshotHeld'
  BY <1>0 DEF SnapshotHeld, Between
<1>3. SpoolLawful'
  <2>1. ~deployment.spooled => pc \notin {"submit", "wait"} /\ \A s \in Snapshot : request'[s] = "none"
    BY DEF SpoolLawful
  <2>2. ASSUME NEW s \in Snapshot, request'[s] # "none" PROVE result[s] = "none"
    BY <2>2 DEF SpoolLawful
  <2>3. pc \in Promoting \cup {"qualify", "select", "tidy", "report"} => request'[tr.snap] # "queued"
    BY DEF Promoting
  <2> QED
    BY <1>0, <2>1, <2>2, <2>3 DEF SpoolLawful
<1>4. RowsPaid'
  <2> SUFFICES ASSUME NEW r \in TrainRow PROVE RowPaid(r)'
    BY DEF RowsPaid
  <2>1. RowPaid(r) /\ PromotedIn(r)' = PromotedIn(r) /\ slips' >= slips
    BY <1>0 DEF RowsPaid, PromotedIn
  <2>2. Left(r)' \subseteq Left(r) \/ (pc = "finish" /\ slips' = slips + 1 /\ Left(r)' \subseteq Left(r) \cup {tr.snap})
    BY <1>0 DEF Left
  <2>3. Again(r)' => Again(r) \/ slips' = slips + 1
    <3>1. Settled(r) => tr.pc = "report"
      BY DEF Settled
    <3>2. Settled(r) => Settled(r)' \/ slips' = slips + 1
      BY <1>0, <3>1 DEF Settled, InHand
    <3> QED
      BY <1>0, <3>2, HandStays
  <2>4. CASE Left(r)' \subseteq Left(r)
    BY <2>1, <2>3, <2>4, RowStaysPaid
  <2>5. CASE ~(Left(r)' \subseteq Left(r))
    <3>1. Again(r)' => Again(r)
      <4>1. tr.pc # "report"
        <5> SUFFICES ASSUME tr.pc = "report" PROVE FALSE
          OBVIOUS
        <5>1. request' = request /\ request[tr.snap] # "queued"
          BY DEF SpoolLawful
        <5>2. Left(r)' \subseteq Left(r)
          BY <1>0, <5>1 DEF Left
        <5> QED
          BY <2>5, <5>2
      <4> QED
        BY <1>0, <4>1, HandStays DEF Settled
    <3> QED
      BY <1>0, <2>1, <2>2, <2>5, <3>1, RowLeft
  <2> QED
    BY <2>4, <2>5
<1> QED
  BY <1>1, <1>2, <1>3, <1>4

\* A step within a snapshot that moves neither the pointer nor the alias.
LEMMA WithinServed ==
  ASSUME BothKept, ServedLawful, NEW pc, NEW err, Moved(pc, err),
         UNCHANGED <<active, alias, healthy, interrupted>>,
         tagged \subseteq tagged', \A s \in Snapshot : files[s] \subseteq files'[s],
         tr.pc \notin {"adapter", "publish", "health", "undo"}, TrainerTypeOK, TrainerTypeOK',
         pc \in {"select"} => "trained" \in files'[tr.snap],
         pc \in {"copy"} => tr.pc = "create" /\ tr.snap \in tagged',
         pc = "undo" => tr.pc \in {"create", "copy"}, tr.snap \in Snapshot,
         pc \notin {"create", "adapter", "publish", "health", "tidy"}
  PROVE  BothKept' /\ ServedLawful'
<1>0. /\ tr'.pc = pc /\ tr'.snap = tr.snap /\ tr'.prev = tr.prev
      /\ active.snap \in 0 .. SnapshotBound /\ tr.prev.snap \in 0 .. SnapshotBound
      /\ tr.snap \in 0 .. SnapshotBound
  BY DEF Moved, TrainerTypeOK, TrainerState, Pointer
<1>1. ASSUME NEW s \in 0 .. SnapshotBound, Kept(s) PROVE Kept(s)'
  BY <1>1, TrainerAssumption DEF Kept, Snapshot, TrainerAssumption
<1>2. Kept(active.snap)' /\ (pc \in Promoting => Kept(tr.prev.snap)')
  BY <1>0, <1>1 DEF BothKept, Promoting
<1>3. BothKept'
  <2>1. pc \in (Promoting \ {"undo"}) \cup {"select", "tidy"} => "trained" \in files'[tr.snap]
    <3>1. pc = "copy" => "trained" \in files[tr.snap]
      BY <1>0 DEF BothKept, Promoting
    <3> QED
      BY <3>1 DEF Promoting
  <2> QED
    BY <1>0, <1>2, <2>1 DEF BothKept, Kept
<1>4. ServedLawful'
  BY <1>0 DEF ServedLawful, Served, Promoting
<1> QED
  BY <1>3, <1>4

TrainerInv ==
  /\ SnapshotsDated /\ SnapshotHeld /\ SpoolLawful /\ BothKept /\ ServedLawful /\ RowsPaid

\* Training, from the choice of its command to the qualification of its artifacts.
LEMMA TrainingKeeps ==
  ASSUME TrainerTypeOK, TrainerTypeOK', TrainerPlaced, TrainerInv,
         Prepare \/ Submit \/ AwaitResult \/ TrainLocally \/ Qualify
  PROVE  TrainerInv'
<1> USE DEF spoolVars, servedVars, NoSlip, Slip
<1>0. tr.pc \notin Between =>
        tr.snap \in Snapshot /\ tr.snap # 0 /\ (marker.snap = tr.snap \/ tr.pc = "mark")
  BY TrainerAssumption
     DEF TrainerPlaced, TrainerTypeOK, TrainerState, Snapshot, TrainerAssumption, TrainerInv, SnapshotHeld
<1>a. ASSUME NEW pc, NEW err, Moved(pc, err), tr.pc \in {"prepare", "submit", "wait", "train", "qualify"},
             pc \in {"report", "submit", "train", "wait", "qualify", "select", "finish"},
             err # "none" => pc = "finish",
             UNCHANGED <<deployment, ledgerRow, dataset, result>>, UNCHANGED servedVars,
             UNCHANGED interrupted, marker'.snap = marker.snap,
             slips' = slips \/ slips' = slips + 1,
             \A s \in Snapshot : files[s] \subseteq files'[s],
             pc = "select" => "trained" \in files'[tr.snap],
             \A s \in Snapshot : request'[s] # request[s] => s = tr.snap,
             deployment.spooled \/ request' = request,
             request'[tr.snap] # "none" => result[tr.snap] = "none",
             pc \in {"submit", "wait"} => deployment.spooled, pc = "train" => ~deployment.spooled,
             pc \notin {"submit", "wait", "train"} =>
               request'[tr.snap] # "queued" \/ (pc = "finish" /\ slips' = slips + 1)
      PROVE  TrainerInv'
  <2>1. SnapshotsDated' /\ SnapshotHeld' /\ SpoolLawful' /\ RowsPaid'
    <3>1. /\ tr.pc \notin Between \cup {"finish", "mark", "tidy"} /\ pc \notin Between \cup {"mark", "tidy"}
          /\ tr.pc # "report"
      BY <1>a DEF Between
    <3> QED
      BY <1>a, <3>1, WithinSnapshot DEF TrainerInv
  <2>2. BothKept' /\ ServedLawful'
    <3>1. tr.snap \in Snapshot
      BY <1>0, <1>a DEF Between
    <3> QED
      BY <1>a, <3>1, WithinServed DEF TrainerInv
  <2> QED
    BY <2>1, <2>2 DEF TrainerInv
<1>e. tr.err # "none" => tr.pc \in {"undo", "report", "finish", "mark"}
  BY DEF TrainerInv, SnapshotHeld
<1>r. /\ \A s \in Snapshot : request[s] # "none" => result[s] = "none"
      /\ ~deployment.spooled => tr.pc \notin {"submit", "wait"} /\ \A s \in Snapshot : request[s] = "none"
      /\ tr.pc = "train" => ~deployment.spooled
  BY DEF TrainerInv, SpoolLawful
<1>1. CASE Prepare
  <2>0. tr.pc = "prepare" /\ tr.snap \in Snapshot /\ tr.err = "none"
    BY <1>0, <1>1, <1>e DEF Prepare, Between
  <2>1. ~(active.snap # 0 /\ "trained" \notin files[active.snap])
    BY DEF TrainerInv, BothKept, Kept
  <2>2. \/ "error" \in Invocations /\ slips' = slips + 1 /\ Fail("finish", "plain")
        \/ "none" \in Invocations /\ slips' = slips /\ Goto("report")
        \/ slips' = slips /\ Goto(IF deployment.spooled THEN "submit" ELSE "train")
    BY <1>1, <2>1 DEF Prepare
  <2>3. UNCHANGED <<deployment, ledgerRow, dataset, files, marker, interrupted, request, result, tagged, alias,
                    adapter, active, healthy>>
    BY <1>1 DEF Prepare
  <2>4. CASE slips' = slips + 1 /\ Fail("finish", "plain")
    BY <1>a, <1>r, <2>0, <2>3, <2>4, TrainerMoves
  <2>5. CASE "none" \in Invocations /\ slips' = slips /\ Goto("report")
    <3>1. ~deployment.spooled
      BY <2>5 DEF Invocations, TrainerTypeOK
    <3> QED
      BY <1>a, <1>r, <2>0, <2>3, <2>5, <3>1, TrainerMoves
  <2>6. CASE slips' = slips /\ Goto(IF deployment.spooled THEN "submit" ELSE "train")
    <3>1. CASE deployment.spooled
      BY <1>a, <1>r, <2>0, <2>3, <2>6, <3>1, TrainerMoves
    <3>2. CASE ~deployment.spooled
      BY <1>a, <1>r, <2>0, <2>3, <2>6, <3>2, TrainerMoves
    <3> QED
      BY <3>1, <3>2
  <2> QED
    BY <2>2, <2>4, <2>5, <2>6
<1>2. CASE Submit
  <2>0. tr.pc = "submit" /\ tr.snap \in Snapshot /\ tr.err = "none" /\ deployment.spooled
    BY <1>0, <1>2, <1>e, <1>r DEF Submit, Between
  <2>3. UNCHANGED <<deployment, ledgerRow, dataset, files, marker, interrupted, result, tagged, alias, slips,
                    adapter, active, healthy>>
    BY <1>2 DEF Submit
  <2>4. CASE result[tr.snap] = "none"
    <3>1. Goto("wait") /\ \A s \in Snapshot : request'[s] # request[s] => s = tr.snap
      BY <1>2, <2>4 DEF Submit, TrainerTypeOK
    <3> QED
      BY <1>a, <1>r, <2>0, <2>3, <2>4, <3>1, TrainerMoves
  <2>5. CASE result[tr.snap] # "none"
    <3>1. request' = request /\ request[tr.snap] = "none" /\ (Goto("qualify") \/ Fail("finish", "plain"))
      BY <1>2, <1>r, <2>0, <2>5 DEF Submit
    <3>2. CASE Goto("qualify")
      BY <1>a, <1>r, <2>0, <2>3, <3>1, <3>2, TrainerMoves
    <3>3. CASE Fail("finish", "plain")
      BY <1>a, <1>r, <2>0, <2>3, <3>1, <3>3, TrainerMoves
    <3> QED
      BY <3>1, <3>2, <3>3
  <2> QED
    BY <2>4, <2>5
<1>3. CASE AwaitResult
  <2>0. tr.pc = "wait" /\ tr.snap \in Snapshot /\ tr.err = "none" /\ deployment.spooled /\ marker.snap = tr.snap
    BY <1>0, <1>3, <1>e, <1>r DEF AwaitResult, Between
  <2>3. UNCHANGED <<deployment, ledgerRow, dataset, files, interrupted, result, tagged, alias,
                    adapter, active, healthy>>
    BY <1>3 DEF AwaitResult
  <2>4. CASE /\ result[tr.snap] # "none" /\ slips' = slips /\ marker' = [snap |-> tr.snap, fresh |-> TRUE]
             /\ Goto("qualify") \/ Fail("finish", "plain")
             /\ request' = request
    <3>1. request[tr.snap] = "none" /\ marker'.snap = marker.snap
      BY <1>r, <2>0, <2>4
    <3>2. CASE Goto("qualify")
      BY <1>a, <1>r, <2>0, <2>3, <2>4, <3>1, <3>2, TrainerMoves
    <3>3. CASE Fail("finish", "plain")
      BY <1>a, <1>r, <2>0, <2>3, <2>4, <3>1, <3>3, TrainerMoves
    <3> QED
      BY <2>4, <3>2, <3>3
  <2>5. ASSUME NEW stopped \in BOOLEAN, result[tr.snap] = "none", slips' = slips, Fail("finish", "plain"),
               marker' = [snap |-> tr.snap, fresh |-> TRUE],
               request' = [request EXCEPT ![tr.snap] = IF @ = "queued" \/ stopped THEN "none" ELSE @]
        PROVE  TrainerInv'
    <3>1. /\ request'[tr.snap] # "queued" /\ marker'.snap = marker.snap
          /\ \A s \in Snapshot : request'[s] # request[s] => s = tr.snap
      BY <2>0, <2>5 DEF TrainerTypeOK
    <3> QED
      BY <1>a, <1>r, <2>0, <2>3, <2>5, <3>1, TrainerMoves
  <2>6. CASE slips' = slips + 1 /\ Fail("finish", "plain") /\ request' = request /\ marker' = marker
    BY <1>a, <1>r, <2>0, <2>3, <2>6, TrainerMoves
  <2> QED
    BY <1>3, <2>4, <2>5, <2>6 DEF AwaitResult
<1>4. CASE TrainLocally
  <2>0. tr.pc = "train" /\ tr.snap \in Snapshot /\ tr.err = "none" /\ ~deployment.spooled
    BY <1>0, <1>4, <1>e, <1>r DEF TrainLocally, Between
  <2>3. UNCHANGED <<deployment, ledgerRow, dataset, marker, interrupted, request, result, tagged, alias, slips,
                    adapter, active, healthy>>
    BY <1>4 DEF TrainLocally
  <2>4. \A s \in Snapshot : files[s] \subseteq files'[s]
    BY <1>4 DEF TrainLocally, TrainerTypeOK
  <2>5. CASE Goto("qualify")
    BY <1>a, <1>r, <2>0, <2>3, <2>4, <2>5, TrainerMoves
  <2>6. ASSUME NEW err \in {"plain", "infra"}, Fail("finish", err) PROVE TrainerInv'
    BY <1>a, <1>r, <2>0, <2>3, <2>4, <2>6, TrainerMoves
  <2> QED
    BY <1>4, <2>5, <2>6 DEF TrainLocally
<1>5. CASE Qualify
  <2>0. tr.pc = "qualify" /\ tr.snap \in Snapshot /\ tr.err = "none" /\ request[tr.snap] # "queued"
    BY <1>0, <1>5, <1>e DEF Qualify, Between, TrainerInv, SpoolLawful
  <2>3. UNCHANGED <<deployment, ledgerRow, dataset, marker, interrupted, request, result, tagged, alias, slips,
                    adapter, active, healthy>>
    BY <1>5 DEF Qualify
  <2>4. \A s \in Snapshot : files[s] \subseteq files'[s]
    BY <1>5 DEF Qualify, TrainerTypeOK
  <2>5. CASE Goto("select") /\ "trained" \in files[tr.snap] /\ files' = files
    BY <1>a, <1>r, <2>0, <2>3, <2>4, <2>5, TrainerMoves
  <2>6. CASE Fail("finish", "plain")
    BY <1>a, <1>r, <2>0, <2>3, <2>4, <2>6, TrainerMoves
  <2> QED
    BY <1>5, <2>5, <2>6 DEF Qualify
<1> QED
  BY <1>1, <1>2, <1>3, <1>4, <1>5

\* Promotion, from the choice of the serving target to the report of the snapshot.
LEMMA PromotionKeeps ==
  ASSUME TrainerTypeOK, TrainerTypeOK', TrainerPlaced, TrainerInv,
         \/ SelectTarget \/ CreateModel \/ CopyAlias \/ PublishAdapter \/ PublishActive
         \/ (CheckHealth /\ ~Goto("tidy")) \/ RollBack \/ WriteReport
  PROVE  TrainerInv'
<1> USE DEF spoolVars, servedVars, NoSlip, Slip
<1>0. /\ tr.pc \in Promoting \cup {"select", "report"} /\ tr.pc \notin Between
      /\ tr.snap \in Snapshot /\ tr.snap # 0 /\ marker.snap = tr.snap
  <2>1. tr.pc \in Promoting \cup {"select", "report"} /\ tr.pc \notin Between /\ tr.pc # "mark"
    BY DEF SelectTarget, CreateModel, CopyAlias, PublishAdapter, PublishActive, CheckHealth, RollBack,
           WriteReport, Promoting, Between
  <2> QED
    BY <2>1, TrainerAssumption
       DEF TrainerPlaced, TrainerTypeOK, TrainerState, Snapshot, TrainerAssumption, TrainerInv, SnapshotHeld
<1>e. (tr.err # "none" => tr.pc \in {"undo", "report", "finish", "mark"}) /\ request[tr.snap] # "queued"
  BY <1>0 DEF TrainerInv, SnapshotHeld, SpoolLawful
<1>r. /\ \A s \in Snapshot : request[s] # "none" => result[s] = "none"
  BY DEF TrainerInv, SpoolLawful
<1>u. /\ UNCHANGED <<deployment, ledgerRow, dataset, healthy, result, marker, request>>
      /\ tagged' \subseteq tagged \cup {tr.snap} /\ (slips' = slips \/ slips' = slips + 1)
      /\ tagged \subseteq tagged' /\ \A s \in Snapshot : files[s] \subseteq files'[s]
  <2>1. CASE CreateModel
    BY <2>1 DEF CreateModel
  <2>2. CASE WriteReport
    BY <2>2 DEF WriteReport, TrainerTypeOK
  <2>3. CASE RollBack
    BY <2>3 DEF RollBack
  <2>4. CASE CheckHealth /\ ~Goto("tidy")
    BY <2>4 DEF CheckHealth
  <2>5. CASE SelectTarget \/ CopyAlias \/ PublishAdapter \/ PublishActive
    BY <2>5 DEF SelectTarget, CopyAlias, PublishAdapter, PublishActive
  <2> QED
    BY <2>1, <2>2, <2>3, <2>4, <2>5
<1>k. \A s \in 0 .. SnapshotBound : Kept(s) => Kept(s)'
  BY <1>u, TrainerAssumption DEF Kept, Snapshot, TrainerAssumption
<1>t. active.snap \in 0 .. SnapshotBound /\ tr.prev.snap \in 0 .. SnapshotBound
  BY DEF TrainerTypeOK, TrainerState, Pointer
<1>f. "trained" \in files[tr.snap] => "trained" \in files'[tr.snap]
  BY <1>0, <1>u
<1>a. ASSUME NEW pc \in Promoting \cup {"report", "finish"}, NEW err,
             tr'.pc = pc /\ tr'.err = err /\ tr'.snap = tr.snap,
             err # "none" => pc \in {"undo", "report", "finish"},
             tr.pc = "report" => pc = "finish" /\ (err = tr.err \/ slips' = slips + 1)
      PROVE  SnapshotsDated' /\ SnapshotHeld' /\ SpoolLawful' /\ RowsPaid'
  <2>1. /\ tr.pc \notin Between \cup {"finish", "mark", "tidy"} /\ pc \notin Between \cup {"mark", "tidy"}
        /\ pc \notin {"submit", "wait", "train"}
    BY <1>0, <1>a DEF Between, Promoting
  <2>2. request[tr.snap] # "none" => result[tr.snap] = "none"
    BY <1>0, <1>r
  <2> QED
    BY <1>0, <1>e, <1>u, <1>a, <2>1, <2>2, WithinSnapshot DEF TrainerInv
<1>b. BothKept /\ ServedLawful
  BY DEF TrainerInv
<1>1. CASE SelectTarget
  <2>1. CASE Fail("finish", "plain")
    <3>1. Moved("finish", "plain")
      BY <2>1, TrainerMoves
    <3>2. BothKept' /\ ServedLawful'
      BY <1>0, <1>1, <1>u, <1>b, <3>1, WithinServed DEF SelectTarget
    <3> QED
      BY <1>1, <1>a, <3>1, <3>2 DEF TrainerInv, Moved, SelectTarget
  <2>2. ASSUME NEW t, NEW pc \in {"create", "report"},
               tr' = [tr EXCEPT !.pc = pc, !.target = t, !.prev = active]
        PROVE  TrainerInv'
    <3>1. /\ tr'.pc = pc /\ tr'.err = tr.err /\ tr'.snap = tr.snap /\ tr'.prev = active
          /\ pc \in Promoting \cup {"report"} /\ tr.err = "none" /\ tr.pc = "select"
      BY <1>1, <1>e, <2>2 DEF TrainerTypeOK, TrainerState, SelectTarget, Promoting
    <3>2. SnapshotsDated' /\ SnapshotHeld' /\ SpoolLawful' /\ RowsPaid'
      BY <1>a, <3>1
    <3>3. UNCHANGED <<active, alias, healthy, interrupted, tagged, files>>
      BY <1>1 DEF SelectTarget
    <3>4. Kept(active.snap)' /\ Kept(tr.prev.snap)' /\ "trained" \in files'[tr.snap]
      BY <1>b, <3>1, <3>3 DEF BothKept, Kept
    <3>5. BothKept'
      BY <2>2, <3>1, <3>3, <3>4 DEF BothKept
    <3>6. ServedLawful'
      BY <1>b, <2>2, <3>1, <3>3 DEF ServedLawful, Served
    <3> QED
      BY <3>2, <3>5, <3>6 DEF TrainerInv
  <2> QED
    BY <1>1, <2>1, <2>2, Zenon DEF SelectTarget
\* The steps that go on to another, or to the rollback with an error.
<1>c. ASSUME NEW pc \in Promoting, NEW err, Moved(pc, err), err # "none" => pc = "undo",
             tr.pc \in Promoting \ {"undo"}, BothKept', ServedLawful'
      PROVE  TrainerInv'
  BY <1>a, <1>c DEF TrainerInv, Moved, Promoting
<1>2. CASE CreateModel
  <2>0. tr.pc = "create" /\ tr.err = "none" /\ UNCHANGED <<active, alias, interrupted>>
    BY <1>2, <1>e DEF CreateModel
  <2>1. CASE Goto("copy") /\ tagged' = tagged \cup {tr.snap}
    <3>1. Moved("copy", "none")
      BY <2>0, <2>1, TrainerMoves
    <3>2. BothKept' /\ ServedLawful'
      BY <1>0, <1>u, <1>b, <2>0, <2>1, <3>1, WithinServed DEF CreateModel
    <3> QED
      BY <1>c, <2>0, <3>1, <3>2 DEF Promoting
  <2>2. ASSUME NEW err, Fail("undo", err) PROVE TrainerInv'
    <3>1. Moved("undo", err)
      BY <2>2, TrainerMoves
    <3>2. BothKept' /\ ServedLawful'
      BY <1>0, <1>u, <1>b, <2>0, <3>1, WithinServed DEF CreateModel
    <3> QED
      BY <1>c, <2>0, <3>1, <3>2 DEF Promoting
  <2> QED
    BY <1>2, <2>1, <2>2 DEF CreateModel
<1>3. CASE CopyAlias
  <2>0. tr.pc = "copy" /\ tr.err = "none" /\ UNCHANGED <<active, interrupted, tagged, files>>
    BY <1>3, <1>e DEF CopyAlias
  <2>1. CASE Goto("adapter") /\ alias' = tr.snap
    <3>1. Moved("adapter", "none")
      BY <2>0, <2>1, TrainerMoves
    <3>2. BothKept'
      BY <1>b, <2>0, <3>1 DEF BothKept, Kept, Moved, Promoting
    <3>3. ServedLawful'
      BY <1>b, <1>u, <2>0, <2>1, <3>1 DEF ServedLawful, Served, Moved, Promoting
    <3> QED
      BY <1>c, <2>0, <3>1, <3>2, <3>3 DEF Promoting
  <2>2. CASE Fail("undo", "plain") /\ alias' = alias
    <3>1. Moved("undo", "plain")
      BY <2>2, TrainerMoves
    <3>2. BothKept' /\ ServedLawful'
      BY <1>0, <1>u, <1>b, <2>0, <2>2, <3>1, WithinServed DEF CopyAlias
    <3> QED
      BY <1>c, <2>0, <3>1, <3>2 DEF Promoting
  <2> QED
    BY <1>3, <2>1, <2>2 DEF CopyAlias
<1>4. CASE PublishAdapter
  <2>0. tr.pc = "adapter" /\ tr.err = "none" /\ UNCHANGED <<active, alias, interrupted, tagged, files>>
    BY <1>4, <1>e DEF PublishAdapter
  <2>1. ASSUME NEW pc \in {"publish", "undo"}, NEW err, Moved(pc, err), err # "none" => pc = "undo"
        PROVE  TrainerInv'
    <3>2. BothKept'
      BY <1>b, <2>0, <2>1 DEF BothKept, Kept, Moved, Promoting
    <3>3. ServedLawful'
      BY <1>b, <1>u, <2>0, <2>1 DEF ServedLawful, Served, Moved, Promoting
    <3> QED
      BY <1>c, <2>0, <2>1, <3>2, <3>3 DEF Promoting
  <2> QED
    BY <1>4, <2>0, <2>1, TrainerMoves DEF PublishAdapter
<1>5. CASE PublishActive
  <2>0. tr.pc = "publish" /\ tr.err = "none" /\ UNCHANGED <<alias, interrupted, tagged, files>>
    BY <1>5, <1>e DEF PublishActive
  <2>1. CASE Goto("health") /\ active' = [snap |-> tr.snap, target |-> tr.target]
    <3>1. Moved("health", "none") /\ active'.snap = tr.snap
      BY <2>0, <2>1, TrainerMoves
    <3>2. BothKept'
      BY <1>b, <2>0, <3>1 DEF BothKept, Kept, Moved, Promoting
    <3>3. ServedLawful'
      BY <1>b, <1>u, <2>0, <3>1 DEF ServedLawful, Served, Moved, Promoting
    <3> QED
      BY <1>c, <2>0, <3>1, <3>2, <3>3 DEF Promoting
  <2>2. CASE Fail("undo", "plain") /\ active' = active
    <3>1. Moved("undo", "plain")
      BY <2>2, TrainerMoves
    <3>2. BothKept'
      BY <1>b, <2>0, <2>2, <3>1 DEF BothKept, Kept, Moved, Promoting
    <3>3. ServedLawful'
      BY <1>b, <1>u, <2>0, <2>2, <3>1 DEF ServedLawful, Served, Moved, Promoting
    <3> QED
      BY <1>c, <2>0, <3>1, <3>2, <3>3 DEF Promoting
  <2> QED
    BY <1>5, <2>1, <2>2 DEF PublishActive
<1>6. CASE CheckHealth /\ ~Goto("tidy")
  <2>0. tr.pc = "health" /\ UNCHANGED <<alias, active, interrupted, tagged, files>>
        /\ tr' = [tr EXCEPT !.pc = "undo", !.err = "plain", !.restore = TRUE]
    BY <1>6 DEF CheckHealth
  <2>1. /\ tr'.pc = "undo" /\ tr'.err = "plain" /\ tr'.snap = tr.snap /\ tr'.prev = tr.prev /\ tr'.restore
        /\ "undo" \in Promoting
    BY <2>0 DEF TrainerTypeOK, TrainerState, Promoting
  <2>2. BothKept'
    BY <1>b, <2>0, <2>1 DEF BothKept, Kept, Promoting
  <2>3. ServedLawful'
    BY <1>b, <1>u, <2>0, <2>1 DEF ServedLawful, Served, Promoting
  <2> QED
    BY <1>a, <2>0, <2>1, <2>2, <2>3 DEF TrainerInv
<1>7. CASE RollBack
  <2>0. /\ tr.pc = "undo" /\ Moved("report", tr.err) /\ UNCHANGED <<tagged, files>>
        /\ active' = tr.prev \/ active' = active
    BY <1>7, TrainerMoves DEF RollBack
  <2>1. BothKept'
    <3>1. Kept(active.snap) /\ Kept(tr.prev.snap)
      BY <1>b, <2>0 DEF BothKept, Promoting
    <3>2. Kept(active.snap)'
      BY <2>0, <3>1 DEF Kept
    <3> QED
      BY <2>0, <3>2 DEF BothKept, Moved, Promoting
  <2>2. ServedLawful'
    <3> SUFFICES ASSUME ~interrupted' PROVE Served'
      BY <2>0 DEF ServedLawful, Moved, Promoting
    <3>1. /\ ~interrupted /\ alias' = IF tr.prev.snap = 0 THEN alias ELSE tr.prev.snap
          /\ active' = IF tr.restore THEN tr.prev ELSE active
      BY <1>7 DEF RollBack
    <3>2. tr.prev.snap \in healthy \cup {0} /\ active'.snap = tr.prev.snap
      BY <1>b, <2>0, <3>1 DEF ServedLawful, Promoting
    <3> QED
      BY <1>u, <3>1, <3>2 DEF Served
  <2> QED
    BY <1>a, <1>e, <2>0, <2>1, <2>2 DEF TrainerInv, Moved
<1>8. CASE WriteReport
  <2>0. tr.pc = "report" /\ UNCHANGED <<alias, active, interrupted, tagged>>
    BY <1>8 DEF WriteReport
  <2>1. ASSUME NEW err, Moved("finish", err), err = tr.err \/ slips' = slips + 1 PROVE TrainerInv'
    <3>1. BothKept' /\ ServedLawful'
      BY <1>0, <1>u, <1>b, <2>0, <2>1, WithinServed
    <3> QED
      BY <1>a, <2>0, <2>1, <3>1 DEF TrainerInv, Moved
  <2> QED
    BY <1>8, <2>1, TrainerMoves DEF WriteReport
<1> QED
  BY <1>1, <1>2, <1>3, <1>4, <1>5, <1>6, <1>7, <1>8

\* A health check that passes promotes the snapshot: its rows are settled.
LEMMA HealthKeeps ==
  ASSUME TrainerTypeOK, TrainerTypeOK', TrainerPlaced, TrainerInv, CheckHealth, Goto("tidy")
  PROVE  TrainerInv'
<1>0. /\ tr.pc = "health" /\ Moved("tidy", tr.err) /\ healthy' = healthy \cup {tr.snap}
      /\ UNCHANGED <<deployment, ledgerRow, dataset, files, marker, request, result, tagged, alias, active,
                     interrupted, slips>>
  <2>1. Moved("tidy", tr.err)
    BY TrainerMoves
  <2>2. tr' # [tr EXCEPT !.pc = "undo", !.err = "plain", !.restore = TRUE]
    <3>1. [tr EXCEPT !.pc = "undo", !.err = "plain", !.restore = TRUE].pc = "undo"
      BY DEF TrainerTypeOK, TrainerState
    <3> QED
      BY <2>1, <3>1 DEF Moved
  <2> QED
    BY <2>1, <2>2 DEF CheckHealth, spoolVars
<1>1. /\ tr.snap \in Snapshot /\ tr.snap # 0 /\ marker.snap = tr.snap /\ tr.err = "none"
      /\ tr'.pc = "tidy" /\ tr'.err = tr.err /\ tr'.snap = tr.snap
  BY <1>0, TrainerAssumption
     DEF TrainerPlaced, TrainerTypeOK, TrainerState, Snapshot, TrainerAssumption, TrainerInv, SnapshotHeld,
         Moved, Between
<1>2. SnapshotsDated'
  <2>1. PICK n \in 0 .. SnapshotBound : Dated(n)
    BY DEF TrainerInv, SnapshotsDated
  <2>2. Dated(n)'
    BY <1>0, <1>1, <2>1 DEF Dated
  <2> QED
    BY <2>2 DEF SnapshotsDated
<1>3. SnapshotHeld' /\ SpoolLawful' /\ BothKept'
  BY <1>0, <1>1 DEF TrainerInv, SnapshotHeld, SpoolLawful, BothKept, Kept, Promoting
<1>4. ServedLawful'
  BY <1>0, <1>1 DEF TrainerInv, ServedLawful, BothKept, Served, Promoting
<1>5. RowsPaid'
  <2> SUFFICES ASSUME NEW r \in TrainRow PROVE RowPaid(r)'
    BY DEF RowsPaid
  <2>1. RowPaid(r) /\ slips' = slips /\ slips' >= slips
    BY <1>0 DEF TrainerInv, RowsPaid, TrainerTypeOK
  <2>2. Left(r)' \subseteq Left(r)
    BY <1>0, <1>1 DEF Left
  <2>3. CASE r \in dataset[tr.snap]
    <3>1. Again(r)
      BY <1>0, <1>1, <2>3 DEF Again, Settled, InHand
    <3>2. ~Again(r)'
      BY <1>0, <1>1, <2>3 DEF Again, Settled, InHand
    <3>3. PromotedIn(r)' \subseteq PromotedIn(r) \cup {tr.snap}
      BY <1>0 DEF PromotedIn
    <3> QED
      BY <1>1, <2>1, <2>2, <3>1, <3>2, <3>3, RowPromoted
  <2>4. CASE r \notin dataset[tr.snap]
    <3>1. Again(r)' => Again(r)
      BY <1>0, <1>1, <2>4 DEF Again, Settled, InHand
    <3>2. PromotedIn(r)' \subseteq PromotedIn(r)
      BY <1>0, <2>4 DEF PromotedIn
    <3> QED
      BY <2>1, <2>2, <3>1, <3>2, RowStaysPaid
  <2> QED
    BY <2>3, <2>4
<1> QED
  BY <1>2, <1>3, <1>4, <1>5 DEF TrainerInv

\* Rotation and pruning spare the snapshot that was just promoted.
LEMMA TidyKeeps ==
  ASSUME TrainerTypeOK, TrainerTypeOK', TrainerPlaced, TrainerInv, Tidy
  PROVE  TrainerInv'
<1>0. /\ tr.pc = "tidy" /\ Moved("report", tr.err) /\ tagged' \in {Rotated, tagged}
      /\ UNCHANGED <<deployment, ledgerRow, dataset, healthy, marker, request, result, alias, active,
                     interrupted, slips>>
  BY TrainerMoves DEF Tidy, spoolVars
<1>1. /\ tr.snap \in Snapshot /\ tr.snap # 0 /\ marker.snap = tr.snap
      /\ tr'.pc = "report" /\ tr'.err = tr.err /\ tr'.snap = tr.snap
      /\ active.snap = tr.snap /\ tr.snap \in tagged /\ "trained" \in files[tr.snap]
  BY <1>0, TrainerAssumption
     DEF TrainerPlaced, TrainerTypeOK, TrainerState, Snapshot, TrainerAssumption, TrainerInv, SnapshotHeld,
         Moved, Between, BothKept
<1>2. PICK n \in 0 .. SnapshotBound : Dated(n)
  BY DEF TrainerInv, SnapshotsDated
<1>3. tr.snap \in tagged' /\ tagged' \subseteq tagged
  <2>1. {q \in tagged : q > tr.snap} = {}
    <3>1. \A q \in tagged : q <= tr.snap /\ q \in Nat
      BY <1>1, <1>2 DEF Dated, TrainerTypeOK, Snapshot
    <3> QED
      BY <1>1, <3>1 DEF Snapshot
  <2>2. Cardinality({q \in tagged : q > tr.snap}) = 0
    BY <2>1, FS_EmptySet
  <2>3. tr.snap \in Rotated /\ Rotated \subseteq tagged
    BY <1>1, <2>2, TrainerAssumption DEF Rotated, Newest, TrainerAssumption
  <2> QED
    BY <1>0, <1>1, <2>3
<1>4. "trained" \in files'[tr.snap]
  <2>1. PICK gone \in {Pruned, {}} : files' = [s \in Snapshot |-> IF s \in gone THEN {} ELSE files[s]]
    BY DEF Tidy
  <2>2. tr.snap \notin Pruned
    BY DEF Pruned
  <2>3. tr.snap \notin gone
    BY <2>1, <2>2
  <2> QED
    BY <1>1, <2>1, <2>3
<1>5. SnapshotsDated'
  <2>1. Dated(n)'
    BY <1>0, <1>1, <1>2, <1>3 DEF Dated
  <2> QED
    BY <2>1 DEF SnapshotsDated
<1>6. SnapshotHeld' /\ SpoolLawful'
  BY <1>0, <1>1 DEF TrainerInv, SnapshotHeld, SpoolLawful, Promoting
<1>7. BothKept'
  BY <1>0, <1>1, <1>3, <1>4 DEF BothKept, Kept, Promoting
<1>8. ServedLawful'
  BY <1>0, <1>1 DEF TrainerInv, ServedLawful, Served, Promoting
<1>9. RowsPaid'
  <2>1. ASSUME NEW r \in TrainRow PROVE Left(r)' \subseteq Left(r) /\ (Again(r)' => Again(r))
    <3>1. Settled(r) => Settled(r)'
      BY <1>0, <1>1 DEF Settled, InHand
    <3> QED
      BY <1>0, <1>1, <3>1, HandStays DEF Left
  <2>2. slips' >= slips
    BY <1>0 DEF TrainerTypeOK
  <2> QED
    BY <1>0, <2>1, <2>2, RowsStay DEF TrainerInv
<1> QED
  BY <1>5, <1>6, <1>7, <1>8, <1>9 DEF TrainerInv

\* The end of a snapshot: its marker goes, then its rows are marked.
LEMMA FinishKeeps ==
  ASSUME TrainerTypeOK, TrainerTypeOK', TrainerPlaced, TrainerInv, FinishSnapshot
  PROVE  TrainerInv'
<1>0. /\ tr.pc = "finish" /\ Moved("mark", tr.err)
      /\ (marker' = NoMarker /\ slips' = slips) \/ (slips' = slips + 1 /\ marker' = marker)
      /\ UNCHANGED <<deployment, ledgerRow, dataset, files, healthy, request, result, tagged, alias, active,
                     interrupted>>
  <2>1. Moved("mark", tr.err)
    BY TrainerMoves DEF FinishSnapshot
  <2>2. (marker' = NoMarker /\ slips' = slips) \/ (slips' = slips + 1 /\ marker' = marker)
    BY DEF FinishSnapshot, NoSlip, Slip
  <2> QED
    BY <2>1, <2>2 DEF FinishSnapshot, spoolVars, servedVars
<1>1. /\ tr.snap \in Snapshot /\ tr.snap # 0 /\ marker.snap = tr.snap /\ marker'.snap \in {0, tr.snap}
      /\ tr'.pc = "mark" /\ tr'.err = tr.err /\ tr'.snap = tr.snap /\ slips \in Nat
  BY <1>0, TrainerAssumption
     DEF TrainerPlaced, TrainerTypeOK, TrainerState, Snapshot, TrainerAssumption, TrainerInv, SnapshotHeld,
         Moved, Between, NoMarker
<1>2. SnapshotsDated'
  <2>1. PICK n \in 0 .. SnapshotBound : Dated(n)
    BY DEF TrainerInv, SnapshotsDated
  <2>2. Dated(n)'
    BY <1>0, <1>1, <2>1 DEF Dated
  <2> QED
    BY <2>2 DEF SnapshotsDated
<1>3. SnapshotHeld' /\ SpoolLawful' /\ BothKept' /\ ServedLawful'
  BY <1>0, <1>1 DEF TrainerInv, SnapshotHeld, SpoolLawful, BothKept, Kept, ServedLawful, Served, Promoting
<1>4. RowsPaid'
  <2>1. ASSUME NEW r \in TrainRow PROVE Left(r)' \subseteq Left(r)
    BY <1>0, <1>1 DEF Left
  <2>2. ASSUME NEW r \in TrainRow PROVE Again(r)' => Again(r) \/ slips' = slips + 1
    <3> SUFFICES ASSUME marker' = NoMarker PROVE Again(r)' => Again(r)
      BY <1>0
    <3>1. marker'.snap = 0
      BY DEF NoMarker
    <3>2. Settled(r) => Settled(r)'
      BY <1>0, <1>1, <3>1 DEF Settled, InHand
    <3> QED
      BY <1>0, <1>1, <3>1, <3>2 DEF Again, InHand
  <2>3. slips' >= slips
    BY <1>0, <1>1
  <2> QED
    BY <1>0, <2>1, <2>2, <2>3, RowsStay DEF TrainerInv
<1> QED
  BY <1>2, <1>3, <1>4 DEF TrainerInv

LEMMA MarkKeepsInv ==
  ASSUME TrainerTypeOK, TrainerTypeOK', TrainerPlaced, TrainerInv, MarkRows
  PROVE  TrainerInv'
<1>0. /\ tr.pc = "mark" /\ tr'.pc = "poll" /\ tr'.snap = 0 /\ tr'.err = "none"
      /\ slips' = slips \/ slips' = slips + 1
      /\ UNCHANGED <<deployment, dataset, files, healthy, marker, request, result, tagged, alias, active,
                     interrupted>>
  BY TrainerMoves DEF MarkRows, spoolVars, servedVars, NoSlip, Slip
<1>1. tr.snap \in Snapshot /\ tr.snap # 0 /\ slips \in Nat
  BY <1>0, TrainerAssumption DEF TrainerPlaced, TrainerTypeOK, TrainerState, Snapshot, TrainerAssumption, Between
<1>2. SnapshotsDated'
  <2>1. PICK n \in 0 .. SnapshotBound : Dated(n)
    BY DEF TrainerInv, SnapshotsDated
  <2>2. Dated(n)'
    BY <1>0, <1>1, <2>1 DEF Dated
  <2> QED
    BY <2>2 DEF SnapshotsDated
<1>3. SnapshotHeld' /\ SpoolLawful' /\ BothKept' /\ ServedLawful'
  BY <1>0, <1>1 DEF TrainerInv, SnapshotHeld, SpoolLawful, BothKept, Kept, ServedLawful, Served, Promoting
<1>4. RowsPaid'
  <2>1. ASSUME NEW r \in TrainRow PROVE Left(r)' \subseteq Left(r)
    BY <1>0, <1>1 DEF Left
  <2>2. ASSUME NEW r \in TrainRow PROVE Again(r)' => Again(r) \/ slips' = slips + 1
    <3> SUFFICES ASSUME slips' # slips + 1, Again(r)' PROVE Again(r)
      OBVIOUS
    <3>0. marker.snap # 0 /\ r \in dataset[marker.snap] => Again(r)
      BY <1>0, <1>1 DEF Again, Settled
    <3>1. ledgerRow'[r].status \in {"new", "retry", "failed"} \/ (marker.snap # 0 /\ r \in dataset[marker.snap])
      BY <1>0 DEF Again, InHand
    <3>2. CASE r \notin dataset[tr.snap]
      <4>1. ledgerRow'[r] = ledgerRow[r]
        BY <3>2 DEF MarkRows, RetryAll, Slip
      <4> QED
        BY <3>0, <3>1, <3>2, <4>1 DEF Again, Settled, InHand
    <3>3. CASE r \in dataset[tr.snap] /\ tr.err # "none"
      BY <1>1, <3>3 DEF Again, Settled, InHand
    <3>4. CASE r \in dataset[tr.snap] /\ tr.err = "none"
      <4>1. ledgerRow'[r] = Trained(ledgerRow[r], Observation)
        BY <3>4 DEF MarkRows, Slip
      <4>2. Observation \in {"trained", "snapshotted"} /\ ledgerRow[r] \in TrainingRow
        BY <3>4 DEF Observation, TrainerTypeOK
      <4>3. ledgerRow'[r].status = Observation
        BY <4>1, <4>2, TrainedRow
      <4> QED
        BY <3>0, <3>1, <4>2, <4>3
    <3> QED
      BY <3>2, <3>3, <3>4
  <2>3. slips' >= slips
    BY <1>0, <1>1
  <2> QED
    BY <1>0, <2>1, <2>2, <2>3, RowsStay DEF TrainerInv
<1> QED
  BY <1>2, <1>3, <1>4 DEF TrainerInv

\* The worker between snapshots: what its steps leave alone.
LEMMA BetweenKeeps ==
  ASSUME TrainerTypeOK, TrainerTypeOK', TrainerInv,
         UNCHANGED <<deployment, healthy, result, tagged, alias, interrupted>>,
         active'.snap = active.snap, files' = files,
         tr'.err # "none" => tr'.pc \in {"undo", "report", "finish", "mark"},
         tr.pc \in Between, tr'.pc \in Between \cup {"prepare"},
         SnapshotsDated', tr'.pc = "collect" => marker'.snap = 0,
         tr'.snap # 0 => marker'.snap = tr'.snap,
         \A s \in Snapshot : request'[s] \in {request[s], "none"}
  PROVE  SnapshotHeld' /\ SpoolLawful' /\ BothKept' /\ ServedLawful'
<1>1. SnapshotHeld' /\ SpoolLawful'
  BY DEF TrainerInv, SnapshotHeld, SpoolLawful, Between, Promoting
<1>2. BothKept' /\ ServedLawful'
  BY DEF TrainerInv, BothKept, Kept, ServedLawful, Served, Between, Promoting
<1> QED
  BY <1>1, <1>2

\* A step that leaves a row's snapshots and requests alone keeps it paid, when it brings
\* back only a row that was to come back.
LEMMA StartKeeps ==
  ASSUME TrainerTypeOK, TrainerTypeOK', TrainerPlaced, TrainerInv, StartTrainer
  PROVE  TrainerInv'
<1>0. /\ tr.pc = "down" /\ tr'.pc = "poll" /\ tr'.snap = 0 /\ tr'.err = "none"
      /\ UNCHANGED <<deployment, dataset, files, healthy, marker, request, result, tagged, alias, slips, interrupted>>
  BY TrainerMoves DEF StartTrainer, spoolVars
<1>1. active'.snap = active.snap
  BY DEF StartTrainer, Retargeted, TrainerTypeOK, Pointer
<1>2. tr.snap = 0
  BY <1>0 DEF TrainerPlaced, Between
<1>3. SnapshotsDated'
  <2>1. PICK n \in 0 .. SnapshotBound : Dated(n)
    BY DEF TrainerInv, SnapshotsDated
  <2>2. Dated(n)'
    BY <1>0, <1>2, <2>1 DEF Dated
  <2> QED
    BY <2>2 DEF SnapshotsDated
<1>4. SnapshotHeld' /\ SpoolLawful' /\ BothKept' /\ ServedLawful'
  BY <1>0, <1>1, <1>3, BetweenKeeps DEF Between
<1>5. RowsPaid'
  <2>1. ASSUME NEW r \in TrainRow PROVE Left(r)' \subseteq Left(r) /\ (Again(r)' => Again(r))
    <3>1. ledgerRow'[r] = Recovered(ledgerRow[r]) /\ ledgerRow[r] \in TrainingRow
      BY DEF StartTrainer, TrainerTypeOK
    <3>2. ledgerRow'[r].status = ledgerRow[r].status \/ ledgerRow[r].status = "failed"
      BY <3>1, RecoveredRow
    <3>3. ~Settled(r)
      BY <1>2 DEF Settled, InHand
    <3> QED
      BY <1>0, <1>2, <3>2, <3>3 DEF Left, Again, InHand
  <2>2. slips' >= slips
    BY <1>0 DEF TrainerTypeOK
  <2> QED
    BY <1>0, <2>1, <2>2, RowsStay DEF TrainerInv
<1> QED
  BY <1>3, <1>4, <1>5 DEF TrainerInv

LEMMA RequeueKeeps ==
  ASSUME TrainerTypeOK, TrainerTypeOK', TrainerPlaced, TrainerInv, Requeue
  PROVE  TrainerInv'
<1> DEFINE stale == {s \in requestOld : request[s] = "queued" /\ s # marker.snap}
<1>0. /\ tr.pc = "poll" /\ Moved("inspect", tr.err)
      /\ UNCHANGED <<deployment, dataset, files, healthy, marker, result, tagged, alias, active, slips, interrupted>>
  BY TrainerMoves DEF Requeue, servedVars
<1>1. tr.snap = 0 /\ tr.err = "none" /\ tr'.pc = "inspect" /\ tr'.snap = 0 /\ tr'.err = "none"
  BY <1>0 DEF TrainerPlaced, Between, TrainerInv, SnapshotHeld, Moved
<1>2. \/ /\ \A s \in Snapshot : request'[s] = IF s \in stale THEN "none" ELSE request[s]
         /\ RetryAll(UNION {dataset[s] : s \in stale}, TrainAttempts, FALSE)
      \/ request' = request /\ ledgerRow' = ledgerRow
  BY DEF Requeue
<1>3. \A s \in Snapshot : request'[s] \in {request[s], "none"}
  BY <1>2
<1>4. SnapshotsDated'
  <2>1. PICK n \in 0 .. SnapshotBound : Dated(n)
    BY DEF TrainerInv, SnapshotsDated
  <2>2. Dated(n)'
    BY <1>0, <1>1, <1>3, <2>1 DEF Dated
  <2> QED
    BY <2>2 DEF SnapshotsDated
<1>5. SnapshotHeld' /\ SpoolLawful' /\ BothKept' /\ ServedLawful'
  BY <1>0, <1>1, <1>3, <1>4, BetweenKeeps DEF Between
<1>6. RowsPaid'
  <2> SUFFICES ASSUME NEW r \in TrainRow PROVE RowPaid(r)'
    BY DEF RowsPaid
  <2>1. RowPaid(r) /\ PromotedIn(r)' \subseteq PromotedIn(r) /\ slips' >= slips
    BY <1>0 DEF TrainerInv, RowsPaid, PromotedIn, TrainerTypeOK
  <2>2. Left(r)' \subseteq Left(r)
    BY <1>0, <1>1, <1>3 DEF Left
  <2>3. CASE ledgerRow'[r] = ledgerRow[r]
    <3>1. Again(r)' => Again(r)
      BY <1>0, <1>1, <2>3 DEF Again, Settled, InHand
    <3> QED
      BY <2>1, <2>2, <3>1, RowStaysPaid
  <2>4. CASE ledgerRow'[r] # ledgerRow[r]
    <3>0. RetryAll(UNION {dataset[s] : s \in stale}, TrainAttempts, FALSE)
      BY <1>2, <2>4
    <3>1. PICK s \in stale : r \in dataset[s]
      <4>1. r \in UNION {dataset[s] : s \in stale}
        <5> HIDE DEF stale
        <5> QED
          BY <2>4, <3>0 DEF RetryAll
      <4> QED
        BY <4>1
    <3>2. s \in Snapshot /\ request[s] = "queued" /\ s # marker.snap /\ request'[s] = "none"
      BY <1>2, <2>4, <3>1 DEF TrainerTypeOK
    <3>3. s \in Left(r) /\ s \notin Left(r)'
      BY <3>1, <3>2 DEF Left
    <3>4. Left(r)' \subseteq Left(r) \ {s}
      BY <2>2, <3>3
    <3> QED
      BY <1>0, <2>1, <3>3, <3>4, RowSentBack
  <2> QED
    BY <2>3, <2>4
<1> QED
  BY <1>4, <1>5, <1>6 DEF TrainerInv

LEMMA InspectKeeps ==
  ASSUME TrainerTypeOK, TrainerTypeOK', TrainerPlaced, TrainerPlaced', TrainerInv, Inspect
  PROVE  TrainerInv'
<1> DEFINE s == marker.snap
           failed == deployment.spooled /\ s # 0 /\ ~Resumable(s) /\ result[s] = "failed"
           waits == s # 0 /\ (marker.fresh \/ (deployment.spooled /\ request[s] # "none"))
<1>0. /\ tr.pc = "inspect"
      /\ UNCHANGED <<deployment, dataset, files, healthy, request, result, tagged, alias, active, slips, interrupted>>
  BY DEF Inspect, spoolVars, servedVars
<1>1. tr.snap = 0 /\ tr.err = "none" /\ s \in 0 .. SnapshotBound
  BY <1>0 DEF TrainerPlaced, Between, TrainerInv, SnapshotHeld, TrainerTypeOK
<1>2. \/ s # 0 /\ tr' = [Resting("prepare") EXCEPT !.snap = s] /\ ledgerRow' = ledgerRow /\ marker' = marker
      \/ Goto(IF waits THEN "poll" ELSE "collect") /\ s # 0 /\ (failed \/ ~waits) /\ marker' = NoMarker
      \/ Goto(IF waits THEN "poll" ELSE "collect") /\ ~(s # 0 /\ (failed \/ ~waits))
         /\ marker' = marker /\ ledgerRow' = ledgerRow
  BY DEF Inspect
<1>3. \A r \in TrainRow : ledgerRow'[r] # ledgerRow[r] => s # 0 /\ r \in dataset[s]
  BY DEF Inspect
<1>4. /\ tr'.pc \in Between \cup {"prepare"} /\ tr'.err = "none" /\ tr'.snap \in {0, s} /\ marker'.snap \in {0, s}
      /\ tr'.pc = "collect" => marker'.snap = 0
      /\ tr'.snap # 0 => marker'.snap = tr'.snap
  <2>1. CASE s # 0 /\ tr' = [Resting("prepare") EXCEPT !.snap = s] /\ marker' = marker
    <3>1. tr'.pc = "prepare" /\ tr'.err = "none" /\ tr'.snap = s
      BY <2>1 DEF Resting
    <3> QED
      BY <2>1, <3>1
  <2>2. CASE Goto(IF waits THEN "poll" ELSE "collect") /\ marker'.snap = 0
    <3>1. Moved(IF waits THEN "poll" ELSE "collect", tr.err)
      BY <2>2, TrainerMoves
    <3> HIDE DEF waits
    <3>2. tr'.pc \in {"poll", "collect"} /\ tr'.err = tr.err /\ tr'.snap = tr.snap
      BY <3>1 DEF Moved
    <3> QED
      BY <1>1, <2>2, <3>2 DEF Between
  <2>3. CASE Goto(IF waits THEN "poll" ELSE "collect") /\ s # 0 /\ waits /\ marker' = marker
    <3>1. Moved("poll", tr.err)
      BY <2>3, TrainerMoves
    <3> QED
      BY <1>1, <2>3, <3>1 DEF Between, Moved
  <2>4. NoMarker.snap = 0
    BY DEF NoMarker
  <2>5. CASE s = 0 /\ marker' = marker /\ Goto(IF waits THEN "poll" ELSE "collect")
    BY <2>2, <2>5
  <2> HIDE DEF failed, waits
  <2> QED
    BY <1>2, <2>1, <2>2, <2>3, <2>4, <2>5
<1>5. SnapshotsDated'
  <2>1. PICK n \in 0 .. SnapshotBound : Dated(n)
    BY DEF TrainerInv, SnapshotsDated
  <2>2. Dated(n)'
    BY <1>0, <1>4, <2>1 DEF Dated
  <2> QED
    BY <2>2 DEF SnapshotsDated
<1>6. SnapshotHeld' /\ SpoolLawful' /\ BothKept' /\ ServedLawful'
  BY <1>0, <1>4, <1>5, BetweenKeeps DEF Between
<1>7. marker'.snap = s \/ request[s] # "queued"
  <2>1. CASE s # 0 /\ marker'.snap = 0 /\ (failed \/ ~waits)
    <3>1. s \in Snapshot
      BY <1>1, <2>1, TrainerAssumption DEF Snapshot, TrainerAssumption
    <3>2. (request[s] # "none" => result[s] = "none") /\ (~deployment.spooled => request[s] = "none")
      BY <3>1 DEF TrainerInv, SpoolLawful
    <3> QED
      BY <2>1, <3>2
  <2>2. NoMarker.snap = 0
    BY DEF NoMarker
  <2> HIDE DEF failed, waits
  <2> QED
    BY <1>2, <2>1, <2>2
<1>8. RowsPaid'
  <2>1. ASSUME NEW r \in TrainRow PROVE Left(r)' \subseteq Left(r)
    BY <1>0, <1>4, <1>7 DEF Left, Between
  <2>2. ASSUME NEW r \in TrainRow PROVE Again(r)' => Again(r)
    <3>1. s # 0 /\ r \in dataset[s] => Again(r)
      BY <1>1 DEF Again, Settled, InHand
    <3>2. CASE ledgerRow'[r] = ledgerRow[r]
      BY <1>0, <1>1, <1>4, <3>1, <3>2 DEF Again, Settled, InHand
    <3> QED
      BY <1>3, <3>1, <3>2
  <2>3. slips' >= slips
    BY <1>0 DEF TrainerTypeOK
  <2> QED
    BY <1>0, <2>1, <2>2, <2>3, RowsStay DEF TrainerInv
<1> QED
  BY <1>5, <1>6, <1>8 DEF TrainerInv

LEMMA CollectKeeps ==
  ASSUME TrainerTypeOK, TrainerTypeOK', TrainerPlaced, TrainerPlaced', TrainerInv, Collect
  PROVE  TrainerInv'
<1> DEFINE s == Cardinality({q \in Snapshot : dataset[q] # {}}) + 1
<1>0. /\ tr.pc = "collect"
      /\ UNCHANGED <<deployment, files, healthy, request, result, tagged, alias, active, interrupted>>
  BY DEF Collect, spoolVars, servedVars
<1>1. tr.snap = 0 /\ tr.err = "none" /\ marker.snap = 0 /\ slips \in Nat
  BY <1>0 DEF TrainerPlaced, Between, TrainerInv, SnapshotHeld, TrainerTypeOK
<1>2. PICK n \in 0 .. SnapshotBound : Dated(n)
  BY DEF TrainerInv, SnapshotsDated
<1>3. s = n + 1
  <2>1. {q \in Snapshot : dataset[q] # {}} = 1 .. n
    BY <1>2, TrainerAssumption DEF Dated, Snapshot, TrainerAssumption
  <2>2. Cardinality(1 .. n) = n
    <3>1. n \in Nat /\ n \in Int /\ 1 \in Int
      BY TrainerAssumption DEF TrainerAssumption
    <3>2. Cardinality(1 .. n) = IF 1 > n THEN 0 ELSE n - 1 + 1
      BY <3>1, FS_Interval
    <3> QED
      BY <3>1, <3>2
  <2> QED
    BY <2>1, <2>2
<1> HIDE DEF s
<1>4. CASE Goto("poll") /\ UNCHANGED <<dataset, marker, ledgerRow, slips>>
  <2>1. Moved("poll", tr.err)
    BY <1>4, TrainerMoves
  <2>2. tr'.pc = "poll" /\ tr'.err = "none" /\ tr'.snap = 0
    BY <1>1, <2>1 DEF Moved
  <2>3. SnapshotsDated'
    <3>1. Dated(n)'
      BY <1>0, <1>2, <1>4, <2>2 DEF Dated
    <3> QED
      BY <3>1 DEF SnapshotsDated
  <2>4. SnapshotHeld' /\ SpoolLawful' /\ BothKept' /\ ServedLawful'
    BY <1>0, <1>4, <2>2, <2>3, BetweenKeeps DEF Between
  <2>5. RowsPaid'
    <3>1. ASSUME NEW r \in TrainRow PROVE Left(r)' \subseteq Left(r) /\ (Again(r)' => Again(r))
      BY <1>0, <1>1, <1>4, <2>2 DEF Left, Again, Settled, InHand
    <3>2. slips' >= slips
      BY <1>1, <1>4
    <3> QED
      BY <1>0, <1>4, <3>1, <3>2, RowsStay DEF TrainerInv
  <2> QED
    BY <2>3, <2>4, <2>5 DEF TrainerInv
<1>5. CASE /\ Cardinality(Batch) >= MinRows /\ s \in Snapshot /\ dataset' = Written(s)
           /\ (slips' = slips \/ slips' = slips + 1)
           /\ \/ marker' = [snap |-> s, fresh |-> TRUE] /\ tr' = [Resting("prepare") EXCEPT !.snap = s]
              \/ marker' = marker /\ Goto("poll")
           /\ (ledgerRow' = ledgerRow \/ RetryAll(Batch, TrainAttempts, FALSE))
  <2>1. Batch # {} /\ Batch \subseteq TrainRow
    <3>1. Cardinality(Batch) # 0
      BY <1>5, TrainerAssumption DEF TrainerAssumption
    <3> QED
      BY <3>1, FS_EmptySet DEF Batch
  <2>2. /\ tr'.err = "none"
        /\ \/ tr'.pc = "poll" /\ tr'.snap = 0 /\ marker'.snap = 0
           \/ tr'.pc = "prepare" /\ tr'.snap = s /\ marker'.snap = s
    <3>1. CASE marker' = [snap |-> s, fresh |-> TRUE] /\ tr' = [Resting("prepare") EXCEPT !.snap = s]
      BY <3>1 DEF Resting
    <3>2. CASE marker' = marker /\ Goto("poll")
      <4>1. Moved("poll", tr.err)
        BY <3>2, TrainerMoves
      <4> QED
        BY <1>1, <3>2, <4>1 DEF Moved
    <3> QED
      BY <1>5, <3>1, <3>2
  <2>3. /\ \A q \in Snapshot : dataset'[q] = IF q = s THEN Batch ELSE dataset[q]
        /\ s \in 0 .. SnapshotBound
    BY <1>5, TrainerAssumption, SMTT(30) DEF Written, TrainerTypeOK, Snapshot, TrainerAssumption
  <2>4. SnapshotsDated'
    <3>1. ASSUME NEW m \in 0 .. SnapshotBound, m = s PROVE Dated(m)'
      <4>1. \A q \in Snapshot : dataset'[q] # {} <=> q <= m
        BY <1>2, <1>3, <2>1, <2>3, <3>1 DEF Dated, Snapshot
      <4>2. /\ \A q \in Snapshot : request'[q] # "none" => q <= m
            /\ \A q \in tagged' \cup healthy' : q <= m
        BY <1>0, <1>2, <1>3, <3>1 DEF Dated, TrainerTypeOK, Snapshot
      <4>3. marker'.snap \in {0, m} /\ tr'.snap \in {0, m}
        BY <2>2, <3>1
      <4> QED
        BY <4>1, <4>2, <4>3 DEF Dated
    <3> QED
      BY <2>3, <3>1 DEF SnapshotsDated
  <2>5. SnapshotHeld' /\ SpoolLawful' /\ BothKept' /\ ServedLawful'
    BY <1>0, <2>2, <2>4, BetweenKeeps DEF Between
  <2>6. ASSUME NEW r \in TrainRow PROVE RowPaid(r)'
    <3>1. RowPaid(r) /\ slips' >= slips
      BY <1>1, <1>5 DEF TrainerInv, RowsPaid
    <3>2. PromotedIn(r)' \subseteq PromotedIn(r)
      BY <1>0, <1>2, <1>3, <2>3 DEF PromotedIn, Dated, TrainerTypeOK
    <3>3. Left(r)' \subseteq Left(r)
      <4>1. request'[s] = "none"
        BY <1>0, <1>2, <1>3, <1>5 DEF Dated
      <4> QED
        BY <1>0, <1>1, <2>2, <2>3, <4>1 DEF Left, Snapshot
    <3>4. Again(r)' => Again(r)
      <4>1. r \in Batch => ledgerRow[r].status \in {"new", "retry"}
        BY DEF Batch, Eligible
      <4>2. r \notin Batch => ledgerRow'[r] = ledgerRow[r]
        BY <1>5 DEF RetryAll
      <4>3. ledgerRow[r].status \in {"new", "retry", "failed"} => Again(r)
        BY <1>1 DEF Again, Settled, InHand
      <4>4. dataset'[s] = Batch
        BY <1>5, <2>3
      <4>5. CASE r \in Batch
        BY <4>1, <4>3, <4>5
      <4>6. CASE r \notin Batch
        BY <2>2, <4>2, <4>3, <4>4, <4>6 DEF Again, InHand
      <4> QED
        BY <4>5, <4>6
    <3> QED
      BY <3>1, <3>2, <3>3, <3>4, RowStaysPaid
  <2> QED
    BY <2>4, <2>5, <2>6 DEF TrainerInv, RowsPaid
<1> QED
  BY <1>4, <1>5 DEF Collect, NoSlip, Slip, s

LEMMA CrashKeeps ==
  ASSUME TrainerTypeOK, TrainerTypeOK', TrainerPlaced, TrainerInv, TrainerCrash
  PROVE  TrainerInv'
<1>0. /\ tr'.pc = "down" /\ tr'.snap = 0 /\ tr'.err = "none" /\ slips' = slips + 1
      /\ interrupted' = (interrupted \/ tr.pc \in {"copy", "adapter", "publish", "health", "undo"})
      /\ UNCHANGED <<deployment, ledgerRow, dataset, files, marker, healthy, request, result, tagged, alias, active>>
  BY TrainerMoves DEF TrainerCrash, spoolVars, servedVars, Slip
<1>1. SnapshotsDated'
  <2>1. PICK n \in 0 .. SnapshotBound : Dated(n)
    BY DEF TrainerInv, SnapshotsDated
  <2>2. Dated(n)'
    BY <1>0, <2>1 DEF Dated
  <2> QED
    BY <2>2 DEF SnapshotsDated
<1>2. SnapshotHeld' /\ SpoolLawful' /\ BothKept'
  BY <1>0 DEF TrainerInv, SnapshotHeld, SpoolLawful, BothKept, Kept, Promoting
<1>3. ServedLawful'
  BY <1>0 DEF TrainerInv, ServedLawful, Served, Promoting
<1>4. RowsPaid'
  <2>1. \A r \in TrainRow : Left(r)' \subseteq Left(r)
    BY <1>0 DEF Left
  <2>2. slips' >= slips
    BY <1>0 DEF TrainerTypeOK
  <2> QED
    BY <1>0, <2>1, <2>2, RowsStay DEF TrainerInv
<1> QED
  BY <1>1, <1>2, <1>3, <1>4 DEF TrainerInv

\* Backoffs, heartbeats, and the dispatcher of the spool with its jobs.
LEMMA OutsideKeeps ==
  ASSUME TrainerTypeOK, TrainerTypeOK', TrainerPlaced, TrainerInv,
         \/ \E r \in TrainRow : BackoffEnds(r)
         \/ \E s \in Snapshot : Dispatch(s) \/ JobEnds(s) \/ RequestAges(s)
         \/ HeartbeatAges \/ UNCHANGED trainerVars
  PROVE  TrainerInv'
<1>a. ASSUME UNCHANGED <<deployment, dataset, tr, interrupted>>, UNCHANGED servedVars, marker'.snap = marker.snap,
             slips' = slips \/ slips' = slips + 1,
             \A r \in TrainRow : ledgerRow'[r].status = ledgerRow[r].status,
             \A s \in Snapshot : files[s] \subseteq files'[s],
             \A s \in Snapshot : \/ request'[s] = request[s] /\ result'[s] = result[s]
                                 \/ request'[s] = "none"
                                 \/ request[s] = "queued" /\ request'[s] = "running" /\ result'[s] = result[s]
      PROVE  TrainerInv'
  <2>0. UNCHANGED <<tagged, alias, active, healthy>> /\ slips \in Nat
    BY <1>a DEF servedVars, TrainerTypeOK
  <2>1. SnapshotsDated'
    <3>1. PICK n \in 0 .. SnapshotBound : Dated(n)
      BY DEF TrainerInv, SnapshotsDated
    <3>2. Dated(n)'
      BY <1>a, <2>0, <3>1 DEF Dated
    <3> QED
      BY <3>2 DEF SnapshotsDated
  <2>2. SnapshotHeld'
    BY <1>a DEF TrainerInv, SnapshotHeld
  <2>3. SpoolLawful'
    <3>1. ASSUME ~deployment.spooled
          PROVE  tr.pc \notin {"submit", "wait"} /\ \A s \in Snapshot : request'[s] = "none"
      BY <1>a, <3>1 DEF TrainerInv, SpoolLawful
    <3>2. \A s \in Snapshot : request'[s] # "none" => result'[s] = "none"
      BY <1>a DEF TrainerInv, SpoolLawful
    <3>3. tr.pc \in Promoting \cup {"qualify", "select", "tidy", "report"} => request'[tr.snap] # "queued"
      <4> SUFFICES ASSUME tr.pc \in Promoting \cup {"qualify", "select", "tidy", "report"}
                   PROVE  request'[tr.snap] # "queued"
        OBVIOUS
      <4>1. request[tr.snap] # "queued"
        BY DEF TrainerInv, SpoolLawful
      <4>2. tr.snap \in Snapshot
        BY TrainerAssumption DEF TrainerPlaced, Between, Promoting, TrainerTypeOK, TrainerState, Snapshot,
           TrainerAssumption
      <4> QED
        BY <1>a, <4>1, <4>2
    <3>4. tr.pc = "train" => ~deployment.spooled
      BY DEF TrainerInv, SpoolLawful
    <3> QED
      BY <1>a, <3>1, <3>2, <3>3, <3>4 DEF SpoolLawful
  <2>4. BothKept' /\ ServedLawful'
    <3>1. ASSUME NEW k \in 0 .. SnapshotBound, "trained" \in files[k], k # 0 PROVE "trained" \in files'[k]
      BY <1>a, <3>1, TrainerAssumption DEF Snapshot, TrainerAssumption
    <3>2. active.snap \in 0 .. SnapshotBound /\ tr.prev.snap \in 0 .. SnapshotBound /\ tr.snap \in 0 .. SnapshotBound
      BY DEF TrainerTypeOK, TrainerState, Pointer
    <3>3. ServedLawful'
      BY <1>a, <2>0 DEF TrainerInv, ServedLawful, Served
    <3>4. /\ tr' = tr /\ active' = active /\ tagged' = tagged
          /\ Kept(active.snap) /\ (tr.pc \in Promoting => Kept(tr.prev.snap))
          /\ tr.pc \in (Promoting \ {"undo"}) \cup {"select", "tidy"} => "trained" \in files[tr.snap]
          /\ tr.pc \in {"copy", "adapter", "publish", "health", "tidy"} => tr.snap \in tagged
          /\ tr.pc \in {"health", "tidy"} => active.snap = tr.snap
      BY <1>a, <2>0 DEF TrainerInv, BothKept
    <3>5. ASSUME NEW k \in 0 .. SnapshotBound, Kept(k) PROVE k # 0 => "trained" \in files'[k] /\ k \in tagged'
      BY <2>0, <3>1, <3>5 DEF Kept
    <3>6. Kept(active.snap)' /\ (tr.pc \in Promoting => Kept(tr.prev.snap)')
      BY <3>2, <3>4, <3>5 DEF Kept
    <3>7. tr.pc \in (Promoting \ {"undo"}) \cup {"select", "tidy"} => "trained" \in files'[tr.snap]
      <4>1. tr.pc \in (Promoting \ {"undo"}) \cup {"select", "tidy"} => tr.snap # 0
        BY DEF TrainerPlaced, Between, Promoting
      <4> QED
        BY <3>1, <3>2, <3>4, <4>1
    <3>8. BothKept'
      BY <3>4, <3>6, <3>7 DEF BothKept
    <3> QED
      BY <3>3, <3>8
  <2>5. RowsPaid'
    <3>1. ASSUME NEW r \in TrainRow PROVE Left(r)' \subseteq Left(r) /\ (Again(r)' => Again(r))
      BY <1>a, <2>0 DEF Left, Again, Settled, InHand
    <3>2. slips' >= slips
      BY <1>a, <2>0
    <3> QED
      BY <1>a, <2>0, <3>1, <3>2, RowsStay DEF TrainerInv
  <2> QED
    BY <2>1, <2>2, <2>3, <2>4, <2>5 DEF TrainerInv
<1> USE DEF spoolVars
<1>1. ASSUME NEW r \in TrainRow, BackoffEnds(r) PROVE TrainerInv'
  <2>1. \A q \in TrainRow : ledgerRow'[q].status = ledgerRow[q].status
    BY <1>1 DEF BackoffEnds, TrainerTypeOK, TrainingRow
  <2> QED
    BY <1>1, <1>a, <2>1 DEF BackoffEnds
<1>2. ASSUME NEW s \in Snapshot, Dispatch(s) PROVE TrainerInv'
  BY <1>2, <1>a DEF Dispatch, TrainerTypeOK
<1>3. ASSUME NEW s \in Snapshot, JobEnds(s) PROVE TrainerInv'
  <2>1. /\ \A q \in Snapshot : files[q] \subseteq files'[q]
        /\ slips' = slips \/ slips' = slips + 1
        /\ \A q \in Snapshot : \/ request'[q] = request[q] /\ result'[q] = result[q]
                               \/ request'[q] = "none"
    BY <1>3 DEF JobEnds, NoSlip, Slip, TrainerTypeOK
  <2> QED
    BY <1>3, <1>a, <2>1 DEF JobEnds
<1>4. ASSUME NEW s \in Snapshot, RequestAges(s) PROVE TrainerInv'
  BY <1>4, <1>a DEF RequestAges
<1>5. CASE HeartbeatAges
  <2>1. marker'.snap = marker.snap
    BY <1>5 DEF HeartbeatAges, TrainerTypeOK
  <2> QED
    BY <1>5, <1>a, <2>1 DEF HeartbeatAges
<1>6. CASE UNCHANGED trainerVars
  BY <1>6, <1>a DEF trainerVars, servedVars
<1> QED
  BY <1>1, <1>2, <1>3, <1>4, <1>5, <1>6

LEMMA TrainerInvariant == TrainerSpec => []TrainerInv
<1>1. TrainerInit => TrainerInv
  <2> SUFFICES ASSUME TrainerInit PROVE TrainerInv
    OBVIOUS
  <2>0. /\ tr.pc = "down" /\ tr.snap = 0 /\ tr.err = "none" /\ marker.snap = 0 /\ active.snap = 0
        /\ tagged = {} /\ healthy = {} /\ slips = 0
    BY DEF TrainerInit, Resting, NoMarker, Nothing
  <2>1. SnapshotsDated
    <3>1. 0 \in 0 .. SnapshotBound
      BY TrainerAssumption DEF TrainerAssumption
    <3>2. Dated(0)
      BY <2>0 DEF TrainerInit, Dated, Snapshot
    <3> QED
      BY <3>1, <3>2 DEF SnapshotsDated
  <2>2. SnapshotHeld /\ SpoolLawful /\ BothKept /\ ServedLawful
    BY <2>0 DEF TrainerInit, SnapshotHeld, SpoolLawful, BothKept, Kept, ServedLawful, Served, Promoting
  <2>3. RowsPaid
    <3> SUFFICES ASSUME NEW r \in TrainRow PROVE RowPaid(r)
      BY DEF RowsPaid
    <3>1. PromotedIn(r) = {} /\ Left(r) = {}
      BY <2>0 DEF TrainerInit, PromotedIn, Left
    <3> QED
      BY <2>0, <3>1, FS_EmptySet DEF RowPaid
  <2> QED
    BY <2>1, <2>2, <2>3 DEF TrainerInv
<1>2. /\ TrainerTypeOK /\ TrainerPlaced /\ TrainerTypeOK' /\ TrainerPlaced'
      /\ TrainerInv /\ [TrainerNext]_trainerVars
      => TrainerInv'
  <2> SUFFICES ASSUME TrainerTypeOK, TrainerPlaced, TrainerTypeOK', TrainerPlaced', TrainerInv,
                      [TrainerNext]_trainerVars
               PROVE  TrainerInv'
    OBVIOUS
  <2>1. CASE CheckHealth
    BY <2>1, HealthKeeps, PromotionKeeps
  <2> QED
    BY <2>1, StartKeeps, RequeueKeeps, InspectKeeps, CollectKeeps, TrainingKeeps, PromotionKeeps, TidyKeeps,
       FinishKeeps, MarkKeepsInv, CrashKeeps, OutsideKeeps DEF TrainerNext
<1> QED
  BY <1>1, <1>2, TrainerTypes, PTL DEF TrainerSpec

(* The active snapshot keeps its artifacts and its model, the alias serves a snapshot that
   passed its health check, and a row goes into another promoted snapshot only for each
   fault that kept the first from being recorded: for any rows, attempts, snapshots,
   targets and faults (run_training_pipeline, rotate_ollama_models, mark_training_success,
   requeue_stale_slurm_requests). *)
THEOREM DeploymentSound == TrainerSpec => []DeploymentIsSound
<1>1. TrainerTypeOK /\ TrainerInv => DeploymentIsSound
  <2> SUFFICES ASSUME TrainerTypeOK, TrainerInv PROVE DeploymentIsSound
    OBVIOUS
  <2>1. ActiveIsKept
    BY DEF TrainerInv, BothKept, Kept, ActiveIsKept
  <2>2. ServedIsHealthy
    BY DEF TrainerInv, ServedLawful, Served, ServedIsHealthy
  <2>3. PromotedOnce
    <3> SUFFICES ASSUME NEW r \in TrainRow PROVE Cardinality(PromotedIn(r)) <= 1 + slips
      BY DEF PromotedOnce, PromotedIn
    <3>1. Cardinality(PromotedIn(r)) \in Nat /\ Cardinality(Left(r)) \in Nat /\ slips \in Nat
      BY SnapshotSets DEF PromotedIn, Left, TrainerTypeOK
    <3>2. RowPaid(r)
      BY DEF TrainerInv, RowsPaid
    <3> QED
      BY <3>1, <3>2 DEF RowPaid
  <2> QED
    BY <2>1, <2>2, <2>3 DEF DeploymentIsSound
<1> QED
  BY <1>1, TrainerTypes, TrainerInvariant, PTL
====
