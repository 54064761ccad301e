----------------------------- MODULE Readiness -----------------------------
(***************************************************************************)
(* The readiness cache of src/src/orchestration.rs behind /readyz.  The    *)
(* first caller after startup probes the providers inside its own request; *)
(* callers that arrive meanwhile wait for it; once a snapshot exists it is *)
(* served at once and its expiry starts one background refresh.  A caller  *)
(* is an HTTP request whose future the server drops when the client goes   *)
(* away; a Refresher is a spawned task, which nobody drops.                *)
(***************************************************************************)
EXTENDS Naturals, FiniteSets

CONSTANTS
  Caller,     \* calls of GET /readyz
  Refresher,  \* background refreshes that can be alive at once
  Provider,   \* configured provider profiles
  Enabled,    \* config.orchestration.enabled
  None,       \* no snapshot yet
  MaxProbes,  \* bound: probes in a behaviour
  DropAt      \* awaits at which a call may be dropped

Awaits == {"lock", "wait", "probe", "store"}
Probing == {"probe", "store"}   \* holds refresh_in_progress

ASSUME ReadinessConstants ==
  /\ Caller \cap Refresher = {}
  /\ Enabled \in BOOLEAN
  /\ MaxProbes \in Nat
  /\ DropAt \subseteq Awaits

VARIABLES
  call,          \* where each call and each refresher is
  value,       \* state.value: None or the snapshot
  fresh,       \* refreshed_at.elapsed() < ttl
  inProgress,  \* state.refresh_in_progress
  pending,     \* registered Notified futures that have not fired
  result,      \* the response each actor holds
  probes,      \* probes finished so far; the version of a response
  seen         \* version of the snapshot when the call arrived (history)

readyVars == <<call, value, fresh, inProgress, pending, result, probes, seen>>

Actor    == Caller \cup Refresher
Response == [version : 1..MaxProbes, ready : BOOLEAN]
Version(v) == IF v = None THEN 0 ELSE v.version

CallGoes(a, label) == call' = [call EXCEPT ![a] = label]

(* The handler calls service.readiness(). *)
Call(k) ==
  /\ call[k] = "idle"
  /\ CallGoes(k, "lock")
  /\ seen' = [seen EXCEPT ![k] = Version(value)]
  /\ UNCHANGED <<value, fresh, inProgress, pending, result, probes>>

(* The snapshot is younger than the ttl. *)
ServeFresh(k) ==
  /\ call[k] = "lock"
  /\ value # None /\ fresh
  /\ result' = [result EXCEPT ![k] = value]
  /\ CallGoes(k, "done")
  /\ UNCHANGED <<value, fresh, inProgress, pending, probes, seen>>

(* Mutant: every stale call spawns a refresh. *)
SpawnUnguarded(k, r) ==
  /\ call[k] = "lock"
  /\ value # None /\ ~fresh
  /\ call[r] = "idle"
  /\ result' = [result EXCEPT ![k] = value]
  /\ call' = [call EXCEPT ![k] = "done", ![r] = "probe"]
  /\ inProgress' = TRUE
  /\ UNCHANGED <<value, fresh, pending, probes, seen>>

(* The snapshot has expired: serve it and spawn one refresh. *)
ServeStaleAndRefresh(k, r) ==
  /\ call[k] = "lock"
  /\ value # None /\ ~fresh
  /\ ~inProgress
  /\ call[r] = "idle"
  /\ result' = [result EXCEPT ![k] = value]
  /\ call' = [call EXCEPT ![k] = "done", ![r] = "probe"]
  /\ inProgress' = TRUE
  /\ UNCHANGED <<value, fresh, pending, probes, seen>>

(* ... or serve it while a refresh is already running. *)
ServeStale(k) ==
  /\ call[k] = "lock"
  /\ value # None /\ ~fresh
  /\ inProgress
  /\ result' = [result EXCEPT ![k] = value]
  /\ CallGoes(k, "done")
  /\ UNCHANGED <<value, fresh, inProgress, pending, probes, seen>>

(* No snapshot, a refresh is running: register the Notified future before
   unlocking, then await it. *)
AwaitRefresh(k) ==
  /\ call[k] = "lock"
  /\ value = None /\ inProgress
  /\ pending' = pending \cup {k}
  /\ CallGoes(k, "wait")
  /\ UNCHANGED <<value, fresh, inProgress, result, probes, seen>>

(* The notification fires; the loop locks again. *)
Notified(k) ==
  /\ call[k] = "wait"
  /\ k \notin pending
  /\ CallGoes(k, "lock")
  /\ UNCHANGED <<value, fresh, inProgress, pending, result, probes, seen>>

(* Mutant: every call of a cold start probes for itself. *)
ColdRefreshUncoordinated(k) ==
  /\ call[k] = "lock"
  /\ value = None
  /\ inProgress' = TRUE
  /\ CallGoes(k, "probe")
  /\ UNCHANGED <<value, fresh, pending, result, probes, seen>>

(* Cold start: this call takes the refresh and runs it in its own future. *)
BeginColdRefresh(k) ==
  /\ call[k] = "lock"
  /\ value = None /\ ~inProgress
  /\ inProgress' = TRUE
  /\ CallGoes(k, "probe")
  /\ UNCHANGED <<value, fresh, pending, result, probes, seen>>

(* Mutant: the response carries the version before its own probe. *)
ProbeUncounted(a) ==
  /\ call[a] = "probe"
  /\ probes < MaxProbes
  /\ probes' = probes + 1
  /\ \E up \in SUBSET Provider :
       result' = [result EXCEPT ![a] =
         [version |-> probes, ready |-> Enabled /\ Provider # {} /\ up # {}]]
  /\ CallGoes(a, "store")
  /\ UNCHANGED <<value, fresh, inProgress, pending, seen>>

(* provider_summaries(true): every profile is probed with a time-out; an
   adapter that cannot be built, or a probe that fails, counts as not ready. *)
Probe(a) ==
  /\ call[a] = "probe"
  /\ probes < MaxProbes
  /\ probes' = probes + 1
  /\ \E up \in SUBSET Provider :
       result' = [result EXCEPT ![a] =
         [version |-> probes + 1, ready |-> Enabled /\ Provider # {} /\ up # {}]]
  /\ CallGoes(a, "store")
  /\ UNCHANGED <<value, fresh, inProgress, pending, seen>>

(* Mutant: the refresh stores its result and stays marked as running. *)
StoreKeepsFlag(a) ==
  /\ call[a] = "store"
  /\ value' = result[a]
  /\ fresh' = TRUE
  /\ CallGoes(a, "notify")
  /\ UNCHANGED <<inProgress, pending, result, probes, seen>>

(* The refresh stores its result under the mutex ... *)
Store(a) ==
  /\ call[a] = "store"
  /\ value' = result[a]
  /\ fresh' = TRUE
  /\ inProgress' = FALSE
  /\ CallGoes(a, "notify")
  /\ UNCHANGED <<pending, result, probes, seen>>

(* Mutant: notify_one wakes a single waiter. *)
NotifyOne(a) ==
  /\ call[a] = "notify"
  /\ IF pending = {} THEN UNCHANGED pending
     ELSE \E k \in pending : pending' = pending \ {k}
  /\ CallGoes(a, IF a \in Caller THEN "done" ELSE "idle")
  /\ UNCHANGED <<value, fresh, inProgress, result, probes, seen>>

(* ... and notifies every registered waiter after unlocking. *)
FinishRefresh(a) ==
  /\ call[a] = "notify"
  /\ pending' = {}
  /\ CallGoes(a, IF a \in Caller THEN "done" ELSE "idle")
  /\ UNCHANGED <<value, fresh, inProgress, result, probes, seen>>

(* The ttl passes. *)
Expire ==
  /\ value # None /\ fresh
  /\ fresh' = FALSE
  /\ UNCHANGED <<call, value, inProgress, pending, result, probes, seen>>

(* The client disconnects and the server drops the call's future. *)
DropCall(k) ==
  /\ call[k] \in DropAt
  /\ pending' = pending \ {k}
  /\ CallGoes(k, "dropped")
  /\ UNCHANGED <<value, fresh, inProgress, result, probes, seen>>
-----------------------------------------------------------------------------
ReadyInit ==
  /\ call = [a \in Actor |-> "idle"]
  /\ value = None
  /\ fresh = FALSE
  /\ inProgress = FALSE
  /\ pending = {}
  /\ result = [a \in Actor |-> None]
  /\ probes = 0
  /\ seen = [k \in Caller |-> 0]

Serve(k) ==
  \/ ServeFresh(k) \/ ServeStale(k) \/ AwaitRefresh(k) \/ Notified(k)
  \/ BeginColdRefresh(k)
  \/ \E r \in Refresher : ServeStaleAndRefresh(k, r)

Refresh(a) == Probe(a) \/ Store(a) \/ FinishRefresh(a)

ReadyNext ==
  \/ \E k \in Caller : Call(k) \/ Serve(k) \/ DropCall(k)
  \/ \E a \in Actor : Refresh(a)
  \/ Expire

ReadySpec == ReadyInit /\ [][ReadyNext]_readyVars

(* Tokio polls ready tasks, and every probe has a time-out of its own
   (provider_health_timeout_seconds). *)
ReadyFairness ==
  /\ \A k \in Caller : WF_readyVars(Serve(k))
  /\ \A a \in Actor : WF_readyVars(Refresh(a))

ReadyFairSpec == ReadySpec /\ ReadyFairness
-----------------------------------------------------------------------------
(* Every variable keeps its type. *)
ReadyTypeOK ==
  /\ call \in [Actor -> {"idle", "notify", "done", "dropped"} \cup Awaits]
  /\ value \in Response \cup {None}
  /\ fresh \in BOOLEAN
  /\ inProgress \in BOOLEAN
  /\ pending \in SUBSET Caller
  /\ result \in [Actor -> Response \cup {None}]
  /\ probes \in 0..MaxProbes
  /\ seen \in [Caller -> 0..MaxProbes]

(* "Concurrent cold-start callers coalesce behind one probe": two refreshes
   never run at once, and the flag is up while one does. *)
SingleRefresh ==
  /\ \A a, b \in Actor : call[a] \in Probing /\ call[b] \in Probing => a = b
  /\ \A a \in Actor : call[a] \in Probing => inProgress

(* A response is never older than the snapshot that was cached when its call
   arrived, also when a slow refresh finishes late. *)
NeverOlderThanAtArrival ==
  \A k \in Caller : call[k] = "done" => Version(result[k]) >= seen[k] /\ result[k] # None

(* A call whose notification has not fired has one still to come: its refresh
   is marked as running or is about to notify. *)
NoLostNotification ==
  \A k \in pending : inProgress \/ \E a \in Actor : call[a] = "notify"

(* Every call is answered unless its own client goes away. *)
EveryCallAnswered ==
  \A k \in Caller : call[k] = "lock" ~> call[k] \in {"done", "dropped"}

(* A refresh that was started ends, so that an expired snapshot can be
   replaced again. *)
RefreshEnds == inProgress ~> ~inProgress
=============================================================================
