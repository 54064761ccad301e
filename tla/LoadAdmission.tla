--------------------------- MODULE LoadAdmission ---------------------------
(***************************************************************************)
(* Admission of provider invocations in src/src/orchestration.rs: the      *)
(* workload pools, the LoadTracker (per-candidate in-flight and waiting    *)
(* counts, per-host resource use), the Notify that wakes queued requests,  *)
(* and the two RAII guards whose Drop spawns the release.  A Task is one   *)
(* run of invoke_candidate.  Every await is a point at which the future    *)
(* can be dropped (JoinSet::abort_all after an early success or a hard     *)
(* deadline, or a client that disconnects); AbortAt says at which of them  *)
(* a behaviour does so.                                                    *)
(***************************************************************************)
EXTENDS Naturals, FiniteSets

CONSTANTS
  Task,          \* runs of invoke_candidate
  Cand,          \* candidate ids
  Host,          \* shared host groups
  NoHost,        \* host_group = None
  Class,         \* workload classes, one semaphore each
  Res,           \* budgeted resources: cpu, ram, vram
  Unlimited,     \* max_concurrent_requests = None
  hostGroup,     \* [Cand -> Host \cup {NoHost}]
  maxConcurrent, \* [Cand -> Nat \cup {Unlimited}]
  cost,          \* [Cand -> [Res -> Nat]]
  budget,        \* [Cand -> [Res -> Nat]], 0 where the profile sets none
  poolSize,      \* [Class -> Nat]
  AbortAt        \* await points at which a task may be dropped

(* The await points of invoke_candidate, in program order.  "unwait" and
   "release" wait for the tracker's mutex after the guard gave up its
   content; "record" waits for the metrics store with the reservation in a
   local variable that has no Drop. *)
AwaitPoints == {"permit", "register", "reserve", "check", "wait", "unwait",
                "record", "invoke", "release"}
UnguardedPoints == {"unwait", "record", "release"}

ASSUME ConstantsOK ==
  /\ IsFiniteSet(Task)
  /\ NoHost \notin Host
  /\ Unlimited \notin Nat
  /\ hostGroup \in [Cand -> Host \cup {NoHost}]
  /\ maxConcurrent \in [Cand -> Nat \cup {Unlimited}]
  /\ cost \in [Cand -> [Res -> Nat]]
  /\ budget \in [Cand -> [Res -> Nat]]
  /\ poolSize \in [Class -> Nat]
  /\ AbortAt \subseteq AwaitPoints

VARIABLES
  pc,          \* where each task is
  req,         \* its candidate, workload class and wait_for_capacity
  inFlight,    \* LoadTracker.candidate_in_flight
  waiting,     \* LoadTracker.candidate_waiting
  hostReq,     \* LoadTracker.host_usage[h].requests
  hostUse,     \* LoadTracker.host_usage[h].{cpu, ram_mb, vram_mb}
  permits,     \* free permits of each pool
  listening,   \* tasks whose Notified future is enabled and has not fired
  woken,       \* tasks whose Notified future has fired
  dropLoad,    \* releases spawned by LoadReservationGuard::drop, not yet run
  dropWait,    \* releases spawned by CandidateWaitingGuard::drop
  dropNotify   \* spawned releases between unlock and notify_waiters

tracker == <<inFlight, waiting, hostReq, hostUse>>
drops   == <<dropLoad, dropWait, dropNotify>>
loadVars    == <<pc, req, tracker, permits, listening, woken, drops>>

Ended   == {"idle", "done", "aborted"}
Syncs   == {"unwaited", "released"}   \* between unlock and notify_waiters
PCs     == Ended \cup AwaitPoints \cup Syncs
Request == [cand : Cand, class : Class, wait : BOOLEAN]

CandOf(t)  == req[t].cand
ClassOf(t) == req[t].class

HasReservation == {"unwait", "unwaited", "record", "invoke", "release"}
HasWaitCount   == {"check", "wait", "unwait"}
HasPermit      == (AwaitPoints \ {"permit"}) \cup Syncs
Holders(c)     == {t \in Task : CandOf(t) = c /\ pc[t] \in HasReservation}
Waiters(c)     == {t \in Task : CandOf(t) = c /\ pc[t] \in HasWaitCount}
PermitHolders(k) == {t \in Task : ClassOf(t) = k /\ pc[t] \in HasPermit}
-----------------------------------------------------------------------------
(* limit.max(1): a configured limit of zero admits one request. *)
Limit(c) == IF maxConcurrent[c] = 0 THEN 1 ELSE maxConcurrent[c]

(* Mutant: the limit is compared with <=. *)
UnderLimitOffByOne(c) == maxConcurrent[c] # Unlimited => inFlight[c] <= Limit(c)

UnderLimit(c) == maxConcurrent[c] # Unlimited => inFlight[c] < Limit(c)

(* Mutant: the budget is checked against the load before this request. *)
UnderBudgetUnprojected(c) ==
  hostGroup[c] # NoHost =>
    \A r \in Res : budget[c][r] > 0 => hostUse[hostGroup[c]][r] <= budget[c][r]

(* host_budget_exceeded on the projected load: only budgets above zero
   count, and a projection equal to the budget is still admitted. *)
UnderBudget(c) ==
  hostGroup[c] # NoHost =>
    \A r \in Res : budget[c][r] > 0 =>
                     hostUse[hostGroup[c]][r] + cost[c][r] <= budget[c][r]

CanReserve(c) == UnderLimit(c) /\ UnderBudget(c)

(* reserve_candidate_load, under the tracker's mutex. *)
Reserve(c) ==
  /\ CanReserve(c)
  /\ inFlight' = [inFlight EXCEPT ![c] = @ + 1]
  /\ LET h == hostGroup[c] IN
     IF h = NoHost
     THEN UNCHANGED <<hostReq, hostUse>>
     ELSE /\ hostReq' = [hostReq EXCEPT ![h] = @ + 1]
          /\ hostUse' = [hostUse EXCEPT ![h] = [r \in Res |-> @[r] + cost[c][r]]]

Minus(a, b) == IF a <= b THEN 0 ELSE a - b   \* saturating_sub

(* release_candidate_load: the last request on a host removes its entry. *)
ReleaseLoad(c) ==
  /\ inFlight' = [inFlight EXCEPT ![c] = Minus(@, 1)]
  /\ LET h == hostGroup[c] IN
     IF h = NoHost \/ hostReq[h] = 0
     THEN UNCHANGED <<hostReq, hostUse>>
     ELSE /\ hostReq' = [hostReq EXCEPT ![h] = Minus(@, 1)]
          /\ hostUse' = [hostUse EXCEPT ![h] =
                 [r \in Res |-> IF hostReq[h] = 1 THEN 0 ELSE Minus(@[r], cost[c][r])]]

(* release_candidate_waiting, without its notify_waiters. *)
ReleaseWaiting(c) == waiting' = [waiting EXCEPT ![c] = Minus(@, 1)]

(* load_released.notify_waiters(): fires every enabled future. *)
NotifyWaiters ==
  /\ woken' = woken \cup listening
  /\ listening' = {}

Goto(t, label) == pc' = [pc EXCEPT ![t] = label]

(* invoke_candidate returns, or its future is dropped: the OwnedSemaphorePermit
   goes back to its pool. *)
ReturnPermit(t) == permits' = [permits EXCEPT ![ClassOf(t)] = @ + 1]
-----------------------------------------------------------------------------
(* invoke_candidate is called; prepare_provider_request is synchronous. *)
Start(t) ==
  /\ pc[t] = "idle"
  /\ Goto(t, "permit")
  /\ UNCHANGED <<req, tracker, permits, listening, woken, drops>>

(* The NMC telemetry reports the candidate's host constrained: early return. *)
SkipConstrained(t) ==
  /\ pc[t] = "idle"
  /\ Goto(t, "done")
  /\ UNCHANGED <<req, tracker, permits, listening, woken, drops>>

(* Mutant: the pool hands out a permit it does not have. *)
AcquirePermitUnchecked(t) ==
  /\ pc[t] = "permit"
  /\ permits' = [permits EXCEPT ![ClassOf(t)] = @ - 1]
  /\ Goto(t, IF req[t].wait THEN "register" ELSE "reserve")
  /\ UNCHANGED <<req, tracker, listening, woken, drops>>

(* acquire_workload_permit gets a permit of the task's class. *)
AcquirePermit(t) ==
  /\ pc[t] = "permit"
  /\ permits[ClassOf(t)] > 0
  /\ permits' = [permits EXCEPT ![ClassOf(t)] = @ - 1]
  /\ Goto(t, IF req[t].wait THEN "register" ELSE "reserve")
  /\ UNCHANGED <<req, tracker, listening, woken, drops>>

(* ... or times out: "workload pool is saturated". *)
PermitTimeout(t) ==
  /\ pc[t] = "permit"
  /\ permits[ClassOf(t)] = 0
  /\ Goto(t, "done")
  /\ UNCHANGED <<req, tracker, permits, listening, woken, drops>>

(* A candidate ranked as available is reserved without waiting ... *)
TryReserve(t) ==
  /\ pc[t] = "reserve"
  /\ Reserve(CandOf(t))
  /\ Goto(t, "invoke")
  /\ UNCHANGED <<req, waiting, permits, listening, woken, drops>>

(* Mutant: the early return forgets the permit. *)
CapacityRaceKeepsPermit(t) ==
  /\ pc[t] = "reserve"
  /\ ~CanReserve(CandOf(t))
  /\ Goto(t, "done")
  /\ UNCHANGED <<req, tracker, permits, listening, woken, drops>>

(* ... and losing the race to another request fails at once. *)
CapacityRace(t) ==
  /\ pc[t] = "reserve"
  /\ ~CanReserve(CandOf(t))
  /\ Goto(t, "done")
  /\ ReturnPermit(t)
  /\ UNCHANGED <<req, tracker, listening, woken, drops>>

(* Mutant: the Notified future is created but not enabled before the check. *)
RegisterWithoutEnable(t) ==
  /\ pc[t] = "register"
  /\ waiting' = [waiting EXCEPT ![CandOf(t)] = @ + 1]
  /\ Goto(t, "check")
  /\ UNCHANGED <<req, inFlight, hostReq, hostUse, permits, listening, woken, drops>>

(* reserve_candidate_load_with_backpressure: count the waiter, arm its guard
   and enable the Notified future before the first capacity check. *)
Register(t) ==
  /\ pc[t] = "register"
  /\ waiting' = [waiting EXCEPT ![CandOf(t)] = @ + 1]
  /\ listening' = listening \cup {t}
  /\ Goto(t, "check")
  /\ UNCHANGED <<req, inFlight, hostReq, hostUse, permits, woken, drops>>

(* The check finds capacity; the guard gives up its candidate id. *)
CheckReserve(t) ==
  /\ pc[t] = "check"
  /\ Reserve(CandOf(t))
  /\ Goto(t, "unwait")
  /\ UNCHANGED <<req, waiting, permits, listening, woken, drops>>

(* The check fails before the deadline: await the notification. *)
CheckWait(t) ==
  /\ pc[t] = "check"
  /\ ~CanReserve(CandOf(t))
  /\ Goto(t, "wait")
  /\ UNCHANGED <<req, tracker, permits, listening, woken, drops>>

(* notified.await returns and the loop enables a fresh future. *)
Wake(t) ==
  /\ pc[t] = "wait"
  /\ t \in woken
  /\ woken' = woken \ {t}
  /\ listening' = listening \cup {t}
  /\ Goto(t, "check")
  /\ UNCHANGED <<req, tracker, permits, drops>>

(* Mutant: notified.await has no timeout of its own. *)
WaitTimeoutOnlyAtCheck(t) ==
  /\ pc[t] = "check" /\ ~CanReserve(CandOf(t))
  /\ dropWait' = [dropWait EXCEPT ![CandOf(t)] = @ + 1]
  /\ listening' = listening \ {t}
  /\ woken' = woken \ {t}
  /\ Goto(t, "done")
  /\ ReturnPermit(t)
  /\ UNCHANGED <<req, tracker, dropLoad, dropNotify>>

(* Mutant: the timed-out waiter has no guard to give back its count. *)
WaitTimeoutUnguarded(t) ==
  /\ \/ pc[t] = "check" /\ ~CanReserve(CandOf(t))
     \/ pc[t] = "wait" /\ t \notin woken
  /\ listening' = listening \ {t}
  /\ woken' = woken \ {t}
  /\ Goto(t, "done")
  /\ ReturnPermit(t)
  /\ UNCHANGED <<req, tracker, drops>>

(* The deadline passes: after a failed check, or while no notification has
   arrived (timeout_at polls the future first).  Returning drops the waiting
   guard, which spawns the release of the waiting count. *)
WaitTimeout(t) ==
  /\ \/ pc[t] = "check" /\ ~CanReserve(CandOf(t))
     \/ pc[t] = "wait" /\ t \notin woken
  /\ dropWait' = [dropWait EXCEPT ![CandOf(t)] = @ + 1]
  /\ listening' = listening \ {t}
  /\ woken' = woken \ {t}
  /\ Goto(t, "done")
  /\ ReturnPermit(t)
  /\ UNCHANGED <<req, tracker, dropLoad, dropNotify>>

(* waiting_guard.release().await gets the mutex ... *)
Unwait(t) ==
  /\ pc[t] = "unwait"
  /\ ReleaseWaiting(CandOf(t))
  /\ Goto(t, "unwaited")
  /\ UNCHANGED <<req, inFlight, hostReq, hostUse, permits, listening, woken, drops>>

(* ... and notifies after unlocking; the reserving loop is left, its own
   future with it. *)
UnwaitNotify(t) ==
  /\ pc[t] = "unwaited"
  /\ woken' = (woken \cup listening) \ {t}
  /\ listening' = {}
  /\ Goto(t, "record")
  /\ UNCHANGED <<req, tracker, permits, drops>>

(* The queue_wait metric is recorded; back in invoke_candidate the
   reservation goes into its guard before the next await. *)
RecordQueueWait(t) ==
  /\ pc[t] = "record"
  /\ Goto(t, "invoke")
  /\ UNCHANGED <<req, tracker, permits, listening, woken, drops>>

(* The provider answers, fails, or the timeout window closes; the guard gives
   up its reservation and waits for the mutex. *)
Invoked(t) ==
  /\ pc[t] = "invoke"
  /\ Goto(t, "release")
  /\ UNCHANGED <<req, tracker, permits, listening, woken, drops>>

(* load_reservation_guard.release().await gets the mutex ... *)
Release(t) ==
  /\ pc[t] = "release"
  /\ ReleaseLoad(CandOf(t))
  /\ Goto(t, "released")
  /\ UNCHANGED <<req, waiting, permits, listening, woken, drops>>

(* ... notifies, and the invocation returns its result. *)
ReleaseNotify(t) ==
  /\ pc[t] = "released"
  /\ NotifyWaiters
  /\ Goto(t, "done")
  /\ ReturnPermit(t)
  /\ UNCHANGED <<req, tracker, drops>>
-----------------------------------------------------------------------------
(* Mutant: an aborted provider call does not give its slot back. *)
AbortWithoutLoadGuard(t) ==
  /\ pc[t] \in AbortAt
  /\ dropWait' = IF pc[t] \in {"check", "wait"}
                 THEN [dropWait EXCEPT ![CandOf(t)] = @ + 1] ELSE dropWait
  /\ IF pc[t] = "permit" THEN UNCHANGED permits ELSE ReturnPermit(t)
  /\ listening' = listening \ {t}
  /\ woken' = woken \ {t}
  /\ Goto(t, "aborted")
  /\ UNCHANGED <<req, tracker, dropLoad, dropNotify>>

(* The future is dropped at an await.  An armed guard spawns its release; at
   the UnguardedPoints no guard is armed and nothing is spawned. *)
Abort(t) ==
  /\ pc[t] \in AbortAt
  /\ dropWait' = IF pc[t] \in {"check", "wait"}
                 THEN [dropWait EXCEPT ![CandOf(t)] = @ + 1] ELSE dropWait
  /\ dropLoad' = IF pc[t] = "invoke"
                 THEN [dropLoad EXCEPT ![CandOf(t)] = @ + 1] ELSE dropLoad
  /\ IF pc[t] = "permit" THEN UNCHANGED permits ELSE ReturnPermit(t)
  /\ listening' = listening \ {t}
  /\ woken' = woken \ {t}
  /\ Goto(t, "aborted")
  /\ UNCHANGED <<req, tracker, dropNotify>>

(* The release spawned by LoadReservationGuard::drop runs. *)
DropReleaseLoad(c) ==
  /\ dropLoad[c] > 0
  /\ dropLoad' = [dropLoad EXCEPT ![c] = @ - 1]
  /\ ReleaseLoad(c)
  /\ dropNotify' = dropNotify + 1
  /\ UNCHANGED <<pc, req, waiting, permits, listening, woken, dropWait>>

(* The release spawned by CandidateWaitingGuard::drop runs. *)
DropReleaseWaiting(c) ==
  /\ dropWait[c] > 0
  /\ dropWait' = [dropWait EXCEPT ![c] = @ - 1]
  /\ ReleaseWaiting(c)
  /\ dropNotify' = dropNotify + 1
  /\ UNCHANGED <<pc, req, inFlight, hostReq, hostUse, permits, listening, woken, dropLoad>>

(* A spawned release notifies after unlocking. *)
DropNotify ==
  /\ dropNotify > 0
  /\ dropNotify' = dropNotify - 1
  /\ NotifyWaiters
  /\ UNCHANGED <<pc, req, tracker, permits, dropLoad, dropWait>>
-----------------------------------------------------------------------------
LoadInit ==
  /\ pc = [t \in Task |-> "idle"]
  /\ req \in [Task -> Request]
  /\ inFlight = [c \in Cand |-> 0]
  /\ waiting = [c \in Cand |-> 0]
  /\ hostReq = [h \in Host |-> 0]
  /\ hostUse = [h \in Host |-> [r \in Res |-> 0]]
  /\ permits = poolSize
  /\ listening = {}
  /\ woken = {}
  /\ dropLoad = [c \in Cand |-> 0]
  /\ dropWait = [c \in Cand |-> 0]
  /\ dropNotify = 0

(* The steps of an invocation that the runtime takes once they are possible. *)
Step(t) ==
  \/ AcquirePermit(t) \/ PermitTimeout(t)
  \/ TryReserve(t) \/ CapacityRace(t)
  \/ Register(t) \/ CheckReserve(t) \/ CheckWait(t) \/ Wake(t)
  \/ WaitTimeout(t) \/ Unwait(t) \/ UnwaitNotify(t) \/ RecordQueueWait(t)
  \/ Invoked(t) \/ Release(t) \/ ReleaseNotify(t)

Spawned ==
  \/ \E c \in Cand : DropReleaseLoad(c) \/ DropReleaseWaiting(c)
  \/ DropNotify

LoadNext ==
  \/ \E t \in Task : Start(t) \/ SkipConstrained(t) \/ Step(t) \/ Abort(t)
  \/ Spawned

LoadSpec == LoadInit /\ [][LoadNext]_loadVars

(* Tokio polls every ready task, timers fire, and every provider call ends:
   each adapter's HTTP client and the candidate timeout bound it. *)
LoadFairness ==
  /\ \A t \in Task : WF_loadVars(Step(t))
  /\ WF_loadVars(Spawned)

LoadFairSpec == LoadSpec /\ LoadFairness
-----------------------------------------------------------------------------
(* Every variable keeps its type; no count of the tracker or of a pool goes
   below zero. *)
LoadTypeOK ==
  /\ pc \in [Task -> PCs]
  /\ req \in [Task -> Request]
  /\ inFlight \in [Cand -> Nat]
  /\ waiting \in [Cand -> Nat]
  /\ hostReq \in [Host -> Nat]
  /\ hostUse \in [Host -> [Res -> Nat]]
  /\ permits \in [Class -> Nat]
  /\ listening \in SUBSET Task
  /\ woken \in SUBSET Task
  /\ dropLoad \in [Cand -> Nat]
  /\ dropWait \in [Cand -> Nat]
  /\ dropNotify \in Nat

(* max_concurrent_requests bounds the invocations that really run against a
   candidate, whatever aborts do to the counter: the tracker never counts
   fewer than there are. *)
NeverOversubscribed ==
  \A c \in Cand :
    maxConcurrent[c] # Unlimited => Cardinality(Holders(c)) <= Limit(c)

(* The invocations on a host, and the units of a resource they need: as many
   pairs for each as it costs. *)
Running(h) == {t \in Task : hostGroup[CandOf(t)] = h /\ pc[t] \in HasReservation}
Units(S, n) == UNION {{x} \X (1..n[x]) : x \in S}
Used(h, r) == Cardinality(Units(Running(h), [t \in Task |-> cost[CandOf(t)][r]]))

(* The invocations running on a host never need more of a resource than the
   largest budget of its candidates, if each of them has one: candidates bring
   budgets of their own for the host they share. *)
HostWithinBudget ==
  \A c \in Cand : \A r \in Res :
    LET h == hostGroup[c]
    IN  /\ h # NoHost
        /\ \A d \in Cand : hostGroup[d] = h => budget[d][r] > 0 /\ budget[d][r] <= budget[c][r]
        => Used(h, r) <= budget[c][r]

(* A queued request whose notification has not fired waits for capacity that
   is really missing, or a release is about to notify it: the release that
   happens between its check and its await is not lost. *)
NoLostWakeup ==
  \A t \in Task :
    /\ pc[t] = "wait"
    /\ t \notin woken
    /\ CanReserve(CandOf(t))
    => \/ dropNotify > 0
       \/ \E u \in Task : pc[u] \in Syncs

(* The tracker counts exactly the reservations and waits that are held by a
   task or by a spawned release: capacity never leaks. *)
Accounting ==
  \A c \in Cand :
    /\ inFlight[c] = Cardinality(Holders(c)) + dropLoad[c]
    /\ waiting[c] = Cardinality(Waiters(c)) + dropWait[c]

(* Every permit of a pool is free or held by one live invocation, also after
   aborts and timeouts. *)
PermitsConserved ==
  \A k \in Class : permits[k] + Cardinality(PermitHolders(k)) = poolSize[k]

(* reserve_candidate_load admits against everything that runs, so that no
   host's budget is exceeded; a release between a queued request's check and
   its await is not lost; every permit of a pool comes back. *)
CapacityIsSafe == HostWithinBudget /\ NoLostWakeup /\ PermitsConserved

(* Every dispatched invocation ends: no wait for a permit, for capacity or
   for the provider is unbounded. *)
EveryInvocationEnds ==
  \A t \in Task : pc[t] = "permit" ~> pc[t] \in {"done", "aborted"}

(* Once every invocation has ended, the tracker returns to empty and stays
   there. *)
TrackerDrains ==
  (\A t \in Task : pc[t] \in {"done", "aborted"})
    ~> [](\A c \in Cand : inFlight[c] = 0 /\ waiting[c] = 0)
=============================================================================
