------------------------ MODULE LoadAdmissionProofs ------------------------
(***************************************************************************)
(* Proofs about the services beside a completion.  LoadAdmission, for any  *)
(* number of tasks, candidates, hosts and pools: type correctness, the     *)
(* concurrency limit of a candidate under aborts at every await, exact     *)
(* accounting when aborts only land where a guard is armed, wake-ups,      *)
(* permits and the budgets of hosts.  MetricsStore, for any requests,      *)
(* candidates and profiles: whole files and exact counts across crashes.   *)
(***************************************************************************)
EXTENDS LoadAdmission, MetricsStore, FiniteSetTheorems, TLAPS

(* Futures are dropped only where an armed guard spawns the release. *)
GuardedAborts == AbortAt \cap UnguardedPoints = {}

(* The tasks of candidate c whose label is in L; Holders and Waiters are the
   two instances the counters stand for. *)
At(L, c) == {t \in Task : CandOf(t) = c /\ pc[t] \in L}

(* The in-flight counter covers the reservations in use and those a spawned
   release will return, and never passes the limit; it is exact when every
   abort is guarded. *)
LoadInv ==
  \A c \in Cand :
    /\ Cardinality(At(HasReservation, c)) + dropLoad[c] <= inFlight[c]
    /\ maxConcurrent[c] # Unlimited => inFlight[c] <= Limit(c)
    /\ GuardedAborts => inFlight[c] = Cardinality(At(HasReservation, c)) + dropLoad[c]

(* The same for the waiting counter, which nothing limits. *)
WaitInv ==
  \A c \in Cand :
    /\ Cardinality(At(HasWaitCount, c)) + dropWait[c] <= waiting[c]
    /\ GuardedAborts => waiting[c] = Cardinality(At(HasWaitCount, c)) + dropWait[c]

(* A task inside the backpressure loop has a Notified future that is enabled
   or has fired. *)
ListenInv == \A t \in Task : pc[t] \in {"check", "wait"} => t \in listening \cup woken

USE DEF AwaitPoints, UnguardedPoints, Ended, Syncs, PCs, Request, CandOf, ClassOf
-----------------------------------------------------------------------------
(* The limit in force is a positive number wherever one is configured. *)
LEMMA LimitType ==
  ASSUME NEW c \in Cand, maxConcurrent[c] # Unlimited
  PROVE  Limit(c) \in Nat /\ Limit(c) >= 1
BY ConstantsOK DEF Limit

(* LoadInit establishes the types: the tracker starts empty. *)
LEMMA InitType == LoadInit => LoadTypeOK
BY ConstantsOK DEF LoadInit, LoadTypeOK

(* Taking and returning a reservation keep the tracker's types. *)
LEMMA ReserveType ==
  ASSUME LoadTypeOK, NEW c \in Cand, Reserve(c)
  PROVE  /\ inFlight' \in [Cand -> Nat]
         /\ hostReq' \in [Host -> Nat]
         /\ hostUse' \in [Host -> [Res -> Nat]]
<1>1. inFlight' \in [Cand -> Nat]
  BY DEF LoadTypeOK, Reserve
<1>2. CASE hostGroup[c] = NoHost
  BY <1>1, <1>2 DEF LoadTypeOK, Reserve
<1>3. CASE hostGroup[c] # NoHost
  <2> DEFINE h == hostGroup[c]
             use == [r \in Res |-> hostUse[h][r] + cost[c][r]]
  <2>1. h \in Host
    BY <1>3, ConstantsOK
  <2>2. hostReq' = [hostReq EXCEPT ![h] = @ + 1] /\ hostUse' = [hostUse EXCEPT ![h] = use]
    BY <1>3 DEF Reserve
  <2>3. use \in [Res -> Nat]
    BY <2>1, ConstantsOK DEF LoadTypeOK
  <2> HIDE DEF use
  <2>4. QED
    BY <1>1, <2>1, <2>2, <2>3 DEF LoadTypeOK
<1> QED
  BY <1>2, <1>3

LEMMA ReleaseType ==
  ASSUME LoadTypeOK, NEW c \in Cand, ReleaseLoad(c)
  PROVE  /\ inFlight' \in [Cand -> Nat]
         /\ hostReq' \in [Host -> Nat]
         /\ hostUse' \in [Host -> [Res -> Nat]]
<1>1. inFlight' \in [Cand -> Nat]
  BY DEF LoadTypeOK, ReleaseLoad, Minus
<1>2. CASE hostGroup[c] = NoHost \/ hostReq[hostGroup[c]] = 0
  BY <1>1, <1>2 DEF LoadTypeOK, ReleaseLoad
<1>3. CASE ~(hostGroup[c] = NoHost \/ hostReq[hostGroup[c]] = 0)
  <2> DEFINE h == hostGroup[c]
             use == [r \in Res |-> IF hostReq[h] = 1 THEN 0
                                   ELSE Minus(hostUse[h][r], cost[c][r])]
  <2>1. h \in Host
    BY <1>3, ConstantsOK
  <2>2. /\ hostReq' = [hostReq EXCEPT ![h] = Minus(@, 1)]
        /\ hostUse' = [hostUse EXCEPT ![h] = use]
    BY <1>3 DEF ReleaseLoad
  <2>3. use \in [Res -> Nat]
    BY <2>1, ConstantsOK DEF LoadTypeOK, Minus
  <2> HIDE DEF use
  <2>4. QED
    BY <1>1, <2>1, <2>2, <2>3 DEF LoadTypeOK, Minus
<1> QED
  BY <1>2, <1>3

(* Every step keeps the types. *)
LEMMA NextType == LoadTypeOK /\ [LoadNext]_loadVars => LoadTypeOK'
<1> SUFFICES ASSUME LoadTypeOK, [LoadNext]_loadVars PROVE LoadTypeOK'
  OBVIOUS
<1>1. ASSUME NEW t \in Task, Start(t) PROVE LoadTypeOK'
  BY <1>1 DEF LoadTypeOK, Start, Goto, tracker, drops
<1>2. ASSUME NEW t \in Task, SkipConstrained(t) PROVE LoadTypeOK'
  BY <1>2 DEF LoadTypeOK, SkipConstrained, Goto, tracker, drops
<1>3. ASSUME NEW t \in Task, AcquirePermit(t) PROVE LoadTypeOK'
  BY <1>3 DEF LoadTypeOK, AcquirePermit, Goto, tracker, drops
<1>4. ASSUME NEW t \in Task, PermitTimeout(t) PROVE LoadTypeOK'
  BY <1>4 DEF LoadTypeOK, PermitTimeout, Goto, tracker, drops
<1>5. ASSUME NEW t \in Task, TryReserve(t) PROVE LoadTypeOK'
  BY <1>5, ReserveType DEF LoadTypeOK, TryReserve, Goto, drops
<1>6. ASSUME NEW t \in Task, CapacityRace(t) PROVE LoadTypeOK'
  BY <1>6 DEF LoadTypeOK, CapacityRace, Goto, ReturnPermit, tracker, drops
<1>7. ASSUME NEW t \in Task, Register(t) PROVE LoadTypeOK'
  BY <1>7 DEF LoadTypeOK, Register, Goto, drops
<1>8. ASSUME NEW t \in Task, CheckReserve(t) PROVE LoadTypeOK'
  BY <1>8, ReserveType DEF LoadTypeOK, CheckReserve, Goto, drops
<1>9. ASSUME NEW t \in Task, CheckWait(t) PROVE LoadTypeOK'
  BY <1>9 DEF LoadTypeOK, CheckWait, Goto, tracker, drops
<1>10. ASSUME NEW t \in Task, Wake(t) PROVE LoadTypeOK'
  BY <1>10 DEF LoadTypeOK, Wake, Goto, tracker, drops
<1>11. ASSUME NEW t \in Task, WaitTimeout(t) PROVE LoadTypeOK'
  BY <1>11 DEF LoadTypeOK, WaitTimeout, Goto, ReturnPermit, tracker, drops
<1>12. ASSUME NEW t \in Task, Unwait(t) PROVE LoadTypeOK'
  BY <1>12 DEF LoadTypeOK, Unwait, ReleaseWaiting, Minus, Goto, drops
<1>13. ASSUME NEW t \in Task, UnwaitNotify(t) PROVE LoadTypeOK'
  BY <1>13 DEF LoadTypeOK, UnwaitNotify, Goto, tracker, drops
<1>14. ASSUME NEW t \in Task, RecordQueueWait(t) PROVE LoadTypeOK'
  BY <1>14 DEF LoadTypeOK, RecordQueueWait, Goto, tracker, drops
<1>15. ASSUME NEW t \in Task, Invoked(t) PROVE LoadTypeOK'
  BY <1>15 DEF LoadTypeOK, Invoked, Goto, tracker, drops
<1>16. ASSUME NEW t \in Task, Release(t) PROVE LoadTypeOK'
  BY <1>16, ReleaseType DEF LoadTypeOK, Release, Goto, drops
<1>17. ASSUME NEW t \in Task, ReleaseNotify(t) PROVE LoadTypeOK'
  BY <1>17 DEF LoadTypeOK, ReleaseNotify, NotifyWaiters, Goto, ReturnPermit, tracker, drops
<1>18. ASSUME NEW t \in Task, Abort(t) PROVE LoadTypeOK'
  BY <1>18 DEF LoadTypeOK, Abort, Goto, ReturnPermit, tracker, drops
<1>19. ASSUME NEW c \in Cand, DropReleaseLoad(c) PROVE LoadTypeOK'
  BY <1>19, ReleaseType DEF LoadTypeOK, DropReleaseLoad
<1>20. ASSUME NEW c \in Cand, DropReleaseWaiting(c) PROVE LoadTypeOK'
  BY <1>20 DEF LoadTypeOK, DropReleaseWaiting, ReleaseWaiting, Minus
<1>21. CASE DropNotify
  BY <1>21 DEF LoadTypeOK, DropNotify, NotifyWaiters, tracker
<1>22. CASE UNCHANGED loadVars
  BY <1>22 DEF LoadTypeOK, loadVars, tracker, drops
<1> QED
  BY <1>1, <1>2, <1>3, <1>4, <1>5, <1>6, <1>7, <1>8, <1>9, <1>10, <1>11, <1>12,
     <1>13, <1>14, <1>15, <1>16, <1>17, <1>18, <1>19, <1>20, <1>21, <1>22
     DEF LoadNext, Step, Spawned

(* The tracker, the pools and the guards keep their types in every behaviour
   of invoke_candidate. *)
THEOREM TypeCorrect == LoadSpec => []LoadTypeOK
BY InitType, NextType, PTL DEF LoadSpec
-----------------------------------------------------------------------------
(* How the tasks at a set of labels change when one task moves. *)
LEMMA AtFinite ==
  ASSUME NEW L, NEW c
  PROVE  IsFiniteSet(At(L, c)) /\ Cardinality(At(L, c)) \in Nat
BY ConstantsOK, FS_Subset, FS_CardinalityType DEF At

LEMMA AtMove ==
  ASSUME LoadTypeOK, NEW t \in Task, NEW label \in PCs, Goto(t, label), req' = req,
         NEW L, NEW c \in Cand
  PROVE  /\ IsFiniteSet(At(L, c)) /\ Cardinality(At(L, c)) \in Nat
         /\ CandOf(t) # c \/ (pc[t] \in L <=> label \in L)
              => Cardinality(At(L, c)') = Cardinality(At(L, c))
         /\ CandOf(t) = c /\ pc[t] \notin L /\ label \in L
              => Cardinality(At(L, c)') = Cardinality(At(L, c)) + 1
         /\ CandOf(t) = c /\ pc[t] \in L /\ label \notin L
              => Cardinality(At(L, c)') = Cardinality(At(L, c)) - 1
<1>1. IsFiniteSet(At(L, c)) /\ Cardinality(At(L, c)) \in Nat
  BY AtFinite
<1>2. ASSUME CandOf(t) # c \/ (pc[t] \in L <=> label \in L)
      PROVE  At(L, c)' = At(L, c)
  BY <1>2 DEF At, Goto, LoadTypeOK
<1>3. ASSUME CandOf(t) = c, pc[t] \notin L, label \in L
      PROVE  Cardinality(At(L, c)') = Cardinality(At(L, c)) + 1
  <2>1. At(L, c)' = At(L, c) \cup {t} /\ t \notin At(L, c)
    BY <1>3 DEF At, Goto, LoadTypeOK
  <2>2. QED
    BY <2>1, <1>1, FS_AddElement
<1>4. ASSUME CandOf(t) = c, pc[t] \in L, label \notin L
      PROVE  Cardinality(At(L, c)') = Cardinality(At(L, c)) - 1
  <2>1. At(L, c)' = At(L, c) \ {t} /\ t \in At(L, c)
    BY <1>4 DEF At, Goto, LoadTypeOK
  <2>2. QED
    BY <2>1, <1>1, FS_RemoveElement
<1> QED
  BY <1>1, <1>2, <1>3, <1>4

(* A step that moves no task leaves the sets alone. *)
LEMMA AtStay ==
  ASSUME pc' = pc, req' = req, NEW L, NEW c
  PROVE  At(L, c)' = At(L, c)
BY DEF At

LEMMA InitLoad == LoadInit => LoadInv
<1> SUFFICES ASSUME LoadInit, NEW c \in Cand
             PROVE  /\ Cardinality(At(HasReservation, c)) = 0
                    /\ inFlight[c] = 0 /\ dropLoad[c] = 0
                    /\ maxConcurrent[c] # Unlimited => 0 <= Limit(c)
  BY DEF LoadInv, LoadInit
<1>1. At(HasReservation, c) = {}
  BY DEF At, HasReservation, LoadInit
<1> QED
  BY <1>1, FS_EmptySet, LimitType DEF LoadInit

(* The in-flight counter: one step per action that moves a task into or out
   of the reserved labels, or that touches the counter. *)
LEMMA NextLoad == LoadTypeOK /\ LoadInv /\ [LoadNext]_loadVars => LoadInv'
<1> SUFFICES ASSUME LoadTypeOK, LoadInv, [LoadNext]_loadVars, NEW c \in Cand
             PROVE  (/\ Cardinality(At(HasReservation, c)) + dropLoad[c] <= inFlight[c]
                     /\ maxConcurrent[c] # Unlimited => inFlight[c] <= Limit(c)
                     /\ GuardedAborts => inFlight[c] =
                          Cardinality(At(HasReservation, c)) + dropLoad[c])'
  BY DEF LoadInv
<1> DEFINE H == Cardinality(At(HasReservation, c))
           P == /\ H + dropLoad[c] <= inFlight[c]
                /\ maxConcurrent[c] # Unlimited => inFlight[c] <= Limit(c)
                /\ GuardedAborts => inFlight[c] = H + dropLoad[c]
<1>0. /\ P /\ H \in Nat /\ inFlight[c] \in Nat /\ dropLoad[c] \in Nat
      /\ maxConcurrent[c] # Unlimited => Limit(c) \in Nat /\ Limit(c) >= 1
      /\ Limit(c)' = Limit(c)
  BY AtFinite, LimitType DEF LoadInv, LoadTypeOK, Limit
<1>a. ASSUME NEW t \in Task, NEW label \in PCs, Goto(t, label), req' = req,
             pc[t] \in HasReservation <=> label \in HasReservation,
             inFlight' = inFlight, dropLoad' = dropLoad
      PROVE  P'
  BY <1>0, <1>a, AtMove
<1>b. ASSUME NEW t \in Task, NEW label \in PCs, Goto(t, label), req' = req,
             pc[t] \notin HasReservation, label \in HasReservation,
             Reserve(CandOf(t)), dropLoad' = dropLoad
      PROVE  P'
  <2>1. CASE CandOf(t) = c
    <3>1. H' = H + 1 /\ inFlight'[c] = inFlight[c] + 1
      BY <1>b, <2>1, AtMove DEF Reserve, LoadTypeOK
    <3>2. maxConcurrent[c] # Unlimited => inFlight[c] < Limit(c)
      BY <1>b, <2>1 DEF Reserve, CanReserve, UnderLimit
    <3>3. QED
      BY <1>0, <1>b, <3>1, <3>2
  <2>2. CASE CandOf(t) # c
    <3>1. H' = H /\ inFlight'[c] = inFlight[c]
      BY <1>b, <2>2, AtMove DEF Reserve, LoadTypeOK
    <3>2. QED
      BY <1>0, <1>b, <3>1
  <2> QED
    BY <2>1, <2>2
<1>1. ASSUME NEW t \in Task, Start(t) PROVE P'
  BY <1>1, <1>a DEF Start, HasReservation, tracker, drops
<1>2. ASSUME NEW t \in Task, SkipConstrained(t) PROVE P'
  BY <1>2, <1>a DEF SkipConstrained, HasReservation, tracker, drops
<1>3. ASSUME NEW t \in Task, AcquirePermit(t) PROVE P'
  <2>1. PICK label \in {"register", "reserve"} : Goto(t, label)
    BY <1>3 DEF AcquirePermit
  <2>2. QED
    BY <1>3, <2>1, <1>a DEF AcquirePermit, HasReservation, tracker, drops
<1>4. ASSUME NEW t \in Task, PermitTimeout(t) PROVE P'
  BY <1>4, <1>a DEF PermitTimeout, HasReservation, tracker, drops
<1>5. ASSUME NEW t \in Task, TryReserve(t) PROVE P'
  BY <1>5, <1>b DEF TryReserve, HasReservation, drops
<1>6. ASSUME NEW t \in Task, CapacityRace(t) PROVE P'
  BY <1>6, <1>a DEF CapacityRace, HasReservation, tracker, drops
<1>7. ASSUME NEW t \in Task, Register(t) PROVE P'
  BY <1>7, <1>a DEF Register, HasReservation, drops
<1>8. ASSUME NEW t \in Task, CheckReserve(t) PROVE P'
  BY <1>8, <1>b DEF CheckReserve, HasReservation, drops
<1>9. ASSUME NEW t \in Task, CheckWait(t) PROVE P'
  BY <1>9, <1>a DEF CheckWait, HasReservation, tracker, drops
<1>10. ASSUME NEW t \in Task, Wake(t) PROVE P'
  BY <1>10, <1>a DEF Wake, HasReservation, tracker, drops
<1>11. ASSUME NEW t \in Task, WaitTimeout(t) PROVE P'
  BY <1>11, <1>a DEF WaitTimeout, HasReservation, tracker
<1>12. ASSUME NEW t \in Task, Unwait(t) PROVE P'
  BY <1>12, <1>a DEF Unwait, HasReservation, drops
<1>13. ASSUME NEW t \in Task, UnwaitNotify(t) PROVE P'
  BY <1>13, <1>a DEF UnwaitNotify, HasReservation, tracker, drops
<1>14. ASSUME NEW t \in Task, RecordQueueWait(t) PROVE P'
  BY <1>14, <1>a DEF RecordQueueWait, HasReservation, tracker, drops
<1>15. ASSUME NEW t \in Task, Invoked(t) PROVE P'
  BY <1>15, <1>a DEF Invoked, HasReservation, tracker, drops
<1>16. ASSUME NEW t \in Task, Release(t) PROVE P'
  <2>1. /\ Goto(t, "released") /\ req' = req /\ dropLoad' = dropLoad
        /\ pc[t] \in HasReservation /\ "released" \notin HasReservation
    BY <1>16 DEF Release, HasReservation, drops
  <2>2. CASE CandOf(t) = c
    <3>1. H' = H - 1 /\ inFlight'[c] = Minus(inFlight[c], 1)
      BY <1>16, <2>1, <2>2, AtMove DEF Release, ReleaseLoad, LoadTypeOK
    <3>2. H' \in Nat
      BY <2>1, <3>1, <1>0, AtMove, AtFinite, FS_CardinalityType, FS_Subset, ConstantsOK DEF At
    <3>3. QED
      BY <1>0, <2>1, <3>1, <3>2 DEF Minus
  <2>3. CASE CandOf(t) # c
    <3>1. H' = H /\ inFlight'[c] = inFlight[c]
      BY <1>16, <2>1, <2>3, AtMove DEF Release, ReleaseLoad, LoadTypeOK
    <3>2. QED
      BY <1>0, <2>1, <3>1
  <2> QED
    BY <2>2, <2>3
<1>17. ASSUME NEW t \in Task, ReleaseNotify(t) PROVE P'
  BY <1>17, <1>a DEF ReleaseNotify, HasReservation, tracker, drops
<1>18. ASSUME NEW t \in Task, Abort(t) PROVE P'
  <2>1. Goto(t, "aborted") /\ req' = req /\ inFlight' = inFlight /\ "aborted" \notin HasReservation
    BY <1>18 DEF Abort, tracker, HasReservation
  <2>2. CASE pc[t] \notin HasReservation
    <3>1. dropLoad' = dropLoad
      BY <1>18, <2>2 DEF Abort, HasReservation
    <3>2. QED
      BY <2>1, <2>2, <3>1, <1>a
  <2>3. CASE pc[t] \in HasReservation /\ CandOf(t) # c
    <3>1. H' = H /\ dropLoad'[c] = dropLoad[c]
      BY <1>18, <2>1, <2>3, AtMove DEF Abort, LoadTypeOK
    <3>2. QED
      BY <1>0, <2>1, <3>1
  <2>4. CASE pc[t] = "invoke" /\ CandOf(t) = c
    <3>0. pc[t] \in HasReservation
      BY <2>4 DEF HasReservation
    <3>1. H' = H - 1 /\ dropLoad'[c] = dropLoad[c] + 1
      BY <1>18, <2>1, <2>4, <3>0, AtMove DEF Abort, LoadTypeOK
    <3>2. QED
      BY <1>0, <2>1, <3>1
  <2>5. CASE pc[t] \in HasReservation \ {"invoke"} /\ CandOf(t) = c
    <3>1. H' = H - 1 /\ dropLoad' = dropLoad
      BY <1>18, <2>1, <2>5, AtMove DEF Abort, LoadTypeOK
    <3>2. ~GuardedAborts
      BY <1>18, <2>5, ConstantsOK DEF Abort, GuardedAborts, HasReservation
    <3>3. QED
      BY <1>0, <2>1, <3>1, <3>2
  <2> QED
    BY <2>2, <2>3, <2>4, <2>5
<1>19. ASSUME NEW d \in Cand, DropReleaseLoad(d) PROVE P'
  <2>1. H' = H
    BY <1>19, AtStay DEF DropReleaseLoad
  <2>2. CASE d = c
    <3>1. /\ dropLoad[c] > 0 /\ dropLoad'[c] = dropLoad[c] - 1
          /\ inFlight'[c] = Minus(inFlight[c], 1)
      BY <1>19, <2>2 DEF DropReleaseLoad, ReleaseLoad, LoadTypeOK
    <3>2. QED
      BY <1>0, <2>1, <3>1 DEF Minus
  <2>3. CASE d # c
    <3>1. dropLoad'[c] = dropLoad[c] /\ inFlight'[c] = inFlight[c]
      BY <1>19, <2>3 DEF DropReleaseLoad, ReleaseLoad, LoadTypeOK
    <3>2. QED
      BY <1>0, <2>1, <3>1
  <2> QED
    BY <2>2, <2>3
<1>20. ASSUME NEW d \in Cand, DropReleaseWaiting(d) PROVE P'
  BY <1>0, <1>20, AtStay DEF DropReleaseWaiting
<1>21. CASE DropNotify
  BY <1>0, <1>21, AtStay DEF DropNotify, tracker
<1>22. CASE UNCHANGED loadVars
  BY <1>0, <1>22, AtStay DEF loadVars, tracker, drops
<1> QED
  BY <1>1, <1>2, <1>3, <1>4, <1>5, <1>6, <1>7, <1>8, <1>9, <1>10, <1>11, <1>12,
     <1>13, <1>14, <1>15, <1>16, <1>17, <1>18, <1>19, <1>20, <1>21, <1>22
     DEF LoadNext, Step, Spawned

LEMMA InitWait == LoadInit => WaitInv
<1> SUFFICES ASSUME LoadInit, NEW c \in Cand
             PROVE  /\ Cardinality(At(HasWaitCount, c)) = 0
                    /\ waiting[c] = 0 /\ dropWait[c] = 0
  BY DEF WaitInv, LoadInit
<1>1. At(HasWaitCount, c) = {}
  BY DEF At, HasWaitCount, LoadInit
<1> QED
  BY <1>1, FS_EmptySet DEF LoadInit

(* The waiting counter, along the same lines. *)
LEMMA NextWait == LoadTypeOK /\ WaitInv /\ [LoadNext]_loadVars => WaitInv'
<1> SUFFICES ASSUME LoadTypeOK, WaitInv, [LoadNext]_loadVars, NEW c \in Cand
             PROVE  (/\ Cardinality(At(HasWaitCount, c)) + dropWait[c] <= waiting[c]
                     /\ GuardedAborts => waiting[c] =
                          Cardinality(At(HasWaitCount, c)) + dropWait[c])'
  BY DEF WaitInv
<1> DEFINE W == Cardinality(At(HasWaitCount, c))
           P == /\ W + dropWait[c] <= waiting[c]
                /\ GuardedAborts => waiting[c] = W + dropWait[c]
<1>0. P /\ W \in Nat /\ waiting[c] \in Nat /\ dropWait[c] \in Nat
  BY AtFinite DEF WaitInv, LoadTypeOK
<1>a. ASSUME NEW t \in Task, NEW label \in PCs, Goto(t, label), req' = req,
             pc[t] \in HasWaitCount <=> label \in HasWaitCount,
             waiting' = waiting, dropWait' = dropWait
      PROVE  P'
  BY <1>0, <1>a, AtMove
<1>1. ASSUME NEW t \in Task, Start(t) PROVE P'
  BY <1>1, <1>a DEF Start, HasWaitCount, tracker, drops
<1>2. ASSUME NEW t \in Task, SkipConstrained(t) PROVE P'
  BY <1>2, <1>a DEF SkipConstrained, HasWaitCount, tracker, drops
<1>3. ASSUME NEW t \in Task, AcquirePermit(t) PROVE P'
  <2>1. PICK label \in {"register", "reserve"} : Goto(t, label)
    BY <1>3 DEF AcquirePermit
  <2>2. QED
    BY <1>3, <2>1, <1>a DEF AcquirePermit, HasWaitCount, tracker, drops
<1>4. ASSUME NEW t \in Task, PermitTimeout(t) PROVE P'
  BY <1>4, <1>a DEF PermitTimeout, HasWaitCount, tracker, drops
<1>5. ASSUME NEW t \in Task, TryReserve(t) PROVE P'
  BY <1>5, <1>a DEF TryReserve, HasWaitCount, drops
<1>6. ASSUME NEW t \in Task, CapacityRace(t) PROVE P'
  BY <1>6, <1>a DEF CapacityRace, HasWaitCount, tracker, drops
<1>7. ASSUME NEW t \in Task, Register(t) PROVE P'
  <2>1. /\ Goto(t, "check") /\ req' = req /\ dropWait' = dropWait
        /\ pc[t] \notin HasWaitCount /\ "check" \in HasWaitCount
    BY <1>7 DEF Register, HasWaitCount, drops
  <2>2. CASE CandOf(t) = c
    <3>1. W' = W + 1 /\ waiting'[c] = waiting[c] + 1
      BY <1>7, <2>1, <2>2, AtMove DEF Register, LoadTypeOK
    <3>2. QED
      BY <1>0, <2>1, <3>1
  <2>3. CASE CandOf(t) # c
    <3>1. W' = W /\ waiting'[c] = waiting[c]
      BY <1>7, <2>1, <2>3, AtMove DEF Register, LoadTypeOK
    <3>2. QED
      BY <1>0, <2>1, <3>1
  <2> QED
    BY <2>2, <2>3
<1>8. ASSUME NEW t \in Task, CheckReserve(t) PROVE P'
  BY <1>8, <1>a DEF CheckReserve, HasWaitCount, drops
<1>9. ASSUME NEW t \in Task, CheckWait(t) PROVE P'
  BY <1>9, <1>a DEF CheckWait, HasWaitCount, tracker, drops
<1>10. ASSUME NEW t \in Task, Wake(t) PROVE P'
  BY <1>10, <1>a DEF Wake, HasWaitCount, tracker, drops
<1>11. ASSUME NEW t \in Task, WaitTimeout(t) PROVE P'
  <2>1. /\ Goto(t, "done") /\ req' = req /\ waiting' = waiting
        /\ pc[t] \in HasWaitCount /\ "done" \notin HasWaitCount
    BY <1>11 DEF WaitTimeout, HasWaitCount, tracker
  <2>2. CASE CandOf(t) = c
    <3>1. W' = W - 1 /\ dropWait'[c] = dropWait[c] + 1
      BY <1>11, <2>1, <2>2, AtMove DEF WaitTimeout, LoadTypeOK
    <3>2. QED
      BY <1>0, <2>1, <3>1
  <2>3. CASE CandOf(t) # c
    <3>1. W' = W /\ dropWait'[c] = dropWait[c]
      BY <1>11, <2>1, <2>3, AtMove DEF WaitTimeout, LoadTypeOK
    <3>2. QED
      BY <1>0, <2>1, <3>1
  <2> QED
    BY <2>2, <2>3
<1>12. ASSUME NEW t \in Task, Unwait(t) PROVE P'
  <2>1. /\ Goto(t, "unwaited") /\ req' = req /\ dropWait' = dropWait
        /\ pc[t] \in HasWaitCount /\ "unwaited" \notin HasWaitCount
    BY <1>12 DEF Unwait, HasWaitCount, drops
  <2>2. CASE CandOf(t) = c
    <3>1. W' = W - 1 /\ waiting'[c] = Minus(waiting[c], 1)
      BY <1>12, <2>1, <2>2, AtMove DEF Unwait, ReleaseWaiting, LoadTypeOK
    <3>2. W' \in Nat
      BY FS_CardinalityType, FS_Subset, ConstantsOK DEF At
    <3>3. QED
      BY <1>0, <2>1, <3>1, <3>2 DEF Minus
  <2>3. CASE CandOf(t) # c
    <3>1. W' = W /\ waiting'[c] = waiting[c]
      BY <1>12, <2>1, <2>3, AtMove DEF Unwait, ReleaseWaiting, LoadTypeOK
    <3>2. QED
      BY <1>0, <2>1, <3>1
  <2> QED
    BY <2>2, <2>3
<1>13. ASSUME NEW t \in Task, UnwaitNotify(t) PROVE P'
  BY <1>13, <1>a DEF UnwaitNotify, HasWaitCount, tracker, drops
<1>14. ASSUME NEW t \in Task, RecordQueueWait(t) PROVE P'
  BY <1>14, <1>a DEF RecordQueueWait, HasWaitCount, tracker, drops
<1>15. ASSUME NEW t \in Task, Invoked(t) PROVE P'
  BY <1>15, <1>a DEF Invoked, HasWaitCount, tracker, drops
<1>16. ASSUME NEW t \in Task, Release(t) PROVE P'
  BY <1>16, <1>a DEF Release, HasWaitCount, drops
<1>17. ASSUME NEW t \in Task, ReleaseNotify(t) PROVE P'
  BY <1>17, <1>a DEF ReleaseNotify, HasWaitCount, tracker, drops
<1>18. ASSUME NEW t \in Task, Abort(t) PROVE P'
  <2>1. Goto(t, "aborted") /\ req' = req /\ waiting' = waiting /\ "aborted" \notin HasWaitCount
    BY <1>18 DEF Abort, tracker, HasWaitCount
  <2>2. CASE pc[t] \notin HasWaitCount
    <3>1. dropWait' = dropWait
      BY <1>18, <2>2 DEF Abort, HasWaitCount
    <3>2. QED
      BY <2>1, <2>2, <3>1, <1>a
  <2>3. CASE pc[t] \in HasWaitCount /\ CandOf(t) # c
    <3>1. W' = W /\ dropWait'[c] = dropWait[c]
      BY <1>18, <2>1, <2>3, AtMove DEF Abort, LoadTypeOK
    <3>2. QED
      BY <1>0, <2>1, <3>1
  <2>4. CASE pc[t] \in {"check", "wait"} /\ CandOf(t) = c
    <3>0. pc[t] \in HasWaitCount
      BY <2>4 DEF HasWaitCount
    <3>1. W' = W - 1 /\ dropWait'[c] = dropWait[c] + 1
      BY <1>18, <2>1, <2>4, <3>0, AtMove DEF Abort, LoadTypeOK
    <3>2. QED
      BY <1>0, <2>1, <3>1
  <2>5. CASE pc[t] \in HasWaitCount \ {"check", "wait"} /\ CandOf(t) = c
    <3>1. W' = W - 1 /\ dropWait' = dropWait
      BY <1>18, <2>1, <2>5, AtMove DEF Abort, LoadTypeOK
    <3>2. ~GuardedAborts
      BY <1>18, <2>5, ConstantsOK DEF Abort, GuardedAborts, HasWaitCount
    <3>3. QED
      BY <1>0, <2>1, <3>1, <3>2
  <2> QED
    BY <2>2, <2>3, <2>4, <2>5
<1>19. ASSUME NEW d \in Cand, DropReleaseLoad(d) PROVE P'
  BY <1>0, <1>19, AtStay DEF DropReleaseLoad
<1>20. ASSUME NEW d \in Cand, DropReleaseWaiting(d) PROVE P'
  <2>1. W' = W
    BY <1>20, AtStay DEF DropReleaseWaiting
  <2>2. CASE d = c
    <3>1. /\ dropWait[c] > 0 /\ dropWait'[c] = dropWait[c] - 1
          /\ waiting'[c] = Minus(waiting[c], 1)
      BY <1>20, <2>2 DEF DropReleaseWaiting, ReleaseWaiting, LoadTypeOK
    <3>2. QED
      BY <1>0, <2>1, <3>1 DEF Minus
  <2>3. CASE d # c
    <3>1. dropWait'[c] = dropWait[c] /\ waiting'[c] = waiting[c]
      BY <1>20, <2>3 DEF DropReleaseWaiting, ReleaseWaiting, LoadTypeOK
    <3>2. QED
      BY <1>0, <2>1, <3>1
  <2> QED
    BY <2>2, <2>3
<1>21. CASE DropNotify
  BY <1>0, <1>21, AtStay DEF DropNotify, tracker
<1>22. CASE UNCHANGED loadVars
  BY <1>0, <1>22, AtStay DEF loadVars, tracker, drops
<1> QED
  BY <1>1, <1>2, <1>3, <1>4, <1>5, <1>6, <1>7, <1>8, <1>9, <1>10, <1>11, <1>12,
     <1>13, <1>14, <1>15, <1>16, <1>17, <1>18, <1>19, <1>20, <1>21, <1>22
     DEF LoadNext, Step, Spawned

(* The counting invariants hold in every behaviour. *)
LEMMA Counting == LoadSpec => [](LoadInv /\ WaitInv)
BY InitType, NextType, InitLoad, NextLoad, InitWait, NextWait, PTL DEF LoadSpec

(* No candidate ever runs more invocations than max_concurrent_requests
   allows, even when futures are dropped at every await. *)
THEOREM Oversubscription == LoadSpec => []NeverOversubscribed
<1>1. LoadTypeOK /\ LoadInv => NeverOversubscribed
  <2> SUFFICES ASSUME LoadTypeOK, LoadInv, NEW c \in Cand, maxConcurrent[c] # Unlimited
               PROVE  Cardinality(Holders(c)) <= Limit(c)
    BY DEF NeverOversubscribed
  <2>1. Holders(c) = At(HasReservation, c)
    BY DEF Holders, At
  <2>2. /\ Cardinality(At(HasReservation, c)) \in Nat
        /\ inFlight[c] \in Nat /\ dropLoad[c] \in Nat
    BY AtFinite DEF LoadTypeOK
  <2>3. QED
    BY <2>1, <2>2, LimitType DEF LoadInv
<1> QED
  BY <1>1, TypeCorrect, Counting, PTL

(* Capacity never leaks as long as futures are dropped only where a guard is
   armed: the leak windows are exactly the UnguardedPoints. *)
THEOREM ExactAccounting == GuardedAborts => (LoadSpec => []Accounting)
<1> SUFFICES ASSUME GuardedAborts PROVE LoadSpec => []Accounting
  OBVIOUS
<1>1. LoadInv /\ WaitInv => Accounting
  <2> SUFFICES ASSUME LoadInv, WaitInv, NEW c \in Cand
               PROVE  /\ inFlight[c] = Cardinality(Holders(c)) + dropLoad[c]
                      /\ waiting[c] = Cardinality(Waiters(c)) + dropWait[c]
    BY DEF Accounting
  <2>1. Holders(c) = At(HasReservation, c) /\ Waiters(c) = At(HasWaitCount, c)
    BY DEF Holders, Waiters, At
  <2>2. QED
    BY <2>1 DEF LoadInv, WaitInv
<1> QED
  BY <1>1, Counting, PTL
-----------------------------------------------------------------------------
(* A reservation takes capacity from nobody but those who want it too: what
   cannot be reserved before it cannot be reserved after it. *)
LEMMA ReserveTakes ==
  ASSUME LoadTypeOK, NEW c \in Cand, Reserve(c), NEW d \in Cand, CanReserve(d)'
  PROVE  CanReserve(d)
<1>1. UnderLimit(d)
  BY ConstantsOK DEF CanReserve, UnderLimit, Limit, Reserve, LoadTypeOK
<1>2. UnderBudget(d)
  <2> SUFFICES ASSUME hostGroup[d] # NoHost, NEW r \in Res, budget[d][r] > 0
               PROVE  hostUse[hostGroup[d]][r] + cost[d][r] <= budget[d][r]
    BY DEF UnderBudget
  <2> DEFINE h == hostGroup[d]
  <2>1. h \in Host /\ cost[d][r] \in Nat /\ cost[c][r] \in Nat /\ budget[d][r] \in Nat
    BY ConstantsOK
  <2>2. hostUse[h][r] \in Nat /\ hostUse[h] \in [Res -> Nat]
    BY <2>1 DEF LoadTypeOK
  <2>3. hostUse'[h][r] + cost[d][r] <= budget[d][r]
    BY DEF CanReserve, UnderBudget
  <2>4. hostUse'[h] = hostUse[h] \/ hostUse'[h] = [q \in Res |-> hostUse[h][q] + cost[c][q]]
    <3>1. CASE hostGroup[c] = NoHost
      BY <3>1 DEF Reserve
    <3>2. CASE hostGroup[c] # NoHost
      BY <2>1, <3>2 DEF Reserve, LoadTypeOK
    <3> QED
      BY <3>1, <3>2
  <2>5. hostUse'[h][r] >= hostUse[h][r]
    BY <2>1, <2>2, <2>4
  <2>6. hostUse'[h][r] \in Nat
    BY <2>1, <2>2, <2>4
  <2> HIDE DEF h
  <2> QED
    BY <2>1, <2>2, <2>3, <2>5, <2>6 DEF h
<1> QED
  BY <1>1, <1>2 DEF CanReserve

(* Steps that leave the tracker alone leave it to decide the same. *)
LEMMA CapacityStays ==
  ASSUME inFlight' = inFlight, hostUse' = hostUse, NEW d
  PROVE  CanReserve(d)' <=> CanReserve(d)
BY DEF CanReserve, UnderLimit, UnderBudget, Limit

(* A release is about to notify the queue. *)
Notifying == dropNotify > 0 \/ \E u \in Task : pc[u] \in Syncs

(* Every queued request listens, and none of them sleeps past capacity. *)
QueueInv == ListenInv /\ NoLostWakeup

LEMMA InitQueue == LoadInit => QueueInv
BY DEF LoadInit, QueueInv, ListenInv, NoLostWakeup

LEMMA NextQueue == LoadTypeOK /\ LoadTypeOK' /\ QueueInv /\ [LoadNext]_loadVars => QueueInv'
<1> SUFFICES ASSUME LoadTypeOK, LoadTypeOK', QueueInv, [LoadNext]_loadVars, NEW s \in Task
             PROVE  /\ pc'[s] \in {"check", "wait"} => s \in listening' \cup woken'
                    /\ pc'[s] = "wait" /\ s \notin woken' /\ CanReserve(CandOf(s))'
                         => Notifying'
  BY DEF QueueInv, ListenInv, NoLostWakeup, Notifying
<1> DEFINE P == /\ pc[s] \in {"check", "wait"} => s \in listening \cup woken
                /\ pc[s] = "wait" /\ s \notin woken /\ CanReserve(CandOf(s)) => Notifying
<1>0. P /\ CandOf(s) \in Cand /\ dropNotify \in Nat
  BY DEF QueueInv, ListenInv, NoLostWakeup, Notifying, LoadTypeOK
\* A step of another task, or into or within the queue, that finds no capacity and
\* notifies nobody.
<1>a. ASSUME NEW t \in Task, NEW label \in PCs, Goto(t, label), req' = req,
             label \notin {"check", "wait"}, pc[t] \notin Syncs, dropNotify' = dropNotify,
             listening \subseteq listening' \cup {t}, woken \subseteq woken' \cup {t},
             CanReserve(CandOf(s))' => CanReserve(CandOf(s)), woken' \subseteq woken
      PROVE  P'
  <2>1. CASE s = t
    BY <1>a, <2>1 DEF Goto, LoadTypeOK
  <2>2. CASE s # t
    <3>1. pc'[s] = pc[s] /\ (s \in woken' <=> s \in woken) /\ (s \in listening => s \in listening')
      BY <1>a, <2>2 DEF Goto, LoadTypeOK
    <3>2. Notifying => Notifying'
      BY <1>a DEF Goto, LoadTypeOK, Notifying
    <3> QED
      BY <1>0, <1>a, <3>1, <3>2
  <2> QED
    BY <2>1, <2>2
\* A notification reaches every task but the one that sends it.
<1>b. ASSUME NEW T \in SUBSET Task,
             \A t \in Task \ T : pc'[t] = pc[t], \A t \in T : pc'[t] \notin {"check", "wait"},
             (woken \cup listening) \ T \subseteq woken'
      PROVE  P'
  <2>1. CASE s \in T
    BY <1>b, <2>1
  <2>2. CASE s \notin T
    BY <1>0, <1>b, <2>2
  <2> QED
    BY <2>1, <2>2
<1>1. ASSUME NEW t \in Task, Start(t) PROVE P'
  BY <1>1, <1>a, CapacityStays DEF Start, tracker, drops
<1>2. ASSUME NEW t \in Task, SkipConstrained(t) PROVE P'
  BY <1>2, <1>a, CapacityStays DEF SkipConstrained, tracker, drops
<1>3. ASSUME NEW t \in Task, AcquirePermit(t) PROVE P'
  <2>1. PICK label \in {"register", "reserve"} : Goto(t, label)
    BY <1>3 DEF AcquirePermit
  <2>2. QED
    BY <1>3, <2>1, <1>a, CapacityStays DEF AcquirePermit, tracker, drops
<1>4. ASSUME NEW t \in Task, PermitTimeout(t) PROVE P'
  BY <1>4, <1>a, CapacityStays DEF PermitTimeout, tracker, drops
<1>5. ASSUME NEW t \in Task, TryReserve(t) PROVE P'
  <2>1. CandOf(t) \in Cand /\ CandOf(s)' = CandOf(s)
    BY <1>5 DEF LoadTypeOK, TryReserve
  <2>2. CanReserve(CandOf(s))' => CanReserve(CandOf(s))
    BY <1>0, <1>5, <2>1, ReserveTakes DEF TryReserve
  <2> QED
    BY <1>5, <1>a, <2>2 DEF TryReserve, drops
<1>6. ASSUME NEW t \in Task, CapacityRace(t) PROVE P'
  BY <1>6, <1>a, CapacityStays DEF CapacityRace, tracker, drops
<1>7. ASSUME NEW t \in Task, Register(t) PROVE P'
  <2>1. /\ Goto(t, "check") /\ listening' = listening \cup {t} /\ woken' = woken
        /\ CandOf(s)' = CandOf(s) /\ dropNotify' = dropNotify /\ pc[t] = "register"
        /\ CanReserve(CandOf(s))' <=> CanReserve(CandOf(s))
    BY <1>7, CapacityStays DEF Register, drops
  <2> QED
    BY <1>0, <2>1 DEF Goto, LoadTypeOK, Notifying
<1>8. ASSUME NEW t \in Task, CheckReserve(t) PROVE P'
  <2>1. CandOf(t) \in Cand /\ CandOf(s)' = CandOf(s)
    BY <1>8 DEF LoadTypeOK, CheckReserve
  <2>2. CanReserve(CandOf(s))' => CanReserve(CandOf(s))
    BY <1>0, <1>8, <2>1, ReserveTakes DEF CheckReserve
  <2> QED
    BY <1>8, <1>a, <2>2 DEF CheckReserve, drops
<1>9. ASSUME NEW t \in Task, CheckWait(t) PROVE P'
  <2>1. /\ Goto(t, "wait") /\ listening' = listening /\ woken' = woken
        /\ CandOf(s)' = CandOf(s) /\ dropNotify' = dropNotify /\ pc[t] = "check"
        /\ CanReserve(CandOf(s))' <=> CanReserve(CandOf(s))
        /\ ~CanReserve(CandOf(t))
    BY <1>9, CapacityStays DEF CheckWait, tracker, drops
  <2> QED
    BY <1>0, <2>1 DEF Goto, LoadTypeOK, Notifying
<1>10. ASSUME NEW t \in Task, Wake(t) PROVE P'
  <2>1. /\ Goto(t, "check") /\ listening' = listening \cup {t} /\ woken' = woken \ {t}
        /\ CandOf(s)' = CandOf(s) /\ dropNotify' = dropNotify /\ pc[t] = "wait"
        /\ CanReserve(CandOf(s))' <=> CanReserve(CandOf(s))
    BY <1>10, CapacityStays DEF Wake, tracker, drops
  <2> QED
    BY <1>0, <2>1 DEF Goto, LoadTypeOK, Notifying
<1>11. ASSUME NEW t \in Task, WaitTimeout(t) PROVE P'
  BY <1>11, <1>a, CapacityStays DEF WaitTimeout, tracker
<1>12. ASSUME NEW t \in Task, Unwait(t) PROVE P'
  BY <1>12, <1>a, CapacityStays DEF Unwait, drops
<1>13. ASSUME NEW t \in Task, UnwaitNotify(t) PROVE P'
  <2>1. \A u \in Task \ {t} : pc'[u] = pc[u]
    BY <1>13 DEF UnwaitNotify, Goto, LoadTypeOK
  <2>2. \A u \in {t} : pc'[u] \notin {"check", "wait"}
    BY <1>13 DEF UnwaitNotify, Goto, LoadTypeOK
  <2>3. (woken \cup listening) \ {t} \subseteq woken'
    BY <1>13 DEF UnwaitNotify
  <2> QED
    BY <2>1, <2>2, <2>3, <1>b
<1>14. ASSUME NEW t \in Task, RecordQueueWait(t) PROVE P'
  BY <1>14, <1>a, CapacityStays DEF RecordQueueWait, tracker, drops
<1>15. ASSUME NEW t \in Task, Invoked(t) PROVE P'
  BY <1>15, <1>a, CapacityStays DEF Invoked, tracker, drops
<1>16. ASSUME NEW t \in Task, Release(t) PROVE P'
  <2>1. pc' = [pc EXCEPT ![t] = "released"] /\ UNCHANGED <<listening, woken>>
    BY <1>16 DEF Release, Goto
  <2>2. Notifying'
    BY <2>1 DEF Notifying, LoadTypeOK
  <2> QED
    BY <1>0, <2>1, <2>2 DEF LoadTypeOK
<1>17. ASSUME NEW t \in Task, ReleaseNotify(t) PROVE P'
  <2>1. \A u \in Task \ {t} : pc'[u] = pc[u]
    BY <1>17 DEF ReleaseNotify, Goto, LoadTypeOK
  <2>2. \A u \in {t} : pc'[u] \notin {"check", "wait"}
    BY <1>17 DEF ReleaseNotify, Goto, LoadTypeOK
  <2>3. (woken \cup listening) \ {t} \subseteq woken'
    BY <1>17 DEF ReleaseNotify, NotifyWaiters
  <2> QED
    BY <2>1, <2>2, <2>3, <1>b
<1>18. ASSUME NEW t \in Task, Abort(t) PROVE P'
  <2>1. pc[t] \notin Syncs
    BY <1>18, ConstantsOK DEF Abort
  <2> QED
    BY <1>18, <1>a, <2>1, CapacityStays DEF Abort, tracker
<1>19. ASSUME NEW c \in Cand, DropReleaseLoad(c) PROVE P'
  BY <1>0, <1>19 DEF DropReleaseLoad, Notifying
<1>20. ASSUME NEW c \in Cand, DropReleaseWaiting(c) PROVE P'
  BY <1>0, <1>20 DEF DropReleaseWaiting, Notifying
<1>21. CASE DropNotify
  BY <1>21, <1>b DEF DropNotify, NotifyWaiters
<1>22. CASE UNCHANGED loadVars
  BY <1>0, <1>22, CapacityStays DEF loadVars, tracker, drops, Notifying
<1> QED
  BY <1>1, <1>2, <1>3, <1>4, <1>5, <1>6, <1>7, <1>8, <1>9, <1>10, <1>11, <1>12,
     <1>13, <1>14, <1>15, <1>16, <1>17, <1>18, <1>19, <1>20, <1>21, <1>22
     DEF LoadNext, Step, Spawned

(* A request queued by reserve_candidate_load_with_backpressure never sleeps
   while it could be admitted, unless a release is about to notify it: enabling
   the future before the check closes the gap before the await. *)
THEOREM QueueWakes == LoadSpec => []NoLostWakeup
<1>1. QueueInv => NoLostWakeup
  BY DEF QueueInv
<1> QED
  BY <1>1, TypeCorrect, InitQueue, NextQueue, PTL DEF LoadSpec
-----------------------------------------------------------------------------
(* How the holders of a pool's permits change when one task moves. *)
LEMMA HoldersMove ==
  ASSUME LoadTypeOK, NEW t \in Task, NEW label \in PCs, Goto(t, label), req' = req,
         NEW k \in Class
  PROVE  /\ IsFiniteSet(PermitHolders(k)) /\ Cardinality(PermitHolders(k)) \in Nat
         /\ ClassOf(t) # k \/ (pc[t] \in HasPermit <=> label \in HasPermit)
              => Cardinality(PermitHolders(k)') = Cardinality(PermitHolders(k))
         /\ ClassOf(t) = k /\ pc[t] \notin HasPermit /\ label \in HasPermit
              => Cardinality(PermitHolders(k)') = Cardinality(PermitHolders(k)) + 1
         /\ ClassOf(t) = k /\ pc[t] \in HasPermit /\ label \notin HasPermit
              => Cardinality(PermitHolders(k)') = Cardinality(PermitHolders(k)) - 1
<1> DEFINE H == PermitHolders(k)
<1>1. IsFiniteSet(H) /\ Cardinality(H) \in Nat
  BY ConstantsOK, FS_Subset, FS_CardinalityType DEF PermitHolders
<1>2. ASSUME ClassOf(t) # k \/ (pc[t] \in HasPermit <=> label \in HasPermit)
      PROVE  H' = H
  BY <1>2 DEF PermitHolders, Goto, LoadTypeOK
<1>3. ASSUME ClassOf(t) = k, pc[t] \notin HasPermit, label \in HasPermit
      PROVE  Cardinality(H') = Cardinality(H) + 1
  <2>1. H' = H \cup {t} /\ t \notin H
    BY <1>3 DEF PermitHolders, Goto, LoadTypeOK
  <2> HIDE DEF H
  <2> QED
    BY <2>1, <1>1, FS_AddElement
<1>4. ASSUME ClassOf(t) = k, pc[t] \in HasPermit, label \notin HasPermit
      PROVE  Cardinality(H') = Cardinality(H) - 1
  <2>1. H' = H \ {t} /\ t \in H
    BY <1>4 DEF PermitHolders, Goto, LoadTypeOK
  <2> HIDE DEF H
  <2> QED
    BY <2>1, <1>1, FS_RemoveElement
<1> QED
  BY <1>1, <1>2, <1>3, <1>4

LEMMA InitPermits == LoadInit => PermitsConserved
<1> SUFFICES ASSUME LoadInit, NEW k \in Class
             PROVE  permits[k] + Cardinality(PermitHolders(k)) = poolSize[k]
  BY DEF PermitsConserved
<1>1. PermitHolders(k) = {}
  BY DEF PermitHolders, HasPermit, LoadInit
<1> QED
  BY <1>1, FS_EmptySet, ConstantsOK DEF LoadInit

LEMMA NextPermits ==
  LoadTypeOK /\ PermitsConserved /\ [LoadNext]_loadVars => PermitsConserved'
<1> SUFFICES ASSUME LoadTypeOK, PermitsConserved, [LoadNext]_loadVars, NEW k \in Class
             PROVE  permits'[k] + Cardinality(PermitHolders(k)') = poolSize[k]
  BY DEF PermitsConserved
<1> DEFINE P == permits[k] + Cardinality(PermitHolders(k)) = poolSize[k]
<1>0. P /\ permits[k] \in Nat /\ poolSize[k] \in Nat
  BY ConstantsOK DEF PermitsConserved, LoadTypeOK
<1>a. ASSUME NEW t \in Task, NEW label \in PCs, Goto(t, label), req' = req,
             pc[t] \in HasPermit <=> label \in HasPermit, permits' = permits
      PROVE  P'
  BY <1>0, <1>a, HoldersMove
<1>b. ASSUME NEW t \in Task, NEW label \in PCs, Goto(t, label), req' = req,
             pc[t] \in HasPermit, label \notin HasPermit, ReturnPermit(t)
      PROVE  P'
  <2>1. permits'[k] = IF ClassOf(t) = k THEN permits[k] + 1 ELSE permits[k]
    BY <1>b DEF ReturnPermit, LoadTypeOK
  <2> QED
    BY <1>0, <1>b, <2>1, HoldersMove
<1>c. ASSUME pc' = pc, req' = req, permits' = permits PROVE P'
  <2>1. PermitHolders(k)' = PermitHolders(k)
    BY <1>c DEF PermitHolders
  <2> QED
    BY <1>0, <1>c, <2>1
<1>1. ASSUME NEW t \in Task, Start(t) PROVE P'
  BY <1>1, <1>a DEF Start, HasPermit
<1>2. ASSUME NEW t \in Task, SkipConstrained(t) PROVE P'
  BY <1>2, <1>a DEF SkipConstrained, HasPermit
<1>3. ASSUME NEW t \in Task, AcquirePermit(t) PROVE P'
  <2>1. PICK label \in {"register", "reserve"} : Goto(t, label)
    BY <1>3 DEF AcquirePermit
  <2>2. /\ label \in HasPermit /\ label \in PCs /\ pc[t] \notin HasPermit /\ req' = req
        /\ permits'[k] = IF ClassOf(t) = k THEN permits[k] - 1 ELSE permits[k]
    BY <1>3, <2>1 DEF AcquirePermit, HasPermit, LoadTypeOK
  <2> QED
    BY <1>0, <2>1, <2>2, HoldersMove
<1>4. ASSUME NEW t \in Task, PermitTimeout(t) PROVE P'
  BY <1>4, <1>a DEF PermitTimeout, HasPermit
<1>5. ASSUME NEW t \in Task, TryReserve(t) PROVE P'
  BY <1>5, <1>a DEF TryReserve, HasPermit
<1>6. ASSUME NEW t \in Task, CapacityRace(t) PROVE P'
  BY <1>6, <1>b DEF CapacityRace, HasPermit
<1>7. ASSUME NEW t \in Task, Register(t) PROVE P'
  BY <1>7, <1>a DEF Register, HasPermit
<1>8. ASSUME NEW t \in Task, CheckReserve(t) PROVE P'
  BY <1>8, <1>a DEF CheckReserve, HasPermit
<1>9. ASSUME NEW t \in Task, CheckWait(t) PROVE P'
  BY <1>9, <1>a DEF CheckWait, HasPermit
<1>10. ASSUME NEW t \in Task, Wake(t) PROVE P'
  BY <1>10, <1>a DEF Wake, HasPermit
<1>11. ASSUME NEW t \in Task, WaitTimeout(t) PROVE P'
  BY <1>11, <1>b DEF WaitTimeout, HasPermit
<1>12. ASSUME NEW t \in Task, Unwait(t) PROVE P'
  BY <1>12, <1>a DEF Unwait, HasPermit
<1>13. ASSUME NEW t \in Task, UnwaitNotify(t) PROVE P'
  BY <1>13, <1>a DEF UnwaitNotify, HasPermit
<1>14. ASSUME NEW t \in Task, RecordQueueWait(t) PROVE P'
  BY <1>14, <1>a DEF RecordQueueWait, HasPermit
<1>15. ASSUME NEW t \in Task, Invoked(t) PROVE P'
  BY <1>15, <1>a DEF Invoked, HasPermit
<1>16. ASSUME NEW t \in Task, Release(t) PROVE P'
  BY <1>16, <1>a DEF Release, HasPermit
<1>17. ASSUME NEW t \in Task, ReleaseNotify(t) PROVE P'
  BY <1>17, <1>b DEF ReleaseNotify, HasPermit
<1>18. ASSUME NEW t \in Task, Abort(t) PROVE P'
  <2>1. Goto(t, "aborted") /\ req' = req /\ "aborted" \notin HasPermit /\ pc[t] \in AwaitPoints
    BY <1>18, ConstantsOK DEF Abort, HasPermit
  <2>2. CASE pc[t] = "permit"
    BY <1>18, <1>a, <2>1, <2>2 DEF Abort, HasPermit
  <2>3. CASE pc[t] # "permit"
    BY <1>18, <1>b, <2>1, <2>3 DEF Abort, HasPermit
  <2> QED
    BY <2>2, <2>3
<1>19. ASSUME NEW c \in Cand, DropReleaseLoad(c) PROVE P'
  BY <1>19, <1>c DEF DropReleaseLoad
<1>20. ASSUME NEW c \in Cand, DropReleaseWaiting(c) PROVE P'
  BY <1>20, <1>c DEF DropReleaseWaiting
<1>21. CASE DropNotify
  BY <1>21, <1>c DEF DropNotify
<1>22. CASE UNCHANGED loadVars
  BY <1>22, <1>c DEF loadVars
<1> QED
  BY <1>1, <1>2, <1>3, <1>4, <1>5, <1>6, <1>7, <1>8, <1>9, <1>10, <1>11, <1>12,
     <1>13, <1>14, <1>15, <1>16, <1>17, <1>18, <1>19, <1>20, <1>21, <1>22
     DEF LoadNext, Step, Spawned

(* The OwnedSemaphorePermit of an invocation comes back on every way out:
   answer, error, timeout or a future dropped at any await. *)
THEOREM PoolsConserved == LoadSpec => []PermitsConserved
BY TypeCorrect, InitPermits, NextPermits, PTL DEF LoadSpec
-----------------------------------------------------------------------------
(* The units of a set of users grow and shrink by those of one of them. *)
LEMMA UnitsAdd ==
  ASSUME NEW S, NEW n, IsFiniteSet(Units(S, n)), NEW x, x \notin S, n[x] \in Nat
  PROVE  /\ IsFiniteSet(Units(S \cup {x}, n))
         /\ Cardinality(Units(S \cup {x}, n)) = Cardinality(Units(S, n)) + n[x]
<1> DEFINE U == Units(S, n)
           V == {x} \X (1..n[x])
<1>1. Units(S \cup {x}, n) = U \cup V
  BY DEF Units
<1>2. U \cap V = {}
  BY DEF Units
<1>3. IsFiniteSet(V) /\ Cardinality(V) = n[x]
  <2>1. IsFiniteSet(1..n[x]) /\ Cardinality(1..n[x]) = n[x]
    <3> DEFINE k == n[x]
    <3>1. k \in Nat /\ k \in Int /\ 1 \in Int
      OBVIOUS
    <3> HIDE DEF k
    <3>2. IsFiniteSet(1..k) /\ Cardinality(1..k) = IF 1 > k THEN 0 ELSE k - 1 + 1
      BY <3>1, FS_Interval
    <3>3. IsFiniteSet(1..k) /\ Cardinality(1..k) = k
      BY <3>1, <3>2
    <3> QED
      BY <3>3 DEF k
  <2>2. IsFiniteSet({x}) /\ Cardinality({x}) = 1
    BY FS_Singleton
  <2>3. IsFiniteSet(V) /\ Cardinality(V) = Cardinality({x}) * Cardinality(1..n[x])
    BY <2>1, <2>2, FS_Product
  <2> QED
    BY <2>1, <2>2, <2>3
<1>4. Cardinality(U) \in Nat
  BY FS_CardinalityType
<1> HIDE DEF U, V
<1>5. IsFiniteSet(U) /\ IsFiniteSet(U \cup V)
      /\ Cardinality(U \cup V) = Cardinality(U) + Cardinality(V) - Cardinality(U \cap V)
  BY <1>3, FS_Union DEF U
<1>6. Cardinality(U \cap V) = 0
  BY <1>2, FS_EmptySet
<1>7. Cardinality(U \cup V) = Cardinality(U) + n[x]
  BY <1>3, <1>4, <1>5, <1>6
<1> QED
  BY <1>1, <1>5, <1>7 DEF U

LEMMA UnitsRemove ==
  ASSUME NEW S, NEW n, IsFiniteSet(Units(S, n)), NEW x \in S, n[x] \in Nat
  PROVE  /\ IsFiniteSet(Units(S \ {x}, n))
         /\ Cardinality(Units(S \ {x}, n)) = Cardinality(Units(S, n)) - n[x]
<1>1. Units(S \ {x}, n) \subseteq Units(S, n)
  BY DEF Units
<1>2. IsFiniteSet(Units(S \ {x}, n)) /\ Cardinality(Units(S \ {x}, n)) \in Nat
  BY <1>1, FS_Subset, FS_CardinalityType
<1>3. (S \ {x}) \cup {x} = S
  OBVIOUS
<1>4. Cardinality(Units(S, n)) = Cardinality(Units(S \ {x}, n)) + n[x]
  <2>1. x \notin S \ {x}
    OBVIOUS
  <2>2. Cardinality(Units((S \ {x}) \cup {x}, n)) = Cardinality(Units(S \ {x}, n)) + n[x]
    BY <1>2, <2>1, UnitsAdd
  <2> QED
    BY <1>3, <2>2
<1> QED
  BY <1>2, <1>4

(* The releases spawned on a host and not yet run, numbered by candidate. *)
Pending(h) == {p \in Cand \X Nat : hostGroup[p[1]] = h /\ p[2] \in 1..dropLoad[p[1]]}
TaskCost(r)    == [t \in Task |-> cost[CandOf(t)][r]]
PendingCost(r) == [p \in Cand \X Nat |-> cost[p[1]][r]]

(* What the tracker counts on a host covers what runs there and what is still
   to be released, in requests and in each resource, and no admission took it
   past the largest budget. *)
Largest(c, h, r) ==
  /\ hostGroup[c] = h
  /\ \A d \in Cand : hostGroup[d] = h => budget[d][r] > 0 /\ budget[d][r] <= budget[c][r]

HostPart(h, r) ==
  /\ IsFiniteSet(Pending(h))
  /\ Cardinality(Running(h)) + Cardinality(Pending(h)) <= hostReq[h]
  /\ IsFiniteSet(Units(Running(h), TaskCost(r)))
  /\ IsFiniteSet(Units(Pending(h), PendingCost(r)))
  /\ Cardinality(Units(Running(h), TaskCost(r)))
       + Cardinality(Units(Pending(h), PendingCost(r))) <= hostUse[h][r]
  /\ \A c \in Cand : Largest(c, h, r) => hostUse[h][r] <= budget[c][r]

HostInv == \A h \in Host, r \in Res : HostPart(h, r)

LEMMA InitHost == LoadInit => HostInv
<1> SUFFICES ASSUME LoadInit, NEW h \in Host, NEW r \in Res PROVE HostPart(h, r)
  BY DEF HostInv
<1>1. Running(h) = {}
  BY DEF LoadInit, Running, HasReservation
<1>2. Pending(h) = {}
  BY DEF LoadInit, Pending
<1>3. Units({}, TaskCost(r)) = {} /\ Units({}, PendingCost(r)) = {}
  BY DEF Units
<1>4. hostReq[h] = 0 /\ hostUse[h][r] = 0
  BY DEF LoadInit
<1>5. \A c \in Cand : budget[c][r] \in Nat
  BY ConstantsOK
<1>6. IsFiniteSet({}) /\ Cardinality({}) = 0
  BY FS_EmptySet
<1>7. \A c \in Cand : Largest(c, h, r) => hostUse[h][r] <= budget[c][r]
  BY <1>4, <1>5
<1> QED
  BY <1>1, <1>2, <1>3, <1>4, <1>6, <1>7 DEF HostPart

(* What a task that moves brings to its host, or takes from it. *)
LEMMA RunningMove ==
  ASSUME LoadTypeOK, NEW t \in Task, NEW label \in PCs, Goto(t, label), req' = req,
         NEW h \in Host, NEW r \in Res, IsFiniteSet(Units(Running(h), TaskCost(r)))
  PROVE  LET R == Cardinality(Running(h))
             U == Cardinality(Units(Running(h), TaskCost(r)))
             k == cost[CandOf(t)][r]
         IN  /\ R \in Nat /\ U \in Nat /\ k \in Nat
             /\ IsFiniteSet(Units(Running(h), TaskCost(r)))'
             /\ hostGroup[CandOf(t)] # h \/ (pc[t] \in HasReservation <=> label \in HasReservation)
                  => R' = R /\ U' = U
             /\ hostGroup[CandOf(t)] = h /\ pc[t] \notin HasReservation /\ label \in HasReservation
                  => R' = R + 1 /\ U' = U + k
             /\ hostGroup[CandOf(t)] = h /\ pc[t] \in HasReservation /\ label \notin HasReservation
                  => R' = R - 1 /\ U' = U - k
<1> DEFINE S == Running(h)
           n == TaskCost(r)
           k == cost[CandOf(t)][r]
<1>1. IsFiniteSet(S) /\ Cardinality(S) \in Nat
  BY ConstantsOK, FS_Subset, FS_CardinalityType DEF Running
<1>2. n' = n /\ n[t] = k /\ k \in Nat /\ n[t] \in Nat
  <2>1. k \in Nat
    BY ConstantsOK DEF LoadTypeOK
  <2> QED
    BY <2>1 DEF TaskCost
<1>3. Cardinality(Units(S, n)) \in Nat
  BY FS_CardinalityType
<1>4. Units(S, n)' = Units(S', n)
  BY <1>2 DEF Units
<1>5. ASSUME hostGroup[CandOf(t)] # h \/ (pc[t] \in HasReservation <=> label \in HasReservation)
      PROVE  S' = S
  BY <1>5 DEF Running, Goto, LoadTypeOK
<1>6. ASSUME hostGroup[CandOf(t)] = h, pc[t] \notin HasReservation, label \in HasReservation
      PROVE  S' = S \cup {t} /\ t \notin S
  BY <1>6 DEF Running, Goto, LoadTypeOK
<1>7. ASSUME hostGroup[CandOf(t)] = h, pc[t] \in HasReservation, label \notin HasReservation
      PROVE  S' = S \ {t} /\ t \in S
  BY <1>7 DEF Running, Goto, LoadTypeOK
<1>8. IsFiniteSet(Units(S, n))
  OBVIOUS
<1> HIDE DEF S, n, k
<1>9. CASE hostGroup[CandOf(t)] # h \/ (pc[t] \in HasReservation <=> label \in HasReservation)
  BY <1>1, <1>2, <1>3, <1>4, <1>5, <1>8, <1>9 DEF S, n, k
<1>10. CASE hostGroup[CandOf(t)] = h /\ pc[t] \notin HasReservation /\ label \in HasReservation
  <2>1. S' = S \cup {t} /\ t \notin S
    BY <1>6, <1>10
  <2>2. /\ IsFiniteSet(Units(S \cup {t}, n))
        /\ Cardinality(Units(S \cup {t}, n)) = Cardinality(Units(S, n)) + n[t]
    BY <1>2, <1>8, <2>1, UnitsAdd
  <2>3. Cardinality(S \cup {t}) = Cardinality(S) + 1
    BY <1>1, <2>1, FS_AddElement
  <2> QED
    BY <1>1, <1>2, <1>3, <1>4, <1>10, <2>1, <2>2, <2>3 DEF S, n, k
<1>11. CASE hostGroup[CandOf(t)] = h /\ pc[t] \in HasReservation /\ label \notin HasReservation
  <2>1. S' = S \ {t} /\ t \in S
    BY <1>7, <1>11
  <2>2. /\ IsFiniteSet(Units(S \ {t}, n))
        /\ Cardinality(Units(S \ {t}, n)) = Cardinality(Units(S, n)) - n[t]
    BY <1>2, <1>8, <2>1, UnitsRemove
  <2>3. Cardinality(S \ {t}) = Cardinality(S) - 1
    BY <1>1, <2>1, FS_RemoveElement
  <2> QED
    BY <1>1, <1>2, <1>3, <1>4, <1>11, <2>1, <2>2, <2>3 DEF S, n, k
<1> QED
  BY <1>9, <1>10, <1>11

(* The same for a release that is spawned, or that runs. *)
LEMMA PendingMove ==
  ASSUME LoadTypeOK, NEW d \in Cand, NEW h \in Host, NEW r \in Res,
         dropLoad' \in [Cand -> Nat], \A c \in Cand \ {d} : dropLoad'[c] = dropLoad[c],
         IsFiniteSet(Pending(h)), IsFiniteSet(Units(Pending(h), PendingCost(r)))
  PROVE  LET G == Cardinality(Pending(h))
             V == Cardinality(Units(Pending(h), PendingCost(r)))
         IN  /\ G \in Nat /\ V \in Nat /\ cost[d][r] \in Nat
             /\ hostGroup[d] # h \/ dropLoad'[d] = dropLoad[d]
                  => /\ G' = G /\ V' = V
                     /\ IsFiniteSet(Pending(h))' /\ IsFiniteSet(Units(Pending(h), PendingCost(r)))'
             /\ hostGroup[d] = h /\ dropLoad'[d] = dropLoad[d] + 1
                  => /\ G' = G + 1 /\ V' = V + cost[d][r]
                     /\ IsFiniteSet(Pending(h))' /\ IsFiniteSet(Units(Pending(h), PendingCost(r)))'
             /\ hostGroup[d] = h /\ dropLoad[d] = dropLoad'[d] + 1
                  => /\ G' = G - 1 /\ V' = V - cost[d][r]
                     /\ IsFiniteSet(Pending(h))' /\ IsFiniteSet(Units(Pending(h), PendingCost(r)))'
<1> DEFINE S == Pending(h)
           n == PendingCost(r)
           k == cost[d][r]
           up == <<d, dropLoad[d] + 1>>
           down == <<d, dropLoad[d]>>
<1>1. Cardinality(S) \in Nat /\ Cardinality(Units(S, n)) \in Nat /\ k \in Nat
  BY ConstantsOK, FS_CardinalityType
<1>2. n[up] = k /\ n[down] = k /\ dropLoad[d] \in Nat /\ dropLoad'[d] \in Nat
  BY DEF PendingCost, LoadTypeOK
<1>3. Units(S, n)' = Units(S', n)
  BY DEF Units, PendingCost
<1>4. \A c \in Cand : dropLoad[c] \in Nat /\ dropLoad'[c] \in Nat
  BY DEF LoadTypeOK
<1>5. ASSUME hostGroup[d] # h \/ dropLoad'[d] = dropLoad[d]
      PROVE  S' = S
  BY <1>4, <1>5 DEF Pending
<1>6. ASSUME hostGroup[d] = h, dropLoad'[d] = dropLoad[d] + 1
      PROVE  S' = S \cup {up} /\ up \notin S
  <2>1. up \notin S
    BY <1>4 DEF Pending
  <2>2. ASSUME NEW c \in Cand, NEW i \in Nat
        PROVE  <<c, i>> \in S' <=> <<c, i>> \in S \cup {up}
    BY <1>4, <1>6 DEF Pending
  <2>3. S' \subseteq Cand \X Nat /\ S \cup {up} \subseteq Cand \X Nat
    BY <1>2 DEF Pending
  <2> HIDE DEF S, up
  <2> QED
    BY <2>1, <2>2, <2>3
<1>7. ASSUME hostGroup[d] = h, dropLoad[d] = dropLoad'[d] + 1
      PROVE  S' = S \ {down} /\ down \in S
  <2>1. down \in S
    BY <1>2, <1>4, <1>7 DEF Pending
  <2>2. ASSUME NEW c \in Cand, NEW i \in Nat
        PROVE  <<c, i>> \in S' <=> <<c, i>> \in S \ {down}
    BY <1>4, <1>7 DEF Pending
  <2>3. S' \subseteq Cand \X Nat /\ S \subseteq Cand \X Nat
    BY DEF Pending
  <2> HIDE DEF S, down
  <2> QED
    BY <2>1, <2>2, <2>3
<1>8. IsFiniteSet(S) /\ IsFiniteSet(Units(S, n))
  OBVIOUS
<1> HIDE DEF S, n, k, up, down
<1>9. ASSUME hostGroup[d] # h \/ dropLoad'[d] = dropLoad[d]
      PROVE  /\ Cardinality(S') = Cardinality(S)
             /\ Cardinality(Units(S', n)) = Cardinality(Units(S, n))
             /\ IsFiniteSet(S') /\ IsFiniteSet(Units(S', n))
  BY <1>5, <1>8, <1>9
<1>10. ASSUME hostGroup[d] = h, dropLoad'[d] = dropLoad[d] + 1
       PROVE  /\ Cardinality(S') = Cardinality(S) + 1
              /\ Cardinality(Units(S', n)) = Cardinality(Units(S, n)) + k
              /\ IsFiniteSet(S') /\ IsFiniteSet(Units(S', n))
  BY <1>1, <1>2, <1>6, <1>8, <1>10, UnitsAdd, FS_AddElement
<1>11. ASSUME hostGroup[d] = h, dropLoad[d] = dropLoad'[d] + 1
       PROVE  /\ Cardinality(S') = Cardinality(S) - 1
              /\ Cardinality(Units(S', n)) = Cardinality(Units(S, n)) - k
              /\ IsFiniteSet(S') /\ IsFiniteSet(Units(S', n))
  BY <1>1, <1>2, <1>7, <1>8, <1>11, UnitsRemove, FS_RemoveElement
<1> QED
  BY <1>1, <1>3, <1>9, <1>10, <1>11 DEF S, n, k

(* A reservation admitted within its own budget is within the largest. *)
LEMMA ReserveHost ==
  ASSUME LoadTypeOK, NEW c \in Cand, Reserve(c), NEW h \in Host, NEW r \in Res
  PROVE  /\ hostReq[h] \in Nat /\ hostUse[h][r] \in Nat /\ cost[c][r] \in Nat
         /\ hostGroup[c] # h => hostReq'[h] = hostReq[h] /\ hostUse'[h][r] = hostUse[h][r]
         /\ hostGroup[c] = h =>
              /\ hostReq'[h] = hostReq[h] + 1 /\ hostUse'[h][r] = hostUse[h][r] + cost[c][r]
              /\ \A d \in Cand : Largest(d, h, r) => hostUse'[h][r] <= budget[d][r]
<1>1. hostReq[h] \in Nat /\ hostUse[h] \in [Res -> Nat] /\ cost[c][r] \in Nat
  BY ConstantsOK DEF LoadTypeOK
<1>2. CASE hostGroup[c] # h
  BY <1>1, <1>2 DEF Reserve, LoadTypeOK
<1>3. CASE hostGroup[c] = h
  <2>1. h # NoHost
    BY ConstantsOK
  <2>2. hostReq' = [hostReq EXCEPT ![h] = @ + 1]
        /\ hostUse' = [hostUse EXCEPT ![h] = [q \in Res |-> @[q] + cost[c][q]]]
    BY <1>3, <2>1 DEF Reserve
  <2>3. hostReq'[h] = hostReq[h] + 1 /\ hostUse'[h][r] = hostUse[h][r] + cost[c][r]
    BY <2>2 DEF LoadTypeOK
  <2>4. ASSUME NEW d \in Cand, Largest(d, h, r) PROVE hostUse'[h][r] <= budget[d][r]
    <3>1. budget[c][r] > 0 /\ budget[c][r] <= budget[d][r] /\ budget[c][r] \in Nat /\ budget[d][r] \in Nat
      BY <1>3, <2>4, ConstantsOK DEF Largest
    <3>2. hostUse[h][r] + cost[c][r] <= budget[c][r]
      BY <1>3, <2>1, <3>1 DEF Reserve, CanReserve, UnderBudget
    <3> QED
      BY <1>1, <2>3, <3>1, <3>2
  <2> QED
    BY <1>1, <1>3, <2>3, <2>4
<1> QED
  BY <1>2, <1>3

(* A release takes from its host what the request had reserved there, and
   everything with the last one. *)
LEMMA ReleaseHost ==
  ASSUME LoadTypeOK, NEW c \in Cand, ReleaseLoad(c), NEW h \in Host, NEW r \in Res
  PROVE  /\ hostReq[h] \in Nat /\ hostUse[h][r] \in Nat /\ cost[c][r] \in Nat
         /\ hostGroup[c] # h => hostReq'[h] = hostReq[h] /\ hostUse'[h][r] = hostUse[h][r]
         /\ hostGroup[c] = h /\ hostReq[h] >= 1 =>
              /\ hostReq'[h] = hostReq[h] - 1
              /\ hostUse'[h][r] = IF hostReq[h] = 1 THEN 0 ELSE Minus(hostUse[h][r], cost[c][r])
<1>1. hostReq[h] \in Nat /\ hostUse[h] \in [Res -> Nat] /\ cost[c][r] \in Nat
  BY ConstantsOK DEF LoadTypeOK
<1>2. CASE hostGroup[c] # h
  BY <1>1, <1>2 DEF ReleaseLoad, LoadTypeOK
<1>3. CASE hostGroup[c] = h /\ hostReq[h] >= 1
  <2>1. h # NoHost
    BY ConstantsOK
  <2>2. hostReq' = [hostReq EXCEPT ![h] = Minus(@, 1)]
        /\ hostUse' = [hostUse EXCEPT ![h] = [q \in Res |->
              IF hostReq[h] = 1 THEN 0 ELSE Minus(@[q], cost[c][q])]]
    BY <1>1, <1>3, <2>1 DEF ReleaseLoad
  <2> QED
    BY <1>1, <1>3, <2>2 DEF LoadTypeOK, Minus
<1> QED
  BY <1>1, <1>2, <1>3

(* A sum that loses one was not zero. *)
LEMMA AtLeastOne ==
  ASSUME NEW a \in Nat, NEW b \in Nat, NEW i \in Nat, NEW j \in Nat, NEW n \in Nat,
         a + b = i + j - 1, i + j <= n
  PROVE  n >= 1
OBVIOUS

(* One that was at most one becomes zero. *)
LEMMA NoneLeft ==
  ASSUME NEW a \in Nat, NEW b \in Nat, NEW i \in Nat, NEW j \in Nat,
         a + b = i + j - 1, i + j <= 1
  PROVE  a = 0 /\ b = 0
OBVIOUS

(* Every action leaves each host covered: one case per action. *)
LEMMA NextHost == LoadTypeOK /\ LoadTypeOK' /\ HostInv /\ [LoadNext]_loadVars => HostInv'
<1> SUFFICES ASSUME LoadTypeOK, LoadTypeOK', HostInv, [LoadNext]_loadVars,
                    NEW h \in Host, NEW r \in Res
             PROVE  HostPart(h, r)'
  BY DEF HostInv
<1> DEFINE R == Cardinality(Running(h))
           G == Cardinality(Pending(h))
           U == Cardinality(Units(Running(h), TaskCost(r)))
           V == Cardinality(Units(Pending(h), PendingCost(r)))
           Fin == /\ IsFiniteSet(Pending(h)) /\ IsFiniteSet(Units(Running(h), TaskCost(r)))
                  /\ IsFiniteSet(Units(Pending(h), PendingCost(r)))
           Most == \A c \in Cand : Largest(c, h, r) => hostUse[h][r] <= budget[c][r]
<1>0. /\ Fin /\ Most /\ R + G <= hostReq[h] /\ U + V <= hostUse[h][r]
      /\ hostReq[h] \in Nat /\ hostUse[h][r] \in Nat /\ R \in Nat /\ G \in Nat /\ U \in Nat /\ V \in Nat
      /\ \A c \in Cand : budget[c][r] \in Nat
  <2>1. HostPart(h, r)
    BY DEF HostInv
  <2>2. R \in Nat
    BY ConstantsOK, FS_Subset, FS_CardinalityType DEF Running
  <2>3. hostReq[h] \in Nat /\ hostUse[h][r] \in Nat /\ \A c \in Cand : budget[c][r] \in Nat
    BY ConstantsOK DEF LoadTypeOK
  <2>4. G \in Nat /\ U \in Nat /\ V \in Nat
    BY <2>1, FS_CardinalityType DEF HostPart
  <2> QED
    BY <2>1, <2>2, <2>3, <2>4 DEF HostPart
<1>q. ASSUME Fin', Most', R' + G' <= hostReq'[h], U' + V' <= hostUse'[h][r]
      PROVE  HostPart(h, r)'
  BY <1>q DEF HostPart
\* What a step that leaves dropLoad alone does to the pending releases.
<1>p. ASSUME dropLoad' = dropLoad
      PROVE  /\ G' = G /\ V' = V
             /\ IsFiniteSet(Pending(h))' /\ IsFiniteSet(Units(Pending(h), PendingCost(r)))'
  <2>1. Pending(h)' = Pending(h) /\ Units(Pending(h), PendingCost(r))' = Units(Pending(h), PendingCost(r))
    BY <1>p DEF Pending, Units, PendingCost
  <2> QED
    BY <1>0, <2>1
<1>m. Most /\ hostUse'[h][r] <= hostUse[h][r] => Most'
  <2>1. hostUse'[h][r] \in Nat /\ \A c \in Cand : Largest(c, h, r)' <=> Largest(c, h, r)
    BY DEF LoadTypeOK, Largest
  <2> QED
    BY <1>0, <2>1
<1>a. ASSUME NEW t \in Task, NEW label \in PCs, Goto(t, label), req' = req,
             pc[t] \in HasReservation \/ label \notin HasReservation,
             hostReq' = hostReq, hostUse' = hostUse, dropLoad' = dropLoad
      PROVE  HostPart(h, r)'
  <2>1. R' <= R /\ U' <= U /\ R' \in Int /\ U' \in Int /\ IsFiniteSet(Units(Running(h), TaskCost(r)))'
    BY <1>0, <1>a, RunningMove
  <2> HIDE DEF R, G, U, V
  <2> QED
    BY <1>0, <1>a, <1>p, <1>m, <1>q, <2>1
<1>b. ASSUME NEW t \in Task, NEW label \in PCs, Goto(t, label), req' = req,
             pc[t] \notin HasReservation, label \in HasReservation,
             Reserve(CandOf(t)), dropLoad' = dropLoad
      PROVE  HostPart(h, r)'
  <2>0. CandOf(t) \in Cand
    BY DEF LoadTypeOK
  <2>1. IsFiniteSet(Units(Running(h), TaskCost(r)))'
    BY <1>0, <1>b, RunningMove
  <2>2. CASE hostGroup[CandOf(t)] = h
    <3>1. R' = R + 1 /\ U' = U + cost[CandOf(t)][r] /\ cost[CandOf(t)][r] \in Nat
      BY <1>0, <1>b, <2>2, RunningMove
    <3>2. /\ hostReq'[h] = hostReq[h] + 1 /\ hostUse'[h][r] = hostUse[h][r] + cost[CandOf(t)][r]
          /\ \A d \in Cand : Largest(d, h, r) => hostUse'[h][r] <= budget[d][r]
      BY <1>b, <2>0, <2>2, ReserveHost
    <3>3. Most'
      BY <3>2 DEF Largest
    <3> HIDE DEF R, G, U, V
    <3> QED
      BY <1>0, <1>b, <1>p, <1>q, <2>1, <3>1, <3>2, <3>3, SMTT(30)
  <2>3. CASE hostGroup[CandOf(t)] # h
    <3>1. R' = R /\ U' = U
      BY <1>0, <1>b, <2>3, RunningMove
    <3>2. hostReq'[h] = hostReq[h] /\ hostUse'[h][r] = hostUse[h][r]
      BY <1>b, <2>0, <2>3, ReserveHost
    <3> HIDE DEF R, G, U, V
    <3> QED
      BY <1>0, <1>b, <1>p, <1>m, <1>q, <2>1, <3>1, <3>2, SMTT(30)
  <2> QED
    BY <2>2, <2>3
\* A release of candidate c takes one request and its cost from the sums.
<1>c. ASSUME NEW c \in Cand, ReleaseLoad(c), Fin',
             hostGroup[c] # h => R' = R /\ G' = G /\ U' = U /\ V' = V,
             hostGroup[c] = h => /\ R' + G' = R + G - 1 /\ U' + V' = U + V - cost[c][r],
             R' \in Nat, G' \in Nat, U' \in Nat, V' \in Nat
      PROVE  HostPart(h, r)'
  <2>0. /\ R + G <= hostReq[h] /\ U + V <= hostUse[h][r]
        /\ hostReq[h] \in Nat /\ hostUse[h][r] \in Nat /\ R \in Nat /\ G \in Nat /\ U \in Nat /\ V \in Nat
    BY <1>0
  <2>1. CASE hostGroup[c] # h
    <3>1. hostReq'[h] = hostReq[h] /\ hostUse'[h][r] = hostUse[h][r]
      BY <1>c, <2>1, ReleaseHost
    <3> HIDE DEF R, G, U, V
    <3> QED
      BY <1>0, <1>c, <1>m, <1>q, <2>1, <3>1
  <2>2. CASE hostGroup[c] = h
    <3>a. R' + G' = R + G - 1 /\ U' + V' = U + V - cost[c][r]
      BY <1>c, <2>2
    <3>0. hostReq[h] >= 1
      BY <1>c, <2>0, <3>a, AtLeastOne
    <3>1. /\ cost[c][r] \in Nat /\ hostReq'[h] = hostReq[h] - 1
          /\ hostUse'[h][r] = IF hostReq[h] = 1 THEN 0 ELSE Minus(hostUse[h][r], cost[c][r])
      BY <1>c, <2>2, <3>0, ReleaseHost
    <3>2. hostUse'[h][r] <= hostUse[h][r]
      BY <2>0, <3>1 DEF Minus
    <3>3. Most'
      BY <1>0, <1>m, <3>2
    <3>4. CASE hostReq[h] = 1
      <4>1. Running(h)' = {} /\ Pending(h)' = {}
        <5>0. R' \in Nat /\ G' \in Nat
          BY <1>c
        <5>1. R' = 0 /\ G' = 0
          BY <2>0, <3>a, <3>4, <5>0, NoneLeft
        <5>2. Cardinality(Running(h)') = 0 /\ Cardinality(Pending(h)') = 0
          BY <5>1
        <5>3. IsFiniteSet(Running(h)') /\ IsFiniteSet(Pending(h)')
          BY <1>c, ConstantsOK, FS_Subset DEF Running
        <5> QED
          BY <5>2, <5>3, FS_EmptySet
      <4>2. Units(Running(h), TaskCost(r))' = {} /\ Units(Pending(h), PendingCost(r))' = {}
        BY <4>1 DEF Units
      <4>3. R' = 0 /\ G' = 0 /\ U' = 0 /\ V' = 0
        BY <4>1, <4>2, FS_EmptySet
      <4>4. R' + G' <= hostReq'[h] /\ U' + V' <= hostUse'[h][r]
        <5>1. hostReq'[h] = 0 /\ hostUse'[h][r] = 0
          BY <3>1, <3>4
        <5> HIDE DEF R, G, U, V
        <5> QED
          BY <4>3, <5>1
      <4> QED
        BY <1>c, <1>q, <3>3, <4>4
    <3>5. CASE hostReq[h] # 1
      <4>1. R' + G' <= hostReq'[h]
        <5>1. hostReq'[h] = hostReq[h] - 1
          BY <3>1
        <5> HIDE DEF R, G
        <5> QED
          BY <2>0, <3>a, <5>1
      <4>2. U' + V' <= hostUse'[h][r]
        <5>1. hostUse'[h][r] = Minus(hostUse[h][r], cost[c][r]) /\ cost[c][r] \in Nat
          BY <3>1, <3>5
        <5>2. U' \in Nat /\ V' \in Nat
          BY <1>c
        <5> HIDE DEF U, V
        <5> QED
          BY <2>0, <3>a, <5>1, <5>2 DEF Minus
      <4> QED
        BY <1>c, <1>q, <3>3, <4>1, <4>2
    <3> QED
      BY <3>4, <3>5
  <2> QED
    BY <2>1, <2>2
<1>s. ASSUME pc' = pc, req' = req
      PROVE  R' = R /\ U' = U /\ IsFiniteSet(Units(Running(h), TaskCost(r)))'
  <2>1. Running(h)' = Running(h) /\ Units(Running(h), TaskCost(r))' = Units(Running(h), TaskCost(r))
    BY <1>s DEF Running, Units, TaskCost
  <2> QED
    BY <1>0, <2>1
<1>1. ASSUME NEW t \in Task, Start(t) PROVE HostPart(h, r)'
  BY <1>1, <1>a DEF Start, HasReservation, tracker, drops
<1>2. ASSUME NEW t \in Task, SkipConstrained(t) PROVE HostPart(h, r)'
  BY <1>2, <1>a DEF SkipConstrained, HasReservation, tracker, drops
<1>3. ASSUME NEW t \in Task, AcquirePermit(t) PROVE HostPart(h, r)'
  <2>1. PICK label \in {"register", "reserve"} : Goto(t, label)
    BY <1>3 DEF AcquirePermit
  <2>2. QED
    BY <1>3, <2>1, <1>a DEF AcquirePermit, HasReservation, tracker, drops
<1>4. ASSUME NEW t \in Task, PermitTimeout(t) PROVE HostPart(h, r)'
  BY <1>4, <1>a DEF PermitTimeout, HasReservation, tracker, drops
<1>5. ASSUME NEW t \in Task, TryReserve(t) PROVE HostPart(h, r)'
  BY <1>5, <1>b DEF TryReserve, HasReservation, tracker, drops
<1>6. ASSUME NEW t \in Task, CapacityRace(t) PROVE HostPart(h, r)'
  BY <1>6, <1>a DEF CapacityRace, HasReservation, tracker, drops
<1>7. ASSUME NEW t \in Task, Register(t) PROVE HostPart(h, r)'
  BY <1>7, <1>a DEF Register, HasReservation, tracker, drops
<1>8. ASSUME NEW t \in Task, CheckReserve(t) PROVE HostPart(h, r)'
  BY <1>8, <1>b DEF CheckReserve, HasReservation, tracker, drops
<1>9. ASSUME NEW t \in Task, CheckWait(t) PROVE HostPart(h, r)'
  BY <1>9, <1>a DEF CheckWait, HasReservation, tracker, drops
<1>10. ASSUME NEW t \in Task, Wake(t) PROVE HostPart(h, r)'
  BY <1>10, <1>a DEF Wake, HasReservation, tracker, drops
<1>11. ASSUME NEW t \in Task, WaitTimeout(t) PROVE HostPart(h, r)'
  BY <1>11, <1>a DEF WaitTimeout, HasReservation, tracker, drops
<1>12. ASSUME NEW t \in Task, Unwait(t) PROVE HostPart(h, r)'
  BY <1>12, <1>a DEF Unwait, HasReservation, tracker, drops
<1>13. ASSUME NEW t \in Task, UnwaitNotify(t) PROVE HostPart(h, r)'
  BY <1>13, <1>a DEF UnwaitNotify, HasReservation, tracker, drops
<1>14. ASSUME NEW t \in Task, RecordQueueWait(t) PROVE HostPart(h, r)'
  BY <1>14, <1>a DEF RecordQueueWait, HasReservation, tracker, drops
<1>15. ASSUME NEW t \in Task, Invoked(t) PROVE HostPart(h, r)'
  BY <1>15, <1>a DEF Invoked, HasReservation, tracker, drops
<1>16. ASSUME NEW t \in Task, Release(t) PROVE HostPart(h, r)'
  <2>1. /\ Goto(t, "released") /\ req' = req /\ dropLoad' = dropLoad /\ ReleaseLoad(CandOf(t))
        /\ pc[t] \in HasReservation /\ "released" \notin HasReservation /\ CandOf(t) \in Cand
    BY <1>16 DEF Release, HasReservation, drops, LoadTypeOK
  <2>2. Fin' /\ R' \in Nat /\ G' \in Nat /\ U' \in Nat /\ V' \in Nat
    <3>1. IsFiniteSet(Units(Running(h), TaskCost(r)))'
      BY <1>0, <2>1, RunningMove
    <3>2. R' \in Nat
      BY ConstantsOK, FS_Subset, FS_CardinalityType DEF Running
    <3>3. U' \in Nat
      BY <3>1, FS_CardinalityType
    <3> QED
      BY <1>0, <1>p, <2>1, <3>1, <3>2, <3>3
  <2>3. hostGroup[CandOf(t)] # h => R' = R /\ U' = U
    BY <1>0, <2>1, RunningMove, SMTT(30)
  <2>4. hostGroup[CandOf(t)] = h => R' = R - 1 /\ U' = U - cost[CandOf(t)][r] /\ cost[CandOf(t)][r] \in Nat
    BY <1>0, <2>1, RunningMove
  <2>5. G' = G /\ V' = V
    BY <1>p, <2>1
  <2>6. hostGroup[CandOf(t)] = h => R' + G' = R + G - 1 /\ U' + V' = U + V - cost[CandOf(t)][r]
    <3>1. R \in Nat /\ G \in Nat /\ U \in Nat /\ V \in Nat
      BY <1>0
    <3> HIDE DEF R, G, U, V
    <3> QED
      BY <2>4, <2>5, <3>1
  <2> HIDE DEF R, G, U, V, Fin
  <2> QED
    BY <1>c, <2>1, <2>2, <2>3, <2>5, <2>6
<1>17. ASSUME NEW t \in Task, ReleaseNotify(t) PROVE HostPart(h, r)'
  BY <1>17, <1>a DEF ReleaseNotify, HasReservation, tracker, drops
<1>18. ASSUME NEW t \in Task, Abort(t) PROVE HostPart(h, r)'
  <2>1. /\ Goto(t, "aborted") /\ req' = req /\ hostReq' = hostReq /\ hostUse' = hostUse
        /\ "aborted" \notin HasReservation /\ CandOf(t) \in Cand
    BY <1>18 DEF Abort, HasReservation, tracker, LoadTypeOK
  <2>2. CASE pc[t] # "invoke"
    <3>1. dropLoad' = dropLoad
      BY <1>18, <2>2 DEF Abort
    <3> QED
      BY <1>a, <2>1, <3>1
  <2>3. CASE pc[t] = "invoke"
    <3>1. /\ dropLoad' = [dropLoad EXCEPT ![CandOf(t)] = @ + 1] /\ pc[t] \in HasReservation
          /\ dropLoad' \in [Cand -> Nat]
      BY <1>18, <2>3 DEF Abort, HasReservation, LoadTypeOK
    <3>2. /\ dropLoad'[CandOf(t)] = dropLoad[CandOf(t)] + 1 /\ dropLoad[CandOf(t)] \in Nat
          /\ \A c \in Cand \ {CandOf(t)} : dropLoad'[c] = dropLoad[c]
      BY <2>1, <3>1 DEF LoadTypeOK
    <3>3. Fin'
      <4>1. IsFiniteSet(Units(Running(h), TaskCost(r)))'
        BY <1>0, <2>1, RunningMove
      <4>2. IsFiniteSet(Pending(h))' /\ IsFiniteSet(Units(Pending(h), PendingCost(r)))'
        BY <1>0, <2>1, <3>1, <3>2, PendingMove, SMTT(30)
      <4> QED
        BY <4>1, <4>2
    <3>4. hostGroup[CandOf(t)] = h => R' = R - 1 /\ U' = U - cost[CandOf(t)][r] /\ cost[CandOf(t)][r] \in Nat
      BY <1>0, <2>1, <3>1, RunningMove, SMTT(30)
    <3>5. hostGroup[CandOf(t)] # h => R' = R /\ U' = U
      BY <1>0, <2>1, <3>1, RunningMove
    <3>6. hostGroup[CandOf(t)] = h => G' = G + 1 /\ V' = V + cost[CandOf(t)][r]
      BY <1>0, <2>1, <3>1, <3>2, PendingMove
    <3>7. hostGroup[CandOf(t)] # h => G' = G /\ V' = V
      BY <1>0, <2>1, <3>1, <3>2, PendingMove
    <3>8. Most'
      BY <1>0, <1>m, <2>1
    <3>9. R' + G' <= hostReq'[h] /\ U' + V' <= hostUse'[h][r]
      <4> HIDE DEF R, G, U, V
      <4> QED
        BY <1>0, <2>1, <3>4, <3>5, <3>6, <3>7
    <3> HIDE DEF R, G, U, V, Fin, Most
    <3> QED
      BY <1>q, <3>3, <3>8, <3>9
  <2> QED
    BY <2>2, <2>3
<1>19. ASSUME NEW c \in Cand, DropReleaseLoad(c) PROVE HostPart(h, r)'
  <2>1. /\ dropLoad' = [dropLoad EXCEPT ![c] = @ - 1] /\ dropLoad[c] > 0 /\ ReleaseLoad(c)
        /\ pc' = pc /\ req' = req
    BY <1>19 DEF DropReleaseLoad
  <2>2. /\ dropLoad[c] = dropLoad'[c] + 1 /\ dropLoad' \in [Cand -> Nat]
        /\ \A d \in Cand \ {c} : dropLoad'[d] = dropLoad[d]
    BY <2>1 DEF LoadTypeOK
  <2>3. R' = R /\ U' = U /\ IsFiniteSet(Units(Running(h), TaskCost(r)))'
    BY <1>s, <2>1
  <2>4. hostGroup[c] # h => G' = G /\ V' = V
    BY <1>0, <2>2, PendingMove
  <2>5. hostGroup[c] = h => G' = G - 1 /\ V' = V - cost[c][r] /\ cost[c][r] \in Nat
    BY <1>0, <2>2, PendingMove
  <2>6. IsFiniteSet(Pending(h))' /\ IsFiniteSet(Units(Pending(h), PendingCost(r)))'
    BY <1>0, <2>2, PendingMove
  <2>7. G' \in Nat /\ V' \in Nat
    BY <2>6, FS_CardinalityType
  <2>8. Fin'
    BY <2>3, <2>6
  <2>9. hostGroup[c] = h => R' + G' = R + G - 1 /\ U' + V' = U + V - cost[c][r]
    <3> HIDE DEF R, G, U, V
    <3> QED
      BY <1>0, <2>3, <2>5
  <2>10. R' \in Nat /\ U' \in Nat
    BY <1>0, <2>3
  <2> HIDE DEF R, G, U, V, Fin
  <2> QED
    BY <1>c, <2>1, <2>3, <2>4, <2>7, <2>8, <2>9, <2>10
<1>x. ASSUME pc' = pc, req' = req, hostReq' = hostReq, hostUse' = hostUse, dropLoad' = dropLoad
      PROVE  HostPart(h, r)'
  <2> HIDE DEF R, G, U, V
  <2> QED
    BY <1>0, <1>m, <1>p, <1>q, <1>s, <1>x
<1>20. ASSUME NEW c \in Cand, DropReleaseWaiting(c) PROVE HostPart(h, r)'
  BY <1>20, <1>x DEF DropReleaseWaiting
<1>21. CASE DropNotify
  BY <1>21, <1>x DEF DropNotify, tracker
<1>22. CASE UNCHANGED loadVars
  BY <1>22, <1>x DEF loadVars, tracker, drops
<1> QED
  BY <1>1, <1>2, <1>3, <1>4, <1>5, <1>6, <1>7, <1>8, <1>9, <1>10, <1>11, <1>12,
     <1>13, <1>14, <1>15, <1>16, <1>17, <1>18, <1>19, <1>20, <1>21, <1>22
     DEF LoadNext, Step, Spawned

(* The projected budget check of reserve_candidate_load keeps what really runs
   on a host within the largest budget of its candidates, also when futures are
   dropped with or without a guard: the tracker may count too much, never too
   little. *)
THEOREM BudgetHolds == LoadSpec => []HostWithinBudget
<1>1. LoadTypeOK /\ HostInv => HostWithinBudget
  <2> SUFFICES ASSUME LoadTypeOK, HostInv, NEW c \in Cand, NEW r \in Res, hostGroup[c] # NoHost,
                      Largest(c, hostGroup[c], r)
               PROVE  Used(hostGroup[c], r) <= budget[c][r]
    BY DEF HostWithinBudget, Largest
  <2> DEFINE h == hostGroup[c]
             U == Cardinality(Units(Running(h), TaskCost(r)))
             V == Cardinality(Units(Pending(h), PendingCost(r)))
  <2>1. h \in Host /\ budget[c][r] \in Nat
    BY ConstantsOK
  <2>2. HostPart(h, r) /\ hostUse[h][r] \in Nat
    BY <2>1 DEF HostInv, LoadTypeOK
  <2>3. U \in Nat /\ V \in Nat
    BY <2>2, FS_CardinalityType DEF HostPart
  <2>4. U + V <= hostUse[h][r] /\ hostUse[h][r] <= budget[c][r]
    BY <2>2 DEF HostPart
  <2>5. Used(h, r) = U
    BY DEF Used, TaskCost
  <2> HIDE DEF U, V, h
  <2> QED
    BY <2>1, <2>2, <2>3, <2>4, <2>5 DEF h
<1> QED
  BY <1>1, TypeCorrect, InitHost, NextType, NextHost, PTL DEF LoadSpec

(* Capacity is neither exceeded nor lost nor slept through. *)
THEOREM CapacitySafe == LoadSpec => []CapacityIsSafe
BY BudgetHolds, QueueWakes, PoolsConserved, PTL DEF CapacityIsSafe

-----------------------------------------------------------------------------
(* The metrics store                                                       *)

Pairs(n) == UNION {{x} \X (1..n[x]) : x \in DOMAIN n}

\* What counts nothing adds up to nothing; one more for one is one more in all.
LEMMA TallyOfNothing ==
  ASSUME NEW S, NEW n, n = [x \in S |-> 0]
  PROVE  Tally(n) = 0
<1>1. \A x \in S : 1..n[x] = {}
  OBVIOUS
<1>2. Pairs(n) = {}
  BY <1>1 DEF Pairs
<1> QED
  BY <1>2, FS_EmptySet DEF Tally, Pairs

LEMMA PairsAreFinite ==
  ASSUME NEW S, IsFiniteSet(S), NEW n \in [S -> Nat]
  PROVE  IsFiniteSet(Pairs(n)) /\ Tally(n) \in Nat
<1> DEFINE each(x) == {x} \X (1..n[x])
           all == {each(x) : x \in S}
<1>1. \A x \in S : IsFiniteSet(each(x))
  <2> SUFFICES ASSUME NEW x \in S PROVE IsFiniteSet({x} \X (1..n[x]))
    OBVIOUS
  <2> DEFINE k == n[x]
  <2>1. k \in Int /\ 1 \in Int
    OBVIOUS
  <2> HIDE DEF k
  <2>2. IsFiniteSet(1..k)
    BY <2>1, FS_Interval
  <2>3. IsFiniteSet({x})
    BY FS_Singleton
  <2> QED
    BY <2>2, <2>3, FS_Product DEF k
<1>2. IsFiniteSet(all)
  <2> DEFINE f == [x \in S |-> each(x)]
  <2>1. f \in Surjection(S, all)
    BY DEF Surjection
  <2> QED
    BY <2>1, FS_Surjection
<1>3. \A T \in all : IsFiniteSet(T)
  BY <1>1
<1>4. Pairs(n) = UNION all
  BY DEF Pairs
<1> HIDE DEF all
<1>5. IsFiniteSet(Pairs(n))
  BY <1>2, <1>3, <1>4, FS_UNION
<1> QED
  BY <1>5, FS_CardinalityType DEF Tally, Pairs

LEMMA TallyOfOneMore ==
  ASSUME NEW S, IsFiniteSet(S), NEW n \in [S -> Nat], NEW y \in S, NEW m,
         m = [x \in S |-> IF x = y THEN n[x] + 1 ELSE n[x]]
  PROVE  Tally(m) = Tally(n) + 1
<1> DEFINE new == <<y, n[y] + 1>>
<1>1. n[y] \in Nat /\ m \in [S -> Nat]
  OBVIOUS
<1>2. 1..(n[y] + 1) = (1..n[y]) \cup {n[y] + 1}
  BY <1>1
<1>3. \A x \in S : {x} \X (1..m[x]) = IF x = y THEN ({x} \X (1..n[x])) \cup {new} ELSE {x} \X (1..n[x])
  BY <1>2
<1>4. Pairs(m) = Pairs(n) \cup {new}
  BY <1>3 DEF Pairs
<1>5. new \notin Pairs(n)
  <2>1. n[y] + 1 \notin 1..n[y]
    BY <1>1
  <2> QED
    BY <2>1 DEF Pairs
<1>6. IsFiniteSet(Pairs(n))
  BY PairsAreFinite
<1> HIDE DEF new
<1> QED
  BY <1>4, <1>5, <1>6, FS_AddElement DEF Tally, Pairs

-----------------------------------------------------------------------------
\* What a snapshot of the store keeps, in memory, in the file and on its way there.
Kept(d) ==
  /\ d \in Data
  /\ \A c \in Measured :
       /\ d.stats[c].succ = Tally([p \in Profile |-> d.roles[c][p].succ])
       /\ d.stats[c].fail + d.stats[c].stale
            = Tally([p \in Profile |-> d.roles[c][p].fail + d.roles[c][p].stale])
  /\ d.times["all"] >= Tally([m \in Source |-> d.times[m]])

Stage == {"new", "received", "worked", "probed", "terminal", "timed", "done", "dropped", "abandoned"}

MetricsInv ==
  /\ Kept(mem)
  /\ file = Absent \/ Kept(file)
  /\ stage \in [Tracked -> Stage]
  /\ snap \in [Tracked -> Data] /\ \A r \in Tracked : Kept(snap[r])
  /\ carried \in Int
  /\ FlowAccounted

LEMMA NothingIsKept == Kept(NoData)
<1>1. NoFlow \in Flow /\ NoBucket \in Bucket
  BY DEF NoFlow, NoBucket, Flow, Bucket, Error
<1>2. NoData \in Data
  BY <1>1 DEF NoData, Data
<1>3. \A c \in Measured, p \in Profile : NoData.stats[c] = NoBucket /\ NoData.roles[c][p] = NoBucket
  BY DEF NoData
<1>4. ASSUME NEW c \in Measured
      PROVE  /\ [p \in Profile |-> NoData.roles[c][p].succ] = [p \in Profile |-> 0]
             /\ [p \in Profile |-> NoData.roles[c][p].fail + NoData.roles[c][p].stale] = [p \in Profile |-> 0]
  <2>1. \A p \in Profile : NoData.roles[c][p].succ = 0 /\ NoData.roles[c][p].fail + NoData.roles[c][p].stale = 0
    BY <1>3 DEF NoBucket
  <2> QED
    BY <2>1
<1>5. NoData.times["all"] = 0 /\ [m \in Source |-> NoData.times[m]] = [m \in Source |-> 0]
  BY DEF NoData, Modality
<1>6. Tally([p \in Profile |-> 0]) = 0 /\ Tally([m \in Source |-> 0]) = 0
  BY TallyOfNothing
<1>7. \A c \in Measured : NoData.stats[c].succ = 0 /\ NoData.stats[c].fail + NoData.stats[c].stale = 0
  <2>1. NoBucket.succ = 0 /\ NoBucket.fail = 0 /\ NoBucket.stale = 0
    BY DEF NoBucket
  <2> SUFFICES ASSUME NEW c \in Measured
               PROVE  NoData.stats[c].succ = 0 /\ NoData.stats[c].fail + NoData.stats[c].stale = 0
    OBVIOUS
  <2>2. NoData.stats[c] = NoBucket
    BY DEF NoData
  <2>3. 0 + 0 = 0
    OBVIOUS
  <2> QED
    BY <2>1, <2>2, <2>3
<1> QED
  BY <1>2, <1>4, <1>5, <1>6, <1>7 DEF Kept

\* Only the flow changes.
LEMMA FlowMoves ==
  ASSUME NEW d, Kept(d), NEW f \in Flow
  PROVE  Kept([d EXCEPT !.flow = f])
<1> DEFINE e == [d EXCEPT !.flow = f]
<1>1. e \in Data /\ e.stats = d.stats /\ e.roles = d.roles /\ e.times = d.times
  BY DEF Kept, Data
<1> HIDE DEF e
<1>2. Kept(e)
  BY <1>1 DEF Kept
<1> QED
  BY <1>2 DEF e

\* The buckets of one candidate change, and what they add up to keeps pace.
LEMMA BucketsMove ==
  ASSUME NEW d, Kept(d), NEW c \in Measured, NEW b \in Bucket, NEW q \in [Profile -> Bucket],
         b.succ = Tally([p \in Profile |-> q[p].succ]),
         b.fail + b.stale = Tally([p \in Profile |-> q[p].fail + q[p].stale]),
         NEW e, e = [d EXCEPT !.stats = [@ EXCEPT ![c] = b], !.roles = [@ EXCEPT ![c] = q]]
  PROVE  Kept(e)
<1>1. /\ e.stats = [d.stats EXCEPT ![c] = b] /\ e.roles = [d.roles EXCEPT ![c] = q] /\ e.times = d.times
      /\ e.flow = d.flow
      /\ e = [flow |-> e.flow, stats |-> e.stats, roles |-> e.roles, times |-> e.times]
  BY DEF Kept, Data
<1>2. e \in Data
  <2>1. e.stats \in [Measured -> Bucket] /\ e.roles \in [Measured -> [Profile -> Bucket]]
    BY <1>1 DEF Kept, Data
  <2> QED
    BY <1>1, <2>1 DEF Kept, Data
<1>3. /\ e.stats[c] = b /\ e.roles[c] = q
      /\ \A a \in Measured : a # c => e.stats[a] = d.stats[a] /\ e.roles[a] = d.roles[a]
  BY <1>1 DEF Kept, Data
<1>4. ASSUME NEW a \in Measured
      PROVE  /\ e.stats[a].succ = Tally([p \in Profile |-> e.roles[a][p].succ])
             /\ e.stats[a].fail + e.stats[a].stale
                  = Tally([p \in Profile |-> e.roles[a][p].fail + e.roles[a][p].stale])
  <2>1. CASE a = c
    BY <1>3, <2>1
  <2>2. CASE a # c
    BY <1>3, <2>2 DEF Kept
  <2> QED
    BY <2>1, <2>2
<1> QED
  BY <1>1, <1>2, <1>4 DEF Kept

\* One outcome goes to the candidate and to one of its profiles.
LEMMA ResultKept ==
  ASSUME NEW d, Kept(d), NEW c \in Measured, NEW p0 \in Profile, NEW ok \in BOOLEAN, NEW err \in Error
  PROVE  Kept([d EXCEPT !.stats[c] = MergeStats(@, ok, err), !.roles[c][p0] = MergeStats(@, ok, err)])
<1> DEFINE b == MergeStats(d.stats[c], ok, err)
           q == [d.roles[c] EXCEPT ![p0] = MergeStats(@, ok, err)]
           e == [d EXCEPT !.stats = [@ EXCEPT ![c] = b], !.roles = [@ EXCEPT ![c] = q]]
<1>0. d.stats[c] \in Bucket /\ d.roles[c] \in [Profile -> Bucket] /\ IsFiniteSet(Profile)
  BY MetricsConstants DEF Kept, Data
<1>1. \A x \in Bucket : /\ MergeStats(x, ok, err) \in Bucket
                        /\ MergeStats(x, ok, err).succ = IF ok THEN x.succ + 1 ELSE x.succ
                        /\ MergeStats(x, ok, err).fail = IF ok THEN x.fail ELSE x.fail + 1
                        /\ MergeStats(x, ok, err).stale = x.stale
                        /\ x.succ \in Nat /\ x.fail \in Nat /\ x.stale \in Nat
  <2> SUFFICES ASSUME NEW x \in Bucket
               PROVE  /\ MergeStats(x, ok, err) \in Bucket
                      /\ MergeStats(x, ok, err).succ = IF ok THEN x.succ + 1 ELSE x.succ
                      /\ MergeStats(x, ok, err).fail = IF ok THEN x.fail ELSE x.fail + 1
                      /\ MergeStats(x, ok, err).stale = x.stale
                      /\ x.succ \in Nat /\ x.fail \in Nat /\ x.stale \in Nat
    OBVIOUS
  <2>1. x.succ \in Nat /\ x.fail \in Nat /\ x.stale \in Nat
        /\ x = [succ |-> x.succ, fail |-> x.fail, stale |-> x.stale, err |-> x.err]
    BY DEF Bucket
  <2> DEFINE m == IF ok THEN x.succ + 1 ELSE x.succ
             k == IF ok THEN x.fail ELSE x.fail + 1
  <2>2. m \in Nat /\ k \in Nat
    BY <2>1
  <2>3. MergeStats(x, ok, err) = [x EXCEPT !.succ = m, !.fail = k, !.err = err]
    BY DEF MergeStats
  <2> HIDE DEF m, k
  <2>4. /\ MergeStats(x, ok, err) \in Bucket /\ MergeStats(x, ok, err).succ = m
        /\ MergeStats(x, ok, err).fail = k /\ MergeStats(x, ok, err).stale = x.stale
    BY <2>2, <2>3 DEF Bucket
  <2> QED
    BY <2>1, <2>4 DEF m, k
<1>2. b \in Bucket /\ q \in [Profile -> Bucket]
  BY <1>0, <1>1
<1>3. \A p \in Profile : q[p] = IF p = p0 THEN MergeStats(d.roles[c][p], ok, err) ELSE d.roles[c][p]
  BY <1>0
<1>4. b.succ = Tally([p \in Profile |-> q[p].succ])
  <2> DEFINE n == [p \in Profile |-> d.roles[c][p].succ]
             m == [p \in Profile |-> q[p].succ]
  <2>1. n \in [Profile -> Nat]
    BY <1>0, <1>1
  <2>2. d.stats[c].succ = Tally(n)
    BY DEF Kept
  <2>3. CASE ok
    <3>1. m = [p \in Profile |-> IF p = p0 THEN n[p] + 1 ELSE n[p]]
      BY <1>0, <1>1, <1>3, <2>3
    <3> HIDE DEF n, m
    <3>2. Tally(m) = Tally(n) + 1
      BY <1>0, <2>1, <3>1, TallyOfOneMore
    <3> QED
      BY <1>0, <1>1, <2>2, <2>3, <3>2 DEF m
  <2>4. CASE ~ok
    <3>1. m = n
      BY <1>0, <1>1, <1>3, <2>4
    <3> HIDE DEF n, m
    <3> QED
      BY <1>0, <1>1, <2>2, <2>4, <3>1 DEF m
  <2> QED
    BY <2>3, <2>4
<1>5. b.fail + b.stale = Tally([p \in Profile |-> q[p].fail + q[p].stale])
  <2> DEFINE n == [p \in Profile |-> d.roles[c][p].fail + d.roles[c][p].stale]
             m == [p \in Profile |-> q[p].fail + q[p].stale]
  <2>1. n \in [Profile -> Nat]
    BY <1>0, <1>1
  <2>2. d.stats[c].fail + d.stats[c].stale = Tally(n)
    BY DEF Kept
  <2>3. CASE ~ok
    <3>1. m = [p \in Profile |-> IF p = p0 THEN n[p] + 1 ELSE n[p]]
      <4>1. \A p \in Profile : m[p] = IF p = p0 THEN n[p] + 1 ELSE n[p]
        BY <1>0, <1>1, <1>3, <2>3
      <4> QED
        BY <4>1
    <3> HIDE DEF n, m
    <3>2. Tally(m) = Tally(n) + 1
      BY <1>0, <2>1, <3>1, TallyOfOneMore
    <3>3. b.fail = d.stats[c].fail + 1 /\ b.stale = d.stats[c].stale
      BY <1>0, <1>1, <2>3
    <3>4. b.fail + b.stale = (d.stats[c].fail + d.stats[c].stale) + 1
      BY <1>0, <1>1, <3>3
    <3> QED
      BY <2>2, <3>2, <3>4 DEF m
  <2>4. CASE ok
    <3>1. m = n
      <4>1. \A p \in Profile : m[p] = n[p]
        BY <1>0, <1>1, <1>3, <2>4, ZenonT(60)
      <4> QED
        BY <4>1
    <3> HIDE DEF n, m
    <3>2. b.fail = d.stats[c].fail /\ b.stale = d.stats[c].stale
      BY <1>0, <1>1, <2>4
    <3> QED
      BY <2>2, <3>1, <3>2 DEF m
  <2> QED
    BY <2>3, <2>4
<1>6. e = [d EXCEPT !.stats[c] = MergeStats(@, ok, err), !.roles[c][p0] = MergeStats(@, ok, err)]
  BY DEF Kept, Data
<1> HIDE DEF b, q
<1>7. Kept(e)
  BY <1>2, <1>4, <1>5, BucketsMove DEF b, q
<1> QED
  BY <1>6, <1>7

\* Retired failures still count.
LEMMA DecayKept ==
  ASSUME NEW d, Kept(d), NEW c \in Measured
  PROVE  Kept([d EXCEPT !.stats[c] = Decay(@), !.roles[c] = [p \in Profile |-> Decay(@[p])]])
<1> DEFINE b == Decay(d.stats[c])
           q == [p \in Profile |-> Decay(d.roles[c][p])]
           e == [d EXCEPT !.stats = [@ EXCEPT ![c] = b], !.roles = [@ EXCEPT ![c] = q]]
<1>0. d.stats[c] \in Bucket /\ d.roles[c] \in [Profile -> Bucket]
  BY DEF Kept, Data
<1>1. \A x \in Bucket : /\ Decay(x) \in Bucket /\ Decay(x).succ = x.succ
                        /\ Decay(x).fail + Decay(x).stale = x.fail + x.stale
  <2> SUFFICES ASSUME NEW x \in Bucket
               PROVE  /\ Decay(x) \in Bucket /\ Decay(x).succ = x.succ
                      /\ Decay(x).fail + Decay(x).stale = x.fail + x.stale
    OBVIOUS
  <2>1. x.succ \in Nat /\ x.fail \in Nat /\ x.stale \in Nat
        /\ x = [succ |-> x.succ, fail |-> x.fail, stale |-> x.stale, err |-> x.err]
    BY DEF Bucket
  <2>2. CASE x.err = "modelMissing"
    <3>1. Decay(x) = [succ |-> x.succ, fail |-> 0, stale |-> x.stale + x.fail, err |-> "none"]
      BY <2>1, <2>2 DEF Decay
    <3>2. x.stale + x.fail \in Nat /\ 0 + (x.stale + x.fail) = x.fail + x.stale
      BY <2>1
    <3>3. Decay(x) \in Bucket
      BY <2>1, <3>1, <3>2 DEF Bucket, Error
    <3> QED
      BY <3>1, <3>2, <3>3
  <2>3. CASE x.err # "modelMissing"
    BY <2>3 DEF Decay
  <2> QED
    BY <2>2, <2>3
<1>2. b \in Bucket /\ q \in [Profile -> Bucket]
  BY <1>0, <1>1
<1>3. b.succ = Tally([p \in Profile |-> q[p].succ])
  <2>1. [p \in Profile |-> q[p].succ] = [p \in Profile |-> d.roles[c][p].succ]
    BY <1>0, <1>1
  <2> QED
    BY <1>0, <1>1, <2>1 DEF Kept
<1>4. b.fail + b.stale = Tally([p \in Profile |-> q[p].fail + q[p].stale])
  <2>1. [p \in Profile |-> q[p].fail + q[p].stale] = [p \in Profile |-> d.roles[c][p].fail + d.roles[c][p].stale]
    BY <1>0, <1>1
  <2> QED
    BY <1>0, <1>1, <2>1 DEF Kept
<1>5. e = [d EXCEPT !.stats[c] = Decay(@), !.roles[c] = [p \in Profile |-> Decay(@[p])]]
  BY DEF Kept, Data
<1> HIDE DEF b, q
<1>6. Kept(e)
  BY <1>2, <1>3, <1>4, BucketsMove DEF b, q
<1> QED
  BY <1>5, <1>6

\* A time of a modality is one of the aggregate too.
LEMMA TimeKept ==
  ASSUME NEW d, Kept(d), NEW m \in Modality
  PROVE  Kept([d EXCEPT !.times = [n \in Modality |-> IF n \in {m, "all"} THEN @[n] + 1 ELSE @[n]]])
<1> DEFINE t == [n \in Modality |-> IF n \in {m, "all"} THEN d.times[n] + 1 ELSE d.times[n]]
           e == [d EXCEPT !.times = t]
           was == [n \in Source |-> d.times[n]]
           now == [n \in Source |-> t[n]]
<1>0. d.times \in [Modality -> Nat] /\ IsFiniteSet(Source) /\ "all" \notin Source
  BY MetricsConstants DEF Kept, Data
<1>1. t \in [Modality -> Nat]
  BY <1>0
<1>2. e \in Data /\ e.stats = d.stats /\ e.roles = d.roles /\ e.times = t
  BY <1>1 DEF Kept, Data
<1>3. was \in [Source -> Nat] /\ d.times["all"] >= Tally(was) /\ t["all"] = d.times["all"] + 1 /\ d.times["all"] \in Nat
  BY <1>0 DEF Modality, Kept
<1>4. Tally(now) = Tally(was) \/ Tally(now) = Tally(was) + 1
  <2>1. CASE m \in Source
    <3>1. now = [n \in Source |-> IF n = m THEN was[n] + 1 ELSE was[n]]
      BY <1>0, <2>1 DEF Modality
    <3> HIDE DEF now, was
    <3> QED
      BY <1>0, <1>3, <2>1, <3>1, TallyOfOneMore
  <2>2. CASE m \notin Source
    <3>1. now = was
      BY <1>0, <2>2 DEF Modality
    <3> QED
      BY <3>1
  <2> QED
    BY <2>1, <2>2
<1>5. Tally(was) \in Nat
  <2> HIDE DEF was
  <2> QED
    BY <1>0, <1>3, PairsAreFinite
<1>6. t["all"] >= Tally(now)
  <2> HIDE DEF t, now, was
  <2> QED
    BY <1>3, <1>4, <1>5
<1>7. Kept(e)
  <2> HIDE DEF t, e
  <2> QED
    BY <1>2, <1>6 DEF Kept
<1> QED
  BY <1>7

\* The live and the abandoned requests are counted when one of them moves.
LEMMA LiveMoves ==
  ASSUME NEW r \in Tracked, NEW L, NEW M, L \subseteq Tracked
  PROVE  /\ IsFiniteSet(L) /\ Cardinality(L) \in Nat
         /\ r \notin L /\ M = L \cup {r} => Cardinality(M) = Cardinality(L) + 1
         /\ r \in L /\ M = L \ {r} => Cardinality(M) = Cardinality(L) - 1 /\ Cardinality(L) >= 1
<1>1. IsFiniteSet(L) /\ Cardinality(L) \in Nat
  BY FS_Subset, FS_CardinalityType, MetricsConstants
<1>2. ASSUME r \notin L, M = L \cup {r} PROVE Cardinality(M) = Cardinality(L) + 1
  BY <1>1, <1>2, FS_AddElement
<1>3. ASSUME r \in L, M = L \ {r} PROVE Cardinality(M) = Cardinality(L) - 1 /\ Cardinality(L) >= 1
  <2>1. Cardinality(M) = Cardinality(L) - 1 /\ IsFiniteSet(M)
    BY <1>1, <1>3, FS_RemoveElement
  <2>2. Cardinality(M) \in Nat
    BY <2>1, FS_CardinalityType
  <2> QED
    BY <1>1, <2>1, <2>2
<1> QED
  BY <1>1, <1>2, <1>3

LEMMA MetricsStart == MetricsInit => MetricsInv
<1> SUFFICES ASSUME MetricsInit PROVE MetricsInv
  OBVIOUS
<1>1. Live = {} /\ Abandoned = {} /\ Cardinality({}) = 0
  BY FS_EmptySet DEF MetricsInit, Live, Abandoned
<1>2. mem.flow = NoFlow
  BY DEF MetricsInit, NoData
<1>3. FlowAccounted
  BY <1>1, <1>2 DEF FlowAccounted, NoFlow, MetricsInit
<1>4. snap \in [Tracked -> Data] /\ \A r \in Tracked : Kept(snap[r])
  BY NothingIsKept, SMTT(30) DEF MetricsInit, Kept
<1> QED
  BY <1>3, <1>4, NothingIsKept DEF MetricsInit, MetricsInv, Stage

\* What an operation publishes, and how it leaves the flow.
LEMMA PublishKeeps ==
  ASSUME MetricsInv, NEW r \in Tracked, NEW d, Kept(d), Publish(r, d), stage' \in [Tracked -> Stage],
         /\ d.flow.inProgress = Cardinality(Live') + Cardinality(Abandoned')
         /\ d.flow.received = d.flow.replied + d.flow.failed + d.flow.inProgress + carried
  PROVE  MetricsInv'
<1>1. /\ mem' = d /\ snap' = [snap EXCEPT ![r] = d] /\ UNCHANGED <<file, carried>>
  BY DEF Publish
<1>2. snap' \in [Tracked -> Data] /\ \A s \in Tracked : Kept(snap'[s])
  <2>1. d \in Data
    BY DEF Kept
  <2>2. \A s \in Tracked : snap'[s] = IF s = r THEN d ELSE snap[s]
    BY <1>1 DEF MetricsInv
  <2> QED
    BY <1>1, <2>1, <2>2 DEF MetricsInv
<1>3. FlowAccounted'
  BY <1>1 DEF FlowAccounted
<1>4. Kept(mem)' /\ (file = Absent \/ Kept(file))' /\ (carried \in Int)'
  BY <1>1 DEF MetricsInv
<1> QED
  BY <1>2, <1>3, <1>4 DEF MetricsInv, Kept

LEMMA MetricsKeep == MetricsInv /\ [MetricsNext]_metricsVars => MetricsInv'
<1> SUFFICES ASSUME MetricsInv, [MetricsNext]_metricsVars PROVE MetricsInv'
  OBVIOUS
<1>a. /\ Kept(mem) /\ stage \in [Tracked -> Stage] /\ snap \in [Tracked -> Data]
      /\ \A r \in Tracked : Kept(snap[r])
      /\ Live \subseteq Tracked /\ Abandoned \subseteq Tracked
  BY SMTT(30) DEF MetricsInv, Live, Abandoned
<1>b. /\ mem.flow \in Flow
      /\ mem.flow = [received |-> mem.flow.received, inProgress |-> mem.flow.inProgress,
                     replied |-> mem.flow.replied, failed |-> mem.flow.failed]
      /\ mem.flow.received \in Nat /\ mem.flow.inProgress \in Nat /\ mem.flow.replied \in Nat
      /\ mem.flow.failed \in Nat /\ carried \in Int
  BY <1>a DEF Kept, Data, Flow, MetricsInv
<1>c. /\ mem.flow.inProgress = Cardinality(Live) + Cardinality(Abandoned)
      /\ mem.flow.received = mem.flow.replied + mem.flow.failed + mem.flow.inProgress + carried
  BY DEF MetricsInv, FlowAccounted
<1>e. NoData \in Data /\ Kept(NoData)
  BY NothingIsKept DEF Kept
\* A step that neither begins nor ends a request.
<1>d. ASSUME NEW r \in Tracked, NEW d, Kept(d), d.flow = mem.flow, Publish(r, d),
             stage' \in [Tracked -> Stage], Live' = Live, Abandoned' = Abandoned
      PROVE  MetricsInv'
  BY <1>c, <1>d, PublishKeeps
<1>1. ASSUME NEW r \in Tracked, ReceivedBy(r) PROVE MetricsInv'
  <2> DEFINE n == mem.flow.received + 1
             k == mem.flow.inProgress + 1
             f == [mem.flow EXCEPT !.received = n, !.inProgress = k]
             d == [mem EXCEPT !.flow = f]
  <2>1. n \in Nat /\ k \in Nat
    BY <1>b
  <2>2. f \in Flow /\ f.received = n /\ f.inProgress = k /\ f.replied = mem.flow.replied /\ f.failed = mem.flow.failed
    <3> HIDE DEF n, k
    <3> QED
      BY <1>b, <2>1 DEF Flow
  <2>3. d = [mem EXCEPT !.flow.received = @ + 1, !.flow.inProgress = @ + 1] /\ d.flow = f
    BY <1>a DEF Kept, Data
  <2>12. d.flow = f
    BY <2>3
  <2>4. stage[r] = "new" /\ stage' = [stage EXCEPT ![r] = "received"]
    BY <1>1 DEF ReceivedBy
  <2>5. stage' \in [Tracked -> Stage] /\ Live' = Live \cup {r} /\ r \notin Live /\ Abandoned' = Abandoned
    BY <1>a, <2>4 DEF Live, Abandoned, Stage
  <2>6. Cardinality(Live') = Cardinality(Live) + 1 /\ Cardinality(Live) \in Nat /\ Cardinality(Abandoned) \in Nat
    BY <1>a, <2>5, LiveMoves
  <2>7. Publish(r, [mem EXCEPT !.flow.received = @ + 1, !.flow.inProgress = @ + 1])
    BY <1>1 DEF ReceivedBy
  <2> HIDE DEF f
  <2>8. Kept(d)
    BY <1>a, <2>2, FlowMoves
  <2> HIDE DEF d
  <2>9. Publish(r, d)
    BY <2>3, <2>7
  <2>10. /\ d.flow.inProgress = mem.flow.inProgress + 1 /\ d.flow.received = mem.flow.received + 1
         /\ d.flow.replied = mem.flow.replied /\ d.flow.failed = mem.flow.failed
    BY <2>2, <2>12
  <2>11. /\ d.flow.inProgress = Cardinality(Live') + Cardinality(Abandoned')
         /\ d.flow.received = d.flow.replied + d.flow.failed + d.flow.inProgress + carried
    BY <1>b, <1>c, <2>5, <2>6, <2>10
  <2> QED
    BY <2>5, <2>8, <2>9, <2>11, PublishKeeps
<1>2. ASSUME NEW r \in Tracked, NEW c \in Measured, NEW p \in Profile, NEW ok \in BOOLEAN, NEW err \in Error,
             RecordResult(r, c, p, ok, err)
      PROVE  MetricsInv'
  <2> DEFINE d == [mem EXCEPT !.stats[c] = MergeStats(@, ok, err), !.roles[c][p] = MergeStats(@, ok, err)]
  <2>1. Kept(d)
    BY <1>a, ResultKept
  <2>2. d.flow = mem.flow
    BY <1>a DEF Kept, Data
  <2>3. Publish(r, d) /\ stage[r] = "received" /\ stage' = [stage EXCEPT ![r] = "worked"]
    BY <1>2 DEF RecordResult
  <2> HIDE DEF d
  <2>4. stage' \in [Tracked -> Stage] /\ Live' = Live /\ Abandoned' = Abandoned
    BY <1>a, <2>3 DEF Live, Abandoned, Stage
  <2> QED
    BY <1>d, <2>1, <2>2, <2>3, <2>4
<1>3. ASSUME NEW r \in Tracked, NEW c \in Measured, NEW ok \in BOOLEAN, RecordHealth(r, c, ok) PROVE MetricsInv'
  <2> DEFINE decayed == [mem EXCEPT !.stats[c] = Decay(@), !.roles[c] = [p \in Profile |-> Decay(@[p])]]
             d == IF ~ok THEN mem ELSE decayed
  <2>1. Kept(d)
    BY <1>a, DecayKept
  <2>2. d.flow = mem.flow
    BY <1>a DEF Kept, Data
  <2>3. Publish(r, d) /\ stage[r] = "worked" /\ stage' = [stage EXCEPT ![r] = "probed"]
    BY <1>3 DEF RecordHealth
  <2> HIDE DEF d
  <2>4. stage' \in [Tracked -> Stage] /\ Live' = Live /\ Abandoned' = Abandoned
    BY <1>a, <2>3 DEF Live, Abandoned, Stage
  <2> QED
    BY <1>d, <2>1, <2>2, <2>3, <2>4
<1>4. ASSUME NEW r \in Tracked, NEW ok \in BOOLEAN, Terminal(r, ok) PROVE MetricsInv'
  <2> DEFINE n == IF ok THEN mem.flow.replied + 1 ELSE mem.flow.replied
             k == IF ok THEN mem.flow.failed ELSE mem.flow.failed + 1
             l == IF mem.flow.inProgress = 0 THEN 0 ELSE mem.flow.inProgress - 1
             f == [mem.flow EXCEPT !.replied = n, !.failed = k, !.inProgress = l]
             d == [mem EXCEPT !.flow = f]
             given == [mem EXCEPT !.flow.replied = IF ok THEN @ + 1 ELSE @,
                                  !.flow.failed = IF ok THEN @ ELSE @ + 1,
                                  !.flow.inProgress = IF @ = 0 THEN 0 ELSE @ - 1]
  <2>1. r \in Live /\ stage' = [stage EXCEPT ![r] = "terminal"] /\ Publish(r, given)
    BY <1>4 DEF Terminal
  <2>2. stage' \in [Tracked -> Stage] /\ Live' = Live \ {r} /\ Abandoned' = Abandoned
    BY <1>a, <2>1 DEF Live, Abandoned, Stage
  <2>3. /\ Cardinality(Live') = Cardinality(Live) - 1 /\ Cardinality(Live) >= 1
        /\ Cardinality(Live) \in Nat /\ Cardinality(Abandoned) \in Nat
    BY <1>a, <2>1, <2>2, LiveMoves
  <2>4. mem.flow.inProgress >= 1 /\ mem.flow.inProgress # 0
    BY <1>b, <1>c, <2>3
  <2>5. n \in Nat /\ k \in Nat /\ l \in Nat /\ l = mem.flow.inProgress - 1
    BY <1>b, <2>4
  <2>6. f \in Flow /\ f.received = mem.flow.received /\ f.replied = n /\ f.failed = k /\ f.inProgress = l
    <3> HIDE DEF n, k, l
    <3> QED
      BY <1>b, <2>5 DEF Flow
  <2>7. d = given /\ d.flow = f
    BY <1>a DEF Kept, Data
  <2> HIDE DEF f, given
  <2>8. Kept(d)
    BY <1>a, <2>6, FlowMoves
  <2> HIDE DEF d
  <2>9. /\ d.flow.inProgress = mem.flow.inProgress - 1 /\ d.flow.received = mem.flow.received
        /\ d.flow.replied = IF ok THEN mem.flow.replied + 1 ELSE mem.flow.replied
        /\ d.flow.failed = IF ok THEN mem.flow.failed ELSE mem.flow.failed + 1
    BY <2>5, <2>6, <2>7
  <2>10. /\ d.flow.inProgress = Cardinality(Live') + Cardinality(Abandoned')
         /\ d.flow.received = d.flow.replied + d.flow.failed + d.flow.inProgress + carried
    <3>1. CASE ok
      BY <1>b, <1>c, <2>2, <2>3, <2>9, <3>1
    <3>2. CASE ~ok
      BY <1>b, <1>c, <2>2, <2>3, <2>9, <3>2
    <3> QED
      BY <3>1, <3>2
  <2> QED
    BY <2>1, <2>2, <2>7, <2>8, <2>10, PublishKeeps
<1>5. ASSUME NEW r \in Tracked, NEW m \in Modality, ResponseTime(r, m) PROVE MetricsInv'
  <2> DEFINE d == [mem EXCEPT !.times = [n \in Modality |-> IF n \in {m, "all"} THEN @[n] + 1 ELSE @[n]]]
  <2>1. Kept(d)
    BY <1>a, TimeKept
  <2>2. d.flow = mem.flow
    BY <1>a DEF Kept, Data
  <2>3. Publish(r, d) /\ stage[r] = "terminal" /\ stage' = [stage EXCEPT ![r] = "timed"]
    BY <1>5 DEF ResponseTime
  <2> HIDE DEF d
  <2>4. stage' \in [Tracked -> Stage] /\ Live' = Live /\ Abandoned' = Abandoned
    BY <1>a, <2>3 DEF Live, Abandoned, Stage
  <2> QED
    BY <1>d, <2>1, <2>2, <2>3, <2>4
<1>6. ASSUME NEW r \in Tracked, ApiResponseTime(r) \/ OtherEvent(r) PROVE MetricsInv'
  <2>1. Publish(r, mem) /\ stage' \in [Tracked -> Stage] /\ Live' = Live /\ Abandoned' = Abandoned
    BY <1>6, <1>a DEF ApiResponseTime, OtherEvent, Live, Abandoned, Stage
  <2> QED
    BY <1>a, <1>d, <2>1
<1>7. ASSUME NEW r \in Tracked, DropRequest(r) PROVE MetricsInv'
  <2>1. /\ stage[r] \notin {"new", "done", "dropped", "abandoned"}
        /\ stage' = [stage EXCEPT ![r] = IF r \in Live THEN "abandoned" ELSE "dropped"]
        /\ snap' = [snap EXCEPT ![r] = NoData] /\ UNCHANGED <<mem, file, carried>>
    BY <1>7 DEF DropRequest
  <2>2. snap' \in [Tracked -> Data] /\ \A s \in Tracked : Kept(snap'[s])
    BY <1>a, <1>e, <2>1
  <2>3. stage' \in [Tracked -> Stage]
    BY <1>a, <2>1 DEF Stage
  <2>4. Cardinality(Live') + Cardinality(Abandoned') = Cardinality(Live) + Cardinality(Abandoned)
    <3>1. CASE r \in Live
      <4>1. Live' = Live \ {r} /\ Abandoned' = Abandoned \cup {r} /\ r \notin Abandoned
        BY <1>a, <2>1, <3>1 DEF Live, Abandoned
      <4>2. Cardinality(Live') = Cardinality(Live) - 1 /\ Cardinality(Live) \in Nat
        BY <1>a, <3>1, <4>1, LiveMoves
      <4>3. Cardinality(Abandoned') = Cardinality(Abandoned) + 1 /\ Cardinality(Abandoned) \in Nat
        BY <1>a, <4>1, LiveMoves
      <4> QED
        BY <4>2, <4>3
    <3>2. CASE r \notin Live
      BY <1>a, <2>1, <3>2 DEF Live, Abandoned
    <3> QED
      BY <3>1, <3>2
  <2>5. FlowAccounted'
    BY <1>c, <2>1, <2>4, SMTT(30) DEF FlowAccounted
  <2> QED
    BY <1>a, <1>b, <2>1, <2>2, <2>3, <2>5 DEF MetricsInv
<1>8. ASSUME NEW r \in Tracked, LockPersist(r) \/ WriteTemporary(r) PROVE MetricsInv'
  <2>1. UNCHANGED <<mem, file, stage, snap, carried>>
    BY <1>8 DEF LockPersist, WriteTemporary
  <2> QED
    BY <2>1 DEF MetricsInv, FlowAccounted, Live, Abandoned, Kept
<1>9. ASSUME NEW r \in Tracked, Rename(r) PROVE MetricsInv'
  <2>1. file' = snap[r] /\ snap' = [snap EXCEPT ![r] = NoData] /\ UNCHANGED <<mem, stage, carried>>
    BY <1>9 DEF Rename
  <2>2. snap' \in [Tracked -> Data] /\ \A s \in Tracked : Kept(snap'[s])
    BY <1>a, <1>e, <2>1
  <2>3. Kept(file')
    BY <1>a, <2>1
  <2>4. FlowAccounted'
    BY <1>c, <2>1, SMTT(30) DEF FlowAccounted, Live, Abandoned
  <2> QED
    BY <1>a, <1>b, <2>1, <2>2, <2>3, <2>4 DEF MetricsInv
<1>10. ASSUME NEW reset \in BOOLEAN, CrashRestart(reset) PROVE MetricsInv'
  <2>1. /\ mem' = Loaded(reset) /\ carried' = Unaccounted(mem'.flow) /\ file' = (IF reset THEN mem' ELSE file)
        /\ stage' = [r \in Tracked |-> IF stage[r] = "new" THEN "new" ELSE "dropped"]
        /\ snap' = [r \in Tracked |-> NoData]
    BY <1>10 DEF CrashRestart
  <2>2. Kept(mem') /\ mem'.flow.inProgress = 0
    <3> DEFINE data == IF file \in {Absent, Torn} THEN NoData ELSE file
               f == [data.flow EXCEPT !.inProgress = 0]
    <3>1. Kept(data)
      BY NothingIsKept DEF MetricsInv
    <3> HIDE DEF data
    <3>2. f \in Flow /\ f.inProgress = 0
      BY <3>1 DEF Kept, Data, Flow
    <3>3. [data EXCEPT !.flow.inProgress = 0] = [data EXCEPT !.flow = f] /\ [data EXCEPT !.flow = f].flow = f
      BY <3>1 DEF Kept, Data
    <3> HIDE DEF f
    <3>4. Kept([data EXCEPT !.flow = f])
      BY <3>1, <3>2, FlowMoves
    <3>5. NoData.flow.inProgress = 0
      BY DEF NoData, NoFlow
    <3>6. Loaded(reset) = IF reset THEN NoData ELSE [data EXCEPT !.flow.inProgress = 0]
      BY DEF Loaded, data
    <3> QED
      BY <2>1, <3>2, <3>3, <3>4, <3>5, <3>6, NothingIsKept
  <2>3. snap' \in [Tracked -> Data] /\ \A s \in Tracked : Kept(snap'[s])
    BY <2>1, NothingIsKept DEF Kept
  <2>4. stage' \in [Tracked -> Stage] /\ Live' = {} /\ Abandoned' = {}
    BY <2>1 DEF Stage, Live, Abandoned
  <2>5. /\ mem'.flow.received \in Nat /\ mem'.flow.replied \in Nat /\ mem'.flow.failed \in Nat
    BY <2>2 DEF Kept, Data, Flow
  <2>6. carried' = mem'.flow.received - (mem'.flow.replied + mem'.flow.failed)
    BY <2>1 DEF Unaccounted
  <2>7. FlowAccounted'
    <3>1. Cardinality({}) = 0
      BY FS_EmptySet
    <3>2. mem'.flow.inProgress = Cardinality(Live') + Cardinality(Abandoned')
      BY <2>2, <2>4, <3>1
    <3>3. mem'.flow.received = mem'.flow.replied + mem'.flow.failed + mem'.flow.inProgress + carried'
      BY <2>2, <2>5, <2>6
    <3> QED
      BY <3>2, <3>3 DEF FlowAccounted
  <2>8. (file = Absent \/ Kept(file))'
    <3>1. file' = mem' \/ file' = file
      BY <2>1
    <3> QED
      BY <2>2, <3>1 DEF MetricsInv
  <2>9. carried' \in Int
    BY <2>5, <2>6
  <2> QED
    BY <2>2, <2>3, <2>4, <2>7, <2>8, <2>9 DEF MetricsInv, Kept
<1>11. CASE UNCHANGED metricsVars
  <2>1. UNCHANGED <<mem, file, stage, snap, carried>>
    BY <1>11 DEF metricsVars
  <2> QED
    BY <2>1 DEF MetricsInv, FlowAccounted, Live, Abandoned, Kept
<1> QED
  BY <1>1, <1>2, <1>3, <1>4, <1>5, <1>6, <1>7, <1>8, <1>9, <1>10, <1>11 DEF MetricsNext, Record

(* For any requests, candidates, profiles and modalities, drops and crashes: the file is
   never torn, the flow counters account for every request, and no outcome is lost or
   counted twice between a candidate and its profiles, nor a time missing from the
   aggregate (MetricsStore::save, record_request_terminal, record_result_with_context,
   decay_stale_model_failures, record_ai_response_time_with_prompt). *)
THEOREM MetricsSound == MetricsSpec => []MetricsAreSound
<1>1. MetricsInv => MetricsAreSound
  <2> SUFFICES ASSUME MetricsInv PROVE MetricsAreSound
    OBVIOUS
  <2>1. file = Absent \/ file \in Data
    BY DEF MetricsInv, Kept
  <2>2. NeverTorn
    BY <2>1, FileAssumption DEF NeverTorn
  <2>3. OutcomesConserved /\ AggregateCoversModalities
    BY DEF MetricsInv, Kept, OutcomesConserved, AggregateCoversModalities
  <2> QED
    BY <2>2, <2>3 DEF MetricsInv, MetricsAreSound
<1> QED
  BY <1>1, MetricsStart, MetricsKeep, PTL DEF MetricsSpec
=============================================================================
