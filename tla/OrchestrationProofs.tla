------------------------ MODULE OrchestrationProofs ------------------------
(***************************************************************************)
(* Safety of one orchestrated request for any set of candidates, families, *)
(* ranking, wave size and mode, and what the selection functions promise   *)
(* of a wave.  The first part does not look inside those functions:        *)
(* whatever wave they pick, the request gives up last and blames nobody    *)
(* for another's failure.  The second part does: it follows the two loops  *)
(* the functions are built from, Among and Pass, from turn to turn.        *)
(***************************************************************************)
EXTENDS MCServices, FiniteSetTheorems, WellFoundedInduction, TLAPS

Good(c) == results[c] = "good"

(* A family that an answer shows to be resting is throttled, at the latest
   when the wave ends. *)
Resting ==
  \A c \in Candidate : BacksOffFamily(c, results[c]) =>
    family[c] \in throttled \/ (phase = "invoke" /\ c \in wave)

(* Only invoked candidates have results, and a useful one ends the waves. *)
ResultsOfWaves ==
  /\ \A c \in Candidate : results[c] # "none" => c \in attempted
  /\ phase = "select" => \A c \in Candidate : ~Good(c)
  /\ phase = "invoke" => \A c \in Candidate : Good(c) => c \in wave

(* Without a useful answer, judging starts when nothing is left. *)
NothingLeft ==
  /\ phase = "judge" /\ (\A c \in Candidate : ~Good(c)) => Remaining = {}
  /\ Failed => Remaining = {}

(* The outcome and the recorded health are only set by the last step. *)
LastStep ==
  /\ phase # "done" => /\ outcome = "none"
                       /\ \A c \in Candidate : recorded[c] = "none"
  /\ ResponseIffUseful
  /\ BlamedForOwnFailure

IInv == RequestTypeOK /\ Resting /\ ResultsOfWaves /\ NothingLeft /\ LastStep

LEMMA InitIInv == RequestInit => IInv
  <1> SUFFICES ASSUME RequestInit PROVE IInv
    OBVIOUS
  <1>1. RequestTypeOK
    BY DEF RequestInit, RequestTypeOK, Health, Outcome, Result, Failure
  <1>2. Resting /\ ResultsOfWaves
    BY DEF RequestInit, Resting, ResultsOfWaves, BacksOffFamily, Good
  <1>3. NothingLeft /\ LastStep
    BY DEF RequestInit, NothingLeft, LastStep, Failed, ResponseIffUseful, BlamedForOwnFailure
  <1> QED BY <1>1, <1>2, <1>3 DEF IInv

(* Selecting and dispatching any wave keeps the invariant. *)
LEMMA DispatchKeeps ==
  ASSUME IInv, NEW STATE selected, Dispatch(selected)
  PROVE  IInv'
  <1> USE DEF IInv
  <1>1. RequestTypeOK'
    <2>1. tries' \in [Candidate -> Nat]
      BY DEF RequestTypeOK, Dispatch
    <2>2. running' \subseteq wave' /\ wave' \subseteq attempted'
      BY DEF Dispatch
    <2> QED BY <2>1, <2>2 DEF RequestTypeOK, Dispatch, ranking
  <1>2. Resting'
    BY DEF Resting, Dispatch, BacksOffFamily
  <1>3. ResultsOfWaves'
    BY DEF ResultsOfWaves, Dispatch, Good
  <1>4. NothingLeft' /\ LastStep'
    BY DEF NothingLeft, LastStep, Dispatch, Failed, ResponseIffUseful,
           BlamedForOwnFailure, Good
  <1> QED BY <1>1, <1>2, <1>3, <1>4

LEMMA StepIInv == IInv /\ [RequestNext]_requestVars => IInv'
  <1> SUFFICES ASSUME IInv, [RequestNext]_requestVars PROVE IInv'
    OBVIOUS
  <1> USE DEF IInv
  <1>1. CASE RejectBackoff
    <2>1. NoResults /\ Remaining = {} /\ Remaining' = {}
      BY <1>1 DEF RejectBackoff, ranking, Remaining, Pool, AllOver, Budgeted,
                  Unattempted, InBackoff
    <2>2. RequestTypeOK' /\ Resting' /\ ResultsOfWaves'
      BY <1>1 DEF RejectBackoff, Finish, ranking, RequestTypeOK, Resting, ResultsOfWaves,
                  BacksOffFamily, Good, Outcome
    <2>3. NothingLeft' /\ LastStep'
      BY <1>1, <2>1 DEF RejectBackoff, Finish, NothingLeft, LastStep, NoResults,
                        ResponseIffUseful, BlamedForOwnFailure, Good
    <2> QED BY <2>2, <2>3
  <1>2. CASE Exhausted
    <2>1. Remaining' = {}
      BY <1>2 DEF Exhausted, ranking, Remaining, Pool, AllOver, Budgeted,
                  Unattempted, InBackoff
    <2>2. RequestTypeOK' /\ Resting' /\ ResultsOfWaves'
      BY <1>2 DEF Exhausted, Finish, ranking, RequestTypeOK, Resting, ResultsOfWaves,
                  BacksOffFamily, Good, Outcome
    <2>3. NothingLeft' /\ LastStep'
      BY <1>2, <2>1 DEF Exhausted, Finish, NothingLeft, LastStep, NoResults,
                        ResponseIffUseful, BlamedForOwnFailure, Good, Failed
    <2> QED BY <2>2, <2>3
  <1>3. CASE Select
    BY <1>3, DispatchKeeps DEF Select, SelectForced, SelectBounded, SelectWave
  <1>4. ASSUME NEW c \in Candidate, NEW result \in Result \ {"none"}, Complete(c, result)
        PROVE  IInv'
    <2>1. c \in wave /\ c \in attempted /\ phase = "invoke" /\ phase' = "invoke"
      BY <1>4 DEF Complete, RequestTypeOK
    <2>2. RequestTypeOK'
      BY <1>4 DEF Complete, RequestTypeOK, ranking
    <2>3. Resting'
      BY <1>4, <2>1 DEF Complete, RequestTypeOK, Resting, BacksOffFamily
    <2>4. ResultsOfWaves'
      BY <1>4, <2>1 DEF Complete, RequestTypeOK, ResultsOfWaves, Good
    <2>5. NothingLeft' /\ LastStep'
      BY <1>4, <2>1 DEF Complete, NothingLeft, LastStep, Failed, ResponseIffUseful,
                        BlamedForOwnFailure
    <2> QED BY <2>2, <2>3, <2>4, <2>5
  <1>5. CASE EarlyDeadline
    BY <1>5 DEF EarlyDeadline, ranking, RequestTypeOK, Resting, ResultsOfWaves, NothingLeft,
                LastStep, Failed, ResponseIffUseful, BlamedForOwnFailure, Good,
                BacksOffFamily
  <1>6. CASE HardDeadline
    <2>1. /\ phase = "invoke" /\ phase' = "invoke" /\ UNCHANGED <<wave, attempted, throttled>>
          /\ \A c \in Candidate : results'[c] # results[c] => c \in wave /\ results'[c] = "error"
      BY <1>6 DEF HardDeadline, RequestTypeOK
    <2>2. RequestTypeOK'
      BY <1>6 DEF HardDeadline, RequestTypeOK, ranking, Result, Failure
    <2>3. Resting' /\ ResultsOfWaves'
      BY <2>1 DEF Resting, ResultsOfWaves, BacksOffFamily, Good, RequestTypeOK
    <2>4. NothingLeft' /\ LastStep'
      BY <1>6, <2>1 DEF HardDeadline, NothingLeft, LastStep, Failed, ResponseIffUseful,
                        BlamedForOwnFailure
    <2> QED BY <2>2, <2>3, <2>4
  <1>7. CASE EndWave
    <2>1. RequestTypeOK'
      BY <1>7 DEF EndWave, RequestTypeOK, ranking
    <2>2. Resting'
      BY <1>7 DEF EndWave, Resting, BacksOffFamily
    <2>3. ResultsOfWaves'
      BY <1>7 DEF EndWave, ResultsOfWaves, Good
    <2>4. phase' = "judge" => \E c \in Candidate : Good(c)'
      BY <1>7 DEF EndWave, Good, RequestTypeOK
    <2>5. NothingLeft' /\ LastStep'
      BY <1>7, <2>4 DEF EndWave, NothingLeft, LastStep, Failed, ResponseIffUseful,
                        BlamedForOwnFailure
    <2> QED BY <2>1, <2>2, <2>3, <2>5
  <1>8. CASE Judge
    <2>1. Remaining' = Remaining
      BY <1>8 DEF Judge, ranking, Remaining, Pool, AllOver, Budgeted, Unattempted,
                  InBackoff
    <2>2. RequestTypeOK' /\ Resting' /\ ResultsOfWaves'
      BY <1>8 DEF Judge, Finish, ranking, RequestTypeOK, Resting, ResultsOfWaves,
                  BacksOffFamily, Good, Outcome, RecordedHealth
    <2>3. NothingLeft'
      BY <1>8, <2>1 DEF Judge, Finish, NothingLeft, Failed, Good
    <2>4. LastStep'
      BY <1>8 DEF Judge, Finish, LastStep, ResponseIffUseful, BlamedForOwnFailure,
                  RecordedHealth, RequestTypeOK
    <2> QED BY <2>2, <2>3, <2>4
  <1>9. CASE JudgeSaveFails
    <2>1. PICK done \in SUBSET attempted :
            recorded' = [c \in Candidate |-> IF c \in done THEN RecordedHealth(c) ELSE recorded[c]]
      BY <1>9 DEF JudgeSaveFails
    <2>2. RequestTypeOK' /\ Resting' /\ ResultsOfWaves'
      BY <1>9, <2>1 DEF JudgeSaveFails, Finish, ranking, RequestTypeOK, Resting,
                        ResultsOfWaves, BacksOffFamily, Good, Outcome, RecordedHealth
    <2>3. NothingLeft' /\ LastStep'
      BY <1>9, <2>1 DEF JudgeSaveFails, Finish, NothingLeft, Failed, LastStep,
                        ResponseIffUseful, BlamedForOwnFailure, RecordedHealth, RequestTypeOK
    <2> QED BY <2>2, <2>3
  <1>10. CASE UNCHANGED requestVars
    BY <1>10 DEF requestVars, ranking, RequestTypeOK, Resting, ResultsOfWaves, NothingLeft, LastStep,
                 Failed, ResponseIffUseful, BlamedForOwnFailure, Good, BacksOffFamily,
                 Remaining, Pool, AllOver, Budgeted, Unattempted, InBackoff
  <1> QED
    BY <1>1, <1>2, <1>3, <1>4, <1>5, <1>6, <1>7, <1>8, <1>9, <1>10 DEF RequestNext

THEOREM Inductive == RequestSpec => []IInv
  BY InitIInv, StepIInv, PTL DEF RequestSpec

(* Types, and that what runs was marked as attempted. *)
THEOREM OrchestrationTypes == RequestSpec => []RequestTypeOK
  BY Inductive, PTL DEF IInv

(* complete_inner never sends a later wave to a family that this request saw
   refusing or failing. *)
THEOREM FamiliesRest == RequestSpec => []ThrottledFamilyRests
  <1>1. IInv => ThrottledFamilyRests
    BY DEF IInv, Resting, ThrottledFamilyRests, BacksOffFamily, Remaining, Pool,
           AllOver, Budgeted, Unattempted
  <1> QED BY <1>1, Inductive, PTL

(* complete_inner returns a response exactly when it has a useful one, unless
   a metrics save fails. *)
THEOREM UsefulAnswerReturned == RequestSpec => []ResponseIffUseful
  BY Inductive, PTL DEF IInv, LastStep

(* The judging loop blames a candidate only for its own failure. *)
THEOREM FairBlame == RequestSpec => []BlamedForOwnFailure
  BY Inductive, PTL DEF IInv, LastStep

(* complete_inner gives up only when no candidate is left to try. *)
THEOREM GiveUpIsLast == RequestSpec => []GivesUpLast
  <1>1. IInv => GivesUpLast
    BY DEF IInv, NothingLeft, GivesUpLast, Remaining, Pool, AllOver, Budgeted,
           Unattempted
  <1> QED BY <1>1, Inductive, PTL

-----------------------------------------------------------------------------
(* The selection functions                                                 *)

\* What holds at 0 and is passed on holds up to N.
LEMMA UpTo ==
  ASSUME NEW N \in Nat, NEW P, 0 \in P, \A n \in 1 .. N : n - 1 \in P => n \in P
  PROVE  \A n \in 0 .. N : n \in P
<1> SUFFICES ASSUME NEW k \in 0 .. N, k \notin P PROVE FALSE
  OBVIOUS
<1> DEFINE Bad == {n \in 0 .. N : n \notin P}
<1>1. Bad # {} /\ Bad \in SUBSET Nat
  <2>1. 0 .. N \subseteq Nat
    OBVIOUS
  <2> QED
    BY <2>1
<1>2. PICK m \in Bad : \A i \in Bad : ~(<<i, m>> \in OpToRel(<, Nat))
  BY <1>1, WFMin, NatLessThanWellFounded
<1>3. m \in 0 .. N /\ m \notin P /\ \A i \in Bad : ~(i < m)
  BY <1>1, <1>2 DEF OpToRel
<1>4. m \in 1 .. N /\ m - 1 \in 0 .. N /\ m - 1 < m
  BY <1>3
<1>5. m - 1 \in P
  BY <1>3, <1>4
<1> QED
  BY <1>3, <1>4, <1>5

\* A recursion over 0 .. N whose values stay in U exists.
Recurses(N, U, start, step, t) ==
  t \in [0 .. N -> U] /\ \A n \in 0 .. N : t[n] = IF n = 0 THEN start ELSE step[n][t[n - 1]]

LEMMA Recursion ==
  ASSUME NEW N \in Nat, NEW U, NEW start \in U, NEW step \in [1 .. N -> [U -> U]]
  PROVE  \E t : Recurses(N, U, start, step, t)
<1> DEFINE Upto(m, t) == \A n \in 0 .. m : t[n] = IF n = 0 THEN start ELSE step[n][t[n - 1]]
           P == {m \in 0 .. N : \E t \in [0 .. m -> U] : Upto(m, t)}
<1>1. 0 \in P
  <2> DEFINE t == [n \in 0 .. 0 |-> start]
  <2>1. t \in [0 .. 0 -> U] /\ \A n \in 0 .. 0 : n = 0 /\ t[n] = start
    OBVIOUS
  <2>2. Upto(0, t)
    BY <2>1
  <2>3. 0 \in 0 .. N
    OBVIOUS
  <2> HIDE DEF t, Upto
  <2>4. \E s \in [0 .. 0 -> U] : Upto(0, s)
    BY <2>1, <2>2
  <2> QED
    BY <2>3, <2>4
<1>2. ASSUME NEW m \in 1 .. N, m - 1 \in P PROVE m \in P
  <2>1. PICK t \in [0 .. (m - 1) -> U] : Upto(m - 1, t)
    BY <1>2
  <2> DEFINE s == [n \in 0 .. m |-> IF n = m THEN step[m][t[m - 1]] ELSE t[n]]
  <2>2. m - 1 \in 0 .. (m - 1) /\ m - 1 \in Int /\ m \in Int /\ m > 0
    OBVIOUS
  <2>3. step[m][t[m - 1]] \in U
    BY <2>1, <2>2
  <2>4. \A n \in 0 .. m : n = m \/ n \in 0 .. (m - 1)
    OBVIOUS
  <2>5. s \in [0 .. m -> U]
    BY <2>1, <2>3, <2>4
  <2>6. ASSUME NEW n \in 0 .. m PROVE s[n] = IF n = 0 THEN start ELSE step[n][s[n - 1]]
    <3>1. CASE n = m
      <4>1. n - 1 \in 0 .. m /\ n - 1 # m /\ n # 0
        BY <2>2, <3>1
      <4>2. s[n - 1] = t[m - 1] /\ s[n] = step[m][t[m - 1]]
        BY <3>1, <4>1
      <4> QED
        BY <3>1, <4>1, <4>2
    <3>2. CASE n # m
      <4>1. n \in 0 .. (m - 1) /\ s[n] = t[n]
        BY <2>4, <3>2
      <4>2. n # 0 => n - 1 \in 0 .. m /\ n - 1 # m
        BY <4>1
      <4>3. n # 0 => s[n - 1] = t[n - 1]
        BY <4>2
      <4>4. t[n] = IF n = 0 THEN start ELSE step[n][t[n - 1]]
        BY <2>1, <4>1
      <4> QED
        BY <4>1, <4>3, <4>4
    <3> QED
      BY <3>1, <3>2
  <2> HIDE DEF s
  <2>7. m \in 0 .. N
    OBVIOUS
  <2> QED
    BY <2>5, <2>6, <2>7
<1>3. \A n \in 0 .. N : n \in P
  <2> HIDE DEF P
  <2> QED
    BY <1>1, <1>2, UpTo
<1>4. N \in P
  BY <1>3
<1> QED
  BY <1>4 DEF Recurses

\* How the two loops run.
AmongRun(list, S, t) ==
  /\ t \in [0 .. Len(list) -> Seq(Known)] /\ t[0] = <<>>
  /\ \A n \in 1 .. Len(list) :
       t[n] = IF list[n] \in S THEN Append(t[n - 1], list[n]) ELSE t[n - 1]

LEMMA AmongRuns ==
  ASSUME NEW list \in Seq(Known), NEW S
  PROVE  \E t : AmongRun(list, S, t) /\ Among(list, S) = t[Len(list)]
<1> DEFINE N == Len(list)
           U == Seq(Known)
           step == [n \in 1 .. N |-> [acc \in U |-> IF list[n] \in S THEN Append(acc, list[n]) ELSE acc]]
           Is(t) == t = [n \in 0 .. N |->
                           IF n = 0 THEN <<>>
                           ELSE IF list[n] \in S THEN Append(t[n - 1], list[n]) ELSE t[n - 1]]
           kept == CHOOSE t : Is(t)
<1>1. N \in Nat /\ <<>> \in U /\ \A n \in 1 .. N : list[n] \in Known
  OBVIOUS
<1>2. step \in [1 .. N -> [U -> U]]
  <2>1. ASSUME NEW n \in 1 .. N, NEW acc \in U PROVE (IF list[n] \in S THEN Append(acc, list[n]) ELSE acc) \in U
    BY <1>1
  <2> QED
    BY <2>1
<1>3. \A n \in 1 .. N : \A acc \in U : step[n][acc] = IF list[n] \in S THEN Append(acc, list[n]) ELSE acc
  OBVIOUS
<1> HIDE DEF step, U
<1>4. PICK t : Recurses(N, U, <<>>, step, t)
  <2> HIDE DEF N
  <2> QED
    BY <1>1, <1>2, Recursion
<1>5. \A n \in 1 .. N : n \in 0 .. N /\ n - 1 \in 0 .. N /\ n # 0
  BY <1>1
<1>6. ASSUME NEW n \in 0 .. N
      PROVE  t[n] = IF n = 0 THEN <<>> ELSE IF list[n] \in S THEN Append(t[n - 1], list[n]) ELSE t[n - 1]
  <2>1. n # 0 => n \in 1 .. N
    BY <1>1
  <2>2. n # 0 => t[n - 1] \in U
    BY <1>4, <1>5, <2>1 DEF Recurses
  <2> QED
    BY <1>3, <1>4, <2>1, <2>2 DEF Recurses
<1>7. Is(t)
  <2> HIDE DEF N
  <2> QED
    BY <1>4, <1>6 DEF Recurses
<1> HIDE DEF N
<1>8. Is(kept)
  <2> HIDE DEF Is
  <2> QED
    BY <1>7
<1>9. \A n \in 0 .. N : kept[n] = IF n = 0 THEN <<>> ELSE IF list[n] \in S THEN Append(kept[n - 1], list[n]) ELSE kept[n - 1]
  <2> HIDE DEF kept
  <2> QED
    BY <1>8
<1>10. Among(list, S) = kept[N]
  BY DEF Among, N
<1> HIDE DEF kept
<1>11. \A n \in 0 .. N : kept[n] \in U
  <2> DEFINE P == {n \in 0 .. N : kept[n] \in U}
  <2>1. 0 \in P
    <3>1. 0 \in 0 .. N
      BY <1>1
    <3>2. kept[0] = <<>>
      BY <1>9, <3>1
    <3> QED
      BY <1>1, <3>1, <3>2
  <2>2. ASSUME NEW n \in 1 .. N, n - 1 \in P PROVE n \in P
    <3>1. kept[n - 1] \in Seq(Known) /\ list[n] \in Known
      BY <1>1, <2>2 DEF U
    <3>2. Append(kept[n - 1], list[n]) \in Seq(Known)
      BY <3>1
    <3>3. kept[n] = IF list[n] \in S THEN Append(kept[n - 1], list[n]) ELSE kept[n - 1]
      BY <1>5, <1>9
    <3> QED
      BY <1>5, <3>1, <3>2, <3>3 DEF U
  <2>3. \A n \in 0 .. N : n \in P
    <3> HIDE DEF P
    <3> QED
      BY <1>1, <2>1, <2>2, UpTo
  <2> QED
    BY <2>3
<1>12. kept \in [0 .. N -> U]
  <2>1. kept = [n \in 0 .. N |-> kept[n]]
    BY <1>8
  <2> QED
    BY <1>11, <2>1
<1>13. kept[0] = <<>> /\ \A n \in 1 .. N : kept[n] = IF list[n] \in S THEN Append(kept[n - 1], list[n]) ELSE kept[n - 1]
  BY <1>1, <1>5, <1>9
<1> QED
  BY <1>10, <1>12, <1>13 DEF AmongRun, N, U

Refuses(acc, c, target, dedup, distinctFamilies) ==
  \/ Len(acc) >= target
  \/ c \in Range(acc)
  \/ distinctFamilies /\ family[c] \in Families(acc)
  \/ dedup /\ model[c] \in Models(acc)

PassRun(ordered, start, target, dedup, distinctFamilies, t) ==
  /\ t \in [0 .. Len(ordered) -> Seq(Known)] /\ t[0] = start
  /\ \A n \in 1 .. Len(ordered) :
       t[n] = IF Refuses(t[n - 1], ordered[n], target, dedup, distinctFamilies)
              THEN t[n - 1] ELSE Append(t[n - 1], ordered[n])

LEMMA PassRuns ==
  ASSUME NEW ordered \in Seq(Known), NEW start \in Seq(Known), NEW target, NEW dedup, NEW distinctFamilies
  PROVE  \E t : /\ PassRun(ordered, start, target, dedup, distinctFamilies, t)
                /\ Pass(ordered, start, target, dedup, distinctFamilies) = t[Len(ordered)]
<1> DEFINE N == Len(ordered)
           U == Seq(Known)
           no(acc, c) == Refuses(acc, c, target, dedup, distinctFamilies)
           step == [n \in 1 .. N |-> [acc \in U |-> IF no(acc, ordered[n]) THEN acc ELSE Append(acc, ordered[n])]]
           Is(t) == t = [n \in 0 .. N |->
                           IF n = 0 THEN start
                           ELSE IF no(t[n - 1], ordered[n]) THEN t[n - 1] ELSE Append(t[n - 1], ordered[n])]
           taken == CHOOSE t : Is(t)
<1>1. N \in Nat /\ start \in U /\ \A n \in 1 .. N : ordered[n] \in Known
  OBVIOUS
<1>10. Pass(ordered, start, target, dedup, distinctFamilies) = taken[N]
  BY DEF Pass, Refuses, N
<1> HIDE DEF no
<1>2. step \in [1 .. N -> [U -> U]]
  <2>1. ASSUME NEW n \in 1 .. N, NEW acc \in U PROVE (IF no(acc, ordered[n]) THEN acc ELSE Append(acc, ordered[n])) \in U
    BY <1>1
  <2> QED
    BY <2>1
<1>3. \A n \in 1 .. N : \A acc \in U : step[n][acc] = IF no(acc, ordered[n]) THEN acc ELSE Append(acc, ordered[n])
  OBVIOUS
<1> HIDE DEF step, U
<1>4. PICK t : Recurses(N, U, start, step, t)
  <2> HIDE DEF N
  <2> QED
    BY <1>1, <1>2, Recursion
<1>5. \A n \in 1 .. N : n \in 0 .. N /\ n - 1 \in 0 .. N /\ n # 0
  BY <1>1
<1>6. ASSUME NEW n \in 0 .. N
      PROVE  t[n] = IF n = 0 THEN start ELSE IF no(t[n - 1], ordered[n]) THEN t[n - 1] ELSE Append(t[n - 1], ordered[n])
  <2>1. n # 0 => n \in 1 .. N
    BY <1>1
  <2>2. n # 0 => t[n - 1] \in U
    BY <1>4, <1>5, <2>1 DEF Recurses
  <2> QED
    BY <1>3, <1>4, <2>1, <2>2 DEF Recurses
<1>7. Is(t)
  <2> HIDE DEF N
  <2> QED
    BY <1>4, <1>6 DEF Recurses
<1> HIDE DEF N
<1>8. Is(taken)
  <2> HIDE DEF Is
  <2> QED
    BY <1>7
<1>9. \A n \in 0 .. N : taken[n] = IF n = 0 THEN start ELSE IF no(taken[n - 1], ordered[n]) THEN taken[n - 1] ELSE Append(taken[n - 1], ordered[n])
  <2> HIDE DEF taken
  <2> QED
    BY <1>8
<1> HIDE DEF taken
<1>11. \A n \in 0 .. N : taken[n] \in U
  <2> DEFINE P == {n \in 0 .. N : taken[n] \in U}
  <2>1. 0 \in P
    BY <1>1, <1>9
  <2>2. ASSUME NEW n \in 1 .. N, n - 1 \in P PROVE n \in P
    <3>1. taken[n - 1] \in Seq(Known) /\ ordered[n] \in Known
      BY <1>1, <2>2 DEF U
    <3>2. Append(taken[n - 1], ordered[n]) \in Seq(Known)
      BY <3>1
    <3>3. taken[n] = IF no(taken[n - 1], ordered[n]) THEN taken[n - 1] ELSE Append(taken[n - 1], ordered[n])
      BY <1>5, <1>9
    <3> QED
      BY <1>5, <3>1, <3>2, <3>3 DEF U
  <2>3. \A n \in 0 .. N : n \in P
    <3> HIDE DEF P
    <3> QED
      BY <1>1, <2>1, <2>2, UpTo
  <2> QED
    BY <2>3
<1>12. taken \in [0 .. N -> U]
  <2>1. taken = [n \in 0 .. N |-> taken[n]]
    BY <1>8
  <2> QED
    BY <1>11, <2>1
<1>13. taken[0] = start /\ \A n \in 1 .. N :
         taken[n] = IF no(taken[n - 1], ordered[n]) THEN taken[n - 1] ELSE Append(taken[n - 1], ordered[n])
  BY <1>1, <1>5, <1>9
<1> QED
  BY <1>10, <1>12, <1>13 DEF PassRun, N, U, no

-----------------------------------------------------------------------------
(* Lists of candidates                                                     *)

\* No two places of a list agree in f.
Apart(f, s) == \A i, j \in DOMAIN s : f[s[i]] = f[s[j]] => i = j

LEMMA Places ==
  ASSUME NEW T, NEW s \in Seq(T)
  PROVE  /\ Len(s) \in Nat /\ DOMAIN s = 1 .. Len(s)
         /\ Range(s) = {s[i] : i \in 1 .. Len(s)} /\ Range(s) \subseteq T
         /\ s # <<>> => Len(s) >= 1 /\ Head(s) = s[1] /\ s[1] \in Range(s)
         /\ Len(s) >= 1 => s # <<>>
         /\ s = <<>> => Range(s) = {}
BY DEF Range

LEMMA Appended ==
  ASSUME NEW T, NEW s \in Seq(T), NEW x \in T
  PROVE  /\ Append(s, x) \in Seq(T) /\ Len(Append(s, x)) = Len(s) + 1
         /\ \A i \in 1 .. Len(s) : Append(s, x)[i] = s[i]
         /\ Append(s, x)[Len(s) + 1] = x
         /\ Range(Append(s, x)) = Range(s) \cup {x}
         /\ x \notin Range(s) /\ IsInjective(s) => IsInjective(Append(s, x))
         /\ \A f : Apart(f, s) /\ f[x] \notin {f[c] : c \in Range(s)} => Apart(f, Append(s, x))
<1> DEFINE a == Append(s, x)
           L == Len(s)
<1>1. L \in Nat /\ DOMAIN s = 1 .. L /\ DOMAIN a = 1 .. (L + 1) /\ a \in Seq(T) /\ Len(a) = L + 1
  OBVIOUS
<1>2. (\A i \in 1 .. L : a[i] = s[i]) /\ a[L + 1] = x
  OBVIOUS
<1>3. \A i \in 1 .. (L + 1) : i \in 1 .. L \/ i = L + 1
  BY <1>1
<1>4. \A i \in 1 .. L : i \in 1 .. (L + 1)
  BY <1>1
<1>5. L + 1 \in 1 .. (L + 1)
  BY <1>1
<1> HIDE DEF a, L
<1>6. Range(a) = {a[i] : i \in 1 .. (L + 1)} /\ Range(s) = {s[i] : i \in 1 .. L}
  BY <1>1 DEF Range
<1>7. Range(a) = Range(s) \cup {x}
  BY <1>2, <1>3, <1>4, <1>5, <1>6
<1>8. x \notin Range(s) /\ IsInjective(s) => IsInjective(a)
  BY <1>1, <1>2, <1>3, <1>6 DEF IsInjective
<1>9. ASSUME NEW f, Apart(f, s), f[x] \notin {f[c] : c \in Range(s)} PROVE Apart(f, a)
  <2>1. \A i \in 1 .. L : f[s[i]] # f[x]
    BY <1>6, <1>9
  <2> QED
    BY <1>1, <1>2, <1>3, <1>9, <2>1 DEF Apart
<1> QED
  BY <1>1, <1>2, <1>7, <1>8, <1>9 DEF a, L

LEMMA Joined ==
  ASSUME NEW T, NEW s \in Seq(T), NEW u \in Seq(T)
  PROVE  /\ s \o u \in Seq(T) /\ Len(s \o u) = Len(s) + Len(u)
         /\ \A i \in 1 .. Len(s) : (s \o u)[i] = s[i]
         /\ \A i \in 1 .. (Len(s) + Len(u)) : i > Len(s) => i - Len(s) \in 1 .. Len(u) /\ (s \o u)[i] = u[i - Len(s)]
         /\ Range(s \o u) = Range(s) \cup Range(u)
         /\ IsInjective(s) /\ IsInjective(u) /\ Range(s) \cap Range(u) = {} => IsInjective(s \o u)
<1> DEFINE a == s \o u
           L == Len(s)
           M == Len(u)
<1>1. /\ L \in Nat /\ M \in Nat /\ DOMAIN s = 1 .. L /\ DOMAIN u = 1 .. M
      /\ DOMAIN a = 1 .. (L + M) /\ a \in Seq(T) /\ Len(a) = L + M
  OBVIOUS
<1>2. /\ \A i \in 1 .. L : i \in 1 .. (L + M) /\ a[i] = s[i]
      /\ \A i \in 1 .. (L + M) : i > L => i - L \in 1 .. M /\ a[i] = u[i - L]
      /\ \A i \in 1 .. M : i + L \in 1 .. (L + M) /\ a[i + L] = u[i] 
  OBVIOUS
<1> HIDE DEF a, L, M
<1>3. \A i \in 1 .. (L + M) : i \in 1 .. L \/ i > L
  BY <1>1
<1>6. Range(a) = {a[i] : i \in 1 .. (L + M)} /\ Range(s) = {s[i] : i \in 1 .. L} /\ Range(u) = {u[i] : i \in 1 .. M}
  BY <1>1 DEF Range
<1>7. Range(a) = Range(s) \cup Range(u)
  <2>1. Range(a) \subseteq Range(s) \cup Range(u)
    BY <1>2, <1>3, <1>6
  <2>2. Range(s) \subseteq Range(a)
    BY <1>2, <1>6
  <2>3. Range(u) \subseteq Range(a)
    BY <1>2, <1>6
  <2> QED
    BY <2>1, <2>2, <2>3
<1>8. ASSUME IsInjective(s), IsInjective(u), Range(s) \cap Range(u) = {} PROVE IsInjective(a)
  <2> SUFFICES ASSUME NEW i \in 1 .. (L + M), NEW j \in 1 .. (L + M), a[i] = a[j] PROVE i = j
    BY <1>1 DEF IsInjective
  <2>1. CASE i \in 1 .. L /\ j \in 1 .. L
    BY <1>1, <1>2, <1>8, <2>1 DEF IsInjective
  <2>2. CASE i > L /\ j > L
    <3>1. i - L \in 1 .. M /\ j - L \in 1 .. M /\ u[i - L] = u[j - L]
      BY <1>2, <2>2
    <3>2. i - L = j - L
      BY <1>1, <1>8, <3>1 DEF IsInjective
    <3> QED
      BY <1>1, <3>2
  <2>3. \A k, l \in 1 .. (L + M) : k \in 1 .. L /\ l > L => a[k] # a[l]
    BY <1>2, <1>6, <1>8
  <2> QED
    BY <1>3, <2>1, <2>2, <2>3
<1> QED
  BY <1>1, <1>2, <1>7, <1>8 DEF a, L, M

LEMMA Cut ==
  ASSUME NEW T, NEW s \in Seq(T), NEW m \in 1 .. (Len(s) + 1), NEW n \in 0 .. Len(s), m <= n + 1
  PROVE  /\ SubSeq(s, m, n) \in Seq(T) /\ Len(SubSeq(s, m, n)) = n - m + 1
         /\ \A i \in 1 .. (n - m + 1) : SubSeq(s, m, n)[i] = s[i + m - 1]
         /\ Range(SubSeq(s, m, n)) = {s[i] : i \in m .. n}
         /\ IsInjective(s) => IsInjective(SubSeq(s, m, n))
         /\ \A f : Apart(f, s) => Apart(f, SubSeq(s, m, n))
<1> DEFINE a == SubSeq(s, m, n)
           L == Len(s)
           M == n - m + 1
<1>1. L \in Nat /\ M \in Nat /\ m \in Nat /\ n \in Nat /\ m >= 1 /\ n <= L /\ DOMAIN s = 1 .. L
  OBVIOUS
<1>2. a \in Seq(T) /\ Len(a) = M /\ DOMAIN a = 1 .. M
  BY <1>1
<1>3. \A i \in 1 .. M : a[i] = s[i + m - 1]
  BY <1>1
<1>4. \A i \in 1 .. M : i + m - 1 \in m .. n /\ i + m - 1 \in 1 .. L
  BY <1>1
<1>5. \A i \in m .. n : i - m + 1 \in 1 .. M /\ (i - m + 1) + m - 1 = i
  BY <1>1
<1> HIDE DEF a
<1>6. Range(a) = {s[i] : i \in m .. n}
  <2>1. Range(a) = {a[i] : i \in 1 .. M}
    BY <1>2 DEF Range
  <2>2. Range(a) \subseteq {s[i] : i \in m .. n}
    BY <1>3, <1>4, <2>1
  <2>3. ASSUME NEW i \in m .. n PROVE s[i] \in Range(a)
    <3>1. a[i - m + 1] = s[i]
      BY <1>3, <1>5
    <3> QED
      BY <1>5, <2>1, <3>1
  <2> QED
    BY <2>2, <2>3
<1> HIDE DEF M, L
<1>7. \A i, j \in 1 .. M : i + m - 1 = j + m - 1 => i = j
  BY <1>1
<1>8. IsInjective(s) => IsInjective(a)
  BY <1>1, <1>2, <1>3, <1>4, <1>7 DEF IsInjective
<1>9. ASSUME NEW f, Apart(f, s) PROVE Apart(f, a)
  <2> SUFFICES ASSUME NEW i \in 1 .. M, NEW j \in 1 .. M, f[a[i]] = f[a[j]] PROVE i = j
    BY <1>2 DEF Apart
  <2>1. f[s[i + m - 1]] = f[s[j + m - 1]]
    BY <1>3
  <2>2. i + m - 1 = j + m - 1
    BY <1>1, <1>4, <1>9, <2>1 DEF Apart
  <2> QED
    BY <1>7, <2>2
<1> QED
  BY <1>2, <1>3, <1>6, <1>8, <1>9 DEF a, M

\* A list that repeats nobody is as long as the set of what is in it.
LEMMA Counted ==
  ASSUME NEW T, NEW s \in Seq(T)
  PROVE  /\ IsFiniteSet(Range(s)) /\ Cardinality(Range(s)) \in Nat /\ Cardinality(Range(s)) <= Len(s)
         /\ IsInjective(s) => Cardinality(Range(s)) = Len(s)
<1> DEFINE D == 1 .. Len(s)
<1>1. Len(s) \in Nat /\ DOMAIN s = D /\ Range(s) = {s[i] : i \in D} /\ s \in [D -> Range(s)]
  BY Places DEF Range
<1>2. IsFiniteSet(D) /\ Cardinality(D) = Len(s)
  BY <1>1, FS_Interval
<1> HIDE DEF D
<1>3. s \in Surjection(D, Range(s))
  BY <1>1 DEF Surjection
<1>4. IsInjective(s) => s \in Injection(D, Range(s))
  BY <1>1 DEF Injection
<1>5. /\ IsFiniteSet(Range(s)) /\ Cardinality(Range(s)) <= Cardinality(D)
      /\ Cardinality(Range(s)) = Cardinality(D) <=> s \in Injection(D, Range(s))
  BY <1>2, <1>3, FS_Surjection
<1> QED
  BY <1>2, <1>4, <1>5, FS_CardinalityType

LEMMA Reversed ==
  ASSUME NEW T, NEW s \in Seq(T)
  PROVE  /\ Reverse(s) \in Seq(T) /\ Range(Reverse(s)) = Range(s)
         /\ IsInjective(s) => IsInjective(Reverse(s))
<1> DEFINE a == Reverse(s)
           L == Len(s)
<1>1. L \in Nat /\ DOMAIN s = 1 .. L /\ Range(s) = {s[i] : i \in 1 .. L}
  BY Places
<1>2. \A i \in 1 .. L : L - i + 1 \in 1 .. L /\ L - (L - i + 1) + 1 = i /\ s[i] \in T
  BY <1>1
<1>3. a = [i \in 1 .. L |-> s[L - i + 1]]
  BY DEF Reverse
<1> HIDE DEF a
<1>4. a \in Seq(T) /\ DOMAIN a = 1 .. L /\ \A i \in 1 .. L : a[i] = s[L - i + 1]
  BY <1>1, <1>2, <1>3
<1> HIDE DEF L
<1>5. Range(a) = {a[i] : i \in 1 .. L}
  BY <1>4 DEF Range
<1>6. Range(a) \subseteq Range(s)
  BY <1>1, <1>2, <1>4, <1>5
<1>7. ASSUME NEW i \in 1 .. L PROVE s[i] \in Range(a)
  <2>1. a[L - i + 1] = s[i]
    BY <1>2, <1>4
  <2> QED
    BY <1>2, <1>5, <2>1
<1>8. ASSUME IsInjective(s) PROVE IsInjective(a)
  <2> SUFFICES ASSUME NEW i \in 1 .. L, NEW j \in 1 .. L, a[i] = a[j] PROVE i = j
    BY <1>4 DEF IsInjective
  <2>1. L - i + 1 = L - j + 1
    BY <1>1, <1>2, <1>4, <1>8 DEF IsInjective
  <2> QED
    BY <1>1, <2>1
<1> QED
  BY <1>1, <1>4, <1>5, <1>6, <1>7, <1>8 DEF a

LEMMA AmongKeeps ==
  ASSUME NEW list \in Seq(Known), NEW S
  PROVE  /\ Among(list, S) \in Seq(Known)
         /\ Range(Among(list, S)) = Range(list) \cap S
         /\ IsInjective(list) => IsInjective(Among(list, S))
         /\ Range(list) \subseteq S => Among(list, S) = list
<1> DEFINE N == Len(list)
<1>1. PICK t : AmongRun(list, S, t) /\ Among(list, S) = t[N]
  BY AmongRuns
<1>2. N \in Nat /\ DOMAIN list = 1 .. N /\ Range(list) = {list[i] : i \in 1 .. N}
  BY Places
<1>3. \A n \in 1 .. N : list[n] \in Known
  OBVIOUS
<1> HIDE DEF N
<1>4. \A n \in 0 .. N : t[n] \in Seq(Known)
  BY <1>1 DEF AmongRun, N
<1>5. t[0] = <<>> /\ \A n \in 1 .. N : t[n] = IF list[n] \in S THEN Append(t[n - 1], list[n]) ELSE t[n - 1]
  BY <1>1 DEF AmongRun, N
<1> DEFINE Goes(n) ==
             /\ Range(t[n]) = {list[i] : i \in 1 .. n} \cap S
             /\ IsInjective(list) => IsInjective(t[n])
             /\ Range(list) \subseteq S => Len(t[n]) = n /\ \A i \in 1 .. n : t[n][i] = list[i]
           P == {n \in 0 .. N : Goes(n)}
<1>6. 0 \in P
  <2>1. 0 \in 0 .. N
    BY <1>2
  <2>2. Range(t[0]) = {} /\ IsInjective(t[0]) /\ Len(t[0]) = 0
    BY <1>5 DEF Range, IsInjective
  <2>3. 1 .. 0 = {}
    OBVIOUS
  <2> QED
    BY <2>1, <2>2, <2>3
<1>7. ASSUME NEW n \in 1 .. N, n - 1 \in P PROVE n \in P
  <2>1. n \in 0 .. N /\ n - 1 \in 0 .. N /\ n - 1 \in Nat /\ n \in Nat /\ n \notin 1 .. (n - 1) /\ (n - 1) + 1 = n
    BY <1>2
  <2>2. \A i \in 1 .. n : i \in 1 .. N /\ (i = n \/ i \in 1 .. (n - 1))
    BY <1>2
  <2>3. \A i \in 1 .. (n - 1) : i \in 1 .. n
    BY <2>1
  <2>4. t[n - 1] \in Seq(Known) /\ list[n] \in Known
    BY <1>3, <1>4, <2>1
  <2>5. Goes(n - 1)
    BY <1>7
  <2>6. n \in 1 .. n
    BY <2>1
  <2>7. {list[i] : i \in 1 .. n} = {list[i] : i \in 1 .. (n - 1)} \cup {list[n]}
    BY <2>2, <2>3, <2>6
  <2>8. CASE list[n] \in S
    <3>1. t[n] = Append(t[n - 1], list[n])
      BY <1>5, <2>8
    <3>2. Range(t[n]) = Range(t[n - 1]) \cup {list[n]}
      BY <2>4, <3>1, Appended
    <3>3. Range(t[n]) = {list[i] : i \in 1 .. n} \cap S
      BY <2>5, <2>7, <2>8, <3>2
    <3>4. ASSUME IsInjective(list) PROVE IsInjective(t[n])
      <4>1. \A i \in 1 .. (n - 1) : list[i] # list[n]
        BY <1>2, <2>1, <2>2, <2>3, <3>4 DEF IsInjective
      <4>2. list[n] \notin Range(t[n - 1])
        BY <2>5, <4>1
      <4> QED
        BY <2>4, <2>5, <3>1, <3>4, <4>2, Appended
    <3>5. ASSUME Range(list) \subseteq S PROVE Len(t[n]) = n /\ \A i \in 1 .. n : t[n][i] = list[i]
      <4>1. Len(t[n - 1]) = n - 1
        BY <2>5, <3>5
      <4>2. Len(t[n]) = n /\ t[n][n] = list[n] /\ \A i \in 1 .. (n - 1) : t[n][i] = t[n - 1][i]
        BY <2>1, <2>4, <3>1, <4>1, Appended
      <4> QED
        BY <2>2, <2>5, <3>5, <4>2
    <3> QED
      BY <2>1, <3>3, <3>4, <3>5
  <2>9. CASE list[n] \notin S
    <3>1. t[n] = t[n - 1]
      BY <1>5, <2>9
    <3>2. Range(t[n]) = {list[i] : i \in 1 .. n} \cap S
      BY <2>5, <2>7, <2>9, <3>1
    <3>3. ~(Range(list) \subseteq S)
      BY <1>2, <2>9
    <3> QED
      BY <2>1, <2>5, <3>1, <3>2, <3>3
  <2> QED
    BY <2>8, <2>9
<1>8. N \in P
  <2> HIDE DEF P
  <2>1. \A n \in 0 .. N : n \in P
    BY <1>2, <1>6, <1>7, UpTo
  <2> QED
    BY <1>2, <2>1
<1>9. Goes(N) /\ t[N] \in Seq(Known)
  BY <1>4, <1>8
<1>10. ASSUME Range(list) \subseteq S PROVE t[N] = list
  <2>1. Len(t[N]) = Len(list) /\ \A i \in 1 .. Len(list) : t[N][i] = list[i]
    BY <1>9, <1>10 DEF N
  <2> HIDE DEF Goes
  <2> QED
    BY <1>9, <2>1
<1> QED
  BY <1>1, <1>2, <1>9, <1>10

\* c is the first of its model in the list.
FirstOfModel(list, c) ==
  \A i, j \in DOMAIN list : list[i] = c /\ model[list[j]] = model[c] => i <= j

Alike(start, t) == Len(start) <= Len(t) /\ \A i \in 1 .. Len(start) : t[i] = start[i]

\* What a pass refuses for other reasons than the size of the wave.
Barred(acc, c, dedup, distinctFamilies) ==
  \/ c \in Range(acc)
  \/ distinctFamilies /\ family[c] \in Families(acc)
  \/ dedup /\ model[c] \in Models(acc)

\* Where a pass has got to after n candidates.
PassedTo(ordered, start, target, dedup, distinctFamilies, n, acc) ==
  /\ Alike(start, acc)
  /\ Range(acc) \subseteq Range(start) \cup {ordered[i] : i \in 1 .. n}
  /\ IsInjective(start) => IsInjective(acc)
  /\ Len(start) <= target => Len(acc) <= target
  /\ Len(start) >= target => acc = start
  /\ dedup /\ Apart(model, start) => Apart(model, acc)
  /\ distinctFamilies /\ Apart(family, start) => Apart(family, acc)
  /\ Len(acc) < target => \A i \in 1 .. n : Barred(acc, ordered[i], dedup, distinctFamilies)
  /\ start = <<>> /\ target >= 1 /\ n >= 1 => Len(acc) >= 1 /\ acc[1] = ordered[1]
  /\ dedup /\ IsInjective(ordered) =>
       \A c \in Range(acc) : c \in Range(start) \/ FirstOfModel(ordered, c)

LEMMA PassStarts ==
  ASSUME NEW ordered \in Seq(Known), NEW start \in Seq(Known), NEW target \in Nat,
         NEW dedup, NEW distinctFamilies
  PROVE  PassedTo(ordered, start, target, dedup, distinctFamilies, 0, start)
<1>1. 1 .. 0 = {} /\ ~(0 >= 1) /\ Len(start) \in Nat
  OBVIOUS
<1>2. Alike(start, start)
  BY <1>1 DEF Alike
<1> QED
  BY <1>1, <1>2 DEF PassedTo

LEMMA PassSteps ==
  ASSUME SelectionConstants,
         NEW ordered \in Seq(Known), NEW start \in Seq(Known), NEW target \in Nat,
         NEW dedup, NEW distinctFamilies,
         NEW n \in 1 .. Len(ordered), NEW acc \in Seq(Known),
         PassedTo(ordered, start, target, dedup, distinctFamilies, n - 1, acc)
  PROVE  PassedTo(ordered, start, target, dedup, distinctFamilies, n,
                  IF Refuses(acc, ordered[n], target, dedup, distinctFamilies)
                  THEN acc ELSE Append(acc, ordered[n]))
<1> DEFINE N == Len(ordered)
           c == ordered[n]
           b == Append(acc, c)
<1>1. N \in Nat /\ DOMAIN ordered = 1 .. N /\ c \in Known /\ Len(acc) \in Nat /\ Len(start) \in Nat
  OBVIOUS
<1>2. n \in Nat /\ n - 1 \in Nat /\ n >= 1 /\ (\A i \in 1 .. n : i = n \/ i \in 1 .. (n - 1)) /\ n \in 1 .. n
  BY <1>1
<1>3. \A i \in 1 .. (n - 1) : i \in 1 .. n /\ i \in 1 .. N
  BY <1>1
<1>4. {ordered[i] : i \in 1 .. (n - 1)} \subseteq {ordered[i] : i \in 1 .. n} /\ c \in {ordered[i] : i \in 1 .. n}
  BY <1>2, <1>3
<1>5. Range(acc) = {acc[i] : i \in 1 .. Len(acc)} /\ (acc = <<>> => Range(acc) = {}) /\ DOMAIN acc = 1 .. Len(acc)
      /\ Range(acc) \subseteq Known /\ DOMAIN start = 1 .. Len(start)
  BY Places
<1>6. PassedTo(ordered, start, target, dedup, distinctFamilies, n - 1, acc)
  OBVIOUS
<1> HIDE DEF N
<1>7. CASE Refuses(acc, c, target, dedup, distinctFamilies)
  <2>1. Range(acc) \subseteq Range(start) \cup {ordered[i] : i \in 1 .. n}
    BY <1>4, <1>6 DEF PassedTo
  <2>2. Len(acc) < target => \A i \in 1 .. n : Barred(acc, ordered[i], dedup, distinctFamilies)
    <3>1. Len(acc) < target => Barred(acc, c, dedup, distinctFamilies)
      BY <1>1, <1>7 DEF Refuses, Barred
    <3>2. Len(acc) < target => \A i \in 1 .. (n - 1) : Barred(acc, ordered[i], dedup, distinctFamilies)
      BY <1>6 DEF PassedTo
    <3> QED
      BY <1>2, <3>1, <3>2
  <2>3. ASSUME start = <<>>, target >= 1 PROVE Len(acc) >= 1 /\ acc[1] = ordered[1]
    <3>1. CASE n = 1
      <4>1. Len(acc) = 0
        <5>1. Range(start) = {}
          BY <2>3, Places
        <5>2. 1 .. (n - 1) = {}
          BY <3>1
        <5>3. Range(acc) = {}
          BY <1>6, <5>1, <5>2 DEF PassedTo
        <5> QED
          BY <1>1, <5>3, Places
      <4>2. acc = <<>>
        BY <4>1
      <4>3. ~Barred(acc, c, dedup, distinctFamilies)
        BY <1>5, <4>2 DEF Barred, Families, Models
      <4> QED
        BY <1>7, <2>3, <4>1, <4>3 DEF Refuses, Barred
    <3>2. CASE n # 1
      <4>1. n - 1 >= 1
        BY <1>2, <3>2
      <4> QED
        BY <1>6, <2>3, <4>1 DEF PassedTo
    <3> QED
      BY <3>1, <3>2
  <2>4. PassedTo(ordered, start, target, dedup, distinctFamilies, n, acc)
    BY <1>6, <2>1, <2>2, <2>3 DEF PassedTo
  <2> QED
    BY <1>7, <2>4
<1>8. CASE ~Refuses(acc, c, target, dedup, distinctFamilies)
  <2>1. /\ b \in Seq(Known) /\ Len(b) = Len(acc) + 1 /\ b[Len(acc) + 1] = c
        /\ \A i \in 1 .. Len(acc) : b[i] = acc[i]
        /\ Range(b) = Range(acc) \cup {c}
        /\ c \notin Range(acc) /\ IsInjective(acc) => IsInjective(b)
        /\ \A f : Apart(f, acc) /\ f[c] \notin {f[d] : d \in Range(acc)} => Apart(f, b)
    BY <1>1, Appended
  <2> HIDE DEF b, c
  <2>2. /\ Len(acc) < target /\ c \notin Range(acc)
        /\ distinctFamilies => family[c] \notin Families(acc)
        /\ dedup => model[c] \notin Models(acc)
    BY <1>1, <1>8 DEF Refuses
  <2>3. Alike(start, b)
    BY <1>1, <1>6, <2>1 DEF PassedTo, Alike
  <2>4. Range(b) \subseteq Range(start) \cup {ordered[i] : i \in 1 .. n}
    BY <1>4, <1>6, <2>1 DEF PassedTo
  <2>5. IsInjective(start) => IsInjective(b)
    BY <1>6, <2>1, <2>2 DEF PassedTo
  <2>6. Len(b) <= target /\ ~(Len(start) >= target)
    BY <1>1, <1>6, <2>1, <2>2 DEF PassedTo, Alike
  <2>7. dedup /\ Apart(model, start) => Apart(model, b)
    BY <1>6, <2>1, <2>2 DEF PassedTo, Models
  <2>8. distinctFamilies /\ Apart(family, start) => Apart(family, b)
    BY <1>6, <2>1, <2>2 DEF PassedTo, Families
  <2>9. ASSUME NEW i \in 1 .. n PROVE Barred(b, ordered[i], dedup, distinctFamilies)
    <3>1. CASE i = n
      <4>1. ordered[i] \in Range(b)
        BY <2>1, <3>1 DEF c
      <4> QED
        BY <4>1 DEF Barred
    <3>2. CASE i \in 1 .. (n - 1)
      <4>1. Barred(acc, ordered[i], dedup, distinctFamilies)
        BY <1>6, <2>2, <3>2 DEF PassedTo
      <4>2. Range(acc) \subseteq Range(b) /\ Families(acc) \subseteq Families(b) /\ Models(acc) \subseteq Models(b)
        BY <2>1 DEF Families, Models
      <4> QED
        BY <4>1, <4>2 DEF Barred
    <3> QED
      BY <1>2, <3>1, <3>2
  <2>10. ASSUME start = <<>>, target >= 1 PROVE Len(b) >= 1 /\ b[1] = ordered[1]
    <3>1. CASE n = 1
      <4>1. Len(acc) = 0
        <5>1. Range(start) = {}
          BY <2>10, Places
        <5>2. 1 .. (n - 1) = {}
          BY <3>1
        <5>3. Range(acc) = {}
          BY <1>6, <5>1, <5>2 DEF PassedTo
        <5> QED
          BY <1>1, <5>3, Places
      <4> QED
        BY <2>1, <3>1, <4>1 DEF c
    <3>2. CASE n # 1
      <4>1. n - 1 >= 1
        BY <1>2, <3>2
      <4>2. Len(acc) >= 1 /\ acc[1] = ordered[1]
        BY <1>6, <2>10, <4>1 DEF PassedTo
      <4> QED
        BY <1>1, <2>1, <4>2
    <3> QED
      BY <3>1, <3>2
  <2>11. ASSUME dedup, IsInjective(ordered), NEW d \in Range(b)
         PROVE  d \in Range(start) \/ FirstOfModel(ordered, d)
    <3>1. CASE d \in Range(acc)
      BY <1>6, <2>11, <3>1 DEF PassedTo
    <3>2. CASE d = c
      <4> SUFFICES ASSUME NEW i \in 1 .. N, NEW j \in 1 .. N, ordered[i] = c, model[ordered[j]] = model[c], ~(i <= j)
                   PROVE  FALSE
        BY <1>1, <3>2 DEF FirstOfModel
      <4>1. i = n
        BY <1>1, <2>11 DEF IsInjective, c, N
      <4>2. j \in 1 .. (n - 1)
        BY <1>1, <4>1
      <4>3. Barred(acc, ordered[j], dedup, distinctFamilies)
        BY <1>6, <2>2, <4>2 DEF PassedTo
      <4>4. ordered[j] \in Known /\ c \in Known
        BY DEF N, c
      <4>5. family[ordered[j]] = family[c]
        BY <4>4 DEF SelectionConstants
      <4>6. ordered[j] \in Range(acc) => model[c] \in Models(acc)
        BY DEF Models
      <4> QED
        BY <2>2, <2>11, <4>3, <4>5, <4>6 DEF Barred
    <3> QED
      BY <2>1, <3>1, <3>2
  <2>12. PassedTo(ordered, start, target, dedup, distinctFamilies, n, b)
    BY <2>3, <2>4, <2>5, <2>6, <2>7, <2>8, <2>9, <2>10, <2>11 DEF PassedTo
  <2> QED
    BY <1>8, <2>12 DEF b, c
<1> QED
  BY <1>7, <1>8

LEMMA PassEnds ==
  ASSUME SelectionConstants,
         NEW ordered \in Seq(Known), NEW start \in Seq(Known), NEW target \in Nat,
         NEW dedup, NEW distinctFamilies
  PROVE  /\ Pass(ordered, start, target, dedup, distinctFamilies) \in Seq(Known)
         /\ PassedTo(ordered, start, target, dedup, distinctFamilies, Len(ordered),
                     Pass(ordered, start, target, dedup, distinctFamilies))
<1> DEFINE N == Len(ordered)
<1>1. PICK t : /\ PassRun(ordered, start, target, dedup, distinctFamilies, t)
               /\ Pass(ordered, start, target, dedup, distinctFamilies) = t[N]
  BY PassRuns
<1>2. N \in Nat
  OBVIOUS
<1> HIDE DEF N
<1>3. \A n \in 0 .. N : t[n] \in Seq(Known)
  BY <1>1 DEF PassRun, N
<1>4. t[0] = start /\ \A n \in 1 .. N :
        t[n] = IF Refuses(t[n - 1], ordered[n], target, dedup, distinctFamilies)
               THEN t[n - 1] ELSE Append(t[n - 1], ordered[n])
  BY <1>1 DEF PassRun, N
<1> DEFINE P == {n \in 0 .. N : PassedTo(ordered, start, target, dedup, distinctFamilies, n, t[n])}
<1>5. 0 \in P
  <2>1. 0 \in 0 .. N
    BY <1>2
  <2> QED
    BY <1>4, <2>1, PassStarts
<1>6. ASSUME NEW n \in 1 .. N, n - 1 \in P PROVE n \in P
  <2>1. n \in 0 .. N /\ n - 1 \in 0 .. N /\ n \in 1 .. Len(ordered)
    BY <1>2 DEF N
  <2>2. PassedTo(ordered, start, target, dedup, distinctFamilies, n - 1, t[n - 1]) /\ t[n - 1] \in Seq(Known)
    BY <1>3, <1>6, <2>1
  <2>3. PassedTo(ordered, start, target, dedup, distinctFamilies, n, t[n])
    BY <1>4, <2>1, <2>2, PassSteps
  <2> QED
    BY <2>1, <2>3
<1>7. N \in P
  <2> HIDE DEF P
  <2>1. \A n \in 0 .. N : n \in P
    BY <1>2, <1>5, <1>6, UpTo
  <2> QED
    BY <1>2, <2>1
<1>8. N \in 0 .. N
  BY <1>2
<1> QED
  BY <1>1, <1>3, <1>7, <1>8 DEF N

LEMMA BestOfRanked ==
  ASSUME NEW ranked \in Seq(Known), NEW healthy
  PROVE  BestLocal(ranked, healthy) \in Range(ranked) \cup {NoCand}
<1> DEFINE locals == Among(ranked, local)
           fit    == Among(locals, healthy)
<1>1. locals \in Seq(Known) /\ Range(locals) \subseteq Range(ranked)
  BY AmongKeeps
<1>2. BestLocal(ranked, healthy) = IF fit # <<>> THEN Head(fit) ELSE IF locals # <<>> THEN Head(locals) ELSE NoCand
  BY DEF BestLocal
<1> HIDE DEF locals
<1>3. fit \in Seq(Known) /\ Range(fit) \subseteq Range(ranked)
  BY <1>1, AmongKeeps
<1> HIDE DEF fit
<1>4. (fit # <<>> => Head(fit) \in Range(fit)) /\ (locals # <<>> => Head(locals) \in Range(locals))
  BY <1>1, <1>3, Places
<1> QED
  BY <1>1, <1>2, <1>3, <1>4

\* The wave with the fallback is the wave, the wave and the fallback, or a full wave
\* whose last choice the fallback has replaced.
LEMMA EnsureShape ==
  ASSUME SelectionConstants, NEW selected \in Seq(Known), NEW fallback \in Known \cup {NoCand},
         NEW target \in Nat, NEW dedup, Len(selected) <= target
  PROVE  LET r == EnsureLocal(selected, fallback, target, dedup) IN
         \/ /\ r = selected
            /\ \/ fallback = NoCand \/ fallback \in Range(selected)
               \/ (dedup /\ model[fallback] \in Models(selected)) \/ target < 2
         \/ /\ fallback \in Known \ Range(selected) /\ (dedup => model[fallback] \notin Models(selected))
            /\ \/ r = Append(selected, fallback) /\ Len(selected) < target
               \/ r = Append(SubSeq(selected, 1, Len(selected) - 1), fallback) /\ Len(selected) = target /\ target >= 2
<1>1. Len(selected) \in Nat /\ NoCand \notin Known
  BY DEF SelectionConstants
<1>2. Front(selected) = SubSeq(selected, 1, Len(selected) - 1)
  BY DEF Front
<1>3. Len(selected) < target \/ Len(selected) = target
  BY <1>1
<1>4. CASE fallback = NoCand \/ fallback \in Range(selected) \/ (dedup /\ model[fallback] \in Models(selected))
  BY <1>4 DEF EnsureLocal
<1>5. CASE ~(fallback = NoCand \/ fallback \in Range(selected) \/ (dedup /\ model[fallback] \in Models(selected)))
  <2>1. fallback \in Known \ Range(selected) /\ (dedup => model[fallback] \notin Models(selected))
    BY <1>5
  <2>2. CASE Len(selected) < target
    <3>1. EnsureLocal(selected, fallback, target, dedup) = Append(selected, fallback)
      BY <1>5, <2>2 DEF EnsureLocal
    <3> QED
      BY <2>1, <2>2, <3>1
  <2>3. CASE ~(Len(selected) < target) /\ target >= 2
    <3>1. EnsureLocal(selected, fallback, target, dedup) = Append(SubSeq(selected, 1, Len(selected) - 1), fallback)
      BY <1>2, <1>5, <2>3 DEF EnsureLocal
    <3> QED
      BY <1>3, <2>1, <2>3, <3>1
  <2>4. CASE ~(Len(selected) < target) /\ ~(target >= 2)
    <3>1. EnsureLocal(selected, fallback, target, dedup) = selected
      BY <1>5, <2>4 DEF EnsureLocal
    <3> QED
      BY <2>4, <3>1
  <2> QED
    BY <2>2, <2>3, <2>4
<1> QED
  BY <1>4, <1>5

LEMMA FrontOf ==
  ASSUME NEW T, NEW s \in Seq(T), Len(s) >= 1
  PROVE  LET r == SubSeq(s, 1, Len(s) - 1) IN
         /\ r \in Seq(T) /\ Len(r) = Len(s) - 1 /\ (\A i \in 1 .. (Len(s) - 1) : r[i] = s[i])
         /\ Range(r) = {s[i] : i \in 1 .. (Len(s) - 1)} /\ Range(r) \subseteq Range(s)
         /\ (IsInjective(s) => IsInjective(r)) /\ \A f : Apart(f, s) => Apart(f, r)
<1>1. Len(s) \in Nat /\ 1 \in 1 .. (Len(s) + 1) /\ Len(s) - 1 \in 0 .. Len(s) /\ 1 <= (Len(s) - 1) + 1
      /\ (Len(s) - 1) - 1 + 1 = Len(s) - 1
  OBVIOUS
<1>2. \A i \in 1 .. (Len(s) - 1) : i + 1 - 1 = i /\ i \in 1 .. Len(s)
  BY <1>1
<1>3. Range(s) = {s[i] : i \in 1 .. Len(s)}
  BY Places
<1> DEFINE r == SubSeq(s, 1, Len(s) - 1)
           n == Len(s) - 1
<1>4. /\ r \in Seq(T) /\ Len(r) = n - 1 + 1 /\ (\A i \in 1 .. (n - 1 + 1) : r[i] = s[i + 1 - 1])
      /\ Range(r) = {s[i] : i \in 1 .. n}
      /\ (IsInjective(s) => IsInjective(r)) /\ \A f : Apart(f, s) => Apart(f, r)
  <2>1. n \in 0 .. Len(s) /\ 1 <= n + 1
    BY <1>1
  <2> HIDE DEF n
  <2>2. /\ SubSeq(s, 1, n) \in Seq(T) /\ Len(SubSeq(s, 1, n)) = n - 1 + 1
        /\ (\A i \in 1 .. (n - 1 + 1) : SubSeq(s, 1, n)[i] = s[i + 1 - 1])
        /\ Range(SubSeq(s, 1, n)) = {s[i] : i \in 1 .. n}
        /\ (IsInjective(s) => IsInjective(SubSeq(s, 1, n)))
        /\ \A f : Apart(f, s) => Apart(f, SubSeq(s, 1, n))
    BY <1>1, <2>1, Cut
  <2> QED
    BY <2>2 DEF n
<1>5. n - 1 + 1 = n
  BY <1>1
<1> HIDE DEF r
<1>6. Len(r) = n /\ \A i \in 1 .. n : r[i] = s[i]
  BY <1>2, <1>4, <1>5
<1>7. Range(r) \subseteq Range(s)
  BY <1>2, <1>3, <1>4
<1> QED
  BY <1>4, <1>6, <1>7 DEF r

LEMMA EnsureKeeps ==
  ASSUME SelectionConstants, NEW selected \in Seq(Known), NEW fallback \in Known \cup {NoCand},
         NEW target \in Nat, NEW dedup, Len(selected) <= target
  PROVE  LET r == EnsureLocal(selected, fallback, target, dedup) IN
         /\ r \in Seq(Known) /\ Len(r) <= target
         /\ Range(r) \subseteq Range(selected) \cup ({fallback} \ {NoCand})
         /\ IsInjective(selected) => IsInjective(r)
         /\ dedup /\ Apart(model, selected) => Apart(model, r)
         /\ Len(selected) >= 1 => Len(r) >= 1 /\ r[1] = selected[1]
         /\ target >= 2 /\ fallback # NoCand =>
              fallback \in Range(r) \/ (dedup /\ model[fallback] \in Models(r))
<1> DEFINE r == EnsureLocal(selected, fallback, target, dedup)
           front == SubSeq(selected, 1, Len(selected) - 1)
<1>1. Len(selected) \in Nat /\ NoCand \notin Known
  BY DEF SelectionConstants
<1>2. CASE r = selected /\ (\/ fallback = NoCand \/ fallback \in Range(selected)
                            \/ (dedup /\ model[fallback] \in Models(selected)) \/ target < 2)
  <2> HIDE DEF r
  <2>1. target >= 2 /\ fallback # NoCand =>
              fallback \in Range(r) \/ (dedup /\ model[fallback] \in Models(r))
    BY <1>2
  <2> QED
    BY <1>2, <2>1 DEF r
<1>3. CASE /\ fallback \in Known \ Range(selected) /\ (dedup => model[fallback] \notin Models(selected))
           /\ \/ r = Append(selected, fallback) /\ Len(selected) < target
              \/ r = Append(front, fallback) /\ Len(selected) = target /\ target >= 2
  <2>1. PICK base \in Seq(Known) :
          /\ r = Append(base, fallback) /\ Len(base) + 1 <= target /\ Range(base) \subseteq Range(selected)
          /\ (IsInjective(selected) => IsInjective(base)) /\ (Apart(model, selected) => Apart(model, base))
          /\ Len(selected) >= 1 => Len(base) >= 1 /\ base[1] = selected[1]
    <3>1. CASE r = Append(selected, fallback) /\ Len(selected) < target
      <4>1. Len(selected) + 1 <= target
        BY <1>1, <3>1
      <4> QED
        BY <3>1, <4>1
    <3>2. CASE r = Append(front, fallback) /\ Len(selected) = target /\ target >= 2
      <4>1. /\ front \in Seq(Known) /\ Len(front) = Len(selected) - 1 /\ (\A i \in 1 .. (Len(selected) - 1) : front[i] = selected[i])
            /\ Range(front) \subseteq Range(selected)
            /\ (IsInjective(selected) => IsInjective(front)) /\ (Apart(model, selected) => Apart(model, front))
        BY <1>1, <3>2, FrontOf
      <4>2. Len(front) + 1 <= target /\ Len(front) >= 1 /\ 1 \in 1 .. (Len(selected) - 1)
        BY <1>1, <3>2, <4>1
      <4> HIDE DEF front, r
      <4> QED
        BY <3>2, <4>1, <4>2
    <3> QED
      BY <1>3, <3>1, <3>2
  <2> HIDE DEF r
  <2>2. /\ r \in Seq(Known) /\ Len(r) = Len(base) + 1
        /\ \A i \in 1 .. Len(base) : r[i] = base[i]
        /\ Range(r) = Range(base) \cup {fallback}
        /\ fallback \notin Range(base) /\ IsInjective(base) => IsInjective(r)
        /\ \A f : Apart(f, base) /\ f[fallback] \notin {f[c] : c \in Range(base)} => Apart(f, r)
    BY <1>3, <2>1, Appended
  <2>3. Range(r) \subseteq Range(selected) \cup ({fallback} \ {NoCand}) /\ fallback \in Range(r)
    BY <1>1, <1>3, <2>1, <2>2
  <2>4. IsInjective(selected) => IsInjective(r)
    BY <1>3, <2>1, <2>2
  <2>5. dedup /\ Apart(model, selected) => Apart(model, r)
    <3>1. dedup => model[fallback] \notin {model[c] : c \in Range(base)}
      BY <1>3, <2>1 DEF Models
    <3> QED
      BY <2>1, <2>2, <3>1
  <2>6. Len(base) \in Nat
    OBVIOUS
  <2>7. Len(selected) >= 1 => Len(r) >= 1 /\ r[1] = selected[1]
    BY <2>1, <2>2, <2>6
  <2> QED
    BY <2>1, <2>2, <2>3, <2>4, <2>5, <2>7 DEF r
<1> QED
  BY <1>2, <1>3, EnsureShape

\* What a ranked selection is built from: the first choices of the families, the wave
\* filled up, and the fallback.
FirstChoices(ordered, max, dedup) == Pass(ordered, <<>>, AtLeast1(max), dedup, TRUE)
FilledWave(ordered, max, dedup) ==
  Pass(ordered, FirstChoices(ordered, max, dedup), AtLeast1(max), dedup, FALSE)
FallbackOf(ranked, healthy, max) ==
  IF AtLeast1(max) >= 2 THEN BestLocal(ranked, healthy) ELSE NoCand

RankedFrom(ranked, ordered, healthy, max, dedup) ==
  /\ AtLeast1(max) \in Nat /\ AtLeast1(max) >= 1
  /\ FirstChoices(ordered, max, dedup) \in Seq(Known)
  /\ FilledWave(ordered, max, dedup) \in Seq(Known)
  /\ Len(FilledWave(ordered, max, dedup)) <= AtLeast1(max)
  /\ PassedTo(ordered, <<>>, AtLeast1(max), dedup, TRUE, Len(ordered), FirstChoices(ordered, max, dedup))
  /\ PassedTo(ordered, FirstChoices(ordered, max, dedup), AtLeast1(max), dedup, FALSE, Len(ordered),
              FilledWave(ordered, max, dedup))
  /\ FallbackOf(ranked, healthy, max) \in Range(ranked) \cup {NoCand}
  /\ SelectRanked(ranked, ordered, healthy, max, dedup) =
       EnsureLocal(FilledWave(ordered, max, dedup), FallbackOf(ranked, healthy, max), AtLeast1(max), dedup)
  /\ Range(FilledWave(ordered, max, dedup)) \subseteq Range(ordered)

LEMMA RankedWave ==
  ASSUME SelectionConstants, NEW ranked \in Seq(Known), NEW ordered \in Seq(Known),
         NEW healthy, NEW max \in Nat, NEW dedup
  PROVE  RankedFrom(ranked, ordered, healthy, max, dedup)
<1> DEFINE target   == AtLeast1(max)
           distinct == FirstChoices(ordered, max, dedup)
           filled   == FilledWave(ordered, max, dedup)
           fallback == FallbackOf(ranked, healthy, max)
           s        == SelectRanked(ranked, ordered, healthy, max, dedup)
<1>1. target \in Nat /\ target >= 1
  BY DEF AtLeast1
<1>2. s = EnsureLocal(filled, fallback, target, dedup)
  BY DEF SelectRanked, FilledWave, FirstChoices, FallbackOf
<1>3. fallback \in Range(ranked) \cup {NoCand}
  BY BestOfRanked DEF FallbackOf
<1>4. <<>> \in Seq(Known) /\ Len(<<>>) = 0 /\ Range(<<>>) = {}
  BY DEF Range
<1> HIDE DEF target
<1>5. distinct \in Seq(Known) /\ PassedTo(ordered, <<>>, target, dedup, TRUE, Len(ordered), distinct)
  BY <1>1, <1>4, PassEnds DEF FirstChoices, target
<1>6. filled \in Seq(Known) /\ PassedTo(ordered, distinct, target, dedup, FALSE, Len(ordered), filled)
  BY <1>1, <1>5, PassEnds DEF FilledWave, target
<1> HIDE DEF distinct, filled
<1>7. Len(distinct) <= target
  BY <1>1, <1>4, <1>5 DEF PassedTo
<1>8. Len(filled) <= target
  BY <1>6, <1>7 DEF PassedTo
<1>9. Range(ordered) = {ordered[i] : i \in 1 .. Len(ordered)}
  BY Places
<1>10. Range(distinct) \subseteq Range(ordered)
  BY <1>4, <1>5, <1>9 DEF PassedTo
<1>11. Range(filled) \subseteq Range(ordered)
  BY <1>6, <1>9, <1>10 DEF PassedTo
<1> QED
  BY <1>1, <1>2, <1>3, <1>5, <1>6, <1>8, <1>11 DEF target, distinct, filled, RankedFrom

\* The wave of a ranked selection.
IsRankedWave(ranked, ordered, healthy, max, dedup, s) ==
  /\ s \in Seq(Known) /\ Len(s) <= AtLeast1(max)
  /\ Range(s) \subseteq Range(ordered) \cup Range(ranked)
  /\ IsInjective(s)
  /\ dedup => Apart(model, s)
  /\ ordered # <<>> => Len(s) >= 1 /\ s[1] = ordered[1]
  /\ AtLeast1(max) >= 2 /\ BestLocal(ranked, healthy) # NoCand =>
       \/ BestLocal(ranked, healthy) \in Range(s)
       \/ dedup /\ model[BestLocal(ranked, healthy)] \in Models(s)

LEMMA RankedIsLawful ==
  ASSUME SelectionConstants, NEW ranked \in Seq(Known), NEW ordered \in Seq(Known),
         NEW healthy, NEW max \in Nat, NEW dedup
  PROVE  IsRankedWave(ranked, ordered, healthy, max, dedup, SelectRanked(ranked, ordered, healthy, max, dedup))
<1> DEFINE target   == AtLeast1(max)
           distinct == FirstChoices(ordered, max, dedup)
           filled   == FilledWave(ordered, max, dedup)
           fallback == FallbackOf(ranked, healthy, max)
           s        == SelectRanked(ranked, ordered, healthy, max, dedup)
<1>0. RankedFrom(ranked, ordered, healthy, max, dedup)
  BY RankedWave
<1>1. /\ target \in Nat /\ target >= 1
      /\ distinct \in Seq(Known) /\ filled \in Seq(Known) /\ Len(filled) <= target
      /\ PassedTo(ordered, <<>>, target, dedup, TRUE, Len(ordered), distinct)
      /\ PassedTo(ordered, distinct, target, dedup, FALSE, Len(ordered), filled)
      /\ fallback \in Range(ranked) \cup {NoCand}
      /\ s = EnsureLocal(filled, fallback, target, dedup)
      /\ Range(filled) \subseteq Range(ordered)
  BY <1>0 DEF RankedFrom
<1>2. target >= 2 => fallback = BestLocal(ranked, healthy)
  BY DEF FallbackOf
<1> HIDE DEF target, distinct, filled, fallback, s
<1>3. Range(ranked) \subseteq Known
  BY Places
<1>4. /\ s \in Seq(Known) /\ Len(s) <= target
      /\ Range(s) \subseteq Range(filled) \cup ({fallback} \ {NoCand})
      /\ IsInjective(filled) => IsInjective(s)
      /\ dedup /\ Apart(model, filled) => Apart(model, s)
      /\ Len(filled) >= 1 => Len(s) >= 1 /\ s[1] = filled[1]
      /\ target >= 2 /\ fallback # NoCand =>
           fallback \in Range(s) \/ (dedup /\ model[fallback] \in Models(s))
  BY <1>1, <1>3, EnsureKeeps
<1>5. IsInjective(<<>>) /\ (\A f : Apart(f, <<>>))
  BY DEF IsInjective, Apart
<1>6. IsInjective(distinct) /\ (dedup => Apart(model, distinct))
  BY <1>1, <1>5 DEF PassedTo
<1>7. IsInjective(filled) /\ (dedup => Apart(model, filled))
  BY <1>1, <1>6 DEF PassedTo
<1>8. ASSUME ordered # <<>> PROVE Len(filled) >= 1 /\ filled[1] = ordered[1]
  <2>1. Len(ordered) >= 1
    BY <1>8
  <2>2. Len(distinct) >= 1 /\ distinct[1] = ordered[1]
    BY <1>1, <2>1 DEF PassedTo
  <2>3. Alike(distinct, filled)
    BY <1>1 DEF PassedTo
  <2>4. Len(distinct) \in Nat /\ Len(filled) \in Nat
    BY <1>1
  <2>5. 1 \in 1 .. Len(distinct)
    BY <2>2, <2>4
  <2> QED
    BY <2>2, <2>3, <2>4, <2>5 DEF Alike
<1>9. Range(s) \subseteq Range(ordered) \cup Range(ranked)
  BY <1>1, <1>4
<1> QED
  BY <1>2, <1>4, <1>7, <1>8, <1>9, <1>1 DEF target, s, IsRankedWave

\* The wave of an adaptive selection, from its race.
IsAdaptiveWave(byEta, raced, max, dedup, race, s) ==
  /\ race \in Seq(Known) /\ Len(race) = raced
  /\ s \in Seq(Known) /\ Len(s) >= 1 /\ s[1] = byEta[1]
  /\ Range(s) \subseteq Range(race) /\ Range(race) \subseteq Range(byEta)
  /\ IsInjective(s) /\ (dedup => Apart(model, s))
  /\ raced <= AtLeast1(max) => Len(s) <= raced
  /\ raced <= AtLeast1(max) /\ Len(s) < raced =>
       \A i \in 1 .. raced : Barred(s, race[i], dedup, FALSE)
  /\ dedup /\ IsInjective(race) => \A c \in Range(s) : FirstOfModel(race, c)

LEMMA AdaptiveWave ==
  ASSUME SelectionConstants, NEW byEta \in Seq(Known), NEW raced \in 1 .. Len(byEta), NEW max \in Nat, NEW dedup
  PROVE  IsAdaptiveWave(byEta, raced, max, dedup, SubSeq(byEta, 1, raced), SelectAdaptive(byEta, raced, max, dedup))
<1> DEFINE race     == SubSeq(byEta, 1, raced)
           target   == IF raced <= AtLeast1(max) THEN raced ELSE AtLeast1(max)
           distinct == Pass(race, <<>>, target, dedup, TRUE)
           filled   == Pass(race, distinct, target, dedup, FALSE)
           s        == SelectAdaptive(byEta, raced, max, dedup)
<1>1. Len(byEta) \in Nat /\ raced \in Nat /\ raced >= 1 /\ raced \in 1 .. (Len(byEta) + 1) /\ byEta # <<>>
      /\ 1 \in 1 .. (Len(byEta) + 1) /\ raced \in 0 .. Len(byEta) /\ 1 <= raced + 1 /\ raced - 1 + 1 = raced
      /\ 1 \in 1 .. raced /\ 1 + 1 - 1 = 1 /\ 1 \in Nat
  OBVIOUS
<1>2. target \in Nat /\ target >= 1 /\ (raced <= AtLeast1(max) => target = raced)
  BY <1>1 DEF AtLeast1
<1>3. s = filled
  BY <1>1 DEF SelectAdaptive
<1>4. /\ race \in Seq(Known) /\ Len(race) = raced - 1 + 1 /\ \A i \in 1 .. (raced - 1 + 1) : race[i] = byEta[i + 1 - 1]
      /\ Range(race) = {byEta[i] : i \in 1 .. raced}
  BY <1>1, Cut
<1> HIDE DEF race, target, s
<1>5. Len(race) = raced /\ race[1] = byEta[1]
  BY <1>1, <1>4
<1>6. Range(byEta) = {byEta[i] : i \in 1 .. Len(byEta)} /\ Range(race) = {race[i] : i \in 1 .. Len(race)}
  BY <1>4, Places
<1>7. Range(race) \subseteq Range(byEta)
  <2>1. \A i \in 1 .. raced : i \in 1 .. Len(byEta)
    BY <1>1
  <2> QED
    BY <1>4, <1>6, <2>1
<1>8. <<>> \in Seq(Known) /\ Len(<<>>) = 0 /\ Range(<<>>) = {} /\ IsInjective(<<>>) /\ Apart(model, <<>>)
  BY DEF Range, IsInjective, Apart
<1>9. distinct \in Seq(Known) /\ PassedTo(race, <<>>, target, dedup, TRUE, Len(race), distinct)
  BY <1>2, <1>4, <1>8, PassEnds
<1> HIDE DEF distinct
<1>10. filled \in Seq(Known) /\ PassedTo(race, distinct, target, dedup, FALSE, Len(race), filled)
  BY <1>2, <1>4, <1>9, PassEnds
<1> HIDE DEF filled
<1>11. /\ Range(distinct) \subseteq Range(race) /\ IsInjective(distinct) /\ (dedup => Apart(model, distinct))
       /\ Len(distinct) <= target
  BY <1>2, <1>6, <1>8, <1>9 DEF PassedTo
<1>12. Len(distinct) >= 1 /\ distinct[1] = race[1]
  BY <1>1, <1>2, <1>5, <1>9 DEF PassedTo
<1>13. Len(filled) >= 1 /\ filled[1] = race[1]
  <2>1. Alike(distinct, filled)
    BY <1>10 DEF PassedTo
  <2>2. Len(distinct) \in Nat /\ Len(filled) \in Nat
    BY <1>9, <1>10
  <2>3. 1 \in 1 .. Len(distinct)
    BY <1>12, <2>2
  <2> QED
    BY <1>12, <2>1, <2>2, <2>3 DEF Alike
<1>14. /\ Range(filled) \subseteq Range(race) /\ IsInjective(filled) /\ (dedup => Apart(model, filled))
       /\ Len(filled) <= target
  BY <1>6, <1>10, <1>11 DEF PassedTo
<1>15. raced <= AtLeast1(max) => Len(filled) <= raced
  BY <1>2, <1>14
<1>16. raced <= AtLeast1(max) /\ Len(filled) < raced => \A i \in 1 .. raced : Barred(filled, race[i], dedup, FALSE)
  BY <1>2, <1>5, <1>10 DEF PassedTo
<1>17. dedup /\ IsInjective(race) => \A c \in Range(filled) : FirstOfModel(race, c)
  <2>1. dedup /\ IsInjective(race) => \A c \in Range(distinct) : FirstOfModel(race, c)
    BY <1>8, <1>9 DEF PassedTo
  <2> QED
    BY <1>10, <2>1 DEF PassedTo
<1> QED
  BY <1>3, <1>4, <1>5, <1>7, <1>10, <1>13, <1>14, <1>15, <1>16, <1>17 DEF race, s, IsAdaptiveWave

-----------------------------------------------------------------------------
(* The cases                                                               *)

Selections(in) ==
  [ranked |-> SelectRanked(in.by, Ordered(in), in.healthy, in.max, in.dedup),
   adaptive |-> [n \in 1..Len(in.by) |-> SelectAdaptive(in.by, n, in.max, in.dedup)],
   robin |-> [k \in 0..2 |-> ReorderRoundRobin(in.by, in.healthy, model[Head(in.by)], k)]]

IsInput(in) ==
  /\ in.by \in Seq(Known) /\ in.by # <<>> /\ IsInjective(in.by)
  /\ in.max \in Nat

Chosen == IsInput(input) /\ (output # <<>> => output = Selections(input))

LEMMA OrderedHas ==
  ASSUME NEW in, IsInput(in)
  PROVE  /\ Ordered(in) \in Seq(Known) /\ Range(Ordered(in)) = Range(in.by)
         /\ IsInjective(Ordered(in)) /\ Ordered(in) # <<>>
<1> DEFINE r == Reverse(in.by)
           h == Among(r, in.healthy)
           u == Among(r, Known \ in.healthy)
<1>1. r \in Seq(Known) /\ Range(r) = Range(in.by) /\ IsInjective(r)
  BY Reversed DEF IsInput
<1> HIDE DEF r
<1>2. /\ h \in Seq(Known) /\ Range(h) = Range(r) \cap in.healthy /\ IsInjective(h)
      /\ u \in Seq(Known) /\ Range(u) = Range(r) \cap (Known \ in.healthy) /\ IsInjective(u)
  BY <1>1, AmongKeeps
<1>3. Range(r) \subseteq Known /\ in.by[1] \in Range(in.by)
  BY <1>1, Places DEF IsInput
<1> HIDE DEF h, u
<1>4. Range(h) \cap Range(u) = {} /\ Range(h) \cup Range(u) = Range(in.by)
  BY <1>1, <1>2, <1>3
<1>5. h \o u \in Seq(Known) /\ Range(h \o u) = Range(in.by) /\ IsInjective(h \o u)
  <2>1. h \o u \in Seq(Known) /\ Range(h \o u) = Range(h) \cup Range(u)
    BY <1>2, Joined
  <2>2. IsInjective(h \o u)
    BY <1>2, <1>4, Joined
  <2> QED
    BY <1>4, <2>1, <2>2
<1>6. Ordered(in) = h \o u
  BY DEF Ordered, r, h, u
<1>7. Ordered(in) # <<>>
  BY <1>3, <1>5, <1>6, Places, ZenonT(60)
<1> QED
  BY <1>5, <1>6, <1>7

LEMMA RankedCases ==
  ASSUME SelectionConstants, Chosen, Done
  PROVE  WaveIsLawful /\ BestIsKept /\ LocalCovered
<1> DEFINE by == input.by
           o == Ordered(input)
           s == output.ranked
<1>1. /\ by \in Seq(Known) /\ by # <<>> /\ input.max \in Nat /\ output = Selections(input)
  BY DEF Chosen, IsInput, Done
<1>2. o \in Seq(Known) /\ Range(o) = Range(by) /\ o # <<>>
  BY OrderedHas DEF Chosen
<1>3. s = SelectRanked(by, o, input.healthy, input.max, input.dedup)
  BY <1>1 DEF Selections
<1> HIDE DEF by, o, s
<1>4. /\ s \in Seq(Known) /\ Len(s) <= AtLeast1(input.max)
      /\ Range(s) \subseteq Range(o) \cup Range(by)
      /\ IsInjective(s)
      /\ input.dedup => Apart(model, s)
      /\ o # <<>> => Len(s) >= 1 /\ s[1] = o[1]
      /\ AtLeast1(input.max) >= 2 /\ BestLocal(by, input.healthy) # NoCand =>
           \/ BestLocal(by, input.healthy) \in Range(s)
           \/ input.dedup /\ model[BestLocal(by, input.healthy)] \in Models(s)
  <2>1. IsRankedWave(by, o, input.healthy, input.max, input.dedup, s)
    BY <1>1, <1>2, <1>3, RankedIsLawful
  <2> QED
    BY <2>1 DEF IsRankedWave
<1>5. AtLeast1(input.max) \in Nat
  BY <1>1 DEF AtLeast1
<1>6. Len(s) \in 1 .. AtLeast1(input.max)
  BY <1>2, <1>4, <1>5
<1>7. WaveIsLawful
  BY <1>2, <1>4, <1>6 DEF WaveIsLawful, Target, Apart, s, by
<1>8. BestIsKept
  <2>1. Head(s) = s[1] /\ Head(o) = o[1]
    BY <1>2, <1>4, Places
  <2> QED
    BY <1>2, <1>4, <2>1 DEF BestIsKept, s, o
<1>9. LocalCovered
  BY <1>4 DEF LocalCovered, Target, s, by
<1> QED
  BY <1>7, <1>8, <1>9

LEMMA FamilyCases ==
  ASSUME SelectionConstants, Chosen, Done
  PROVE  FamiliesFirst
<1> DEFINE by == input.by
           o == Ordered(input)
           s == output.ranked
           target == AtLeast1(input.max)
           distinct == FirstChoices(o, input.max, input.dedup)
           filled == FilledWave(o, input.max, input.dedup)
           fallback == FallbackOf(by, input.healthy, input.max)
           best == BestLocal(by, input.healthy)
<1>1. /\ by \in Seq(Known) /\ by # <<>> /\ input.max \in Nat /\ output = Selections(input)
  BY DEF Chosen, IsInput, Done
<1>2. o \in Seq(Known) /\ Range(o) = Range(by) /\ o # <<>>
  BY OrderedHas DEF Chosen
<1>3. s = SelectRanked(by, o, input.healthy, input.max, input.dedup)
  BY <1>1 DEF Selections
<1> HIDE DEF by, o, s
<1>4. RankedFrom(by, o, input.healthy, input.max, input.dedup)
  BY <1>1, <1>2, RankedWave
<1>5. /\ target \in Nat /\ target >= 1
      /\ distinct \in Seq(Known) /\ filled \in Seq(Known) /\ Len(filled) <= target
      /\ PassedTo(o, <<>>, target, input.dedup, TRUE, Len(o), distinct)
      /\ PassedTo(o, distinct, target, input.dedup, FALSE, Len(o), filled)
      /\ fallback \in Range(by) \cup {NoCand}
      /\ s = EnsureLocal(filled, fallback, target, input.dedup)
  BY <1>3, <1>4 DEF RankedFrom
<1>6. fallback # NoCand => fallback = best
  BY DEF FallbackOf
<1>7. Range(by) \subseteq Known
  BY <1>1, Places
<1> HIDE DEF target, distinct, filled, fallback, best
<1>8. \/ s = filled
      \/ /\ fallback \in Known \ Range(filled)
         /\ \/ s = Append(filled, fallback)
            \/ s = Append(SubSeq(filled, 1, Len(filled) - 1), fallback) /\ Len(filled) = target /\ target >= 2
  BY <1>5, <1>7, EnsureShape
<1>9. Len(filled) \in Nat /\ Len(distinct) \in Nat /\ NoCand \notin Known /\ Alike(distinct, filled) /\ Len(distinct) <= Len(filled)
  BY <1>5 DEF PassedTo, Alike, SelectionConstants
<1>10. Apart(family, distinct) /\ Len(distinct) <= target
  <2>1. Apart(family, <<>>) /\ Len(<<>>) = 0
    BY DEF Apart
  <2> QED
    BY <1>5, <2>1 DEF PassedTo
<1>11. CASE Len(distinct) < target
  <2>1. \A i \in 1 .. Len(o) : Barred(distinct, o[i], input.dedup, TRUE)
    BY <1>5, <1>11 DEF PassedTo
  <2>2. ASSUME NEW i \in 1 .. Len(o) PROVE family[o[i]] \in Families(distinct)
    <3>1. o[i] \in Known /\ Range(distinct) \subseteq Known
      BY <1>2, <1>5, Places
    <3>2. CASE o[i] \in Range(distinct)
      BY <3>2 DEF Families
    <3>3. CASE model[o[i]] \in Models(distinct)
      <4>1. PICK c \in Range(distinct) : model[o[i]] = model[c]
        BY <3>3 DEF Models
      <4>2. family[o[i]] = family[c]
        BY <3>1, <4>1 DEF SelectionConstants
      <4> QED
        BY <4>1, <4>2 DEF Families
    <3> QED
      BY <2>1, <3>2, <3>3 DEF Barred
  <2>3. Families(by) \subseteq Families(distinct)
    <3>1. Range(by) = {o[i] : i \in 1 .. Len(o)}
      BY <1>2, Places
    <3> QED
      BY <2>2, <3>1 DEF Families
  <2>4. Range(distinct) \subseteq Range(s)
    <3>1. Range(distinct) = {distinct[i] : i \in 1 .. Len(distinct)} /\ Range(filled) = {filled[i] : i \in 1 .. Len(filled)}
      BY <1>5, Places
    <3>2. \A i \in 1 .. Len(distinct) : i \in 1 .. Len(filled) /\ filled[i] = distinct[i]
      BY <1>9 DEF Alike
    <3>3. CASE s = filled
      BY <3>1, <3>2, <3>3
    <3>4. CASE fallback \in Known \ Range(filled) /\ s = Append(filled, fallback)
      <4>1. Range(s) = Range(filled) \cup {fallback}
        BY <1>5, <3>4, Appended
      <4> QED
        BY <3>1, <3>2, <4>1
    <3>5. CASE /\ fallback \in Known \ Range(filled)
               /\ s = Append(SubSeq(filled, 1, Len(filled) - 1), fallback) /\ Len(filled) = target /\ target >= 2
      <4> DEFINE front == SubSeq(filled, 1, Len(filled) - 1)
      <4>1. front \in Seq(Known) /\ Range(front) = {filled[i] : i \in 1 .. (Len(filled) - 1)}
        BY <1>5, <3>5, FrontOf
      <4> HIDE DEF front
      <4>4. s = Append(front, fallback)
        BY <3>5 DEF front
      <4>2. Range(s) = Range(front) \cup {fallback}
        <5>1. fallback \in Known
          BY <3>5
        <5> QED
          BY <4>1, <4>4, <5>1, Appended
      <4>3. \A i \in 1 .. Len(distinct) : i \in 1 .. (Len(filled) - 1)
        BY <1>9, <1>11, <3>5
      <4> QED
        BY <3>1, <3>2, <4>1, <4>2, <4>3
    <3> QED
      BY <1>8, <3>3, <3>4, <3>5
  <2>5. Families(by) \subseteq Families(s)
    BY <2>3, <2>4 DEF Families
  <2> QED
    BY <2>5 DEF FamiliesFirst, s, by
<1>12. CASE ~(Len(distinct) < target)
  <2>1. filled = distinct /\ Len(filled) = target
    BY <1>5, <1>9, <1>10, <1>12 DEF PassedTo
  <2> DEFINE chosen == IF best \in Range(s) THEN Front(s) ELSE s
  <2>2. Apart(family, chosen)
    <3>1. s \in Seq(Known) /\ Len(s) >= 1
      <4>1. CASE s = filled
        BY <1>5, <2>1, <4>1
      <4>2. CASE fallback \in Known /\ s = Append(filled, fallback)
        BY <1>5, <1>9, <4>2
      <4>3. CASE /\ fallback \in Known /\ Len(filled) = target /\ target >= 2
                 /\ s = Append(SubSeq(filled, 1, Len(filled) - 1), fallback)
        <5> DEFINE front == SubSeq(filled, 1, Len(filled) - 1)
        <5>1. front \in Seq(Known) /\ Len(front) \in Nat
          BY <1>5, <4>3, FrontOf
        <5> HIDE DEF front
        <5>2. Append(front, fallback) \in Seq(Known) /\ Len(Append(front, fallback)) = Len(front) + 1
          BY <4>3, <5>1
        <5> QED
          BY <4>3, <5>1, <5>2 DEF front
      <4> QED
        BY <1>8, <4>1, <4>2, <4>3
    <3>2. CASE s = filled
      <4>1. Apart(family, s)
        BY <1>10, <2>1, <3>2
      <4>2. Apart(family, Front(s))
        BY <3>1, <4>1, FrontOf DEF Front
      <4> QED
        BY <4>1, <4>2
    <3>3. CASE fallback \in Known \ Range(filled) /\ s # filled
      <4>1. fallback = best
        BY <1>6, <1>9, <3>3
      <4>2. PICK base \in Seq(Known) : s = Append(base, fallback) /\ Apart(family, base)
        <5>1. Apart(family, filled)
          BY <1>10, <2>1
        <5>2. CASE s = Append(filled, fallback)
          BY <1>5, <5>1, <5>2
        <5>3. CASE s = Append(SubSeq(filled, 1, Len(filled) - 1), fallback)
          <6>1. SubSeq(filled, 1, Len(filled) - 1) \in Seq(Known) /\ Apart(family, SubSeq(filled, 1, Len(filled) - 1))
            BY <1>5, <2>1, <5>1, FrontOf
          <6> QED
            BY <5>3, <6>1
        <5> QED
          BY <1>8, <3>3, <5>2, <5>3
      <4>3. Range(s) = Range(base) \cup {fallback} /\ Len(s) = Len(base) + 1 /\ (\A i \in 1 .. Len(base) : s[i] = base[i])
            /\ Len(base) \in Nat
        BY <3>3, <4>2, Appended
      <4>4. Front(s) = base
        <5>1. /\ SubSeq(s, 1, Len(s) - 1) \in Seq(Known) /\ Len(SubSeq(s, 1, Len(s) - 1)) = Len(s) - 1
              /\ \A i \in 1 .. (Len(s) - 1) : SubSeq(s, 1, Len(s) - 1)[i] = s[i]
          BY <3>1, FrontOf
        <5>2. Len(s) - 1 = Len(base)
          BY <4>3
        <5> DEFINE front == SubSeq(s, 1, Len(s) - 1)
        <5>3. front \in Seq(Known) /\ Len(front) = Len(base) /\ \A i \in 1 .. Len(base) : front[i] = base[i]
          BY <4>3, <5>1, <5>2
        <5> HIDE DEF front
        <5>4. front = base
          BY <4>2, <5>3
        <5> QED
          BY <5>4 DEF Front, front
      <4> QED
        BY <4>1, <4>2, <4>3, <4>4
    <3> QED
      BY <1>8, <3>2, <3>3
  <2>3. ~(\E i, j \in DOMAIN chosen : i # j /\ family[chosen[i]] = family[chosen[j]])
    BY <2>2 DEF Apart
  <2> QED
    BY <2>3 DEF FamiliesFirst, s, best, by
<1> QED
  BY <1>11, <1>12

LEMMA AdaptiveCases ==
  ASSUME SelectionConstants, Chosen, Done
  PROVE  AdaptiveIsHeadOfRace
<1> DEFINE by == input.by
           dedup == input.dedup
<1>1. /\ by \in Seq(Known) /\ by # <<>> /\ IsInjective(by) /\ input.max \in Nat /\ output = Selections(input)
  BY DEF Chosen, IsInput, Done
<1>2. /\ DOMAIN output.adaptive = 1 .. Len(by)
      /\ \A n \in 1 .. Len(by) : output.adaptive[n] = SelectAdaptive(by, n, input.max, dedup)
  BY <1>1 DEF Selections
<1> HIDE DEF by, dedup
<1> SUFFICES ASSUME NEW n \in 1 .. Len(by)
             PROVE  LET s == output.adaptive[n]
                        race == SubSeq(by, 1, n)
                        firstOfModel == {c \in Range(race) : \A i, j \in DOMAIN race :
                                           race[i] = c /\ model[race[j]] = model[c] => i <= j}
                    IN  /\ s # <<>> /\ Head(s) = Head(by)
                        /\ IsInjective(s)
                        /\ n <= Target => Range(s) = IF dedup THEN firstOfModel ELSE Range(race)
  BY <1>2 DEF AdaptiveIsHeadOfRace, by, dedup
<1> DEFINE s == output.adaptive[n]
           race == SubSeq(by, 1, n)
           first == {c \in Range(race) : FirstOfModel(race, c)}
<1>3. s = SelectAdaptive(by, n, input.max, dedup)
  BY <1>2
<1>4. /\ race \in Seq(Known) /\ Len(race) = n
      /\ s \in Seq(Known) /\ Len(s) >= 1 /\ s[1] = by[1]
      /\ Range(s) \subseteq Range(race)
      /\ IsInjective(s) /\ (dedup => Apart(model, s))
      /\ n <= AtLeast1(input.max) => Len(s) <= n
      /\ n <= AtLeast1(input.max) /\ Len(s) < n => \A i \in 1 .. n : Barred(s, race[i], dedup, FALSE)
      /\ dedup /\ IsInjective(race) => \A c \in Range(s) : FirstOfModel(race, c)
  <2>1. IsAdaptiveWave(by, n, input.max, dedup, race, s)
    BY <1>1, <1>3, AdaptiveWave
  <2> QED
    BY <2>1 DEF IsAdaptiveWave
<1>5. IsInjective(race)
  <2>1. 1 \in 1 .. (Len(by) + 1) /\ n \in 0 .. Len(by) /\ 1 <= n + 1
    BY <1>1
  <2> QED
    BY <1>1, <2>1, Cut
<1> HIDE DEF s, race
<1>6. s # <<>> /\ Head(s) = Head(by)
  BY <1>1, <1>4, Places
<1>7. DOMAIN race = 1 .. n /\ Range(race) = {race[i] : i \in 1 .. n} /\ Len(s) \in Nat /\ n \in Nat
  BY <1>1, <1>4, Places
<1>8. ASSUME n <= Target PROVE Range(s) = IF dedup THEN first ELSE Range(race)
  <2>1. n <= AtLeast1(input.max)
    BY <1>8 DEF Target
  <2>2. \A i \in 1 .. n : Barred(s, race[i], dedup, FALSE)
    <3>1. CASE Len(s) < n
      BY <1>4, <2>1, <3>1
    <3>2. CASE Len(s) = n
      <4>1. Cardinality(Range(s)) = n /\ Cardinality(Range(race)) = n /\ IsFiniteSet(Range(race))
        BY <1>4, <1>5, <3>2, Counted
      <4>2. Range(s) = Range(race)
        BY <1>4, <4>1, FS_Subset
      <4> QED
        BY <1>7, <4>2 DEF Barred
    <3>3. Len(s) <= n
      BY <1>4, <2>1
    <3>4. Len(s) < n \/ Len(s) = n
      BY <1>7, <3>3
    <3> QED
      BY <3>1, <3>2, <3>4
  <2>3. CASE ~dedup
    <3>1. Range(race) \subseteq Range(s)
      BY <1>7, <2>2, <2>3 DEF Barred
    <3> QED
      BY <1>4, <2>3, <3>1
  <2>4. CASE dedup
    <3>1. Range(s) \subseteq first
      BY <1>4, <1>5, <2>4
    <3>2. ASSUME NEW c \in first PROVE c \in Range(s)
      <4>1. PICK i \in 1 .. n : race[i] = c
        BY <1>7
      <4>2. CASE c \in Range(s)
        BY <4>2
      <4>3. CASE model[c] \in Models(s)
        <5>1. PICK d \in Range(s) : model[c] = model[d]
          BY <4>3 DEF Models
        <5>2. PICK j \in 1 .. n : race[j] = d
          BY <1>4, <1>7, <5>1
        <5>3. FirstOfModel(race, c) /\ FirstOfModel(race, d)
          BY <3>1, <5>1
        <5>4. i <= j
          BY <1>7, <4>1, <5>1, <5>2, <5>3 DEF FirstOfModel
        <5>5. j <= i
          BY <1>7, <4>1, <5>1, <5>2, <5>3 DEF FirstOfModel
        <5>6. i = j
          BY <5>4, <5>5
        <5> QED
          BY <4>1, <5>1, <5>2, <5>6
      <4> QED
        BY <2>2, <4>1, <4>2, <4>3 DEF Barred
    <3> QED
      BY <2>4, <3>1, <3>2
  <2> QED
    BY <2>3, <2>4
<1> QED
  BY <1>4, <1>6, <1>8 DEF FirstOfModel, s, race

LEMMA Turned ==
  ASSUME NEW T, NEW group \in Seq(T), IsInjective(group), NEW k \in 0 .. (Len(group) - 1)
  PROVE  LET rotated == SubSeq(group, k + 1, Len(group)) \o SubSeq(group, 1, k)
         IN  /\ rotated \in Seq(T) /\ Range(rotated) = Range(group) /\ IsInjective(rotated)
             /\ rotated # <<>> /\ rotated[1] = group[k + 1]
<1> DEFINE L    == Len(group)
           back == SubSeq(group, k + 1, L)
           lead == SubSeq(group, 1, k)
<1>1. /\ L \in Nat /\ k \in Nat /\ k + 1 \in 1 .. (L + 1) /\ L \in 0 .. L /\ k + 1 <= L + 1
      /\ 1 \in 1 .. (L + 1) /\ k \in 0 .. L /\ 1 <= k + 1 /\ 1 \in 1 .. (L - (k + 1) + 1) /\ 1 + (k + 1) - 1 = k + 1
      /\ DOMAIN group = 1 .. L
  OBVIOUS
<1>2. Range(group) = {group[i] : i \in 1 .. L}
  BY Places
<1> HIDE DEF L
<1>3. /\ back \in Seq(T) /\ Len(back) = L - (k + 1) + 1
      /\ \A i \in 1 .. (L - (k + 1) + 1) : back[i] = group[i + (k + 1) - 1]
      /\ Range(back) = {group[i] : i \in (k + 1) .. L} /\ IsInjective(back)
  BY <1>1, Cut DEF L
<1>4. lead \in Seq(T) /\ Range(lead) = {group[i] : i \in 1 .. k} /\ IsInjective(lead)
  BY <1>1, Cut DEF L
<1> HIDE DEF back, lead
<1>5. \A i \in 1 .. L : i \in 1 .. k \/ i \in (k + 1) .. L
  BY <1>1
<1>6. (\A i \in 1 .. k : i \in 1 .. L) /\ (\A i \in (k + 1) .. L : i \in 1 .. L /\ i \notin 1 .. k)
  BY <1>1
<1>7. Range(back) \cup Range(lead) = Range(group)
  BY <1>2, <1>3, <1>4, <1>5, <1>6
<1>8. Range(back) \cap Range(lead) = {}
  <2>1. ASSUME NEW i \in (k + 1) .. L, NEW j \in 1 .. k PROVE group[i] # group[j]
    BY <1>1, <1>6 DEF IsInjective
  <2> SUFFICES ASSUME NEW x \in Range(back), x \in Range(lead) PROVE FALSE
    OBVIOUS
  <2>2. PICK i \in (k + 1) .. L : x = group[i]
    BY <1>3
  <2>3. PICK j \in 1 .. k : x = group[j]
    BY <1>4
  <2> QED
    BY <2>1, <2>2, <2>3
<1>9. back[1] = group[k + 1] /\ 1 \in 1 .. Len(back)
  BY <1>1, <1>3
<1>10. (back \o lead) \in Seq(T) /\ Range(back \o lead) = Range(group)
  <2>1. (back \o lead) \in Seq(T) /\ Range(back \o lead) = Range(back) \cup Range(lead)
    BY <1>3, <1>4, Joined
  <2> QED
    BY <1>7, <2>1
<1>11. IsInjective(back \o lead)
  BY <1>3, <1>4, <1>8, Joined
<1>12. (back \o lead)[1] = group[k + 1] /\ Len(back \o lead) >= 1
  <2>1. Len(back \o lead) = Len(back) + Len(lead) /\ \A i \in 1 .. Len(back) : (back \o lead)[i] = back[i]
    BY <1>3, <1>4, Joined
  <2>2. Len(back) \in Nat /\ Len(lead) \in Nat
    BY <1>3, <1>4
  <2> QED
    BY <1>9, <2>1, <2>2
<1>13. (back \o lead) # <<>>
  BY <1>10, <1>12, Places
<1> QED
  BY <1>10, <1>11, <1>12, <1>13 DEF back, lead, L

\* first holds the group g, its healthy members first.
IsFront(g, healthy, first) ==
  /\ first \in Seq(Known) /\ IsInjective(first) /\ Range(first) = g
  /\ \A i, j \in 1 .. Len(first) : first[i] \in healthy /\ first[j] \notin healthy => i < j

LEMMA HealthyFirst ==
  ASSUME NEW list \in Seq(Known), IsInjective(list), NEW healthy
  PROVE  IsFront(Range(list), healthy, Among(list, healthy) \o Among(list, Known \ healthy))
<1> DEFINE h == Among(list, healthy)
           u == Among(list, Known \ healthy)
<1>1. /\ h \in Seq(Known) /\ Range(h) = Range(list) \cap healthy /\ IsInjective(h)
      /\ u \in Seq(Known) /\ Range(u) = Range(list) \cap (Known \ healthy) /\ IsInjective(u)
  BY AmongKeeps
<1>2. Range(list) \subseteq Known
  BY Places
<1> HIDE DEF h, u
<1>3. Range(h) \cap Range(u) = {} /\ Range(h) \cup Range(u) = Range(list)
  BY <1>1, <1>2
<1>4. /\ h \o u \in Seq(Known) /\ Len(h \o u) = Len(h) + Len(u)
      /\ \A i \in 1 .. Len(h) : (h \o u)[i] = h[i]
      /\ \A i \in 1 .. (Len(h) + Len(u)) : i > Len(h) => i - Len(h) \in 1 .. Len(u) /\ (h \o u)[i] = u[i - Len(h)]
      /\ Range(h \o u) = Range(h) \cup Range(u)
  BY <1>1, Joined
<1>5. IsInjective(h \o u)
  BY <1>1, <1>3, Joined
<1>6. /\ Len(h) \in Nat /\ Len(u) \in Nat /\ Range(h) = {h[i] : i \in 1 .. Len(h)}
      /\ Range(u) = {u[i] : i \in 1 .. Len(u)}
  BY <1>1, Places
<1> DEFINE a == h \o u
<1> HIDE DEF a
<1>7. ASSUME NEW i \in 1 .. (Len(h) + Len(u)), NEW j \in 1 .. (Len(h) + Len(u)), a[i] \in healthy, a[j] \notin healthy
      PROVE  i < j
  <2>1. \A l \in 1 .. Len(h) : a[l] \in healthy
    BY <1>1, <1>4, <1>6 DEF a
  <2>2. \A l \in 1 .. (Len(h) + Len(u)) : l > Len(h) => a[l] \notin healthy
    BY <1>1, <1>4, <1>6 DEF a
  <2> QED
    BY <1>6, <1>7, <2>1, <2>2
<1>8. a \in Seq(Known) /\ IsInjective(a) /\ Range(a) = Range(list) /\ Len(a) = Len(h) + Len(u)
  BY <1>3, <1>4, <1>5 DEF a
<1>9. IsFront(Range(list), healthy, a)
  BY <1>7, <1>8 DEF IsFront
<1> QED
  BY <1>9 DEF a, h, u

Same(gm) == {c \in Known : model[c] = gm}

\* The rotated group in front of the others; when all are healthy it begins where the cursor is.
IsRotation(by, healthy, gm, offset, group, first) ==
  /\ ReorderRoundRobin(by, healthy, gm, offset) = first \o Among(by, Known \ Same(gm))
  /\ IsFront(Range(by) \cap Same(gm), healthy, first)
  /\ Len(group) >= 2 /\ Range(group) \subseteq healthy =>
       first # <<>> /\ first[1] = group[(offset % Len(group)) + 1]

LEMMA RoundRobin ==
  ASSUME NEW by \in Seq(Known), IsInjective(by), NEW healthy, NEW gm, NEW offset \in Nat
  PROVE  \E first : IsRotation(by, healthy, gm, offset, Among(by, Same(gm)), first)
<1> DEFINE group   == Among(by, Same(gm))
           rest    == Among(by, Known \ Same(gm))
           k       == offset % Len(group)
           rotated == SubSeq(group, k + 1, Len(group)) \o SubSeq(group, 1, k)
           h       == Among(rotated, healthy)
           u       == Among(rotated, Known \ healthy)
<1>1. ReorderRoundRobin(by, healthy, gm, offset) = IF Len(group) < 2 THEN group \o rest ELSE h \o u \o rest
  BY DEF ReorderRoundRobin, Same
<1>2. group \in Seq(Known) /\ Range(group) = Range(by) \cap Same(gm) /\ IsInjective(group) /\ rest \in Seq(Known)
  BY AmongKeeps
<1> HIDE DEF group, rest, rotated
<1>3. Len(group) \in Nat
  BY <1>2
<1>4. CASE Len(group) < 2
  <2>1. ASSUME NEW i \in 1 .. Len(group), NEW j \in 1 .. Len(group) PROVE i = j
    BY <1>3, <1>4
  <2>2. IsFront(Range(by) \cap Same(gm), healthy, group)
    BY <1>2, <2>1 DEF IsFront
  <2>3. ~(Len(group) >= 2)
    BY <1>3, <1>4
  <2>4. IsRotation(by, healthy, gm, offset, group, group)
    BY <1>1, <1>4, <2>2, <2>3 DEF rest, IsRotation
  <2> QED
    BY <2>4 DEF group
<1>5. CASE ~(Len(group) < 2)
  <2>1. Len(group) >= 2 /\ k \in 0 .. (Len(group) - 1)
    BY <1>3, <1>5
  <2> HIDE DEF k
  <2>2. /\ rotated \in Seq(Known) /\ Range(rotated) = Range(group) /\ IsInjective(rotated)
        /\ rotated # <<>> /\ rotated[1] = group[k + 1]
    BY <1>2, <2>1, Turned DEF rotated
  <2>3. IsFront(Range(by) \cap Same(gm), healthy, h \o u)
    BY <1>2, <2>2, HealthyFirst
  <2>4. ASSUME Range(group) \subseteq healthy PROVE h \o u # <<>> /\ (h \o u)[1] = group[k + 1]
    <3>1. h = rotated
      BY <2>2, <2>4, AmongKeeps
    <3>2. u \in Seq(Known)
      BY <2>2, AmongKeeps
    <3> HIDE DEF h, u
    <3>3. Len(rotated) \in Nat /\ Len(rotated) >= 1 /\ Len(u) \in Nat
      BY <2>2, <3>2, Places
    <3>4. Len(h \o u) = Len(h) + Len(u) /\ (h \o u) \in Seq(Known) /\ \A i \in 1 .. Len(h) : (h \o u)[i] = h[i]
      BY <2>2, <3>1, <3>2, Joined
    <3>5. (h \o u)[1] = rotated[1] /\ Len(h \o u) >= 1
      BY <3>1, <3>3, <3>4
    <3>6. h \o u # <<>>
      BY <3>4, <3>5, Places
    <3> QED
      BY <2>2, <3>5, <3>6
  <2>5. ReorderRoundRobin(by, healthy, gm, offset) = (h \o u) \o rest
    BY <1>1, <1>5
  <2> HIDE DEF h, u
  <2> DEFINE first == h \o u
  <2> HIDE DEF first
  <2>6. /\ ReorderRoundRobin(by, healthy, gm, offset) = first \o rest
        /\ IsFront(Range(by) \cap Same(gm), healthy, first)
        /\ Range(group) \subseteq healthy => first # <<>> /\ first[1] = group[k + 1]
    BY <2>3, <2>4, <2>5 DEF first
  <2>7. IsRotation(by, healthy, gm, offset, group, first)
    BY <2>6 DEF k, rest, IsRotation
  <2> QED
    BY <2>7 DEF group
<1> QED
  BY <1>4, <1>5

LEMMA RobinCases ==
  ASSUME SelectionConstants, Chosen, Done
  PROVE  RotationIsFair
<1> DEFINE by    == input.by
           healthy == input.healthy
           gm    == model[Head(input.by)]
           group == {c \in Range(by) : model[c] = model[Head(by)]}
           order == Among(by, Same(gm))
           rest  == Among(by, Known \ Same(gm))
           s(k)  == output.robin[k]
<1>1. /\ by \in Seq(Known) /\ by # <<>> /\ IsInjective(by) /\ output = Selections(input)
  BY DEF Chosen, IsInput, Done
<1>2. \A k \in 0 .. 2 : s(k) = ReorderRoundRobin(by, healthy, gm, k)
  BY <1>1 DEF Selections
<1>3. Range(by) \subseteq Known
  BY <1>1, Places
<1>4. group = Range(by) \cap Same(gm)
  BY <1>3 DEF Same
<1>5. order \in Seq(Known) /\ Range(order) = group /\ IsInjective(order)
      /\ rest \in Seq(Known) /\ Range(rest) = Range(by) \ group /\ IsInjective(rest)
  BY <1>1, <1>3, <1>4, AmongKeeps
<1>6. Cardinality(group) = Len(order) /\ Len(order) \in Nat
  BY <1>5, Counted
<1> HIDE DEF by, healthy, gm, group, order, rest, s
<1>7. ASSUME NEW k \in 0 .. 2
      PROVE  \E first :
               /\ s(k) = first \o rest /\ IsFront(group, healthy, first)
               /\ Len(order) >= 2 /\ group \subseteq healthy => first # <<>> /\ first[1] = order[(k % Len(order)) + 1]
  <2>1. k \in Nat
    OBVIOUS
  <2>2. PICK first : IsRotation(by, healthy, gm, k, order, first)
    BY <1>1, <2>1, RoundRobin DEF order
  <2>3. Len(order) >= 2 /\ group \subseteq healthy => first # <<>> /\ first[1] = order[(k % Len(order)) + 1]
    BY <1>5, <2>2 DEF IsRotation
  <2> QED
    BY <1>2, <1>4, <2>2, <2>3 DEF rest, IsRotation
<1>8. ASSUME NEW k \in 0 .. 2
      PROVE  /\ Range(s(k)) = Range(by) /\ Len(s(k)) = Len(by)
             /\ {s(k)[i] : i \in 1..Cardinality(group)} = group
             /\ \A i, j \in 1..Cardinality(group) :
                  s(k)[i] \in healthy /\ s(k)[j] \notin healthy => i < j
  <2>1. PICK first : s(k) = first \o rest /\ IsFront(group, healthy, first)
    BY <1>7
  <2>2. first \in Seq(Known) /\ IsInjective(first) /\ Range(first) = group
    BY <2>1 DEF IsFront
  <2>3. Len(first) = Cardinality(group) /\ Range(first) = {first[i] : i \in 1 .. Len(first)}
    BY <2>2, Counted, Places
  <2>4. /\ s(k) \in Seq(Known) /\ Range(s(k)) = Range(first) \cup Range(rest)
        /\ \A i \in 1 .. Len(first) : s(k)[i] = first[i]
    BY <1>5, <2>1, <2>2, Joined
  <2>5. group \subseteq Range(by)
    BY DEF group
  <2>6. Range(s(k)) = Range(by)
    BY <1>5, <2>2, <2>4, <2>5
  <2>7. IsInjective(s(k))
    BY <1>5, <2>1, <2>2, Joined
  <2>8. Len(s(k)) = Len(by)
    BY <1>1, <2>4, <2>6, <2>7, Counted, SMTT(30)
  <2>9. {s(k)[i] : i \in 1..Cardinality(group)} = group
    BY <2>2, <2>3, <2>4
  <2>10. \A i, j \in 1..Cardinality(group) : s(k)[i] \in healthy /\ s(k)[j] \notin healthy => i < j
    <3>1. \A i, j \in 1..Len(first) : first[i] \in healthy /\ first[j] \notin healthy => i < j
      BY <2>1 DEF IsFront
    <3> QED
      BY <2>3, <2>4, <3>1
  <2> QED
    BY <2>6, <2>8, <2>9, <2>10
<1>9. ASSUME Cardinality(group) > 1, group \subseteq healthy PROVE Head(s(0)) # Head(s(1))
  <2>1. Len(order) >= 2 /\ 0 \in 0 .. 2 /\ 1 \in 0 .. 2
    BY <1>6, <1>9
  <2>2. 0 % Len(order) = 0 /\ 1 % Len(order) = 1
    BY <1>6, <2>1
  <2>3. ASSUME NEW k \in 0 .. 2 PROVE Head(s(k)) = order[(k % Len(order)) + 1]
    <3>1. PICK first : /\ s(k) = first \o rest /\ IsFront(group, healthy, first)
                       /\ Len(order) >= 2 /\ group \subseteq healthy => first # <<>> /\ first[1] = order[(k % Len(order)) + 1]
      BY <1>7
    <3>2. first \in Seq(Known) /\ first # <<>> /\ first[1] = order[(k % Len(order)) + 1]
      BY <1>9, <2>1, <3>1 DEF IsFront
    <3>3. Len(first) \in Nat /\ Len(first) >= 1 /\ Len(rest) \in Nat
      BY <1>5, <3>2, Places
    <3>4. s(k) \in Seq(Known) /\ Len(s(k)) = Len(first) + Len(rest) /\ \A i \in 1 .. Len(first) : s(k)[i] = first[i]
      BY <1>5, <3>1, <3>2, Joined
    <3>5. s(k)[1] = first[1] /\ Len(s(k)) >= 1
      BY <3>3, <3>4
    <3>6. Head(s(k)) = s(k)[1]
      BY <3>4, <3>5, Places
    <3> QED
      BY <3>2, <3>5, <3>6
  <2>4. Head(s(0)) = order[0 + 1] /\ Head(s(1)) = order[1 + 1]
    BY <2>1, <2>2, <2>3
  <2>5. order[1] # order[2]
    <3>1. DOMAIN order = 1 .. Len(order) /\ 1 \in 1 .. Len(order) /\ 2 \in 1 .. Len(order)
      BY <1>5, <1>6, <2>1
    <3> QED
      BY <1>5, <3>1 DEF IsInjective
  <2> QED
    BY <2>4, <2>5
<1> QED
  BY <1>8, <1>9 DEF RotationIsFair, by, healthy, group, s

-----------------------------------------------------------------------------
(* The waves of a request                                                  *)

\* tries counts the attempted candidates once; a wave that deduplicates has one
\* candidate per model.
WavesInv ==
  /\ rank \in Seq(Candidate) /\ Range(rank) = Candidate
  /\ tries = [c \in Candidate |-> IF c \in attempted THEN 1 ELSE 0]
  /\ OneAnswerPerModel

\* What a selection may dispatch.
IsWave(selected) ==
  /\ Range(selected) \subseteq Unattempted
  /\ Dedup => \A c, d \in Range(selected) : model[c] = model[d] => c = d

LEMMA ApartIsOnce ==
  ASSUME NEW s \in Seq(Known), Apart(model, s)
  PROVE  \A c, d \in Range(s) : model[c] = model[d] => c = d
<1>1. DOMAIN s = 1 .. Len(s) /\ Range(s) = {s[i] : i \in 1 .. Len(s)}
  BY Places
<1> QED
  BY <1>1 DEF Apart

LEMMA DispatchWave ==
  ASSUME WavesInv, NEW STATE selected, Dispatch(selected), IsWave(selected)
  PROVE  WavesInv'
<1>1. rank' = rank /\ mode' = mode
  BY DEF Dispatch, ranking
<1>2. \A c \in Range(selected) : c \notin attempted
  BY DEF IsWave, Unattempted
<1>3. tries' = [c \in Candidate |-> IF c \in attempted' THEN 1 ELSE 0]
  BY <1>2 DEF Dispatch, WavesInv
<1>4. OneAnswerPerModel'
  BY <1>1 DEF Dispatch, IsWave, OneAnswerPerModel, Dedup
<1> QED
  BY <1>1, <1>3, <1>4 DEF WavesInv

LEMMA Ordering ==
  ASSUME OrchestrationConstants, WavesInv, NEW S \in SUBSET Candidate
  PROVE  /\ InOrder(S) \in Seq(Known) /\ Range(InOrder(S)) = S
         /\ ByHealth(S) \in Seq(Known) /\ Range(ByHealth(S)) = S
<1>1. rank \in Seq(Known) /\ Range(rank) = Candidate
  <2>1. rank \in Seq(Candidate) /\ Candidate \subseteq Known
    BY DEF OrchestrationConstants, WavesInv
  <2> QED
    BY <2>1 DEF WavesInv
<1>2. ASSUME NEW U \in SUBSET Candidate PROVE InOrder(U) \in Seq(Known) /\ Range(InOrder(U)) = U
  <2>1. Among(rank, U) \in Seq(Known) /\ Range(Among(rank, U)) = Range(rank) \cap U
    BY <1>1, AmongKeeps
  <2> QED
    BY <1>1, <2>1 DEF InOrder
<1> DEFINE ok == {c \in S : health[c] = "ok"}
           no == {c \in S : health[c] # "ok"}
<1>3. ok \in SUBSET Candidate /\ no \in SUBSET Candidate /\ ok \cup no = S
  OBVIOUS
<1>4. ByHealth(S) = InOrder(ok) \o InOrder(no)
  BY DEF ByHealth
<1> HIDE DEF ok, no
<1>5. InOrder(ok) \o InOrder(no) \in Seq(Known) /\ Range(InOrder(ok) \o InOrder(no)) = ok \cup no
  <2>1. InOrder(ok) \in Seq(Known) /\ InOrder(no) \in Seq(Known) /\ Range(InOrder(ok)) = ok /\ Range(InOrder(no)) = no
    BY <1>2, <1>3
  <2> QED
    BY <2>1, Joined
<1> QED
  BY <1>2, <1>3, <1>4, <1>5

LEMMA RankedIsWave ==
  ASSUME SelectionConstants, OrchestrationConstants, WavesInv,
         NEW S \in SUBSET Unattempted, NEW n \in Nat
  PROVE  IsWave(Ranked(S, n))
<1>1. S \in SUBSET Candidate
  BY DEF Unattempted
<1> DEFINE by == InOrder(S)
           o  == ByHealth(S)
           ok == {c \in S : health[c] = "ok"}
           s  == Ranked(S, n)
<1>2. by \in Seq(Known) /\ Range(by) = S /\ o \in Seq(Known) /\ Range(o) = S
  BY <1>1, Ordering
<1>3. s = SelectRanked(by, o, ok, n, Dedup)
  BY DEF Ranked
<1> HIDE DEF by, o, ok, s
<1>4. IsRankedWave(by, o, ok, n, Dedup, s)
  BY <1>2, <1>3, RankedIsLawful
<1>5. s \in Seq(Known) /\ Range(s) \subseteq S /\ (Dedup => Apart(model, s))
  BY <1>2, <1>4 DEF IsRankedWave
<1>6. Dedup => \A c, d \in Range(s) : model[c] = model[d] => c = d
  BY <1>5, ApartIsOnce
<1> QED
  BY <1>5, <1>6 DEF IsWave, s

LEMMA AdaptiveIsWave ==
  ASSUME SelectionConstants, OrchestrationConstants, WavesInv,
         NEW S \in SUBSET Unattempted, NEW raced \in 1 .. Cardinality(S)
  PROVE  IsWave(SelectAdaptive(InOrder(S), raced, WaveSize, Dedup))
<1>1. S \in SUBSET Candidate
  BY DEF Unattempted
<1> DEFINE by == InOrder(S)
           s  == SelectAdaptive(by, raced, WaveSize, Dedup)
<1>2. by \in Seq(Known) /\ Range(by) = S
  BY <1>1, Ordering
<1> HIDE DEF by
<1>3. Len(by) \in Nat /\ Cardinality(S) \in Nat /\ Cardinality(S) <= Len(by)
  BY <1>2, Counted
<1>4. raced \in 1 .. Len(by) /\ WaveSize \in Nat
  BY <1>3 DEF OrchestrationConstants
<1>5. IsAdaptiveWave(by, raced, WaveSize, Dedup, SubSeq(by, 1, raced), s)
  BY <1>2, <1>4, AdaptiveWave
<1> HIDE DEF s
<1>6. s \in Seq(Known) /\ Range(s) \subseteq S /\ (Dedup => Apart(model, s))
  BY <1>2, <1>5 DEF IsAdaptiveWave
<1>7. Dedup => \A c, d \in Range(s) : model[c] = model[d] => c = d
  BY <1>6, ApartIsOnce
<1> QED
  BY <1>6, <1>7 DEF IsWave, s, by

LEMMA SelectWaves ==
  ASSUME SelectionConstants, OrchestrationConstants, WavesInv, Select
  PROVE  WavesInv'
<1>1. Transient \subseteq Unattempted /\ Remaining \subseteq Unattempted
  BY DEF Transient, Remaining, Pool, Budgeted
<1>2. IsFiniteSet(Transient) /\ Cardinality(Transient) \in Nat
  <2>1. Transient \subseteq Known /\ IsFiniteSet(Known)
    BY DEF Transient, Unattempted, OrchestrationConstants, SelectionConstants
  <2> QED
    BY <2>1, FS_Subset, FS_CardinalityType
<1>3. CASE SelectForced
  <2> DEFINE n == ProbeTarget(WaveSize, Cardinality(Transient), ProbeCandidates)
  <2>1. n \in Nat
    BY <1>2 DEF OrchestrationConstants, ProbeTarget, AtLeast1
  <2>2. Dispatch(Ranked(Transient, n))
    BY <1>3 DEF SelectForced
  <2> HIDE DEF n
  <2>3. IsWave(Ranked(Transient, n))
    BY <1>1, <2>1, RankedIsWave
  <2> QED
    BY <2>2, <2>3, DispatchWave
<1>4. CASE SelectBounded
  <2>1. Dispatch(Ranked(Remaining, 1))
    BY <1>4 DEF SelectBounded
  <2>2. IsWave(Ranked(Remaining, 1))
    BY <1>1, RankedIsWave
  <2> QED
    BY <2>1, <2>2, DispatchWave
<1>5. CASE SelectWave
  <2>1. PICK raced \in 1 .. Cardinality(Remaining) :
          Dispatch(SelectAdaptive(InOrder(Remaining), raced, WaveSize, Dedup))
    BY <1>5 DEF SelectWave
  <2>2. IsWave(SelectAdaptive(InOrder(Remaining), raced, WaveSize, Dedup))
    BY <1>1, AdaptiveIsWave
  <2> QED
    BY <2>1, <2>2, DispatchWave
<1> QED
  BY <1>3, <1>4, <1>5 DEF Select

LEMMA RequestWaves ==
  ASSUME SelectionConstants, OrchestrationConstants, WavesInv, [RequestNext]_requestVars
  PROVE  WavesInv'
<1>1. CASE Select
  BY <1>1, SelectWaves
<1>2. ASSUME UNCHANGED <<mode, rank, tries, attempted, wave>> PROVE WavesInv'
  BY <1>2 DEF WavesInv, OneAnswerPerModel, Dedup
<1>3. CASE RejectBackoff \/ Exhausted
  BY <1>2, <1>3 DEF RejectBackoff, Exhausted, ranking
<1>4. CASE \E c \in Candidate, result \in Result \ {"none"} : Complete(c, result)
  BY <1>2, <1>4 DEF Complete, ranking
<1>5. CASE EarlyDeadline \/ HardDeadline \/ EndWave
  BY <1>2, <1>5 DEF EarlyDeadline, HardDeadline, EndWave, ranking
<1>6. CASE Judge \/ JudgeSaveFails
  BY <1>2, <1>6 DEF Judge, JudgeSaveFails, ranking
<1>7. CASE UNCHANGED requestVars
  BY <1>2, <1>7 DEF requestVars, ranking
<1> QED
  BY <1>1, <1>3, <1>4, <1>5, <1>6, <1>7 DEF RequestNext

(* complete_inner sends a request to no candidate twice, and a wave that
   deduplicates holds one candidate of a model, whatever candidates there are. *)
THEOREM OneTryEach == RequestSpec => [](NoReattempt /\ OneAnswerPerModel)
<1> USE SelectionConstants, OrchestrationConstants
<1>1. RequestInit => WavesInv
  BY DEF RequestInit, WavesInv, OneAnswerPerModel
<1>2. WavesInv /\ [RequestNext]_requestVars => WavesInv'
  BY RequestWaves
<1>3. WavesInv => NoReattempt /\ OneAnswerPerModel
  BY DEF WavesInv, NoReattempt
<1> QED
  BY <1>1, <1>2, <1>3, PTL DEF RequestSpec

ServicesInv ==
  /\ WavesInv
  /\ part = "selection" => Chosen

LEMMA InputsAre ==
  ASSUME SelectionConstants, NEW in \in Inputs
  PROVE  IsInput(in)
<1>1. in.by \in UNION {Orders(S) : S \in SUBSET Known} /\ in.by # <<>> /\ in.max \in 0 .. MaxWave
  BY DEF Inputs
<1>2. PICK S \in SUBSET Known : in.by \in Orders(S)
  BY <1>1
<1>3. Cardinality(S) \in Nat
  BY FS_Subset, FS_CardinalityType DEF SelectionConstants
<1>4. in.by \in [1 .. Cardinality(S) -> S] /\ \A i, j \in 1 .. Cardinality(S) : i # j => in.by[i] # in.by[j]
  BY <1>2 DEF Orders, SetToSeqs
<1>5. in.by \in Seq(Known) /\ DOMAIN in.by = 1 .. Cardinality(S)
  <2>1. \A i \in 1 .. Cardinality(S) : in.by[i] \in Known
    BY <1>4
  <2>2. in.by \in [1 .. Cardinality(S) -> Known]
    BY <1>4, <2>1
  <2> QED
    BY <1>3, <2>2
<1>6. IsInjective(in.by)
  BY <1>4, <1>5 DEF IsInjective
<1> QED
  BY <1>1, <1>5, <1>6 DEF IsInput

(* The selection functions keep every wave lawful, the best candidate in it
   and the families and the local fallback covered, whatever candidates there
   are; no candidate is tried twice, nor a model paid twice in a wave. *)
THEOREM WavesLawful == ServicesSpec => []WavesAreLawful
<1> USE SelectionConstants, OrchestrationConstants
<1>1. ServicesInit => ServicesInv
  <2> SUFFICES ASSUME ServicesInit PROVE ServicesInv
    OBVIOUS
  <2>1. WavesInv
    <3>1. rank \in Seq(Candidate) /\ Range(rank) = Candidate
      BY DEF ServicesInit, RequestInit, OrchestrationConstants
    <3>2. tries = [c \in Candidate |-> IF c \in attempted THEN 1 ELSE 0]
      BY DEF ServicesInit, RequestInit
    <3>3. OneAnswerPerModel
      BY DEF ServicesInit, RequestInit, OneAnswerPerModel
    <3> QED
      BY <3>1, <3>2, <3>3 DEF WavesInv
  <2>2. part = "selection" => Chosen
    BY InputsAre DEF ServicesInit, SelectionInit, Chosen
  <2> QED
    BY <2>1, <2>2 DEF ServicesInv
<1>2. ASSUME ServicesInv, [ServicesNext]_<<part, loadVars, metricsVars, selectionVars, requestVars>>
      PROVE  ServicesInv'
  <2>1. WavesInv'
    <3>1. [RequestNext]_requestVars
      BY <1>2 DEF ServicesNext
    <3> QED
      BY <1>2, <3>1, RequestWaves DEF ServicesInv
  <2>2. ASSUME part' = "selection" PROVE Chosen'
    <3>1. part = "selection" /\ Chosen
      BY <1>2, <2>2 DEF ServicesNext, ServicesInv
    <3>2. CASE UNCHANGED selectionVars
      BY <3>1, <3>2 DEF selectionVars, Chosen, Selections, IsInput, Ordered
    <3>3. CASE Compute
      <4>1. input' = input /\ output' = Selections(input)
        BY <3>3 DEF Compute, Selections
      <4> QED
        BY <3>1, <4>1 DEF Chosen, Selections, IsInput, Ordered
    <3> QED
      BY <1>2, <3>1, <3>2, <3>3 DEF ServicesNext
  <2> QED
    BY <2>1, <2>2 DEF ServicesInv
<1>3. ServicesInv => WavesAreLawful
  <2> SUFFICES ASSUME ServicesInv PROVE WavesAreLawful
    OBVIOUS
  <2>1. ASSUME part = "selection"
        PROVE  /\ WaveIsLawful /\ BestIsKept /\ LocalCovered
               /\ FamiliesFirst /\ AdaptiveIsHeadOfRace /\ RotationIsFair
    <3>1. CASE Done
      BY <2>1, <3>1, RankedCases, FamilyCases, AdaptiveCases, RobinCases DEF ServicesInv
    <3>2. CASE ~Done
      BY <3>2 DEF WaveIsLawful, BestIsKept, LocalCovered, FamiliesFirst, AdaptiveIsHeadOfRace, RotationIsFair
    <3> QED
      BY <3>1, <3>2
  <2>2. NoReattempt
    BY DEF ServicesInv, WavesInv, NoReattempt
  <2>3. OneAnswerPerModel
    BY DEF ServicesInv, WavesInv
  <2> QED
    BY <2>1, <2>2, <2>3 DEF WavesAreLawful
<1> QED
  BY <1>1, <1>2, <1>3, PTL DEF ServicesSpec
=============================================================================
