---------------------------- MODULE TradingProofs ----------------------------
(***************************************************************************)
(* Theorems of the parts that MCBridges puts side by side.  Of the trading *)
(* bridge around its orders: the loop's reviews and the bootstrap of the   *)
(* data lake (TradingCycle), the tuning of the trade sizes                 *)
(* (BacktestTuning), the promotion of the quantitative controller          *)
(* (QuantMigration), and the evidence of the edge (EdgeCalibration,        *)
(* NativeReplay).  And of a direct completion through the provider         *)
(* adapters (DirectCompletion, OllamaProvider, HostedProvider).  Each is   *)
(* proved for every value of its component's constants.                    *)
(***************************************************************************)
EXTENDS MCBridges, FiniteSetTheorems, WellFoundedInduction, TLAPS

(* ---------------------------------------------------------------------- *)
(* The loop's reviews and the bootstrap of the lake                       *)

\* A kind that has been passed over once is still due, and the review started
\* last was of the other kind: the next one is of this kind.
TurnInv ==
  /\ due \in SUBSET Kind
  /\ lastKind \in Kind \cup {"none"}
  /\ passedOver \in [Kind -> {0, 1}]
  /\ \A k \in Kind: passedOver[k] = 1 => k \in due /\ lastKind \in Kind \ {k}

\* A bootstrap that came to its end has filled the lake.
BootInv ==
  /\ boot.task = "finished" => lakeReady
  /\ BootstrapKeepsTrying

BootRecord == [task: {"none", "running", "finished", "failed"}, owed: BOOLEAN, retry: BOOLEAN]

TaskInv == boot \in BootRecord /\ TurnInv /\ BootInv

\* Actions that touch neither the reviews' turns nor the bootstrap keep them.
LEMMA OthersKeepTurns ==
  ASSUME TurnInv, UNCHANGED <<due, lastKind, passedOver>>
  PROVE  TurnInv'
  BY DEF TurnInv

LEMMA OthersKeepBoot ==
  ASSUME BootInv, boot \in BootRecord, UNCHANGED <<boot, lakeReady>>
  PROVE  BootInv' /\ boot' \in BootRecord
  BY DEF BootInv, BootstrapKeepsTrying

\* next_review takes turns: of the review that starts and the one passed over,
\* the latter was not passed over before.
LEMMA StartKeepsTurns ==
  ASSUME TurnInv, StartReview
  PROVE  TurnInv'
<1>1. PICK k \in NextReview:
        /\ due' = due \ {k}
        /\ lastKind' = k
        /\ passedOver' = [j \in Kind |-> IF j # k /\ j \in due THEN passedOver[j] + 1 ELSE 0]
  BY DEF StartReview
<1>2. k \in due /\ k \in Kind /\ due # {}
  BY DEF NextReview, Kind, TurnInv, StartReview
<1>3. ASSUME NEW j \in Kind, j # k, j \in due
      PROVE  passedOver[j] = 0
  <2>1. due = Kind
    BY <1>2, <1>3 DEF Kind, TurnInv
  <2>2. lastKind = "discovery" => k = "pruning" /\ j = "discovery"
    BY <2>1, <1>1, <1>3 DEF NextReview, Kind
  <2>3. lastKind # "discovery" => k = "discovery" /\ j = "pruning"
    BY <2>1, <1>1, <1>3 DEF NextReview, Kind
  <2>4. passedOver[j] = 1 => lastKind \in Kind \ {j}
    BY DEF TurnInv
  <2>5. passedOver[j] \in {0, 1}
    BY DEF TurnInv
  <2> QED
    BY <2>2, <2>3, <2>4, <2>5 DEF Kind
<1>4. \A j \in Kind: passedOver'[j] = IF j # k /\ j \in due THEN 1 ELSE 0
  BY <1>1, <1>3
<1>5. passedOver' \in [Kind -> {0, 1}]
  BY <1>1, <1>3
<1> QED
  BY <1>1, <1>2, <1>4, <1>5 DEF TurnInv, Kind

\* The bootstrap is reaped and started again without ever being forgotten.
LEMMA WakeKeepsBoot ==
  ASSUME BootInv, boot \in BootRecord, WakeLoop
  PROVE  BootInv' /\ boot' \in BootRecord
<1>1. boot' = Bootstrapped /\ lakeReady' = lakeReady
  BY DEF WakeLoop
<1>2. CASE boot.task = "finished"
  <2>1. lakeReady
    BY <1>2 DEF BootInv
  <2>2. boot' \in BootRecord
    BY <1>1, <1>2 DEF Bootstrapped, BootRecord
  <2> QED
    BY <2>1, <2>2, <1>1 DEF BootInv, BootstrapKeepsTrying
<1>3. CASE boot.task = "failed"
  BY <1>1, <1>3 DEF Bootstrapped, BootInv, BootstrapKeepsTrying, BootRecord
<1>4. CASE boot.task \in {"none", "running"}
  BY <1>1, <1>4 DEF Bootstrapped, BootInv, BootstrapKeepsTrying, BootRecord
<1> QED
  BY <1>2, <1>3, <1>4 DEF BootRecord

LEMMA TaskInit ==
  ASSUME CycleInit
  PROVE  TaskInv
<1>1. TurnInv
  BY DEF CycleInit, TurnInv, Kind
<1>2. PICK needed \in BOOLEAN:
        /\ boot = [task |-> IF needed THEN "running" ELSE "none", owed |-> FALSE, retry |-> FALSE]
        /\ lakeReady = ~needed
  BY DEF CycleInit
<1>3. boot \in BootRecord /\ BootInv
  BY <1>2 DEF BootRecord, BootInv, BootstrapKeepsTrying
<1> QED
  BY <1>1, <1>3 DEF TaskInv

LEMMA TaskStep ==
  ASSUME TaskInv, [CycleNext]_cyclevars
  PROVE  TaskInv'
<1> USE DEF TaskInv
<1>1. CASE WakeLoop
  BY <1>1, WakeKeepsBoot, OthersKeepTurns DEF WakeLoop, reviews
<1>2. CASE StartReview
  BY <1>2, StartKeepsTurns, OthersKeepBoot DEF StartReview, lake
<1>3. CASE BootstrapEnds
  <2>1. boot' \in BootRecord
    BY <1>3 DEF BootstrapEnds, BootRecord
  <2>2. BootInv'
    BY <1>3 DEF BootstrapEnds, BootInv, BootstrapKeepsTrying, BootRecord
  <2> QED
    BY <1>3, <2>1, <2>2, OthersKeepTurns DEF BootstrapEnds, reviews
<1>4. CASE RetryDelayPasses
  <2>1. boot' \in BootRecord /\ BootInv'
    BY <1>4 DEF RetryDelayPasses, BootInv, BootstrapKeepsTrying, BootRecord
  <2> QED
    BY <1>4, <2>1, OthersKeepTurns DEF RetryDelayPasses, reviews
<1>5. CASE IntervalPasses
  <2>1. TurnInv'
    BY <1>5 DEF IntervalPasses, TurnInv
  <2> QED
    BY <1>5, <2>1, OthersKeepBoot DEF IntervalPasses, lake
<1>6. CASE NoFreshMarket \/ Consult \/ DecideTrade \/ Execute \/ SkipReview \/ CompleteReview
  BY <1>6, OthersKeepTurns, OthersKeepBoot
     DEF NoFreshMarket, Consult, DecideTrade, Execute, SkipReview, CompleteReview, reviews, lake
<1>7. CASE BeginReview \/ PlanReview \/ ReviewPanics
  BY <1>7, OthersKeepTurns, OthersKeepBoot DEF BeginReview, PlanReview, ReviewPanics, lake
<1>8. CASE PauseOrResume \/ QueueOverride \/ SwapModel \/ CooldownPasses
  BY <1>8, OthersKeepTurns, OthersKeepBoot
     DEF PauseOrResume, QueueOverride, SwapModel, CooldownPasses, reviews, lake
<1>9. CASE UNCHANGED cyclevars
  BY <1>9, OthersKeepTurns, OthersKeepBoot DEF cyclevars, reviews, lake
<1> QED
  BY <1>1, <1>2, <1>3, <1>4, <1>5, <1>6, <1>7, <1>8, <1>9 DEF CycleNext

\* next_review and the loop's bootstrap: whatever the intervals, however long a
\* review takes and however often the bootstrap fails, no kind of review is
\* passed over twice in a row, and the lake is filled, being filled, or owed.
THEOREM TurnsAreTaken == CycleSpec => []TasksTakeTurns
<1>1. CycleInit => TaskInv
  BY TaskInit
<1>2. TaskInv /\ [CycleNext]_cyclevars => TaskInv'
  BY TaskStep
<1>3. TaskInv => TasksTakeTurns
  BY DEF TaskInv, TurnInv, BootInv, TasksTakeTurns, ReviewsTakeTurns
<1> QED
  BY <1>1, <1>2, <1>3, PTL DEF CycleSpec

(* ---------------------------------------------------------------------- *)
(* The trade sizes                                                        *)

LEMMA MaxOfTwo ==
  ASSUME NEW a \in Int, NEW b \in Int
  PROVE  /\ Max({a, b}) \in {a, b}
         /\ Max({a, b}) >= a /\ Max({a, b}) >= b
<1>1. \E x \in {a, b}: \A y \in {a, b}: x >= y
  <2>1. CASE a >= b
    BY <2>1
  <2>2. CASE b >= a
    BY <2>2
  <2> QED
    BY <2>1, <2>2
<1> QED
  BY <1>1 DEF Max

LEMMA MinOfTwo ==
  ASSUME NEW a \in Int, NEW b \in Int
  PROVE  /\ Min({a, b}) \in {a, b}
         /\ Min({a, b}) <= a /\ Min({a, b}) <= b
<1>1. \E x \in {a, b}: \A y \in {a, b}: x =< y
  <2>1. CASE a <= b
    BY <2>1
  <2>2. CASE b <= a
    BY <2>2
  <2> QED
    BY <2>1, <2>2
<1> QED
  BY <1>1 DEF Min

\* A pair of sizes holds against what is known of its overrides.
Origins == [floor: 0..LargestSize, inverted: BOOLEAN]

Holds(s, o) ==
  /\ s \in Sizing /\ o \in Origins
  /\ s.min >= o.floor /\ s.max >= o.floor
  /\ s.min > s.max => o.inverted

\* What a reversal would bring back holds as well.
TuneInv ==
  /\ Holds(sizing, origin)
  /\ trial.active => Holds(trial.previous, trial.origin)

\* The tuner shrinks the largest size, never below the smallest; a smallest size that it
\* lowers was above the largest already.
LEMMA ProposedHolds ==
  ASSUME Holds(sizing, origin)
  PROVE  Holds(Proposed, origin)
<1> DEFINE low == CurrentMin
           high == CurrentMax
           m == Max({high - 1, low})
           largest == IF m < high THEN m ELSE sizing.max
           top == Max({largest, Cent})
           smallest == IF low > top THEN top ELSE sizing.min
           g == Min({sizing.gate + 1, GateSteps})
<1>1. Proposed = [gate |-> g, max |-> largest, min |-> smallest]
  BY DEF Proposed, Candidate
<1>2. /\ sizing.min \in 0..LargestSize /\ sizing.max \in 0..LargestSize
      /\ sizing.gate \in 0..GateSteps
      /\ origin.floor \in 0..LargestSize /\ LargestSize \in Nat /\ LargestSize >= 1
      /\ sizing.min >= origin.floor /\ sizing.max >= origin.floor
      /\ sizing.min > sizing.max => origin.inverted
  BY TuningAssumption DEF Holds, Sizing, Origins
<1>3. low \in {sizing.min, 1} /\ low >= sizing.min /\ low >= 1
  <2> DEFINE least == sizing.min
             cent == Cent
  <2>1. least \in Int /\ cent \in Int /\ cent = 1
    BY <1>2 DEF Cent
  <2>2. low = Max({least, cent})
    BY DEF CurrentMin
  <2> HIDE DEF low, least, cent
  <2>3. low \in {least, cent} /\ low >= least /\ low >= cent
    BY <2>1, <2>2, MaxOfTwo
  <2> QED
    BY <2>1, <2>3 DEF least
<1>4. high \in {sizing.max, low} /\ high >= sizing.max /\ high >= low
  <2>1. low \in Int /\ sizing.max \in Int
    BY <1>2, <1>3
  <2> HIDE DEF low
  <2> QED
    BY <2>1, MaxOfTwo DEF CurrentMax, low
<1>5. m \in {high - 1, low} /\ m >= low
  <2>1. low \in Int /\ high - 1 \in Int
    BY <1>2, <1>3, <1>4
  <2> HIDE DEF low, high
  <2> QED
    BY <2>1, MaxOfTwo
<1> HIDE DEF low, high, m
<1>6. largest \in 0..LargestSize /\ largest >= origin.floor
  BY <1>2, <1>3, <1>4, <1>5
<1>7. top \in {largest, 1} /\ top >= largest /\ top >= 1
  <2> HIDE DEF largest
  <2> QED
    BY <1>2, <1>6, MaxOfTwo DEF Cent
<1>8. g \in 0..GateSteps
  <2>1. sizing.gate + 1 \in Int /\ GateSteps \in Int
    BY <1>2, TuningAssumption
  <2>2. g \in {sizing.gate + 1, GateSteps} /\ g <= GateSteps
    BY <2>1, MinOfTwo
  <2> QED
    BY <2>2, <1>2, TuningAssumption
<1> HIDE DEF g, top
<1>9. smallest \in 0..LargestSize /\ smallest >= origin.floor
  BY <1>2, <1>6, <1>7
<1>10. smallest > largest => origin.inverted
  <2>1. CASE m < high
    BY <1>2, <1>3, <1>5, <1>7, <2>1
  <2>2. CASE ~(m < high)
    BY <1>2, <1>3, <1>7, <2>2
  <2> QED
    BY <2>1, <2>2
<1> HIDE DEF largest, smallest
<1>11. Proposed \in Sizing /\ Proposed.min = smallest /\ Proposed.max = largest
  BY <1>1, <1>6, <1>8, <1>9 DEF Sizing
<1> QED
  BY <1>6, <1>9, <1>10, <1>11 DEF Holds

LEMMA JudgeHolds ==
  ASSUME TuneInv, trial.active, NEW h, Judge(h)
  PROVE  TuneInv'
<1>1. \/ UNCHANGED <<trial, sizing, origin>>
      \/ trial' = NoTrial /\ UNCHANGED <<sizing, origin>>
      \/ trial' = NoTrial /\ sizing' = trial.previous /\ origin' = trial.origin
  BY DEF Judge
<1> QED
  BY <1>1 DEF TuneInv, NoTrial, Holds, Sizing, Origins

LEMMA TrialHolds ==
  ASSUME TuneInv, NEW h, NEW p, StartTrial(h, p)
  PROVE  TuneInv'
<1>1. CASE UNCHANGED <<sizing, trial, origin>>
  BY <1>1 DEF TuneInv, Holds, Sizing, Origins
<1>2. CASE /\ sizing' = Proposed /\ origin' = origin
           /\ \E f, t, m: trial' = [active |-> TRUE, from |-> f, total |-> t,
                                    twiceMedian |-> m, previous |-> sizing, origin |-> origin]
  <2>1. trial'.previous = sizing /\ trial'.origin = origin
    BY <1>2
  <2>2. Holds(sizing, origin) /\ Holds(Proposed, origin)
    BY ProposedHolds DEF TuneInv
  <2> QED
    BY <1>2, <2>1, <2>2 DEF TuneInv, Holds, Sizing, Origins
<1> QED
  BY <1>1, <1>2 DEF StartTrial

\* The exchange raises the smallest size and takes the largest along.
LEMMA FloorHolds ==
  ASSUME TuneInv, FloorFeedback
  PROVE  TuneInv'
<1>1. PICK least \in 1..LargestSize:
        /\ sizing' = [sizing EXCEPT !.min = Max({@, Max({least, ConfiguredMin})}),
                                    !.max = Max({@, Max({least, ConfiguredMin})})]
        /\ origin' = [origin EXCEPT !.floor = Max({@, Max({least, ConfiguredMin})})]
  BY DEF FloorFeedback
<1> DEFINE target == Max({least, ConfiguredMin})
           low == Max({sizing.min, target})
           high == Max({sizing.max, target})
           learned == Max({origin.floor, target})
<1>2. /\ sizing \in Sizing /\ origin \in Origins
      /\ sizing.min >= origin.floor /\ sizing.max >= origin.floor
      /\ sizing.min > sizing.max => origin.inverted
  BY DEF TuneInv, Holds
<1>3. target \in 1..LargestSize
  BY TuningAssumption, MaxOfTwo
<1> HIDE DEF target
<1>4. /\ sizing.min \in 0..LargestSize /\ sizing.max \in 0..LargestSize
      /\ origin.floor \in 0..LargestSize /\ LargestSize \in Nat
  BY <1>2, TuningAssumption DEF Sizing, Origins
<1>5. /\ low \in {sizing.min, target} /\ low >= sizing.min /\ low >= target
      /\ high \in {sizing.max, target} /\ high >= sizing.max /\ high >= target
      /\ learned \in {origin.floor, target}
  <2>1. sizing.min \in Int /\ sizing.max \in Int /\ target \in Int /\ origin.floor \in Int
    BY <1>3, <1>4
  <2> QED
    BY <2>1, MaxOfTwo
<1> HIDE DEF low, high, learned
<1>6. /\ sizing' = [sizing EXCEPT !.min = low, !.max = high]
      /\ origin' = [origin EXCEPT !.floor = learned]
  BY <1>1 DEF target, low, high, learned
<1>7. sizing' \in Sizing /\ sizing'.min = low /\ sizing'.max = high
  <2>1. low \in 0..LargestSize /\ high \in 0..LargestSize
    BY <1>3, <1>4, <1>5
  <2> QED
    BY <1>2, <1>6, <2>1 DEF Sizing
<1>8. origin' \in Origins /\ origin'.floor = learned /\ origin'.inverted = origin.inverted
  BY <1>2, <1>3, <1>4, <1>5, <1>6 DEF Origins
<1>9. low >= learned /\ high >= learned /\ (low > high => origin.inverted)
  BY <1>2, <1>3, <1>4, <1>5
<1>10. Holds(sizing, origin)'
  BY <1>7, <1>8, <1>9 DEF Holds, Sizing, Origins
<1> QED
  BY <1>10 DEF TuneInv, FloorFeedback, Holds, Sizing, Origins

\* Whatever pair the operator gives, it is marked when it is inverted.
LEMMA OperatorHolds ==
  ASSUME TuneInv, OperatorTunes
  PROVE  TuneInv'
<1>1. PICK s \in Sizing: sizing' = s /\ origin' = [floor |-> 0, inverted |-> s.min > s.max]
  BY DEF OperatorTunes
<1>2. s.min \in 0..LargestSize /\ s.max \in 0..LargestSize /\ LargestSize \in Nat
  BY TuningAssumption DEF Sizing
<1>3. origin' \in Origins /\ origin'.floor = 0 /\ (s.min > s.max => origin'.inverted)
  <2>1. 0 \in 0..LargestSize /\ (s.min > s.max) \in BOOLEAN
    BY <1>2
  <2> DEFINE inverted == s.min > s.max
  <2>2. origin' = [floor |-> 0, inverted |-> inverted] /\ inverted \in BOOLEAN
    BY <1>1, <2>1
  <2> HIDE DEF inverted
  <2>3. origin' \in Origins /\ origin'.floor = 0 /\ origin'.inverted = inverted
    BY <2>1, <2>2 DEF Origins
  <2> QED
    BY <2>3 DEF inverted
<1>4. Holds(sizing, origin)'
  BY <1>1, <1>2, <1>3 DEF Holds, Sizing, Origins
<1> QED
  BY <1>4 DEF TuneInv, OperatorTunes, Holds, Sizing, Origins

LEMMA TuneStep ==
  ASSUME TuneInv, [TuningNext]_tuningvars
  PROVE  TuneInv'
<1>1. CASE FinishReplay
  <2>1. PICK p \in Profit: IF trial.active THEN Judge(Recorded(p)) ELSE StartTrial(Recorded(p), p)
    BY <1>1 DEF FinishReplay
  <2> QED
    BY <2>1, JudgeHolds, TrialHolds
<1>2. CASE ReplayFails \/ TuneCooldownEnds
  BY <1>2 DEF ReplayFails, TuneCooldownEnds, TuneInv, Holds, Sizing, Origins
<1>3. CASE OperatorTunes
  BY <1>3, OperatorHolds
<1>4. CASE FloorFeedback
  BY <1>4, FloorHolds
<1>5. CASE UNCHANGED tuningvars
  BY <1>5 DEF tuningvars, TuneInv, Holds, Sizing, Origins
<1> QED
  BY <1>1, <1>2, <1>3, <1>4, <1>5 DEF TuningNext

\* apply_backtest_auto_tuning, trading_set_config and apply_trade_floor_feedback write the
\* same two sizes: whoever moves one, in whatever order, and whichever trial is reversed, no
\* size is below the exchange's minimum that its overrides have met, and the smallest is above
\* the largest only where the operator gave them so.
THEOREM SizesAreSafe == TuningSpec => []SizesHold
<1>1. TuningInit => TuneInv
  <2>1. ASSUME TuningInit PROVE TuneInv
    <3>1. Configured \in Sizing /\ Configured.min <= Configured.max
          /\ Configured.min >= 0 /\ Configured.max >= 0
      BY TuningAssumption DEF Configured, Sizing
    <3>2. [floor |-> 0, inverted |-> FALSE] \in Origins
      BY TuningAssumption DEF Origins
    <3>3. Configured.min \in Int /\ Configured.max \in Int
      BY TuningAssumption DEF Configured
    <3> QED
      BY <2>1, <3>1, <3>2, <3>3 DEF TuningInit, TuneInv, Holds, NoTrial
  <2> QED
    BY <2>1
<1>2. TuneInv /\ [TuningNext]_tuningvars => TuneInv'
  BY TuneStep
<1>3. TuneInv => SizesHold
  BY DEF TuneInv, Holds, SizesHold
<1> QED
  BY <1>1, <1>2, <1>3, PTL DEF TuningSpec

(* ---------------------------------------------------------------------- *)
(* The positions of a set in their order                                  *)

\* By least counterexample: what holds of a set below n holds of one that has
\* n + 1 as well.
LEMMA EveryOrderExists ==
  \A n \in Nat: \A S \in SUBSET (1..n):
    /\ IsFiniteSet(S)
    /\ \E f \in [1..Cardinality(S) -> S]: \A i, j \in DOMAIN f: i < j => f[i] < f[j]
<1> DEFINE Ordered(S) ==
             \E f \in [1..Cardinality(S) -> S]: \A i, j \in DOMAIN f: i < j => f[i] < f[j]
           Bad == {n \in Nat: \E S \in SUBSET (1..n): ~Ordered(S)}
<1>1. ASSUME NEW n \in Nat, NEW S \in SUBSET (1..n)
      PROVE  IsFiniteSet(S) /\ Cardinality(S) \in Nat
  <2>1. IsFiniteSet(1..n)
    BY FS_Interval
  <2> QED
    BY <2>1, FS_Subset, FS_CardinalityType
<1>2. 0 \notin Bad
  <2>1. ASSUME NEW S \in SUBSET (1..0) PROVE Ordered(S)
    <3>1. S = {}
      OBVIOUS
    <3>2. Cardinality(S) = 0
      BY <3>1, FS_EmptySet
    <3> DEFINE f == [i \in 1..0 |-> 0]
    <3>3. f \in [1..0 -> S] /\ \A i, j \in DOMAIN f: i < j => f[i] < f[j]
      BY <3>1
    <3> HIDE DEF f
    <3> QED
      BY <3>2, <3>3
  <2> QED
    BY <2>1
<1>3. ASSUME NEW n \in Nat, n \notin Bad
      PROVE  n + 1 \notin Bad
  <2>1. SUFFICES ASSUME NEW S \in SUBSET (1..(n + 1)) PROVE Ordered(S)
    OBVIOUS
  <2>2. CASE n + 1 \notin S
    <3>1. S \in SUBSET (1..n)
      BY <2>2
    <3> QED
      BY <3>1, <1>3
  <2>3. CASE n + 1 \in S
    <3> DEFINE R == S \ {n + 1}
               c == Cardinality(R)
    <3>1. R \in SUBSET (1..n)
      OBVIOUS
    <3>2. PICK f \in [1..c -> R]: \A i, j \in DOMAIN f: i < j => f[i] < f[j]
      BY <3>1, <1>3
    <3>3. c \in Nat /\ IsFiniteSet(S) /\ n + 1 \in Nat
      <4>1. n + 1 \in Nat
        OBVIOUS
      <4>2. IsFiniteSet(S)
        BY <4>1, <2>1, <1>1
      <4> QED
        BY <3>1, <4>1, <4>2, <1>1
    <3>4. Cardinality(S) = c + 1
      <4>1. Cardinality(S) \in Nat /\ c = Cardinality(S) - 1
        BY <2>3, <3>3, FS_RemoveElement, <1>1
      <4> QED
        BY <4>1
    <3> DEFINE g == [i \in 1..(c + 1) |-> IF i = c + 1 THEN n + 1 ELSE f[i]]
    <3>5. g \in [1..(c + 1) -> S]
      <4>1. ASSUME NEW i \in 1..(c + 1) PROVE g[i] \in S
        <5>1. CASE i = c + 1
          BY <5>1, <2>3
        <5>2. CASE i # c + 1
          <6>1. i \in 1..c
            BY <5>2, <3>3
          <6>2. f[i] \in S
            BY <6>1, <3>2
          <6> QED
            BY <5>2, <6>2
        <5> QED
          BY <5>1, <5>2
      <4> QED
        BY <4>1
    <3>6. ASSUME NEW i \in 1..(c + 1), NEW j \in 1..(c + 1), i < j
          PROVE  g[i] < g[j]
      <4>1. i \in 1..c /\ g[i] = f[i]
        BY <3>3, <3>6
      <4>4. f[i] \in 1..n
        BY <4>1, <3>1, <3>2
      <4>2. CASE j = c + 1
        BY <4>1, <4>4, <4>2
      <4>3. CASE j # c + 1
        <5>1. j \in 1..c /\ g[j] = f[j]
          BY <4>3, <3>3
        <5> QED
          BY <4>1, <5>1, <3>2, <3>6
      <4> QED
        BY <4>2, <4>3
    <3> HIDE DEF g
    <3>7. DOMAIN g = 1..(c + 1)
      BY <3>5
    <3> QED
      BY <3>4, <3>5, <3>6, <3>7
  <2> QED
    BY <2>2, <2>3
<1>4. Bad = {}
  <2>1. SUFFICES ASSUME Bad # {} PROVE FALSE
    OBVIOUS
  <2> HIDE DEF Bad
  <2>2. Bad \in SUBSET Nat
    BY DEF Bad
  <2>3. PICK n \in Bad: \A m \in Bad: n <= m
    <3>1. PICK n \in Bad: \A m \in Bad: ~(<<m, n>> \in OpToRel(<, Nat))
      BY <2>1, <2>2, WFMin, NatLessThanWellFounded
    <3>2. \A m \in Bad: ~(m < n)
      BY <2>2, <3>1 DEF OpToRel
    <3> QED
      BY <2>2, <3>2
  <2>4. n # 0 /\ n \in Nat
    BY <2>2, <2>3, <1>2
  <2>5. n - 1 \in Nat /\ n - 1 \notin Bad /\ (n - 1) + 1 = n
    BY <2>3, <2>4, <2>2
  <2> QED
    BY <2>3, <2>5, <1>3
<1>5. ASSUME NEW n \in Nat, NEW S \in SUBSET (1..n) PROVE Ordered(S)
  BY <1>4
<1> QED
  BY <1>1, <1>5

\* The positions are a sequence, and none occurs twice.
LEMMA InOrderIsInjective ==
  ASSUME NEW n \in Nat, NEW S \in SUBSET (1..n)
  PROVE  /\ InOrder(S) \in Seq(S)
         /\ \A i, j \in DOMAIN InOrder(S): InOrder(S)[i] = InOrder(S)[j] => i = j
         /\ S = {} => InOrder(S) = <<>>
<1>1. IsFiniteSet(S) /\ Cardinality(S) \in Nat
  BY EveryOrderExists, FS_CardinalityType
<1>2. /\ InOrder(S) \in [1..Cardinality(S) -> S]
      /\ \A i, j \in DOMAIN InOrder(S): i < j => InOrder(S)[i] < InOrder(S)[j]
  BY EveryOrderExists DEF InOrder
<1> DEFINE f == InOrder(S)
<1> HIDE DEF f
<1>3. f \in Seq(S)
  BY <1>1, <1>2 DEF f
<1>4. ASSUME NEW i \in DOMAIN f, NEW j \in DOMAIN f, f[i] = f[j]
      PROVE  i = j
  <2>1. i \in Nat /\ j \in Nat /\ f[i] \in Nat /\ f[j] \in Nat
    <3>1. i \in 1..Cardinality(S) /\ j \in 1..Cardinality(S)
      BY <1>2, <1>4 DEF f
    <3>2. f[i] \in S /\ f[j] \in S
      BY <1>2, <3>1 DEF f
    <3>3. i \in Nat /\ j \in Nat
      BY <1>1, <3>1
    <3>4. f[i] \in 1..n /\ f[j] \in 1..n
      BY <3>2
    <3> QED
      BY <3>3, <3>4
  <2>2. (i < j => f[i] < f[j]) /\ (j < i => f[j] < f[i])
    BY <1>2 DEF f
  <2> QED
    BY <1>4, <2>1, <2>2
<1>5. S = {} => f = <<>>
  <2>1. S = {} => Cardinality(S) = 0
    BY FS_EmptySet
  <2> QED
    BY <2>1, <1>2 DEF f
<1> QED
  BY <1>3, <1>4, <1>5 DEF f

(* ---------------------------------------------------------------------- *)
(* The quantitative controller                                            *)

LEMMA NewIsController == NewController \in QuantController
  BY QuantAssumption DEF NewController, QuantController, Arm

\* A retuning leaves the mode and the evidence alone.
LEMMA RetunedIsController ==
  ASSUME NEW q \in QuantController, NEW r \in Retuned(q)
  PROVE  /\ r \in QuantController
         /\ r.mode = q.mode /\ r.pending = q.pending /\ r.resolved = q.resolved
<1>1. Contenders(q.resolved) \subseteq Arm
  BY DEF Contenders, Arm
<1>2. r = q \/ \E a \in Arm: r = [q EXCEPT !.untuned = 0, !.arm = a]
  BY <1>1 DEF Retuned, QuantController
<1>3. CASE r = q
  BY <1>3
<1>4. CASE \E a \in Arm: r = [q EXCEPT !.untuned = 0, !.arm = a]
  <2>1. PICK a \in Arm: r = [q EXCEPT !.untuned = 0, !.arm = a]
    BY <1>4
  <2> QED
    BY <2>1 DEF QuantController
<1> QED
  BY <1>2, <1>3, <1>4

LEMMA ModeIsUpdated ==
  ASSUME NEW q \in QuantController, NEW n \in Nat, NEW m \in {"shadow", "primary"},
         NEW w, w = [q EXCEPT !.falls = 0, !.streak = n, !.mode = m]
  PROVE  w \in QuantController /\ w.pending = q.pending /\ w.resolved = q.resolved
<1>1. q = [mode |-> q.mode, arm |-> q.arm, pending |-> q.pending, resolved |-> q.resolved,
           streak |-> q.streak, falls |-> q.falls, untuned |-> q.untuned,
           native |-> q.native, stale |-> q.stale]
  BY DEF QuantController
<1>2. w = [mode |-> m, arm |-> q.arm, pending |-> q.pending, resolved |-> q.resolved,
           streak |-> n, falls |-> 0, untuned |-> q.untuned,
           native |-> q.native, stale |-> q.stale]
  BY <1>1
<1> QED
  BY <1>2 DEF QuantController

\* An evaluation of the migration moves the mode and its counters only.
LEMMA MigratedIsController ==
  ASSUME NEW q \in QuantController
  PROVE  /\ Migrated(q) \in QuantController
         /\ Migrated(q).pending = q.pending /\ Migrated(q).resolved = q.resolved
<1>1. CASE q.mode = "primary"
  <2>1. CASE Qualified(q)
    BY <1>1, <2>1 DEF Migrated, QuantController
  <2>2. CASE ~Qualified(q) /\ ~EnoughPairs(q)
    BY <1>1, <2>2 DEF Migrated
  <2>3. CASE ~Qualified(q) /\ EnoughPairs(q)
    <3>1. \/ Migrated(q) = [q EXCEPT !.falls = q.falls + 1]
          \/ Migrated(q) = [q EXCEPT !.mode = "shadow", !.streak = 0, !.falls = 0]
      BY <1>1, <2>3 DEF Migrated, QuantController
    <3>2. CASE Migrated(q) = [q EXCEPT !.falls = q.falls + 1]
      BY <3>2 DEF QuantController
    <3>3. CASE Migrated(q) = [q EXCEPT !.mode = "shadow", !.streak = 0, !.falls = 0]
      <4>1. Migrated(q) = [q EXCEPT !.falls = 0, !.streak = 0, !.mode = "shadow"]
        BY <3>3
      <4> DEFINE w == Migrated(q)
      <4> HIDE DEF w
      <4>2. w \in QuantController /\ w.pending = q.pending /\ w.resolved = q.resolved
        <5>1. w = [q EXCEPT !.falls = 0, !.streak = 0, !.mode = "shadow"]
          BY <4>1 DEF w
        <5>2. 0 \in Nat /\ "shadow" \in {"shadow", "primary"}
          OBVIOUS
        <5> QED
          BY <5>1, <5>2, ModeIsUpdated, ZenonT(60)
      <4> QED
        BY <4>2 DEF w
    <3> QED
      BY <3>1, <3>2, <3>3
  <2> QED
    BY <2>1, <2>2, <2>3
<1>2. CASE q.mode = "shadow"
  <2>1. q.streak + 1 \in Nat
    BY DEF QuantController
  <2>2. PICK n \in Nat, m \in {"shadow", "primary"}:
          Migrated(q) = [q EXCEPT !.falls = 0, !.streak = n, !.mode = m]
    BY <1>2, <2>1 DEF Migrated
  <2> DEFINE w == Migrated(q)
  <2> HIDE DEF w
  <2>3. w = [q EXCEPT !.falls = 0, !.streak = n, !.mode = m]
    BY <2>2 DEF w
  <2>4. w \in QuantController /\ w.pending = q.pending /\ w.resolved = q.resolved
    BY <2>3, ModeIsUpdated, ZenonT(60)
  <2> QED
    BY <2>4 DEF w
<1> QED
  BY <1>1, <1>2 DEF QuantController

(* ---------------------------------------------------------------------- *)
(* Its evidence                                                           *)

\* No observation of p occurs twice.
OnceIn(p) == \A i, j \in DOMAIN p: p[i].id = p[j].id => i = j

\* The observations of a controller are told apart by their number, of the n
\* that were recorded.
CountedOnce(q, n) ==
  /\ OnceIn(q.pending) /\ OnceIn(q.resolved)
  /\ \A i \in DOMAIN q.pending, j \in DOMAIN q.resolved: q.pending[i].id # q.resolved[j].id
  /\ \A i \in DOMAIN q.pending: q.pending[i].id <= n
  /\ \A i \in DOMAIN q.resolved: q.resolved[i].id <= n

\* resolve_due moves the quoted observations, each once.
LEMMA SettledAreQuoted ==
  ASSUME quant \in QuantController, NEW quoted \in SUBSET DOMAIN quant.pending,
         NEW returns \in [quoted -> Outcomes], OnceIn(quant.pending)
  PROVE  LET s == Settled(quoted, returns)
         IN /\ s \in Seq(ResolvedObservation) /\ OnceIn(s)
            /\ \A k \in DOMAIN s: \E i \in quoted: s[k].id = quant.pending[i].id
            /\ quoted = {} => s = <<>>
<1> DEFINE chosen == InOrder(quoted)
           s == Settled(quoted, returns)
<1>1. Len(quant.pending) \in Nat /\ DOMAIN quant.pending = 1..Len(quant.pending)
      /\ quant.pending \in [1..Len(quant.pending) -> PendingObservation]
  BY DEF QuantController
<1>2. /\ chosen \in Seq(quoted)
      /\ \A i, j \in DOMAIN chosen: chosen[i] = chosen[j] => i = j
      /\ quoted = {} => chosen = <<>>
  BY <1>1, InOrderIsInjective
<1> HIDE DEF chosen
<1>3. s = [k \in DOMAIN chosen |->
             [id |-> quant.pending[chosen[k]].id, arm |-> quant.pending[chosen[k]].arm,
              paired |-> quant.pending[chosen[k]].paired, returns |-> returns[chosen[k]]]]
  BY DEF Settled, chosen
<1> HIDE DEF s
<1>4. Len(chosen) \in Nat /\ DOMAIN chosen = 1..Len(chosen)
  BY <1>2
<1>5. ASSUME NEW k \in DOMAIN chosen
      PROVE  /\ chosen[k] \in quoted /\ s[k] \in ResolvedObservation
             /\ s[k].id = quant.pending[chosen[k]].id
  <2>1. chosen[k] \in quoted
    BY <1>2
  <2>2. quant.pending[chosen[k]] \in PendingObservation /\ returns[chosen[k]] \in Outcomes
    BY <1>1, <2>1
  <2> QED
    BY <1>3, <2>1, <2>2 DEF PendingObservation, ResolvedObservation
<1>6. s \in [1..Len(chosen) -> ResolvedObservation]
  BY <1>3, <1>4, <1>5
<1>7. s \in Seq(ResolvedObservation)
  BY <1>4, <1>6
<1>8. OnceIn(s)
  <2>1. SUFFICES ASSUME NEW i \in DOMAIN s, NEW j \in DOMAIN s, s[i].id = s[j].id
                 PROVE  i = j
    BY DEF OnceIn
  <2>2. i \in DOMAIN chosen /\ j \in DOMAIN chosen
    BY <1>3
  <2>3. chosen[i] = chosen[j]
    BY <1>5, <2>1, <2>2 DEF OnceIn
  <2> QED
    BY <1>2, <2>2, <2>3
<1>9. \A k \in DOMAIN s: \E i \in quoted: s[k].id = quant.pending[i].id
  BY <1>3, <1>5
<1>10. quoted = {} => s = <<>>
  <2>1. quoted = {} => Len(chosen) = 0
    BY <1>2
  <2> QED
    BY <2>1, <1>6
<1> QED
  BY <1>7, <1>8, <1>9, <1>10 DEF s

\* The others wait, each once, under the number they had.
LEMMA WaitingAreLeft ==
  ASSUME quant \in QuantController, NEW quoted \in SUBSET DOMAIN quant.pending,
         OnceIn(quant.pending)
  PROVE  LET w == Waiting(quoted)
         IN /\ w \in Seq(PendingObservation) /\ OnceIn(w)
            /\ \A k \in DOMAIN w: \E i \in DOMAIN quant.pending \ quoted:
                 w[k].id = quant.pending[i].id
<1> DEFINE L == DOMAIN quant.pending \ (quoted \cup Expired(quoted))
           left == InOrder(L)
           w == Waiting(quoted)
<1>1. Len(quant.pending) \in Nat /\ DOMAIN quant.pending = 1..Len(quant.pending)
      /\ quant.pending \in [1..Len(quant.pending) -> PendingObservation]
  BY DEF QuantController
<1>2. L \in SUBSET (1..Len(quant.pending))
  BY <1>1
<1> HIDE DEF L
<1>3. /\ left \in Seq(L)
      /\ \A i, j \in DOMAIN left: left[i] = left[j] => i = j
  BY <1>1, <1>2, InOrderIsInjective
<1> HIDE DEF left
<1>4. w = [k \in DOMAIN left |-> [quant.pending[left[k]] EXCEPT !.waited = @ + 1]]
  BY DEF Waiting, left, L
<1> HIDE DEF w
<1>5. Len(left) \in Nat /\ DOMAIN left = 1..Len(left)
  BY <1>3
<1>6. ASSUME NEW k \in DOMAIN left
      PROVE  /\ left[k] \in L /\ w[k] \in PendingObservation
             /\ w[k].id = quant.pending[left[k]].id
  <2>1. left[k] \in L
    BY <1>3
  <2>2. quant.pending[left[k]] \in PendingObservation
    BY <1>1, <1>2, <2>1
  <2> QED
    BY <1>4, <2>1, <2>2 DEF PendingObservation
<1>7. w \in [1..Len(left) -> PendingObservation]
  BY <1>4, <1>5, <1>6
<1>8. w \in Seq(PendingObservation)
  BY <1>5, <1>7
<1>9. OnceIn(w)
  <2>1. SUFFICES ASSUME NEW i \in DOMAIN w, NEW j \in DOMAIN w, w[i].id = w[j].id
                 PROVE  i = j
    BY DEF OnceIn
  <2>2. i \in DOMAIN left /\ j \in DOMAIN left
    BY <1>4
  <2>3. left[i] = left[j]
    <3>1. left[i] \in DOMAIN quant.pending /\ left[j] \in DOMAIN quant.pending
      BY <1>1, <1>2, <1>6, <2>2
    <3>2. quant.pending[left[i]].id = quant.pending[left[j]].id
      BY <1>6, <2>1, <2>2
    <3> QED
      BY <3>1, <3>2 DEF OnceIn
  <2> QED
    BY <1>3, <2>2, <2>3
<1>10. \A k \in DOMAIN w: \E i \in DOMAIN quant.pending \ quoted: w[k].id = quant.pending[i].id
  BY <1>4, <1>6 DEF L
<1> QED
  BY <1>8, <1>9, <1>10 DEF w

(* ---------------------------------------------------------------------- *)
(* The promotion and the evidence over the steps                          *)

\* The mode in memory is one the file has seen, except between the resolution
\* that promotes and its save; there the controller that a failed save brings
\* back is.  The loop acts on the mode only once that save is behind it.
PromotionInv ==
  /\ cycle # "save" /\ quant.mode = "primary" => durable
  /\ cycle = "save" /\ before.mode = "primary" => durable
  /\ acting => cycle = "advise" /\ durable

\* Every controller that may come back counts each observation once.
EvidenceInv ==
  /\ CountedOnce(quant, recorded)
  /\ CountedOnce(before, recorded)
  /\ CountedOnce(qdisk.quant, recorded)

QuantInv == QuantTypeOK /\ PromotionInv /\ EvidenceInv

LEMMA NewCountsOnce ==
  ASSUME NEW n \in Nat
  PROVE  CountedOnce(NewController, n) /\ NewController.mode = "shadow"
  BY DEF CountedOnce, OnceIn, NewController

LEMMA QuantInitInv ==
  ASSUME QuantInit
  PROVE  QuantInv
<1>1. quant = NewController /\ before = NewController
      /\ qdisk = [quant |-> NewController, paused |-> FALSE] /\ recorded = 0
  BY DEF QuantInit
<1>2. QuantTypeOK
  <2>1. quant \in QuantController /\ before \in QuantController
        /\ qdisk \in [quant: QuantController, paused: BOOLEAN]
    BY <1>1, NewIsController
  <2> QED
    BY <2>1 DEF QuantInit, QuantTypeOK
<1>3. EvidenceInv
  BY <1>1, NewCountsOnce DEF EvidenceInv
<1>4. PromotionInv
  BY <1>1, NewCountsOnce DEF PromotionInv, QuantInit
<1> QED
  BY <1>2, <1>3, <1>4 DEF QuantInv

\* The ledger keeps its newest entries, so each of them is an entry of the old
\* ledger or of the settled ones.
LEMMA LedgerCountsOnce ==
  ASSUME NEW R, NEW old \in Seq(R), NEW new \in Seq(R), OnceIn(old), OnceIn(new),
         \A i \in DOMAIN old, j \in DOMAIN new: old[i].id # new[j].id
  PROVE  /\ Trimmed(old \o new) \in Seq(R) /\ OnceIn(Trimmed(old \o new))
         /\ \A k \in DOMAIN Trimmed(old \o new):
              \/ \E i \in DOMAIN old: Trimmed(old \o new)[k] = old[i]
              \/ \E j \in DOMAIN new: Trimmed(old \o new)[k] = new[j]
<1> DEFINE all == old \o new
           low == Len(all) - Min({Len(all), LedgerSize}) + 1
           kept == SubSeq(all, low, Len(all))
<1>0. Trimmed(old \o new) = kept
  BY DEF Trimmed
<1>1. /\ all \in Seq(R) /\ Len(all) = Len(old) + Len(new) /\ Len(all) \in Nat
      /\ Len(old) \in Nat /\ Len(new) \in Nat
      /\ DOMAIN all = 1..Len(all) /\ DOMAIN old = 1..Len(old) /\ DOMAIN new = 1..Len(new)
  OBVIOUS
<1>2. \A i \in 1..Len(all): all[i] = IF i <= Len(old) THEN old[i] ELSE new[i - Len(old)]
  BY <1>1
<1> HIDE DEF all
<1>3. low \in 1..(Len(all) + 1)
  <2>1. Min({Len(all), LedgerSize}) \in {Len(all), LedgerSize}
        /\ Min({Len(all), LedgerSize}) <= Len(all)
    <3>1. Len(all) \in Int /\ LedgerSize \in Int
      BY <1>1, QuantAssumption
    <3> QED
      BY <3>1, MinOfTwo
  <2>2. Min({Len(all), LedgerSize}) \in 0..Len(all)
    BY <2>1, <1>1, QuantAssumption
  <2> QED
    BY <2>2, <1>1 DEF low
<1> HIDE DEF low
<1>4. /\ kept \in Seq(R) /\ DOMAIN kept = 1..(Len(all) - low + 1)
      /\ \A k \in DOMAIN kept: kept[k] = all[low + k - 1] /\ low + k - 1 \in 1..Len(all)
  <2>1. kept \in Seq(R)
    BY <1>1, <1>3
  <2>2. Len(kept) = Len(all) - low + 1
    BY <1>1, <1>3
  <2>3. \A k \in 1..(Len(all) - low + 1): kept[k] = all[low + k - 1]
    BY <1>1, <1>3
  <2> HIDE DEF kept
  <2>4. DOMAIN kept = 1..(Len(all) - low + 1)
    BY <2>1, <2>2
  <2>5. \A k \in 1..(Len(all) - low + 1): low + k - 1 \in 1..Len(all)
    BY <1>1, <1>3
  <2> QED
    BY <2>1, <2>3, <2>4, <2>5
<1> HIDE DEF kept
<1>5. ASSUME NEW k \in DOMAIN kept
      PROVE  \/ \E i \in DOMAIN old: kept[k] = old[i]
             \/ \E j \in DOMAIN new: kept[k] = new[j]
  <2> DEFINE i == low + k - 1
  <2>1. i \in 1..Len(all) /\ kept[k] = all[i]
    BY <1>4
  <2> HIDE DEF i
  <2>2. CASE i <= Len(old)
    BY <2>1, <2>2, <1>1, <1>2
  <2>3. CASE ~(i <= Len(old))
    <3>1. i - Len(old) \in DOMAIN new
      BY <2>1, <2>3, <1>1
    <3> QED
      BY <2>1, <2>3, <3>1, <1>2
  <2> QED
    BY <2>2, <2>3
<1>6. ASSUME NEW i \in 1..Len(all), NEW j \in 1..Len(all), all[i].id = all[j].id
      PROVE  i = j
  <2>1. CASE i <= Len(old) /\ j <= Len(old)
    <3>1. i \in DOMAIN old /\ j \in DOMAIN old
      BY <2>1, <1>1
    <3>2. old[i].id = old[j].id
      BY <2>1, <1>2, <1>6
    <3> QED
      BY <3>1, <3>2 DEF OnceIn
  <2>2. CASE i <= Len(old) /\ ~(j <= Len(old))
    <3>1. i \in DOMAIN old /\ j - Len(old) \in DOMAIN new
      BY <2>2, <1>1
    <3>2. old[i].id = new[j - Len(old)].id
      BY <2>2, <1>2, <1>6
    <3> QED
      BY <3>1, <3>2
  <2>3. CASE ~(i <= Len(old)) /\ j <= Len(old)
    <3>1. j \in DOMAIN old /\ i - Len(old) \in DOMAIN new
      BY <2>3, <1>1
    <3>2. old[j].id = new[i - Len(old)].id
      BY <2>3, <1>2, <1>6
    <3> QED
      BY <3>1, <3>2
  <2>4. CASE ~(i <= Len(old)) /\ ~(j <= Len(old))
    <3>1. i - Len(old) \in DOMAIN new /\ j - Len(old) \in DOMAIN new
      BY <2>4, <1>1
    <3>2. new[i - Len(old)].id = new[j - Len(old)].id
      BY <2>4, <1>2, <1>6
    <3>3. i - Len(old) = j - Len(old)
      BY <3>1, <3>2 DEF OnceIn
    <3> QED
      BY <3>3, <1>1
  <2> QED
    BY <2>1, <2>2, <2>3, <2>4
<1>7. OnceIn(kept)
  <2>1. SUFFICES ASSUME NEW i \in DOMAIN kept, NEW j \in DOMAIN kept, kept[i].id = kept[j].id
                 PROVE  i = j
    BY DEF OnceIn
  <2>2. low + i - 1 = low + j - 1
    <3>1. /\ low + i - 1 \in 1..Len(all) /\ low + j - 1 \in 1..Len(all)
          /\ all[low + i - 1].id = all[low + j - 1].id
      BY <1>4, <2>1
    <3> QED
      BY <3>1, <1>6
  <2>3. i \in Nat /\ j \in Nat /\ low \in Nat
    BY <1>1, <1>3, <1>4, SMTT(30)
  <2> QED
    BY <2>2, <2>3
<1>8. kept \in Seq(R) /\ OnceIn(kept)
      /\ \A k \in DOMAIN kept: \/ \E i \in DOMAIN old: kept[k] = old[i]
                               \/ \E j \in DOMAIN new: kept[k] = new[j]
  BY <1>4, <1>5, <1>7
<1> QED
  BY <1>0, <1>8

LEMMA MovedCountsOnce ==
  ASSUME quant \in QuantController, recorded \in Nat, CountedOnce(quant, recorded),
         NEW quoted \in SUBSET DOMAIN quant.pending, NEW returns \in [quoted -> Outcomes]
  PROVE  /\ Moved(quoted, returns) \in QuantController
         /\ Moved(quoted, returns).mode = quant.mode
         /\ CountedOnce(Moved(quoted, returns), recorded)
<1> DEFINE s == Settled(quoted, returns)
           w == Waiting(quoted)
           kept == Trimmed(quant.resolved \o s)
           u == Min({quant.untuned + Len(s), TuningInterval})
           m == Moved(quoted, returns)
<1>1. m = [quant EXCEPT !.pending = w, !.resolved = kept, !.untuned = u]
  BY DEF Moved, m
<1>2. OnceIn(quant.pending) /\ OnceIn(quant.resolved)
  BY DEF CountedOnce
<1>3. /\ s \in Seq(ResolvedObservation) /\ OnceIn(s)
      /\ \A k \in DOMAIN s: \E i \in quoted: s[k].id = quant.pending[i].id
  BY <1>2, SettledAreQuoted
<1>4. /\ w \in Seq(PendingObservation) /\ OnceIn(w)
      /\ \A k \in DOMAIN w: \E i \in DOMAIN quant.pending \ quoted: w[k].id = quant.pending[i].id
  BY <1>2, WaitingAreLeft
<1> HIDE DEF s, w
<1>5. quant.resolved \in Seq(ResolvedObservation) /\ quant.untuned \in Nat
  BY DEF QuantController
<1>6. \A i \in DOMAIN quant.resolved, j \in DOMAIN s: quant.resolved[i].id # s[j].id
  BY <1>3 DEF CountedOnce
<1>7. /\ kept \in Seq(ResolvedObservation) /\ OnceIn(kept)
      /\ \A k \in DOMAIN kept: \/ \E i \in DOMAIN quant.resolved: kept[k] = quant.resolved[i]
                               \/ \E j \in DOMAIN s: kept[k] = s[j]
  BY <1>2, <1>3, <1>5, <1>6, LedgerCountsOnce
<1>8. u \in Nat
  <2>1. quant.untuned + Len(s) \in Nat /\ TuningInterval \in Nat
    BY <1>3, <1>5, QuantAssumption
  <2>2. quant.untuned + Len(s) \in Int /\ TuningInterval \in Int
    BY <2>1
  <2>3. u \in {quant.untuned + Len(s), TuningInterval}
    BY <2>2, MinOfTwo
  <2> QED
    BY <2>1, <2>3
<1> HIDE DEF kept, u, m
<1>9. /\ m \in QuantController /\ m.mode = quant.mode
      /\ m.pending = w /\ m.resolved = kept
  BY <1>1, <1>4, <1>7, <1>8 DEF QuantController
<1>10. \A i \in DOMAIN w, j \in DOMAIN kept: w[i].id # kept[j].id
  <2>1. SUFFICES ASSUME NEW i \in DOMAIN w, NEW j \in DOMAIN kept PROVE w[i].id # kept[j].id
    OBVIOUS
  <2>2. PICK p \in DOMAIN quant.pending \ quoted: w[i].id = quant.pending[p].id
    BY <1>4
  <2>3. CASE \E r \in DOMAIN quant.resolved: kept[j] = quant.resolved[r]
    BY <2>2, <2>3 DEF CountedOnce
  <2>4. CASE \E r \in DOMAIN s: kept[j] = s[r]
    <3>1. PICK q \in quoted: kept[j].id = quant.pending[q].id
      BY <2>4, <1>3
    <3>2. p # q /\ q \in DOMAIN quant.pending
      OBVIOUS
    <3> QED
      BY <2>2, <3>1, <3>2, <1>2 DEF OnceIn
  <2> QED
    BY <1>7, <2>3, <2>4
<1>11. \A i \in DOMAIN w: w[i].id <= recorded
  BY <1>4 DEF CountedOnce
<1>12. \A j \in DOMAIN kept: kept[j].id <= recorded
  <2>1. \A j \in DOMAIN s: s[j].id <= recorded
    BY <1>3 DEF CountedOnce
  <2> QED
    BY <1>7, <2>1 DEF CountedOnce
<1>13. CountedOnce(m, recorded)
  BY <1>4, <1>7, <1>9, <1>10, <1>11, <1>12 DEF CountedOnce
<1> QED
  BY <1>9, <1>13 DEF m

\* resolve_due: a resolution may promote; without one the controller keeps its
\* mode, and is not saved unless an observation expired.
LEMMA ResolveKeepsInv ==
  ASSUME QuantInv, ResolveDue
  PROVE  QuantInv'
<1> USE DEF QuantInv
<1>1. PICK quoted \in SUBSET DOMAIN quant.pending:
        \E returns \in [quoted -> Outcomes]: Resolve(quoted, returns)
  BY DEF ResolveDue
<1>2. PICK returns \in [quoted -> Outcomes]: Resolve(quoted, returns)
  BY <1>1
<1> DEFINE next == Moved(quoted, returns)
<1>3. quant' \in IF quoted = {} THEN {next} ELSE {Migrated(q): q \in Retuned(next)}
  BY <1>2 DEF Resolve
<1>4. next \in QuantController /\ next.mode = quant.mode /\ CountedOnce(next, recorded)
  BY MovedCountsOnce DEF QuantTypeOK, EvidenceInv
<1> HIDE DEF next
<1>5. /\ quant' \in QuantController
      /\ quant'.pending = next.pending /\ quant'.resolved = next.resolved
      /\ quoted = {} => quant'.mode = quant.mode
  <2>1. CASE quoted = {}
    BY <2>1, <1>3, <1>4
  <2>2. CASE quoted # {}
    <3>1. PICK q \in Retuned(next): quant' = Migrated(q)
      BY <2>2, <1>3
    <3>2. q \in QuantController /\ q.pending = next.pending /\ q.resolved = next.resolved
      BY <1>4, RetunedIsController
    <3> QED
      BY <2>2, <3>1, <3>2, MigratedIsController
  <2> QED
    BY <2>1, <2>2
<1>6. CountedOnce(quant', recorded)
  BY <1>4, <1>5 DEF CountedOnce
<1>7. /\ durable' = (durable /\ (quant.mode = "primary" \/ quant'.mode = "shadow"))
      /\ \/ quoted = {} /\ cycle' = "choose" /\ before' = before
         \/ cycle' = "save" /\ before' = quant
  BY <1>2 DEF Resolve
<1>8. /\ cycle = "idle" /\ qdisk' = qdisk /\ acting' = acting /\ halted' = halted
      /\ recorded' = recorded /\ qfaults' = qfaults
  BY DEF ResolveDue
<1>9. PromotionInv'
  <2>1. CASE quoted = {} /\ cycle' = "choose"
    BY <2>1, <1>5, <1>7, <1>8 DEF PromotionInv
  <2>2. CASE cycle' = "save" /\ before' = quant
    BY <2>2, <1>7, <1>8 DEF PromotionInv
  <2> QED
    BY <2>1, <2>2, <1>7
<1>10. EvidenceInv'
  BY <1>6, <1>7, <1>8 DEF EvidenceInv
<1>11. QuantTypeOK'
  <2>1. quant' \in QuantController /\ before' \in QuantController
    BY <1>5, <1>7 DEF QuantTypeOK
  <2> QED
    BY <2>1, <1>7, <1>8 DEF QuantTypeOK
<1> QED
  BY <1>9, <1>10, <1>11

\* What keeps the mode and the evidence of the controller in memory, and saves
\* nothing, keeps the invariant.
LEMMA SameEvidenceKeepsInv ==
  ASSUME QuantInv, quant' \in QuantController, quant'.mode = quant.mode,
         quant'.pending = quant.pending, quant'.resolved = quant.resolved,
         halted' \in BOOLEAN, UNCHANGED <<qdisk, before, cycle, acting, recorded, qfaults, durable>>
  PROVE  QuantInv'
<1>1. QuantTypeOK'
  BY DEF QuantInv, QuantTypeOK
<1>2. EvidenceInv'
  BY DEF QuantInv, EvidenceInv, CountedOnce
<1>3. PromotionInv'
  BY DEF QuantInv, PromotionInv
<1> QED
  BY <1>1, <1>2, <1>3 DEF QuantInv

\* record_evaluation: the observation that starts waiting has a number of its
\* own.
LEMMA RecordCountsOnce ==
  ASSUME QuantInv, Record
  PROVE  /\ quant' \in QuantController /\ quant'.mode = quant.mode
         /\ CountedOnce(quant', recorded + 1)
<1> DEFINE o == [id |-> recorded + 1, arm |-> quant.arm, paired |-> ~acting, waited |-> 0]
           new == <<o>>
           p == Trimmed(quant.pending \o new)
<1>1. quant \in QuantController /\ recorded \in Nat /\ CountedOnce(quant, recorded)
  BY DEF QuantInv, QuantTypeOK, EvidenceInv
<1>2. quant.pending \in Seq(PendingObservation)
  BY <1>1 DEF QuantController
<1>3. o \in PendingObservation /\ o.id = recorded + 1
  BY <1>1 DEF QuantController, PendingObservation, QuantInv, QuantTypeOK
<1>4. quant' = [quant EXCEPT !.pending = p]
  <2>1. quant' = [quant EXCEPT !.pending = Trimmed(Append(quant.pending, o))]
    BY DEF Record
  <2> HIDE DEF o
  <2>2. Append(quant.pending, o) = quant.pending \o <<o>>
    BY <1>2, <1>3
  <2> QED
    BY <2>1, <2>2
<1> HIDE DEF o
<1>5. new \in Seq(PendingObservation) /\ \A j \in DOMAIN new: new[j].id = recorded + 1
      /\ DOMAIN new = {1}
  BY <1>3
<1> HIDE DEF new
<1>6. \A i \in DOMAIN quant.pending: quant.pending[i].id \in Nat /\ quant.pending[i].id <= recorded
  <2>1. ASSUME NEW i \in DOMAIN quant.pending PROVE quant.pending[i] \in PendingObservation
    BY <1>2
  <2> QED
    BY <1>1, <2>1 DEF CountedOnce, PendingObservation
<1>7. \A i \in DOMAIN quant.resolved: quant.resolved[i].id \in Nat /\ quant.resolved[i].id <= recorded
  <2>1. quant.resolved \in Seq(ResolvedObservation)
    BY <1>1 DEF QuantController
  <2>2. ASSUME NEW i \in DOMAIN quant.resolved PROVE quant.resolved[i] \in ResolvedObservation
    BY <2>1
  <2> QED
    BY <1>1, <2>2 DEF CountedOnce, ResolvedObservation
<1>8. OnceIn(quant.pending) /\ OnceIn(new)
  BY <1>1, <1>5 DEF CountedOnce, OnceIn
<1>9. \A i \in DOMAIN quant.pending, j \in DOMAIN new: quant.pending[i].id # new[j].id
  BY <1>1, <1>5, <1>6
<1>10. /\ p \in Seq(PendingObservation) /\ OnceIn(p)
       /\ \A k \in DOMAIN p: \/ \E i \in DOMAIN quant.pending: p[k] = quant.pending[i]
                             \/ \E j \in DOMAIN new: p[k] = new[j]
  BY <1>2, <1>5, <1>8, <1>9, LedgerCountsOnce
<1> HIDE DEF p
<1>11. /\ quant' \in QuantController /\ quant'.mode = quant.mode
       /\ quant'.pending = p /\ quant'.resolved = quant.resolved
  BY <1>1, <1>4, <1>10 DEF QuantController
<1>12. \A k \in DOMAIN p: \/ \E i \in DOMAIN quant.pending: p[k] = quant.pending[i]
                          \/ p[k].id = recorded + 1
  BY <1>5, <1>10
<1>13. \A k \in DOMAIN p: p[k].id <= recorded + 1
  BY <1>1, <1>6, <1>12
<1>14. \A j \in DOMAIN quant.resolved: quant.resolved[j].id <= recorded + 1
  BY <1>1, <1>7
<1>15. \A k \in DOMAIN p, j \in DOMAIN quant.resolved: p[k].id # quant.resolved[j].id
  <2>1. SUFFICES ASSUME NEW k \in DOMAIN p, NEW j \in DOMAIN quant.resolved
                 PROVE  p[k].id # quant.resolved[j].id
    OBVIOUS
  <2>2. CASE \E i \in DOMAIN quant.pending: p[k] = quant.pending[i]
    BY <1>1, <2>2 DEF CountedOnce
  <2>3. CASE p[k].id = recorded + 1
    BY <1>1, <1>7, <2>3
  <2> QED
    BY <1>12, <2>2, <2>3
<1>16. OnceIn(quant.resolved)
  BY <1>1 DEF CountedOnce
<1> QED
  BY <1>10, <1>11, <1>13, <1>14, <1>15, <1>16 DEF CountedOnce

\* A number that may be given out later bounds what was counted before.
LEMMA CountedGrows ==
  ASSUME NEW q \in QuantController, NEW n \in Nat, CountedOnce(q, n)
  PROVE  CountedOnce(q, n + 1)
<1>1. ASSUME NEW i \in DOMAIN q.pending PROVE q.pending[i].id \in Nat
  <2>1. q.pending \in Seq(PendingObservation)
    BY DEF QuantController
  <2>2. q.pending[i] \in PendingObservation
    BY <2>1
  <2> QED
    BY <2>2 DEF PendingObservation
<1>2. ASSUME NEW i \in DOMAIN q.resolved PROVE q.resolved[i].id \in Nat
  <2>1. q.resolved \in Seq(ResolvedObservation)
    BY DEF QuantController
  <2>2. q.resolved[i] \in ResolvedObservation
    BY <2>1
  <2> QED
    BY <2>2 DEF ResolvedObservation
<1> QED
  BY <1>1, <1>2 DEF CountedOnce

LEMMA RecordKeepsInv ==
  ASSUME QuantInv, Record
  PROVE  QuantInv'
<1>1. /\ recorded' = recorded + 1 /\ acting' = FALSE /\ cycle' = "record" /\ cycle = "advise"
      /\ UNCHANGED <<qdisk, before, halted, qfaults, durable>>
  BY DEF Record
<1>2. /\ quant' \in QuantController /\ quant'.mode = quant.mode
      /\ CountedOnce(quant', recorded + 1)
  BY RecordCountsOnce
<1>3. QuantTypeOK'
  <2>1. recorded' \in Nat
    BY <1>1 DEF QuantInv, QuantTypeOK
  <2> QED
    BY <1>1, <1>2, <2>1 DEF QuantInv, QuantTypeOK
<1>4. PromotionInv'
  BY <1>1, <1>2 DEF QuantInv, PromotionInv
<1>5. CountedOnce(before, recorded + 1) /\ CountedOnce(qdisk.quant, recorded + 1)
  <2>1. before \in QuantController /\ qdisk.quant \in QuantController /\ recorded \in Nat
    BY DEF QuantInv, QuantTypeOK
  <2> QED
    BY <2>1, CountedGrows DEF QuantInv, EvidenceInv
<1>6. EvidenceInv'
  BY <1>1, <1>2, <1>5 DEF EvidenceInv
<1> QED
  BY <1>3, <1>4, <1>6 DEF QuantInv

\* A save copies the controller to the file, and what is there has its mode.
LEMMA WrittenKeeps ==
  ASSUME QuantInv, StateWritten, UNCHANGED <<quant, halted, recorded>>
  PROVE  /\ qdisk' \in [quant: QuantController, paused: BOOLEAN]
         /\ CountedOnce(qdisk'.quant, recorded')
         /\ durable' \in BOOLEAN
         /\ durable => durable'
         /\ quant'.mode = "primary" => durable'
<1>1. qdisk' = [quant |-> quant, paused |-> halted] /\ durable' = (durable \/ quant.mode = "primary")
  BY DEF StateWritten
<1>2. quant \in QuantController /\ halted \in BOOLEAN /\ durable \in BOOLEAN
  BY DEF QuantInv, QuantTypeOK
<1> QED
  BY <1>1, <1>2 DEF QuantInv, EvidenceInv

LEMMA QuantStep ==
  ASSUME QuantInv, [QuantNext]_qvars
  PROVE  QuantInv'
<1>1. CASE ResolveDue
  BY <1>1, ResolveKeepsInv
<1>2. CASE SaveResolved
  <2>1. /\ StateWritten /\ cycle' = "choose" /\ before' = NewController
        /\ UNCHANGED <<quant, acting, halted, recorded, qfaults>> /\ cycle # "advise"
    BY <1>2 DEF SaveResolved
  <2>2. recorded \in Nat
    BY DEF QuantInv, QuantTypeOK
  <2>3. QuantTypeOK'
    BY <2>1, WrittenKeeps, NewIsController DEF QuantInv, QuantTypeOK
  <2>4. EvidenceInv'
    BY <2>1, <2>2, WrittenKeeps, NewCountsOnce DEF QuantInv, EvidenceInv
  <2>5. PromotionInv'
    BY <2>1, WrittenKeeps DEF QuantInv, PromotionInv
  <2> QED
    BY <2>3, <2>4, <2>5 DEF QuantInv
<1>3. CASE SaveFails
  <2>1. /\ quant' = before /\ before' = NewController /\ cycle = "save" /\ cycle' = "restore"
        /\ qfaults' = qfaults + 1 /\ UNCHANGED <<qdisk, acting, halted, recorded, durable>>
    BY <1>3 DEF SaveFails
  <2>2. recorded \in Nat
    BY DEF QuantInv, QuantTypeOK
  <2>3. QuantTypeOK'
    BY <2>1, NewIsController DEF QuantInv, QuantTypeOK
  <2>4. EvidenceInv'
    BY <2>1, <2>2, NewCountsOnce DEF QuantInv, EvidenceInv
  <2>5. PromotionInv'
    BY <2>1 DEF QuantInv, PromotionInv
  <2> QED
    BY <2>3, <2>4, <2>5 DEF QuantInv
<1>4. CASE RestoreFails \/ RecordNothing \/ Choose
  <2>1. /\ UNCHANGED <<quant, qdisk, before, halted, recorded, qfaults, durable>>
        /\ cycle \in {"restore", "advise", "choose"} /\ cycle' \in {"choose", "idle", "advise"}
        /\ \/ acting' = FALSE
           \/ acting' = acting /\ cycle = "restore"
           \/ acting' = (quant.mode = "primary") /\ cycle = "choose" /\ cycle' = "advise"
    BY <1>4 DEF RestoreFails, RecordNothing, Choose
  <2>2. acting' \in BOOLEAN
    BY <2>1 DEF QuantInv, QuantTypeOK
  <2>3. QuantTypeOK'
    BY <2>1, <2>2 DEF QuantInv, QuantTypeOK
  <2>4. EvidenceInv'
    BY <2>1 DEF QuantInv, EvidenceInv
  <2>5. acting' => cycle' = "advise" /\ durable
    <3>1. quant.mode = "primary" /\ cycle = "choose" => durable
      BY DEF QuantInv, PromotionInv
    <3>2. ~(acting /\ cycle = "restore")
      BY DEF QuantInv, PromotionInv
    <3> QED
      BY <2>1, <3>1, <3>2
  <2>6. cycle # "save" /\ cycle' # "save"
    BY <2>1
  <2>7. PromotionInv'
    BY <2>1, <2>5, <2>6 DEF QuantInv, PromotionInv
  <2> QED
    BY <2>3, <2>4, <2>7 DEF QuantInv
<1>5. CASE Record
  BY <1>5, RecordKeepsInv
<1>6. CASE SaveRecorded
  <2>1. /\ cycle = "record" /\ cycle' = "idle" /\ UNCHANGED <<quant, before, acting, halted, recorded>>
        /\ qfaults' \in {qfaults, qfaults + 1}
        /\ StateWritten \/ UNCHANGED <<qdisk, durable>>
    BY <1>6 DEF SaveRecorded
  <2>2. QuantTypeOK'
    <3>1. qfaults' \in Nat
      BY <2>1 DEF QuantInv, QuantTypeOK
    <3> QED
      BY <2>1, <3>1, WrittenKeeps DEF QuantInv, QuantTypeOK
  <2>3. EvidenceInv'
    BY <2>1, WrittenKeeps DEF QuantInv, EvidenceInv
  <2>4. PromotionInv'
    BY <2>1, WrittenKeeps DEF QuantInv, PromotionInv
  <2> QED
    BY <2>2, <2>3, <2>4 DEF QuantInv
<1>7. CASE Replay
  <2>1. PICK a \in TradingArm \cup {NoArm}:
          /\ quant' = [quant EXCEPT !.native = a, !.stale = FALSE]
          /\ halted' = (halted \/ (PauseOnFailure /\ quant.mode = "primary" /\ a = NoArm))
    BY <1>7 DEF Replay
  <2>2. quant \in QuantController
    BY DEF QuantInv, QuantTypeOK
  <2>3. /\ quant' \in QuantController /\ quant'.mode = quant.mode
        /\ quant'.pending = quant.pending /\ quant'.resolved = quant.resolved
    BY <2>1, <2>2 DEF QuantController, Arm
  <2>4. halted' \in BOOLEAN
    BY <2>1
  <2> QED
    BY <1>7, <2>3, <2>4, SameEvidenceKeepsInv DEF Replay
<1>8. CASE ValidationExpires
  <2>1. quant \in QuantController /\ halted \in BOOLEAN
    BY DEF QuantInv, QuantTypeOK
  <2>2. quant' = [quant EXCEPT !.stale = TRUE]
    BY <1>8 DEF ValidationExpires
  <2>3. /\ quant' \in QuantController /\ quant'.mode = quant.mode
        /\ quant'.pending = quant.pending /\ quant'.resolved = quant.resolved
    BY <2>1, <2>2 DEF QuantController
  <2> QED
    BY <1>8, <2>1, <2>3, SameEvidenceKeepsInv DEF ValidationExpires
<1>9. CASE SaveElsewhere
  <2>1. StateWritten /\ UNCHANGED <<quant, before, cycle, acting, halted, recorded, qfaults>>
    BY <1>9 DEF SaveElsewhere
  <2>2. QuantTypeOK'
    BY <2>1, WrittenKeeps DEF QuantInv, QuantTypeOK
  <2>3. EvidenceInv'
    BY <2>1, WrittenKeeps DEF QuantInv, EvidenceInv
  <2>4. PromotionInv'
    BY <2>1, WrittenKeeps DEF QuantInv, PromotionInv
  <2> QED
    BY <2>2, <2>3, <2>4 DEF QuantInv
<1>10. CASE Unhalt
  <2>1. quant \in QuantController
    BY DEF QuantInv, QuantTypeOK
  <2> QED
    BY <1>10, <2>1, SameEvidenceKeepsInv DEF Unhalt
<1>11. CASE RestartTrading
  <2>1. /\ quant' = qdisk.quant /\ before' = NewController /\ halted' = qdisk.paused
        /\ cycle' = "idle" /\ acting' = FALSE /\ durable' = (qdisk.quant.mode = "primary")
        /\ UNCHANGED <<qdisk, recorded, qfaults>>
    BY <1>11 DEF RestartTrading
  <2>2. recorded \in Nat /\ qdisk.quant \in QuantController /\ qdisk.paused \in BOOLEAN
    BY DEF QuantInv, QuantTypeOK
  <2>3. QuantTypeOK'
    BY <2>1, <2>2, NewIsController DEF QuantInv, QuantTypeOK
  <2>4. EvidenceInv'
    BY <2>1, <2>2, NewCountsOnce DEF QuantInv, EvidenceInv
  <2>5. PromotionInv'
    BY <2>1 DEF PromotionInv
  <2> QED
    BY <2>3, <2>4, <2>5 DEF QuantInv
<1>12. CASE UNCHANGED qvars
  <2>1. quant \in QuantController /\ halted \in BOOLEAN
    BY DEF QuantInv, QuantTypeOK
  <2> QED
    BY <1>12, <2>1, SameEvidenceKeepsInv DEF qvars
<1> QED
  BY <1>1, <1>2, <1>3, <1>4, <1>5, <1>6, <1>7, <1>8, <1>9, <1>10, <1>11, <1>12
     DEF QuantNext

LEMMA JoinIsInjective ==
  ASSUME NEW a \in Seq(Nat), NEW b \in Seq(Nat),
         \A i, j \in DOMAIN a: a[i] = a[j] => i = j,
         \A i, j \in DOMAIN b: b[i] = b[j] => i = j,
         \A i \in DOMAIN a, j \in DOMAIN b: a[i] # b[j]
  PROVE  IsInjective(a \o b)
<1> DEFINE ids == a \o b
<1>1. /\ Len(a) \in Nat /\ Len(b) \in Nat /\ DOMAIN a = 1..Len(a) /\ DOMAIN b = 1..Len(b)
      /\ DOMAIN ids = 1..(Len(a) + Len(b))
  OBVIOUS
<1>2. \A i \in 1..(Len(a) + Len(b)): ids[i] = IF i <= Len(a) THEN a[i] ELSE b[i - Len(a)]
  BY <1>1
<1> HIDE DEF ids
<1>3. ASSUME NEW i \in DOMAIN ids, NEW j \in DOMAIN ids, ids[i] = ids[j]
      PROVE  i = j
  <2>1. CASE i <= Len(a) /\ j <= Len(a)
    BY <2>1, <1>1, <1>2, <1>3
  <2>2. CASE i <= Len(a) /\ ~(j <= Len(a))
    <3>1. i \in DOMAIN a /\ j - Len(a) \in DOMAIN b
      BY <2>2, <1>1
    <3> QED
      BY <2>2, <3>1, <1>1, <1>2, <1>3
  <2>3. CASE ~(i <= Len(a)) /\ j <= Len(a)
    <3>1. j \in DOMAIN a /\ i - Len(a) \in DOMAIN b
      BY <2>3, <1>1
    <3> QED
      BY <2>3, <3>1, <1>1, <1>2, <1>3
  <2>4. CASE ~(i <= Len(a)) /\ ~(j <= Len(a))
    <3>1. i - Len(a) \in DOMAIN b /\ j - Len(a) \in DOMAIN b
      BY <2>4, <1>1
    <3>2. i - Len(a) = j - Len(a)
      BY <2>4, <3>1, <1>1, <1>2, <1>3
    <3> QED
      BY <3>2, <1>1
  <2> QED
    BY <2>1, <2>2, <2>3, <2>4
<1>4. IsInjective(ids)
  BY <1>3 DEF IsInjective
<1> QED
  BY <1>4 DEF ids

LEMMA CountedIsOnce ==
  ASSUME QuantInv
  PROVE  EvidenceCountedOnce
<1> DEFINE a == [i \in DOMAIN quant.pending |-> quant.pending[i].id]
           b == [i \in DOMAIN quant.resolved |-> quant.resolved[i].id]
<1>1. /\ quant.pending \in Seq(PendingObservation) /\ quant.resolved \in Seq(ResolvedObservation)
      /\ CountedOnce(quant, recorded)
  BY DEF QuantInv, QuantTypeOK, QuantController, EvidenceInv
<1>2. /\ DOMAIN quant.pending = 1..Len(quant.pending) /\ Len(quant.pending) \in Nat
      /\ DOMAIN quant.resolved = 1..Len(quant.resolved) /\ Len(quant.resolved) \in Nat
  BY <1>1
<1>3. \A i \in DOMAIN quant.pending: quant.pending[i].id \in Nat
  <2>1. ASSUME NEW i \in DOMAIN quant.pending PROVE quant.pending[i] \in PendingObservation
    BY <1>1
  <2> QED
    BY <2>1 DEF PendingObservation
<1>4. \A i \in DOMAIN quant.resolved: quant.resolved[i].id \in Nat
  <2>1. ASSUME NEW i \in DOMAIN quant.resolved PROVE quant.resolved[i] \in ResolvedObservation
    BY <1>1
  <2> QED
    BY <2>1 DEF ResolvedObservation
<1>5. a \in [1..Len(quant.pending) -> Nat] /\ b \in [1..Len(quant.resolved) -> Nat]
  BY <1>2, <1>3, <1>4
<1>6. a \in Seq(Nat) /\ b \in Seq(Nat)
  BY <1>2, <1>5
<1>7. /\ DOMAIN a = DOMAIN quant.pending /\ DOMAIN b = DOMAIN quant.resolved
      /\ \A i \in DOMAIN quant.pending: a[i] = quant.pending[i].id
      /\ \A i \in DOMAIN quant.resolved: b[i] = quant.resolved[i].id
  OBVIOUS
<1>8. EvidenceCountedOnce <=> IsInjective(a \o b)
  BY DEF EvidenceCountedOnce
<1> HIDE DEF a, b
<1>9. /\ \A i, j \in DOMAIN a: a[i] = a[j] => i = j
      /\ \A i, j \in DOMAIN b: b[i] = b[j] => i = j
      /\ \A i \in DOMAIN a, j \in DOMAIN b: a[i] # b[j]
  BY <1>1, <1>7 DEF CountedOnce, OnceIn
<1> QED
  BY <1>6, <1>8, <1>9, JoinIsInjective

\* resolve_quant_evaluations saves a promotion before the loop reads the mode,
\* and undoes the whole resolution when the save fails: for any evidence,
\* whichever save fails, is overtaken by another writer's or ended by a restart,
\* quant decides only under a promotion in the file, and no observation is
\* counted twice.
THEOREM PromotionIsDurable == QuantSpec => []QuantIsDurable
<1>1. QuantInit => QuantInv
  BY QuantInitInv
<1>2. QuantInv /\ [QuantNext]_qvars => QuantInv'
  BY QuantStep
<1>3. QuantInv => QuantIsDurable
  BY CountedIsOnce DEF QuantInv, PromotionInv, QuantIsDurable, LoopActsDurably
<1> QED
  BY <1>1, <1>2, <1>3, PTL DEF QuantSpec

\* The types of the controller in memory, in the file and in the undo copy.
THEOREM QuantTypes == QuantSpec => []QuantTypeOK
<1>1. QuantInit => QuantInv
  BY QuantInitInv
<1>2. QuantInv /\ [QuantNext]_qvars => QuantInv'
  BY QuantStep
<1>3. QuantInv => QuantTypeOK
  BY DEF QuantInv
<1> QED
  BY <1>1, <1>2, <1>3, PTL DEF QuantSpec

-----------------------------------------------------------------------------
(* The evidence of the edge: its labels, and the folds of the replay        *)

\* What LabelsDontOverlap says of two observations.
Clear(x, y) ==
  x.h = y.h /\ x.at <= y.at =>
    /\ x.at + x.h <= y.at
    /\ x.market = y.market => x.at + x.h > y.began \/ (x.seen # 0 /\ x.seen <= y.began)

\* Every observation was recorded when its horizon was free: none is younger than the
\* time at which its horizon was last recorded.
IsObservation(o) ==
  /\ DOMAIN o = {"h", "at", "market", "began", "seen", "gain"}
  /\ o.h \in Horizons /\ o.at \in Nat /\ o.began \in Nat /\ o.seen \in Nat
  /\ o.at <= lastAt[o.h]

EdgeInv ==
  /\ tick \in Nat
  /\ DOMAIN lastAt = Horizons
  /\ \A h \in Horizons : lastAt[h] \in Int /\ lastAt[h] <= tick
  /\ \A o \in forecasts \cup labels : IsObservation(o)
  /\ \A f \in forecasts : f.seen = 0
  /\ \A l \in labels : l.seen # 0 /\ l.seen <= tick
  /\ LabelsDontOverlap

TurnedInto(f, x) ==
  /\ DOMAIN x = {"h", "at", "market", "began", "seen", "gain"}
  /\ x.h = f.h /\ x.at = f.at /\ x.market = f.market /\ x.began = f.began /\ x.seen = tick

\* What an evaluation may leave behind: observations it found, due ones of a quoted market
\* turned into labels, and fresh ones of a quoted market for horizons that were free.
LeavesBehind(quoted, gain, fresh, now) ==
  /\ tick' = now + 1 /\ now \in {tick, tick + 1}
  /\ labels' \subseteq labels \cup {[f EXCEPT !.seen = tick, !.gain = gain[f.market]] : f \in Seen(quoted)}
  /\ forecasts' \subseteq StillPending(quoted) \cup fresh
  /\ \A y \in fresh :
       /\ DOMAIN y = {"h", "at", "market", "began", "seen", "gain"}
       /\ y.h \in Horizons /\ y.at = now /\ y.began = tick /\ y.seen = 0 /\ y.market \in quoted
       /\ lastAt[y.h] = Never \/ now - lastAt[y.h] >= y.h
       /\ lastAt'[y.h] = now
  /\ \A x, y \in fresh : x.h = y.h => x = y
  /\ DOMAIN lastAt' = Horizons
  /\ \A h \in Horizons : lastAt'[h] = lastAt[h] \/ lastAt'[h] = now

\* Any evaluation that leaves behind no more than that keeps the evidence independent.
LEMMA EvidenceKept ==
  ASSUME EdgeInv, NEW quoted, NEW gain, NEW fresh, NEW now, LeavesBehind(quoted, gain, fresh, now)
  PROVE  EdgeInv'
<1> DEFINE old == forecasts \cup labels
           waiting == StillPending(quoted)
           seen == Seen(quoted)
<1>1. /\ tick \in Nat /\ now \in Nat /\ now >= tick /\ now <= tick + 1 /\ tick' = now + 1
      /\ Horizons \subseteq Nat \ {0}
      /\ \A h \in Horizons : lastAt[h] \in Int /\ lastAt[h] <= tick
  <2>1. tick' = now + 1 /\ now \in {tick, tick + 1}
    BY DEF LeavesBehind
  <2>2. tick \in Nat /\ \A h \in Horizons : lastAt[h] \in Int /\ lastAt[h] <= tick
    BY DEF EdgeInv
  <2> QED
    BY <2>1, <2>2, EdgeAssumption
<1>2. \A o \in old : IsObservation(o)
  BY DEF EdgeInv
<1>3. /\ \A f \in forecasts : f.seen = 0
      /\ \A l \in labels : l.seen # 0 /\ l.seen <= tick
      /\ \A x, y \in old : x # y => Clear(x, y)
  BY DEF EdgeInv, LabelsDontOverlap, Clear
<1>4. /\ seen \subseteq forecasts /\ waiting \subseteq forecasts /\ seen \cap waiting = {}
      /\ \A f \in seen : f.at + f.h <= tick /\ f.market \in quoted
      /\ \A f \in waiting : f.at + f.h <= tick => f.market \notin quoted
  BY DEF Seen, StillPending, DueForecasts
<1>5. \A x \in labels' : x \in labels \/ \E f \in seen : TurnedInto(f, x) /\ x = [f EXCEPT !.seen = tick, !.gain = gain[f.market]]
  <2>1. ASSUME NEW f \in seen PROVE TurnedInto(f, [f EXCEPT !.seen = tick, !.gain = gain[f.market]])
    <3>1. DOMAIN f = {"h", "at", "market", "began", "seen", "gain"}
      BY <1>2, <1>4 DEF IsObservation
    <3> QED
      BY <3>1 DEF TurnedInto
  <2>2. labels' \subseteq labels \cup {[f EXCEPT !.seen = tick, !.gain = gain[f.market]] : f \in seen}
    BY DEF LeavesBehind
  <2> HIDE DEF seen
  <2> QED
    BY <2>1, <2>2
<1>6. \A x \in forecasts' : x \in waiting \/ x \in fresh
  BY DEF LeavesBehind
<1>7. \A y \in fresh :
       /\ DOMAIN y = {"h", "at", "market", "began", "seen", "gain"}
       /\ y.h \in Horizons /\ y.at = now /\ y.began = tick /\ y.seen = 0 /\ y.market \in quoted
       /\ lastAt[y.h] = Never \/ now - lastAt[y.h] >= y.h
       /\ lastAt'[y.h] = now
  BY DEF LeavesBehind
<1> DEFINE from(o, x) ==
      /\ x.h = o.h /\ x.at = o.at /\ x.market = o.market /\ x.began = o.began
      /\ \/ x = o /\ o \in labels
         \/ x = o /\ o \in waiting
         \/ o \in seen /\ x.seen = tick /\ x = [o EXCEPT !.seen = tick, !.gain = gain[o.market]]
<1>8. \A x \in forecasts' \cup labels' : x \in fresh \/ \E o \in old : from(o, x)
  <2>1. ASSUME NEW x \in labels' PROVE \E o \in old : from(o, x)
    BY <1>4, <1>5 DEF TurnedInto
  <2>2. ASSUME NEW x \in forecasts' PROVE x \in fresh \/ \E o \in old : from(o, x)
    BY <1>4, <1>6
  <2> QED
    BY <2>1, <2>2
<1> HIDE DEF waiting, seen
<1>9. ASSUME NEW x, NEW y, NEW o \in old, NEW q \in old, from(o, x), from(q, y), x # y PROVE Clear(x, y)
  <2>1. o # q
    BY <1>3, <1>4, <1>9
  <2>2. Clear(o, q)
    BY <1>3, <2>1
  <2>3. o.seen # 0 => x.seen = o.seen
    BY <1>3, <1>4, <1>9
  <2> QED
    BY <1>9, <2>2, <2>3 DEF Clear
\* A fresh observation begins after what its horizon has forecast is over.
<1>10. ASSUME NEW y \in fresh, NEW x, NEW o \in old, from(o, x), x.h = y.h
       PROVE  x.at \in Nat /\ x.h \in Nat \ {0} /\ x.at + x.h <= now
  <2>1. o.h \in Horizons /\ o.at \in Nat /\ o.at <= lastAt[o.h]
    BY <1>2 DEF IsObservation
  <2>2. lastAt[y.h] = Never \/ now - lastAt[y.h] >= y.h
    BY <1>7
  <2> DEFINE h == y.h
             last == lastAt[h]
             at == o.at
  <2>3. h \in Nat \ {0} /\ last \in Int /\ at \in Nat /\ at <= last
    BY <1>1, <1>7, <1>10, <2>1
  <2>4. now - last >= h
    BY <2>2, <2>3 DEF Never
  <2> HIDE DEF h, last, at
  <2>5. at + h <= now
    BY <1>1, <2>3, <2>4
  <2> QED
    BY <1>10, <2>3, <2>5 DEF h, at
<1>11. ASSUME NEW y \in fresh, NEW x, NEW o \in old, from(o, x) PROVE Clear(x, y)
  <2> SUFFICES ASSUME x.h = y.h PROVE /\ x.at + x.h <= y.at
                                      /\ x.market = y.market => \/ x.at + x.h > y.began
                                                                \/ x.seen # 0 /\ x.seen <= y.began
    BY DEF Clear
  <2>1. x.at \in Nat /\ x.h \in Nat \ {0} /\ x.at + x.h <= now
    BY <1>10, <1>11
  <2>2. y.at = now /\ y.began = tick /\ y.market \in quoted
    BY <1>7
  <2>3. ASSUME x.market = y.market, ~(x.at + x.h > tick) PROVE x.seen # 0 /\ x.seen <= tick
    <3>1. x.at + x.h <= tick /\ tick # 0
      BY <1>1, <2>1, <2>3
    <3>2. CASE x = o /\ o \in labels
      BY <1>3, <3>2
    <3>3. CASE x = o /\ o \in waiting
      BY <1>4, <2>2, <2>3, <3>1, <3>3
    <3>4. CASE o \in seen /\ x.seen = tick
      BY <1>1, <3>1, <3>4
    <3> QED
      BY <1>11, <3>2, <3>3, <3>4
  <2> QED
    BY <2>1, <2>2, <2>3
<1>12. ASSUME NEW y \in fresh, NEW x, NEW o \in old, from(o, x) PROVE Clear(y, x)
  <2> SUFFICES ASSUME x.h = y.h, y.at <= x.at PROVE FALSE
    BY DEF Clear
  <2> DEFINE a == x.at
             h == x.h
  <2>1. a \in Nat /\ h \in Nat \ {0} /\ a + h <= now /\ now <= a
    BY <1>7, <1>10, <1>12
  <2> HIDE DEF a, h
  <2> QED
    BY <1>1, <2>1
<1>13. ASSUME NEW x \in fresh, NEW y \in fresh, x # y PROVE Clear(x, y)
  BY <1>13 DEF LeavesBehind, Clear
<1>14. ASSUME NEW x \in forecasts' \cup labels', NEW y \in forecasts' \cup labels', x # y PROVE Clear(x, y)
  <2> HIDE DEF from, old
  <2> QED
    BY <1>8, <1>9, <1>11, <1>12, <1>13, <1>14
<1>15. LabelsDontOverlap'
  BY <1>14 DEF LabelsDontOverlap, Clear
<1>16. \A h \in Horizons : lastAt'[h] \in Int /\ lastAt'[h] <= tick' /\ lastAt'[h] >= lastAt[h]
  <2> TAKE h \in Horizons
  <2>1. lastAt[h] \in Int /\ lastAt[h] <= tick /\ (lastAt'[h] = lastAt[h] \/ lastAt'[h] = now)
    BY <1>1 DEF LeavesBehind
  <2> QED
    BY <1>1, <2>1
<1>17. ASSUME NEW x \in forecasts' \cup labels' PROVE IsObservation(x)'
  <2>1. ASSUME NEW o \in old, from(o, x) PROVE IsObservation(x)'
    <3>1. /\ DOMAIN o = {"h", "at", "market", "began", "seen", "gain"}
          /\ o.h \in Horizons /\ o.at \in Nat /\ o.began \in Nat /\ o.seen \in Nat
          /\ o.at <= lastAt[o.h]
      BY <1>2 DEF IsObservation
    <3>2. DOMAIN x = {"h", "at", "market", "began", "seen", "gain"} /\ x.seen \in Nat
      BY <1>1, <2>1, <3>1
    <3>3. o.at <= lastAt'[o.h]
      <4> DEFINE last == lastAt[o.h]
                 next == lastAt'[o.h]
                 at == o.at
      <4>1. at \in Nat /\ last \in Int /\ next \in Int /\ at <= last /\ last <= next
        BY <1>1, <1>16, <3>1
      <4> HIDE DEF last, next, at
      <4>2. at <= next
        BY <4>1
      <4> QED
        BY <4>2 DEF at, next
    <3> QED
      BY <2>1, <3>1, <3>2, <3>3 DEF IsObservation
  <2>2. ASSUME x \in fresh PROVE IsObservation(x)'
    <3>1. lastAt'[x.h] = now
      BY <1>7, <2>2
    <3> QED
      BY <1>1, <1>7, <2>2, <3>1 DEF IsObservation
  <2> HIDE DEF from, old
  <2> QED
    BY <1>8, <1>17, <2>1, <2>2
<1>18. /\ \A f \in forecasts' : f.seen = 0
       /\ \A l \in labels' : l.seen # 0 /\ l.seen <= tick'
  <2>1. ASSUME NEW f \in forecasts' PROVE f.seen = 0
    BY <1>3, <1>4, <1>6, <1>7
  <2>2. ASSUME NEW l \in labels' PROVE l.seen # 0 /\ l.seen <= tick'
    <3>1. CASE l \in labels
      <4>1. l.seen \in Nat /\ l.seen # 0 /\ l.seen <= tick
        BY <1>2, <1>3, <3>1 DEF IsObservation
      <4> QED
        BY <1>1, <4>1
    <3>2. CASE \E f \in seen : TurnedInto(f, l)
      <4>1. PICK f \in seen : TurnedInto(f, l)
        BY <3>2
      <4>2. f.at \in Nat /\ f.h \in Nat \ {0} /\ f.at + f.h <= tick
        BY <1>1, <1>2, <1>4 DEF IsObservation
      <4> QED
        BY <1>1, <4>1, <4>2 DEF TurnedInto
    <3> QED
      BY <1>5, <3>1, <3>2
  <2> QED
    BY <2>1, <2>2
<1>19. tick' \in Nat /\ DOMAIN lastAt' = Horizons
  <2>1. DOMAIN lastAt' = Horizons
    BY DEF LeavesBehind
  <2> QED
    BY <1>1, <2>1
<1> QED
  BY <1>15, <1>16, <1>17, <1>18, <1>19 DEF EdgeInv

LEMMA EdgeStep ==
  ASSUME EdgeInv, EvaluateEdge
  PROVE  EdgeInv'
<1>1. PICK quoted \in SUBSET Markets, gain \in [Markets -> {1, -1}] :
        \/ EvaluateHold(quoted, gain)
        \/ \E market \in Markets, delay \in {0, 1}, fills \in BOOLEAN :
             EvaluateSignal(market, quoted, gain, delay, fills)
  BY DEF EvaluateEdge
<1>2. tick \in Nat /\ DOMAIN lastAt = Horizons
  BY DEF EdgeInv
<1>3. CASE EvaluateHold(quoted, gain)
  <2>1. LeavesBehind(quoted, gain, {}, tick)
    BY <1>2, <1>3 DEF EvaluateHold, LeavesBehind, Labelled, Ledgered
  <2> QED
    BY <2>1, EvidenceKept
<1>4. ASSUME NEW market \in Markets, NEW delay \in {0, 1}, NEW fills \in BOOLEAN,
             EvaluateSignal(market, quoted, gain, delay, fills)
      PROVE  EdgeInv'
  <2> DEFINE now == tick + delay
             fresh == Fresh(market, now)
  <2>1. /\ market \in quoted /\ tick' = now + 1 /\ now \in {tick, tick + 1}
        /\ labels' = Labelled(quoted, gain)
        /\ forecasts' = Ledgered(StillPending(quoted) \cup fresh, EdgeLedger)
        /\ lastAt' = [h \in Horizons |-> IF h \in FreeHorizons(now) THEN now ELSE lastAt[h]]
    BY <1>2, <1>4 DEF EvaluateSignal
  <2> HIDE DEF now
  <2>2. \A y \in fresh :
          /\ DOMAIN y = {"h", "at", "market", "began", "seen", "gain"}
          /\ y.h \in Horizons /\ y.at = now /\ y.began = tick /\ y.seen = 0 /\ y.market = market
          /\ lastAt[y.h] = Never \/ now - lastAt[y.h] >= y.h
          /\ y.h \in FreeHorizons(now)
    BY DEF Fresh, FreeHorizons
  <2>3. \A x, y \in fresh : x.h = y.h => x = y
    BY DEF Fresh
  <2>4. LeavesBehind(quoted, gain, fresh, now)
    <3> HIDE DEF fresh
    <3> QED
      BY <2>1, <2>2, <2>3 DEF LeavesBehind, Labelled, Ledgered
  <2> HIDE DEF fresh
  <2> QED
    BY <2>4, EvidenceKept
<1> QED
  BY <1>1, <1>3, <1>4

-----------------------------------------------------------------------------
(* The replay                                                              *)

\* What is open or closed was entered at a frame that has been replayed, and a symbol has
\* one position at a time.
ReplayInv ==
  /\ frame \in Nat
  /\ \A p \in positions : p.entered \in Nat /\ p.entered <= frame
  /\ \A t \in trades : t.entered \in Nat /\ t.exited \in Nat /\ t.exited <= frame
  /\ \A t, u \in trades : t.symbol = u.symbol /\ t # u => t.exited <= u.entered \/ u.exited <= t.entered
  /\ \A t \in trades, p \in positions : t.symbol = p.symbol => t.exited <= p.entered
  /\ \A p, q \in positions : p.symbol = q.symbol => p = q

LEMMA ReplayStep ==
  ASSUME ReplayInv, ReplayFrame
  PROVE  ReplayInv'
<1>1. PICK quoted \in SUBSET Symbols, signal \in Symbols \cup {"hold"} :
        trades' = trades \cup Closed(quoted) /\ positions' = Opened(quoted, signal)
  BY DEF ReplayFrame
<1>2. frame' = frame + 1 /\ frame \in Nat /\ frame' \in Nat
  BY DEF ReplayFrame, ReplayInv
<1> DEFINE closing == Due(quoted)
           open == positions \ closing
           isNew(p) == /\ p.symbol = signal /\ p.entered = frame + 1
                       /\ p = [symbol |-> signal, entered |-> frame + 1]
                       /\ \A q \in open : q.symbol # signal
<1>3. closing \subseteq positions
  BY DEF Due
<1>4. \A p \in positions' : p \in open \/ isNew(p)
  BY <1>1 DEF Opened
<1>5. \A t \in trades' : t \in trades \/ \E p \in closing : t = [symbol |-> p.symbol, entered |-> p.entered,
                                                               exited |-> frame + 1]
  BY <1>1 DEF Closed
<1> HIDE DEF closing
<1>6. \A p \in positions' : p.entered \in Nat /\ p.entered <= frame'
  BY <1>2, <1>4 DEF ReplayInv
<1>7. \A t \in trades' : t.entered \in Nat /\ t.exited \in Nat /\ t.exited <= frame'
  BY <1>2, <1>3, <1>5 DEF ReplayInv
<1>8. ASSUME NEW t \in trades', NEW u \in trades', t.symbol = u.symbol, t # u
      PROVE  t.exited <= u.entered \/ u.exited <= t.entered
  <2>1. CASE t \in trades /\ u \in trades
    BY <1>8, <2>1 DEF ReplayInv
  <2>2. ASSUME NEW p \in closing, t = [symbol |-> p.symbol, entered |-> p.entered, exited |-> frame + 1],
               u \in trades
        PROVE  u.exited <= t.entered
    BY <1>3, <1>8, <2>2 DEF ReplayInv
  <2>3. ASSUME NEW p \in closing, u = [symbol |-> p.symbol, entered |-> p.entered, exited |-> frame + 1],
               t \in trades
        PROVE  t.exited <= u.entered
    BY <1>3, <1>8, <2>3 DEF ReplayInv
  <2>4. ASSUME NEW p \in closing, t = [symbol |-> p.symbol, entered |-> p.entered, exited |-> frame + 1],
               NEW q \in closing, u = [symbol |-> q.symbol, entered |-> q.entered, exited |-> frame + 1]
        PROVE  FALSE
    <3>1. p = q
      BY <1>3, <1>8, <2>4 DEF ReplayInv
    <3> QED
      BY <1>8, <2>4, <3>1
  <2> QED
    BY <1>5, <2>1, <2>2, <2>3, <2>4
<1>9. ASSUME NEW t \in trades', NEW p \in positions', t.symbol = p.symbol PROVE t.exited <= p.entered
  <2>1. CASE isNew(p)
    BY <1>2, <1>7, <2>1
  <2>2. CASE p \in open
    <3>1. CASE t \in trades
      BY <1>9, <2>2, <3>1 DEF ReplayInv
    <3>2. ASSUME NEW q \in closing, t = [symbol |-> q.symbol, entered |-> q.entered, exited |-> frame + 1]
          PROVE  FALSE
      <4>1. q = p
        BY <1>3, <1>9, <2>2, <3>2 DEF ReplayInv
      <4> QED
        BY <2>2, <3>2, <4>1
    <3> QED
      BY <1>5, <3>1, <3>2
  <2> QED
    BY <1>4, <2>1, <2>2
<1>10. ASSUME NEW p \in positions', NEW q \in positions', p.symbol = q.symbol PROVE p = q
  BY <1>4, <1>10 DEF ReplayInv
<1> QED
  BY <1>2, <1>6, <1>7, <1>8, <1>9, <1>10 DEF ReplayInv

\* Two training trades of a symbol that both reach into the validation would overlap.
LEMMA OneReachesIn ==
  ASSUME ReplayInv
  PROVE  TradesStandAlone
<1>1. ASSUME NEW f \in Folds, NEW t \in Between(f.from, f.to), NEW u \in Between(f.from, f.to),
             t.symbol = u.symbol, t.exited >= f.start, u.exited >= f.start, t # u
      PROVE  FALSE
  <2>1. PICK last \in 1 .. frame : f = Fold(last)
    BY DEF Folds
  <2>2. f.to = last - Validation - Embargo /\ f.start = last - Validation + 1
    BY <2>1 DEF Fold
  <2>3. /\ t \in trades /\ t.entered <= f.to /\ t.entered \in Nat /\ t.exited \in Nat
        /\ u \in trades /\ u.entered <= f.to /\ u.entered \in Nat /\ u.exited \in Nat
        /\ t.exited <= u.entered \/ u.exited <= t.entered
    BY <1>1 DEF Between, ReplayInv
  <2>4. last \in Int /\ Validation \in Nat /\ Embargo \in Nat
    BY <2>1, ReplayAssumption DEF ReplayInv
  <2> QED
    BY <1>1, <2>2, <2>3, <2>4
<1> QED
  BY <1>1 DEF ReplayInv, TradesStandAlone

\* The ends of two folds are whole validation windows apart.
LEMMA WindowsApart ==
  ASSUME NEW V \in Nat \ {0}, NEW a \in Nat, NEW b \in Nat, a % V = 0, b % V = 0, a < b
  PROVE  a + V <= b
<1> DEFINE p == a \div V
           q == b \div V
<1>1. p \in Int /\ q \in Int
  OBVIOUS
<1>2. a = V * p /\ b = V * q
  <2>1. a = V * (a \div V)
    OBVIOUS
  <2>2. b = V * (b \div V)
    OBVIOUS
  <2> QED
    BY <2>1, <2>2
<1> HIDE DEF p, q
<1>3. p < q
  <2>1. ASSUME q <= p PROVE FALSE
    <3>1. V * q <= V * p
      BY <1>1, <2>1
    <3> QED
      BY <1>2, <3>1
  <2> QED
    BY <1>1, <2>1
<1>4. p + 1 <= q
  BY <1>1, <1>3
<1>5. V * (p + 1) <= V * q
  BY <1>1, <1>4
<1>6. V * (p + 1) = V * p + V
  BY <1>1
<1> QED
  BY <1>2, <1>5, <1>6

LEMMA WindowsFollow ==
  ASSUME ReplayInv
  PROVE  ValidatedOnce
<1> SUFFICES ASSUME NEW t \in OutOfSample
             PROVE  Cardinality({f \in Folds : t \in Between(f.start, f.end)}) = 1
  BY DEF ValidatedOnce
<1> DEFINE K == Training + Embargo + Validation
<1>1. K \in Nat /\ Validation \in Nat \ {0} /\ frame \in Nat
  BY ReplayAssumption DEF ReplayInv
<1>2. PICK g \in Folds : t \in Between(g.start, g.end)
  BY DEF OutOfSample
<1>3. ASSUME NEW f \in Folds, t \in Between(f.start, f.end), NEW e \in Folds, t \in Between(e.start, e.end)
      PROVE  f = e
  <2>1. PICK n \in 1 .. frame : f = Fold(n) /\ n >= K /\ (n - K) % Validation = 0
    BY DEF Folds
  <2>2. PICK m \in 1 .. frame : e = Fold(m) /\ m >= K /\ (m - K) % Validation = 0
    BY DEF Folds
  <2>3. /\ n - Validation + 1 <= t.entered /\ t.entered <= n
        /\ m - Validation + 1 <= t.entered /\ t.entered <= m
        /\ t.entered \in Nat
    BY <1>3, <2>1, <2>2 DEF Between, Fold, ReplayInv
  <2> DEFINE a == n - K
             b == m - K
  <2> HIDE DEF K
  <2>4. a \in Nat /\ b \in Nat /\ n \in Nat /\ m \in Nat
    BY <1>1, <2>1, <2>2
  <2>5. a < b => a + Validation <= b
    BY <1>1, <2>1, <2>2, <2>4, WindowsApart
  <2>6. b < a => b + Validation <= a
    BY <1>1, <2>1, <2>2, <2>4, WindowsApart
  <2>7. n = m
    BY <1>1, <2>3, <2>4, <2>5, <2>6
  <2> QED
    BY <2>1, <2>2, <2>7
<1>4. {f \in Folds : t \in Between(f.start, f.end)} = {g}
  BY <1>2, <1>3
<1> QED
  BY <1>4, FS_Singleton

-----------------------------------------------------------------------------
(* Whatever part runs, the others stay as they began.                      *)

LEMMA EvidenceSafe == BridgesSpec => [](EdgeInv /\ ReplayInv)
<1>1. ASSUME BridgesInit PROVE EdgeInv /\ ReplayInv
  <2>1. EdgeInit /\ ReplayInit
    BY <1>1 DEF BridgesInit
  <2>2. EdgeInv
    BY <2>1 DEF EdgeInit, EdgeInv, LabelsDontOverlap, Never
  <2>3. ReplayInv
    BY <2>1 DEF ReplayInit, ReplayInv
  <2> QED
    BY <2>2, <2>3
<1>2. ASSUME EdgeInv, ReplayInv, [BridgesNext]_bridgesVars PROVE EdgeInv' /\ ReplayInv'
  <2>1. EvaluateEdge \/ UNCHANGED edgevars
    BY <1>2 DEF BridgesNext, EdgeNext, bridgesVars, tradingVars
  <2>2. ReplayFrame \/ UNCHANGED replayvars
    BY <1>2 DEF BridgesNext, ReplayNext, bridgesVars, tradingVars
  <2>3. UNCHANGED edgevars => EdgeInv'
    BY <1>2 DEF EdgeInv, edgevars, LabelsDontOverlap, IsObservation
  <2>4. UNCHANGED replayvars => ReplayInv'
    BY <1>2 DEF ReplayInv, replayvars
  <2> QED
    BY <1>2, <2>1, <2>2, <2>3, <2>4, EdgeStep, ReplayStep
<1> QED
  BY <1>1, <1>2, PTL DEF BridgesSpec

\* The evidence is independent, for any markets, horizons and fold sizes: labels of a horizon
\* forecast and, in one market, measure intervals that do not overlap (resolve_due,
\* record_signal), a symbol's trades do not overlap, so that at most one of them is trained on
\* and closed within the validation, and no trade is validated by two folds (walk_forward).
THEOREM EvidenceSound == BridgesSpec => []EvidenceIsIndependent
<1>1. EdgeInv /\ ReplayInv => EvidenceIsIndependent
  BY OneReachesIn, WindowsFollow DEF EdgeInv, EvidenceIsIndependent
<1> QED
  BY <1>1, EvidenceSafe, PTL

-----------------------------------------------------------------------------
(* The direct completion and its adapters                                  *)

LEMMA SecondsOf ==
  ASSUME NEW a \in Nat, NEW s \in Nat \ {0}
  PROVE  a \div s \in Nat /\ s * (a \div s) <= a
OBVIOUS

LEMMA SecondsLess ==
  ASSUME NEW a \in Nat, NEW s \in Nat \ {0}, NEW q \in Nat, q <= (a \div s) - 1
  PROVE  s * q <= a - s
<1>1. a \div s \in Nat /\ s * (a \div s) <= a
  BY SecondsOf
<1> DEFINE d == a \div s
<1> HIDE DEF d
<1>2. s * q <= s * (d - 1)
  BY <1>1 DEF d
<1>3. s * (d - 1) = s * d - s
  BY <1>1 DEF d
<1> QED
  BY <1>1, <1>2, <1>3 DEF d

LEMMA LowerUpper ==
  ASSUME NEW a \in Int, NEW b \in Int
  PROVE  /\ Lower(a, b) \in Int /\ Upper(a, b) \in Int
         /\ Lower(a, b) <= a /\ Lower(a, b) <= b /\ (Lower(a, b) = a \/ Lower(a, b) = b)
         /\ Upper(a, b) >= a /\ Upper(a, b) >= b /\ (Upper(a, b) = a \/ Upper(a, b) = b)
BY DEF Lower, Upper

\* An endpoint gets no more than the time that is left, or a second.
LEMMA EndpointBudgetIs ==
  ASSUME NEW left \in Int, left > 0, NEW n \in Int
  PROVE  /\ EndpointBudget(left, n) \in Nat
         /\ EndpointBudget(left, n) <= Upper(left, Second)
<1> DEFINE least == Lower(2 * Second, Upper(left, Second))
           r == FallbackReserve * Second
           t == left \div 3
           d == left \div n
           split == Lower(Upper(d, least), left)
           preferred == left - Lower(r, t)
           U == Upper(left, Second)
<1>1. Second \in Nat \ {0} /\ r \in Nat
  BY OllamaAssumption
<1>2. t \in Nat
  OBVIOUS
<1>3. U \in Int /\ U >= left /\ U >= Second
  BY <1>1 DEF Upper
<1>4. least \in Int /\ least > 0
  <2>1. 2 * Second \in Int /\ 2 * Second > 0
    BY <1>1
  <2> HIDE DEF U
  <2>2. least = Lower(2 * Second, U)
    BY DEF U
  <2> QED
    BY <1>1, <1>3, <2>1, <2>2 DEF Lower
<1> HIDE DEF least, r, t, d, U
<1>5. preferred \in Int /\ preferred <= left
  BY <1>1, <1>2 DEF Lower
<1>6. n > 1 => split \in Int /\ split <= left /\ split > 0
  <2> SUFFICES ASSUME n > 1 PROVE split \in Int /\ split <= left /\ split > 0
    OBVIOUS
  <2>1. d \in Int
    BY DEF d
  <2> QED
    BY <1>4, <2>1 DEF Lower, Upper
<1> HIDE DEF split, preferred
<1>7. EndpointBudget(left, n) = IF n <= 1 THEN U ELSE IF preferred >= least THEN preferred ELSE split
  BY DEF EndpointBudget, U, split, preferred, least, r, t, d
<1> QED
  BY <1>1, <1>3, <1>4, <1>5, <1>6, <1>7 DEF U

\* The wait for a permit is over at most a second after the time that is left.
LEMMA QueueBudgetIs ==
  ASSUME NEW left \in Int, left > 0, NEW budget \in Nat, budget <= Upper(left, Second)
  PROVE  QueueBudget(budget) \in Nat /\ QueueBudget(budget) <= left + Second
<1> DEFINE d == budget \div Second
           s == Upper(d, 1)
           q == Lower(QueueTimeout, Upper(s - 1, 1))
<1>1. Second \in Nat \ {0} /\ QueueTimeout \in Nat \ {0}
  BY OllamaAssumption
<1>2. d \in Nat
  BY <1>1, SecondsOf
<1> HIDE DEF d
<1>3. q \in Nat /\ (q <= 1 \/ q <= d - 1)
  BY <1>1, <1>2 DEF Lower, Upper
<1> HIDE DEF q
<1>4. QueueBudget(budget) = Second * q
  BY DEF QueueBudget, q, d
<1>5. Second * q \in Nat
  BY <1>1, <1>3
<1>6. CASE q <= 1
  <2>1. q = 0 \/ q = 1
    BY <1>3, <1>6
  <2>2. Second * q <= Second
    BY <1>1, <2>1
  <2> QED
    BY <1>1, <1>4, <1>5, <2>2
<1>7. CASE q <= d - 1
  <2>1. Second * q <= budget - Second
    BY <1>1, <1>3, <1>7, SecondsLess DEF d
  <2> QED
    BY <1>1, <1>4, <1>5, <2>1 DEF Upper
<1> QED
  BY <1>3, <1>6, <1>7

-----------------------------------------------------------------------------
\* The record of a completion, and how its clocks stand to each other.
CompletionFields ==
  {"pc", "urls", "index", "left", "budget", "due", "model", "attempt", "strict", "floor"}

IsCompletion(o) ==
  /\ DOMAIN o = CompletionFields
  /\ Len(o.urls) \in Nat /\ o.index \in Nat
  /\ o.pc \in {"unused", "endpoint", "queue", "infer", "ok", "error", "dropped"}
  /\ o.left \in Int /\ o.budget \in Nat /\ o.due \in Nat

Clocks(o) ==
  /\ o.pc = "endpoint" => o.left >= -Second
  /\ o.pc = "queue" => o.left >= o.due - Second
  /\ o.pc = "infer" => o.left >= o.due

OllamaInv ==
  /\ DOMAIN oll = OllamaCall /\ oll = [c \in OllamaCall |-> oll[c]]
  /\ \A c \in OllamaCall : IsCompletion(oll[c]) /\ Clocks(oll[c])

\* One call moves.
LEMMA OneMoves ==
  ASSUME OllamaInv, NEW c \in OllamaCall, NEW o, IsCompletion(o), Clocks(o),
         oll' = [oll EXCEPT ![c] = o]
  PROVE  OllamaInv'
BY DEF OllamaInv, IsCompletion, Clocks

LEMMA OverIs ==
  ASSUME NEW pc \in {"ok", "error", "dropped"}, NEW m
  PROVE  IsCompletion(OllamaOver(pc, m)) /\ Clocks(OllamaOver(pc, m)) /\ OllamaOver(pc, m).pc = pc
<1> DEFINE o == OllamaOver(pc, m)
<1>1. /\ DOMAIN o = CompletionFields /\ o.pc = pc /\ o.urls = <<>> /\ o.index = 0
      /\ o.left = 0 /\ o.budget = 0 /\ o.due = 0
  BY DEF OllamaOver, Unused, CompletionFields
<1> HIDE DEF o
<1>2. IsCompletion(o) /\ Clocks(o) /\ o.pc = pc
  BY <1>1 DEF IsCompletion, Clocks
<1> QED
  BY <1>2 DEF o

\* The candidates are a sequence.
LEMMA CandidatesCounted ==
  ASSUME NEW explicit
  PROVE  Len(UrlCandidates(explicit)) \in Nat
<1> DEFINE all == (IF explicit THEN <<RequestedUrl>> ELSE <<>>) \o <<OwnUrl>> \o FallbackUrls
           firsts == {i \in DOMAIN all : \A j \in 1 .. (i - 1) : all[j] # all[i]}
           kept == [n \in 1 .. Cardinality(firsts) |->
                     CHOOSE i \in firsts : Cardinality({j \in firsts : j <= i}) = n]
           k == Lower(MaxEndpoints, Len(kept))
<1>1. Cardinality(firsts) \in Nat
  <2>1. IsFiniteSet(DOMAIN all)
    <3> DEFINE own == IF explicit THEN <<RequestedUrl>> ELSE <<>>
    <3>0. RequestedUrl \in Urls /\ OwnUrl \in Urls
      BY DEF Urls
    <3>a. own \in Seq(Urls) /\ <<OwnUrl>> \in Seq(Urls)
      BY <3>0
    <3>b. FallbackUrls \in Seq(Urls)
      BY OllamaAssumption DEF Urls, ToSet
    <3> HIDE DEF own
    <3>1. own \o <<OwnUrl>> \o FallbackUrls \in Seq(Urls)
      BY <3>a, <3>b
    <3> HIDE DEF all
    <3>c. all \in Seq(Urls)
      BY <3>1 DEF all, own
    <3>2. DOMAIN all = 1 .. Len(all) /\ Len(all) \in Nat
      BY <3>c
    <3> QED
      BY <3>2, FS_Interval
  <2>2. firsts \subseteq DOMAIN all
    OBVIOUS
  <2> QED
    BY <2>1, <2>2, FS_Subset, FS_CardinalityType
<1>2. Len(kept) = Cardinality(firsts)
  <2> HIDE DEF firsts
  <2> QED
    BY <1>1
<1>3. k \in Nat
  BY <1>1, <1>2, OllamaAssumption DEF Lower
<1>4. UrlCandidates(explicit) = [n \in 1 .. k |-> all[kept[n]]]
  BY DEF UrlCandidates
<1> HIDE DEF k, kept, all
<1> QED
  BY <1>3, <1>4

LEMMA NextIs ==
  ASSUME OllamaInv, NEW c \in OllamaCall, oll[c].left >= -Second
  PROVE  IsCompletion(NextEndpoint(c)) /\ Clocks(NextEndpoint(c)) /\ NextEndpoint(c).pc = "endpoint"
<1> DEFINE o == oll[c]
           k == o.index + 1
<1>1. IsCompletion(o)
  BY DEF OllamaInv
<1>2. NextEndpoint(c) = [o EXCEPT !.pc = "endpoint", !.index = k]
  BY DEF NextEndpoint
<1>0. k \in Nat
  BY <1>1 DEF IsCompletion, CompletionFields
<1> HIDE DEF k, o
<1>3. NextEndpoint(c).pc = "endpoint" /\ NextEndpoint(c).left = o.left /\ IsCompletion(NextEndpoint(c))
  BY <1>0, <1>1, <1>2 DEF IsCompletion, CompletionFields
<1> QED
  BY <1>3 DEF Clocks, o

\* What a step of a call leaves behind: the clocks, and where the call can be.
LEMMA OllamaStepKeeps ==
  ASSUME OllamaInv, NEW c \in OllamaCall, OllamaStep(c)
  PROVE  /\ OllamaInv'
         /\ oll[c].pc \in {"endpoint", "queue", "infer"}
         /\ oll'[c].pc \in {"endpoint", "queue", "infer", "ok", "error"}
         /\ \A d \in OllamaCall : d # c => oll'[d] = oll[d]
<1> DEFINE o == oll[c]
           to(x) == oll' = [oll EXCEPT ![c] = x]
           fine(x) == IsCompletion(x) /\ Clocks(x) /\ x.pc \in {"endpoint", "queue", "infer", "ok", "error"}
<1>a. IsCompletion(o) /\ Clocks(o) /\ Second \in Nat \ {0}
  BY OllamaAssumption DEF OllamaInv
<1>b. ASSUME NEW x, fine(x), to(x), o.pc \in {"endpoint", "queue", "infer"} PROVE
         /\ OllamaInv'
         /\ oll[c].pc \in {"endpoint", "queue", "infer"}
         /\ oll'[c].pc \in {"endpoint", "queue", "infer", "ok", "error"}
         /\ \A d \in OllamaCall : d # c => oll'[d] = oll[d]
  <2>1. OllamaInv'
    BY <1>b, OneMoves
  <2>2. oll'[c] = x /\ \A d \in OllamaCall : d # c => oll'[d] = oll[d]
    BY <1>b DEF OllamaInv
  <2> QED
    BY <1>b, <2>1, <2>2
<1>c. \A m : fine(OllamaOver("error", m)) /\ fine(OllamaOver("ok", m))
  BY OverIs
<1>d. o.left >= -Second => fine(NextEndpoint(c))
  BY NextIs
<1>1. CASE TryEndpoint(c)
  <2> DEFINE budget == EndpointBudget(o.left, Len(o.urls) - o.index + 1)
             x == [o EXCEPT !.pc = "queue", !.budget = budget, !.due = QueueBudget(budget)]
  <2>1. o.pc = "endpoint" /\ o.left >= -Second
    BY <1>1, <1>a DEF TryEndpoint, Pc, Clocks
  <2>2. to(OllamaOver("error", 0)) \/ to(NextEndpoint(c)) \/ (o.left > 0 /\ to(x))
    <3>1. ~(o.left <= 0) => o.left > 0
      BY <1>a DEF IsCompletion, CompletionFields
    <3> QED
      BY <1>1, <3>1 DEF TryEndpoint
  <2>3. o.left > 0 => fine(x)
    <3> SUFFICES ASSUME o.left > 0 PROVE fine(x)
      OBVIOUS
    <3> DEFINE n == Len(o.urls) - o.index + 1
    <3>0. o.left \in Int /\ n \in Int
      BY <1>a DEF IsCompletion, CompletionFields
    <3> HIDE DEF n
    <3>9. budget = EndpointBudget(o.left, n)
      BY DEF n
    <3>1. budget \in Nat /\ budget <= Upper(o.left, Second)
      BY <3>0, <3>9, EndpointBudgetIs
    <3> HIDE DEF budget
    <3> DEFINE q == QueueBudget(budget)
    <3>2. q \in Nat /\ q <= o.left + Second
      BY <1>a, <3>1, QueueBudgetIs DEF IsCompletion, CompletionFields
    <3> HIDE DEF q
    <3>3. x = [o EXCEPT !.pc = "queue", !.budget = budget, !.due = q]
      BY DEF q
    <3> HIDE DEF x, o
    <3>4. IsCompletion(x) /\ x.pc = "queue" /\ x.due = q /\ x.left = o.left /\ o.left \in Int
      BY <1>a, <3>1, <3>2, <3>3 DEF IsCompletion, CompletionFields
    <3>5. Clocks(x)
      BY <1>a, <3>2, <3>4 DEF Clocks
    <3> QED
      BY <3>4, <3>5
  <2> HIDE DEF x, fine
  <2> QED
    BY <1>b, <1>c, <1>d, <2>1, <2>2, <2>3
<1>2. CASE TakePermit(c)
  <2> DEFINE i == InferenceBudget(c)
             x == [o EXCEPT !.pc = "infer", !.due = i, !.model = RequestedModel, !.attempt = 0]
  <2>1. o.pc = "queue" /\ o.left >= o.due - Second
    BY <1>2, <1>a DEF TakePermit, Pc, Clocks
  <2>2. o.left >= -Second
    BY <1>a, <2>1 DEF IsCompletion, CompletionFields
  <2>3. i \in Nat /\ (i # 0 => i <= o.left)
    BY <1>a DEF InferenceBudget, Lower, Upper, IsCompletion
  <2>4. CASE i = 0
    <3>1. to(NextEndpoint(c))
      BY <1>2, <2>4 DEF TakePermit
    <3> HIDE DEF fine
    <3> QED
      BY <1>b, <1>d, <2>1, <2>2, <3>1
  <2>5. CASE i # 0
    <3>1. to(x)
      BY <1>2, <2>5 DEF TakePermit, OllamaInv
    <3> HIDE DEF i, o
    <3>2. IsCompletion(x) /\ x.pc = "infer" /\ x.due = i /\ x.left = o.left
      BY <1>a, <2>3 DEF IsCompletion, CompletionFields
    <3>3. Clocks(x)
      BY <2>3, <2>5, <3>2 DEF Clocks
    <3>4. fine(x)
      BY <3>2, <3>3
    <3> HIDE DEF fine, x
    <3> QED
      BY <1>b, <2>1, <3>1, <3>4
  <2> QED
    BY <2>4, <2>5
<1>3. CASE QueueSaturated(c)
  <2>1. o.pc = "queue" /\ o.due = 0 /\ to(NextEndpoint(c))
    BY <1>3 DEF QueueSaturated, Pc
  <2>2. o.left >= -Second
    BY <1>a, <2>1 DEF IsCompletion, Clocks
  <2> HIDE DEF fine
  <2> QED
    BY <1>b, <1>d, <2>1, <2>2
<1>e. o.pc = "infer" => o.left >= -Second /\ o.left >= 0
  BY <1>a DEF IsCompletion, Clocks
<1>4. CASE InferenceTimeout(c)
  <2>1. o.pc = "infer" /\ (to(NextEndpoint(c)) \/ to(OllamaOver("error", 0)))
    BY <1>4 DEF InferenceTimeout, Pc
  <2> HIDE DEF fine
  <2> QED
    BY <1>b, <1>c, <1>d, <1>e, <2>1
<1>5. CASE Answers(c)
  <2>1. PICK m : o.pc = "infer" /\ to(OllamaOver("ok", m))
    BY <1>5 DEF Answers, Pc
  <2> HIDE DEF fine
  <2> QED
    BY <1>b, <1>c, <2>1
<1>6. CASE AttemptAgain(c)
  <2>1. PICK m : o.pc = "infer" /\ oll' = [oll EXCEPT ![c].model = m, ![c].attempt = 1]
    BY <1>6 DEF AttemptAgain, Pc
  <2> DEFINE x == [o EXCEPT !.model = m, !.attempt = 1]
  <2>2. to(x)
    BY <2>1 DEF OllamaInv
  <2>3. IsCompletion(x) /\ x.pc = "infer" /\ x.due = o.due /\ x.left = o.left
    <3> HIDE DEF o
    <3> QED
      BY <1>a, <2>1 DEF IsCompletion, CompletionFields
  <2>4. fine(x)
    BY <1>a, <2>1, <2>3 DEF Clocks
  <2> HIDE DEF fine, x
  <2> QED
    BY <1>b, <2>1, <2>2, <2>4
<1>7. CASE AttemptFails(c)
  <2>1. o.pc = "infer" /\ to(NextEndpoint(c))
    BY <1>7 DEF AttemptFails, EndpointFails, Pc
  <2> HIDE DEF fine
  <2> QED
    BY <1>b, <1>d, <1>e, <2>1
<1> QED
  BY <1>1, <1>2, <1>3, <1>4, <1>5, <1>6, <1>7 DEF OllamaStep

LEMMA TickKeeps ==
  ASSUME OllamaInv, Tick
  PROVE  OllamaInv' /\ \A c \in OllamaCall : oll'[c].pc = oll[c].pc
<1>1. \A c \in OllamaCall : oll'[c] = IF c \in AllWaiting THEN [oll[c] EXCEPT !.left = @ - 1, !.due = @ - 1] ELSE oll[c]
  BY DEF Tick
<1>2. oll' = [c \in OllamaCall |-> oll'[c]] /\ DOMAIN oll' = OllamaCall
  BY DEF Tick
<1>3. ASSUME NEW c \in OllamaCall PROVE IsCompletion(oll'[c]) /\ Clocks(oll'[c]) /\ oll'[c].pc = oll[c].pc
  <2> DEFINE o == oll[c]
             l == o.left - 1
             d == o.due - 1
  <2>1. IsCompletion(o) /\ Clocks(o) /\ Second \in Nat
    BY OllamaAssumption DEF OllamaInv
  <2>2. CASE c \in AllWaiting
    <3>1. oll'[c] = [o EXCEPT !.left = l, !.due = d]
      BY <1>1, <2>2
    <3>2. o.due > 0 /\ o.pc \in {"queue", "infer"}
      BY <2>2 DEF Tick, AllWaiting, Pc
    <3>3. l \in Int /\ d \in Nat /\ o.left \in Int /\ o.due \in Nat
      BY <2>1, <3>2 DEF IsCompletion, CompletionFields
    <3>4. l = o.left - 1 /\ d = o.due - 1
      OBVIOUS
    <3> HIDE DEF l, d, o
    <3>5. IsCompletion(oll'[c]) /\ oll'[c].pc = o.pc /\ oll'[c].left = l /\ oll'[c].due = d
      BY <2>1, <3>1, <3>3 DEF IsCompletion, CompletionFields
    <3>6. Clocks(oll'[c])
      BY <2>1, <3>2, <3>3, <3>4, <3>5 DEF Clocks
    <3> QED
      BY <3>5, <3>6 DEF o
  <2>3. CASE c \notin AllWaiting
    BY <1>1, <2>1, <2>3
  <2> QED
    BY <2>2, <2>3
<1> QED
  BY <1>2, <1>3 DEF OllamaInv

-----------------------------------------------------------------------------
\* The record of a hosted completion: a Gemini request that still carries a cached prompt
\* after its first attempt has gone over to the default model.
HostedFields ==
  {"pc", "path", "attempt", "tries", "onDefault", "effort", "cache", "text", "failedBy"}

HostedActive == {"build", "post", "poll"}

IsHosted(h) ==
  /\ DOMAIN h = HostedFields
  /\ h.pc \in HostedActive \cup {"unused", "ok", "error", "dropped"}
  /\ h.attempt \in Nat
  /\ h.onDefault \in BOOLEAN /\ h.cache \in BOOLEAN

Forgiving(h) ==
  /\ h.path = "gemini" /\ h.cache /\ h.attempt > 0 => h.onDefault
  /\ h.path = "gemini" /\ h.failedBy = "cache" => h.onDefault
  /\ h.pc = "ok" => h.text \in {"full", "cut", "empty"}

HostedInv ==
  /\ DOMAIN hosted = HostedCall /\ hosted = [c \in HostedCall |-> hosted[c]]
  /\ \A c \in HostedCall : IsHosted(hosted[c]) /\ Forgiving(hosted[c])

LEMMA OneHostedMoves ==
  ASSUME HostedInv, NEW c \in HostedCall, NEW h, IsHosted(h), Forgiving(h),
         hosted' = [hosted EXCEPT ![c] = h]
  PROVE  /\ HostedInv' /\ hosted'[c] = h
         /\ \A d \in HostedCall : d # c => hosted'[d] = hosted[d]
BY DEF HostedInv

\* Only the pc moves, to anything but an answer.
LEMMA OnlyPcMoves ==
  ASSUME NEW h, IsHosted(h), Forgiving(h), NEW pc \in HostedActive \cup {"error", "dropped"}
  PROVE  /\ IsHosted([h EXCEPT !.pc = pc]) /\ Forgiving([h EXCEPT !.pc = pc])
         /\ [h EXCEPT !.pc = pc].pc = pc
BY DEF IsHosted, Forgiving, HostedFields, HostedActive

\* The next attempt of a request that, if it is Gemini's, carries no cached prompt or goes
\* to the default model.
LEMMA NextAttemptIs ==
  ASSUME NEW h, IsHosted(h), Forgiving(h), h.path = "gemini" /\ h.cache => h.onDefault
  PROVE  /\ IsHosted(NextAttempt(h)) /\ Forgiving(NextAttempt(h))
         /\ NextAttempt(h).pc \in {"build", "error"}
<1> DEFINE pc == IF h.attempt + 1 < Attempts(h.path) THEN "build" ELSE "error"
           a == h.attempt + 1
           x == NextAttempt(h)
<1>1. x = [h EXCEPT !.pc = pc, !.attempt = a, !.tries = 0]
  BY DEF NextAttempt
<1>2. pc \in {"build", "error"} /\ a \in Nat
  BY DEF IsHosted
<1> HIDE DEF pc, a, x
<1>3. /\ DOMAIN x = DOMAIN h /\ x.pc = pc /\ x.path = h.path /\ x.attempt = a
      /\ x.onDefault = h.onDefault /\ x.cache = h.cache /\ x.failedBy = h.failedBy
  BY <1>1 DEF IsHosted, HostedFields
<1>4. IsHosted(x) /\ Forgiving(x)
  BY <1>2, <1>3 DEF IsHosted, Forgiving, HostedActive
<1> QED
  BY <1>2, <1>3, <1>4 DEF x

\* What a step of a hosted call leaves behind.
LEMMA HostedStepKeeps ==
  ASSUME HostedInv, NEW c \in HostedCall, HostedStep(c)
  PROVE  /\ HostedInv'
         /\ hosted[c].pc \in HostedActive
         /\ hosted'[c].pc \in HostedActive \cup {"ok", "error"}
         /\ \A d \in HostedCall : d # c => hosted'[d] = hosted[d]
<1> DEFINE h == hosted[c]
           to(x) == hosted' = [hosted EXCEPT ![c] = x]
           fine(x) == IsHosted(x) /\ Forgiving(x) /\ x.pc \in HostedActive \cup {"ok", "error"}
<1>a. IsHosted(h) /\ Forgiving(h)
  BY DEF HostedInv
<1>b. ASSUME NEW x, fine(x), to(x), h.pc \in HostedActive PROVE
         /\ HostedInv'
         /\ hosted[c].pc \in HostedActive
         /\ hosted'[c].pc \in HostedActive \cup {"ok", "error"}
         /\ \A d \in HostedCall : d # c => hosted'[d] = hosted[d]
  BY <1>b, OneHostedMoves
<1>c. \A pc \in HostedActive \cup {"error"} : fine([h EXCEPT !.pc = pc])
  BY <1>a, OnlyPcMoves
<1>d. {"build", "post", "poll", "error"} \subseteq HostedActive \cup {"error"}
  BY DEF HostedActive
<1>1. CASE Build(c)
  <2> DEFINE x == [h EXCEPT !.pc = "post", !.cache = FALSE]
  <2>1. h.pc \in HostedActive
    BY <1>1 DEF Build, HAt, HostedActive
  <2>2. to([h EXCEPT !.pc = "post"]) \/ to([h EXCEPT !.pc = "error"]) \/ to(x)
    BY <1>1 DEF Build, HStep, HostedInv
  <2>3. fine(x)
    <3> HIDE DEF h
    <3>1. /\ DOMAIN x = HostedFields /\ x.pc = "post" /\ x.path = h.path /\ x.attempt = h.attempt
          /\ x.onDefault = h.onDefault /\ x.cache = FALSE /\ x.failedBy = h.failedBy
      BY <1>a DEF IsHosted, HostedFields
    <3> HIDE DEF x
    <3> QED
      BY <1>a, <3>1 DEF IsHosted, Forgiving, HostedActive
  <2> HIDE DEF fine, x
  <2> QED
    BY <1>b, <1>c, <1>d, <2>1, <2>2, <2>3
<1>2. CASE PostFails(c)
  <2> DEFINE pc == IF h.tries < PostRetries THEN "post" ELSE "error"
             t == h.tries + 1
             x == [h EXCEPT !.tries = t, !.pc = pc]
  <2>1. h.pc \in HostedActive
    BY <1>2 DEF PostFails, HAt, HostedActive
  <2>2. to(x)
    BY <1>2 DEF PostFails, HostedInv
  <2>3. pc \in {"post", "error"}
    OBVIOUS
  <2> HIDE DEF pc, t
  <2>4. fine(x)
    <3> HIDE DEF h
    <3>1. /\ DOMAIN x = HostedFields /\ x.pc = pc /\ x.path = h.path /\ x.attempt = h.attempt
          /\ x.onDefault = h.onDefault /\ x.cache = h.cache /\ x.failedBy = h.failedBy
      BY <1>a DEF IsHosted, HostedFields
    <3> HIDE DEF x
    <3> QED
      BY <1>a, <2>3, <3>1 DEF IsHosted, Forgiving, HostedActive
  <2> HIDE DEF fine, x
  <2> QED
    BY <1>b, <2>1, <2>2, <2>4
<1>3. CASE Accepted(c)
  <2>1. h.pc \in HostedActive /\ to([h EXCEPT !.pc = "poll"])
    BY <1>3 DEF Accepted, HStep, HAt, HostedInv, HostedActive
  <2> HIDE DEF fine
  <2> QED
    BY <1>b, <1>c, <1>d, <2>1
<1>4. CASE PollFails(c)
  <2>1. h.pc \in HostedActive /\ to([h EXCEPT !.pc = "error"])
    BY <1>4 DEF PollFails, HStep, HAt, HostedInv, HostedActive
  <2> HIDE DEF fine
  <2> QED
    BY <1>b, <1>c, <1>d, <2>1
<1>5. ASSUME NEW why \in {"effort", "cache", "model", "route", "other"}, Refused(c, why)
      PROVE  \E x : fine(x) /\ to(x) /\ h.pc \in HostedActive
  <2> DEFINE again == \/ why = "effort" /\ h.path = "responses"
                      \/ why = "cache" /\ (h.path = "responses" \/ (h.path = "gemini" /\ h.attempt = 0))
                      \/ why = "model" /\ h.path # "legacy" /\ h.attempt = 0 /\ ~h.onDefault
             e == h.effort /\ why # "effort"
             m == h.onDefault \/ why = "model"
             k == h.cache /\ ~(why = "cache")
             legacy == [h EXCEPT !.path = "legacy", !.tries = 0, !.cache = FALSE]
             less == [h EXCEPT !.effort = e, !.onDefault = m, !.cache = k]
             failed == [h EXCEPT !.pc = "error", !.failedBy = why]
  <2>1. h.pc = "post" /\ h.pc \in HostedActive /\ (why = "cache" => h.cache)
    BY <1>5 DEF Refused, Negotiate, HAt, HostedActive
  <2>2. to(legacy) \/ (again /\ to(NextAttempt(less))) \/ (~again /\ to(failed))
    BY <1>5 DEF Refused, Negotiate
  <2>3. e \in BOOLEAN /\ m \in BOOLEAN /\ k \in BOOLEAN
    OBVIOUS
  <2>4. fine(legacy)
    <3> HIDE DEF h
    <3>1. /\ DOMAIN legacy = HostedFields /\ legacy.pc = h.pc /\ legacy.path = "legacy"
          /\ legacy.attempt = h.attempt /\ legacy.onDefault = h.onDefault /\ legacy.cache = FALSE
      BY <1>a DEF IsHosted, HostedFields
    <3> HIDE DEF legacy
    <3>2. IsHosted(legacy) /\ Forgiving(legacy)
      BY <1>a, <2>1, <3>1 DEF IsHosted, Forgiving, h
    <3> QED
      BY <2>1, <3>1, <3>2 DEF h
  <2>5. again => fine(NextAttempt(less))
    <3> SUFFICES ASSUME again PROVE fine(NextAttempt(less))
      OBVIOUS
    <3>1. /\ h.path = "gemini" /\ k => m
          /\ h.path = "gemini" /\ h.failedBy = "cache" => m
      BY <1>a DEF IsHosted, Forgiving
    <3> HIDE DEF e, m, k
    <3>2. /\ DOMAIN less = HostedFields /\ less.pc = h.pc /\ less.path = h.path
          /\ less.attempt = h.attempt /\ less.onDefault = m /\ less.cache = k
          /\ less.failedBy = h.failedBy
      <4> HIDE DEF h
      <4> QED
        BY <1>a DEF IsHosted, HostedFields
    <3> HIDE DEF less, again
    <3>3. IsHosted(less) /\ Forgiving(less)
      <4>1. h.attempt \in Nat
        BY <1>a DEF IsHosted
      <4>2. IsHosted(less)
        BY <2>1, <2>3, <3>2, <4>1 DEF IsHosted
      <4>3. Forgiving(less)
        BY <2>1, <3>1, <3>2 DEF Forgiving
      <4> QED
        BY <4>2, <4>3
    <3>4. less.path = "gemini" /\ less.cache => less.onDefault
      BY <3>1, <3>2
    <3>5. /\ IsHosted(NextAttempt(less)) /\ Forgiving(NextAttempt(less))
          /\ NextAttempt(less).pc \in {"build", "error"}
      BY <3>3, <3>4, NextAttemptIs
    <3> QED
      BY <1>d, <3>5
  <2>6. ~again => fine(failed)
    <3> SUFFICES ASSUME ~again PROVE fine(failed)
      OBVIOUS
    <3>1. why = "cache" /\ h.path = "gemini" => h.onDefault
      BY <1>a, <2>1 DEF IsHosted, Forgiving
    <3> HIDE DEF again
    <3>2. /\ DOMAIN failed = HostedFields /\ failed.pc = "error" /\ failed.path = h.path
          /\ failed.attempt = h.attempt /\ failed.onDefault = h.onDefault /\ failed.cache = h.cache
          /\ failed.failedBy = why
      <4> HIDE DEF h
      <4> QED
        BY <1>a DEF IsHosted, HostedFields
    <3> HIDE DEF failed
    <3>3. IsHosted(failed) /\ Forgiving(failed)
      BY <1>a, <3>1, <3>2 DEF IsHosted, Forgiving
    <3> QED
      BY <3>2, <3>3
  <2> HIDE DEF fine, legacy, failed, again, less
  <2> QED
    BY <2>1, <2>2, <2>4, <2>5, <2>6
<1>6. ASSUME NEW text \in {"full", "cut", "empty"}, Received(c, text)
      PROVE  \E x : fine(x) /\ to(x) /\ h.pc \in HostedActive
  <2> DEFINE pc == IF text = "empty" /\ h.path \in {"responses", "legacy"} THEN "error" ELSE "ok"
             x == [h EXCEPT !.text = text, !.pc = pc]
  <2>1. h.pc \in HostedActive
    BY <1>6 DEF Received, HostedActive
  <2>2. (h.path = "responses" /\ to(NextAttempt(h))) \/ to(x)
    BY <1>6 DEF Received
  <2>3. pc \in {"ok", "error"}
    OBVIOUS
  <2> HIDE DEF pc
  <2>4. fine(x)
    <3> HIDE DEF h
    <3>1. /\ DOMAIN x = HostedFields /\ x.pc = pc /\ x.path = h.path /\ x.attempt = h.attempt
          /\ x.onDefault = h.onDefault /\ x.cache = h.cache /\ x.failedBy = h.failedBy
          /\ x.text = text
      BY <1>a DEF IsHosted, HostedFields
    <3> HIDE DEF x
    <3>2. IsHosted(x) /\ Forgiving(x)
      BY <1>a, <2>3, <3>1 DEF IsHosted, Forgiving
    <3> QED
      BY <2>3, <3>1, <3>2
  <2>5. h.path = "responses" => fine(NextAttempt(h))
    <3> SUFFICES ASSUME h.path = "responses" PROVE fine(NextAttempt(h))
      OBVIOUS
    <3>1. h.path # "gemini"
      OBVIOUS
    <3>2. /\ IsHosted(NextAttempt(h)) /\ Forgiving(NextAttempt(h))
          /\ NextAttempt(h).pc \in {"build", "error"}
      BY <1>a, <3>1, NextAttemptIs
    <3> QED
      BY <1>d, <3>2
  <2> HIDE DEF fine, x
  <2> QED
    BY <2>1, <2>2, <2>4, <2>5
<1> HIDE DEF fine, to
<1>7. CASE \E why \in {"effort", "cache", "model", "route", "other"} : Refused(c, why)
  <2>1. PICK why \in {"effort", "cache", "model", "route", "other"} : Refused(c, why)
    BY <1>7
  <2>2. PICK x : fine(x) /\ to(x) /\ h.pc \in HostedActive
    BY <1>5, <2>1
  <2> QED
    BY <1>b, <2>2
<1>8. CASE \E text \in {"full", "cut", "empty"} : Received(c, text)
  <2>1. PICK text \in {"full", "cut", "empty"} : Received(c, text)
    BY <1>8
  <2>2. PICK x : fine(x) /\ to(x) /\ h.pc \in HostedActive
    BY <1>6, <2>1
  <2> QED
    BY <1>b, <2>2
<1> QED
  BY <1>1, <1>2, <1>3, <1>4, <1>7, <1>8 DEF HostedStep

-----------------------------------------------------------------------------
\* Where a request stands, against its adapter and its rows: while a provider works on
\* it nothing has been recorded, and only a request that is calling has one working on it.
AdapterActive == {"endpoint", "queue", "infer"} \cup HostedActive

\* What record_llm_interaction leaves of a request.
RowOf(c, status) == IF c \in Hushed THEN <<>> ELSE <<status>>

RequestStands(c) ==
  /\ direct[c] \in {"new", "received", "queued", "calling", "answered", "failing", "returned",
                     "failed", "gone"}
  /\ direct[c] \in {"new", "received", "queued"} => ProviderPc(c) = "unused" /\ rows[c] = <<>>
  /\ direct[c] = "calling" =>
       ProviderPc(c) \in AdapterActive \cup {"ok", "error"} /\ rows[c] = <<>>
  /\ direct[c] = "answered" => Over(c) /\ Answered(c) /\ rows[c] = <<>>
  /\ direct[c] = "failing" => Over(c) /\ ~Answered(c) /\ rows[c] = <<>>
  /\ direct[c] = "returned" => Over(c) /\ Answered(c) /\ rows[c] = RowOf(c, "ok")
  /\ direct[c] = "failed" =>
       \/ ProviderPc(c) = "unused" /\ rows[c] = <<>>
       \/ Over(c) /\ ~Answered(c) /\ rows[c] = RowOf(c, "error")
  /\ direct[c] = "gone" => ProviderPc(c) \in {"dropped", "ok", "error"} /\ rows[c] = <<>>

RequestsInv ==
  /\ DOMAIN direct = DirectCall /\ DOMAIN rows = DirectCall
  /\ \A c \in DirectCall : RequestStands(c)

DirectInv == OllamaInv /\ HostedInv /\ RequestsInv

\* A request moves; the other requests and their adapters stay.
LEMMA OneRequestMoves ==
  ASSUME RequestsInv, NEW c \in DirectCall,
         DOMAIN direct' = DirectCall, DOMAIN rows' = DirectCall,
         \A d \in DirectCall : d # c => direct'[d] = direct[d] /\ rows'[d] = rows[d],
         \A d \in OllamaCall : d # c => oll'[d] = oll[d],
         \A d \in HostedCall : d # c => hosted'[d] = hosted[d],
         RequestStands(c)'
  PROVE  RequestsInv'
<1>1. ASSUME NEW d \in DirectCall, d # c PROVE RequestStands(d)'
  <2>1. RequestStands(d) /\ direct'[d] = direct[d] /\ rows'[d] = rows[d]
    BY <1>1 DEF RequestsInv
  <2>2. d \in OllamaCall => oll'[d] = oll[d]
    BY <1>1
  <2>3. d \in HostedCall => hosted'[d] = hosted[d]
    BY <1>1
  <2>4. ProviderPc(d)' = ProviderPc(d)
    BY <2>2, <2>3 DEF ProviderPc, DirectCall
  <2> QED
    BY <2>1, <2>3, <2>4 DEF RequestStands, Over, Answered, RowOf
<1> QED
  BY <1>1 DEF RequestsInv

\* A request takes a step that leaves every adapter alone.
LEMMA OnlyRequestMoves ==
  ASSUME DirectInv, NEW c \in DirectCall, NEW at,
         direct' = [direct EXCEPT ![c] = at],
         DOMAIN rows' = DirectCall, \A d \in DirectCall : d # c => rows'[d] = rows[d],
         UNCHANGED ollamaVars, UNCHANGED hostedVars,
         RequestStands(c)'
  PROVE  DirectInv'
<1>1. oll' = oll /\ hosted' = hosted
  BY DEF ollamaVars, hostedVars
<1>2. OllamaInv' /\ HostedInv'
  BY <1>1 DEF DirectInv, OllamaInv, HostedInv
<1>3. RequestsInv'
  <2>1. /\ DOMAIN direct' = DirectCall /\ DOMAIN rows' = DirectCall
        /\ \A d \in DirectCall : d # c => direct'[d] = direct[d] /\ rows'[d] = rows[d]
    BY DEF DirectInv, RequestsInv
  <2>2. \A d \in OllamaCall : d # c => oll'[d] = oll[d]
    BY <1>1
  <2>3. \A d \in HostedCall : d # c => hosted'[d] = hosted[d]
    BY <1>1
  <2>4. RequestsInv
    BY DEF DirectInv
  <2> QED
    BY <2>1, <2>2, <2>3, <2>4, OneRequestMoves
<1> QED
  BY <1>2, <1>3 DEF DirectInv

\* An adapter works on a request that is calling.
LEMMA AdapterMoves ==
  ASSUME RequestsInv, NEW c \in DirectCall,
         ProviderPc(c) \in AdapterActive,
         ProviderPc(c)' \in AdapterActive \cup {"ok", "error"},
         UNCHANGED <<direct, rows>>,
         \A d \in OllamaCall : d # c => oll'[d] = oll[d],
         \A d \in HostedCall : d # c => hosted'[d] = hosted[d]
  PROVE  RequestsInv'
<1>1. RequestStands(c) /\ DOMAIN direct = DirectCall /\ DOMAIN rows = DirectCall
  BY DEF RequestsInv
<1>2. ProviderPc(c) \notin {"unused", "ok", "error", "dropped"}
  BY DEF AdapterActive, HostedActive
<1>3. direct[c] = "calling" /\ rows[c] = <<>>
  BY <1>1, <1>2 DEF RequestStands, Over
<1>4. RequestStands(c)'
  BY <1>3 DEF RequestStands
<1> QED
  BY <1>1, <1>4, OneRequestMoves

LEMMA DirectInitInv ==
  ASSUME DirectInit PROVE DirectInv
<1>1. OllamaInv
  <2>1. IsCompletion(Unused) /\ Clocks(Unused)
    <3>1. /\ DOMAIN Unused = CompletionFields /\ Unused.pc = "unused" /\ Unused.urls = <<>>
          /\ Unused.index = 0 /\ Unused.left = 0 /\ Unused.budget = 0 /\ Unused.due = 0
      BY DEF Unused, CompletionFields
    <3> QED
      BY <3>1 DEF IsCompletion, Clocks
  <2>2. DOMAIN oll = OllamaCall /\ oll = [c \in OllamaCall |-> oll[c]]
        /\ \A c \in OllamaCall : oll[c] = Unused
    BY DEF DirectInit, OllamaInit
  <2> QED
    BY <2>1, <2>2 DEF OllamaInv
<1>2. HostedInv
  <2>1. IsHosted(Idle) /\ Forgiving(Idle)
    BY DEF IsHosted, Forgiving, Idle, HostedFields, HostedActive
  <2>2. DOMAIN hosted = HostedCall /\ hosted = [c \in HostedCall |-> hosted[c]]
        /\ \A c \in HostedCall : hosted[c] = Idle
    BY DEF DirectInit, HostedInit
  <2> QED
    BY <2>1, <2>2 DEF HostedInv
<1>3. RequestsInv
  <2>1. \A c \in DirectCall : direct[c] = "new" /\ rows[c] = <<>>
    BY DEF DirectInit
  <2>2. \A c \in DirectCall : ProviderPc(c) = "unused"
    BY DEF DirectInit, OllamaInit, HostedInit, ProviderPc, DirectCall, Unused, Idle
  <2> QED
    BY <2>1, <2>2 DEF RequestsInv, RequestStands, DirectInit
<1> QED
  BY <1>1, <1>2, <1>3 DEF DirectInv

LEMMA DirectStep ==
  ASSUME DirectInv, [DirectNext]_<<directVars, ollamaVars, hostedVars>>
  PROVE  DirectInv'
<1>0. /\ RequestsInv /\ OllamaInv /\ HostedInv
      /\ DOMAIN direct = DirectCall /\ DOMAIN rows = DirectCall
      /\ \A c \in DirectCall : RequestStands(c)
  BY DEF DirectInv, RequestsInv
<1>k. /\ UNCHANGED rows => DOMAIN rows' = DirectCall /\ \A d \in DirectCall : rows'[d] = rows[d]
      /\ \A row : \A c \in DirectCall : rows' = [rows EXCEPT ![c] = row] =>
           DOMAIN rows' = DirectCall /\ \A d \in DirectCall : d # c => rows'[d] = rows[d]
  BY <1>0
<1>p. UNCHANGED ollamaVars /\ UNCHANGED hostedVars =>
        \A c \in DirectCall : /\ ProviderPc(c)' = ProviderPc(c)
                              /\ c \in HostedCall => hosted'[c] = hosted[c]
  BY DEF ProviderPc, ollamaVars, hostedVars
<1>1. ASSUME NEW c \in DirectCall, NEW strict \in BOOLEAN, ReceiveDirect(c, strict) PROVE DirectInv'
  <2>1. /\ direct[c] = "new" /\ direct' = [direct EXCEPT ![c] = "received"] /\ UNCHANGED rows
        /\ UNCHANGED ollamaVars /\ UNCHANGED hostedVars
    BY <1>1 DEF ReceiveDirect, Reaches
  <2>2. RequestStands(c)'
    BY <1>0, <1>p, <2>1 DEF RequestStands
  <2> QED
    BY <1>k, <2>1, <2>2, OnlyRequestMoves
<1>f. ASSUME NEW c \in DirectCall, direct[c] \in {"received", "queued"}, FailEarly(c) PROVE DirectInv'
  <2>1. /\ direct' = [direct EXCEPT ![c] = "failed"] /\ UNCHANGED rows
        /\ UNCHANGED ollamaVars /\ UNCHANGED hostedVars
    BY <1>f DEF FailEarly, Reaches
  <2>2. RequestStands(c)'
    BY <1>0, <1>f, <1>p, <2>1 DEF RequestStands
  <2> QED
    BY <1>k, <2>1, <2>2, OnlyRequestMoves
<1>2. ASSUME NEW c \in DirectCall, AdmitDirect(c) PROVE DirectInv'
  <2>1. direct[c] = "received"
    BY <1>2 DEF AdmitDirect
  <2>2. CASE FailEarly(c)
    BY <1>f, <2>1, <2>2
  <2>3. CASE ~FailEarly(c)
    <3>1. /\ direct' = [direct EXCEPT ![c] = "queued"] /\ UNCHANGED rows
          /\ UNCHANGED ollamaVars /\ UNCHANGED hostedVars
      BY <1>2, <2>3 DEF AdmitDirect, Reaches
    <3>2. RequestStands(c)'
      BY <1>0, <1>p, <2>1, <3>1 DEF RequestStands
    <3> QED
      BY <1>k, <3>1, <3>2, OnlyRequestMoves
  <2> QED
    BY <2>2, <2>3
<1>3. ASSUME NEW c \in DirectCall, Saturated(c) PROVE DirectInv'
  BY <1>3, <1>f DEF Saturated
<1>a. UNCHANGED ollamaVars /\ UNCHANGED hostedVars =>
        \A c \in DirectCall : (Over(c)' <=> Over(c)) /\ (Answered(c)' <=> Answered(c))
  BY <1>p DEF Over, Answered
<1>4. ASSUME NEW c \in DirectCall, Settle(c) PROVE DirectInv'
  <2>1. PICK at : /\ direct[c] = "calling" /\ direct' = [direct EXCEPT ![c] = at] /\ UNCHANGED rows
                  /\ UNCHANGED ollamaVars /\ UNCHANGED hostedVars
                  /\ Over(c)
                  /\ \/ at = "answered" /\ Answered(c)
                     \/ at = "failing" /\ ~Answered(c)
    <3> DEFINE pc == IF Answered(c) THEN "answered" ELSE "failing"
    <3>1. Over(c) /\ HandOver(c, pc)
      BY <1>4 DEF Settle
    <3>2. \/ pc = "answered" /\ Answered(c)
          \/ pc = "failing" /\ ~Answered(c)
      OBVIOUS
    <3> HIDE DEF pc
    <3> QED
      BY <3>1, <3>2 DEF HandOver, Reaches
  <2>2. direct'[c] = at /\ rows'[c] = <<>>
    BY <1>0, <2>1 DEF RequestStands
  <2>3. Over(c)' /\ (Answered(c)' <=> Answered(c))
    BY <1>a, <2>1
  <2>4. RequestStands(c)'
    BY <2>1, <2>2, <2>3 DEF RequestStands
  <2> QED
    BY <1>k, <2>1, <2>4, OnlyRequestMoves
<1>15. ASSUME NEW c \in DirectCall, Close(c) PROVE DirectInv'
  <2>1. PICK at, status :
          /\ direct' = [direct EXCEPT ![c] = at] /\ Noted(c, status)
          /\ UNCHANGED ollamaVars /\ UNCHANGED hostedVars
          /\ \/ direct[c] = "failing" /\ at = "failed" /\ status = "error"
             \/ direct[c] = "answered" /\ at = "returned" /\ status = "ok"
    BY <1>15 DEF Close, Reaches
  <2>2. rows[c] = <<>>
    BY <1>0, <2>1 DEF RequestStands
  <2>3. rows' = [rows EXCEPT ![c] = RowOf(c, status)]
    <3>1. <<>> \o <<>> = <<>> /\ <<>> \o <<status>> = <<status>>
      OBVIOUS
    <3> QED
      BY <2>1, <2>2, <3>1 DEF Noted, RowOf
  <2>4. direct'[c] = at /\ rows'[c] = RowOf(c, status)
    BY <1>0, <2>1, <2>3
  <2>5. /\ Over(c)' <=> Over(c)
        /\ Answered(c)' <=> Answered(c)
    BY <1>a, <2>1
  <2>6. RequestStands(c)'
    <3>1. Over(c) /\ (at = "returned" <=> Answered(c))
      BY <1>0, <2>1 DEF RequestStands
    <3>2. RowOf(c, status)' = RowOf(c, status)
      BY DEF RowOf
    <3>3. RowOf(c, "ok")' = RowOf(c, "ok") /\ RowOf(c, "error")' = RowOf(c, "error")
      BY DEF RowOf
    <3> QED
      BY <2>1, <2>4, <2>5, <3>1, <3>3 DEF RequestStands
  <2> QED
    BY <1>k, <2>1, <2>3, <2>6, OnlyRequestMoves
<1>5. ASSUME NEW c \in DirectCall, Disconnect(c) PROVE DirectInv'
  <2>1. /\ direct[c] \in {"calling", "answered", "failing"}
        /\ direct' = [direct EXCEPT ![c] = "gone"] /\ UNCHANGED rows
    BY <1>5 DEF Disconnect, Reaches
  <2>2. /\ DOMAIN direct' = DirectCall /\ DOMAIN rows' = DirectCall
        /\ direct'[c] = "gone" /\ rows'[c] = <<>>
        /\ \A d \in DirectCall : d # c => direct'[d] = direct[d] /\ rows'[d] = rows[d]
    BY <1>0, <2>1 DEF RequestStands
  <2>3. ASSUME ProviderPc(c)' \in {"dropped", "ok", "error"} PROVE RequestStands(c)'
    BY <2>2, <2>3 DEF RequestStands
  <2>4. CASE Over(c)
    <3>1. oll' = oll /\ hosted' = hosted
      BY <1>5, <2>4 DEF Disconnect
    <3>2. OllamaInv' /\ HostedInv'
      BY <1>0, <3>1 DEF OllamaInv, HostedInv
    <3>3. RequestStands(c)'
      BY <2>3, <2>4, <3>1 DEF Over, ProviderPc
    <3>4. RequestsInv'
      BY <1>0, <2>2, <3>1, <3>3, OneRequestMoves
    <3> QED
      BY <3>2, <3>4 DEF DirectInv
  <2>5. CASE ~Over(c) /\ c \in OllamaCall
    <3>1. oll' = [oll EXCEPT ![c] = OllamaOver("dropped", 0)] /\ hosted' = hosted
      BY <1>5, <2>5 DEF Disconnect, AbandonOllama
    <3>2. OllamaInv' /\ HostedInv'
      BY <1>0, <2>5, <3>1, OverIs, OneMoves DEF HostedInv
    <3>3. \A d \in OllamaCall : d # c => oll'[d] = oll[d]
      BY <1>0, <3>1 DEF OllamaInv
    <3>4. RequestStands(c)'
      <4>1. oll'[c].pc = "dropped"
        BY <1>0, <2>5, <3>1, OverIs DEF OllamaInv
      <4> QED
        BY <2>3, <2>5, <4>1 DEF ProviderPc
    <3>5. RequestsInv'
      BY <1>0, <2>2, <3>1, <3>3, <3>4, OneRequestMoves
    <3> QED
      BY <3>2, <3>5 DEF DirectInv
  <2>6. CASE ~Over(c) /\ c \notin OllamaCall
    <3>0. c \in HostedCall
      BY <2>6 DEF DirectCall
    <3> DEFINE x == [hosted[c] EXCEPT !.pc = "dropped"]
    <3>1. hosted' = [hosted EXCEPT ![c] = x] /\ oll' = oll
      BY <1>0, <1>5, <2>6, <3>0 DEF Disconnect, AbandonHosted, HStep, HostedInv
    <3>2. IsHosted(x) /\ Forgiving(x) /\ x.pc = "dropped"
      BY <1>0, <3>0, OnlyPcMoves DEF HostedInv
    <3> HIDE DEF x
    <3>3. HostedInv' /\ hosted'[c] = x /\ \A d \in HostedCall : d # c => hosted'[d] = hosted[d]
      BY <1>0, <3>0, <3>1, <3>2, OneHostedMoves
    <3>4. OllamaInv'
      BY <1>0, <3>1 DEF OllamaInv
    <3>5. RequestStands(c)'
      BY <2>3, <2>6, <3>2, <3>3 DEF ProviderPc
    <3>6. RequestsInv'
      BY <1>0, <2>2, <3>1, <3>3, <3>5, OneRequestMoves
    <3> QED
      BY <3>3, <3>4, <3>6 DEF DirectInv
  <2> QED
    BY <2>4, <2>5, <2>6
<1>6. ASSUME NEW c \in OllamaCall, CallOllama(c) PROVE DirectInv'
  <2>0. c \in DirectCall
    BY DEF DirectCall
  <2> DEFINE floor == ModelFloor
             strict == asked[c]
             urls == UrlCandidates(c \in Explicit)
             left == TotalTimeout * Second
             x == [Unused EXCEPT !.pc = "endpoint", !.urls = urls, !.index = 1, !.left = left,
                                 !.strict = strict, !.floor = floor]
  <2>1. /\ direct[c] = "queued" /\ direct' = [direct EXCEPT ![c] = "calling"] /\ UNCHANGED rows
        /\ hosted' = hosted
        /\ oll' = [oll EXCEPT ![c] = OllamaOver("error", 0)] \/ oll' = [oll EXCEPT ![c] = x]
    BY <1>6 DEF CallOllama, StartOllama, Reaches, hostedVars
  <2>2. IsCompletion(x) /\ Clocks(x) /\ x.pc = "endpoint"
    <3>1. Len(urls) \in Nat
      BY CandidatesCounted
    <3>2. left \in Nat /\ Second \in Nat
      BY OllamaAssumption
    <3> HIDE DEF urls, left, strict, floor
    <3>3. /\ DOMAIN x = CompletionFields /\ x.pc = "endpoint" /\ x.urls = urls /\ x.index = 1
          /\ x.left = left /\ x.budget = 0 /\ x.due = 0
      BY DEF Unused, CompletionFields
    <3> HIDE DEF x
    <3> QED
      BY <3>1, <3>2, <3>3 DEF IsCompletion, Clocks
  <2> HIDE DEF x
  <2>3. PICK o : /\ IsCompletion(o) /\ Clocks(o) /\ o.pc \in {"endpoint", "error"}
                 /\ oll' = [oll EXCEPT ![c] = o]
    BY <2>1, <2>2, OverIs
  <2>4. OllamaInv' /\ oll'[c] = o /\ \A d \in OllamaCall : d # c => oll'[d] = oll[d]
    BY <1>0, <2>3, OneMoves DEF OllamaInv
  <2>5. HostedInv'
    BY <1>0, <2>1 DEF HostedInv
  <2>6. /\ DOMAIN direct' = DirectCall /\ DOMAIN rows' = DirectCall
        /\ direct'[c] = "calling" /\ rows'[c] = <<>>
        /\ \A d \in DirectCall : d # c => direct'[d] = direct[d] /\ rows'[d] = rows[d]
    BY <1>0, <2>0, <2>1 DEF RequestStands
  <2>7. RequestStands(c)'
    BY <2>3, <2>4, <2>6 DEF RequestStands, ProviderPc, AdapterActive
  <2>8. RequestsInv'
    BY <1>0, <2>0, <2>1, <2>4, <2>6, <2>7, OneRequestMoves
  <2> QED
    BY <2>4, <2>5, <2>8 DEF DirectInv
<1>7. ASSUME NEW c \in HostedCall, NEW path \in {"responses", "chat", "gemini"}, NEW effort \in BOOLEAN,
             CallHosted(c, path, effort)
      PROVE  DirectInv'
  <2>0. c \in DirectCall /\ c \notin OllamaCall
    BY DirectAssumption DEF DirectCall
  <2> DEFINE x == [Idle EXCEPT !.pc = "build", !.path = path, !.effort = effort, !.cache = TRUE]
  <2>a. (path # "legacy") = TRUE
    OBVIOUS
  <2>1. /\ direct[c] = "queued" /\ direct' = [direct EXCEPT ![c] = "calling"] /\ UNCHANGED rows
        /\ oll' = oll /\ hosted' = [hosted EXCEPT ![c] = x]
    BY <1>7, <2>a DEF CallHosted, StartHosted, Reaches, ollamaVars
  <2>2. IsHosted(x) /\ Forgiving(x) /\ x.pc = "build"
    <3>2. /\ DOMAIN x = HostedFields /\ x.pc = "build" /\ x.path = path /\ x.attempt = 0
          /\ x.onDefault = FALSE /\ x.cache = TRUE /\ x.failedBy = "none"
      BY DEF Idle, HostedFields
    <3> HIDE DEF x
    <3>3. IsHosted(x)
      <4>1. x.pc \in HostedActive \cup {"unused", "ok", "error", "dropped"}
        BY <3>2 DEF HostedActive
      <4>2. x.attempt \in Nat
        BY <3>2
      <4>3. x.onDefault \in BOOLEAN
        BY <3>2
      <4>4. x.cache \in BOOLEAN
        BY <3>2
      <4> QED
        BY <3>2, <4>1, <4>2, <4>3, <4>4 DEF IsHosted
    <3>4. Forgiving(x)
      BY <3>2 DEF Forgiving
    <3> QED
      BY <3>2, <3>3, <3>4
  <2> HIDE DEF x
  <2>3. HostedInv' /\ hosted'[c] = x /\ \A d \in HostedCall : d # c => hosted'[d] = hosted[d]
    BY <1>0, <2>1, <2>2, OneHostedMoves
  <2>4. OllamaInv'
    BY <1>0, <2>1 DEF OllamaInv
  <2>5. /\ DOMAIN direct' = DirectCall /\ DOMAIN rows' = DirectCall
        /\ direct'[c] = "calling" /\ rows'[c] = <<>>
        /\ \A d \in DirectCall : d # c => direct'[d] = direct[d] /\ rows'[d] = rows[d]
    BY <1>0, <2>0, <2>1 DEF RequestStands
  <2>6. RequestStands(c)'
    BY <2>0, <2>2, <2>3, <2>5 DEF RequestStands, ProviderPc, AdapterActive, HostedActive
  <2>7. RequestsInv'
    BY <1>0, <2>0, <2>1, <2>3, <2>5, <2>6, OneRequestMoves
  <2> QED
    BY <2>3, <2>4, <2>7 DEF DirectInv
<1>8. ASSUME NEW c \in OllamaCall, OllamaStep(c), UNCHANGED directVars, UNCHANGED hostedVars
      PROVE  DirectInv'
  <2>1. /\ OllamaInv' /\ oll[c].pc \in {"endpoint", "queue", "infer"}
        /\ oll'[c].pc \in {"endpoint", "queue", "infer", "ok", "error"}
        /\ \A d \in OllamaCall : d # c => oll'[d] = oll[d]
    BY <1>0, <1>8, OllamaStepKeeps
  <2>2. hosted' = hosted /\ UNCHANGED <<direct, rows>>
    BY <1>8 DEF hostedVars, directVars
  <2>3. HostedInv'
    BY <1>0, <2>2 DEF HostedInv
  <2>4. c \in DirectCall /\ ProviderPc(c) \in AdapterActive
        /\ ProviderPc(c)' \in AdapterActive \cup {"ok", "error"}
    BY <2>1 DEF DirectCall, ProviderPc, AdapterActive
  <2>5. RequestsInv'
    BY <1>0, <2>1, <2>2, <2>4, AdapterMoves
  <2> QED
    BY <2>1, <2>3, <2>5 DEF DirectInv
<1>9. ASSUME NEW c \in HostedCall, HostedStep(c), UNCHANGED directVars, UNCHANGED ollamaVars
      PROVE  DirectInv'
  <2>1. /\ HostedInv' /\ hosted[c].pc \in HostedActive
        /\ hosted'[c].pc \in HostedActive \cup {"ok", "error"}
        /\ \A d \in HostedCall : d # c => hosted'[d] = hosted[d]
    BY <1>0, <1>9, HostedStepKeeps
  <2>2. oll' = oll /\ UNCHANGED <<direct, rows>>
    BY <1>9 DEF ollamaVars, directVars
  <2>3. OllamaInv'
    BY <1>0, <2>2 DEF OllamaInv
  <2>4. c \in DirectCall /\ c \notin OllamaCall
    BY DirectAssumption DEF DirectCall
  <2>5. ProviderPc(c) \in AdapterActive /\ ProviderPc(c)' \in AdapterActive \cup {"ok", "error"}
    BY <2>1, <2>4 DEF ProviderPc, AdapterActive
  <2>6. RequestsInv'
    BY <1>0, <2>1, <2>2, <2>4, <2>5, AdapterMoves
  <2> QED
    BY <2>1, <2>3, <2>6 DEF DirectInv
<1>s. ASSUME oll' = oll, hosted' = hosted, UNCHANGED <<direct, rows>> PROVE DirectInv'
  <2>1. OllamaInv' /\ HostedInv'
    BY <1>0, <1>s DEF OllamaInv, HostedInv
  <2>2. ASSUME NEW c \in DirectCall PROVE RequestStands(c)'
    BY <1>0, <1>s DEF RequestStands, Over, Answered, RowOf, ProviderPc
  <2> QED
    BY <1>0, <1>s, <2>1, <2>2 DEF DirectInv, RequestsInv
<1>10. CASE CacheExpires /\ UNCHANGED directVars /\ UNCHANGED ollamaVars
  BY <1>s, <1>10 DEF CacheExpires, directVars, ollamaVars
<1>11. CASE Tick /\ UNCHANGED directVars /\ UNCHANGED hostedVars
  <2>1. OllamaInv' /\ \A c \in OllamaCall : oll'[c].pc = oll[c].pc
    BY <1>0, <1>11, TickKeeps
  <2>2. hosted' = hosted /\ UNCHANGED <<direct, rows>>
    BY <1>11 DEF hostedVars, directVars
  <2>3. HostedInv'
    BY <1>0, <2>2 DEF HostedInv
  <2>4. RequestsInv'
    <3>1. ASSUME NEW c \in DirectCall PROVE RequestStands(c)'
      <4>1. ProviderPc(c)' = ProviderPc(c)
        BY <2>1, <2>2 DEF ProviderPc
      <4>2. (Over(c)' <=> Over(c)) /\ (Answered(c)' <=> Answered(c))
        BY <2>2, <4>1 DEF Over, Answered
      <4> QED
        BY <1>0, <2>2, <4>1, <4>2 DEF RequestStands, RowOf
    <3> QED
      BY <1>0, <2>2, <3>1 DEF RequestsInv
  <2> QED
    BY <2>1, <2>3, <2>4 DEF DirectInv
<1>12. CASE DirectDone
  BY <1>s, <1>12 DEF DirectDone, directVars, ollamaVars, hostedVars
<1>13. CASE UNCHANGED <<directVars, ollamaVars, hostedVars>>
  BY <1>s, <1>13 DEF directVars, ollamaVars, hostedVars
<1>14. CASE DirectNext
  <2>1. CASE \E c \in DirectCall :
               \/ \E strict \in BOOLEAN : ReceiveDirect(c, strict)
               \/ AdmitDirect(c) \/ Saturated(c) \/ Settle(c) \/ Close(c) \/ Disconnect(c)
    BY <1>1, <1>2, <1>3, <1>4, <1>5, <1>15, <2>1
  <2>2. CASE \E c \in OllamaCall :
               \/ CallOllama(c)
               \/ OllamaStep(c) /\ UNCHANGED directVars /\ UNCHANGED hostedVars
    BY <1>6, <1>8, <2>2
  <2>3. CASE \E c \in HostedCall :
               \/ \E path \in {"responses", "chat", "gemini"}, effort \in BOOLEAN :
                    (effort => path = "responses") /\ CallHosted(c, path, effort)
               \/ HostedStep(c) /\ UNCHANGED directVars /\ UNCHANGED ollamaVars
    BY <1>7, <1>9, <2>3
  <2> QED
    BY <1>10, <1>11, <1>12, <1>14, <2>1, <2>2, <2>3 DEF DirectNext
<1> QED
  BY <1>13, <1>14

LEMMA DirectKeepsInv == DirectSpec => []DirectInv
<1>1. DirectInit => DirectInv
  BY DirectInitInv
<1>2. DirectInv /\ [DirectNext]_<<directVars, ollamaVars, hostedVars>> => DirectInv'
  BY DirectStep
<1> QED
  BY <1>1, <1>2, PTL DEF DirectSpec

\* Whatever endpoints are slow, saturated or gone, a completion is over at most a second
\* after its deadline (complete, compute_ollama_endpoint_budget): the wait for a permit
\* outlasts the time that is left by at most that second, and the inference not at all.
THEOREM DeadlineKept == DirectSpec => []OverByDeadline
<1>1. DirectInv => OverByDeadline
  <2> SUFFICES ASSUME DirectInv, NEW c \in OllamaCall, oll[c].pc \in {"endpoint", "queue", "infer"}
               PROVE  oll[c].left >= -Second
    BY DEF OverByDeadline, Pc
  <2>1. IsCompletion(oll[c]) /\ Clocks(oll[c]) /\ Second \in Nat
    BY OllamaAssumption DEF DirectInv, OllamaInv
  <2> QED
    BY <2>1, SMTT(30) DEF IsCompletion, Clocks
<1> QED
  BY <1>1, DirectKeepsInv, PTL

\* A cached content that Gemini forgot fails a completion only when its one further
\* attempt went to the default model (complete, maybe_cached_content).
THEOREM CacheForgiven == DirectSpec => []ForgottenCacheTolerated
<1>1. DirectInv => ForgottenCacheTolerated
  BY DEF DirectInv, HostedInv, Forgiving, ForgottenCacheTolerated
<1> QED
  BY <1>1, DirectKeepsInv, PTL

\* A returned answer is never empty, and a request that is over at its provider and for its
\* client has one row, which says what the client was told; hushed ones, those that failed
\* before the provider and those whose client left meanwhile have none
\* (direct_complete_inner, record_llm_interaction).
THEOREM DirectRecorded == DirectSpec => []AnswersRecorded
<1>1. DirectInv => AnswersRecorded
  <2> SUFFICES ASSUME DirectInv, NEW c \in DirectCall
               PROVE  /\ direct[c] = "returned" => Answered(c)
                      /\ rows[c] = IF direct[c] \in {"returned", "failed"} /\ Over(c) /\ c \notin Hushed
                                   THEN <<IF Answered(c) THEN "ok" ELSE "error">> ELSE <<>>
    BY DEF AnswersRecorded
  <2>1. RequestStands(c)
    BY DEF DirectInv, RequestsInv
  <2>2. ProviderPc(c) = "unused" => ~Over(c)
    BY DEF Over
  <2>3. CASE direct[c] = "returned"
    BY <2>1, <2>3 DEF RequestStands, RowOf
  <2>4. CASE direct[c] = "failed"
    BY <2>1, <2>2, <2>4 DEF RequestStands, RowOf
  <2>5. CASE direct[c] \notin {"returned", "failed"}
    BY <2>1, <2>5 DEF RequestStands
  <2> QED
    BY <2>3, <2>4, <2>5
<1> QED
  BY <1>1, DirectKeepsInv, PTL

=============================================================================
