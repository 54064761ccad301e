--------------------------- MODULE BacktestTuning ---------------------------
(***************************************************************************)
(* The automatic tuning of the runtime overrides by backtest results       *)
(* (apply_backtest_auto_tuning in trading/mod.rs) and the two others who   *)
(* write the same overrides: the operator through the API, and the         *)
(* feedback of the exchange's minimum order size.                          *)
(*                                                                         *)
(* The overrides are the trade size window [min, max] and one knob, gate,  *)
(* that stands for the confidence gate, the fuzzy weight and the penalties *)
(* on losing decisions: each is moved one step until it reaches its clamp. *)
(* A replay is negative, marginal or profitable.  A size is a number of    *)
(* steps of the tuner; 0 stands for what is below a cent, the least size   *)
(* the code computes with.                                                 *)
(***************************************************************************)
EXTENDS Integers, Sequences, SequencesExt, FiniteSetsExt

CONSTANTS
  HistoryCap,       \* backtest summaries kept
  BaselineRuns, ValidationRuns,
  ConfiguredMin, ConfiguredMax, LargestSize,
  GateSteps,        \* steps of the knob up to its clamp
  Replays           \* bound on the replays

\* TradingConfig::normalize (trading/config.rs:542) makes the configured sizes
\* positive and a window.
ASSUME TuningAssumption ==
  /\ ConfiguredMin \in Nat \ {0} /\ ConfiguredMax \in Nat /\ LargestSize \in Nat
  /\ ConfiguredMin <= ConfiguredMax /\ ConfiguredMax <= LargestSize
  /\ GateSteps \in Nat

VARIABLES
  history,     \* backtest_history: profits, oldest first
  sizing,      \* the effective overrides [min, max, gate]
  trial,       \* active_trial
  tuneCooling, \* now < cooldown_until
  replays,
  origin,      \* of the overrides in force: the exchange's minimum they have met, and
               \* whether the operator gave them inverted
  tried        \* the replays since the trial began: all of them, the successful ones

tuningvars == <<history, sizing, trial, tuneCooling, replays, origin, tried>>

NoTrial == [active |-> FALSE]
Profit == {-1, 0, 2}
NoProfit == -9    \* the summary of a replay that failed
Sizing == [min: 0..LargestSize, max: 0..LargestSize, gate: 0..GateSteps]
Cent == 1
Untried == [runs |-> 0, good |-> 0]
Configured == [min |-> ConfiguredMin, max |-> ConfiguredMax, gate |-> 0]

TuningInit ==
  /\ history = <<>> /\ sizing = Configured /\ trial = NoTrial
  /\ tuneCooling = FALSE /\ replays = 0
  /\ origin = [floor |-> 0, inverted |-> FALSE] /\ tried = Untried

Total(s) == FoldSeq(+, 0, s)
TwiceMedian(s) ==
  LET t == SortSeq(s, <) IN t[(Len(s) + 1) \div 2] + t[Len(s) \div 2 + 1]
Successful(s) == SelectSeq(s, LAMBDA p: p # NoProfit)
LastOf(s, n) == SubSeq(s, Len(s) - n + 1, Len(s))

\* The oldest summary leaves a full history.
Recorded(p) == Append(IF Len(history) >= HistoryCap THEN Tail(history) ELSE history, p)

\* What the tuner takes for the two sizes.
CurrentMin == Max({sizing.min, Cent})
CurrentMax == Max({sizing.max, CurrentMin})

\* A candidate: the gate raised by a step, the largest trade shrunk to max if that is less,
\* and the smallest one not above it.
Candidate(max) ==
  LET largest == IF max < CurrentMax THEN max ELSE sizing.max
  IN  [gate |-> Min({sizing.gate + 1, GateSteps}), max |-> largest,
       min |-> IF CurrentMin > Max({largest, Cent}) THEN Max({largest, Cent}) ELSE sizing.min]

\* mutant: the largest size shrinks below the smallest, which follows it
ProposedUnclamped == Candidate(Max({CurrentMax - 1, Cent}))

\* propose_backtest_tuning_candidate: the largest trade never shrinks below the smallest.
Proposed == Candidate(Max({CurrentMax - 1, CurrentMin}))

\* Without a reason there is no candidate: a smallest size that would be lowered is none.
HasReason == Proposed.gate # sizing.gate \/ Proposed.max # sizing.max

\* Kept when the mean improved and the median did not fall.
Acceptable(runs) ==
  /\ Total(runs) * BaselineRuns > trial.total * ValidationRuns
  /\ TwiceMedian(runs) >= trial.twiceMedian

Judge(h) ==
  LET seen == Successful(SubSeq(h, trial.from + 1, Len(h)))
  IN IF Len(seen) < ValidationRuns
     THEN tried' = [runs |-> tried.runs + 1, good |-> tried.good + 1]
          /\ UNCHANGED <<trial, sizing, tuneCooling, origin>>
     ELSE /\ trial' = NoTrial /\ tried' = Untried
          /\ IF Acceptable(LastOf(seen, ValidationRuns))
             THEN tuneCooling' = FALSE /\ UNCHANGED <<sizing, origin>>
             ELSE tuneCooling' = TRUE /\ sizing' = trial.previous /\ origin' = trial.origin

StartTrial(h, p) ==
  /\ IF /\ ~tuneCooling /\ p <= 0
        /\ Len(Successful(h)) >= BaselineRuns /\ HasReason
     THEN LET baseline == LastOf(Successful(h), BaselineRuns)
          IN /\ sizing' = Proposed
             /\ trial' = [active |-> TRUE, from |-> Len(h), total |-> Total(baseline),
                          twiceMedian |-> TwiceMedian(baseline), previous |-> sizing,
                          origin |-> origin]
     ELSE UNCHANGED <<sizing, trial>>
  /\ UNCHANGED <<tuneCooling, origin, tried>>

FinishReplay ==
  /\ replays < Replays
  /\ replays' = replays + 1
  /\ \E p \in Profit:
       /\ history' = Recorded(p)
       /\ IF trial.active THEN Judge(Recorded(p)) ELSE StartTrial(Recorded(p), p)

\* A replay without a result takes its place in the history and changes
\* nothing else.
ReplayFails ==
  /\ replays < Replays
  /\ replays' = replays + 1
  /\ history' = Recorded(NoProfit)
  /\ tried' = IF trial.active THEN [tried EXCEPT !.runs = @ + 1] ELSE tried
  /\ UNCHANGED <<sizing, trial, tuneCooling, origin>>

TuneCooldownEnds ==
  /\ tuneCooling /\ tuneCooling' = FALSE
  /\ UNCHANGED <<history, sizing, trial, replays, origin, tried>>

\* trading_set_config replaces the overrides as a whole and checks nothing.
OperatorTunes ==
  /\ \E s \in Sizing:
       sizing' = s /\ origin' = [floor |-> 0, inverted |-> s.min > s.max]
  /\ UNCHANGED <<history, trial, tuneCooling, replays, tried>>

\* apply_trade_floor_feedback: the exchange wants at least this size, and each of the two
\* that is smaller is raised to it.
FloorFeedback ==
  /\ \E least \in 1..LargestSize:
       LET target == Max({least, ConfiguredMin})
       IN /\ sizing' = [sizing EXCEPT !.min = Max({@, target}), !.max = Max({@, target})]
          /\ origin' = [origin EXCEPT !.floor = Max({@, target})]
  /\ UNCHANGED <<history, trial, tuneCooling, replays, tried>>

TuningNext ==
  \/ FinishReplay \/ ReplayFails \/ TuneCooldownEnds \/ OperatorTunes \/ FloorFeedback

TuningSpec == TuningInit /\ [][TuningNext]_tuningvars

\* The tuner lowers one end of the trade sizes while the exchange raises the other, the
\* operator replaces both in between and a reversal brings back an earlier pair: no size
\* falls below the exchange's minimum that its overrides have met, and only an operator who
\* gave them inverted leaves the smallest above the largest.
SizesHold ==
  /\ sizing.min >= origin.floor /\ sizing.max >= origin.floor
  /\ sizing.min > sizing.max => origin.inverted

\* A trial is kept or reverted with its last validation run, as long as the history has room:
\* a trial is judged by the places after its start, and a full history has none.
TrialsAreJudged ==
  trial.active /\ tried.good >= ValidationRuns => trial.from + tried.runs > HistoryCap

\* Trials end, and whoever tunes in whatever order, the sizes can be traded.
TuningIsSound == SizesHold /\ TrialsAreJudged
=============================================================================
