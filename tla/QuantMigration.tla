--------------------------- MODULE QuantMigration ---------------------------
(***************************************************************************)
(* The migration of the trading loop from the LLM advisors to the          *)
(* quantitative controller (trading/quant.rs, and the parts of             *)
(* trading/mod.rs, trading/state.rs and trading/backtest_worker.rs that    *)
(* touch it).                                                              *)
(*                                                                         *)
(* The controller is one record inside the shared trading state.  Every    *)
(* cycle of the loop resolves the observations that are due, retunes the   *)
(* active parameter arm, evaluates the migration, saves the state, and     *)
(* only then reads the mode and decides whether the LLM is consulted at    *)
(* all.  Two other actors touch the same record meanwhile: the research    *)
(* worker, whose replay grants or withdraws the native validation, and     *)
(* every other handler that saves the shared state.                        *)
(*                                                                         *)
(* A net return is -1, 0 or 1: a loss, a hold or a gain after costs.  The  *)
(* benchmark of the LLM is 0, so outperforming it is a positive mean.      *)
(* The confidence z-score is 0, a legal setting under which the lower      *)
(* bound of the edge is its mean.                                          *)
(***************************************************************************)
EXTENDS Integers, Sequences, FiniteSets, SequencesExt, FiniteSetsExt, Folds

CONSTANTS
  TradingArm,         \* the momentum arms
  Cash,               \* the arm that never trades
  FirstArm,           \* the arm of a new controller
  LedgerSize,         \* quant_shadow_ledger_size
  Window,             \* quant_migration_window_samples, a divisor of 12
  TuningSamples,      \* quant_tuning_min_samples
  TuningInterval,     \* quant_tuning_interval_samples
  MigrationSamples,   \* quant_migration_min_samples
  RequiredStreak,     \* quant_migration_required_streak
  ExpiryCycles,       \* quant_shadow_expiry_seconds, in horizons
  PauseOnFailure,     \* backtest_pause_on_failure
  Observations,       \* bound on the observations recorded
  SaveFaults          \* bound on the failures of the qdisk

Arm == TradingArm \cup {Cash}

NoArm == "no arm"

\* The outcome of each arm over one observation; cash earns nothing.
Outcomes == {r \in [Arm -> {-1, 0, 1}]: r[Cash] = 0}

PendingObservation == [id: Nat, arm: Arm, paired: BOOLEAN, waited: Nat]
ResolvedObservation == [id: Nat, arm: Arm, paired: BOOLEAN, returns: Outcomes]
QuantController ==
  [mode: {"shadow", "primary"}, arm: Arm,
   pending: Seq(PendingObservation), resolved: Seq(ResolvedObservation),
   streak: Nat, falls: Nat, untuned: Nat, native: Arm \cup {NoArm}, stale: BOOLEAN]

ASSUME QuantAssumption ==
  /\ FirstArm \in TradingArm
  /\ Cash \notin TradingArm
  /\ LedgerSize \in Nat /\ TuningInterval \in Nat

VARIABLES
  quant,      \* the controller in memory
  qdisk,       \* the controller in trading_state.json, and the pause beside it
  before,     \* previous_controller, while the resolution is being saved
  cycle,      \* where the evaluation loop is
  acting,     \* quant_primary, as this cycle of the loop read it
  halted,     \* paused by a failed replay
  recorded,   \* observations recorded so far
  qfaults,    \* saves that failed
  durable     \* ghost: the last promotion has reached the file

qvars == <<quant, qdisk, before, cycle, acting, halted, recorded,
           qfaults, durable>>

NewController ==
  [mode |-> "shadow", arm |-> FirstArm, pending |-> <<>>, resolved |-> <<>>,
   streak |-> 0, falls |-> 0, untuned |-> 0, native |-> NoArm, stale |-> FALSE]

(* ---------------------------------------------------------------------- *)
(* Evidence                                                               *)

\* The newest Window elements of s that satisfy Test.
NewestOf(s, Test(_)) ==
  LET kept == SelectSeq(s, Test)
  IN SubSeq(kept, Len(kept) - Min({Len(kept), Window}) + 1, Len(kept))

\* Only actionable returns enter the mean and the downside; holds are zero.
Summary(values) ==
  LET acted == SelectSeq(values, LAMBDA v: v # 0)
      mean == IF acted = <<>> THEN 0
              ELSE (12 * FoldSeq(+, 0, acted)) \div Len(acted)
  IN [samples |-> Len(values), actionable |-> Len(acted), mean |-> mean,
      total |-> FoldSeq(+, 0, values),
      downside |-> IF \E i \in DOMAIN acted: acted[i] < 0 THEN 12 ELSE 0]

ParameterPerformance(resolved, a) ==
  Summary([i \in 1..Len(NewestOf(resolved, LAMBDA r: TRUE)) |->
             NewestOf(resolved, LAMBDA r: TRUE)[i].returns[a]])

Score(resolved, a) ==
  IF a = Cash THEN 0
  ELSE LET p == ParameterPerformance(resolved, a)
       IN p.mean - p.downside \div 4

\* Cash wins whenever no trading arm shows a positive edge.
Contenders(resolved) ==
  LET proven == {a \in TradingArm:
                   LET p == ParameterPerformance(resolved, a)
                   IN p.samples >= TuningSamples /\ p.mean > 0}
  IN IF proven = {} THEN {Cash}
     ELSE {a \in proven: \A b \in proven: Score(resolved, b) <= Score(resolved, a)}

\* The controllers a retuning may leave: ties between arms go either way.
Retuned(q) ==
  IF Len(q.resolved) < TuningSamples \/ q.untuned < TuningInterval
  THEN {q}
  ELSE {[q EXCEPT !.untuned = 0,
                  !.arm = IF Score(q.resolved, best) > Score(q.resolved, q.arm)
                          THEN best ELSE q.arm]: best \in Contenders(q.resolved)}

\* Only samples that carry an LLM return, taken under the arm active now.
Paired(q) == NewestOf(q.resolved, LAMBDA r: r.paired /\ r.arm = q.arm)

EnoughPairs(q) == Len(Paired(q)) >= MigrationSamples

Qualified(q) ==
  LET paired == Paired(q)
      s == Summary([i \in DOMAIN paired |-> paired[i].returns[paired[i].arm]])
  IN /\ EnoughPairs(q)
     /\ s.actionable >= 1
     /\ q.arm # Cash
     /\ q.native = q.arm /\ ~q.stale
     /\ s.mean > 0 /\ s.total > 0

Migrated(q) ==
  CASE q.mode = "primary" /\ Qualified(q) -> [q EXCEPT !.falls = 0]
    [] q.mode = "primary" /\ ~Qualified(q) /\ ~EnoughPairs(q) -> q
    [] q.mode = "primary" /\ ~Qualified(q) /\ EnoughPairs(q) ->
         IF q.falls + 1 < RequiredStreak THEN [q EXCEPT !.falls = @ + 1]
         ELSE [q EXCEPT !.mode = "shadow", !.streak = 0, !.falls = 0]
    [] q.mode = "shadow" ->
         LET run == IF Qualified(q) THEN q.streak + 1 ELSE 0
         IN [q EXCEPT !.falls = 0, !.streak = run,
                      !.mode = IF run < RequiredStreak THEN "shadow" ELSE "primary"]

(* ---------------------------------------------------------------------- *)
(* The evaluation loop                                                    *)

\* The positions in S, in their order.
InOrder(S) ==
  CHOOSE f \in [1..Cardinality(S) -> S]: \A i, j \in DOMAIN f: i < j => f[i] < f[j]

\* resolve_due: every waiting observation is due, a horizon having passed since
\* the last was recorded.  The quoted ones are resolved; the others wait until
\* they expire.
Settled(quoted, returns) ==
  LET chosen == InOrder(quoted)
  IN [k \in DOMAIN chosen |->
        LET p == quant.pending[chosen[k]]
        IN [id |-> p.id, arm |-> p.arm, paired |-> p.paired, returns |-> returns[chosen[k]]]]

Expired(quoted) ==
  {i \in DOMAIN quant.pending \ quoted: quant.pending[i].waited >= ExpiryCycles}

Waiting(quoted) ==
  LET left == InOrder(DOMAIN quant.pending \ (quoted \cup Expired(quoted)))
  IN [k \in DOMAIN left |-> [quant.pending[left[k]] EXCEPT !.waited = @ + 1]]

\* The ledger keeps its newest entries, the waiting and the resolved alike.
Trimmed(ledger) ==
  SubSeq(ledger, Len(ledger) - Min({Len(ledger), LedgerSize}) + 1, Len(ledger))

Moved(quoted, returns) ==
  [quant EXCEPT
     !.pending = Waiting(quoted),
     !.resolved = Trimmed(@ \o Settled(quoted, returns)),
     !.untuned = Min({@ + Len(Settled(quoted, returns)), TuningInterval})]

Resolve(quoted, returns) ==
  LET next == Moved(quoted, returns)
  IN /\ quant' \in IF quoted = {} THEN {next} ELSE {Migrated(q): q \in Retuned(next)}
     /\ IF quoted = {} /\ Expired(quoted) = {}
        THEN cycle' = "choose" /\ before' = before
        ELSE cycle' = "save" /\ before' = quant
     /\ durable' = (durable /\ (quant.mode = "primary" \/ quant'.mode = "shadow"))

ResolveDue ==
  /\ cycle = "idle" /\ ~halted
  /\ \E quoted \in SUBSET DOMAIN quant.pending: \E returns \in [quoted -> Outcomes]:
       Resolve(quoted, returns)
  /\ UNCHANGED <<qdisk, acting, halted, recorded, qfaults>>

\* Every writer saves the state as it is when it holds the file.
StateWritten ==
  /\ qdisk' = [quant |-> quant, paused |-> halted]
  /\ durable' = (durable \/ quant.mode = "primary")

SaveResolved ==
  /\ cycle \in {"save", "restore"}
  /\ StateWritten
  /\ cycle' = "choose"
  /\ before' = NewController
  /\ UNCHANGED <<quant, acting, halted, recorded, qfaults>>

\* mutant: the promotion stays in memory
SaveFailsKept ==
  /\ cycle = "save" /\ qfaults < SaveFaults
  /\ before' = NewController
  /\ cycle' = "restore"
  /\ qfaults' = qfaults + 1
  /\ UNCHANGED <<quant, qdisk, acting, halted, recorded, durable>>

\* mutant: the mode is undone and the observations are queued again, but the
\* resolved ledger is not undone
SaveFailsHalfUndone ==
  /\ cycle = "save" /\ qfaults < SaveFaults
  /\ quant' = [before EXCEPT !.resolved = quant.resolved]
  /\ before' = NewController
  /\ cycle' = "restore"
  /\ qfaults' = qfaults + 1
  /\ UNCHANGED <<qdisk, acting, halted, recorded, durable>>

\* The update is undone in memory, and the undone state saved if possible.
SaveFails ==
  /\ cycle = "save" /\ qfaults < SaveFaults
  /\ quant' = before /\ before' = NewController
  /\ cycle' = "restore"
  /\ qfaults' = qfaults + 1
  /\ UNCHANGED <<qdisk, acting, halted, recorded,
                 durable>>

RestoreFails ==
  /\ cycle = "restore"
  /\ cycle' = "choose"
  /\ UNCHANGED <<quant, qdisk, before, acting, halted, recorded, qfaults,
                 durable>>

Choose ==
  /\ cycle = "choose"
  /\ acting' = (quant.mode = "primary")
  /\ cycle' = "advise"
  /\ UNCHANGED <<quant, qdisk, before, halted, recorded, qfaults,
                 durable>>

\* record_evaluation: the LLM side is absent once quant decides.
Record ==
  /\ cycle = "advise" /\ recorded < Observations
  /\ quant' = [quant EXCEPT !.pending = Trimmed(Append(@,
       [id |-> recorded + 1, arm |-> quant.arm, paired |-> ~acting, waited |-> 0]))]
  /\ recorded' = recorded + 1
  /\ acting' = FALSE
  /\ cycle' = "record"
  /\ UNCHANGED <<qdisk, before, halted, qfaults, durable>>

\* No usable signal this time: nothing is recorded.
RecordNothing ==
  /\ cycle = "advise"
  /\ acting' = FALSE
  /\ cycle' = "idle"
  /\ UNCHANGED <<quant, qdisk, before, halted, recorded, qfaults,
                 durable>>

SaveRecorded ==
  /\ cycle = "record"
  /\ \/ StateWritten /\ UNCHANGED qfaults
     \/ /\ qfaults < SaveFaults /\ qfaults' = qfaults + 1
        /\ UNCHANGED <<qdisk, durable>>
  /\ cycle' = "idle"
  /\ UNCHANGED <<quant, before, acting, halted, recorded>>

(* ---------------------------------------------------------------------- *)
(* The other actors                                                       *)

\* run_configured_backtest publishes its report; its worker then saves.
Replay ==
  /\ \E a \in TradingArm \cup {NoArm}:
       /\ quant' = [quant EXCEPT !.native = a, !.stale = FALSE]
       /\ halted' = (halted \/ (PauseOnFailure /\ quant.mode = "primary" /\ a = NoArm))
  /\ UNCHANGED <<qdisk, before, cycle, acting, recorded, qfaults,
                 durable>>

\* native_validation_max_age_seconds passes.
ValidationExpires ==
  /\ quant.native # NoArm /\ ~quant.stale
  /\ quant' = [quant EXCEPT !.stale = TRUE]
  /\ UNCHANGED <<qdisk, before, cycle, acting, halted, recorded,
                 qfaults, durable>>

\* Any other holder of the trading state saves it.
SaveElsewhere ==
  /\ qdisk # [quant |-> quant, paused |-> halted]
  /\ StateWritten
  /\ UNCHANGED <<quant, before, cycle, acting, halted, recorded,
                 qfaults>>

Unhalt ==
  /\ halted
  /\ halted' = FALSE
  /\ UNCHANGED <<quant, qdisk, before, cycle, acting, recorded,
                 qfaults, durable>>

\* The process ends anywhere and restores what the file holds.
RestartTrading ==
  /\ quant' = qdisk.quant /\ before' = NewController /\ halted' = qdisk.paused
  /\ cycle' = "idle" /\ acting' = FALSE
  /\ durable' = (qdisk.quant.mode = "primary")
  /\ UNCHANGED <<qdisk, recorded, qfaults>>

QuantInit ==
  /\ quant = NewController /\ qdisk = [quant |-> NewController, paused |-> FALSE]
  /\ before = NewController
  /\ cycle = "idle" /\ acting = FALSE /\ halted = FALSE
  /\ recorded = 0 /\ qfaults = 0
  /\ durable = FALSE

QuantNext ==
  \/ ResolveDue \/ SaveResolved \/ SaveFails \/ RestoreFails \/ Choose
  \/ Record \/ RecordNothing \/ SaveRecorded
  \/ Replay \/ ValidationExpires \/ SaveElsewhere
  \/ Unhalt \/ RestartTrading

QuantSpec == QuantInit /\ [][QuantNext]_qvars

(* ---------------------------------------------------------------------- *)
(* Properties                                                             *)

QuantTypeOK ==
  /\ quant \in QuantController /\ before \in QuantController
  /\ qdisk \in [quant: QuantController, paused: BOOLEAN]
  /\ cycle \in {"idle", "save", "restore", "choose", "advise", "record"}
  /\ acting \in BOOLEAN /\ halted \in BOOLEAN /\ durable \in BOOLEAN
  /\ recorded \in Nat /\ qfaults \in Nat

\* "atomically persisted before quant is allowed to replace the LLM"
\* (trading/mod.rs:1619): a cycle of the loop lets quant decide only under a
\* promotion that has reached the file, whichever save fails or is overtaken.
LoopActsDurably == acting => durable

\* Migration rests on independent samples: an observation is counted once,
\* never both waiting and resolved and never resolved twice, although a
\* failed save undoes the resolution and a restart goes back to the file.
EvidenceCountedOnce ==
  LET ids == [i \in DOMAIN quant.pending |-> quant.pending[i].id]
             \o [i \in DOMAIN quant.resolved |-> quant.resolved[i].id]
  IN IsInjective(ids)

\* Quant decides only under a promotion that reached the file, and an
\* observation is counted once.
QuantIsDurable == LoopActsDurably /\ EvidenceCountedOnce
=============================================================================
