---------------------------- MODULE TradingCycle ----------------------------
(***************************************************************************)
(* The evaluation loop of the trading bridge (trading/mod.rs) and the      *)
(* tasks it owns: the single read-only maintenance review                  *)
(* (trading/review_worker.rs) and the bootstrap of the market data lake.    *)
(* Only the loop executes orders; what an order needs on its way to the    *)
(* exchange is module TradeExecution, and here an execution either goes    *)
(* through or is refused.  A requested evaluation and a tick wake the loop *)
(* alike.                                                                  *)
(*                                                                         *)
(* A decision is the override it carries out (0 for none) and the model    *)
(* its advice came from.  An execution counts as evidence for the paper    *)
(* qualification of the fingerprint it is executed under                   *)
(* (trading/qualification.rs).                                             *)
(***************************************************************************)
EXTENDS Integers, FiniteSets

CONSTANTS
  Fingerprint,      \* the versions of the trading model
  Overrides,        \* bound on the overrides an operator queues
  Events            \* bound on what operator, models, faults and timers do

Kind == {"discovery", "pruning"}
NoDecision == [override |-> 0, by |-> "nobody"]
NoReview == [stage |-> "none"]

VARIABLES
  loop,        \* "wait", "fetch", "advise", "decide", "execute"
  stopped,     \* TradingState.paused
  queued,      \* TradingState.pending_override: 0 or its number
  queuedSoFar,
  fingerprint, \* trading_elm_fingerprint()
  advice,      \* the model this evaluation consulted
  decision,    \* the decision this evaluation is about to execute
  review,      \* the maintenance review
  due,         \* kinds whose interval has elapsed
  lastKind,    \* the kind of the review started last
  passedOver,  \* ghost: reviews of the other kind started while this was due
  boot,        \* [task, owed, retry]: the bootstrap of the data lake
  lakeReady,
  executed,    \* ghost: how often each override was carried out
  cooling,     \* overrides whose intent is still leased or cooling down
  cycleEvents,      \* how often operator, models, faults and timers acted
  evidence     \* PaperQualificationState: fingerprint and the models behind it

cyclevars == <<loop, stopped, queued, queuedSoFar, fingerprint, cycleEvents, advice,
               decision, review, due, lastKind, passedOver, boot, lakeReady,
               executed, cooling, evidence>>

operator == <<stopped, queued, queuedSoFar>>
reviews == <<review, due, lastKind, passedOver>>
lake == <<boot, lakeReady>>
placed == <<executed, cooling, evidence>>

\* One more event from outside the loop.
Outside ==
  /\ cycleEvents < Events
  /\ cycleEvents' = cycleEvents + 1

CycleInit ==
  /\ loop = "wait" /\ stopped = FALSE /\ queued = 0 /\ queuedSoFar = 0
  /\ fingerprint = (CHOOSE m \in Fingerprint: TRUE) /\ cycleEvents = 0
  /\ advice = "nobody" /\ decision = NoDecision
  /\ review = NoReview /\ due = Kind /\ lastKind = "none"
  /\ passedOver = [k \in Kind |-> 0]
  /\ \E needed \in BOOLEAN:
       /\ boot = [task |-> IF needed THEN "running" ELSE "none", owed |-> FALSE, retry |-> FALSE]
       /\ lakeReady = ~needed
  /\ executed = [o \in 1..Overrides |-> 0] /\ cooling = {}
  /\ evidence = [rev |-> "none", by |-> {}]

(* ---------------------------------------------------------------------- *)
(* Execution, by the loop only                                            *)

\* observe_intent: another fingerprint starts a fresh window.
Observed(rev, by) ==
  IF evidence.rev = rev THEN [evidence EXCEPT !.by = @ \cup {by}]
  ELSE [rev |-> rev, by |-> {by}]

\* A gate refuses, the intent is still leased, or the order is filled; a fill
\* clears whatever override is pending.
ExecuteIfWarranted(d, rev) ==
  \/ UNCHANGED <<queued, placed>>
  \/ /\ d.override # 0 /\ d.override \notin cooling
     /\ executed' = [executed EXCEPT ![d.override] = @ + 1]
     /\ cooling' = cooling \cup {d.override}
     /\ queued' = 0
     /\ UNCHANGED evidence
  \/ /\ d.override = 0 /\ d # NoDecision
     /\ evidence' = Observed(rev, d.by)
     /\ UNCHANGED <<queued, executed, cooling>>
  \/ /\ d.override = 0 /\ d # NoDecision
     /\ queued' = 0
     /\ UNCHANGED placed

\* decide looks for an override first.
Decided(by) == IF queued # 0 THEN [override |-> queued, by |-> "operator"]
               ELSE [override |-> 0, by |-> by]

\* degraded_live_execution_reason: too few answers, too much risk or too little
\* agreement hold a decision back, unless it is the operator's.
Held == IF queued = 0 THEN {NoDecision} ELSE {}

(* ---------------------------------------------------------------------- *)
(* The loop                                                               *)

\* mutant: a bootstrap that failed is reaped and forgotten
BootstrappedOnce ==
  LET reaped == IF boot.task \in {"finished", "failed"} THEN [boot EXCEPT !.task = "none"]
                ELSE boot
  IN reaped

\* A finished bootstrap is reaped, and one that is owed is started again
\* once its retry delay has passed.
Bootstrapped ==
  LET reaped == CASE boot.task = "finished" -> [boot EXCEPT !.task = "none"]
                  [] boot.task = "failed" -> [boot EXCEPT !.task = "none", !.owed = TRUE]
                  [] OTHER -> boot
  IN IF reaped.task = "none" /\ reaped.owed /\ reaped.retry
     THEN [task |-> "running", owed |-> FALSE, retry |-> FALSE]
     ELSE reaped

\* The review that is ready comes first, then a request or the tick.
WakeLoop ==
  /\ loop = "wait" /\ review.stage \notin {"ready", "failed"}
  /\ boot' = Bootstrapped
  /\ loop' = IF stopped THEN "wait" ELSE "fetch"
  /\ UNCHANGED <<stopped, queued, queuedSoFar, fingerprint, cycleEvents, advice, decision, reviews,
                 lakeReady, placed>>

\* Without a fresh snapshot the evaluation ends before any advice is sought.
NoFreshMarket ==
  /\ loop = "fetch"
  /\ loop' = "review"
  /\ UNCHANGED <<operator, fingerprint, cycleEvents, advice, decision, reviews, lake, placed>>

\* The LLM is consulted, or quant decides and the round that refreshes its
\* overlay runs in the background.
Consult ==
  /\ loop = "fetch"
  /\ advice' = fingerprint
  /\ loop' = "decide"
  /\ UNCHANGED <<operator, fingerprint, cycleEvents, decision, reviews, lake, placed>>

DecideTrade ==
  /\ loop = "decide"
  /\ decision' \in {Decided(advice)} \cup Held
  /\ advice' = "nobody"
  /\ loop' = "execute"
  /\ UNCHANGED <<operator, fingerprint, cycleEvents, reviews, lake, placed>>

\* The fingerprint is asked for again, at the moment of the execution.
Execute ==
  /\ loop = "execute"
  /\ ExecuteIfWarranted(decision, fingerprint)
  /\ decision' = NoDecision
  /\ loop' = "review"
  /\ UNCHANGED <<stopped, queuedSoFar, fingerprint, cycleEvents, advice, reviews, lake>>

\* mutant: discovery first whenever it is due
NextReviewDiscovery == IF "discovery" \in due THEN {"discovery"} ELSE due

\* Of two reviews that are due the one started longer ago comes first.
NextReview ==
  IF due = Kind THEN IF lastKind = "discovery" THEN {"pruning"} ELSE {"discovery"}
  ELSE due

StartReview ==
  /\ loop = "review" /\ review = NoReview /\ due # {}
  /\ \E k \in NextReview:
       /\ review' = [stage |-> "starting", kind |-> k, fingerprint |-> fingerprint,
                     plan |-> NoDecision]
       /\ due' = due \ {k}
       /\ lastKind' = k
       /\ passedOver' = [j \in Kind |-> IF j # k /\ j \in due THEN passedOver[j] + 1 ELSE 0]
  /\ loop' = "wait"
  /\ UNCHANGED <<operator, fingerprint, cycleEvents, advice, decision, lake, placed>>

SkipReview ==
  /\ loop = "review" /\ (review # NoReview \/ due = {})
  /\ loop' = "wait"
  /\ UNCHANGED <<operator, fingerprint, cycleEvents, advice, decision, reviews, lake, placed>>

\* complete_maintenance_review: the plan is dropped after a pause, an override
\* or a change of the model.
CompleteReview ==
  /\ loop = "wait" /\ review.stage \in {"ready", "failed"}
  /\ IF /\ review.stage = "ready"
        /\ ~stopped /\ queued = 0 /\ review.fingerprint = fingerprint
     THEN ExecuteIfWarranted(review.plan, review.fingerprint)
     ELSE UNCHANGED <<queued, placed>>
  /\ review' = NoReview
  /\ UNCHANGED <<loop, stopped, queuedSoFar, fingerprint, cycleEvents, advice, decision, due,
                 lastKind, passedOver, lake>>

(* ---------------------------------------------------------------------- *)
(* The tasks                                                              *)

\* The review looks for an override once, before it gathers the markets; decide
\* looks again when it judges a candidate.
BeginReview ==
  /\ review.stage = "starting"
  /\ review' = [review EXCEPT !.stage = IF queued = 0 THEN "planning" ELSE "ready"]
  /\ UNCHANGED <<loop, operator, fingerprint, cycleEvents, advice, decision, due, lastKind,
                 passedOver, lake, placed>>

\* The best candidate among those judged, when it buys (discovery) or sells
\* (pruning) and scores above the threshold; otherwise no plan.
DiscoveryPlans == {NoDecision, Decided(fingerprint)}
PruningPlans == {NoDecision, Decided(fingerprint)}
Plans(k) == IF k = "discovery" THEN DiscoveryPlans ELSE PruningPlans

PlanReview ==
  /\ review.stage = "planning"
  /\ \E plan \in Plans(review.kind):
       review' = [review EXCEPT !.stage = "ready", !.plan = plan]
  /\ UNCHANGED <<loop, operator, fingerprint, cycleEvents, advice, decision, due, lastKind, passedOver,
                 lake, placed>>

ReviewPanics ==
  /\ Outside
  /\ review.stage = "planning"
  /\ review' = [review EXCEPT !.stage = "failed"]
  /\ UNCHANGED <<loop, operator, fingerprint, advice, decision, due, lastKind, passedOver,
                 lake, placed>>

BootstrapEnds ==
  /\ boot.task = "running"
  /\ \/ /\ boot' = [boot EXCEPT !.task = "finished"]
        /\ lakeReady' = TRUE
        /\ UNCHANGED cycleEvents
     \/ /\ Outside
        /\ boot' = [boot EXCEPT !.task = "failed"]
        /\ UNCHANGED lakeReady
  /\ UNCHANGED <<loop, operator, fingerprint, advice, decision, reviews, placed>>

RetryDelayPasses ==
  /\ ~boot.retry
  /\ boot' = [boot EXCEPT !.retry = TRUE]
  /\ UNCHANGED <<loop, operator, fingerprint, cycleEvents, advice, decision, reviews, lakeReady, placed>>

(* ---------------------------------------------------------------------- *)
(* Operator, models and time                                              *)

PauseOrResume ==
  /\ Outside
  /\ stopped' = ~stopped
  /\ UNCHANGED <<loop, queued, queuedSoFar, fingerprint, advice, decision, reviews,
                 lake, placed>>

QueueOverride ==
  /\ Outside
  /\ queuedSoFar < Overrides
  /\ queued' = queuedSoFar + 1 /\ queuedSoFar' = queuedSoFar + 1
  /\ UNCHANGED <<loop, stopped, fingerprint, advice, decision, reviews, lake,
                 placed>>

\* A promotion or a rollback of the model.
SwapModel ==
  /\ Outside
  /\ fingerprint' \in Fingerprint \ {fingerprint}
  /\ UNCHANGED <<loop, operator, advice, decision, reviews, lake, placed>>

IntervalPasses ==
  /\ \E k \in Kind \ due: due' = due \cup {k}
  /\ UNCHANGED <<loop, operator, fingerprint, cycleEvents, advice, decision, review, lastKind, passedOver,
                 lake, placed>>

\* The lease and the cooldown of an executed intent end.
CooldownPasses ==
  /\ Outside
  /\ cooling # {} /\ cooling' = {}
  /\ UNCHANGED <<loop, operator, fingerprint, advice, decision, reviews, lake,
                 executed, evidence>>

CycleNext ==
  \/ WakeLoop \/ NoFreshMarket \/ Consult \/ DecideTrade \/ Execute \/ StartReview \/ SkipReview
  \/ CompleteReview
  \/ BeginReview \/ PlanReview \/ ReviewPanics \/ BootstrapEnds \/ RetryDelayPasses
  \/ PauseOrResume \/ QueueOverride \/ SwapModel
  \/ IntervalPasses \/ CooldownPasses

CycleSpec == CycleInit /\ [][CycleNext]_cyclevars

(* ---------------------------------------------------------------------- *)
(* Properties                                                             *)

\* "Oldest due review wins, so neither kind monopolises the single worker"
\* (trading/mod.rs:661): a review that is due is passed over once at most,
\* whatever the intervals and however long the other kind takes.
ReviewsTakeTurns == \A k \in Kind: passedOver[k] <= 1

\* Until the data lake is filled its bootstrap is running, waiting to be
\* reaped, or owed: no failure, timeout or panic leaves the lake behind.
BootstrapKeepsTrying == lakeReady \/ boot.task # "none" \/ boot.owed

\* next_review alternates between discovery and pruning whenever both are due,
\* and the lake's bootstrap is running or owed until the lake is filled,
\* whatever fails, times out or panics.
TasksTakeTurns == ReviewsTakeTurns /\ BootstrapKeepsTrying
=============================================================================
