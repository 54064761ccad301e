# TLA+ verification of Gail

Gail is a Rust gateway between applications and many language-model providers.
Beside the request path it runs a trading bridge that places orders through
OctoBot, a trainer that turns recorded interactions into new local models, a
lifecycle for small numerical models (ELM), and workers that mirror
interactions into a spiking network (AARNN). Paths below are relative to
`src/src/`.

This directory models the parts whose correctness depends on interleavings,
dropped futures, failures, time-outs, crashes and limits. TLC checks each model
on small instances; TLAPS proves the safety properties of the passing runs for
every value of the constants (section 4 names the one part it does not reach). `PROJECT.json` maps every definition to the lines it models.

## 1. Inventory

### Serving

| Part | State | Operations | What is hard | Module |
|---|---|---|---|---|
| Load admission (`orchestration.rs` 316-427, 4937-5103, 5244-5493) | in-flight and waiting counts per candidate, load per host; a semaphore per workload class; a `Notify` | reserve, wait, release, guards' `Drop` | futures dropped at any `await`; lost wake-ups; limits of zero | `LoadAdmission` |
| Readiness (`orchestration.rs` 1759-1900) | cached snapshot, refresh flag, waiters | `readiness`, `refresh_readiness` | coalescing, a dropped probing call | `Readiness` |
| Metrics store (`metrics.rs`) | counters and buckets, a JSON file | recording operations, each with a save; restart | saves overtaking each other, torn files, partial counts | `MetricsStore` |
| Candidate selection (`orchestration.rs` 6041-6850) | none | ranked and adaptive selection, local fallback, round robin | families, duplicates, evictions at a wave's limit | `CandidateSelection`, `SelectionCases` |
| Orchestrated completion (`orchestration.rs` 2400-3290, 5105-5242) | attempted candidates, throttled families, results | waves, early and hard deadlines, judging | results out of order, deadlines that race answers, giving up too soon | `Orchestration` |
| Direct completion (`orchestration.rs` `direct_complete`) | one request | policy, permit, provider, record | limits of time on top of each other | `DirectCompletion` |
| Ollama adapter (`providers/ollama.rs`) | semaphore and cooldown per endpoint, inventory | complete, resolve a model, pull | endpoints saturated, slow, resting, under one deadline | `OllamaProvider` |
| OpenAI and Gemini adapters (`providers/openai.rs`, `gemini.rs`) | cached-content names | negotiate, poll, repost | few attempts shared by many kinds of retry | `HostedProvider` |
| Governance and front end (`governance.rs`, `app.rs`) | plan cache, assessment slots | guard, chat, audio, internal completions, assessments | two layers that check one exchange; re-entry; dropped handlers | `HttpFront` |
| Alexa skill (`alexa.rs`) | answers put aside, session attributes | ask, take up, stop | late answers, limits and expiry, interleaved sessions | `VoiceSkill` |
| Credential store (`model_credentials.rs`, `app.rs`) | encrypted file under a lock file | list, store, delete, resolve | several processes, a rotated key, a crash at the rename | `CredentialVault` |

### Learning

| Part | State | Operations | What is hard | Module |
|---|---|---|---|---|
| Model registry (`elm/mod.rs`, `elm/lifecycle.rs`) | an index file under a writer lock; a copy of it per process | publish, evaluate, promote, claim, roll back, refresh | several processes, revisions, idempotent rollback, failed saves | `ModelRegistry`, abstractly `RevisionedStore` |
| ELM training and use (`elm/worker.rs`, `elm/gates.rs`, `orchestration.rs` 1059-1386, 4554-4703, `elm/integrations/mirroring.rs`) | job files, failure counts, decisions under way | discover, train, finish; admit, claim, predict, undo | a crash between commits; a decision older than the registry | `ModelLifecycle` |
| Interaction ledger, mirror, admission (`llm_ledger.rs`, `mirror_worker.rs`, `provider_admission.rs`) | bounded queue; rows with schedules; verdicts | record, persist, mirror, compare, admit | full queue, repeated replays, a pointer that moves during a batch | `InteractionLedger` |
| Trainer (`trainer_worker.rs`, `training/`) | marker, snapshots, alias, pointer, spool | run, resume, promote, take back, rotate, prune | a crash between any two of the steps of a promotion | `TrainerPipeline` |
| AARNN bridge (`aarnn_bridge.rs`) | bus, shared session, promotion history | mirror, retry, invalidate, gate | single flight, a stale session, counted evidence | `AarnnBridge` |

### Trading

| Part | State | Operations | What is hard | Module |
|---|---|---|---|---|
| Trade execution (`trading/mod.rs`, `state.rs`, controls in `app.rs`) | leases, trade ring, pause, override, state file | evaluate, claim, submit, record, save, restore; pause, resume, override | ambiguous answers, crashes, concurrent saves of whole snapshots | `TradeExecution` |
| Order submission (`trading/octobot.rs` `place_order`) | preferred endpoint, baseline of the account | try, shrink, fall back, look for the order | what an answer allows to be tried next | `OrderSubmission` |
| Evaluation loop (`trading/mod.rs`, `review_worker.rs`, `qualification.rs`) | override, pause, review, bootstrap, evidence | tick, evaluate, review, bootstrap, qualify | two kinds of review, a bootstrap that fails or panics | `TradingCycle` |
| Quantitative controller (`trading/quant.rs`) | shadow ledger, arms, mode | resolve, retune, promote, demote, save, restore | a promotion whose save fails | `QuantMigration` |
| Auto-tuning (`trading/mod.rs` 3400-3900) | history of replays, a trial, size window | replay, propose, keep, revert | other writers of the same window | `BacktestTuning` |
| Edge and replay (`trading/quantitative/`, `outcomes.rs`) | forecasts, markouts, folds | label, gate; walk forward | overlap, look-ahead, off-by-one | `EdgeCalibration`, `NativeReplay` |
| Data lake (`trading/datalake.rs`) | file, cache, Postgres mirror, metadata | ingest, load, window, replay, bootstrap | reads merged into a cache that moved on | `MarketLake` |
| Venue scan (`trading/octobot.rs`) | cursor, strikes, blacklist, breaker | discover, choose, request, record | parallel requests, outages against missing data | `VenueScan` |
| OctoBot calls (`trading/octobot.rs`) | endpoints at rest, restarts | history, portfolio, logs, activation, backtest | a skipped call looks like an empty answer | `OctobotApi` |
| Issue and schema registries (`api_issues.rs`, `adaptive_schema.rs`) | issues, routes, hints, files, Postgres | observe, recover, throttled saves, restart | detached saves | `ApiRegistry` |

How the parts meet. A request enters through `app.rs` and the governance guard
(`HttpFront`), or from the Alexa skill (`VoiceSkill`), and reaches
`complete_inner` (`Orchestration`) or `direct_complete` (`DirectCompletion`).
The first ranks candidates by the metrics (`MetricsStore`), chooses waves
(`CandidateSelection`) and runs each candidate through `invoke_candidate`
(`LoadAdmission`); both end in an adapter (`OllamaProvider`, `HostedProvider`)
with a key of the `CredentialVault`, and their outcomes become rows of the
`InteractionLedger`, which the mirror worker replays through the `AarnnBridge`
and the `TrainerPipeline` turns into snapshots that serve later requests. The
`ModelLifecycle` gives small models an advisory vote in routing and mirroring.
The trading loop (`TradingCycle`) asks the same service for advice, or decides
by the `QuantMigration` controller, reads the market through `MarketLake`,
`VenueScan` and `OctobotApi`, and owns all orders (`TradeExecution`,
`OrderSubmission`); HTTP controls and workers share its state and its file.

Properties that make each part correct: a limit, a budget and a pool are never
exceeded, whatever is dropped; waiters are woken and probes coalesce; nothing
recorded is lost or counted twice; a request ends, tries what it can and blames
only who failed; what serves was qualified, by its own evidence, and one model
at a time; a failed or interrupted promotion leaves the previous one in force;
an order whose fate is unknown is not repeated and what an operator was told
stays true across a restart; evidence for a trading policy is neither counted
twice nor taken from the future.

## 2. The modules

Each component module declares its constants with named assumptions, its state,
one action per handler or step between two `await`s, and its properties.
`Mutant:` definitions are plausible mistakes; each one replaces the definition
that follows it to show that a property can fail. `MC*` modules and `.cfg`
files hold the instances (`Readiness` and `TradeExecution` need a `.cfg` only), `*Proofs` modules the theorems: one for each part of
the core (`LoadAdmissionProofs`, `ReadinessProofs`, `OrchestrationProofs`,
`TradeExecutionProofs`, `ModelLifecycleProofs`) and three for groups of smaller
parts (`LearningProofs`, `TradingProofs`, `EdgeProofs`).

Components that share no state the properties can tell apart are explored
together: a variable `part` says which one a behaviour runs, the others stay
where they began. The reachable states of such a sum are those of its parts
side by side, so nothing is gained or lost but the number of runs. `MCServing`
(for liveness), `MCServices` (for safety), `MCBridges` (adapters, AARNN bridge,
trainer, the trading bridge beside its orders), `MCLearning` (the ledger and
the ELM models) and `MCEdges` are sums and extend their parts, so that a
property of a part is one of the sum. Components that do interact extend each other too
(`ModelLifecycle` over `ModelRegistry`, `DirectCompletion` over both adapters,
`Orchestration` over `CandidateSelection`), and their steps are joint.

**LoadAdmission.** A task is one run of `invoke_candidate`; its program counter
is the `await` it stands at. `unwaited` and `released` stand between an unlock
and `notify_waiters`. `Abort` drops the future at any point of `AbortAt`: an
armed guard's `Drop` spawns a release (`dropLoad`, `dropWait`, then
`dropNotify`); at `UnguardedPoints` nothing is armed. `listening` and `woken`
are the enabled and fired `Notified` futures.

**Readiness.** Calls of `/readyz` and spawned refreshes over one cached
snapshot. The first call probes inside its own future; others register before
unlocking and wait. `DropAt` says where a client may disappear.

**MetricsStore.** Each recording operation changes the data under the inner
mutex and clones it (`Publish`); the save queues for the persist lock, writes a
temporary file and renames it, three steps that a dropped request may leave at
any point. `CrashRestart` loads the file, with or without the reset of a
serving process. A sum over profiles or tasks is the number of pairs
(`Tally`).

**CandidateSelection, SelectionCases, Orchestration.** The selection functions
are operators on sequences of candidates, best first. Their two loops are
recursive functions of the position: `Among` keeps what a filter admits, `Pass`
fills a wave under the limits on families and models. `Known` are the
candidates they are defined on, `Candidate` those of a request;
`SelectionCases` computes every selection over `Known`. `Orchestration` extends
them: `ranking` is any snapshot the ranking may produce; one action per
branch of an iteration of the loop, of `invoke_candidates` and of the judging.
The estimate that decides how many candidates are raced is any number up to
the wave.

**DirectCompletion, OllamaProvider, HostedProvider.** A request of
`direct_complete` runs one adapter; `DirectSpec` is the request over both, and
`MCBridges` runs it as a part. `Settle` is the provider's end of it: an answer
or a failure, with permit and reservation given back. `Close` comes after the
awaits that follow (the recovery, the mirrors, AARNN's admission): it records
the outcome and hands it on, and until then the client may leave
(`Disconnect`). `Hushed` requests, those of a governance assessment or under
suppressed learning, leave no row. Ollama tries its endpoints under one
deadline: a wait for a permit, a resolution of the model from the inventory, an
optional pull, the call; a timer is the action that spends ticks of a budget.
The hosted adapters post again with less (no cache key, less effort, another
token field, background), poll, replay and fall back. A model is its size.

**ModelRegistry, RevisionedStore, ModelLifecycle.** `file` is the index,
`view[p]` the copy of process p, and an operation of the registry takes the
writer lock, refreshes the copy if the file is further, decides, renames and
only then takes the new value over; `PersistFails` leaves either the old or the
new file behind. `RevisionedStore` is the promise: one value, each change one
revision further, each copy a committed one that never goes back.
`ModelLifecycle` adds the worker with its job files (a crash between any two
commits), requests that read a copy, are authorised from it, claim a canary
decision from a later one and predict, the rollback task after repeated
failures, the mirror's advisor and an operator.

**InteractionLedger.** Rows go through the bounded queue to the table; the
mirror worker takes a batch, replays each row, compares the active snapshot's
answer and marks; an admission verdict is two statements, and the pointer to
the active snapshot may move between them. A snapshot is worthy with
`MinSamples` samples of which `RateNum` in `RateDen` were useful
(`minimum_samples` and `minimum_useful_rate`, 20 and 0.75 in `gail.yaml`); the
averages of quality and similarity are a choice.

**TrainerPipeline.** Every `await` of the worker is a step: prepare, run
locally or through the Slurm spool (whose dispatcher is external), register,
switch the alias, publish the pointer, check the health, take back, mark the
rows, rotate, prune; a crash may come anywhere and the marker file leads the
restarted worker. Copying the alias back and restoring the pointer may each fail
in a rollback; the code logs it and goes on, and so does `RollBack`.

**AarnnBridge.** The bus with its permits, the session that exchanges share and
the rejection that drops it, retries, and the two windows of samples that gate
the promotion of AARNN's replies.

**TradeExecution.** `mem` and `disk` are the parts of `TradingState` that are
saved: leases, the trade ring and the pause. `override` is saved but never
restored. `op` is the execution owner, `api` an HTTP control or a worker that
saves the same state; `writer` is the snapshot being written under the save
lock. `orders` is OctoBot: an order is pending until `Settle`, at any later
time and whether or not Gail still waits. The read-only gates in front of the
claim are the choice `SkipTrade`.

**OrderSubmission.** One call of `place_order` after the other: the baseline,
each endpoint's answer (taken and named, taken and not named, refused, refused
after taking it, none), the smaller sale, and the search for what appeared
since the baseline while a rival uses the same account.

**TradingCycle, QuantMigration, BacktestTuning, EdgeCalibration,
NativeReplay.** The trading loop between its orders: which decision it acts on,
which of its tasks run, what the controller may do and on which evidence. A net
return is a loss, a hold or a gain; a statistic is the comparison it decides.
The operator may replace the tuned overrides by any pair of sizes, also an
inverted one (`OperatorTunes`). `origin` remembers where the overrides in force
come from: the exchange's minimum they have met, and whether an operator gave
them inverted. The forecasts and labels of the edge are sets of observations
(horizon, market, time, when seen, gain) that `Ledgered` cuts to the newest;
each market is quoted, or not, on its own, and a signal is recorded a delay
after its evaluation began, since the loop awaits OctoBot in between. The
markouts are a sequence.

**MarketLake, VenueScan, OctobotApi, ApiRegistry.** What the loop knows of the
market. A sample of the lake is its capture time. A scan's requests are flights
that end in data, no data, an outage or a panic, in any order. A call to
OctoBot yields what its parser may yield and teaches the registries, and
endpoints at rest are skipped. The registries are a version each, with the
saves that carry it.

**HttpFront, VoiceSkill, CredentialVault.** An exchange passes the guard, the
handler, the completion inside it and the guard again; a marker in the task
tells the layers apart. The skill's turns race the deadline of Alexa. The vault
is opened, changed and renamed under a lock by several processes and two keys.

## 3. What the runs show

| Run | Instance | Properties |
|---|---|---|
| `serving` | two invocations dropped where a guard is armed, three calls of `/readyz` and two refreshes, a request over two candidates, under fairness | `Accounting` the tracker counts what is held; `SingleRefresh`, `NoLostNotification`; `EveryCallEnds` every invocation, call and request ends |
| `services` | three invocations dropped anywhere, two recording requests and a crash, every selection over five candidates, a request over three | `NeverOversubscribed`; `CapacityIsSafe` host budgets, wake-ups, permits; `MetricsAreSound` whole files, exact counts; `WavesAreLawful` the selection functions and no second attempt; `ThrottledFamilyRests`, `ResponseIffUseful`, `BlamedForOwnFailure`, `GivesUpLast` |
| `trade_execution` | two intents, two orders, two events out of operator, saves and crash | `NoBlindRepeat`, `CooldownHolds`, `UnsettledIsLeased`, `PauseSurvives` |
| `learning` | two rows and two attempts; a worker, a server, a mirror and an operator, two models, one fault | `MirroredMeansDelivered`, `ReplaysBounded`, `AdmissionEarned`; `CanaryBudget`, `ServedWasQualified`, `OneInfluential`, `CompletedHasModel`, and the refinement `ImplementsStore` |
| `bridges` | two Ollama calls over two endpoints, one of them hushed, or one hosted call; three exchanges over one bus and four sessions; a trainer of three snapshots and one fault; the controller, the loop, the tuner, the edge over two markets, the replay | `OverByDeadline`, `ForgottenCacheTolerated`, `AnswersRecorded`; `NoSessionStampede`, `PromotionIsSustained`; `DeploymentIsSound`; `QuantIsDurable`, `TasksTakeTurns`, `TuningIsSound`, `EvidenceIsIndependent` |
| `edges` | two calls of `place_order`; two symbols of the lake; three listed markets; two exchanges; two voice sessions; two calls of the vault | `OneOrderPerCall`, `MarketIsSeenTruly`, `RegistriesAreTrue`, `FrontIsGoverned`, `VoiceIsTrue`, `NoSaveIsLost` |

`ImplementsStore` reads the registry as a `RevisionedStore`: the value is the
file, its revision the file's, the copies the processes' views, and a value
follows another when it keeps its records, its claims, its rollbacks and every
model that was rolled back (`Keeps`). Every step of every process, also one whose write
is reported as failed, is a commit, a refresh or a stutter.

Four of these properties join several statements. `AnswersRecorded`: an answer is
not empty, and the row says what the client was told, exactly once, while a
hushed request and one whose client left have none. `TuningIsSound`: whoever
tunes in whatever order, no size falls below the exchange's minimum that its
overrides have met, only an operator inverts a window, and a trial is judged
with its last validation run while the history has room after its start.
`EvidenceIsIndependent`: what the labels of a horizon forecast never overlaps,
what they measured does so in one market only for an observation that fell due
while its own evaluation ran; the positions of a symbol never overlap, at most
one training trade of a symbol is closed in the validation window, and no trade
is validated twice. `ThrottledFamilyRests` holds with the code's exemption of
Ollama and of candidates with an endpoint of their own; the documentation does
not know it, which `family_throttled` shows.

Six runs end in a violation, of a claim the repository makes. They are the
findings of `PROJECT.json`, each with the line that says otherwise:

- `load_leak`: a guard that is already releasing, or a reservation not yet
  guarded, leaks when its future is dropped (`orchestration.rs` 336, 408, 5018);
- `readiness_stuck`: a first `/readyz` call dropped during its probe leaves the
  refresh flag set, and every later call waits for ever (1795);
- `metrics_reorder`: two metrics saves can overtake each other between the two
  mutexes (`metrics.rs` 1518);
- `orchestration_left_behind`: a healthy candidate over the time budget is not
  tried when those within it are all in backoff (2708);
- `family_throttled`: a candidate with an endpoint of its own fails transiently
  and its family is not throttled for the request, as `src/README.md` 220 has it
  for every candidate (6872);
- `trade_override`: a pending override does not survive a restart
  (`trading/state.rs` 705).

### Behaviour met while modelling

True of the code; the properties above state what holds besides.

Serving:
- An abandoned request stays in the in-progress gauge until the next restart.
- A metrics save that fails while results are judged turns a useful answer into
  an error (`JudgeSaveFails`).
- Round robin reorders the ranking, but the adaptive selection sorts by
  estimate afterwards: the rotation decides between equal estimates only.
- A saturated workload pool is recorded as a failure of the provider, a lost
  reservation race is not (`RecordedHealth`).
- `direct_complete` does not consult `strict_no_downgrade`
  (`orchestration.rs` 2031, `src/README.md` 209).
- `src/README.md` 231 speaks of every LLM interaction in the ledger: a direct
  completion leaves no row when it is hushed (`orchestration.rs` 3895), failed before its provider, or lost its client between the provider's answer
  and the record (2031 to 2303).
- Ollama's cooldown is checked before the wait for the permit
  (`providers/ollama.rs` 270), so a call may start on an endpoint that has
  begun to rest.
- A comment of `app.rs` leaves the endpoint to the configured pool, while
  `build_completion_request` takes the base URL of a compatible profile.
- A plan is cached before the guard has checked the response it came with.
- `take_pending` of the Alexa skill drops an expired answer without aborting
  its task (`alexa.rs` 1125), which then works for nobody.

Learning:
- A decision is authorised from one copy of the registry and claimed from a
  later one: a model that became a canary meanwhile takes effect beyond the
  budget of `docs/operations/elm.md` 134. `CanaryBudget` bounds the claims; what
  a decision then influences is not in the model.
- A rollback whose copy of the alias or restored pointer fails is only logged
  (`trainer_worker.rs` 1203, 1768): alias and pointer may then disagree until
  the next promotion. `DeploymentIsSound` excepts interrupted promotions.
- A job left in `trained` or `evaluating` by a crash or an error of the registry
  is not queued again (`elm/worker.rs` 314).
- Failures are counted per task, so those of a replaced model count against its
  successor (`orchestration.rs` 1336).

Trading:
- The fill of any order clears the pending override, also one that arrived
  after that order was decided (`trading/mod.rs` 4651); an override to cancel
  or hold is never cleared and suppresses trading until a restart (1484); one
  whose submission was ambiguous is submitted again after its lease, which
  `NoBlindRepeat` allows.
- The cooldown reads the ring of recent trades; enough other trades push an
  equivalent one out. `CooldownHolds` states the exception.
- `docs/INFERENCE_TRADING_RELIABILITY.md` calls in-flight claims runtime-only;
  the code saves and restores them, and `UnsettledIsLeased` depends on it.
- A fill is credited to the model revision at execution, not at decision
  (1594, `docs/specifications/rust-native-elm-v1.0.md` 233).
- In primary the LLM is not consulted, so no paired sample is added; once the
  paired ones have left the ledger the controller is not taken back to shadow,
  whatever it loses (`Migrated`).
- A trial of the tuner whose start has left the capped history is never ended:
  `validation_runs` counts positions from the trial's start in a ring of 20
  (`trading/mod.rs` 3607, `state.rs` 561), so with the ring full no later run
  is counted, no further trial begins and tuning stops. `tests.rs` 803 expects
  a trial to complete; its history is not full. `TuningIsSound` excepts these.
- `trading_set_config` validates nothing (`app.rs` 1396): an operator's inverted
  window stays in force, and trades shrink as confidence grows
  (`decision.rs` 752). A reversal puts back the overrides from before the trial
  whole, and loses what the operator or the exchange stored meanwhile
  (`trading/mod.rs` 3655).
- `docs/quantitative-trading.md` 52 calls the observations of the edge
  non-overlapping. What they forecast is; but an observation is measured when
  its quote arrives, so labels of two markets may overlap in time, and in one
  market that of an observation due between the resolution (`mod.rs` 959) and
  the recording (1105) of one evaluation. A quote later than the grace still
  makes a label as long as it is the first resolution that sees one.
- A position of the replay is closed when its market is quoted again
  (`backtest.rs` 375), and the embargo is not tied to the holding horizon (100):
  a training trade may be closed at a price of the validation window. The
  purged, non-overlapping labels that
  `docs/specifications/rust-native-elm-v1.0.md` asks of walk-forward evaluation
  (221, 374) are a requirement still to be met here; `TradesStandAlone` states what holds.
- An order that was taken without an answer and appears later is claimed by the
  next call that gets no name (`octobot.rs` 2412, 1529); without a baseline of
  trades, any trade with an id is new (2417).
- The lake drops one of two samples of different symbols in one bucket when
  their histories are deduplicated together (`datalake.rs` 1216); a symbol that
  was loaded is not read again.
- Endpoints are remembered under a normalised path (`adaptive_schema.rs` 743),
  so a missing symbol rests the route for all; a resting portfolio endpoint
  reads as an empty portfolio (`octobot.rs` 667), and a resting `/trading` page
  makes activation ask for a restart although the pair is active (909).
- Retries of a scan's request go on although the breaker opened meanwhile
  (1950).
- Saves of the registries are detached writes in place; an older one may land
  last (`api_issues.rs` 566).

### Bounds

- Load: three tasks over two candidates of one host for safety, two for
  liveness: one holder, one waiter and one that is dropped are every role in
  the protocol. A limit of zero, an unlimited candidate, a budget reached
  exactly, one a candidate never fits and a pool of one permit are present.
- Readiness: one call that probes and two that wait, two refreshes, four
  probes: a snapshot expires and is replaced twice.
- Metrics: two requests and a crash; two profiles in `metrics_reorder`.
- Selection: every order of every subset of five candidates in three families,
  two pairs that share a family and one that shares a model, waves up to three.
- Requests: in `services` three candidates in one order, all health, budgets
  and answers; in `serving` and `orchestration_left_behind` also a cap.
- Trade: a lease and a cooldown of two instants, a clock of three, two orders,
  two endpoints, one reduced sale, a ring of one, two events.
- ELM: two models that compete for one task, a canary budget of one and a
  failure limit of one, so both are exhausted; one failed save or death.
- Learning: a queue of one and a batch of two, rows retried to their limit and
  beyond it by a lost mark; three snapshots so that one is rotated while
  another is pruned. `FewSamples` cuts the counts of samples at three, past the
  minimum of two and where two of three reach the rate of 2/3: one useless
  answer is forgiven and two are not, as 15 of 20 are at 0.75.
- ELM requests of one kind are interchangeable (`SymmetricRequests`).
- Bridges: deadlines of two ticks over endpoints with one permit; histories and
  windows of two to four entries, all filled and overwritten; a history of three
  replays that a trial outlives, horizons of one and two ticks in two markets
  quoted late or never, a holding that is longer than the embargo. `OneAdapter`
  leaves out the product of two adapters that share nothing.
- Edges: each module's instance is in `MCEdges`; limits of one permit, one plan,
  one answer put aside and two strikes are reached and passed.

`CHECK_DEADLOCK FALSE` appears in every run because each model ends: its
requests are answered, its bounds used up.

### Fairness

Only `serving` and `readiness_stuck` assume any: weak fairness of each task's
and each refresh's steps and of spawned releases. Tokio polls every ready task,
timers fire, and each provider call and probe has a time-out of its own, so no
step stays enabled for ever. Arrivals, drops and expiry are not fair. A request
of `Orchestration` is weakly fair as a whole; that its invocations end is what
`EveryInvocationEnds` shows in `LoadAdmission`. The other runs state safety.

## 4. What is proved

Every theorem is `Spec => []P` for the specification of a component
(`LoadSpec`, `MetricsSpec`, `ReadySpec`, `RequestSpec`, `DirectSpec`,
`BridgeSpec`, `LedgerSpec`, `TrainerSpec`, `CycleSpec`, `TuningSpec`,
`QuantSpec`, `LakeSpec`, `MetaSpec`, `ScanSpec`, `ApiSpec`, `RegistrySpec`,
`VaultSpec`, `OrderSpec`, `FrontSpec`, `VoiceSpec`, and `Spec` of
`TradeExecution` and `ModelLifecycle`) or, where a run's property joins several
parts, of a sum (`ServicesSpec`, `BridgesSpec`, `EdgesSpec`), or a refinement. It
holds for every value of the constants that satisfies the assumption named in
the component's module, which TLC evaluates in the runs. They ask that

- limits, windows and retries are numbers, the cap on unsaved changes not zero
  (`SchemaAssumption`), horizons not zero (`EdgeAssumption`);
- sets whose members a limit counts are finite, and those with a first or
  default member not empty (`ApiAssumption`, `VaultAssumption`);
- marks that are no data differ from data (`FileAssumption`, `MetaAssumption`);
- candidates of one model are of one family (`SelectionConstants`), a ranking
  lists a candidate once (`OrchestrationConstants`), the calls of the two
  adapters are disjoint (`DirectAssumption`), the fallback endpoints of Ollama
  form a sequence (`OllamaAssumption`), a list of markets names one once
  (`VenueAssumption`).

`OrderSubmission` asks nothing. A sum runs the same next-state relations on one
part, so the properties the theorems name are the ones the runs check.

- `LoadAdmissionProofs`: `TypeCorrect`; `Oversubscription`, by showing that the
  tasks that hold a reservation are no more than the tracker counts, which is
  under the limit when one is added; `ExactAccounting`, for drops at guarded
  points only, where each count equals the tasks that hold it plus the releases
  still to run. Cardinalities of sets of tasks change by one element per step,
  which the lemmas at the head of the module provide. `CapacitySafe` joins
  `QueueWakes`, `PoolsConserved` and `BudgetHolds`. Of the queue (`QueueInv`):
  a waiter's `Notified` is enabled or fired before it looks at the capacity,
  and while there is capacity for a sleeper somebody is about to notify. Of the
  budgets (`HostInv`): the units of the running invocations and of the releases
  to come are at most the host's counter, and that at most the largest budget;
  units are counted as pairs, so a sum is a cardinality. `MetricsSound`, of the
  metrics store (`MetricsInv`): memory, the file and every snapshot on its way
  are each `Kept`, their totals those of their parts, and `FlowAccounted` is
  kept beside it.
- `ReadinessProofs`: `ReadinessTypes`, `Coalesced`, `NotificationsArrive`. The
  flag is up while someone probes and only a refresh that is about to notify
  lowers it; a waiter registers under the lock that shows the flag.
- `OrchestrationProofs`: `OrchestrationTypes`, `FamiliesRest`,
  `UsefulAnswerReturned`, `FairBlame`, `GiveUpIsLast`. The inductive invariant
  adds that families of finished waves rest (`Resting`), that results belong to
  attempted candidates and a useful one ends the request (`ResultsOfWaves`),
  that nothing selectable is left when it is judged without one
  (`NothingLeft`), and what the last step recorded (`LastStep`). `OneTryEach`
  and `WavesLawful` need what the selection computes. The induction theorems of
  the library take an operator; here the recursive functions are instead shown
  to exist with their equations from well-founded recursion (`Recursion`, over
  `UpTo`), and each loop gets an invariant as a set of positions that holds 0
  and is closed under the successor (`AmongRuns`, `PassRuns`, `PassedTo`). With
  it a wave is a sequence of distinct eligible candidates within its limit, a
  filled-up one still holds the local fallback (`EnsureShape`), a rotation is a
  permutation (`Turned`, `HealthyFirst`), and the length of an injective list
  is the cardinality of its range (`Counted`). `WavesInv` carries this through a
  request: every wave is an `IsWave` of candidates not yet attempted.
- `TradeExecutionProofs`: `TradeTypes`, `NeverBlind`, `LeaseIsDurable`,
  `PauseIsDurable`, `KeepsDistance`. None of the properties is inductive alone.
  `LockHeld` says whose snapshot is being written; `OwnLease` that the owner's
  claim is in memory, and in the file from the submission on; `OpenLeased` that the lease
  of every open order is in memory, in the file and in any snapshot on its way
  to it; `ClaimedAlone` that a claim is only made when no earlier lease of the
  intent runs; `PauseSpread` the same as `OpenLeased` for an acknowledged
  pause. The argument: a snapshot is taken under the save lock from memory, so
  whatever is in memory and in the file when it is taken is in it.
  `KeepsDistance` needs what the ring of trades remembers, and a second
  invariant over the first, `RingInv`: orders are claimed in their order and
  filled after their claim (`OrdersInv`); a row of any ledger is an accepted
  order, once, dated by its fill or by an acknowledgement before which no later
  order was claimed (`TradesInv`, `RowOK`); memory, file and snapshot each know
  a filled order by a row or by a lease until it would have run out
  (`MemoryInv`); `CoolInv` carries the distance from the claim to the post. A
  claim misses a row only when `RingSize` newer ones hide it (`Recent`), and a
  row is of one order, so the newer rows inject into the orders filled since.

- `ModelLifecycleProofs`: `TypeCorrect`, `CanaryWithinBudget`,
  `ServesQualified`, `OneModelInfluences`, `CompletedJobsHaveModels`,
  `RegistryImplementsStore`. What every committed index satisfies is `Sound`: a
  serving record passed its evaluation, a canary or active one is the champion,
  and no record has more claims than the budget. One lemma per operation under
  the writer lock (`Published`, `Promoted`, `RolledBack`, `ClaimedAdvances`)
  shows that it leads from a sound index to a sound one, one revision further,
  that keeps what was recorded. `Moves` says what a step does to file and
  copies: nothing, a copy catches up, or one process commits. From it follow
  the refinement and `CopyOK`, that a copy is a sound earlier value. The rest
  of the invariant ties the job files to the registry: no record exists of a
  model still to be published (`FreshInv`), and one on its way to shadow passed
  its evaluation, whatever a rollback does meanwhile (`MarkedInv`).
- `LearningProofs`: `BridgeTypes`, `NoStampede`, `Sustains`, `LedgerTypes`,
  `MirroredDelivered`, `BoundedReplays`, `EarnedAdmission`, `TrainerTypes`,
  `DeploymentSound`. Of the bridge: all
  sessions but the live one in the slot have ended, and nothing is live while
  somebody asks for one (`SessionInv`); the samples are at most four per judged
  exchange (`GateInv`). Of the ledger: the batch in the worker's hands knows
  which of its rows are still open, and the attempts of an open row lag its
  replays by the one under way and by what was lost in faults (`MirrorInv`);
  the useful answers of a verdict are covered by those counted for its very
  snapshot (`EarnedInv`). Of the trainer (`TrainerInv`): snapshots are made in
  order (`SnapshotsDated`); the marker names the one in hand until it is
  finished, and an error leads to its end (`SnapshotHeld`); a queued request of
  the spool waits for its result, and none is left queued when the worker goes
  on (`SpoolLawful`); the active and the previous snapshot keep artifacts and
  model (`BothKept`); outside the promotion's steps that move them, alias and
  pointer agree on a healthy snapshot unless a crash or a failure interrupted
  them (`ServedLawful`); and what a row can still be trained in, the snapshots it
  was promoted with, the one in hand and queued leftovers, is at most one more
  than what slipped (`RowsPaid`).
- `TradingProofs`: `TurnsAreTaken`, `SizesAreSafe`, `QuantTypes`,
  `PromotionIsDurable`, `EvidenceSound`, and of direct completion `DeadlineKept`,
  `CacheForgiven`, `DirectRecorded`. A kind of review passed over is still due and was not
  the last (`TurnInv`). The overrides in force, and those a reversal would bring back with
  their origin, respect the exchange's minimum and are inverted only by an
  operator (`TuneInv`): `SizesAreSafe` is the first conjunct of `TuningIsSound`,
  for every history, clamp and window. That trials are judged counts the places
  of a capped sequence and stays with TLC. Each controller that may come back, in memory,
  in the file or in the copy a failed save restores, counts an observation once
  (`EvidenceInv`), and one that is in primary is in the file, except between
  its promotion and the answer of the save, when nothing acts
  (`PromotionInv`). `EvidenceSound` rests on `EdgeInv` (a horizon's next forecast comes after
  the last one's end, and a due observation of a quoted market is resolved before
  the next is recorded) and on `ReplayInv` (the positions of a symbol, open and
  closed, lie one after the other). `DirectInv` of
  direct completion: a call on an endpoint ends before the completion's
  deadline, which only the shortest wait for a permit may pass, by a second
  (`Clocks`); a Gemini completion retried with a cached prompt is on the
  default model (`Forgiving`); and what is recorded is a function of where
  the request stands (`RequestStands`).
- `EdgeProofs`: `VaultTypes`, `AcknowledgedStays`, `OneOrderReaches`, `Governs`,
  `AnswersAreTrue`, `RegistriesTrue`; `MarketSeen`, which joins `NewestStays`,
  `FramesLookBack`, `LakeFilled`, `ScanLawful`, `FallbackHonest` and
  `RestartsSpaced`. The vault: the lock names exactly the calls past it
  (`LocksInv`), what a writer has read is still the file (`CallInv`), and only
  a rename not yet acknowledged sets the file apart from what callers were told
  (`FileInv`). An order: none of the calls to come has one, none has two, and a
  call that may still post has none (`VenueInv`); the case for each answer of an
  endpoint is a lemma. An exchange: which checks were asked, allowed and
  counted is a function of where it stands (`ExchangeOK`), and the permits are
  conserved because a step changes the holders by one (`OneMore`). A voice
  session: whose task is in whose hands, with which conversation
  (`SessionOK`, `AskOK`); each way of letting tasks go is one lemma about
  `LetGo`, so the handlers share their proofs. The registries: an issue is active
  iff it was last seen failing, each change was handed to a save and fewer than
  `MaxDirty` were not; with the types this is inductive (`RegistryInv`). The
  lake (`LakeInv`): one sample per bucket, and the bucket of a merged sample
  holds one as late while it is within the horizon. A sample merged long ago
  promises nothing: pruned with its bucket, it may be followed by a late older
  one. The metadata (`MetaInv`): a mark of this build was set by a bootstrap
  that read all. A scan (`ScanInv`): a symbol is in one flight or once in the
  queue, none at rest is asked, and the breaker counts no more failures than the
  streak has. OctoBot's answers: what is answered was read (`AnswerLawful`), and a
  restart is dated when it is posted (`RestartLawful`).

Only model-checked: the liveness property `EveryCallEnds`, since fairness and
`ENABLED` are outside the prover's reach, and of `TuningIsSound` the judgement of
trials (`TrialsAreJudged`). Every other property of a passing run is stated by a
theorem. The findings are violations and need none.

## 5. Not modelled

The components with status `not_modelled` in `PROJECT.json` give the reason
each: decisions, research and statistics are floating point without
concurrency, discovery and specialists are probes that feed an input of the
models, prompts, rendering and configuration are text. Within the modelled
parts: scores, estimates and latencies (any order and any health is tried
instead); the fitting of models (its verdict is a choice); contents of
messages, streams and tool calls; the training observations of the metrics
file; governance's chain cache, its counters and the flattening of content;
texts and counts of the two registries; response shapes learned by the adaptive
schema; verification of Alexa's signatures (its outcome is a choice);
authentication and the read-only routes; what external programs compute
(OctoBot, Ollama, AARNN, the Slurm dispatcher, Postgres, Aria).

## 6. Plan

1. Abstract specifications: at most one open order per intent and lease,
   implemented by `TradeExecution`; a counting semaphore, implemented by
   `LoadAdmission` under drops at guarded points.
2. `TradingCycle` composed with `TradeExecution` in place of `SkipTrade`, and
   the telemetry cache of provider discovery in front of the ranking.
3. The theorems of the parts lifted to the sums `ServingSpec`, `ServicesSpec`,
   `BridgesSpec` and `EdgesSpec`, as was done where a property joins parts.
