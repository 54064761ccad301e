---------------------------- MODULE ModelLifecycle ---------------------------
(***************************************************************************)
(* The processes around the model registry: the training worker with its   *)
(* durable job files (src/elm/worker.rs), the serving processes whose      *)
(* requests consult the champion (src/elm/gates.rs, elm_advisory and       *)
(* routing_elm_score of src/orchestration.rs), the mirror worker's         *)
(* advisor (src/elm/integrations/mirroring.rs) and the operator's          *)
(* gail-elm-admin. Training, evidence and inference are choices; what is   *)
(* kept is who reads which copy of the registry when.                      *)
(***************************************************************************)
EXTENDS ModelRegistry

CONSTANTS
  Dataset,      \* [Models -> dataset of the job that trains the model]
  Gates,        \* evidence gates of the promotion policy
  Worker,       \* the training worker
  Servers,      \* serving processes
  Mirrors,      \* processes with a MirrorPriorityAdvisor
  Requests,     \* decisions to be taken, by a serving or a mirror process
  KeyOf,        \* [Models -> Keys]: "inference-failure:<task>:<digest>"
  AdminKey,
  Seeded,       \* a model that an earlier run left in shadow, or NoModel
  RetryLimit,
  FailureLimit, \* 3 in record_elm_inference_result
  MaxFaults     \* bound: failed writes and crashes

ASSUME LifecycleAssumption ==
  /\ Processes = Servers \cup Mirrors \cup {Worker}
  /\ KeyOf \in [Models -> Keys] /\ AdminKey \in Keys
  /\ Seeded \in (Models \ Fixtures) \cup {NoModel}
  /\ RetryLimit \in Nat /\ FailureLimit \in Nat \ {0} /\ MaxFaults \in Nat

VARIABLES
  job,          \* job files: [Models -> [state, retries]]
  training,       \* [pc, m]: the worker's step and the job it holds
  failing,      \* [Models -> SUBSET Gates]: evidence gates the evaluation failed
  decision,     \* [Requests -> [pc, p, m]]: step, process, model
  failures,     \* [Servers -> Nat]: inference_failures of the task
  undo,         \* [Servers -> SUBSET [pc, m]]: the spawned rollback tasks
  enabled,      \* the worker's configuration permits the task
  faults,       \* failed writes and crashes so far
  claims        \* history: [Models -> Nat] claims that were granted

vars == <<file, view, job, training, failing, decision, failures, undo, faults,
          enabled, claims>>

jobVars == <<job, training, failing, enabled>>
servingVars == <<decision, failures, undo, claims>>

JobStates == {"none", "queued", "running", "trained", "evaluating", "completed",
              "failed", "cancelled"}
WorkerSteps == {"refresh", "advance", "scan", "fit", "written", "evaluate", "publish",
                "mark", "qualify", "shadow", "finish"}
UndoTask == [pc : {"check", "commit"}, m : Models]

TypeOK ==
  /\ file \in RegistryFile /\ view \in [Processes -> RegistryFile]
  /\ job \in [Models -> [state : JobStates, retries : 0 .. RetryLimit + 1]]
  /\ training \in [pc : WorkerSteps, m : Models \cup {NoModel}]
  /\ failing \in [Models -> SUBSET Gates]
  /\ decision \in [Requests -> [pc : {"new", "admitted", "claiming", "predict", "done"},
                                p : Processes, m : Models \cup {NoModel}]]
  /\ failures \in [Servers -> 0 .. FailureLimit - 1]
  /\ undo \in [Servers -> SUBSET UndoTask] /\ enabled \in BOOLEAN
  /\ faults \in 0 .. MaxFaults
  /\ claims \in [Models -> Nat]

\* The index at start: empty, or what training of one qualified model left behind.
FirstFile ==
  IF Seeded = NoModel THEN EmptyFile
  ELSE Promoted(Promoted(Promoted(Published(EmptyFile, Seeded), Seeded, "evaluated"),
                         Seeded, "qualified"), Seeded, "shadow")

Init ==
  /\ file = FirstFile /\ view = [p \in Processes |-> FirstFile]
  /\ job = [m \in Models |->
       [state |-> IF m = Seeded THEN "completed" ELSE "none", retries |-> 0]]
  /\ training = [pc |-> "refresh", m |-> NoModel]
  /\ failing = [m \in Models |-> {}]
  /\ decision = [r \in Requests |-> [pc |-> "new", p |-> Worker, m |-> NoModel]]
  /\ failures = [s \in Servers |-> 0]
  /\ undo = [s \in Servers |-> {}]
  /\ enabled \in BOOLEAN
  /\ faults = 0
  /\ claims = [m \in Models |-> 0]

Fault == faults < MaxFaults /\ faults' = faults + 1
NoFault == UNCHANGED faults

\* evaluate_qualification: every evidence gate holds and the data are no fixture.
Qualifies(m) == failing[m] = {} /\ m \notin Fixtures

-----------------------------------------------------------------------------
(* The worker: each round refreshes, advances a shadow champion to canary, *)
(* discovers the automatic job and processes one job.                      *)

GoOn(pc) == training' = [training EXCEPT !.pc = pc]
NextRound == training' = [pc |-> "refresh", m |-> NoModel]

\* write_job: the file is replaced by rename, or the round ends with an error.
WriteJob(m, state, pc) ==
  \/ /\ job' = [job EXCEPT ![m].state = state]
     /\ training' = [pc |-> pc, m |-> IF pc = "refresh" THEN NoModel ELSE m]
     /\ NoFault
  \/ Fault /\ NextRound /\ UNCHANGED job

WorkerRefresh ==
  /\ training.pc = "refresh"
  /\ Refresh(Worker) /\ GoOn("advance")
  /\ UNCHANGED <<job, failing, enabled, faults>> /\ UNCHANGED servingVars

\* advance_shadow_models_to_canary, for the one record that can pass its tests:
\* the shadow champion, qualified by its stored report, under budget. The dwell
\* time may or may not have passed.
MayAdvance(m) ==
  /\ view[Worker].stage[m] = "shadow" /\ Serving(Worker) = m
  /\ view[Worker].used[m] < MaxCanary /\ Qualifies(m) /\ enabled

AdvanceToCanary ==
  /\ training.pc = "advance" /\ GoOn("scan")
  /\ UNCHANGED <<job, failing, enabled>> /\ UNCHANGED servingVars
  /\ \/ UNCHANGED <<file, view, faults>>
     \/ \E m \in Models :
          /\ MayAdvance(m)
          /\ \/ Conflict(Worker) /\ Leave(Worker) /\ NoFault
             \/ ~Conflict(Worker) /\ Promotable(file, m, "canary")
                /\ Persist(Worker, Promoted(file, m, "canary")) /\ NoFault
             \/ ~Conflict(Worker) /\ PersistFails(Worker, Promoted(file, m, "canary")) /\ Fault

\* discover_automatic_job, or an operator's new_job: a job file that did not exist.
DiscoverJob(m) ==
  /\ training.pc = "scan" /\ training.m = NoModel /\ job[m].state = "none"
  /\ job' = [job EXCEPT ![m].state = "queued"]
  /\ UNCHANGED <<training, failing, enabled, faults>> /\ UNCHANGED registryVars
  /\ UNCHANGED servingVars

\* process_next_job: a job found running was interrupted and is queued again first.
Waiting == {m \in Models : job[m].state \in {"queued", "running"}}

RequeueJob(m) ==
  /\ training.pc = "scan" /\ training.m = NoModel /\ job[m].state = "running"
  /\ WriteJob(m, "queued", "scan")
  /\ UNCHANGED <<failing, enabled>> /\ UNCHANGED registryVars /\ UNCHANGED servingVars

Taken(m) == training.pc = "scan" /\ training.m \in {m, NoModel} /\ job[m].state = "queued"

NothingToDo ==
  /\ training.pc = "scan" /\ Waiting = {} /\ NextRound
  /\ UNCHANGED <<job, failing, enabled, faults>> /\ UNCHANGED registryVars /\ UNCHANGED servingVars

\* The task was disabled in the configuration: the job is cancelled.
CancelJob(m) ==
  /\ Taken(m) /\ ~enabled
  /\ WriteJob(m, "cancelled", "refresh")
  /\ UNCHANGED <<failing, enabled>> /\ UNCHANGED registryVars /\ UNCHANGED servingVars

AlreadyEvaluated(m) ==
  LET n == NewestOf(view[Worker], {x \in Models : Dataset[x] = Dataset[m]})
  IN  n # NoModel /\ view[Worker].stage[n] \in ServingStages \cup {"evaluated"}

\* A queued job is completed at once when its dataset has been evaluated.
StartJob(m) ==
  /\ Taken(m) /\ enabled
  /\ IF AlreadyEvaluated(m) THEN WriteJob(m, "completed", "refresh")
                            ELSE WriteJob(m, "running", "fit")
  /\ UNCHANGED <<failing, enabled>> /\ UNCHANGED registryVars /\ UNCHANGED servingVars

\* train_and_evaluate: any of the evidence gates may turn out to fail.
Evaluations == SUBSET Gates

\* It succeeds; the job is written as trained, and then as evaluating.
FitSucceeds ==
  /\ training.pc = "fit"
  /\ \E gates \in Evaluations : failing' = [failing EXCEPT ![training.m] = gates]
  /\ WriteJob(training.m, "trained", "written")
  /\ UNCHANGED enabled /\ UNCHANGED registryVars /\ UNCHANGED servingVars

WriteEvaluating ==
  /\ training.pc = "written"
  /\ WriteJob(training.m, "evaluating", "evaluate")
  /\ UNCHANGED <<failing, enabled>> /\ UNCHANGED registryVars /\ UNCHANGED servingVars

FitFails ==
  /\ training.pc = "fit" /\ UNCHANGED <<failing, enabled>>
  /\ LET n == job[training.m].retries + 1 IN
     \/ /\ job' = [job EXCEPT ![training.m] =
                     [state |-> IF n > RetryLimit THEN "failed" ELSE "queued", retries |-> n]]
        /\ NoFault
     \/ Fault /\ UNCHANGED job
  /\ NextRound /\ UNCHANGED registryVars /\ UNCHANGED servingVars

\* The refresh before finish_success.
EvaluateRefresh ==
  /\ training.pc = "evaluate" /\ Refresh(Worker) /\ GoOn("publish")
  /\ UNCHANGED <<job, failing, enabled, faults>> /\ UNCHANGED servingVars

\* One registry operation of finish_success: with a conflict or an error the
\* round ends there and the job file stays in evaluating.
\* Mutant: an error of the registry does not end the round.
FinishStepIgnoring(pc, legal, next, then) ==
  /\ training.pc = pc
  /\ UNCHANGED <<job, failing, enabled>> /\ UNCHANGED servingVars
  /\ \/ ~Conflict(Worker) /\ legal /\ Persist(Worker, next) /\ GoOn(then) /\ NoFault
     \/ (Conflict(Worker) \/ ~legal) /\ Leave(Worker) /\ GoOn("finish") /\ NoFault

FinishStep(pc, legal, next, then) ==
  /\ training.pc = pc
  /\ UNCHANGED <<job, failing, enabled>> /\ UNCHANGED servingVars
  /\ \/ ~Conflict(Worker) /\ legal /\ Persist(Worker, next) /\ GoOn(then) /\ NoFault
     \/ ~Conflict(Worker) /\ legal /\ PersistFails(Worker, next) /\ NextRound /\ Fault
     \/ (Conflict(Worker) \/ ~legal) /\ Leave(Worker) /\ NextRound /\ NoFault

PublishCandidate ==
  FinishStep("publish", TRUE, Published(file, training.m), "mark")

\* store_evaluation and mark_evaluated.
\* Mutant: the report is stored, and its verdict is not asked.
MarkEvaluatedUnread ==
  FinishStep("mark", Promotable(file, training.m, "evaluated"),
             Promoted(file, training.m, "evaluated"), "qualify")

MarkEvaluated ==
  FinishStep("mark", Promotable(file, training.m, "evaluated"),
             Promoted(file, training.m, "evaluated"),
             IF Qualifies(training.m) THEN "qualify" ELSE "finish")

PromoteQualified ==
  FinishStep("qualify", Promotable(file, training.m, "qualified"),
             Promoted(file, training.m, "qualified"), "shadow")

PromoteShadow ==
  FinishStep("shadow", Promotable(file, training.m, "shadow"),
             Promoted(file, training.m, "shadow"), "finish")

CompleteJob ==
  /\ training.pc = "finish"
  /\ WriteJob(training.m, "completed", "refresh")
  /\ UNCHANGED <<failing, enabled>> /\ UNCHANGED registryVars /\ UNCHANGED servingVars

\* The worker's process dies and starts again.
WorkerCrash ==
  /\ Fault /\ Open(Worker) /\ NextRound
  /\ UNCHANGED <<job, failing, enabled>> /\ UNCHANGED servingVars

WorkerNext ==
  \/ WorkerRefresh \/ AdvanceToCanary \/ NothingToDo \/ FitSucceeds \/ FitFails
  \/ WriteEvaluating \/ EvaluateRefresh \/ PublishCandidate \/ MarkEvaluated
  \/ PromoteQualified \/ PromoteShadow \/ CompleteJob
  \/ \E m \in Models : DiscoverJob(m) \/ RequeueJob(m) \/ CancelJob(m) \/ StartJob(m)

-----------------------------------------------------------------------------
(* A decision of a serving process.                                        *)

Move(r, d) == decision' = [decision EXCEPT ![r] = d]
Finished == [pc |-> "done", p |-> Worker, m |-> NoModel]

\* admit: the champion of the process's copy, unless its canary budget is used
\* up or one of the gates on mode, input, schema and rollout refuses.
Admit(r) ==
  \E p \in Servers \cup Mirrors : LET m == Serving(p) IN
  /\ decision[r].pc = "new"
  /\ \/ Move(r, Finished)
     \/ /\ m # NoModel
        /\ ~(view[p].stage[m] = "canary" /\ view[p].used[m] >= MaxCanary)
        /\ Move(r, [pc |-> "admitted", p |-> p, m |-> m])
  /\ UNCHANGED <<failures, undo, claims, faults>>
  /\ UNCHANGED jobVars /\ UNCHANGED registryVars

\* claim_elm_canary_decision: outside canary nothing is claimed.
ReadStage(r) ==
  LET d == decision[r] IN
  /\ d.pc = "admitted" /\ d.p \in Servers
  /\ Move(r, [d EXCEPT !.pc = IF view[d.p].stage[d.m] = "canary"
                              THEN "claiming" ELSE "predict"])
  /\ UNCHANGED <<failures, undo, claims, faults>>
  /\ UNCHANGED jobVars /\ UNCHANGED registryVars

Claim(r) ==
  LET d == decision[r]  p == decision[r].p IN
  /\ d.pc = "claiming"
  /\ \/ /\ Claimable(file, d.m)
        /\ Persist(p, Claimed(file, d.m)) /\ NoFault
        /\ claims' = [claims EXCEPT ![d.m] = @ + 1]
        /\ Move(r, [d EXCEPT !.pc = "predict"])
     \/ /\ ~Claimable(file, d.m)
        /\ Leave(p) /\ NoFault /\ UNCHANGED claims /\ Move(r, Finished)
     \/ /\ Claimable(file, d.m)
        /\ PersistFails(p, Claimed(file, d.m)) /\ Fault
        /\ UNCHANGED claims /\ Move(r, Finished)
  /\ UNCHANGED <<failures, undo>> /\ UNCHANGED jobVars

\* The prediction is valid: record_elm_inference_result forgets the failures.
Predict(r) ==
  LET d == decision[r] IN
  /\ d.pc = "predict"
  /\ Move(r, Finished)
  /\ failures' = [failures EXCEPT ![d.p] = 0]
  /\ UNCHANGED <<undo, claims, faults>> /\ UNCHANGED jobVars /\ UNCHANGED registryVars

\* The proposal is out of domain or within its margin, or the queue of the executor is
\* full: the decision keeps its baseline, and neither a failure nor a success is counted.
Abstain(r) ==
  /\ decision[r].pc = "predict"
  /\ Move(r, Finished)
  /\ UNCHANGED <<failures, undo, claims, faults>>
  /\ UNCHANGED jobVars /\ UNCHANGED registryVars

\* It is invalid, late or an error: the failure is counted per task, and the
\* FailureLimit-th one in a row starts a rollback task.
PredictFails(r) ==
  LET d == decision[r]  s == decision[r].p IN
  /\ d.pc = "predict"
  /\ Move(r, Finished)
  /\ IF failures[s] + 1 >= FailureLimit
     THEN /\ undo' = [undo EXCEPT ![s] = @ \cup {[pc |-> "check", m |-> d.m]}]
          /\ failures' = [failures EXCEPT ![s] = 0]
     ELSE failures' = [failures EXCEPT ![s] = @ + 1] /\ UNCHANGED undo
  /\ UNCHANGED <<claims, faults>> /\ UNCHANGED jobVars /\ UNCHANGED registryVars

\* score_entry of the mirror's advisor: no claim, and the failures are not counted.
MirrorScore(r) ==
  LET d == decision[r] IN
  /\ d.pc = "admitted" /\ d.p \in Mirrors
  /\ Move(r, Finished)
  /\ UNCHANGED <<failures, undo, claims, faults>>
  /\ UNCHANGED jobVars /\ UNCHANGED registryVars

\* The rollback task: it checks that the champion is the model that failed and
\* may influence decisions, and then calls rollback_champion with the revision
\* its process has by then.
RollbackCheck(s) ==
  /\ \E u \in undo[s] :
       /\ u.pc = "check"
       /\ undo' = [undo EXCEPT ![s] = (@ \ {u}) \cup
            {x \in {[u EXCEPT !.pc = "commit"]} :
               Serving(s) = u.m /\ view[s].stage[u.m] \in {"active", "canary"}}]
  /\ UNCHANGED <<decision, failures, claims, faults>>
  /\ UNCHANGED jobVars /\ UNCHANGED registryVars

\* Mutant: neither the copy nor the revision is compared with the file.
RollbackOpStale(p, key) ==
  LET f == view[p] IN
  /\ f.rollbacks[key] = NoModel /\ CanRollBack(f)
  /\ Persist(p, RolledBack(f, key)) /\ NoFault

RollbackOp(p, key) ==
  LET f == Refreshed(p) IN
  \/ /\ f.rollbacks[key] # NoModel \/ Conflict(p) \/ ~CanRollBack(f)
     /\ Leave(p) /\ NoFault
  \/ /\ f.rollbacks[key] = NoModel /\ ~Conflict(p) /\ CanRollBack(f)
     /\ \/ Persist(p, RolledBack(f, key)) /\ NoFault
        \/ PersistFails(p, RolledBack(f, key)) /\ Fault

RollbackCommit(s) ==
  /\ \E u \in undo[s] :
       /\ u.pc = "commit"
       /\ undo' = [undo EXCEPT ![s] = @ \ {u}]
       /\ RollbackOp(s, KeyOf[u.m])
  /\ UNCHANGED <<decision, failures, claims>> /\ UNCHANGED jobVars

\* The background refresh of a serving process. The mirror's process has none.
ServerRefresh(s) ==
  /\ view[s] # file /\ Refresh(s)
  /\ UNCHANGED <<faults>> /\ UNCHANGED jobVars /\ UNCHANGED servingVars

Restart(p) ==
  /\ Open(p)
  /\ decision' = [r \in Requests |->
       IF decision[r].p = p THEN Finished ELSE decision[r]]
  /\ failures' = [s \in Servers |-> IF s = p THEN 0 ELSE failures[s]]
  /\ undo' = [s \in Servers |-> IF s = p THEN {} ELSE undo[s]]
  /\ UNCHANGED <<claims>> /\ UNCHANGED jobVars

\* A serving process dies with what it was doing; the mirror's process, which has no
\* refresh, is also started anew between its batches.
ServerCrash(s) == Fault /\ Restart(s)

MirrorStart(k) ==
  /\ view[k] # file /\ NoFault /\ Restart(k)
  /\ \A r \in Requests : decision[r].p # k

\* gail-elm-admin rollback: a process of its own, called with the revision that
\* status showed; with an older revision, or a key used before, it changes nothing.
AdminRollback ==
  /\ file.rollbacks[AdminKey] = NoModel /\ CanRollBack(file)
  /\ file' = RolledBack(file, AdminKey)
  /\ UNCHANGED <<view, faults>> /\ UNCHANGED jobVars /\ UNCHANGED servingVars

ServingNext ==
  \/ \E r \in Requests : Admit(r) \/ ReadStage(r) \/ Claim(r) \/ Predict(r)
                         \/ Abstain(r) \/ PredictFails(r) \/ MirrorScore(r)
  \/ \E s \in Servers : RollbackCheck(s) \/ RollbackCommit(s) \/ ServerRefresh(s)

Next ==
  \/ WorkerNext \/ WorkerCrash
  \/ ServingNext \/ AdminRollback
  \/ \E s \in Servers : ServerCrash(s)
  \/ \E k \in Mirrors : MirrorStart(k)

Spec == Init /\ [][Next]_vars

-----------------------------------------------------------------------------
\* Together the processes are never granted more canary decisions of a model than
\* its budget, and the file counts every one that was granted, whatever copies the
\* processes hold and whenever they die (claim_canary_decision).
CanaryBudget == \A m \in Models : claims[m] <= file.used[m] /\ file.used[m] <= MaxCanary

\* No copy of the registry serves a model that failed an evidence gate or was
\* trained from fixtures, by whichever path it became champion: qualified by the
\* worker, or as the fallback of a rollback (promote, rollback_champion).
ServedWasQualified ==
  \A p \in Processes : Serving(p) # NoModel => Qualifies(Serving(p))

\* At most one model of the task may influence decisions, and it is the champion
\* (promote returns its predecessor to shadow, a rollback removes it).
OneInfluential ==
  \A m \in Models : file.stage[m] \in {"canary", "active"} => file.champion = m

\* A job that is recorded as completed has an evaluated model of its dataset in the
\* registry (finish_success before the last write_job; find_dataset).
CompletedHasModel ==
  \A m \in Models : job[m].state = "completed" =>
    \E n \in Models : /\ Dataset[n] = Dataset[m]
                      /\ file.stage[n] \in ServingStages \cup {"evaluated", "rolled_back"}

-----------------------------------------------------------------------------
\* The registry is a revisioned store: no operation of any process undoes what
\* another recorded, and a copy is always a committed index and never goes back.
Keeps(f, g) ==
  /\ SubSeq(g.records, 1, Len(f.records)) = f.records
  /\ \A m \in Models : f.used[m] <= g.used[m]
  /\ \A k \in Keys : f.rollbacks[k] # NoModel => g.rollbacks[k] = f.rollbacks[k]
  /\ \A m \in Models : f.stage[m] = "rolled_back" => g.stage[m] = "rolled_back"

RevisionOf(f) == f.revision

Store == INSTANCE RevisionedStore WITH
           value <- file, copy <- view, InitValue <- FirstFile,
           Rev <- RevisionOf, Follows <- Keeps

ImplementsStore == Store!Spec
=============================================================================
