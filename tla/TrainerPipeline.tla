---------------------------- MODULE TrainerPipeline ---------------------------
(***************************************************************************)
(* The trainer worker of src/trainer_worker.rs: rows of the interaction    *)
(* ledger become a dataset, the dataset a training snapshot (run locally   *)
(* or through the Slurm spool), and a qualified snapshot is registered     *)
(* with Ollama, published as the active snapshot, checked for health, and  *)
(* taken back when it is not healthy. A marker file names the snapshot in  *)
(* progress, so that a restarted worker can resume it.                     *)
(*                                                                         *)
(* Snapshot ids are time stamps: 1, 2, ... in the order they are taken.    *)
(* The dispatcher of the spool and the Ollama host are external. Time      *)
(* appears as the actions that make a backoff, a heartbeat or a request    *)
(* old. Every await of the worker is a step of its own.                    *)
(***************************************************************************)
EXTENDS Naturals, FiniteSets, FiniteSetsExt

CONSTANTS
  TrainRows,       \* answered ledger rows, 1 .. TrainRows in the order of their ids
  TrainAttempts,   \* trainer.max_attempts
  MinRows,         \* trainer.min_samples
  MaxRows,         \* trainer.max_samples_per_snapshot
  RotateKeep,      \* trainer.rotate_keep
  Retention,       \* trainer.snapshot_retention
  Targets,         \* serving targets for the base model, 1 .. Targets by rank
  SnapshotBound,   \* bound: snapshots taken
  TrainerFaults    \* bound: crashes and failed writes

ASSUME TrainerAssumption ==
  /\ TrainRows \in Nat /\ TrainAttempts \in Nat \ {0} /\ MinRows \in Nat \ {0}
  /\ MaxRows \in Nat \ {0} /\ RotateKeep \in Nat \ {0} /\ Retention \in Nat
  /\ Targets \in Nat /\ SnapshotBound \in Nat /\ TrainerFaults \in Nat

VARIABLES
  deployment,  \* [spooled, runnable, registers]: Slurm spool, a command, register_with_ollama
  ledgerRow,   \* [1 .. TrainRows -> [status, attempts, due, infra]]
  dataset,     \* [Snapshot -> rows written to its dataset]
  files,       \* [Snapshot -> subset of "trained" (report, adapter, _SUCCESS), "pipeline"]
  request,     \* [Snapshot -> "none", "queued", "running"], the spool
  requestOld,  \* snapshots whose queued request is older than the command timeout
  result,      \* [Snapshot -> "none", "ok", "failed"]
  marker,      \* active_training.json: [snap, fresh], snap 0 for no file
  tagged,      \* snapshots that Ollama holds as prefix:snapshot
  alias,       \* the snapshot the served alias is a copy of, 0 for none
  adapter,     \* the snapshot whose adapter llama.cpp is given, 0 for none
  active,      \* active_snapshot.json: [snap, target]
  telemetry,   \* [Snapshot -> status in training_metrics.json]
  tr,          \* the worker: [pc, snap, prev, target, err, restore]
  slips,       \* faults so far
  interrupted, \* history: a crash or a failed rollback during a promotion
  healthy      \* history: snapshots that passed the health check

trainerVars == <<deployment, ledgerRow, dataset, files, request, requestOld, result, marker,
                 tagged, alias, adapter, active, telemetry, tr, slips, interrupted, healthy>>

Snapshot == 1 .. SnapshotBound
TrainRow == 1 .. TrainRows
Nothing == [snap |-> 0, target |-> 0]
NoMarker == [snap |-> 0, fresh |-> FALSE]
Resting(pc) == [pc |-> pc, snap |-> 0, prev |-> Nothing, target |-> 0, err |-> "none", restore |-> FALSE]

TrainerInit ==
  /\ deployment \in {[spooled |-> TRUE, runnable |-> TRUE, registers |-> TRUE],
                     [spooled |-> FALSE, runnable |-> TRUE, registers |-> TRUE],
                     [spooled |-> FALSE, runnable |-> TRUE, registers |-> FALSE],
                     [spooled |-> FALSE, runnable |-> FALSE, registers |-> TRUE]}
  /\ ledgerRow = [r \in TrainRow |-> [status |-> "new", attempts |-> 0, due |-> TRUE, infra |-> FALSE]]
  /\ dataset = [s \in Snapshot |-> {}] /\ files = [s \in Snapshot |-> {}]
  /\ request = [s \in Snapshot |-> "none"] /\ requestOld = {}
  /\ result = [s \in Snapshot |-> "none"]
  /\ marker = NoMarker /\ tagged = {} /\ alias = 0 /\ adapter = 0 /\ active = Nothing
  /\ telemetry = [s \in Snapshot |-> "none"]
  /\ tr = Resting("down") /\ slips = 0 /\ interrupted = FALSE /\ healthy = {}

Slip == slips < TrainerFaults /\ slips' = slips + 1
NoSlip == UNCHANGED slips

spoolVars == <<request, requestOld, result>>
servedVars == <<tagged, alias, adapter, active, healthy>>
Goto(pc) == tr' = [tr EXCEPT !.pc = pc]
Fail(pc, err) == tr' = [tr EXCEPT !.pc = pc, !.err = err]

-----------------------------------------------------------------------------
(* Ledger rows.                                                            *)

\* mark_training_retry: the row has failed when its attempts are used up.
Retried(w, max, infra) ==
  [w EXCEPT !.attempts = @ + 1, !.due = FALSE, !.infra = infra,
            !.status = IF w.attempts + 1 >= max THEN "failed" ELSE "retry"]

\* recover_training_infrastructure_failures: a row that failed because the
\* infrastructure was missing starts again.
Recovered(w) ==
  IF w.status = "failed" /\ w.infra
  THEN [w EXCEPT !.status = "retry", !.attempts = 0, !.due = TRUE, !.infra = FALSE] ELSE w

\* mark_training_success.
Trained(w, status) == [w EXCEPT !.attempts = @ + 1, !.status = status, !.due = FALSE]

\* Mutant: rows are selected by their due time alone.
EligibleAgain(r) == ledgerRow[r].status # "failed" /\ (ledgerRow[r].due \/ ledgerRow[r].status = "trained")

\* fetch_pending_training: not trained, not failed, due.
Eligible(r) == ledgerRow[r].status \in {"new", "retry"} /\ ledgerRow[r].due

\* Retries come first, then the oldest rows, at most MaxRows.
Before(r, q) ==
  LET rank(x) == IF ledgerRow[x].status = "retry" THEN 0 ELSE 1
  IN  rank(r) < rank(q) \/ (rank(r) = rank(q) /\ r < q)

Batch ==
  {r \in TrainRow : Eligible(r) /\ Cardinality({q \in TrainRow : Eligible(q) /\ Before(q, r)}) < MaxRows}

RetryAll(rows, max, infra) ==
  ledgerRow' = [r \in TrainRow |-> IF r \in rows THEN Retried(ledgerRow[r], max, infra) ELSE ledgerRow[r]]

BackoffEnds(r) ==
  /\ ledgerRow[r].status = "retry" /\ ~ledgerRow[r].due
  /\ ledgerRow' = [ledgerRow EXCEPT ![r].due = TRUE]
  /\ UNCHANGED <<deployment, dataset, files, marker, telemetry, tr, slips, interrupted>>
  /\ UNCHANGED spoolVars /\ UNCHANGED servedVars

-----------------------------------------------------------------------------
(* Serving targets.                                                        *)

\* select_serving_target: the best ranked (memory, throughput, name) target that can be
\* launched; the others did not answer.
TargetChoices == {IF up = {} THEN 0 ELSE Min(up) : up \in SUBSET (1 .. Targets)}

-----------------------------------------------------------------------------
(* The worker between snapshots.                                           *)

\* Historical reports replace the telemetry of their snapshots
\* (backfill_training_observations).
Backfilled ==
  [s \in Snapshot |-> IF "trained" \notin files[s] THEN telemetry[s]
                      ELSE IF s \in healthy \/ "pipeline" \notin files[s] THEN "historical_completed"
                      ELSE "promotion_failed"]

\* ensure_active_serving_target: the target of the active snapshot is chosen again.
Retargeted(t) ==
  IF Targets = 0 \/ t = 0 \/ active.snap = 0 THEN active ELSE [active EXCEPT !.target = t]

\* run, up to its loop: rows are recovered and the telemetry is completed.
StartTrainer ==
  /\ tr.pc = "down" /\ tr' = Resting("poll")
  /\ ledgerRow' = [r \in TrainRow |-> Recovered(ledgerRow[r])]
  /\ telemetry' = Backfilled
  /\ \E t \in TargetChoices : active' = Retargeted(t)
  /\ UNCHANGED <<deployment, dataset, files, marker, slips, interrupted, tagged, alias, adapter, healthy>>
  /\ UNCHANGED spoolVars

\* requeue_stale_slurm_requests: old requests of other snapshots are withdrawn.
Requeue ==
  LET stale == {s \in requestOld : request[s] = "queued" /\ s # marker.snap}
  IN  /\ tr.pc = "poll" /\ Goto("inspect")
      /\ IF deployment.spooled
         THEN /\ request' = [s \in Snapshot |-> IF s \in stale THEN "none" ELSE request[s]]
              /\ requestOld' = requestOld \ stale
              /\ RetryAll(UNION {dataset[s] : s \in stale}, TrainAttempts, FALSE)
         ELSE UNCHANGED <<request, requestOld, ledgerRow>>
      /\ UNCHANGED <<deployment, dataset, files, marker, telemetry, slips, interrupted, result>>
      /\ UNCHANGED servedVars

\* recover_completed_snapshot_artifacts and recover_terminal_slurm_result.
Resumable(s) == deployment.spooled /\ ("trained" \in files[s] \/ result[s] = "ok")

\* active_training_snapshot. A failed result sends the rows back and removes the marker,
\* and when the heartbeat is old the rows are sent back once more.
Inspect ==
  LET s == marker.snap
      failed == deployment.spooled /\ s # 0 /\ ~Resumable(s) /\ result[s] = "failed"
      waits == s # 0 /\ (marker.fresh \/ (deployment.spooled /\ request[s] # "none"))
      once(w) == Retried(w, TrainAttempts, FALSE)
      twice(w) == IF failed /\ ~waits THEN once(once(w)) ELSE once(w)
  IN  /\ tr.pc = "inspect"
      /\ IF s # 0 /\ Resumable(s)
         THEN tr' = [Resting("prepare") EXCEPT !.snap = s] /\ UNCHANGED <<ledgerRow, marker>>
         ELSE /\ Goto(IF waits THEN "poll" ELSE "collect")
              /\ IF s # 0 /\ (failed \/ ~waits)
                 THEN /\ ledgerRow' = [r \in TrainRow |->
                           IF r \in dataset[s] THEN twice(ledgerRow[r]) ELSE ledgerRow[r]]
                      /\ marker' = NoMarker
                 ELSE UNCHANGED <<ledgerRow, marker>>
      /\ UNCHANGED <<deployment, dataset, files, telemetry, slips, interrupted>>
      /\ UNCHANGED spoolVars /\ UNCHANGED servedVars

\* write_dataset.
Written(s) == [dataset EXCEPT ![s] = Batch]

\* The rest of the loop: the rows are fetched, the dataset is written, then the marker.
Collect ==
  LET s == Cardinality({q \in Snapshot : dataset[q] # {}}) + 1
  IN  /\ tr.pc = "collect"
      /\ \/ /\ Cardinality(Batch) < MinRows /\ Goto("poll") /\ NoSlip
            /\ UNCHANGED <<dataset, marker, ledgerRow, telemetry>>
         \/ /\ Cardinality(Batch) >= MinRows /\ s \in Snapshot
            /\ dataset' = Written(s)
            /\ \/ /\ marker' = [snap |-> s, fresh |-> TRUE] /\ NoSlip
                  /\ tr' = [Resting("prepare") EXCEPT !.snap = s] /\ UNCHANGED <<ledgerRow, telemetry>>
               \/ /\ Slip /\ Goto("poll") /\ UNCHANGED <<ledgerRow, marker, telemetry>>
               \/ /\ Slip /\ Goto("poll") /\ RetryAll(Batch, TrainAttempts, FALSE)
                  /\ telemetry' = [telemetry EXCEPT ![s] = "failed"] /\ UNCHANGED marker
         \/ /\ Cardinality(Batch) >= MinRows /\ s \notin Snapshot /\ Goto("poll") /\ NoSlip
            /\ UNCHANGED <<dataset, marker, ledgerRow, telemetry>>
      /\ UNCHANGED <<deployment, files, interrupted>> /\ UNCHANGED spoolVars /\ UNCHANGED servedVars

-----------------------------------------------------------------------------
(* run_training_pipeline: training.                                        *)

\* resolve_training_invocation: a missing mapping or TorchScript artifact is an error, and
\* an unsupported algorithm is no command at all.
Invocations == IF deployment.runnable THEN {"command", "error"} ELSE {"none"}

\* active_adapter_path: the adapter of the active snapshot is resumed, so it must be there.
Prepare ==
  /\ tr.pc = "prepare"
  /\ IF active.snap # 0 /\ "trained" \notin files[active.snap]
     THEN Fail("finish", "plain") /\ NoSlip
     ELSE \/ "error" \in Invocations /\ Slip /\ Fail("finish", "plain")
          \/ "none" \in Invocations /\ NoSlip /\ Goto("report")
          \/ /\ "command" \in Invocations /\ NoSlip
             /\ Goto(IF deployment.spooled THEN "submit" ELSE "train")
  /\ UNCHANGED <<deployment, ledgerRow, dataset, files, marker, telemetry, interrupted>>
  /\ UNCHANGED spoolVars /\ UNCHANGED servedVars

\* execute_slurm_training_request: an existing result is used, otherwise a request is queued.
Submit ==
  LET s == tr.snap IN
  /\ tr.pc = "submit"
  /\ IF result[s] = "none"
     THEN /\ request' = [request EXCEPT ![s] = IF @ = "running" THEN @ ELSE "queued"]
          /\ requestOld' = requestOld \ {s} /\ Goto("wait")
     ELSE /\ UNCHANGED <<request, requestOld>>
          /\ IF result[s] = "ok" THEN Goto("qualify") ELSE Fail("finish", "plain")
  /\ UNCHANGED <<deployment, ledgerRow, dataset, files, marker, telemetry, interrupted, slips, result>>
  /\ UNCHANGED servedVars

\* The polling loop keeps the marker's heartbeat fresh. At the timeout the request is
\* removed and the job cancelled, which may have no effect.
AwaitResult ==
  LET s == tr.snap IN
  /\ tr.pc = "wait"
  /\ \/ /\ result[s] # "none" /\ NoSlip /\ marker' = [snap |-> s, fresh |-> TRUE]
        /\ IF result[s] = "ok" THEN Goto("qualify") ELSE Fail("finish", "plain")
        /\ UNCHANGED <<request, requestOld>>
     \/ /\ result[s] = "none" /\ NoSlip /\ Fail("finish", "plain")
        /\ marker' = [snap |-> s, fresh |-> TRUE]
        /\ \E stopped \in BOOLEAN :
             request' = [request EXCEPT ![s] = IF @ = "queued" \/ stopped THEN "none" ELSE @]
        /\ requestOld' = requestOld \ {s}
     \/ /\ Slip /\ Fail("finish", "plain") /\ UNCHANGED <<request, requestOld, marker>>
  /\ UNCHANGED <<deployment, ledgerRow, dataset, files, telemetry, interrupted, result>>
  /\ UNCHANGED servedVars

\* execute_training_command: the child's exit, a timeout that kills it, or a failure to
\* spawn it.
TrainLocally ==
  /\ tr.pc = "train"
  /\ \/ files' = [files EXCEPT ![tr.snap] = @ \cup {"trained"}] /\ Goto("qualify")
     \/ \E err \in {"plain", "infra"} : Fail("finish", err) /\ UNCHANGED files
  /\ UNCHANGED <<deployment, ledgerRow, dataset, marker, telemetry, interrupted, slips>>
  /\ UNCHANGED spoolVars /\ UNCHANGED servedVars

\* qualify_training_snapshot: report, artifact, a finite metric and enough improvement.
Qualify ==
  /\ tr.pc = "qualify"
  /\ \/ "trained" \in files[tr.snap] /\ Goto("select") /\ UNCHANGED files
     \/ files' = [files EXCEPT ![tr.snap] = @ \cup {"pipeline"}] /\ Fail("finish", "plain")
  /\ UNCHANGED <<deployment, ledgerRow, dataset, marker, telemetry, interrupted, slips>>
  /\ UNCHANGED spoolVars /\ UNCHANGED servedVars

-----------------------------------------------------------------------------
(* run_training_pipeline: promotion.                                       *)

\* The serving target is chosen before the model is registered; the alias and the
\* pointer of before are kept for the rollback.
SelectTarget ==
  /\ tr.pc = "select"
  /\ \E t \in IF Targets = 0 THEN {0} ELSE TargetChoices :
       IF Targets > 0 /\ t = 0 THEN Fail("finish", "plain")
       ELSE tr' = [tr EXCEPT !.pc = IF deployment.registers THEN "create" ELSE "report",
                             !.target = t, !.prev = active]
  /\ UNCHANGED <<deployment, ledgerRow, dataset, files, marker, telemetry, interrupted, slips>>
  /\ UNCHANGED spoolVars /\ UNCHANGED servedVars

\* prepare_ollama_adapter: the conversion fails, or the adapter can never be registered.
AdapterErrors == {"plain", "fatal"}

\* validate_tokenizer_registration_manifest and build_ollama_adapter_manifest: the snapshot
\* lacks a file, or holds one that it must not.
ManifestErrors == {"plain"}

\* collect_adapter_files and ensure_ollama_blob: an adapter file cannot be read, changed
\* meanwhile, or was not taken.
UploadErrors == {"plain"}

\* /api/create: the host refuses or is not there, or does not know the architecture.
CreateErrors == {"infra", "fatal"}

\* register_snapshot_with_ollama; an unsupported architecture is not retried.
CreateModel ==
  /\ tr.pc = "create"
  /\ \/ tagged' = tagged \cup {tr.snap} /\ Goto("copy")
     \/ \E err \in AdapterErrors \cup ManifestErrors \cup UploadErrors \cup CreateErrors :
          Fail("undo", err) /\ UNCHANGED tagged
  /\ UNCHANGED <<deployment, ledgerRow, dataset, files, marker, telemetry, interrupted, slips>>
  /\ UNCHANGED <<alias, adapter, active, healthy>> /\ UNCHANGED spoolVars

\* The alias becomes a copy of the new model.
CopyAlias ==
  /\ tr.pc = "copy"
  /\ \/ alias' = tr.snap /\ Goto("adapter")
     \/ Fail("undo", "plain") /\ UNCHANGED alias
  /\ UNCHANGED <<deployment, ledgerRow, dataset, files, marker, telemetry, interrupted, slips>>
  /\ UNCHANGED <<tagged, adapter, active, healthy>> /\ UNCHANGED spoolVars

\* publish_llama_cpp_adapter.
PublishAdapter ==
  /\ tr.pc = "adapter"
  /\ \/ adapter' = tr.snap /\ Goto("publish")
     \/ Fail("undo", "plain") /\ UNCHANGED adapter
  /\ UNCHANGED <<deployment, ledgerRow, dataset, files, marker, telemetry, interrupted, slips>>
  /\ UNCHANGED <<tagged, alias, active, healthy>> /\ UNCHANGED spoolVars

\* publish_active_snapshot.
PublishActive ==
  /\ tr.pc = "publish"
  /\ \/ active' = [snap |-> tr.snap, target |-> tr.target] /\ Goto("health")
     \/ Fail("undo", "plain") /\ UNCHANGED active
  /\ UNCHANGED <<deployment, ledgerRow, dataset, files, marker, telemetry, interrupted, slips>>
  /\ UNCHANGED <<tagged, alias, adapter, healthy>> /\ UNCHANGED spoolVars

\* health_check_promoted_model, or health_check_serving_target with a deadline.
CheckHealth ==
  /\ tr.pc = "health"
  /\ \/ Goto("tidy") /\ healthy' = healthy \cup {tr.snap}
     \/ tr' = [tr EXCEPT !.pc = "undo", !.err = "plain", !.restore = TRUE] /\ UNCHANGED healthy
  /\ UNCHANGED <<deployment, ledgerRow, dataset, files, marker, telemetry, interrupted, slips>>
  /\ UNCHANGED <<tagged, alias, adapter, active>> /\ UNCHANGED spoolVars

\* Mutant: the alias is taken back and the pointer left.
RollBackAliasOnly ==
  /\ tr.pc = "undo" /\ Goto("report") /\ NoSlip
  /\ alias' = IF tr.prev.snap = 0 THEN alias ELSE tr.prev.snap
  /\ UNCHANGED <<deployment, ledgerRow, dataset, files, marker, telemetry, tagged, adapter, active,
                 healthy, interrupted>>
  /\ UNCHANGED spoolVars

\* rollback_ollama_alias, then restore_active_snapshot_pointer after a failed health
\* check. The copy fails without the previous model; an error of either is only logged,
\* and the pointer then keeps naming the snapshot that was not healthy.
RollBack ==
  /\ tr.pc = "undo" /\ Goto("report")
  /\ \E copied, restored \in BOOLEAN :
       /\ IF copied THEN tr.prev.snap \in tagged \cup {0} ELSE tr.prev.snap # 0
       /\ restored \/ tr.restore
       /\ alias' = IF copied /\ tr.prev.snap # 0 THEN tr.prev.snap ELSE alias
       /\ active' = IF tr.restore /\ restored THEN tr.prev ELSE active
       /\ interrupted' = (interrupted \/ ~copied \/ ~restored)
       /\ IF restored /\ (copied \/ tr.prev.snap \notin tagged) THEN NoSlip ELSE Slip
  /\ UNCHANGED <<deployment, ledgerRow, dataset, files, marker, telemetry, tagged, adapter, healthy>>
  /\ UNCHANGED spoolVars

Newest(set, n) == {s \in set : Cardinality({q \in set : q > s}) < n}

\* Mutant: the sort is ascending.
RotatedOldest == {s \in tagged : Cardinality({q \in tagged : q < s}) < RotateKeep}

\* rotate_ollama_models.
Rotated == Newest(tagged, RotateKeep)

\* prune_training_snapshots: terminal snapshots but the newest, the current and the active.
Pruned ==
  LET ended == {s \in Snapshot : files[s] # {}}
      keep == Newest(ended, IF Retention < 2 THEN 2 ELSE Retention) \cup {tr.snap, active.snap}
  IN  ended \ keep

\* After the health check: validation is scheduled, old models are rotated out and old
\* snapshots pruned; each may fail and is only logged.
Tidy ==
  /\ tr.pc = "tidy" /\ Goto("report")
  /\ tagged' \in {Rotated, tagged}
  /\ \E gone \in {Pruned, {}} : files' = [s \in Snapshot |-> IF s \in gone THEN {} ELSE files[s]]
  /\ UNCHANGED <<deployment, ledgerRow, dataset, marker, telemetry, interrupted, slips>>
  /\ UNCHANGED <<alias, adapter, active, healthy>> /\ UNCHANGED spoolVars

\* pipeline.json ends the pipeline; a failed write fails a snapshot that was promoted.
WriteReport ==
  /\ tr.pc = "report"
  /\ \/ /\ files' = [files EXCEPT ![tr.snap] = @ \cup {"pipeline"}] /\ NoSlip /\ Goto("finish")
     \/ /\ Slip /\ Fail("finish", "plain") /\ UNCHANGED files
  /\ UNCHANGED <<deployment, ledgerRow, dataset, marker, telemetry, interrupted>>
  /\ UNCHANGED spoolVars /\ UNCHANGED servedVars

-----------------------------------------------------------------------------
(* process_training_snapshot, after the pipeline.                          *)

\* record_training_observation: the status of the outcome, or what the files say of it.
Observation ==
  IF tr.err = "none"
  THEN IF deployment.runnable /\ deployment.registers THEN "trained" ELSE "snapshotted"
  ELSE IF "trained" \in files[tr.snap] THEN "promotion_failed" ELSE "failed"

\* The marker is removed first (a failure is logged), then the telemetry is written.
FinishSnapshot ==
  /\ tr.pc = "finish" /\ Goto("mark")
  /\ \/ marker' = NoMarker /\ NoSlip
     \/ Slip /\ UNCHANGED marker
  /\ telemetry' = [telemetry EXCEPT ![tr.snap] = Observation]
  /\ UNCHANGED <<deployment, ledgerRow, dataset, files, interrupted>>
  /\ UNCHANGED spoolVars /\ UNCHANGED servedVars

\* The rows are marked last; an error of the database is logged.
MarkRows ==
  /\ tr.pc = "mark" /\ tr' = Resting("poll")
  /\ \/ /\ NoSlip
        /\ IF tr.err = "none"
           THEN ledgerRow' = [r \in TrainRow |->
                  IF r \in dataset[tr.snap] THEN Trained(ledgerRow[r], Observation) ELSE ledgerRow[r]]
           ELSE RetryAll(dataset[tr.snap], IF tr.err = "fatal" THEN 1 ELSE TrainAttempts, tr.err = "infra")
     \/ Slip /\ UNCHANGED ledgerRow
  /\ UNCHANGED <<deployment, dataset, files, marker, telemetry, interrupted>>
  /\ UNCHANGED spoolVars /\ UNCHANGED servedVars

\* The worker's process dies; its advisory lock goes with its connection.
TrainerCrash ==
  /\ tr.pc # "down" /\ Slip /\ tr' = Resting("down")
  /\ interrupted' = (interrupted \/ tr.pc \in {"copy", "adapter", "publish", "health", "undo"})
  /\ UNCHANGED <<deployment, ledgerRow, dataset, files, marker, telemetry>>
  /\ UNCHANGED spoolVars /\ UNCHANGED servedVars

-----------------------------------------------------------------------------
(* The dispatcher of the spool, and time.                                  *)

Dispatch(s) ==
  /\ request[s] = "queued" /\ request' = [request EXCEPT ![s] = "running"]
  /\ requestOld' = requestOld \ {s}
  /\ UNCHANGED <<deployment, ledgerRow, dataset, files, marker, telemetry, tr, slips, interrupted, result>>
  /\ UNCHANGED servedVars

\* A job ends with a result, or its result is lost after the artifacts were written.
JobEnds(s) ==
  /\ request[s] = "running" /\ request' = [request EXCEPT ![s] = "none"]
  /\ \/ files' = [files EXCEPT ![s] = @ \cup {"trained"}] /\ result' = [result EXCEPT ![s] = "ok"] /\ NoSlip
     \/ result' = [result EXCEPT ![s] = "failed"] /\ UNCHANGED files /\ NoSlip
     \/ files' = [files EXCEPT ![s] = @ \cup {"trained"}] /\ UNCHANGED result /\ Slip
  /\ UNCHANGED <<deployment, ledgerRow, dataset, requestOld, marker, telemetry, tr, interrupted>>
  /\ UNCHANGED servedVars

HeartbeatAges ==
  /\ marker.fresh /\ tr.pc \in {"down", "poll"} /\ marker' = [marker EXCEPT !.fresh = FALSE]
  /\ UNCHANGED <<deployment, ledgerRow, dataset, files, telemetry, tr, slips, interrupted>>
  /\ UNCHANGED spoolVars /\ UNCHANGED servedVars

RequestAges(s) ==
  /\ request[s] = "queued" /\ s \notin requestOld /\ requestOld' = requestOld \cup {s}
  /\ UNCHANGED <<deployment, ledgerRow, dataset, files, marker, telemetry, tr, slips, interrupted,
                 request, result>>
  /\ UNCHANGED servedVars

TrainerNext ==
  \/ \E r \in TrainRow : BackoffEnds(r)
  \/ StartTrainer \/ Requeue \/ Inspect \/ Collect \/ Prepare \/ Submit \/ AwaitResult \/ TrainLocally
  \/ Qualify \/ SelectTarget \/ CreateModel \/ CopyAlias \/ PublishAdapter \/ PublishActive
  \/ CheckHealth \/ RollBack \/ Tidy \/ WriteReport \/ FinishSnapshot \/ MarkRows \/ TrainerCrash
  \/ \E s \in Snapshot : Dispatch(s) \/ JobEnds(s) \/ RequestAges(s)
  \/ HeartbeatAges

TrainerSpec == TrainerInit /\ [][TrainerNext]_trainerVars

-----------------------------------------------------------------------------
\* The active snapshot can always be resumed and served again: rotation, pruning and the
\* snapshots that came and failed after it leave its artifacts and its tagged model alone
\* (rotate_ollama_models, prune_training_snapshots).
ActiveIsKept ==
  active.snap # 0 => "trained" \in files[active.snap] /\ active.snap \in tagged

\* Between snapshots the pointer names a snapshot that passed its health check and the
\* alias serves that snapshot, unless the worker died, or taking back the alias or the
\* pointer failed, in the middle of a promotion (run_training_pipeline,
\* rollback_ollama_alias, restore_active_snapshot_pointer).
ServedIsHealthy ==
  tr.pc \in {"poll", "inspect", "collect"} /\ ~interrupted /\ active.snap # 0 =>
    active.snap \in healthy /\ alias = active.snap

\* A row goes into one promoted snapshot, and into another only for each fault that kept
\* the first from being recorded (fetch_pending_training, mark_training_success).
PromotedOnce ==
  \A r \in TrainRow : Cardinality({s \in healthy : r \in dataset[s]}) <= 1 + slips

(* The active snapshot can always be resumed and served again, between snapshots
   the alias serves the one the pointer names, which passed its health check,
   and a row is trained into one promoted snapshot (trainer_worker.rs). *)
DeploymentIsSound == ActiveIsKept /\ ServedIsHealthy /\ PromotedOnce
=============================================================================
