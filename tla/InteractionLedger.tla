--------------------------- MODULE InteractionLedger --------------------------
(***************************************************************************)
(* The interaction ledger and what is learnt from it: the bounded queue    *)
(* and the persister of src/llm_ledger.rs, the mirror worker that replays  *)
(* each row to AARNN and compares the trained snapshot with the provider's *)
(* answer (src/mirror_worker.rs), and the admission verdicts of            *)
(* src/provider_admission.rs. The trainer appears as the active-snapshot   *)
(* pointer it moves. Timers are the actions that make a row due.           *)
(***************************************************************************)
EXTENDS Naturals, Sequences, FiniteSets, SequencesExt

CONSTANTS
  Record,          \* interactions
  Unanswered,      \* records without response text
  Concealed,       \* records whose content was redacted before it was stored
  QueueCapacity,
  BatchSize,
  MirrorAttempts,  \* mirror_worker.max_attempts
  MinSamples,      \* comparative_validation.minimum_samples
  RateNum, RateDen, \* comparative_validation.minimum_useful_rate, as a fraction
  Snapshots,       \* bound: snapshots the trainer publishes, 1 .. Snapshots
  LedgerFaults     \* bound: failed writes, failed statements and crashes

ASSUME LedgerAssumption ==
  /\ Unanswered \subseteq Record /\ Concealed \subseteq Record
  /\ QueueCapacity \in Nat \ {0} /\ BatchSize \in Nat \ {0} /\ MirrorAttempts \in Nat \ {0}
  /\ MinSamples \in Nat \ {0} /\ Snapshots \in Nat /\ LedgerFaults \in Nat
  /\ RateNum \in Nat /\ RateDen \in Nat \ {0}

VARIABLES
  queue,       \* the channel to the persister
  sending,     \* records whose sender waits for room
  fate,        \* [Record -> "new", "sent", "dropped", "filed", "lost"]
  cooling,     \* Postgres is in its cooldown
  ids,         \* rows of gail_llm_interactions in the order of their ids
  row,         \* [Record -> [mirror, attempts, due, closed, sample]]
  pointer,     \* active_snapshot.json: [now, before], 0 for none
  worker,      \* the mirror worker: [pc, batch, entry, failed, seen]
  admission,   \* the row of the trained target: [version, samples, useful, admitted]
  validating,  \* comparative_validation.enabled
  mishaps,     \* faults so far
  replays,     \* history: [Record -> Nat] replays of a row that was still pending
  delivered,   \* history: records whose every exchange was accepted in one replay
  earned       \* history: [1 .. Snapshots -> Nat] useful answers of each snapshot

ledgerVars == <<queue, sending, fate, cooling, ids, row, pointer, worker, admission,
                validating, mishaps, replays, delivered, earned>>

mirrorVars == <<worker, admission, replays, delivered, earned>>
storeVars == <<queue, sending, fate, cooling, ids>>

Entry == [id : Record, pending : BOOLEAN]
NoEntry == [id |-> "none", pending |-> FALSE]

LedgerRow == [mirror : {"none", "retry", "mirrored", "failed"}, attempts : Nat,
              due : BOOLEAN, closed : BOOLEAN, sample : BOOLEAN]
MirrorPc == {"idle", "take", "replay", "sample", "answer", "verdict", "sampled", "mark"}
MirrorWorker == [pc : MirrorPc, batch : SUBSET Entry, entry : Entry \cup {NoEntry},
                 failed : BOOLEAN, seen : 0 .. Snapshots]
Admission == [version : 0 .. Snapshots, samples : Nat, useful : Nat, admitted : BOOLEAN]

LedgerTypeOK ==
  /\ queue \in Seq(Record) /\ sending \in SUBSET Record /\ cooling \in BOOLEAN
  /\ fate \in [Record -> {"new", "sent", "dropped", "filed", "lost"}] /\ ids \in Seq(Record)
  /\ row \in [Record -> LedgerRow]
  /\ pointer \in [now : 0 .. Snapshots, before : 0 .. Snapshots + 1]
  /\ worker \in MirrorWorker /\ admission \in Admission
  /\ validating \in BOOLEAN /\ mishaps \in Nat
  /\ replays \in [Record -> Nat] /\ delivered \in SUBSET Record
  /\ earned \in [1 .. Snapshots -> Nat]

NewRow == [mirror |-> "none", attempts |-> 0, due |-> TRUE, closed |-> FALSE, sample |-> TRUE]
IdleWorker == [pc |-> "idle", batch |-> {}, entry |-> NoEntry, failed |-> FALSE, seen |-> 0]

LedgerInit ==
  /\ queue = <<>> /\ sending = {} /\ cooling = FALSE /\ ids = <<>>
  /\ fate = [r \in Record |-> "new"]
  /\ row = [r \in Record |-> NewRow]
  /\ pointer = [now |-> 0, before |-> 0]
  /\ worker = IdleWorker
  /\ admission = [version |-> 0, samples |-> 0, useful |-> 0, admitted |-> FALSE]
  /\ validating \in BOOLEAN
  /\ mishaps = 0
  /\ replays = [r \in Record |-> 0] /\ delivered = {}
  /\ earned = [v \in 1 .. Snapshots |-> 0]

Mishap == mishaps < LedgerFaults /\ mishaps' = mishaps + 1
Smooth == UNCHANGED mishaps

-----------------------------------------------------------------------------
(* record: the sender waits for room, and gives up after enqueue_timeout_ms. *)

Send(r) ==
  /\ fate[r] = "new"
  /\ IF Len(queue) < QueueCapacity
     THEN /\ queue' = Append(queue, r) /\ fate' = [fate EXCEPT ![r] = "sent"]
          /\ UNCHANGED sending
     ELSE sending' = sending \cup {r} /\ fate' = [fate EXCEPT ![r] = "sent"] /\ UNCHANGED queue
  /\ UNCHANGED <<cooling, ids, row, pointer, validating, mishaps>> /\ UNCHANGED mirrorVars

Admitted(r) ==
  /\ r \in sending /\ Len(queue) < QueueCapacity
  /\ queue' = Append(queue, r) /\ sending' = sending \ {r}
  /\ UNCHANGED <<fate, cooling, ids, row, pointer, validating, mishaps>> /\ UNCHANGED mirrorVars

GiveUp(r) ==
  /\ r \in sending
  /\ sending' = sending \ {r} /\ fate' = [fate EXCEPT ![r] = "dropped"]
  /\ UNCHANGED <<queue, cooling, ids, row, pointer, validating, mishaps>> /\ UNCHANGED mirrorVars

\* The persister: the record is appended to the file and inserted into Postgres, which
\* is skipped while it cools down after a failure. A record that is skipped or fails
\* is not tried again.
PersistRecord ==
  /\ queue # <<>> /\ queue' = Tail(queue)
  /\ \/ /\ ~cooling
        /\ ids' = Append(ids, Head(queue)) /\ fate' = [fate EXCEPT ![Head(queue)] = "filed"]
        /\ UNCHANGED cooling /\ Smooth
     \/ /\ cooling \/ Mishap
        /\ cooling => Smooth
        /\ cooling' = TRUE /\ fate' = [fate EXCEPT ![Head(queue)] = "lost"]
        /\ UNCHANGED ids
  /\ UNCHANGED <<sending, row, pointer, validating>> /\ UNCHANGED mirrorVars

CooldownEnds ==
  /\ cooling /\ cooling' = FALSE
  /\ UNCHANGED <<queue, sending, fate, ids, row, pointer, validating, mishaps>>
  /\ UNCHANGED mirrorVars

-----------------------------------------------------------------------------
(* Time passes and the trainer publishes.                                  *)

RetryDue(r) ==
  /\ r \in Range(ids) /\ ~row[r].closed /\ ~row[r].due
  /\ row' = [row EXCEPT ![r].due = TRUE]
  /\ UNCHANGED <<pointer, validating, mishaps>> /\ UNCHANGED storeVars /\ UNCHANGED mirrorVars

SampleDue(r) ==
  /\ r \in Range(ids) /\ ~row[r].sample
  /\ row' = [row EXCEPT ![r].sample = TRUE]
  /\ UNCHANGED <<pointer, validating, mishaps>> /\ UNCHANGED storeVars /\ UNCHANGED mirrorVars

\* publish_active_snapshot; the health check follows and may restore the pointer.
Publish ==
  /\ pointer.now < Snapshots /\ pointer.before <= pointer.now
  /\ pointer' = [now |-> pointer.now + 1, before |-> pointer.now]
  /\ UNCHANGED <<row, validating, mishaps>> /\ UNCHANGED storeVars /\ UNCHANGED mirrorVars

Restore ==
  /\ pointer.before < pointer.now
  /\ pointer' = [now |-> pointer.before, before |-> Snapshots + 1]
  /\ UNCHANGED <<row, validating, mishaps>> /\ UNCHANGED storeVars /\ UNCHANGED mirrorVars

\* schedule_validation_now after the health check.
ScheduleSamples ==
  /\ pointer.before < pointer.now
  /\ pointer' = [pointer EXCEPT !.before = pointer.now]
  /\ row' = [r \in Record |-> IF r \in Range(ids) \ Unanswered
                              THEN [row[r] EXCEPT !.sample = TRUE] ELSE row[r]]
  /\ UNCHANGED <<validating, mishaps>> /\ UNCHANGED storeVars /\ UNCHANGED mirrorVars

-----------------------------------------------------------------------------
(* The mirror worker.                                                      *)

\* fetch_pending_mirror: rows not closed and due, or answered and due for a sample.
Pending(r) == (~row[r].closed /\ row[r].due) \/ (r \notin Unanswered /\ row[r].sample)

Fetch ==
  LET due == {i \in DOMAIN ids : Pending(ids[i])}
      batch == {ids[i] : i \in {i \in due : Cardinality({j \in due : j < i}) < BatchSize}}
  IN  /\ worker.pc = "idle" /\ due # {}
      /\ worker' = [IdleWorker EXCEPT !.pc = "take",
           !.batch = {[id |-> r, pending |-> row[r].mirror \notin {"mirrored", "failed"}] :
                        r \in batch}]
      /\ UNCHANGED <<row, pointer, validating, mishaps, admission, replays, delivered, earned>>
      /\ UNCHANGED storeVars

\* The next entry, in ledger order or the advisor's.
Take ==
  /\ worker.pc = "take"
  /\ IF worker.batch = {} THEN worker' = IdleWorker
     ELSE \E e \in worker.batch :
            worker' = [IdleWorker EXCEPT !.pc = "replay", !.batch = worker.batch \ {e}, !.entry = e]
  /\ UNCHANGED <<row, pointer, validating, mishaps, admission, replays, delivered, earned>>
  /\ UNCHANGED storeVars

\* Mutant: an exchange that was accepted counts, whatever its candidate.
ReplayAccepted ==
  LET e == worker.entry IN
  /\ worker.pc = "replay"
  /\ \E ok \in BOOLEAN :
       /\ worker' = [worker EXCEPT !.pc = "sample", !.failed = FALSE]
       /\ delivered' = IF e.pending /\ ok THEN delivered \cup {e.id} ELSE delivered
  /\ replays' = [replays EXCEPT ![e.id] = IF e.pending THEN @ + 1 ELSE @]
  /\ UNCHANGED <<row, pointer, validating, mishaps, admission, earned>> /\ UNCHANGED storeVars

\* The prompt and the response are replayed; an error of either (of the transport, or a
\* candidate that is missing, unusable or empty) fails the entry while it is pending.
ReplayEntry ==
  LET e == worker.entry IN
  /\ worker.pc = "replay"
  /\ \E ok \in BOOLEAN :
       /\ worker' = [worker EXCEPT !.pc = "sample", !.failed = e.pending /\ ~ok]
       /\ delivered' = IF e.pending /\ ok THEN delivered \cup {e.id} ELSE delivered
  /\ replays' = [replays EXCEPT ![e.id] = IF e.pending THEN @ + 1 ELSE @]
  /\ UNCHANGED <<row, pointer, validating, mishaps, admission, earned>> /\ UNCHANGED storeVars

\* validate_and_record: nothing is compared without a response, when validation is off
\* or when the content is concealed; the trained target is the pointer's.
Compare ==
  LET r == worker.entry.id IN
  /\ worker.pc = "sample"
  /\ worker' = [worker EXCEPT
       !.seen = pointer.now,
       !.pc = IF ~validating THEN "sampled"
              ELSE IF r \in Unanswered THEN "mark"
              ELSE IF r \in Concealed \/ pointer.now = 0 THEN "sampled" ELSE "answer"]
  /\ UNCHANGED <<row, pointer, validating, mishaps, admission, replays, delivered, earned>>
  /\ UNCHANGED storeVars

\* Mutant: the counts of another version are carried over.
ObservedCarried(v, useful) ==
  [version |-> v, admitted |-> FALSE, samples |-> admission.samples + 1,
   useful |-> admission.useful + IF useful THEN 1 ELSE 0]

\* record_observation, first statement: another version starts from one, and the
\* verdict is withdrawn.
Observed(v, useful) ==
  LET same == admission.version = v /\ admission.samples > 0
      n == IF useful THEN 1 ELSE 0
  IN  [version |-> v, admitted |-> FALSE,
       samples |-> IF same THEN admission.samples + 1 ELSE 1,
       useful |-> IF same THEN admission.useful + n ELSE n]

\* The trained model answers. When the call failed the pointer is read again: the
\* failure is charged to whichever snapshot is active by then, and with no pointer
\* the worker's task panics. When the statement fails the answer is lost, and the row
\* keeps its sample due.
Answer ==
  /\ worker.pc = "answer"
  /\ \/ \E useful \in BOOLEAN :
          /\ admission' = Observed(worker.seen, useful)
          /\ earned' = [earned EXCEPT ![worker.seen] = IF useful THEN @ + 1 ELSE @]
          /\ worker' = [worker EXCEPT !.pc = "verdict"]
     \/ /\ pointer.now > 0
        /\ admission' = Observed(pointer.now, FALSE)
        /\ worker' = [worker EXCEPT !.pc = "verdict"] /\ UNCHANGED earned
     \/ pointer.now = 0 /\ worker' = IdleWorker /\ UNCHANGED <<admission, earned>>
     \/ /\ mishaps < LedgerFaults
        /\ worker' = [worker EXCEPT !.pc = "mark"] /\ UNCHANGED <<admission, earned>>
  /\ mishaps' = IF worker'.pc = "verdict" THEN mishaps ELSE mishaps + 1
  /\ UNCHANGED <<row, pointer, validating, replays, delivered>> /\ UNCHANGED storeVars

\* The verdict: enough samples, and useful_rate >= minimum_useful_rate; the quality, the
\* similarity and the baseline may still refuse.
Worthy == admission.samples >= MinSamples /\ admission.useful * RateDen >= RateNum * admission.samples

\* record_observation, second statement: the verdict, or none when it fails.
Verdict ==
  /\ worker.pc = "verdict"
  /\ \/ /\ \E good \in BOOLEAN : admission' = [admission EXCEPT !.admitted = good /\ Worthy]
        /\ worker' = [worker EXCEPT !.pc = "sampled"] /\ Smooth
     \/ Mishap /\ worker' = [worker EXCEPT !.pc = "mark"] /\ UNCHANGED admission
  /\ UNCHANGED <<row, pointer, validating, replays, delivered, earned>>
  /\ UNCHANGED storeVars

\* mark_validation: the next sample is an interval away. When it fails the row stays due.
MarkSampled ==
  LET r == worker.entry.id IN
  /\ worker.pc = "sampled" /\ worker' = [worker EXCEPT !.pc = "mark"]
  /\ \/ row' = [row EXCEPT ![r].sample = FALSE] /\ Smooth
     \/ UNCHANGED row /\ Mishap
  /\ UNCHANGED <<pointer, validating, admission, replays, delivered, earned>>
  /\ UNCHANGED storeVars

\* Mutant: the last attempt schedules another one.
AfterFailureAgain(w) == [w EXCEPT !.attempts = @ + 1, !.mirror = "retry", !.due = FALSE]

\* mark_mirror_retry: the row is closed as failed when its attempts are used up.
AfterFailure(w) ==
  IF w.attempts + 1 >= MirrorAttempts
  THEN [w EXCEPT !.attempts = @ + 1, !.mirror = "failed", !.closed = TRUE, !.due = TRUE]
  ELSE [w EXCEPT !.attempts = @ + 1, !.mirror = "retry", !.due = FALSE]

\* mark_mirror_success. Bound: the attempts of a mirrored row, which nothing reads, stop
\* counting at MirrorAttempts.
AfterSuccess(w) ==
  [w EXCEPT !.attempts = IF @ < MirrorAttempts THEN @ + 1 ELSE @,
            !.mirror = "mirrored", !.closed = TRUE, !.due = TRUE]

\* mark_mirror_success or mark_mirror_retry.
MarkMirrored ==
  LET r == worker.entry.id IN
  /\ worker.pc = "mark" /\ worker' = [worker EXCEPT !.pc = "take", !.entry = NoEntry, !.failed = FALSE]
  /\ \/ /\ row' = [row EXCEPT ![r] =
             IF worker.failed THEN AfterFailure(@) ELSE AfterSuccess(@)]
        /\ Smooth
     \/ UNCHANGED row /\ Mishap
  /\ UNCHANGED <<pointer, validating, admission, replays, delivered, earned>>
  /\ UNCHANGED storeVars

MirrorWorkerDies ==
  /\ worker.pc # "idle" /\ Mishap /\ worker' = IdleWorker
  /\ UNCHANGED <<row, pointer, validating, admission, replays, delivered, earned>>
  /\ UNCHANGED storeVars

LedgerNext ==
  \/ \E r \in Record : Send(r) \/ Admitted(r) \/ GiveUp(r) \/ RetryDue(r) \/ SampleDue(r)
  \/ PersistRecord \/ CooldownEnds \/ Publish \/ Restore \/ ScheduleSamples
  \/ Fetch \/ Take \/ ReplayEntry \/ Compare \/ Answer \/ Verdict \/ MarkSampled \/ MarkMirrored
  \/ MirrorWorkerDies

LedgerSpec == LedgerInit /\ [][LedgerNext]_ledgerVars

-----------------------------------------------------------------------------
\* A row is closed as mirrored only when one replay delivered every exchange of it, or
\* its attempts were used up before (mark_mirror_success after mirror_semantic_error;
\* the exception is a failed row that comes back for a sample).
MirroredMeansDelivered ==
  \A r \in Range(ids) : row[r].mirror = "mirrored" =>
    r \in delivered \/ replays[r] >= MirrorAttempts

\* A pending row is replayed at most max_attempts times, and once more for each failed
\* statement or crash: retries end, and an early sample costs an attempt like any other
\* (mark_mirror_retry, fetch_pending_mirror).
ReplaysBounded == \A r \in Record : replays[r] <= MirrorAttempts + mishaps

\* A snapshot is admitted on at least minimum_samples comparisons of its own, of which its
\* own useful answers make up minimum_useful_rate, even when the pointer moves while an
\* answer is awaited, a failure is charged to the new snapshot, and either statement of an
\* observation is lost (record_observation).
AdmissionEarned ==
  admission.admitted =>
    /\ admission.samples >= MinSamples
    /\ earned[admission.version] * RateDen >= RateNum * admission.samples

\* llm_ledger.rs:462: "once attempts are exhausted the row is marked failed and no
\* further mirror scheduling is attempted".
FailedStaysFailed ==
  [][\A r \in Record : row[r].mirror = "failed" => row'[r].mirror = "failed"]_ledgerVars
=============================================================================
