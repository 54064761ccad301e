---------------------------- MODULE MetricsStore ----------------------------
(***************************************************************************)
(* MetricsStore of src/src/metrics.rs.  Every operation changes the data   *)
(* under the inner mutex, clones it, unlocks, and saves the clone under a  *)
(* second mutex by writing a temporary file and renaming it.  A request    *)
(* awaits the save of each of its operations before the next one.  The     *)
(* process may crash and restart from the file.                            *)
(***************************************************************************)
EXTENDS Integers, FiniteSets

CONSTANTS
  Tracked,   \* completion requests
  Measured,      \* candidate ids
  Profile,   \* routing_profile_key values
  Source,    \* response-time modalities other than "all"
  Nobody,    \* the persist lock is free
  Absent,    \* the metrics file does not exist
  Torn,      \* the metrics file does not parse
  MaxCrash   \* bound: crashes in a behaviour

ASSUME MetricsConstants ==
  /\ Nobody \notin Tracked
  /\ MaxCrash \in Nat
  /\ IsFiniteSet(Tracked) /\ IsFiniteSet(Profile) /\ IsFiniteSet(Source)
  /\ "all" \notin Source

VARIABLES
  mem,      \* the MetricsData behind the inner mutex
  file,     \* the metrics file
  stage,    \* how far each request has come
  io,       \* its pending save: none, queued for the lock, writing, written
  snap,     \* the clone each pending save will write
  lock,     \* holder of the persist lock
  crashes,  \* crashes so far
  carried   \* requests without an outcome in the data this process loaded

metricsVars == <<mem, file, stage, io, snap, lock, crashes, carried>>

Error   == {"none", "modelMissing", "other"}   \* StatsBucket.last_error
Bucket  == [succ : Nat, fail : Nat, stale : Nat, err : Error]
Flow    == [received : Nat, inProgress : Nat, replied : Nat, failed : Nat]
Modality == Source \cup {"all"}
Data    == [flow : Flow, stats : [Measured -> Bucket],
            roles : [Measured -> [Profile -> Bucket]], times : [Modality -> Nat]]

NoFlow   == [received |-> 0, inProgress |-> 0, replied |-> 0, failed |-> 0]
NoBucket == [succ |-> 0, fail |-> 0, stale |-> 0, err |-> "none"]
NoData   == [flow |-> NoFlow, stats |-> [c \in Measured |-> NoBucket],
             roles |-> [c \in Measured |-> [p \in Profile |-> NoBucket]],
             times |-> [m \in Modality |-> 0]]

\* What is in the file is data, or its absence, or what does not parse.
ASSUME FileAssumption == Absent \notin Data /\ Torn \notin Data /\ Absent # Torn

Live == {r \in Tracked : stage[r] \in {"received", "worked", "probed"}}
Abandoned == {r \in Tracked : stage[r] = "abandoned"}
Busy == {r \in Tracked : io[r] # "none"}
-----------------------------------------------------------------------------
(* merge_stats: one outcome of a candidate. *)
MergeStats(b, ok, err) ==
  [b EXCEPT !.succ = IF ok THEN @ + 1 ELSE @,
            !.fail = IF ok THEN @ ELSE @ + 1,
            !.err  = err]

(* Mutant: the decayed failures are forgotten. *)
DecayForgets(b) ==
  IF b.err = "modelMissing" THEN [b EXCEPT !.fail = 0, !.err = "none"] ELSE b

(* decay_stale_model_failures: a healthy probe retires the failures of a
   bucket whose last error was a missing model. *)
Decay(b) ==
  IF b.err = "modelMissing"
  THEN [b EXCEPT !.stale = @ + b.fail, !.fail = 0, !.err = "none"]
  ELSE b

(* The tail of every operation: publish the new data and clone it for the
   save that follows the unlock. *)
Publish(r, data) ==
  /\ io[r] = "none"
  /\ mem' = data
  /\ snap' = [snap EXCEPT ![r] = data]
  /\ io' = [io EXCEPT ![r] = "queued"]
  /\ UNCHANGED <<file, lock, crashes, carried>>

(* record_request_received *)
ReceivedBy(r) ==
  /\ stage[r] = "new"
  /\ stage' = [stage EXCEPT ![r] = "received"]
  /\ Publish(r, [mem EXCEPT !.flow.received = @ + 1, !.flow.inProgress = @ + 1])

(* record_result_with_context: the candidate's bucket and its profile's. *)
RecordResult(r, c, p, ok, err) ==
  /\ stage[r] = "received"
  /\ ok <=> err = "none"
  /\ stage' = [stage EXCEPT ![r] = "worked"]
  /\ Publish(r, [mem EXCEPT !.stats[c] = MergeStats(@, ok, err),
                            !.roles[c][p] = MergeStats(@, ok, err)])

(* record_health: a healthy probe decays the candidate's buckets, each by its
   own last error. *)
RecordHealth(r, c, ok) ==
  /\ stage[r] = "worked"
  /\ stage' = [stage EXCEPT ![r] = "probed"]
  /\ Publish(r, IF ~ok THEN mem
                ELSE [mem EXCEPT !.stats[c] = Decay(@),
                                 !.roles[c] = [p \in Profile |-> Decay(@[p])]])

(* record_request_terminal; the gauge is lowered with saturating_sub. *)
Terminal(r, ok) ==
  /\ r \in Live
  /\ stage' = [stage EXCEPT ![r] = "terminal"]
  /\ Publish(r, [mem EXCEPT !.flow.replied = IF ok THEN @ + 1 ELSE @,
                            !.flow.failed = IF ok THEN @ ELSE @ + 1,
                            !.flow.inProgress = IF @ = 0 THEN 0 ELSE @ - 1])

(* Mutant: the aggregate bucket is only fed by its own modality. *)
ResponseTimeSplit(r, m) ==
  /\ stage[r] = "terminal"
  /\ stage' = [stage EXCEPT ![r] = "timed"]
  /\ Publish(r, [mem EXCEPT !.times[m] = @ + 1])

(* record_ai_response_time_with_prompt: the modality's bucket and, unless it
   is the aggregate itself, the aggregate. *)
ResponseTime(r, m) ==
  /\ stage[r] = "terminal"
  /\ stage' = [stage EXCEPT ![r] = "timed"]
  /\ Publish(r, [mem EXCEPT !.times = [n \in Modality |->
                   IF n \in {m, "all"} THEN @[n] + 1 ELSE @[n]]])

(* record_api_source_response_time: a bucket per calling application. *)
ApiResponseTime(r) ==
  /\ stage[r] = "timed"
  /\ stage' = [stage EXCEPT ![r] = "done"]
  /\ Publish(r, mem)

(* record_orchestration_event and record_trading_semantic: counters that no
   property here tells apart, each followed by a save like the others. *)
OtherEvent(r) ==
  /\ r \in Live
  /\ Publish(r, mem)
  /\ UNCHANGED stage
-----------------------------------------------------------------------------
(* save gets the persist lock, in whatever order the tasks reach it. *)
LockPersist(r) ==
  /\ io[r] = "queued"
  /\ lock = Nobody
  /\ lock' = r
  /\ io' = [io EXCEPT ![r] = "writing"]
  /\ UNCHANGED <<mem, file, stage, snap, crashes, carried>>

(* Mutant: the file is written in place. *)
WriteInPlace(r) ==
  /\ io[r] = "writing"
  /\ file' = Torn
  /\ io' = [io EXCEPT ![r] = "written"]
  /\ UNCHANGED <<mem, stage, snap, lock, crashes, carried>>

(* fs::write of the temporary file. *)
WriteTemporary(r) ==
  /\ io[r] = "writing"
  /\ io' = [io EXCEPT ![r] = "written"]
  /\ UNCHANGED <<mem, file, stage, snap, lock, crashes, carried>>

(* fs::rename over the metrics file. *)
Rename(r) ==
  /\ io[r] = "written"
  /\ file' = snap[r]
  /\ io' = [io EXCEPT ![r] = "none"]
  /\ lock' = Nobody
  /\ snap' = [snap EXCEPT ![r] = NoData]
  /\ UNCHANGED <<mem, stage, crashes, carried>>

(* The request's future is dropped: a queued or unfinished save goes with it,
   and a request that was being served is abandoned without an outcome. *)
DropRequest(r) ==
  /\ stage[r] \notin {"new", "done", "dropped", "abandoned"}
  /\ stage' = [stage EXCEPT ![r] = IF r \in Live THEN "abandoned" ELSE "dropped"]
  /\ io' = [io EXCEPT ![r] = "none"]
  /\ lock' = IF lock = r THEN Nobody ELSE lock
  /\ snap' = [snap EXCEPT ![r] = NoData]
  /\ UNCHANGED <<mem, file, crashes, carried>>

Unaccounted(flow) == flow.received - (flow.replied + flow.failed)

(* Mutant: the gauge of the previous process is kept. *)
LoadedVerbatim(reset) ==
  IF file \in {Absent, Torn} \/ reset THEN NoData ELSE file

(* MetricsStore::new: an unreadable file is an empty one; a serving process
   that is told to reset forgets outcomes and flow and saves at once; the
   gauge always starts at zero. *)
Loaded(reset) ==
  LET data == IF file \in {Absent, Torn} THEN NoData ELSE file
  IN  IF reset THEN NoData ELSE [data EXCEPT !.flow.inProgress = 0]

(* The process dies and a new one loads the file. *)
CrashRestart(reset) ==
  /\ crashes < MaxCrash
  /\ crashes' = crashes + 1
  /\ mem' = Loaded(reset)
  /\ carried' = Unaccounted(mem'.flow)
  /\ file' = IF reset THEN mem' ELSE file
  /\ stage' = [r \in Tracked |-> IF stage[r] = "new" THEN "new" ELSE "dropped"]
  /\ io' = [r \in Tracked |-> "none"]
  /\ lock' = Nobody
  /\ snap' = [r \in Tracked |-> NoData]
-----------------------------------------------------------------------------
MetricsInit ==
  /\ mem = NoData
  /\ file = Absent
  /\ stage = [r \in Tracked |-> "new"]
  /\ io = [r \in Tracked |-> "none"]
  /\ snap = [r \in Tracked |-> NoData]
  /\ lock = Nobody
  /\ crashes = 0
  /\ carried = 0

Record(r) ==
  \/ ReceivedBy(r)
  \/ \E c \in Measured, p \in Profile, ok \in BOOLEAN, err \in Error :
       RecordResult(r, c, p, ok, err)
  \/ \E c \in Measured, ok \in BOOLEAN : RecordHealth(r, c, ok)
  \/ \E ok \in BOOLEAN : Terminal(r, ok)
  \/ \E m \in Modality : ResponseTime(r, m)
  \/ ApiResponseTime(r) \/ OtherEvent(r)

MetricsNext ==
  \/ \E r \in Tracked : \/ Record(r) \/ DropRequest(r)
                        \/ LockPersist(r) \/ WriteTemporary(r) \/ Rename(r)
  \/ \E reset \in BOOLEAN : CrashRestart(reset)

MetricsSpec == MetricsInit /\ [][MetricsNext]_metricsVars
-----------------------------------------------------------------------------
(* The file is absent or a whole snapshot at every moment a scrape or a
   restart could read it. *)
NeverTorn == file # Torn

(* The sum of what n counts: as many pairs for each as it counts for it. *)
Tally(n) == Cardinality(UNION {{x} \X (1..n[x]) : x \in DOMAIN n})

(* A candidate's outcomes are its profiles' outcomes: successes agree, and
   failures agree once the retired ones are counted, through decay, saves,
   crashes and resets. *)
OutcomesConserved ==
  \A c \in Measured :
    /\ mem.stats[c].succ = Tally([p \in Profile |-> mem.roles[c][p].succ])
    /\ mem.stats[c].fail + mem.stats[c].stale
         = Tally([p \in Profile |-> mem.roles[c][p].fail + mem.roles[c][p].stale])

(* The in-progress gauge counts the requests of this process that are being
   served or were abandoned when their client went away, and every other
   request received has an outcome, except those that an earlier process left
   without one. *)
FlowAccounted ==
  /\ mem.flow.inProgress = Cardinality(Live) + Cardinality(Abandoned)
  /\ mem.flow.received
       = mem.flow.replied + mem.flow.failed + mem.flow.inProgress + carried

(* The aggregate response-time bucket has a sample for every sample of a
   modality. *)
AggregateCoversModalities ==
  mem.times["all"] >= Tally([m \in Source |-> mem.times[m]])

(* The file is never torn, the flow counters account for every request across
   drops and restarts, and no outcome is lost or counted twice between a
   candidate and its profiles (MetricsStore::save, record_request_terminal,
   record_result_with_context, decay_stale_model_failures). *)
MetricsAreSound == NeverTorn /\ FlowAccounted /\ OutcomesConserved /\ AggregateCoversModalities

(* When no save is pending the file holds the current data: "metrics writes
   must be ordered". *)
FileCurrentAtRest == Busy = {} /\ file # Absent => file = mem
=============================================================================
