----------------------------- MODULE MarketLake ------------------------------
(***************************************************************************)
(* The market data lake (trading/datalake.rs): an append-only file that is *)
(* authoritative, a cache of samples per symbol in memory, a queue to a    *)
(* worker that mirrors both ways with Postgres, and the metadata that says *)
(* whether this build has filled the lake.                                 *)
(*                                                                         *)
(* A sample of a symbol is its capture time; the bucket of a sample and    *)
(* the windows it falls in are computed from that time, prices are left    *)
(* out.  A deque ordered by bucket with one sample per bucket is the set   *)
(* of its samples.  The lake (lakeVars) and its metadata (metaVars) share  *)
(* nothing but the process, so each has a next-state relation of its own.  *)
(***************************************************************************)
EXTENDS Integers, Sequences, FiniteSetsExt

CONSTANTS
  LakeSymbol,        \* exchange and symbol (market_feature_key)
  LakeReader,        \* decision cycles that ask for features
  BucketSeconds,     \* bucket_seconds
  LastSecond,        \* bound: the clock stops here
  LongWindow,        \* long_window_seconds
  ShortWindow,       \* short_window_seconds
  Retention,         \* retention_days, in seconds
  MinSamples,        \* min_samples
  FrameInterval,     \* frame_interval_seconds of the replay
  MirrorQueue,       \* MARKET_DATALAKE_POSTGRES_MIRROR_QUEUE_CAPACITY
  Ingests,           \* bound: batches ingested
  LakeRestarts       \* bound: restarts of the process

\* Times are whole seconds here.
ASSUME LakeAssumption == LongWindow \in Nat /\ ShortWindow \in Nat /\ Retention \in Nat

VARIABLES
  second,            \* now_ts()
  cache,             \* samples_by_symbol
  loaded,            \* loaded_symbols
  lines,             \* the file: a set of <<symbol, sample>>
  batch,             \* the batch merged and not yet appended
  reading,           \* what each reader claimed and has not loaded yet
  mirror,            \* the queue of the mirror worker
  rows,              \* gail_market_snapshots
  schemaReady,       \* schema_ready of the worker
  merged,            \* auxiliary: samples merged from snapshots and file, those the
                     \* horizon has passed left out
  ingests, restarts  \* for the bounds

lakeVars == <<second, cache, loaded, lines, batch, reading, mirror, rows,
              schemaReady, merged, ingests, restarts>>

BucketOf(t) == t \div BucketSeconds

\* cache_horizon_seconds
Horizon == Max({LongWindow, Min({2 * LongWindow, Retention})})

\* Samples of one symbol, or of several: the newest of every key wins.
Newest(S, Key(_)) == {x \in S : \A y \in S : Key(y) = Key(x) => y[2] <= x[2]}
BySymbol(x) == <<x[1], BucketOf(x[2])>>
ByBucket(x) == BucketOf(x[2])

\* dedupe_samples_by_symbol: one sample per symbol and bucket.
DedupeBySymbol(S) == Newest(S, BySymbol)

\* dedupe_samples: one sample per bucket, whatever its symbol; of two that are
\* as new, the one that comes first in the file.
Dedupe(S) ==
  {D \in SUBSET Newest(S, ByBucket) :
     /\ \A x, y \in D : ByBucket(x) = ByBucket(y) => x = y
     /\ \A x \in S : \E y \in D : ByBucket(x) = ByBucket(y)}

\* Mutant: the age of the cached sample is not compared.
MergeAny(c, S, replace) ==
  LET over(x) == replace /\ \E t \in S : BucketOf(t) = BucketOf(x)
      news == {t \in S : \A x \in c : BucketOf(x) = BucketOf(t) => replace}
      all == {x \in c : ~over(x)} \cup news
  IN  {x \in all : \A t \in S : x >= t - Horizon}

(***************************************************************************)
(* merge_samples_with_precedence: a sample replaces the one of its bucket  *)
(* only when it may and is as new; samples come in order of time, so what  *)
(* falls off the front is what is older than the horizon of the last.      *)
(***************************************************************************)
MergeCache(c, S, replace) ==
  LET older(x) == \E t \in S : BucketOf(t) = BucketOf(x) /\ replace /\ t >= x
      news == {t \in S : \A x \in c : BucketOf(x) = BucketOf(t) => replace /\ t >= x}
      all == {x \in c : ~older(x)} \cup news
  IN  {x \in all : \A t \in S : x >= t - Horizon}

Merge(S, replace) ==
  [s \in LakeSymbol |-> MergeCache(cache[s], {x[2] : x \in {y \in S : y[1] = s}}, replace)]

\* What of M the horizon of the samples S has not passed.
Within(M, S) == {x \in M : \A y \in S : y[1] = x[1] => x[2] >= y[2] - Horizon}

\* sample_from_snapshot: what was captured in the future is no sample.
Sampled(S) == {x \in S : x[2] <= second}
\* append_samples_to_file: lines are only added.
Appended(W) == lines \cup W
\* load_samples_from_file: the lines of the symbols that are not too old.
FileRead(T) == {x \in lines : x[1] \in T /\ x[2] >= second - Retention}
\* persist_samples_postgres: an upsert by symbol and bucket, whatever the age of the row.
Upserted(S) == {x \in rows : \A y \in S : BySymbol(x) # BySymbol(y)} \cup S
\* prune_postgres_retention
Pruned(R) == {x \in R : x[2] >= second - Retention}
\* load_samples_from_postgres
FoundRows(S) == {x \in rows : x[1] \in S /\ x[2] >= second - Retention}

\* try_send: a full queue drops the task.
Send(task) == IF Len(mirror) < MirrorQueue THEN Append(mirror, task) ELSE mirror

(***************************************************************************)
(* ingest_snapshots, the part under the lock: a snapshot of the future is  *)
(* dropped (sample_from_snapshot), the rest is merged before it is on disk.*)
(***************************************************************************)
IngestSnapshots(S) ==
  /\ batch = {} /\ ingests < Ingests
  /\ Sampled(S) # {}
  /\ batch' = DedupeBySymbol(Sampled(S))
  /\ cache' = Merge(batch', TRUE)
  /\ merged' = Within(merged \cup batch', batch')
  /\ ingests' = ingests + 1
  /\ UNCHANGED <<second, loaded, lines, reading, mirror, rows, schemaReady, restarts>>

\* append_samples_to_file, and the batch for the mirror: an append that fails
\* may have written some of the batch.
AppendSamples(W, ok) ==
  /\ batch # {} /\ (ok => W = batch)
  /\ lines' = Appended(W)
  /\ mirror' = IF ok THEN Send([do |-> "persist", what |-> batch]) ELSE mirror
  /\ batch' = {}
  /\ UNCHANGED <<second, cache, loaded, reading, rows, schemaReady, merged, ingests, restarts>>

(***************************************************************************)
(* ensure_symbols_loaded: symbols are claimed under the lock, then read.   *)
(* A reader that finds them claimed goes on without their history.         *)
(***************************************************************************)
ClaimSymbols(r, T) ==
  /\ reading[r] = {} /\ T \ loaded # {}
  /\ loaded' = loaded \cup T
  /\ reading' = [reading EXCEPT ![r] = T \ loaded]
  /\ UNCHANGED <<second, cache, lines, batch, mirror, rows, schemaReady, merged, ingests, restarts>>

\* load_samples_from_file and the read of the mirror that follows it.
ReadFile(r, ok) ==
  LET T == reading[r]
      S == FileRead(T)
  IN  /\ T # {}
      /\ \E D \in Dedupe(S) :
           /\ cache' = IF ok THEN Merge(D, TRUE) ELSE cache
           /\ merged' = IF ok THEN Within(merged \cup D, D) ELSE merged
      /\ mirror' = Send([do |-> "load", what |-> T])
      /\ reading' = [reading EXCEPT ![r] = {}]
      /\ UNCHANGED <<second, loaded, lines, batch, rows, schemaReady, ingests, restarts>>

\* retry_market_datalake_postgres: one operation with its retries succeeds or not.
MirrorOutcome == BOOLEAN

\* initialize_postgres_schema, on the first task: a failure drops the task.
MirrorSchema(ok) ==
  /\ mirror # <<>> /\ ~schemaReady
  /\ schemaReady' = ok
  /\ mirror' = IF ok THEN mirror ELSE Tail(mirror)
  /\ UNCHANGED <<second, cache, loaded, lines, batch, reading, rows, merged, ingests, restarts>>

\* A batch is persisted; when it is due, maybe_prune_postgres follows, and may fail
\* as well.
MirrorPersist(ok, prune) ==
  /\ mirror # <<>> /\ schemaReady /\ Head(mirror).do = "persist"
  /\ LET now == IF ok THEN Upserted(Head(mirror).what) ELSE rows
     IN  rows' = IF ok /\ prune THEN Pruned(now) ELSE now
  /\ mirror' = Tail(mirror)
  /\ UNCHANGED <<second, cache, loaded, lines, batch, reading, schemaReady, merged, ingests, restarts>>

\* load_samples_from_postgres for each symbol; what the cache has stays.
MirrorLoad(S) ==
  /\ mirror # <<>> /\ schemaReady /\ Head(mirror).do = "load"
  /\ S \in SUBSET Head(mirror).what
  /\ LET found == DedupeBySymbol(FoundRows(S))
     IN  cache' = Merge(found, FALSE) /\ merged' = Within(merged, found)
  /\ mirror' = Tail(mirror)
  /\ UNCHANGED <<second, loaded, lines, batch, reading, rows, schemaReady, ingests, restarts>>

LakeTick ==
  /\ second < LastSecond /\ second' = second + 1
  /\ UNCHANGED <<cache, loaded, lines, batch, reading, mirror, rows, schemaReady, merged,
                 ingests, restarts>>

\* MarketDataLake::new after a stop: only the file and the rows remain.
LakeRestart ==
  /\ restarts < LakeRestarts /\ restarts' = restarts + 1
  /\ cache' = [s \in LakeSymbol |-> {}] /\ loaded' = {} /\ merged' = {}
  /\ batch' = {} /\ reading' = [r \in LakeReader |-> {}]
  /\ mirror' = <<>> /\ schemaReady' = FALSE
  /\ UNCHANGED <<second, lines, rows, ingests>>

LakeInit ==
  /\ second = 1 /\ cache = [s \in LakeSymbol |-> {}] /\ loaded = {} /\ lines = {}
  /\ batch = {} /\ reading = [r \in LakeReader |-> {}] /\ mirror = <<>> /\ rows = {}
  /\ schemaReady = FALSE /\ merged = {} /\ ingests = 0 /\ restarts = 0

\* A batch is one poll of some symbols.
LakeNext ==
  \/ \E T \in SUBSET LakeSymbol, t \in 1..(second + 1) : IngestSnapshots(T \X {t})
  \/ \E W \in SUBSET batch, ok \in BOOLEAN : AppendSamples(W, ok)
  \/ \E r \in LakeReader, T \in SUBSET LakeSymbol : ClaimSymbols(r, T)
  \/ \E r \in LakeReader, ok \in BOOLEAN : ReadFile(r, ok)
  \/ \E ok \in MirrorOutcome : MirrorSchema(ok)
  \/ \E ok \in MirrorOutcome, prune \in BOOLEAN : MirrorPersist(ok, prune)
  \/ \E S \in SUBSET LakeSymbol : MirrorLoad(S)
  \/ LakeTick
  \/ LakeRestart

LakeSpec == LakeInit /\ [][LakeNext]_lakeVars

(***************************************************************************)
(* What is computed from the cache.                                        *)
(***************************************************************************)
\* window_slice: the samples since t, or the last one.
WindowSlice(c, t) == IF \E x \in c : x >= t THEN {x \in c : x >= t} ELSE {Max(c)}

\* compute_features: none, or the windows the figures are taken from.
Features(c) ==
  IF Cardinality(c) < MinSamples \/ Cardinality(WindowSlice(c, Max(c) - LongWindow)) < MinSamples
  THEN {}
  ELSE {[last  |-> Max(c),
         short |-> WindowSlice(c, Max(c) - ShortWindow),
         long  |-> WindowSlice(c, Max(c) - LongWindow)]}

\* build_native_backtest_frames: of each symbol the first sample of an interval,
\* with the features of the samples up to it; a frame is as late as its latest.
FrameRow(s, x) == {[sym |-> s, at |-> x, features |-> f] : f \in Features({z \in cache[s] : z <= x})}
FirstOfInterval(s) ==
  {x \in cache[s] : \A z \in cache[s] : z \div FrameInterval = x \div FrameInterval => z >= x}
Frames ==
  LET all == UNION {UNION {FrameRow(s, x) : x \in FirstOfInterval(s)} : s \in LakeSymbol}
      at(i) == {r \in all : r.at \div FrameInterval = i}
  IN  {[timestamp |-> Max({r.at : r \in at(i)}), rows |-> at(i)] :
         i \in {r.at \div FrameInterval : r \in all}}

(* The newest sample of a bucket stays until the horizon has passed it: neither a
   late read of the file, which may lack what an ingestion has merged and not yet
   appended, nor the mirror drops it or puts an older one in its place
   (merge_samples_with_precedence). *)
NewestKept ==
  \A x \in merged :
    /\ \E c \in cache[x[1]] : BucketOf(c) = BucketOf(x[2])
    /\ \A c \in cache[x[1]] : BucketOf(c) = BucketOf(x[2]) => c >= x[2]

(* A frame of the replay holds nothing observed after its timestamp, and the
   features of a row are those of samples up to the row. *)
FramesDontLookAhead ==
  \A f \in Frames : \A r \in f.rows :
    r.at <= f.timestamp /\ r.features.last <= r.at /\ Max(r.features.long) <= r.at

-----------------------------------------------------------------------------
(***************************************************************************)
(* The metadata: which build filled the lake, and how its last bootstrap   *)
(* went.  A build brings its schema version.  The file is written in place,*)
(* so a stop during the write leaves a file that does not parse.           *)
(***************************************************************************)
CONSTANTS
  Build,             \* builds of the program, 1..n
  MetaStops          \* bound: restarts of the process

ASSUME MetaAssumption == 1 \in Build /\ 0 \notin Build

VARIABLES
  build,             \* current_build_id
  metaDisk,          \* the metadata file, or NoMeta
  metaData,          \* state.metadata
  owed,              \* bootstrap_reason
  writing,           \* the metadata that is being written, or NoMeta
  attempt,           \* auxiliary: how the last bootstrap of each build went
  stops              \* for the bound

metaVars == <<build, metaDisk, metaData, owed, writing, attempt, stops>>

NoMeta == [done |-> FALSE, build |-> 0, schema |-> 0, status |-> "none"]

\* Mutant: a bootstrap that was running at the stop is not resumed.
ReasonForgetsRunning(m, b) ==
  CASE ~m.done                -> "initial_startup"
    [] m.schema # b           -> "schema_change"
    [] m.build # b            -> "build_change"
    [] m.status = "failed"    -> "retry_failed_bootstrap"
    [] OTHER                  -> "none"

\* compute_bootstrap_reason
BootstrapReason(m, b) ==
  CASE ~m.done                -> "initial_startup"
    [] m.schema # b           -> "schema_change"
    [] m.build # b            -> "build_change"
    [] m.status = "failed"    -> "retry_failed_bootstrap"
    [] m.status = "running"   -> "retry_interrupted_bootstrap"
    [] OTHER                  -> "none"

\* The lake's mark_bootstrap_* set the metadata under the lock and then write it.
MarkStarted ==
  /\ writing = NoMeta /\ owed # "none" /\ attempt[build] # "running"
  /\ metaData' = [metaData EXCEPT !.schema = build, !.status = "running"]
  /\ writing' = metaData' /\ attempt' = [attempt EXCEPT ![build] = "running"]
  /\ UNCHANGED <<build, metaDisk, owed, stops>>

MarkCompleted ==
  /\ writing = NoMeta /\ attempt[build] = "running"
  /\ metaData' = [done |-> TRUE, build |-> build, schema |-> build, status |-> "ok"]
  /\ writing' = metaData' /\ owed' = "none" /\ attempt' = [attempt EXCEPT ![build] = "ok"]
  /\ UNCHANGED <<build, metaDisk, stops>>

MarkFailed ==
  /\ writing = NoMeta /\ attempt[build] = "running"
  /\ metaData' = [metaData EXCEPT !.schema = build, !.status = "failed"]
  /\ writing' = metaData' /\ attempt' = [attempt EXCEPT ![build] = "failed"]
  /\ UNCHANGED <<build, metaDisk, owed, stops>>

\* persist_metadata_file; the mirror of the metadata is never read.
PersistMetadata(ok) ==
  /\ writing # NoMeta /\ writing' = NoMeta
  /\ metaDisk' = IF ok THEN writing ELSE metaDisk
  /\ UNCHANGED <<build, metaData, owed, attempt, stops>>

\* A stop, perhaps in the middle of a write, and the start of a build
\* (load_metadata_from_file): a file that does not parse is no metadata.
MetaRestart(b, torn) ==
  /\ stops < MetaStops /\ stops' = stops + 1
  /\ torn => writing # NoMeta
  /\ metaDisk' = IF torn THEN NoMeta ELSE metaDisk
  /\ build' = b /\ metaData' = metaDisk'
  /\ owed' = BootstrapReason(metaDisk', b)
  /\ writing' = NoMeta
  /\ attempt' = [attempt EXCEPT ![build] = IF @ = "running" THEN "interrupted" ELSE @]

MetaInit ==
  /\ build = 1 /\ metaDisk = NoMeta /\ metaData = NoMeta /\ owed = "initial_startup"
  /\ writing = NoMeta /\ attempt = [b \in Build |-> "none"] /\ stops = 0

MetaNext ==
  \/ MarkStarted \/ MarkCompleted \/ MarkFailed
  \/ \E ok \in BOOLEAN : PersistMetadata(ok)
  \/ \E b \in Build, torn \in BOOLEAN : MetaRestart(b, torn)

MetaSpec == MetaInit /\ [][MetaNext]_metaVars

(* A process that owes no bootstrap runs a build whose last bootstrap came to
   its end: no failure, interruption or torn file is taken for a filled lake. *)
FilledByThisBuild == owed = "none" => attempt[build] = "ok"
=============================================================================
