---------------------------- MODULE ApiRegistry ------------------------------
(***************************************************************************)
(* The two registries of what Gail observes of APIs: the issues            *)
(* (api_issues.rs) and the adaptive schema (adaptive_schema.rs).  Each is  *)
(* a value behind a mutex that detached tasks write to a file in place,    *)
(* the issues also to Postgres, under a writer with a cool-down.           *)
(*                                                                         *)
(* A registry is its version and what the properties ask of it; texts,     *)
(* counts and lists of recent events are left out.                         *)
(***************************************************************************)
EXTENDS Integers, FiniteSetsExt

CONSTANTS
  Route,             \* endpoints of an API or models of a provider
  Trouble,           \* categories of issues
  Hint,              \* values of a numeric hint
  SaveInterval,      \* SAVE_MIN_INTERVAL_SECONDS of the schema
  MaxDirty,          \* SAVE_MAX_DIRTY_OBSERVATIONS
  BaseCool, MaxCool, \* backoff of the Postgres writer
  LastTick,          \* bound: the clock stops here
  Observations,      \* bound: observations
  RegistryStops      \* bound: restarts

ASSUME SchemaAssumption == MaxDirty \in Nat \ {0}

VARIABLES
  tick,              \* now_ts()
  issues,            \* the issues that are active: <<route, category>>
  version,           \* ApiIssueRegistry::version
  saves,             \* detached saves: [stage, version, issues]
  issueFile,         \* what the file of issues holds
  pg,                \* PostgresWriterState
  schemaVersion, hint, dirtyObs, lastSave,   \* the adaptive schema's store
  schemaSaves, schemaFile,
  lastSeen,          \* auxiliary: how each route was last observed
  handed,            \* auxiliary: the last version handed to a save
  observed, stopped  \* for the bounds

issueVars == <<issues, version, saves, issueFile, pg, lastSeen, handed>>
schemaVars == <<schemaVersion, hint, dirtyObs, lastSave, schemaSaves, schemaFile>>
registryVars == <<tick, issueVars, schemaVars, observed, stopped>>

NoRegistry == [version |-> 0, issues |-> {}]
NoSchema == [version |-> 0, hint |-> 0]
NoWriterYet == [streak |-> 0, until |-> 0]

\* save_request_if_due with force, and spawn_save.
SaveIssues ==
  /\ saves' = saves \cup {[stage |-> "file", version |-> version', issues |-> issues']}
  /\ handed' = version'

\* observe_failure: the issue of a category is active again; the schema of the
\* route learns of it too, and of a floor for trades named in the message.
ObserveFailure(r, c) ==
  /\ issues' = issues \cup {<<r, c>>}
  /\ version' = version + 1
  /\ lastSeen' = [lastSeen EXCEPT ![r] = "failed"]
  /\ SaveIssues

\* Mutant: the issues of one category are resolved.
RecoveryOf(r) == {CHOOSE i \in issues : i[1] = r}
\* observe_recovery: every category of the route.
Recovered1(r) == {i \in issues : i[1] = r}

ObserveRecovery(r) ==
  /\ lastSeen' = [lastSeen EXCEPT ![r] = "ok"]
  /\ IF \E i \in issues : i[1] = r
     THEN issues' = issues \ Recovered1(r) /\ version' = version + 1 /\ SaveIssues
     ELSE UNCHANGED <<issues, version, saves, handed>>

\* observe_numeric_hint: a hint only rises.
Raised(h) == Max({hint, h})

\* Mutant: the volume of observations is not looked at.
SaveDueByTime(n) == lastSave = 0 \/ tick - lastSave >= SaveInterval
\* save_request_if_due of the schema
SaveDue(n) == lastSave = 0 \/ tick - lastSave >= SaveInterval \/ n >= MaxDirty

\* mark_dirty_and_maybe_save after an observation, perhaps one with a hint.
SchemaObserves(h) ==
  /\ schemaVersion' = schemaVersion + 1
  /\ hint' = Raised(h)
  /\ IF SaveDue(dirtyObs + 1)
     THEN /\ dirtyObs' = 0 /\ lastSave' = tick
          /\ schemaSaves' = schemaSaves \cup {[version |-> schemaVersion', hint |-> hint']}
     ELSE dirtyObs' = dirtyObs + 1 /\ UNCHANGED <<lastSave, schemaSaves>>
  /\ UNCHANGED schemaFile

\* One call to an API, observed by both registries.
ObserveCall(r, c, ok, h) ==
  /\ observed < Observations /\ observed' = observed + 1
  /\ IF ok THEN ObserveRecovery(r) ELSE ObserveFailure(r, c)
  /\ SchemaObserves(IF ok THEN 0 ELSE h)
  /\ UNCHANGED <<tick, issueFile, pg, stopped>>

\* persist_file writes in place; the save goes on to Postgres whether it failed or not.
WriteIssues(s, ok) ==
  /\ s.stage = "file"
  /\ issueFile' = IF ok THEN [version |-> s.version, issues |-> s.issues] ELSE issueFile
  /\ saves' = (saves \ {s}) \cup {[s EXCEPT !.stage = "postgres"]}
  /\ UNCHANGED <<tick, issues, version, pg, lastSeen, handed, schemaVars,
                 observed, stopped>>

\* apply_postgres_failure_backoff
CoolDown(w, result) ==
  [streak |-> w.streak + 1,
   until |-> tick + (IF result = "crowded" THEN MaxCool ELSE Min({BaseCool * 2 ^ w.streak, MaxCool}))]
\* persist_postgres: one writer at a time; it connects, makes its tables and upserts
\* every issue of the snapshot, or cools down.  The tables are never read back.
Upsert(s, result) ==
  /\ s.stage = "postgres" /\ (pg.until > tick => result = "ok")
  /\ saves' = saves \ {s}
  /\ pg' = IF pg.until > tick THEN pg ELSE IF result = "ok" THEN NoWriterYet ELSE CoolDown(pg, result)
  /\ UNCHANGED <<tick, issues, version, issueFile, lastSeen, handed, schemaVars, observed, stopped>>

WriteSchema(s, ok) ==
  /\ schemaSaves' = schemaSaves \ {s}
  /\ schemaFile' = IF ok THEN s ELSE schemaFile
  /\ UNCHANGED <<tick, issueVars, schemaVersion, hint, dirtyObs, lastSave, observed, stopped>>

RegistryTick ==
  /\ tick < LastTick /\ tick' = tick + 1
  /\ UNCHANGED <<issueVars, schemaVars, observed, stopped>>

\* A restart: configure_persistence of both.  The issues are replaced by what the
\* file has, or nothing, and saved; the schema is merged.
RegistryRestart(okI, okS) ==
  LET i == IF okI THEN issueFile ELSE NoRegistry
      s == IF okS THEN schemaFile ELSE NoSchema
  IN  /\ stopped < RegistryStops /\ stopped' = stopped + 1
      /\ issues' = i.issues /\ version' = i.version /\ handed' = i.version
      /\ saves' = {[stage |-> "file", version |-> i.version, issues |-> i.issues]}
      /\ pg' = NoWriterYet
      /\ lastSeen' = [r \in Route |-> "unknown"]
      /\ schemaVersion' = s.version /\ hint' = s.hint /\ dirtyObs' = 0 /\ lastSave' = 0
      /\ schemaSaves' = {}
      /\ UNCHANGED <<tick, issueFile, schemaFile, observed>>

RegistryInit ==
  /\ tick = 1 /\ issues = {} /\ version = 0 /\ saves = {}
  /\ issueFile = NoRegistry /\ pg = NoWriterYet
  /\ schemaVersion = 0 /\ hint = 0 /\ dirtyObs = 0 /\ lastSave = 0 /\ schemaSaves = {}
  /\ schemaFile = NoSchema
  /\ lastSeen = [r \in Route |-> "unknown"] /\ handed = 0 /\ observed = 0 /\ stopped = 0

RegistryNext ==
  \/ \E r \in Route, c \in Trouble, ok \in BOOLEAN, h \in Hint : ObserveCall(r, c, ok, h)
  \/ \E s \in saves, ok \in BOOLEAN : WriteIssues(s, ok)
  \/ \E s \in saves, result \in {"ok", "crowded", "failed"} : Upsert(s, result)
  \/ \E s \in schemaSaves, ok \in BOOLEAN : WriteSchema(s, ok)
  \/ RegistryTick
  \/ \E okI, okS \in BOOLEAN : RegistryRestart(okI, okS)

RegistrySpec == RegistryInit /\ [][RegistryNext]_registryVars

(* An issue of a route is active exactly when the route was last seen to fail,
   whatever its categories; every change of the issues was handed to a save, and
   fewer than MaxDirty observations of the schema wait to be saved. *)
RegistriesAreTrue ==
  /\ \A r \in Route : lastSeen[r] # "unknown" => (lastSeen[r] = "failed" <=> \E i \in issues : i[1] = r)
  /\ handed = version
  /\ dirtyObs < MaxDirty
=============================================================================
