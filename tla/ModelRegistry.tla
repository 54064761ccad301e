---------------------------- MODULE ModelRegistry ----------------------------
(***************************************************************************)
(* The registry of learned (ELM) models: src/elm/mod.rs, lifecycle.rs. One *)
(* index file, replaced by rename under an advisory writer lock, and in    *)
(* every process a copy of it that is refreshed by reading the file again. *)
(* One task is modelled; a model is identified with the job that trains    *)
(* it. The artifacts are immutable and verified, so the snapshot a process *)
(* serves is determined by its copy of the index (Serving).                *)
(***************************************************************************)
EXTENDS Naturals, Sequences, FiniteSets

CONSTANTS
  Models,       \* model ids, minted by training
  NoModel,
  Processes,    \* processes that have the registry open
  Fixtures,     \* models trained from fixture data
  Schema,       \* [Models -> anything]: feature schema and scopes of the artifact
  Keys,         \* idempotency keys of rollbacks
  MaxCanary     \* canary_max_decisions of the promotion policy

ASSUME RegistryAssumption ==
  /\ NoModel \notin Models
  /\ Fixtures \subseteq Models
  /\ MaxCanary \in Nat

VARIABLES
  file,         \* registry-v1.json
  view          \* [Processes -> the copy in RegistryState]

registryVars == <<file, view>>

Stages == {"absent", "candidate", "trained", "evaluated", "qualified", "shadow",
           "canary", "active", "rejected", "quarantined", "retired", "rolled_back"}

ServingStages == {"qualified", "shadow", "canary", "active"}

RegistryFile ==
  [revision : Nat, records : Seq(Models), stage : [Models -> Stages],
   updated : [Models -> Nat], champion : Models \cup {NoModel},
   used : [Models -> Nat], rollbacks : [Keys -> Models \cup {NoModel}]]

EmptyFile ==
  [revision |-> 0, records |-> <<>>, stage |-> [m \in Models |-> "absent"],
   updated |-> [m \in Models |-> 0], champion |-> NoModel,
   used |-> [m \in Models |-> 0], rollbacks |-> [k \in Keys |-> NoModel]]

allowed_transition(from, to) ==
  \/ from = "candidate" /\ to \in {"trained", "rejected", "quarantined"}
  \/ from = "trained" /\ to \in {"evaluated", "rejected", "quarantined"}
  \/ from = "evaluated" /\ to \in {"qualified", "rejected", "quarantined"}
  \/ from = "qualified" /\ to \in {"shadow", "rejected", "quarantined", "retired"}
  \/ from = "shadow"
       /\ to \in {"canary", "active", "rejected", "quarantined", "retired", "rolled_back"}
  \/ from = "canary"
       /\ to \in {"active", "shadow", "rejected", "quarantined", "retired", "rolled_back"}
  \/ from = "active"
       /\ to \in {"shadow", "rejected", "quarantined", "retired", "rolled_back"}
  \/ from \in {"rolled_back", "rejected", "quarantined"} /\ to = "retired"

\* A record that load_champions turns into a serving snapshot.
Servable(f, m) == f.stage[m] \in ServingStages /\ m \notin Fixtures

\* champion(): the snapshot restored from the index, if its record still serves.
Serving(p) ==
  LET c == view[p].champion
  IN  IF c # NoModel /\ Servable(view[p], c) THEN c ELSE NoModel

\* find_dataset: the newest record that was trained from the same dataset.
NewestOf(f, same) ==
  LET at == {i \in DOMAIN f.records : f.records[i] \in same}
  IN  IF at = {} THEN NoModel
      ELSE f.records[CHOOSE i \in at : \A j \in at : j <= i]

-----------------------------------------------------------------------------
(* refresh_locked: only a higher revision replaces the copy.               *)
Refreshed(p) == IF file.revision > view[p].revision THEN file ELSE view[p]

Refresh(p) ==
  /\ view' = [view EXCEPT ![p] = Refreshed(p)]
  /\ UNCHANGED file

\* open: the copy is what the file holds.
Open(p) ==
  /\ view' = [view EXCEPT ![p] = file]
  /\ UNCHANGED file

(* An operation that holds the writer lock has refreshed its copy. It may  *)
(* leave the file alone; it may replace it (persist_registry), after which *)
(* the copy follows; and the write may fail before the rename or after it, *)
(* when the directory is synced: the copy then stays behind.               *)
Leave(p) == Refresh(p)

Persist(p, next) ==
  /\ file' = next
  /\ view' = [view EXCEPT ![p] = next]

PersistFails(p, next) ==
  /\ view' = [view EXCEPT ![p] = Refreshed(p)]
  /\ file' \in {file, next}

\* expected_revision is the revision of the caller's copy before the lock.
Conflict(p) == file.revision # view[p].revision

\* publish_candidate: a new record in stage trained.
Published(f, m) ==
  [f EXCEPT !.revision = @ + 1, !.records = Append(@, m),
            !.stage[m] = "trained", !.updated[m] = f.revision + 1]

\* The newest record that may serve in place of m, if its artifact is compatible.
Fallback(f, m) ==
  LET serving == {i \in DOMAIN f.records : f.records[i] # m /\ Servable(f, f.records[i])}
      newest == CHOOSE i \in serving : \A j \in serving :
                   \/ f.updated[f.records[j]] < f.updated[f.records[i]]
                   \/ f.updated[f.records[j]] = f.updated[f.records[i]] /\ j <= i
  IN  IF serving # {} /\ Schema[f.records[newest]] = Schema[m]
      THEN f.records[newest] ELSE NoModel

\* promote: what the index becomes. A serving target makes m the champion and
\* returns its predecessor to shadow; a champion that stops serving is replaced.
Promotable(f, m, target) ==
  /\ allowed_transition(f.stage[m], target)
  /\ target \in ServingStages => m \notin Fixtures

\* Mutant: the predecessor keeps its stage.
PromotedOverOld(f, m, target) ==
  LET g == [f EXCEPT !.revision = @ + 1, !.stage[m] = target, !.updated[m] = f.revision + 1]
  IN  [g EXCEPT !.champion = IF target \in ServingStages THEN m
                             ELSE IF @ = m THEN Fallback(g, m) ELSE @]

Promoted(f, m, target) ==
  LET old == f.champion
      replaces == /\ target \in ServingStages /\ old \notin {m, NoModel}
                  /\ f.stage[old] \in {"qualified", "canary", "active"}
      moved == {m} \cup (IF replaces THEN {old} ELSE {})
      g == [f EXCEPT !.revision = @ + 1,
              !.stage = [n \in Models |-> IF n = m THEN target
                                          ELSE IF n \in moved THEN "shadow" ELSE @[n]],
              !.updated = [n \in Models |-> IF n \in moved THEN f.revision + 1 ELSE @[n]]]
  IN  [g EXCEPT !.champion = IF target \in ServingStages THEN m
                             ELSE IF @ = m THEN Fallback(g, m) ELSE @]

\* rollback_champion: what the index becomes when key has not been used.
CanRollBack(f) ==
  f.champion # NoModel /\ allowed_transition(f.stage[f.champion], "rolled_back")

RolledBack(f, key) ==
  LET m == f.champion
      g == [f EXCEPT !.revision = @ + 1, !.stage[m] = "rolled_back",
                     !.updated[m] = f.revision + 1, !.rollbacks[key] = m]
  IN  [g EXCEPT !.champion = Fallback(g, m)]

\* claim_canary_decision: granted while the record is in canary and under budget;
\* the last permitted claim returns the model to shadow.
Claimable(f, m) ==
  MaxCanary > 0 /\ f.stage[m] = "canary" /\ m \notin Fixtures /\ f.used[m] < MaxCanary

\* Mutant: the claim that uses up the budget is not counted.
ClaimedUncounted(f, m) ==
  LET g == [f EXCEPT !.revision = @ + 1]
  IN  IF g.used[m] + 1 >= MaxCanary
      THEN [g EXCEPT !.stage[m] = "shadow", !.updated[m] = g.revision]
      ELSE [g EXCEPT !.used[m] = @ + 1]

Claimed(f, m) ==
  LET g == [f EXCEPT !.revision = @ + 1, !.used[m] = @ + 1]
  IN  IF g.used[m] >= MaxCanary
      THEN [g EXCEPT !.stage[m] = "shadow", !.updated[m] = g.revision] ELSE g
=============================================================================
