------------------------ MODULE ModelLifecycleProofs -------------------------
(***************************************************************************)
(* Proofs about ModelLifecycle for any number of models, processes, keys   *)
(* and requests: type correctness, the canary budget, that only qualified  *)
(* models serve, that one model at most influences decisions, that a       *)
(* completed job has a model, and that the registry with its copies is a   *)
(* RevisionedStore.                                                        *)
(***************************************************************************)
EXTENDS ModelLifecycle, SequenceTheorems, WellFoundedInduction, TLAPS

(* The stages a record only enters after its evaluation passed, and that a
   rollback leaves: from them no operation of the model leads back. *)
Assessed == ServingStages \cup {"evaluated", "rolled_back"}

(* What is true of every index that was ever committed, when Q are the models
   whose evaluation passed. *)
RegistryOK(f) ==
  f \in RegistryFile /\ \A m \in Models : f.updated[m] <= f.revision

Sound(f, Q) ==
  /\ RegistryOK(f)
  /\ \A m \in Models : f.stage[m] \in ServingStages => m \in Q
  /\ \A m \in Models : f.stage[m] \in {"canary", "active"} => f.champion = m
  /\ \A m \in Models : f.used[m] <= MaxCanary

(* What one operation under the writer lock makes of the index. *)
Grows(f, g) ==
  /\ \A m \in Models : f.stage[m] # "absent" => g.stage[m] # "absent"
  /\ \A m \in Models : f.stage[m] \in Assessed => g.stage[m] \in Assessed

Advances(f, g, Q) ==
  Sound(g, Q) /\ g.revision = f.revision + 1 /\ Keeps(f, g) /\ Grows(f, g)

(* The operation adds no record. *)
Steady(f, g) == \A m \in Models : f.stage[m] = "absent" => g.stage[m] = "absent"

USE DEF Stages, ServingStages, Assessed
-----------------------------------------------------------------------------
(* A nonempty set of numbers with an upper bound has a greatest element. *)
LEMMA BoundedMax ==
  ASSUME NEW S \in SUBSET Nat, S # {}, NEW b \in Nat, \A x \in S : x <= b
  PROVE  \E x \in S : \A y \in S : y <= x
<1> DEFINE T == {n \in Nat : b - n \in S}
<1>1. \A x \in S : x \in Nat /\ b - x \in T
  OBVIOUS
<1>2. PICK t \in T : \A u \in T : ~(<<u, t>> \in OpToRel(<, Nat))
  <2>1. T \subseteq Nat /\ T # {}
    BY <1>1
  <2> HIDE DEF T
  <2> QED BY <2>1, WFMin, NatLessThanWellFounded
<1>3. ASSUME NEW y \in S PROVE y <= b - t
  <2>1. b - y \in T /\ b - y \in Nat /\ t \in Nat
    BY <1>1, <1>2
  <2>2. ~(b - y < t)
    BY <1>2, <2>1 DEF OpToRel
  <2> QED
    BY <1>1, <2>1, <2>2
<1>4. b - t \in S
  BY <1>2
<1> QED
  BY <1>3, <1>4

(* NewestOf returns a recorded model of the set, or none. *)
LEMMA NewestOfType ==
  ASSUME NEW f, f \in RegistryFile, NEW same \in SUBSET Models
  PROVE  NewestOf(f, same) \in same \cup {NoModel}
<1> DEFINE at == {i \in DOMAIN f.records : f.records[i] \in same}
<1>1. f.records \in Seq(Models)
  BY DEF RegistryFile
<1>2. CASE at = {}
  BY <1>2 DEF NewestOf
<1>3. CASE at # {}
  <2>1. at \in SUBSET Nat /\ Len(f.records) \in Nat /\ \A i \in at : i <= Len(f.records)
    BY <1>1
  <2>2. \E i \in at : \A j \in at : j <= i
    <3> HIDE DEF at
    <3> QED BY <1>3, <2>1, BoundedMax
  <2> QED
    BY <1>3, <2>2 DEF NewestOf
<1> QED
  BY <1>2, <1>3

(* The fallback of a champion is a recorded model that may serve, or none. *)
LEMMA FallbackType ==
  ASSUME NEW f, RegistryOK(f), NEW m \in Models
  PROVE  Fallback(f, m) \in Models \cup {NoModel}
<1> DEFINE serving == {i \in DOMAIN f.records : f.records[i] # m /\ Servable(f, f.records[i])}
           Later(i, j) == \/ f.updated[f.records[j]] < f.updated[f.records[i]]
                          \/ f.updated[f.records[j]] = f.updated[f.records[i]] /\ j <= i
           times == {f.updated[f.records[i]] : i \in serving}
<1>1. /\ f.records \in Seq(Models) /\ f.updated \in [Models -> Nat] /\ f.revision \in Nat
      /\ \A n \in Models : f.updated[n] <= f.revision
  BY DEF RegistryOK, RegistryFile
<1>2. \A i \in serving : f.records[i] \in Models
  BY <1>1
<1>3. CASE serving = {}
  BY <1>3 DEF Fallback
<1>4. CASE serving # {}
  <2>1. /\ times \in SUBSET Nat /\ times # {} /\ f.revision \in Nat
        /\ \A x \in times : x <= f.revision
    BY <1>1, <1>2, <1>4
  <2>2. PICK last \in times : \A x \in times : x <= last
    <3> HIDE DEF times
    <3> QED BY <2>1, BoundedMax
  <2> DEFINE newest == {i \in serving : f.updated[f.records[i]] = last}
  <2>3. /\ newest \in SUBSET Nat /\ newest # {} /\ Len(f.records) \in Nat
        /\ \A i \in newest : i <= Len(f.records)
    BY <1>1, <2>2
  <2>4. PICK i \in newest : \A j \in newest : j <= i
    <3> HIDE DEF newest
    <3> QED BY <2>3, BoundedMax
  <2>5. \A j \in serving : Later(i, j)
    <3> SUFFICES ASSUME NEW j \in serving PROVE Later(i, j)
      OBVIOUS
    <3>1. f.updated[f.records[j]] \in times /\ f.updated[f.records[j]] <= last
      BY <2>2
    <3>2. last \in Nat /\ f.updated[f.records[j]] \in Nat
      BY <2>1, <3>1
    <3> QED
      BY <2>4, <3>1, <3>2
  <2>6. \E k \in serving : \A j \in serving : Later(k, j)
    BY <2>4, <2>5
  <2>7. (CHOOSE k \in serving : \A j \in serving : Later(k, j)) \in serving
    <3> HIDE DEF serving, Later
    <3> QED BY <2>6
  <2> QED
    BY <1>2, <2>7 DEF Fallback
<1> QED
  BY <1>3, <1>4

-----------------------------------------------------------------------------
(* A record with the fields of an index, of the right types, is an index. *)
Fields(g) ==
  g = [revision |-> g.revision, records |-> g.records, stage |-> g.stage,
       updated |-> g.updated, champion |-> g.champion, used |-> g.used,
       rollbacks |-> g.rollbacks]

Typed(g) ==
  /\ g.revision \in Nat /\ g.records \in Seq(Models) /\ g.stage \in [Models -> Stages]
  /\ g.updated \in [Models -> Nat] /\ g.champion \in Models \cup {NoModel}
  /\ g.used \in [Models -> Nat] /\ g.rollbacks \in [Keys -> Models \cup {NoModel}]

LEMMA FileType == \A g : Fields(g) /\ Typed(g) => g \in RegistryFile
BY DEF Fields, Typed, RegistryFile

LEMMA FileTyped == \A f \in RegistryFile : Fields(f) /\ Typed(f)
BY DEF Fields, Typed, RegistryFile

(* publish_candidate advances the index, when the model is new. *)
LEMMA PublishedAdvances ==
  ASSUME NEW Q, NEW f, Sound(f, Q), NEW m \in Models, f.stage[m] = "absent"
  PROVE  /\ Advances(f, Published(f, m), Q)
         /\ \A n \in Models \ {m} : Published(f, m).stage[n] = f.stage[n]
<1> DEFINE g == Published(f, m)
<1>0. f \in RegistryFile
  BY DEF Sound, RegistryOK
<1>1. f \in RegistryFile /\ f.records \in Seq(Models) /\ f.revision \in Nat
  BY DEF Sound, RegistryOK, RegistryFile
<1>2. /\ Append(f.records, m) \in Seq(Models)
      /\ SubSeq(Append(f.records, m), 1, Len(f.records)) = f.records
  BY <1>1, AppendProperties, AppendIsConcat, SubSeqOfConcat1, SubSeqFull, LenProperties
<1>3. /\ g.revision = f.revision + 1 /\ g.records = Append(f.records, m)
      /\ g.stage = [f.stage EXCEPT ![m] = "trained"]
      /\ g.updated = [f.updated EXCEPT ![m] = f.revision + 1]
      /\ g.champion = f.champion /\ g.used = f.used /\ g.rollbacks = f.rollbacks
  BY <1>1 DEF Published, RegistryFile
<1>8. Fields(g)
  <2>1. ASSUME NEW x, x = Published(f, m) PROVE Fields(x)
    BY <1>0, <2>1 DEF Published, RegistryFile, Fields
  <2> QED
    BY <2>1
<1> HIDE DEF g
<1>4. RegistryOK(g)
  <2>1. Typed(g)
    BY <1>1, <1>2, <1>3 DEF RegistryFile, Typed
  <2>2. \A n \in Models : g.updated[n] <= g.revision
    BY <1>1, <1>3 DEF RegistryOK, Sound, RegistryFile
  <2> QED
    BY <1>8, <2>1, <2>2, FileType DEF RegistryOK
<1>5. Sound(g, Q)
  BY <1>1, <1>3, <1>4 DEF Sound, RegistryFile
<1>6. Keeps(f, g)
  BY <1>1, <1>2, <1>3 DEF Keeps, RegistryFile
<1>7. Grows(f, g)
  BY <1>1, <1>3 DEF Grows, RegistryFile
<1> QED
  BY <1>1, <1>3, <1>5, <1>6, <1>7 DEF Advances, RegistryFile, g

(* promote advances the index, when a model it lets serve has qualified. *)
LEMMA PromotedAdvances ==
  ASSUME NEW Q, NEW f, Sound(f, Q), NEW m \in Models,
         NEW target \in {"evaluated", "qualified", "shadow", "canary"},
         Promotable(f, m, target), target \in ServingStages => m \in Q
  PROVE  /\ Advances(f, Promoted(f, m, target), Q)
         /\ Steady(f, Promoted(f, m, target))
         /\ Promoted(f, m, target).stage[m] = target
<1> DEFINE old == f.champion
           replaces == /\ target \in ServingStages /\ old \notin {m, NoModel}
                       /\ f.stage[old] \in {"qualified", "canary", "active"}
           moved == {m} \cup (IF replaces THEN {old} ELSE {})
           stage == [n \in Models |-> IF n = m THEN target
                                      ELSE IF n \in moved THEN "shadow" ELSE f.stage[n]]
           updated == [n \in Models |-> IF n \in moved THEN f.revision + 1 ELSE f.updated[n]]
           h == [f EXCEPT !.revision = @ + 1,
                   !.stage = [n \in Models |-> IF n = m THEN target
                                               ELSE IF n \in moved THEN "shadow" ELSE @[n]],
                   !.updated = [n \in Models |-> IF n \in moved THEN f.revision + 1 ELSE @[n]]]
           champion == IF target \in ServingStages THEN m
                       ELSE IF old = m THEN Fallback(h, m) ELSE old
           g == Promoted(f, m, target)
<1>0. f \in RegistryFile
  BY DEF Sound, RegistryOK
<1>1. /\ f \in RegistryFile /\ f.revision \in Nat /\ f.stage \in [Models -> Stages]
      /\ f.updated \in [Models -> Nat] /\ old \in Models \cup {NoModel}
      /\ f.records \in Seq(Models) /\ f.used \in [Models -> Nat]
      /\ f.rollbacks \in [Keys -> Models \cup {NoModel}]
  BY DEF Sound, RegistryOK, RegistryFile
<1>2. /\ stage \in [Models -> Stages] /\ stage[m] = target
      /\ \A n \in Models : n # m /\ n # old => stage[n] = f.stage[n]
      /\ old \in Models /\ old # m =>
           stage[old] = IF replaces THEN "shadow" ELSE f.stage[old]
  BY <1>1
<1>3. updated \in [Models -> Nat] /\ \A n \in Models : updated[n] <= f.revision + 1
  BY <1>1 DEF Sound, RegistryOK
<1> HIDE DEF moved
<1>4. /\ h.revision = f.revision + 1 /\ h.records = f.records
      /\ h.stage = stage /\ h.updated = updated /\ h.champion = old
      /\ h.used = f.used /\ h.rollbacks = f.rollbacks
  BY <1>1 DEF RegistryFile
<1>19. Fields(h)
  <2>1. ASSUME NEW x, x = [f EXCEPT !.revision = @ + 1,
                                   !.stage = [n \in Models |-> IF n = m THEN target
                                                ELSE IF n \in moved THEN "shadow" ELSE @[n]],
                                   !.updated = [n \in Models |-> IF n \in moved
                                                THEN f.revision + 1 ELSE @[n]]]
        PROVE  Fields(x)
    BY <1>0, <2>1 DEF RegistryFile, Fields
  <2> QED
    BY <2>1
<1>7. /\ g.revision = h.revision /\ g.records = h.records /\ g.stage = h.stage
      /\ g.updated = h.updated /\ g.champion = champion /\ g.used = h.used
      /\ g.rollbacks = h.rollbacks /\ Fields(g)
  <2>1. g = [h EXCEPT !.champion = champion]
    BY <1>4 DEF Promoted, moved
  <2> HIDE DEF h, g, champion
  <2> QED
    BY <1>19, <2>1 DEF Fields
<1> HIDE DEF h, champion, g, stage, updated, replaces
<1>5. RegistryOK(h)
  <2>1. Typed(h)
    BY <1>1, <1>2, <1>3, <1>4 DEF Typed
  <2>2. h \in RegistryFile
    BY <1>19, <2>1, FileType
  <2> QED
    BY <1>3, <1>4, <2>2 DEF RegistryOK
<1>6. champion \in Models \cup {NoModel}
  BY <1>1, <1>5, FallbackType DEF champion
<1>8. /\ g \in RegistryFile /\ g.revision = f.revision + 1 /\ g.records = f.records
      /\ g.stage = stage /\ g.updated = updated /\ g.champion = champion
      /\ g.used = f.used /\ g.rollbacks = f.rollbacks
  <2>1. Typed(g)
    BY <1>1, <1>2, <1>3, <1>4, <1>6, <1>7 DEF Typed
  <2>2. g \in RegistryFile
    BY <1>7, <2>1, FileType
  <2> QED
    BY <1>4, <1>7, <2>2
<1>9. RegistryOK(g)
  BY <1>3, <1>8 DEF RegistryOK
<1>10. f.stage[m] \notin {"absent", "rolled_back"}
  BY DEF Promotable, allowed_transition
<1>11. f.stage[m] \in Assessed => target \in Assessed
  OBVIOUS
<1>12. \A n \in Models : stage[n] \in ServingStages => n \in Q
  <2> SUFFICES ASSUME NEW n \in Models, stage[n] \in ServingStages PROVE n \in Q
    OBVIOUS
  <2>1. CASE n = m
    BY <1>2, <2>1
  <2>2. CASE n # m
    BY <1>1, <1>2, <2>2 DEF Sound, replaces
  <2> QED
    BY <2>1, <2>2
<1>13. \A n \in Models : stage[n] \in {"canary", "active"} => champion = n
  <2> SUFFICES ASSUME NEW n \in Models, stage[n] \in {"canary", "active"}
               PROVE  champion = n
    OBVIOUS
  <2>1. CASE n = m
    BY <1>2, <2>1 DEF champion
  <2>2. CASE n # m
    <3>1. n = old
      BY <1>2, <2>2 DEF Sound
    <3>2. ~replaces /\ f.stage[old] \in {"canary", "active"} /\ old \in Models
      BY <1>2, <2>2, <3>1
    <3>3. old # NoModel
      BY <3>2, RegistryAssumption
    <3>4. target \notin ServingStages
      BY <2>2, <3>1, <3>2, <3>3 DEF replaces
    <3> QED
      BY <2>2, <3>1, <3>4 DEF champion
  <2> QED
    BY <2>1, <2>2
<1>14. Sound(g, Q)
  BY <1>8, <1>9, <1>12, <1>13 DEF Sound
<1>15. \A n \in Models : /\ f.stage[n] = "absent" <=> stage[n] = "absent"
                         /\ f.stage[n] = "rolled_back" => stage[n] = "rolled_back"
                         /\ f.stage[n] \in Assessed => stage[n] \in Assessed
  <2> SUFFICES ASSUME NEW n \in Models
               PROVE  /\ f.stage[n] = "absent" <=> stage[n] = "absent"
                      /\ f.stage[n] = "rolled_back" => stage[n] = "rolled_back"
                      /\ f.stage[n] \in Assessed => stage[n] \in Assessed
    OBVIOUS
  <2>1. CASE n = m
    BY <1>2, <1>10, <1>11, <2>1
  <2>2. CASE n # m
    BY <1>2, <2>2 DEF replaces
  <2> QED
    BY <2>1, <2>2
<1>16. SubSeq(f.records, 1, Len(f.records)) = f.records
  BY <1>1, SubSeqFull
<1>17. Keeps(f, g)
  BY <1>1, <1>8, <1>15, <1>16 DEF Keeps
<1>18. Grows(f, g) /\ Steady(f, g)
  BY <1>8, <1>15 DEF Grows, Steady
<1> QED
  BY <1>2, <1>8, <1>14, <1>17, <1>18 DEF Advances, g

(* rollback_champion advances the index, when its key is new. *)
LEMMA RolledBackAdvances ==
  ASSUME NEW Q, NEW f, Sound(f, Q), NEW key \in Keys,
         f.rollbacks[key] = NoModel, CanRollBack(f)
  PROVE  Advances(f, RolledBack(f, key), Q) /\ Steady(f, RolledBack(f, key))
<1> DEFINE m == f.champion
           h == [f EXCEPT !.revision = @ + 1, !.stage[m] = "rolled_back",
                          !.updated[m] = f.revision + 1, !.rollbacks[key] = m]
           g == RolledBack(f, key)
<1>0. f \in RegistryFile
  BY DEF Sound, RegistryOK
<1>1. /\ f \in RegistryFile /\ f.revision \in Nat /\ f.stage \in [Models -> Stages]
      /\ f.updated \in [Models -> Nat] /\ m \in Models
      /\ f.records \in Seq(Models) /\ f.used \in [Models -> Nat]
      /\ f.rollbacks \in [Keys -> Models \cup {NoModel}]
  BY DEF Sound, RegistryOK, RegistryFile, CanRollBack
<1>2. /\ h.revision = f.revision + 1 /\ h.records = f.records
      /\ h.stage = [f.stage EXCEPT ![m] = "rolled_back"]
      /\ h.updated = [f.updated EXCEPT ![m] = f.revision + 1] /\ h.champion = m
      /\ h.used = f.used /\ h.rollbacks = [f.rollbacks EXCEPT ![key] = m]
  BY <1>1 DEF RegistryFile
<1>14. Fields(h)
  <2>1. ASSUME NEW x, x = [f EXCEPT !.revision = @ + 1, !.stage[m] = "rolled_back",
                                   !.updated[m] = f.revision + 1, !.rollbacks[key] = m]
        PROVE  Fields(x)
    BY <1>0, <2>1 DEF RegistryFile, Fields
  <2> QED
    BY <2>1
<1> HIDE DEF h
<1>3. RegistryOK(h)
  <2>1. Typed(h)
    BY <1>1, <1>2 DEF Typed
  <2>2. h \in RegistryFile
    BY <1>14, <2>1, FileType
  <2> QED
    BY <1>1, <1>2, <2>2 DEF Sound, RegistryOK
<1>4. Fallback(h, m) \in Models \cup {NoModel}
  BY <1>1, <1>3, FallbackType
<1>5. g = [h EXCEPT !.champion = Fallback(h, m)]
  BY DEF RolledBack, h
<1> HIDE DEF g
<1>6. /\ g \in RegistryFile /\ g.revision = f.revision + 1 /\ g.records = f.records
      /\ g.stage = [f.stage EXCEPT ![m] = "rolled_back"]
      /\ g.updated = [f.updated EXCEPT ![m] = f.revision + 1]
      /\ g.used = f.used /\ g.rollbacks = [f.rollbacks EXCEPT ![key] = m]
  <2>1. /\ g.revision = h.revision /\ g.records = h.records /\ g.stage = h.stage
        /\ g.updated = h.updated /\ g.champion = Fallback(h, m) /\ g.used = h.used
        /\ g.rollbacks = h.rollbacks /\ Fields(g)
    BY <1>14, <1>5 DEF Fields
  <2>2. Typed(g)
    BY <1>1, <1>2, <1>4, <2>1 DEF Typed
  <2>3. g \in RegistryFile
    BY <2>1, <2>2, FileType
  <2> QED
    BY <1>2, <2>1, <2>3
<1>7. RegistryOK(g)
  BY <1>1, <1>6 DEF Sound, RegistryOK
<1>8. f.stage[m] \in ServingStages
  BY DEF CanRollBack, allowed_transition
<1>9. \A n \in Models : n # m => f.stage[n] \notin {"canary", "active"}
  BY DEF Sound
<1>10. Sound(g, Q)
  BY <1>1, <1>6, <1>7, <1>9 DEF Sound
<1>11. SubSeq(f.records, 1, Len(f.records)) = f.records
  BY <1>1, SubSeqFull
<1>12. Keeps(f, g)
  BY <1>1, <1>6, <1>11 DEF Keeps
<1>13. Grows(f, g) /\ Steady(f, g)
  BY <1>1, <1>6, <1>8 DEF Grows, Steady
<1> QED
  BY <1>6, <1>10, <1>12, <1>13 DEF Advances, g

(* claim_canary_decision advances the index and counts the claim. *)
LEMMA ClaimedAdvances ==
  ASSUME NEW Q, NEW f, Sound(f, Q), NEW m \in Models, Claimable(f, m)
  PROVE  /\ Advances(f, Claimed(f, m), Q) /\ Steady(f, Claimed(f, m))
         /\ Claimed(f, m).used = [f.used EXCEPT ![m] = @ + 1]
<1> DEFINE h == [f EXCEPT !.revision = @ + 1, !.used[m] = @ + 1]
           g == Claimed(f, m)
<1>0. f \in RegistryFile
  BY DEF Sound, RegistryOK
<1>1. /\ f \in RegistryFile /\ f.revision \in Nat /\ f.stage \in [Models -> Stages]
      /\ f.updated \in [Models -> Nat] /\ f.records \in Seq(Models)
      /\ f.used \in [Models -> Nat] /\ f.stage[m] = "canary" /\ f.used[m] < MaxCanary
      /\ f.rollbacks \in [Keys -> Models \cup {NoModel}] /\ MaxCanary \in Nat
  BY RegistryAssumption DEF Sound, RegistryOK, RegistryFile, Claimable
<1>2. /\ h.revision = f.revision + 1 /\ h.records = f.records
      /\ h.stage = f.stage /\ h.updated = f.updated /\ h.champion = f.champion
      /\ h.used = [f.used EXCEPT ![m] = @ + 1] /\ h.rollbacks = f.rollbacks
  BY <1>1 DEF RegistryFile
<1>3. Fields(h)
  <2>1. ASSUME NEW x, x = [f EXCEPT !.revision = @ + 1, !.used[m] = @ + 1]
        PROVE  Fields(x)
    BY <1>0, <2>1 DEF RegistryFile, Fields
  <2> QED
    BY <2>1
<1>10. g = IF h.used[m] >= MaxCanary
           THEN [h EXCEPT !.stage[m] = "shadow", !.updated[m] = h.revision] ELSE h
  BY DEF Claimed
<1> HIDE DEF h, g
<1>4. /\ g.revision = f.revision + 1 /\ g.records = f.records
      /\ g.champion = f.champion /\ g.used = [f.used EXCEPT ![m] = @ + 1]
      /\ g.rollbacks = f.rollbacks /\ Fields(g)
      /\ \/ g.stage = f.stage /\ g.updated = f.updated
         \/ /\ g.stage = [f.stage EXCEPT ![m] = "shadow"]
            /\ g.updated = [f.updated EXCEPT ![m] = f.revision + 1]
  <2>1. CASE h.used[m] >= MaxCanary
    BY <1>1, <1>2, <1>3, <1>10, <2>1 DEF Fields
  <2>2. CASE ~(h.used[m] >= MaxCanary)
    BY <1>2, <1>3, <1>10, <2>2
  <2> QED
    BY <2>1, <2>2
<1>5. RegistryOK(g)
  <2>1. f.champion \in Models \cup {NoModel} /\ \A n \in Models : f.updated[n] <= f.revision
    BY DEF RegistryFile, Sound, RegistryOK
  <2>4. /\ g.stage \in [Models -> Stages] /\ g.updated \in [Models -> Nat]
        /\ \A n \in Models : g.updated[n] <= f.revision + 1
    <3>1. CASE g.stage = f.stage /\ g.updated = f.updated
      BY <1>1, <2>1, <3>1
    <3>2. CASE /\ g.stage = [f.stage EXCEPT ![m] = "shadow"]
               /\ g.updated = [f.updated EXCEPT ![m] = f.revision + 1]
      BY <1>1, <2>1, <3>2
    <3> QED
      BY <1>4, <3>1, <3>2
  <2>5. g.used \in [Models -> Nat] /\ g.revision \in Nat
    BY <1>1, <1>4
  <2>6. Typed(g)
    BY <1>1, <1>4, <2>1, <2>4, <2>5 DEF Typed
  <2>2. g \in RegistryFile
    BY <1>4, <2>6, FileType
  <2>3. \A n \in Models : g.updated[n] <= g.revision
    BY <1>4, <2>4
  <2> QED
    BY <2>2, <2>3 DEF RegistryOK
<1>6. Sound(g, Q)
  <2>1. \A n \in Models : g.used[n] <= MaxCanary
    BY <1>1, <1>4 DEF Sound
  <2>2. \A n \in Models : /\ g.stage[n] \in ServingStages => f.stage[n] \in ServingStages
                          /\ g.stage[n] \in {"canary", "active"} => f.stage[n] = g.stage[n]
    BY <1>1, <1>4
  <2> QED
    BY <1>4, <1>5, <2>1, <2>2 DEF Sound
<1>7. SubSeq(f.records, 1, Len(f.records)) = f.records
  BY <1>1, SubSeqFull
<1>8. Keeps(f, g)
  <2>1. \A n \in Models : /\ f.used[n] <= g.used[n]
                          /\ f.stage[n] = "rolled_back" => g.stage[n] = "rolled_back"
    BY <1>1, <1>4
  <2> QED
    BY <1>4, <1>7, <2>1 DEF Keeps
<1>9. Grows(f, g) /\ Steady(f, g)
  BY <1>1, <1>4 DEF Grows, Steady
<1> QED
  BY <1>4, <1>6, <1>8, <1>9 DEF Advances, g

-----------------------------------------------------------------------------
(* The models whose evaluation passed. *)
Qualified == {m \in Models : Qualifies(m)}

(* A copy is an earlier index, and the present one when the revisions agree. *)
CopyOK(p) ==
  /\ Sound(view[p], Qualified)
  /\ view[p].revision <= file.revision
  /\ view[p].revision = file.revision => view[p] = file
  /\ Grows(view[p], file)

RegistryInv == Sound(file, Qualified) /\ \A p \in Processes : CopyOK(p)

(* A decision that went past its admission has a model, and past the reading of
   the stage a serving process. *)
DecisionInv ==
  \A r \in Requests :
    /\ decision[r].pc \in {"admitted", "claiming", "predict"} => decision[r].m \in Models
    /\ decision[r].pc \in {"claiming", "predict"} => decision[r].p \in Servers

(* The job file agrees with the step the worker is at, and the worker holds a job
   from the fit on. *)
Holding == {"fit", "written", "evaluate", "publish", "mark", "qualify", "shadow", "finish"}

WorkerInv ==
  /\ training.pc \in Holding => training.m \in Models
  /\ training.pc = "fit" => job[training.m].state = "running"
  /\ training.pc = "written" => job[training.m].state = "trained"
  /\ training.pc \in {"evaluate", "publish"} => job[training.m].state = "evaluating"
  /\ \A m \in Models :
       job[m].state \in {"none", "queued", "running"} => job[m].retries <= RetryLimit

(* No record exists of a model that is still to be published. *)
Unpublished(m) ==
  \/ job[m].state \in {"none", "queued", "running", "trained"}
  \/ training.m = m /\ training.pc \in {"evaluate", "publish"}

FreshInv == \A m \in Models : Unpublished(m) => file.stage[m] = "absent"

(* A model on its way to shadow passed its evaluation, whatever rollbacks do to
   it meanwhile. *)
MarkedInv ==
  /\ training.pc \in {"qualify", "shadow"} => Qualifies(training.m)
  /\ training.pc \in {"qualify", "shadow", "finish"} => file.stage[training.m] \in Assessed

IInv ==
  /\ TypeOK /\ RegistryInv /\ DecisionInv /\ WorkerInv /\ FreshInv /\ MarkedInv
  /\ CanaryBudget /\ CompletedHasModel

-----------------------------------------------------------------------------
(* What a step does to the registry: nothing, a process catches up with the file,
   or one process advances the index. *)
CatchUp(p) == UNCHANGED file /\ view' = [view EXCEPT ![p] = file]

Write(p) ==
  /\ Advances(file, file', Qualified)
  /\ \/ view' = [view EXCEPT ![p] = file']
     \/ view' = [view EXCEPT ![p] = file]
     \/ UNCHANGED view

Moves ==
  \/ UNCHANGED registryVars
  \/ \E p \in Processes : CatchUp(p) \/ Write(p)

(* After the refresh under the lock a process has the file. *)
LEMMA RefreshedIsFile ==
  ASSUME RegistryInv, NEW p \in Processes PROVE Refreshed(p) = file
<1>1. file.revision \in Nat /\ view[p].revision \in Nat
  BY DEF RegistryInv, CopyOK, Sound, RegistryOK, RegistryFile
<1> QED
  BY <1>1 DEF Refreshed, RegistryInv, CopyOK

LEMMA RefreshMoves ==
  ASSUME RegistryInv, NEW p \in Processes, Refresh(p)
  PROVE  Moves /\ file' = file
BY RefreshedIsFile DEF Refresh, Moves, CatchUp

LEMMA OpenMoves ==
  ASSUME NEW p \in Processes, Open(p)
  PROVE  Moves /\ file' = file
BY DEF Open, Moves, CatchUp

LEMMA PersistMoves ==
  ASSUME RegistryInv, NEW p \in Processes, NEW next,
         Advances(file, next, Qualified), Persist(p, next) \/ PersistFails(p, next)
  PROVE  Moves /\ (file' = file \/ file' = next)
<1>1. CASE Persist(p, next)
  BY <1>1 DEF Persist, Moves, Write
<1>2. CASE PersistFails(p, next)
  <2>1. view' = [view EXCEPT ![p] = file]
    BY <1>2, RefreshedIsFile DEF PersistFails
  <2> QED
    BY <1>2, <2>1 DEF PersistFails, Moves, Write, CatchUp
<1> QED
  BY <1>1, <1>2

(* Nothing is lost when the index grows twice. *)
LEMMA GrowsTwice ==
  ASSUME NEW f, NEW g, NEW h, Grows(f, g), Grows(g, h) PROVE Grows(f, h)
BY DEF Grows

LEMMA GrowsSame == \A f : Grows(f, f)
BY DEF Grows

(* Such a step grows the index and loses no claim. *)
LEMMA MovesGrow ==
  ASSUME RegistryInv, Moves
  PROVE  Grows(file, file') /\ \A m \in Models : file.used[m] <= file'.used[m]
<1>1. CASE file' = file
  <2>1. \A m \in Models : file.used[m] \in Nat
    BY DEF RegistryInv, Sound, RegistryOK, RegistryFile
  <2> QED
    BY <1>1, <2>1, GrowsSame
<1>2. CASE Advances(file, file', Qualified)
  BY <1>2 DEF Advances, Keeps
<1> QED
  BY <1>1, <1>2 DEF Moves, CatchUp, Write, registryVars

(* It keeps the registry sound and every copy an earlier index, as long as no
   verdict changes. *)
LEMMA RegistryKept ==
  ASSUME TypeOK, RegistryInv, Moves, UNCHANGED failing
  PROVE  RegistryInv' /\ file' \in RegistryFile /\ view' \in [Processes -> RegistryFile]
<1>1. Qualified' = Qualified
  BY DEF Qualified, Qualifies
<1>2. \A f : Sound(f, Qualified) => f \in RegistryFile
  BY DEF Sound, RegistryOK
<1>3. view \in [Processes -> RegistryFile]
  BY DEF TypeOK
<1> DEFINE Goal == /\ Sound(file', Qualified)
                   /\ view' \in [Processes -> RegistryFile]
                   /\ \A q \in Processes :
                        /\ Sound(view'[q], Qualified)
                        /\ view'[q].revision <= file'.revision
                        /\ view'[q].revision = file'.revision => view'[q] = file'
                        /\ Grows(view'[q], file')
<1>4. SUFFICES Goal
  BY <1>1, <1>2 DEF RegistryInv, CopyOK
<1>5. CASE UNCHANGED registryVars
  BY <1>3, <1>5 DEF registryVars, RegistryInv, CopyOK
<1>6. ASSUME NEW p \in Processes, CatchUp(p)
      PROVE  Goal
  <2>1. /\ file' = file /\ view'[p] = file
        /\ \A q \in Processes : q # p => view'[q] = view[q]
    BY <1>3, <1>6 DEF CatchUp
  <2>2. file.revision \in Nat /\ file \in RegistryFile
    BY DEF RegistryInv, Sound, RegistryOK, RegistryFile
  <2>3. view' \in [Processes -> RegistryFile]
    BY <1>3, <1>6, <2>2 DEF CatchUp
  <2> QED
    BY <2>1, <2>2, <2>3, GrowsSame DEF RegistryInv, CopyOK
<1>7. ASSUME NEW p \in Processes, Write(p)
      PROVE  Goal
  <2>1. Sound(file', Qualified) /\ file'.revision = file.revision + 1 /\ Grows(file, file')
    BY <1>7 DEF Write, Advances
  <2>2. file.revision \in Nat /\ file \in RegistryFile /\ file' \in RegistryFile
    BY <1>2, <2>1 DEF RegistryInv, Sound, RegistryOK, RegistryFile
  <2>3. view' \in [Processes -> RegistryFile]
    BY <1>3, <1>7, <2>2 DEF Write
  <2>4. ASSUME NEW q \in Processes
        PROVE  /\ Sound(view'[q], Qualified)
               /\ view'[q].revision <= file'.revision
               /\ view'[q].revision = file'.revision => view'[q] = file'
               /\ Grows(view'[q], file')
    <3>1. view'[q] \in {view[q], file, file'}
      BY <1>3, <1>7 DEF Write
    <3>2. view[q].revision \in Nat /\ view[q].revision <= file.revision
      BY <1>3 DEF RegistryInv, CopyOK, RegistryFile
    <3>3. CASE view'[q] = view[q]
      <4>1. Grows(view[q], file')
        BY <2>1, GrowsTwice DEF RegistryInv, CopyOK
      <4> QED
        BY <2>1, <2>2, <3>2, <3>3, <4>1 DEF RegistryInv, CopyOK
    <3>4. CASE view'[q] = file
      BY <2>1, <2>2, <3>4 DEF RegistryInv
    <3>5. CASE view'[q] = file'
      <4>1. file'.revision \in Nat
        BY <2>1, <2>2
      <4> QED
        BY <2>1, <3>5, <4>1, GrowsSame
    <3> QED
      BY <3>1, <3>3, <3>4, <3>5
  <2> QED
    BY <2>1, <2>3, <2>4
<1> QED
  BY <1>5, <1>6, <1>7 DEF Moves

-----------------------------------------------------------------------------
(* The parts of the invariant that a step leaves alone with what they speak of. *)
LEMMA ServingKept ==
  ASSUME TypeOK, RegistryInv, DecisionInv, CanaryBudget, Moves, RegistryInv',
         UNCHANGED servingVars
  PROVE  DecisionInv' /\ CanaryBudget'
<1>1. DecisionInv'
  BY DEF DecisionInv, servingVars
<1>2. \A m \in Models : /\ claims[m] <= file.used[m] /\ file.used[m] <= file'.used[m]
                        /\ file'.used[m] <= MaxCanary
  BY MovesGrow DEF CanaryBudget, RegistryInv, Sound
<1>3. \A m \in Models : claims[m] \in Nat /\ file.used[m] \in Nat /\ file'.used[m] \in Nat
  BY DEF TypeOK, RegistryInv, Sound, RegistryOK, RegistryFile
<1> QED
  BY <1>1, <1>2, <1>3 DEF CanaryBudget, servingVars

LEMMA ClaimsKept ==
  ASSUME TypeOK, RegistryInv, CanaryBudget, Moves, RegistryInv', UNCHANGED claims
  PROVE  CanaryBudget'
<1>2. \A m \in Models : /\ claims[m] <= file.used[m] /\ file.used[m] <= file'.used[m]
                        /\ file'.used[m] <= MaxCanary
  BY MovesGrow DEF CanaryBudget, RegistryInv, Sound
<1>3. \A m \in Models : claims[m] \in Nat /\ file.used[m] \in Nat /\ file'.used[m] \in Nat
  BY DEF TypeOK, RegistryInv, Sound, RegistryOK, RegistryFile
<1> QED
  BY <1>2, <1>3 DEF CanaryBudget

LEMMA CompletedKept ==
  ASSUME RegistryInv, CompletedHasModel, Moves,
         \A m \in Models : job'[m].state = "completed" => job[m].state = "completed"
  PROVE  CompletedHasModel'
BY MovesGrow DEF CompletedHasModel, Grows

LEMMA WorkerKept ==
  ASSUME IInv, Moves, Steady(file, file'), UNCHANGED jobVars
  PROVE  WorkerInv' /\ FreshInv' /\ MarkedInv' /\ CompletedHasModel'
<1>1. UNCHANGED <<job, training, failing, enabled>>
  BY DEF jobVars
<1>2. CompletedHasModel'
  BY <1>1, CompletedKept DEF IInv
<1>3. WorkerInv' /\ FreshInv'
  BY <1>1 DEF IInv, WorkerInv, FreshInv, Unpublished, Steady
<1>4. training.pc \in {"qualify", "shadow", "finish"} => training.m \in Models
  BY DEF IInv, WorkerInv, Holding
<1>5. MarkedInv'
  BY <1>1, <1>4, MovesGrow DEF IInv, MarkedInv, Qualifies, Grows
<1> QED
  BY <1>2, <1>3, <1>5

(* A step of a process other than the worker needs no more than this. *)
LEMMA OutsideKept ==
  ASSUME IInv, Moves, Steady(file, file'), UNCHANGED jobVars,
         UNCHANGED faults \/ Fault
  PROVE  /\ RegistryInv' /\ WorkerInv' /\ FreshInv' /\ MarkedInv' /\ CompletedHasModel'
         /\ file' \in RegistryFile /\ view' \in [Processes -> RegistryFile]
         /\ job' \in [Models -> [state : JobStates, retries : 0 .. RetryLimit + 1]]
         /\ failing' \in [Models -> SUBSET Gates] /\ enabled' \in BOOLEAN
         /\ faults' \in 0 .. MaxFaults
         /\ training' \in [pc : WorkerSteps, m : Models \cup {NoModel}]
         /\ UNCHANGED claims => CanaryBudget'
<1>1. TypeOK /\ RegistryInv /\ CanaryBudget /\ UNCHANGED failing
  BY DEF IInv, jobVars
<1>2. RegistryInv' /\ file' \in RegistryFile /\ view' \in [Processes -> RegistryFile]
  BY <1>1, RegistryKept
<1>3. faults' \in 0 .. MaxFaults
  BY <1>1, LifecycleAssumption DEF TypeOK, Fault
<1>4. WorkerInv' /\ FreshInv' /\ MarkedInv' /\ CompletedHasModel'
  BY WorkerKept
<1>5. UNCHANGED claims => CanaryBudget'
  BY <1>1, <1>2, ClaimsKept
<1> QED
  BY <1>1, <1>2, <1>3, <1>4, <1>5 DEF TypeOK, jobVars

LEMMA SteadySame == \A f : Steady(f, f)
BY DEF Steady
-----------------------------------------------------------------------------
(* The decisions of the serving processes keep the invariant. *)
LEMMA ServingType ==
  ASSUME TypeOK, NEW p \in Processes PROVE Serving(p) \in Models \cup {NoModel}
BY DEF TypeOK, Serving, RegistryFile

LEMMA DecisionKept ==
  ASSUME IInv, NEW r \in Requests,
         Admit(r) \/ ReadStage(r) \/ Predict(r) \/ Abstain(r) \/ PredictFails(r)
           \/ MirrorScore(r)
  PROVE  IInv' /\ Moves
<1>1. TypeOK /\ DecisionInv
  BY DEF IInv
<1>2. UNCHANGED registryVars /\ UNCHANGED jobVars /\ UNCHANGED faults /\ UNCHANGED claims
  BY DEF Admit, ReadStage, Predict, Abstain, PredictFails, MirrorScore
<1>3. Moves /\ Steady(file, file')
  BY <1>2, SteadySame DEF Moves, registryVars
<1>4. Finished \in [pc : {"new", "admitted", "claiming", "predict", "done"},
                    p : Processes, m : Models \cup {NoModel}]
  BY LifecycleAssumption DEF Finished
<1> DEFINE Decisions == [pc : {"new", "admitted", "claiming", "predict", "done"},
                         p : Processes, m : Models \cup {NoModel}]
<1>5. decision' \in [Requests -> Decisions] /\ DecisionInv'
  <2>1. ASSUME NEW d \in Decisions, Move(r, d),
               d.pc \in {"admitted", "claiming", "predict"} => d.m \in Models,
               d.pc \in {"claiming", "predict"} => d.p \in Servers
        PROVE  decision' \in [Requests -> Decisions] /\ DecisionInv'
    BY <1>1, <2>1 DEF Move, TypeOK, DecisionInv
  <2>2. CASE Move(r, Finished)
    BY <1>4, <2>1, <2>2 DEF Finished
  <2>3. CASE Admit(r)
    <3>1. PICK p \in Servers \cup Mirrors :
            \/ Move(r, Finished)
            \/ Serving(p) # NoModel
               /\ Move(r, [pc |-> "admitted", p |-> p, m |-> Serving(p)])
      BY <2>3 DEF Admit
    <3>2. p \in Processes
      BY LifecycleAssumption
    <3>3. Serving(p) \in Models \cup {NoModel}
      BY <1>1, <3>2, ServingType
    <3> QED
      BY <2>1, <2>2, <3>1, <3>2, <3>3
  <2>4. CASE ReadStage(r)
    <3>1. decision[r] \in Decisions
      BY <1>1 DEF TypeOK
    <3>2. PICK pc \in {"claiming", "predict"} : Move(r, [decision[r] EXCEPT !.pc = pc])
      BY <2>4 DEF ReadStage
    <3>3. decision[r].p \in Servers /\ decision[r].m \in Models
      BY <1>1, <2>4 DEF ReadStage, DecisionInv
    <3> QED
      BY <2>1, <3>1, <3>2, <3>3
  <2> QED
    BY <2>2, <2>3, <2>4 DEF Predict, Abstain, PredictFails, MirrorScore
<1>6. failures' \in [Servers -> 0 .. FailureLimit - 1] /\ undo' \in [Servers -> SUBSET UndoTask]
  <2>1. CASE UNCHANGED <<failures, undo>>
    BY <1>1, <2>1 DEF TypeOK
  <2>2. CASE Predict(r)
    BY <1>1, <2>2, LifecycleAssumption DEF TypeOK, Predict, DecisionInv
  <2>3. CASE PredictFails(r)
    <3>1. decision[r].p \in Servers /\ decision[r].m \in Models
      BY <1>1, <2>3 DEF PredictFails, DecisionInv
    <3>2. FailureLimit \in Nat \ {0} /\ failures[decision[r].p] \in 0 .. FailureLimit - 1
      BY <1>1, <3>1, LifecycleAssumption DEF TypeOK
    <3>3. [pc |-> "check", m |-> decision[r].m] \in UndoTask
      BY <3>1 DEF UndoTask
    <3>6. PICK n \in 0 .. FailureLimit - 1 :
            failures' = [failures EXCEPT ![decision[r].p] = n]
      <4>1. CASE failures[decision[r].p] + 1 >= FailureLimit
        BY <2>3, <3>2, <4>1 DEF PredictFails
      <4>2. CASE ~(failures[decision[r].p] + 1 >= FailureLimit)
        <5>1. failures[decision[r].p] + 1 \in 0 .. FailureLimit - 1
          BY <3>2, <4>2
        <5> QED
          BY <2>3, <4>2, <5>1 DEF PredictFails
      <4> QED
        BY <4>1, <4>2
    <3>4. failures' \in [Servers -> 0 .. FailureLimit - 1]
      BY <1>1, <3>6 DEF TypeOK
    <3>5. undo' \in [Servers -> SUBSET UndoTask]
      BY <1>1, <2>3, <3>1, <3>3 DEF TypeOK, PredictFails
    <3> QED
      BY <3>4, <3>5
  <2> QED
    BY <2>1, <2>2, <2>3 DEF Admit, ReadStage, Abstain, MirrorScore
<1> QED
  BY <1>1, <1>2, <1>3, <1>5, <1>6, OutsideKept DEF IInv, TypeOK

(* So does a claim. *)
LEMMA ClaimKept ==
  ASSUME IInv, NEW r \in Requests, Claim(r) PROVE IInv' /\ Moves
<1> DEFINE p == decision[r].p
           m == decision[r].m
           Decisions == [pc : {"new", "admitted", "claiming", "predict", "done"},
                         p : Processes, m : Models \cup {NoModel}]
<1>1. TypeOK /\ RegistryInv /\ DecisionInv /\ CanaryBudget /\ Sound(file, Qualified)
  BY DEF IInv, RegistryInv
<1>2. p \in Servers /\ p \in Processes /\ m \in Models /\ decision[r] \in Decisions
  BY <1>1, LifecycleAssumption DEF Claim, DecisionInv, TypeOK
<1>3. Claimable(file, m) =>
        /\ Advances(file, Claimed(file, m), Qualified) /\ Steady(file, Claimed(file, m))
        /\ Claimed(file, m).used = [file.used EXCEPT ![m] = @ + 1]
  BY <1>1, <1>2, ClaimedAdvances
<1>4. UNCHANGED jobVars /\ UNCHANGED <<failures, undo>> /\ (UNCHANGED faults \/ Fault)
  BY DEF Claim, NoFault
<1>5. Moves /\ Steady(file, file')
  <2>1. CASE Claimable(file, m) /\ (Persist(p, Claimed(file, m)) \/ PersistFails(p, Claimed(file, m)))
    BY <1>1, <1>2, <1>3, <2>1, PersistMoves, SteadySame
  <2>2. CASE Leave(p)
    BY <1>1, <1>2, <2>2, RefreshMoves, SteadySame DEF Leave
  <2> QED
    BY <2>1, <2>2 DEF Claim
<1>6. decision' \in [Requests -> Decisions] /\ DecisionInv'
  <2>1. Finished \in Decisions /\ Finished.pc = "done"
    BY LifecycleAssumption DEF Finished
  <2>2. [decision[r] EXCEPT !.pc = "predict"] \in Decisions
    BY <1>2
  <2>3. \/ decision' = [decision EXCEPT ![r] = [decision[r] EXCEPT !.pc = "predict"]]
        \/ decision' = [decision EXCEPT ![r] = Finished]
    BY DEF Claim, Move
  <2>4. PICK d \in Decisions :
          /\ decision' = [decision EXCEPT ![r] = d]
          /\ d.pc \in {"predict", "done"} /\ (d.pc = "predict" => d.m = m /\ d.p = p)
    <3>1. CASE decision' = [decision EXCEPT ![r] = Finished]
      BY <2>1, <3>1
    <3>2. CASE decision' = [decision EXCEPT ![r] = [decision[r] EXCEPT !.pc = "predict"]]
      BY <1>2, <2>2, <3>2
    <3> QED
      BY <2>3, <3>1, <3>2
  <2>5. decision' \in [Requests -> Decisions]
    BY <1>1, <2>4 DEF TypeOK
  <2>6. \A q \in Requests : decision'[q] = IF q = r THEN d ELSE decision[q]
    BY <1>1, <2>4 DEF TypeOK
  <2>7. DecisionInv'
    BY <1>1, <1>2, <2>4, <2>6 DEF DecisionInv
  <2> QED
    BY <2>5, <2>7
<1>7. claims' \in [Models -> Nat] /\ CanaryBudget'
  <2>1. CASE UNCHANGED claims
    BY <1>1, <1>4, <1>5, <2>1, OutsideKept DEF TypeOK
  <2>2. CASE /\ Claimable(file, m) /\ Persist(p, Claimed(file, m))
             /\ claims' = [claims EXCEPT ![m] = @ + 1]
    <3>1. file'.used = [file.used EXCEPT ![m] = @ + 1]
      BY <1>3, <2>2 DEF Persist
    <3>2. claims \in [Models -> Nat] /\ file.used \in [Models -> Nat]
      BY <1>1 DEF TypeOK, RegistryFile
    <3>3. \A n \in Models : file'.used[n] <= MaxCanary
      BY <1>3, <2>2 DEF Persist, Advances, Sound
    <3>4. \A n \in Models : claims'[n] <= file'.used[n]
      BY <1>1, <1>2, <2>2, <3>1, <3>2 DEF CanaryBudget
    <3> QED
      BY <1>2, <2>2, <3>2, <3>3, <3>4 DEF CanaryBudget
  <2> QED
    BY <2>1, <2>2 DEF Claim
<1> QED
  BY <1>1, <1>4, <1>5, <1>6, <1>7, OutsideKept DEF IInv, TypeOK

(* The rollback tasks, the refreshes and restarts of the serving and the mirror
   processes, and the operator's rollback do too. *)
LEMMA RollbackMoves ==
  ASSUME RegistryInv, NEW p \in Processes, NEW key \in Keys, RollbackOp(p, key)
  PROVE  Moves /\ Steady(file, file') /\ (UNCHANGED faults \/ Fault)
<1>1. Refreshed(p) = file /\ Sound(file, Qualified)
  BY RefreshedIsFile DEF RegistryInv
<1>2. CASE Leave(p) /\ NoFault
  BY <1>2, RefreshMoves, SteadySame DEF Leave, NoFault
<1>3. CASE /\ file.rollbacks[key] = NoModel /\ CanRollBack(file)
           /\ \/ Persist(p, RolledBack(file, key)) /\ NoFault
              \/ PersistFails(p, RolledBack(file, key)) /\ Fault
  <2>1. Advances(file, RolledBack(file, key), Qualified) /\ Steady(file, RolledBack(file, key))
    BY <1>1, <1>3, RolledBackAdvances
  <2> QED
    BY <1>3, <2>1, PersistMoves, SteadySame DEF NoFault
<1> QED
  BY <1>1, <1>2, <1>3 DEF RollbackOp

LEMMA RollbackKept ==
  ASSUME IInv, NEW s \in Servers, RollbackCheck(s) \/ RollbackCommit(s) PROVE IInv' /\ Moves
<1>1. TypeOK /\ RegistryInv /\ DecisionInv /\ s \in Processes
  BY LifecycleAssumption DEF IInv
<1>2. UNCHANGED jobVars /\ UNCHANGED <<decision, failures, claims>>
  BY DEF RollbackCheck, RollbackCommit
<1>3. /\ Moves /\ Steady(file, file') /\ (UNCHANGED faults \/ Fault)
      /\ undo' \in [Servers -> SUBSET UndoTask]
  <2>1. CASE RollbackCheck(s)
    <3>1. PICK u \in undo[s] : undo' = [undo EXCEPT ![s] = (@ \ {u}) \cup
            {x \in {[u EXCEPT !.pc = "commit"]} :
               Serving(s) = u.m /\ view[s].stage[u.m] \in {"active", "canary"}}]
      BY <2>1 DEF RollbackCheck
    <3>2. u \in UndoTask
      BY <1>1 DEF TypeOK
    <3>3. [u EXCEPT !.pc = "commit"] \in UndoTask
      BY <3>2 DEF UndoTask
    <3>4. undo' \in [Servers -> SUBSET UndoTask]
      BY <1>1, <3>1, <3>3 DEF TypeOK
    <3> QED
      BY <2>1, <3>4, SteadySame DEF RollbackCheck, Moves, registryVars
  <2>2. CASE RollbackCommit(s)
    <3>1. PICK u \in undo[s] : undo' = [undo EXCEPT ![s] = @ \ {u}] /\ RollbackOp(s, KeyOf[u.m])
      BY <2>2 DEF RollbackCommit
    <3>2. u \in UndoTask
      BY <1>1 DEF TypeOK
    <3>3. KeyOf[u.m] \in Keys
      BY <3>2, LifecycleAssumption DEF UndoTask
    <3>4. undo' \in [Servers -> SUBSET UndoTask]
      BY <1>1, <3>1 DEF TypeOK
    <3> QED
      BY <1>1, <3>1, <3>3, <3>4, RollbackMoves
  <2> QED
    BY <2>1, <2>2
<1>4. DecisionInv'
  BY <1>1, <1>2 DEF DecisionInv
<1> QED
  BY <1>1, <1>2, <1>3, <1>4, OutsideKept DEF IInv, TypeOK

LEMMA RefreshKept ==
  ASSUME IInv, NEW s \in Servers, ServerRefresh(s) PROVE IInv' /\ Moves
<1>1. TypeOK /\ RegistryInv /\ DecisionInv /\ s \in Processes
  BY LifecycleAssumption DEF IInv
<1>2. UNCHANGED jobVars /\ UNCHANGED servingVars /\ UNCHANGED faults
  BY DEF ServerRefresh
<1>3. Moves /\ Steady(file, file')
  BY <1>1, RefreshMoves, SteadySame DEF ServerRefresh
<1>4. DecisionInv'
  BY <1>1, <1>2 DEF DecisionInv, servingVars
<1> QED
  BY <1>1, <1>2, <1>3, <1>4, OutsideKept DEF IInv, TypeOK, servingVars

LEMMA RestartKept ==
  ASSUME IInv, NEW p \in Processes, Restart(p), UNCHANGED faults \/ Fault PROVE IInv' /\ Moves
<1>1. TypeOK /\ DecisionInv /\ Moves /\ Steady(file, file')
  BY OpenMoves, SteadySame DEF IInv, Restart
<1>2. UNCHANGED jobVars /\ UNCHANGED claims
  BY DEF Restart
<1>3. Finished \in [pc : {"new", "admitted", "claiming", "predict", "done"},
                    p : Processes, m : Models \cup {NoModel}] /\ Finished.pc = "done"
  BY LifecycleAssumption DEF Finished
<1>4. decision' \in [Requests -> [pc : {"new", "admitted", "claiming", "predict", "done"},
                                  p : Processes, m : Models \cup {NoModel}]]
  BY <1>1, <1>3 DEF TypeOK, Restart
<1>5. \A r \in Requests : decision'[r] \in {decision[r], Finished}
  BY DEF Restart
<1>6. DecisionInv'
  BY <1>1, <1>3, <1>5 DEF DecisionInv
<1>7. failures' \in [Servers -> 0 .. FailureLimit - 1]
  <2>1. 0 \in 0 .. FailureLimit - 1
    BY LifecycleAssumption
  <2> QED
    BY <1>1, <2>1 DEF TypeOK, Restart
<1>8. undo' \in [Servers -> SUBSET UndoTask]
  BY <1>1 DEF TypeOK, Restart
<1> QED
  BY <1>1, <1>2, <1>4, <1>6, <1>7, <1>8, OutsideKept DEF IInv, TypeOK

LEMMA AdminKept == ASSUME IInv, AdminRollback PROVE IInv' /\ Moves
<1>1. TypeOK /\ RegistryInv /\ DecisionInv /\ Worker \in Processes /\ AdminKey \in Keys
  BY LifecycleAssumption DEF IInv
<1>2. UNCHANGED jobVars /\ UNCHANGED servingVars /\ UNCHANGED faults
  BY DEF AdminRollback
<1>3. Advances(file, file', Qualified) /\ Steady(file, file')
  BY <1>1, RolledBackAdvances DEF AdminRollback, RegistryInv
<1>4. Moves
  BY <1>1, <1>3 DEF AdminRollback, Moves, Write
<1>5. DecisionInv'
  BY <1>1, <1>2 DEF DecisionInv, servingVars
<1> QED
  BY <1>1, <1>2, <1>3, <1>4, <1>5, OutsideKept DEF IInv, TypeOK, servingVars

-----------------------------------------------------------------------------
(* The steps of the worker. First what they have in common. *)
LEMMA WorkerStep ==
  ASSUME IInv, Moves, UNCHANGED <<failing, enabled>>, UNCHANGED servingVars,
         UNCHANGED faults \/ Fault,
         training' \in [pc : WorkerSteps, m : Models \cup {NoModel}],
         job' \in [Models -> [state : JobStates, retries : 0 .. RetryLimit + 1]],
         WorkerInv', FreshInv', MarkedInv', CompletedHasModel'
  PROVE  IInv' /\ Moves
<1>1. TypeOK /\ RegistryInv /\ DecisionInv /\ CanaryBudget
  BY DEF IInv
<1>2. RegistryInv' /\ file' \in RegistryFile /\ view' \in [Processes -> RegistryFile]
  BY <1>1, RegistryKept
<1>3. faults' \in 0 .. MaxFaults
  BY <1>1, LifecycleAssumption DEF TypeOK, Fault
<1>4. DecisionInv' /\ CanaryBudget'
  BY <1>1, <1>2, ServingKept
<1> QED
  BY <1>1, <1>2, <1>3, <1>4 DEF IInv, TypeOK, servingVars

(* The round ends: a crash, an error or nothing to do. *)
LEMMA RoundEnds ==
  ASSUME IInv, Moves, NextRound, UNCHANGED <<job, failing, enabled>>, UNCHANGED servingVars,
         UNCHANGED faults \/ Fault,
         \A m \in Models : file'.stage[m] # "absent" =>
            file.stage[m] # "absent" \/ job[m].state = "evaluating"
  PROVE  IInv' /\ Moves
<1>1. training' = [pc |-> "refresh", m |-> NoModel]
  BY DEF NextRound
<1>2. training' \in [pc : WorkerSteps, m : Models \cup {NoModel}]
  BY <1>1 DEF WorkerSteps
<1>3. WorkerInv' /\ MarkedInv'
  BY <1>1 DEF IInv, WorkerInv, MarkedInv, Holding
<1>4. FreshInv'
  BY <1>1 DEF IInv, FreshInv, Unpublished
<1>5. CompletedHasModel'
  BY CompletedKept DEF IInv
<1> QED
  BY <1>2, <1>3, <1>4, <1>5, WorkerStep DEF IInv, TypeOK

(* A job file is written. *)
LEMMA WriteJobKept ==
  ASSUME IInv, UNCHANGED registryVars, UNCHANGED <<failing, enabled>>, UNCHANGED servingVars,
         NEW m \in Models, NEW state \in JobStates \ {"none"},
         NEW pc \in {"refresh", "scan", "fit", "evaluate"},
         WriteJob(m, state, pc),
         state \in {"queued", "running", "trained"} \/ pc = "evaluate" => file.stage[m] = "absent",
         state \in {"queued", "running"} => job[m].retries <= RetryLimit,
         state = "completed" => \E n \in Models : Dataset[n] = Dataset[m] /\ file.stage[n] \in Assessed,
         pc = "fit" => state = "running",
         pc = "evaluate" => state = "evaluating"
  PROVE  IInv' /\ Moves
<1>1. Moves /\ UNCHANGED <<file, view>>
  BY DEF Moves, registryVars
<1>2. CASE Fault /\ NextRound /\ UNCHANGED job
  BY <1>1, <1>2, RoundEnds
<1>3. CASE /\ job' = [job EXCEPT ![m].state = state]
           /\ training' = [pc |-> pc, m |-> IF pc = "refresh" THEN NoModel ELSE m]
           /\ NoFault
  <2>1. job \in [Models -> [state : JobStates, retries : 0 .. RetryLimit + 1]]
    BY DEF IInv, TypeOK
  <2>2. /\ job'[m].state = state /\ job'[m].retries = job[m].retries
        /\ \A n \in Models : n # m => job'[n] = job[n]
    BY <1>3, <2>1
  <2>3. job' \in [Models -> [state : JobStates, retries : 0 .. RetryLimit + 1]]
    BY <1>3, <2>1
  <2>4. training' \in [pc : WorkerSteps, m : Models \cup {NoModel}]
        /\ training'.pc = pc /\ (pc # "refresh" => training'.m = m)
    BY <1>3 DEF WorkerSteps
  <2>5. WorkerInv'
    BY <2>2, <2>4 DEF IInv, WorkerInv, Holding
  <2>6. MarkedInv'
    BY <2>4 DEF MarkedInv
  <2>7. FreshInv'
    <3>1. ASSUME NEW n \in Models, Unpublished(n)' PROVE file.stage[n] = "absent"
      <4>1. CASE n = m
        BY <2>2, <2>4, <3>1, <4>1 DEF Unpublished
      <4>2. CASE n # m
        BY <2>2, <2>4, <3>1, <4>2 DEF Unpublished, IInv, FreshInv
      <4> QED
        BY <4>1, <4>2
    <3> QED
      BY <1>1, <3>1 DEF FreshInv
  <2>8. CompletedHasModel'
    <3>1. ASSUME NEW n \in Models, job'[n].state = "completed"
          PROVE  \E k \in Models : Dataset[k] = Dataset[n] /\ file.stage[k] \in Assessed
      BY <2>2, <3>1 DEF IInv, CompletedHasModel
    <3> QED
      BY <1>1, <3>1 DEF CompletedHasModel
  <2> QED
    BY <1>1, <1>3, <2>3, <2>4, <2>5, <2>6, <2>7, <2>8, WorkerStep DEF NoFault
<1> QED
  BY <1>2, <1>3 DEF WriteJob

(* The steps that only read the registry. *)
LEMMA JobFilesKept ==
  ASSUME IInv, NEW m \in Models, DiscoverJob(m) \/ RequeueJob(m) \/ CancelJob(m) \/ StartJob(m)
  PROVE  IInv' /\ Moves
<1>1. UNCHANGED registryVars /\ UNCHANGED <<failing, enabled>> /\ UNCHANGED servingVars
  BY DEF DiscoverJob, RequeueJob, CancelJob, StartJob
<1>2. TypeOK /\ WorkerInv /\ FreshInv /\ RegistryInv
  BY DEF IInv
<1>3. CASE DiscoverJob(m)
  <2>1. job' = [job EXCEPT ![m].state = "queued"] /\ UNCHANGED <<training, faults>>
        /\ job[m].state = "none" /\ training.pc = "scan"
    BY <1>3 DEF DiscoverJob
  <2>2. Moves /\ UNCHANGED <<file, view>>
    BY <1>1 DEF Moves, registryVars
  <2>3. job \in [Models -> [state : JobStates, retries : 0 .. RetryLimit + 1]]
    BY <1>2 DEF TypeOK
  <2>4. job' \in [Models -> [state : JobStates, retries : 0 .. RetryLimit + 1]]
    BY <2>1, <2>3 DEF JobStates
  <2>5. /\ job'[m].state = "queued" /\ job'[m].retries = job[m].retries
        /\ \A n \in Models : n # m => job'[n] = job[n]
    BY <2>1, <2>3
  <2>6. WorkerInv' /\ MarkedInv'
    BY <1>2, <2>1, <2>5 DEF WorkerInv, MarkedInv, Holding
  <2>7. FreshInv'
    BY <1>2, <2>1, <2>2, <2>5 DEF FreshInv, Unpublished
  <2>8. CompletedHasModel'
    BY <2>2, <2>5, CompletedKept DEF IInv
  <2>9. training' \in [pc : WorkerSteps, m : Models \cup {NoModel}]
    BY <1>2, <2>1 DEF TypeOK
  <2> QED
    BY <1>1, <2>1, <2>2, <2>4, <2>6, <2>7, <2>8, <2>9, WorkerStep
<1>4. CASE RequeueJob(m)
  BY <1>1, <1>2, <1>4, WriteJobKept DEF RequeueJob, FreshInv, Unpublished, WorkerInv, JobStates
<1>5. CASE CancelJob(m)
  BY <1>1, <1>5, WriteJobKept DEF CancelJob, JobStates
<1>6. CASE StartJob(m)
  <2>1. job[m].state = "queued"
    BY <1>6 DEF StartJob, Taken
  <2>2. CASE AlreadyEvaluated(m)
    <3> DEFINE same == {x \in Models : Dataset[x] = Dataset[m]}
               n == NewestOf(view[Worker], same)
    <3>1. Worker \in Processes /\ view[Worker] \in RegistryFile
      BY <1>2, LifecycleAssumption DEF TypeOK
    <3>2. n # NoModel /\ view[Worker].stage[n] \in Assessed
      BY <2>2 DEF AlreadyEvaluated
    <3>3. n \in same
      BY <3>1, <3>2, NewestOfType
    <3>4. file.stage[n] \in Assessed
      BY <1>2, <3>1, <3>2, <3>3 DEF RegistryInv, CopyOK, Grows
    <3>5. WriteJob(m, "completed", "refresh")
      BY <1>6, <2>2 DEF StartJob
    <3>6. \E k \in Models : Dataset[k] = Dataset[m] /\ file.stage[k] \in Assessed
      BY <3>3, <3>4
    <3> QED
      BY <1>1, <3>5, <3>6, WriteJobKept DEF JobStates
  <2>3. CASE ~AlreadyEvaluated(m)
    BY <1>1, <1>2, <1>6, <2>1, <2>3, WriteJobKept
       DEF StartJob, FreshInv, Unpublished, WorkerInv, JobStates
  <2> QED
    BY <2>2, <2>3
<1> QED
  BY <1>3, <1>4, <1>5, <1>6

LEMMA ReadingKept ==
  ASSUME IInv, WorkerRefresh \/ NothingToDo \/ EvaluateRefresh \/ WorkerCrash
  PROVE  IInv' /\ Moves
<1>1. TypeOK /\ RegistryInv /\ WorkerInv /\ FreshInv /\ Worker \in Processes
  BY LifecycleAssumption DEF IInv
<1>2. UNCHANGED <<job, failing, enabled>> /\ UNCHANGED servingVars
  BY DEF WorkerRefresh, NothingToDo, EvaluateRefresh, WorkerCrash
<1>3. Moves /\ file' = file
  BY <1>1, RefreshMoves, OpenMoves
     DEF WorkerRefresh, NothingToDo, EvaluateRefresh, WorkerCrash, Moves, registryVars
<1>4. CASE NothingToDo \/ WorkerCrash
  BY <1>2, <1>3, <1>4, RoundEnds DEF NothingToDo, WorkerCrash
<1>5. CASE WorkerRefresh \/ EvaluateRefresh
  <2>1. PICK pc \in {"advance", "publish"} :
          /\ training' = [training EXCEPT !.pc = pc]
          /\ training.pc = IF pc = "advance" THEN "refresh" ELSE "evaluate"
    BY <1>5 DEF WorkerRefresh, EvaluateRefresh, GoOn
  <2>2. training' \in [pc : WorkerSteps, m : Models \cup {NoModel}]
        /\ training'.pc = pc /\ training'.m = training.m
    BY <1>1, <2>1 DEF TypeOK, WorkerSteps
  <2>3. WorkerInv' /\ MarkedInv'
    BY <1>1, <1>2, <2>1, <2>2 DEF WorkerInv, MarkedInv, Holding
  <2>4. FreshInv'
    BY <1>1, <1>2, <1>3, <2>1, <2>2 DEF FreshInv, Unpublished
  <2>5. CompletedHasModel' /\ job' \in [Models -> [state : JobStates, retries : 0 .. RetryLimit + 1]]
    BY <1>1, <1>2, <1>3, CompletedKept DEF IInv, TypeOK
  <2>6. UNCHANGED faults
    BY <1>5 DEF WorkerRefresh, EvaluateRefresh
  <2> QED
    BY <1>2, <1>3, <2>2, <2>3, <2>4, <2>5, <2>6, WorkerStep
<1> QED
  BY <1>4, <1>5

(* The champion in shadow that the tests let advance is sound to promote. *)
LEMMA AdvanceKept == ASSUME IInv, AdvanceToCanary PROVE IInv' /\ Moves
<1>1. TypeOK /\ RegistryInv /\ WorkerInv /\ FreshInv /\ Worker \in Processes
  BY LifecycleAssumption DEF IInv
<1>2. /\ UNCHANGED <<job, failing, enabled>> /\ UNCHANGED servingVars
      /\ UNCHANGED faults \/ Fault
      /\ training.pc = "advance" /\ training' = [training EXCEPT !.pc = "scan"]
  BY DEF AdvanceToCanary, NoFault, GoOn
<1>3. Moves /\ Steady(file, file')
  <2>1. CASE UNCHANGED <<file, view, faults>>
    BY <2>1, SteadySame DEF Moves, registryVars
  <2>2. ASSUME NEW m \in Models, MayAdvance(m), ~Conflict(Worker),
               \/ Promotable(file, m, "canary") /\ Persist(Worker, Promoted(file, m, "canary"))
               \/ PersistFails(Worker, Promoted(file, m, "canary"))
        PROVE  Moves /\ Steady(file, file')
    <3>1. view[Worker] = file
      BY <1>1, <2>2 DEF Conflict, RegistryInv, CopyOK
    <3>2. file.stage[m] = "shadow" /\ m \notin Fixtures /\ m \in Qualified
      BY <2>2, <3>1 DEF MayAdvance, Qualified, Qualifies
    <3>3. Promotable(file, m, "canary")
      BY <3>2 DEF Promotable, allowed_transition
    <3>4. /\ Advances(file, Promoted(file, m, "canary"), Qualified)
          /\ Steady(file, Promoted(file, m, "canary"))
      BY <1>1, <3>2, <3>3, PromotedAdvances DEF RegistryInv
    <3> QED
      BY <1>1, <2>2, <3>4, PersistMoves, SteadySame
  <2>3. CASE Leave(Worker)
    BY <1>1, <2>3, RefreshMoves, SteadySame DEF Leave
  <2> QED
    BY <2>1, <2>2, <2>3 DEF AdvanceToCanary
<1>4. training' \in [pc : WorkerSteps, m : Models \cup {NoModel}] /\ training'.pc = "scan"
  BY <1>1, <1>2 DEF TypeOK, WorkerSteps
<1>5. WorkerInv' /\ MarkedInv'
  BY <1>1, <1>2, <1>4 DEF WorkerInv, MarkedInv, Holding
<1>6. FreshInv'
  BY <1>1, <1>2, <1>3, <1>4 DEF FreshInv, Unpublished, Steady
<1>7. CompletedHasModel' /\ job' \in [Models -> [state : JobStates, retries : 0 .. RetryLimit + 1]]
  BY <1>1, <1>2, <1>3, CompletedKept DEF IInv, TypeOK
<1> QED
  BY <1>2, <1>3, <1>4, <1>5, <1>6, <1>7, WorkerStep

(* The fit: a new verdict is about a model that no record names yet. *)
LEMMA FitKept ==
  ASSUME IInv, FitSucceeds \/ FitFails \/ WriteEvaluating \/ CompleteJob PROVE IInv' /\ Moves
<1> DEFINE m == training.m
           Jobs == [Models -> [state : JobStates, retries : 0 .. RetryLimit + 1]]
<1>1. TypeOK /\ RegistryInv /\ WorkerInv /\ FreshInv /\ MarkedInv /\ CompletedHasModel
  BY DEF IInv
<1>2. UNCHANGED registryVars /\ UNCHANGED servingVars /\ UNCHANGED enabled
  BY DEF FitSucceeds, FitFails, WriteEvaluating, CompleteJob
<1>3. Moves /\ UNCHANGED <<file, view>>
  BY <1>2 DEF Moves, registryVars
<1>4. m \in Models /\ job \in Jobs
  BY <1>1 DEF FitSucceeds, FitFails, WriteEvaluating, CompleteJob, WorkerInv, Holding, TypeOK
<1>5. CASE FitSucceeds
  <2>1. job[m].state = "running" /\ file.stage[m] = "absent"
    BY <1>1, <1>4, <1>5 DEF FitSucceeds, WorkerInv, FreshInv, Unpublished
  <2>2. PICK gates \in SUBSET Gates : failing' = [failing EXCEPT ![m] = gates]
    BY <1>5 DEF FitSucceeds, Evaluations
  <2>3. failing' \in [Models -> SUBSET Gates]
        /\ \A n \in Models : n # m => failing'[n] = failing[n]
    BY <1>1, <2>2 DEF TypeOK
  <2>4. \A n \in Models : n # m /\ n \in Qualified => n \in Qualified'
    BY <2>3 DEF Qualified, Qualifies
  <2>5. RegistryInv'
    <3>1. Sound(file', Qualified')
      BY <1>1, <1>3, <2>1, <2>4 DEF RegistryInv, Sound
    <3>2. ASSUME NEW p \in Processes PROVE Sound(view'[p], Qualified')
      BY <1>1, <1>3, <2>1, <2>4 DEF RegistryInv, CopyOK, Sound, Grows
    <3> QED
      BY <1>1, <1>3, <3>1, <3>2 DEF RegistryInv, CopyOK
  <2>6. \/ /\ job' = [job EXCEPT ![m].state = "trained"] /\ NoFault
           /\ training' = [pc |-> "written", m |-> m]
        \/ Fault /\ NextRound /\ UNCHANGED job
    BY <1>5 DEF FitSucceeds, WriteJob
  <2>7. /\ job' \in Jobs /\ training' \in [pc : WorkerSteps, m : Models \cup {NoModel}]
        /\ WorkerInv' /\ MarkedInv' /\ FreshInv' /\ CompletedHasModel'
    <3>1. CASE Fault /\ NextRound /\ UNCHANGED job
      BY <1>1, <1>3, <1>4, <3>1 DEF NextRound, WorkerSteps, WorkerInv, MarkedInv, FreshInv,
         Unpublished, CompletedHasModel, Holding
    <3>2. CASE /\ job' = [job EXCEPT ![m].state = "trained"]
               /\ training' = [pc |-> "written", m |-> m]
      <4>1. /\ job' \in Jobs /\ job'[m].state = "trained"
            /\ \A n \in Models : n # m => job'[n] = job[n]
        BY <1>4, <3>2 DEF JobStates
      <4>2. training' \in [pc : WorkerSteps, m : Models \cup {NoModel}]
            /\ training'.pc = "written" /\ training'.m = m
        BY <1>4, <3>2 DEF WorkerSteps
      <4>3. WorkerInv' /\ MarkedInv'
        BY <1>1, <1>4, <4>1, <4>2 DEF WorkerInv, MarkedInv, Holding
      <4>4. FreshInv'
        BY <1>1, <1>3, <2>1, <4>1, <4>2 DEF FreshInv, Unpublished
      <4>5. CompletedHasModel'
        BY <1>1, <1>3, <4>1 DEF CompletedHasModel
      <4> QED
        BY <4>1, <4>2, <4>3, <4>4, <4>5
    <3> QED
      BY <2>6, <3>1, <3>2
  <2>8. DecisionInv' /\ CanaryBudget'
    BY <1>1, <1>2, <1>3, <2>5, ServingKept DEF IInv
  <2>9. faults' \in 0 .. MaxFaults
    BY <1>1, <2>6, LifecycleAssumption DEF TypeOK, Fault, NoFault
  <2> QED
    BY <1>1, <1>2, <1>3, <2>3, <2>5, <2>7, <2>8, <2>9 DEF IInv, TypeOK, servingVars
<1>6. CASE FitFails
  <2> DEFINE n == job[m].retries + 1
  <2>1. UNCHANGED failing /\ NextRound
    BY <1>6 DEF FitFails
  <2>2. CASE Fault /\ UNCHANGED job
    BY <1>2, <1>3, <2>1, <2>2, RoundEnds
  <2>3. CASE /\ job' = [job EXCEPT ![m] =
                          [state |-> IF n > RetryLimit THEN "failed" ELSE "queued", retries |-> n]]
             /\ NoFault
    <3>1. job[m].state = "running" /\ job[m].retries <= RetryLimit /\ job[m].retries \in Nat
          /\ file.stage[m] = "absent" /\ RetryLimit \in Nat
      BY <1>1, <1>4, <1>6, LifecycleAssumption DEF FitFails, WorkerInv, FreshInv, Unpublished
    <3>2. n \in 0 .. RetryLimit + 1 /\ (~(n > RetryLimit) => n <= RetryLimit)
      BY <3>1
    <3>3. /\ job' \in Jobs /\ job'[m].state \in {"failed", "queued"}
          /\ job'[m].state = "queued" => job'[m].retries <= RetryLimit
          /\ \A k \in Models : k # m => job'[k] = job[k]
      BY <1>4, <2>3, <3>2 DEF JobStates
    <3>4. training' \in [pc : WorkerSteps, m : Models \cup {NoModel}] /\ training'.pc = "refresh"
      BY <2>1 DEF NextRound, WorkerSteps
    <3>5. WorkerInv' /\ MarkedInv'
      BY <1>1, <3>3, <3>4 DEF WorkerInv, MarkedInv, Holding
    <3>6. FreshInv'
      BY <1>1, <1>3, <3>1, <3>3, <3>4 DEF FreshInv, Unpublished
    <3>7. CompletedHasModel'
      BY <1>1, <1>3, <3>3 DEF CompletedHasModel
    <3> QED
      BY <1>2, <1>3, <2>1, <2>3, <3>3, <3>4, <3>5, <3>6, <3>7, WorkerStep DEF NoFault
  <2> QED
    BY <1>6, <2>2, <2>3 DEF FitFails
<1>7. CASE WriteEvaluating
  <2>1. file.stage[m] = "absent"
    BY <1>1, <1>4, <1>7 DEF WriteEvaluating, WorkerInv, FreshInv, Unpublished
  <2> QED
    BY <1>2, <1>4, <1>7, <2>1, WriteJobKept DEF WriteEvaluating, JobStates
<1>8. CASE CompleteJob
  <2>1. file.stage[m] \in Assessed
    BY <1>1, <1>8 DEF CompleteJob, MarkedInv
  <2> QED
    BY <1>2, <1>4, <1>8, <2>1, WriteJobKept DEF CompleteJob, JobStates
<1> QED
  BY <1>5, <1>6, <1>7, <1>8

(* A registry operation of finish_success that was allowed. *)
AddsNoOther(next) ==
  \A n \in Models : next.stage[n] # "absent" =>
     file.stage[n] # "absent" \/ (training.pc = "publish" /\ n = training.m)

LEMMA FinishKept ==
  ASSUME IInv, training.pc \in {"publish", "mark", "qualify", "shadow"},
         NEW next, NEW then \in {"mark", "qualify", "shadow", "finish"},
         UNCHANGED <<job, failing, enabled>>, UNCHANGED servingVars,
         \/ Persist(Worker, next) /\ GoOn(then) /\ NoFault
         \/ PersistFails(Worker, next) /\ NextRound /\ Fault,
         Advances(file, next, Qualified), AddsNoOther(next),
         then \in {"qualify", "shadow"} => Qualifies(training.m),
         then # "mark" => next.stage[training.m] \in Assessed
  PROVE  IInv' /\ Moves
<1> DEFINE m == training.m
<1>1. TypeOK /\ RegistryInv /\ WorkerInv /\ FreshInv /\ Worker \in Processes
  BY LifecycleAssumption DEF IInv
<1>2. UNCHANGED <<job, failing, enabled>> /\ UNCHANGED servingVars
  OBVIOUS
<1>3. training.pc = "publish" => job[m].state = "evaluating"
  BY <1>1, <1>2 DEF WorkerInv
<1>4. CASE Persist(Worker, next) /\ GoOn(then) /\ NoFault
  <2>1. Moves /\ file' = next
    BY <1>1, <1>4, PersistMoves DEF Persist
  <2>2. training' = [training EXCEPT !.pc = then]
    BY <1>4 DEF GoOn
  <2>3. training' \in [pc : WorkerSteps, m : Models \cup {NoModel}]
        /\ training'.pc = then /\ training'.m = m
    BY <1>1, <2>2 DEF TypeOK, WorkerSteps
  <2>4. m \in Models
    BY <1>1 DEF WorkerInv, Holding
  <2>5. WorkerInv'
    BY <1>1, <1>2, <2>3, <2>4 DEF WorkerInv, Holding
  <2>6. MarkedInv'
    BY <1>2, <1>4, <2>1, <2>3 DEF MarkedInv, Qualifies
  <2>7. FreshInv'
    <3>1. ASSUME NEW n \in Models, Unpublished(n)' PROVE next.stage[n] = "absent"
      <4>1. Unpublished(n)
        BY <1>2, <2>3, <3>1 DEF Unpublished
      <4>2. ~(training.pc = "publish" /\ n = m)
        BY <1>2, <1>3, <2>3, <3>1 DEF Unpublished
      <4> QED
        BY <1>1, <4>1, <4>2 DEF FreshInv, AddsNoOther
    <3> QED
      BY <2>1, <3>1 DEF FreshInv
  <2>8. CompletedHasModel' /\ job' \in [Models -> [state : JobStates, retries : 0 .. RetryLimit + 1]]
    BY <1>1, <1>2, <2>1, CompletedKept DEF IInv, TypeOK
  <2> QED
    BY <1>2, <1>4, <2>1, <2>3, <2>5, <2>6, <2>7, <2>8, WorkerStep DEF NoFault
<1>5. CASE PersistFails(Worker, next) /\ NextRound /\ Fault
  <2>1. Moves /\ (file' = file \/ file' = next)
    BY <1>1, <1>5, PersistMoves
  <2>2. \A n \in Models : file'.stage[n] # "absent" =>
          file.stage[n] # "absent" \/ job[n].state = "evaluating"
    BY <1>3, <2>1 DEF AddsNoOther
  <2> QED
    BY <1>2, <1>5, <2>1, <2>2, RoundEnds
<1> QED
  BY <1>4, <1>5

(* One that was refused ends the round, and so does a conflict. *)
LEMMA FinishRefused ==
  ASSUME IInv, UNCHANGED <<job, failing, enabled>>, UNCHANGED servingVars,
         Leave(Worker), NextRound, NoFault
  PROVE  IInv' /\ Moves
<1>1. Moves /\ file' = file
  BY RefreshMoves, LifecycleAssumption DEF Leave, IInv
<1> QED
  BY <1>1, RoundEnds DEF NoFault

LEMMA FinishStepsKept ==
  ASSUME IInv, PublishCandidate \/ MarkEvaluated \/ PromoteQualified \/ PromoteShadow
  PROVE  IInv' /\ Moves
<1>1. TypeOK /\ WorkerInv /\ FreshInv /\ MarkedInv /\ Sound(file, Qualified)
  BY DEF IInv, RegistryInv
<1>2. /\ training.m \in Models
      /\ UNCHANGED <<job, failing, enabled>> /\ UNCHANGED servingVars
  BY <1>1 DEF WorkerInv, Holding, PublishCandidate, MarkEvaluated, PromoteQualified,
     PromoteShadow, FinishStep
<1>3. CASE PublishCandidate
  <2> DEFINE next == Published(file, training.m)
  <2>1. file.stage[training.m] = "absent" /\ training.pc = "publish"
    BY <1>1, <1>2, <1>3 DEF PublishCandidate, FinishStep, FreshInv, Unpublished
  <2>2. /\ Advances(file, next, Qualified)
        /\ \A n \in Models \ {training.m} : next.stage[n] = file.stage[n]
    BY <1>1, <1>2, <2>1, PublishedAdvances
  <2>3. \/ Persist(Worker, next) /\ GoOn("mark") /\ NoFault
        \/ PersistFails(Worker, next) /\ NextRound /\ Fault
        \/ Leave(Worker) /\ NextRound /\ NoFault
    BY <1>3 DEF PublishCandidate, FinishStep
  <2> HIDE DEF next
  <2>4. AddsNoOther(next)
    BY <2>1, <2>2 DEF AddsNoOther
  <2> QED
    BY <1>2, <2>1, <2>2, <2>3, <2>4, FinishKept, FinishRefused
<1>4. ASSUME NEW pc \in {"mark", "qualify", "shadow"},
             NEW target \in {"evaluated", "qualified", "shadow"},
             NEW then \in {"qualify", "shadow", "finish"},
             FinishStep(pc, Promotable(file, training.m, target),
                        Promoted(file, training.m, target), then),
             target \in ServingStages => Qualifies(training.m),
             then \in {"qualify", "shadow"} => Qualifies(training.m)
      PROVE  IInv' /\ Moves
  <2> DEFINE next == Promoted(file, training.m, target)
  <2>1. training.pc = pc /\ (target \in ServingStages => training.m \in Qualified)
    BY <1>2, <1>4 DEF Qualified, FinishStep
  <2>2. Promotable(file, training.m, target) =>
          /\ Advances(file, next, Qualified) /\ Steady(file, next)
          /\ next.stage[training.m] = target
    BY <1>1, <1>2, <2>1, PromotedAdvances
  <2>3. \/ /\ Promotable(file, training.m, target)
           /\ \/ Persist(Worker, next) /\ GoOn(then) /\ NoFault
              \/ PersistFails(Worker, next) /\ NextRound /\ Fault
        \/ Leave(Worker) /\ NextRound /\ NoFault
    BY <1>4 DEF FinishStep
  <2>4. CASE Promotable(file, training.m, target)
             /\ \/ Persist(Worker, next) /\ GoOn(then) /\ NoFault
                \/ PersistFails(Worker, next) /\ NextRound /\ Fault
    <3> HIDE DEF next
    <3>1. AddsNoOther(next)
      BY <2>2, <2>4 DEF Steady, AddsNoOther
    <3>2. Advances(file, next, Qualified) /\ next.stage[training.m] \in Assessed
      BY <2>2, <2>4
    <3> QED
      BY <1>2, <1>4, <2>1, <2>4, <3>1, <3>2, FinishKept
  <2> QED
    BY <1>2, <2>3, <2>4, FinishRefused
<1>5. CASE MarkEvaluated
  BY <1>4, <1>5 DEF MarkEvaluated
<1>6. CASE PromoteQualified
  BY <1>1, <1>4, <1>6 DEF PromoteQualified, MarkedInv, FinishStep
<1>7. CASE PromoteShadow
  BY <1>1, <1>4, <1>7 DEF PromoteShadow, MarkedInv, FinishStep
<1> QED
  BY <1>3, <1>5, <1>6, <1>7

-----------------------------------------------------------------------------
(* The index at the start is sound, and its only record is the seeded model. *)
LEMMA EmptySound == Sound(EmptyFile, Models \ Fixtures)
<1>1. /\ EmptyFile.revision = 0 /\ EmptyFile.records = <<>>
      /\ EmptyFile.stage = [m \in Models |-> "absent"]
      /\ EmptyFile.updated = [m \in Models |-> 0] /\ EmptyFile.champion = NoModel
      /\ EmptyFile.used = [m \in Models |-> 0]
      /\ EmptyFile.rollbacks = [k \in Keys |-> NoModel] /\ Fields(EmptyFile)
  BY DEF EmptyFile, Fields
<1>2. Typed(EmptyFile)
  BY <1>1, EmptySeq DEF Typed
<1> QED
  BY <1>1, <1>2, FileType, RegistryAssumption DEF Sound, RegistryOK

LEMMA FirstSound ==
  /\ Sound(FirstFile, Models \ Fixtures)
  /\ \A m \in Models : m # Seeded => FirstFile.stage[m] = "absent"
  /\ Seeded # NoModel => FirstFile.stage[Seeded] = "shadow"
<1> DEFINE Q == Models \ Fixtures
           f1 == Published(EmptyFile, Seeded)
           f2 == Promoted(f1, Seeded, "evaluated")
           f3 == Promoted(f2, Seeded, "qualified")
           f4 == Promoted(f3, Seeded, "shadow")
<1>1. /\ Sound(EmptyFile, Q) /\ EmptyFile.champion = NoModel
      /\ \A m \in Models : EmptyFile.stage[m] = "absent"
  BY EmptySound DEF EmptyFile
<1>2. CASE Seeded = NoModel
  BY <1>1, <1>2, RegistryAssumption DEF FirstFile
<1>3. CASE Seeded # NoModel
  <2>1. Seeded \in Models /\ Seeded \in Q
    BY <1>3, LifecycleAssumption
  <2>2. /\ Sound(f1, Q) /\ f1.stage[Seeded] = "trained"
        /\ \A m \in Models : m # Seeded => f1.stage[m] = "absent"
    <3>1. /\ Advances(EmptyFile, f1, Q)
          /\ \A m \in Models \ {Seeded} : f1.stage[m] = EmptyFile.stage[m]
      BY <1>1, <2>1, PublishedAdvances
    <3>2. f1.stage[Seeded] = "trained"
      BY <2>1 DEF Published, EmptyFile
    <3> HIDE DEF f1
    <3> QED
      BY <1>1, <3>1, <3>2 DEF Advances
  <2>3. \A f, target : target \in {"evaluated", "qualified", "shadow"} /\ Sound(f, Q)
                       /\ Promotable(f, Seeded, target)
                       /\ (\A m \in Models : m # Seeded => f.stage[m] = "absent")
          => /\ Sound(Promoted(f, Seeded, target), Q)
             /\ Promoted(f, Seeded, target).stage[Seeded] = target
             /\ \A m \in Models : m # Seeded => Promoted(f, Seeded, target).stage[m] = "absent"
    <3> SUFFICES ASSUME NEW f, NEW target \in {"evaluated", "qualified", "shadow"}, Sound(f, Q),
                        Promotable(f, Seeded, target),
                        \A m \in Models : m # Seeded => f.stage[m] = "absent"
                 PROVE  /\ Sound(Promoted(f, Seeded, target), Q)
                        /\ Promoted(f, Seeded, target).stage[Seeded] = target
                        /\ \A m \in Models : m # Seeded =>
                             Promoted(f, Seeded, target).stage[m] = "absent"
      OBVIOUS
    <3>1. /\ Advances(f, Promoted(f, Seeded, target), Q)
          /\ Steady(f, Promoted(f, Seeded, target))
          /\ Promoted(f, Seeded, target).stage[Seeded] = target
      BY <2>1, PromotedAdvances
    <3> QED
      BY <3>1 DEF Advances, Steady
  <2> HIDE DEF f1
  <2>4. Promotable(f1, Seeded, "evaluated")
    BY <2>2 DEF Promotable, allowed_transition
  <2>5. /\ Sound(f2, Q) /\ f2.stage[Seeded] = "evaluated"
        /\ \A m \in Models : m # Seeded => f2.stage[m] = "absent"
    BY <2>2, <2>3, <2>4
  <2> HIDE DEF f2
  <2>6. Promotable(f2, Seeded, "qualified")
    BY <2>1, <2>5 DEF Promotable, allowed_transition
  <2>7. /\ Sound(f3, Q) /\ f3.stage[Seeded] = "qualified"
        /\ \A m \in Models : m # Seeded => f3.stage[m] = "absent"
    BY <2>3, <2>5, <2>6
  <2> HIDE DEF f3
  <2>8. Promotable(f3, Seeded, "shadow")
    BY <2>1, <2>7 DEF Promotable, allowed_transition
  <2>9. /\ Sound(f4, Q) /\ f4.stage[Seeded] = "shadow"
        /\ \A m \in Models : m # Seeded => f4.stage[m] = "absent"
    BY <2>3, <2>7, <2>8
  <2>10. FirstFile = f4
    BY <1>3 DEF FirstFile, f1, f2, f3
  <2> QED
    BY <2>9, <2>10
<1> QED
  BY <1>2, <1>3

LEMMA InitInv == Init => IInv
<1> SUFFICES ASSUME Init PROVE IInv
  OBVIOUS
<1>1. Qualified = Models \ Fixtures
  BY DEF Init, Qualified, Qualifies
<1>2. /\ Sound(file, Qualified) /\ file \in RegistryFile
      /\ \A p \in Processes : view[p] = file
      /\ \A m \in Models : m # Seeded => file.stage[m] = "absent"
      /\ Seeded # NoModel => file.stage[Seeded] = "shadow"
  BY <1>1, FirstSound DEF Init, Sound, RegistryOK
<1>3. file.revision \in Nat /\ file.used \in [Models -> Nat]
  BY <1>2 DEF RegistryFile
<1>4. RegistryInv
  BY <1>2, <1>3, GrowsSame DEF RegistryInv, CopyOK
<1>5. TypeOK
  <2>1. view \in [Processes -> RegistryFile]
    BY <1>2 DEF Init
  <2>2. job \in [Models -> [state : JobStates, retries : 0 .. RetryLimit + 1]]
    BY LifecycleAssumption DEF Init, JobStates
  <2>3. training \in [pc : WorkerSteps, m : Models \cup {NoModel}]
    BY DEF Init, WorkerSteps
  <2>4. decision \in [Requests -> [pc : {"new", "admitted", "claiming", "predict", "done"},
                                   p : Processes, m : Models \cup {NoModel}]]
    BY LifecycleAssumption DEF Init
  <2>5. /\ failures \in [Servers -> 0 .. FailureLimit - 1] /\ faults \in 0 .. MaxFaults
        /\ undo \in [Servers -> SUBSET UndoTask] /\ enabled \in BOOLEAN
        /\ failing \in [Models -> SUBSET Gates] /\ claims \in [Models -> Nat]
    BY LifecycleAssumption DEF Init
  <2> QED
    BY <1>2, <2>1, <2>2, <2>3, <2>4, <2>5 DEF TypeOK
<1>6. DecisionInv /\ WorkerInv /\ MarkedInv
  BY LifecycleAssumption DEF Init, DecisionInv, WorkerInv, MarkedInv, Holding
<1>7. FreshInv /\ CompletedHasModel
  <2>1. \A m \in Models : job[m].state = IF m = Seeded THEN "completed" ELSE "none"
    BY DEF Init
  <2>2. training.pc = "refresh"
    BY DEF Init
  <2> QED
    BY <1>2, <2>1, <2>2, RegistryAssumption DEF FreshInv, Unpublished, CompletedHasModel
<1>8. CanaryBudget
  BY <1>2, <1>3 DEF Init, CanaryBudget, Sound
<1> QED
  BY <1>4, <1>5, <1>6, <1>7, <1>8 DEF IInv

LEMMA StutterKept == ASSUME IInv, UNCHANGED vars PROVE IInv' /\ Moves
<1>1. Moves /\ Steady(file, file') /\ UNCHANGED jobVars /\ UNCHANGED servingVars
      /\ UNCHANGED faults
  BY SteadySame DEF vars, Moves, registryVars, jobVars, servingVars
<1>2. DecisionInv'
  BY <1>1 DEF IInv, DecisionInv, servingVars
<1> QED
  BY <1>1, <1>2, OutsideKept DEF IInv, TypeOK, servingVars

LEMMA NextInv == IInv /\ [Next]_vars => IInv' /\ Moves
<1> SUFFICES ASSUME IInv, [Next]_vars PROVE IInv' /\ Moves
  OBVIOUS
<1>1. CASE WorkerNext
  BY <1>1, JobFilesKept, ReadingKept, AdvanceKept, FitKept, FinishStepsKept DEF WorkerNext
<1>2. CASE ServingNext
  BY <1>2, DecisionKept, ClaimKept, RollbackKept, RefreshKept DEF ServingNext
<1>3. CASE WorkerCrash \/ AdminRollback
  BY <1>3, ReadingKept, AdminKept
<1>4. ASSUME NEW p \in Servers, ServerCrash(p) PROVE IInv' /\ Moves
  BY <1>4, RestartKept, LifecycleAssumption DEF ServerCrash
<1>5. ASSUME NEW k \in Mirrors, MirrorStart(k) PROVE IInv' /\ Moves
  BY <1>5, RestartKept, LifecycleAssumption DEF MirrorStart, NoFault
<1>6. CASE UNCHANGED vars
  BY <1>6, StutterKept
<1> QED
  BY <1>1, <1>2, <1>3, <1>4, <1>5, <1>6 DEF Next

(* The invariant holds throughout. *)
THEOREM RegistryInvariant == Spec => []IInv
<1> QED
  BY InitInv, NextInv, PTL DEF Spec

-----------------------------------------------------------------------------
(* Every variable keeps its type. *)
THEOREM TypeCorrect == Spec => []TypeOK
<1> QED
  BY RegistryInvariant, PTL DEF IInv

(* The processes together are never granted more canary decisions of a model than
   its budget, and the index counts them all (claim_canary_decision). *)
THEOREM CanaryWithinBudget == Spec => []CanaryBudget
<1> QED
  BY RegistryInvariant, PTL DEF IInv

(* No process serves a model whose evaluation failed or that was trained from
   fixtures, whichever path made it champion and however old the copy is. *)
THEOREM ServesQualified == Spec => []ServedWasQualified
<1>1. IInv => ServedWasQualified
  <2> SUFFICES ASSUME IInv, NEW p \in Processes, Serving(p) # NoModel
               PROVE  Qualifies(Serving(p))
    BY DEF ServedWasQualified
  <2>1. Serving(p) \in Models /\ view[p].stage[Serving(p)] \in ServingStages
    BY ServingType DEF IInv, Serving, Servable
  <2> QED
    BY <2>1 DEF IInv, RegistryInv, CopyOK, Sound, Qualified
<1> QED
  BY <1>1, RegistryInvariant, PTL

(* At most one model may influence decisions, and it is the champion. *)
THEOREM OneModelInfluences == Spec => []OneInfluential
<1>1. IInv => OneInfluential
  BY DEF IInv, RegistryInv, Sound, OneInfluential
<1> QED
  BY <1>1, RegistryInvariant, PTL

(* A completed job has an evaluated model of its dataset in the registry. *)
THEOREM CompletedJobsHaveModels == Spec => []CompletedHasModel
<1> QED
  BY RegistryInvariant, PTL DEF IInv

(* The registry and its copies are a revisioned store: a step is a Refresh or a
   Commit of RevisionedStore, or changes neither. *)
LEMMA InitRefines == Init => Store!Init
BY DEF Init, Store!Init

LEMMA StepRefines == ASSUME TypeOK, RegistryInv, Moves PROVE [Store!Next]_Store!vars
<1>1. view \in [Processes -> RegistryFile] /\ file.revision \in Nat
  BY DEF TypeOK, RegistryFile
<1>2. CASE UNCHANGED registryVars
  BY <1>2 DEF registryVars, Store!vars
<1>3. ASSUME NEW p \in Processes, CatchUp(p)
      PROVE  Store!Next \/ UNCHANGED Store!vars
  <2>1. view[p].revision \in Nat /\ view[p].revision <= file.revision
        /\ (view[p].revision = file.revision => view[p] = file)
    BY <1>1 DEF RegistryInv, CopyOK, RegistryFile
  <2>2. CASE view[p].revision < file.revision
    <3>1. Store!Refresh(p)
      BY <1>3, <2>2 DEF CatchUp, Store!Refresh, RevisionOf
    <3> QED
      BY <3>1 DEF Store!Next
  <2>3. CASE view[p] = file
    <3>1. view' = view
      BY <1>1, <1>3, <2>3 DEF CatchUp
    <3> QED
      BY <1>3, <3>1 DEF CatchUp, Store!vars
  <2> QED
    BY <1>1, <2>1, <2>2, <2>3
<1>4. ASSUME NEW p \in Processes, Write(p)
      PROVE  Store!Next
  <2>1. Store!Commit(p)
    BY <1>4 DEF Write, Advances, Store!Commit, RevisionOf
  <2> QED
    BY <2>1 DEF Store!Next
<1> QED
  BY <1>2, <1>3, <1>4 DEF Moves

THEOREM RegistryImplementsStore == Spec => ImplementsStore
<1>1. IInv /\ [Next]_vars => [Store!Next]_Store!vars
  BY NextInv, StepRefines DEF IInv
<1> QED
  BY <1>1, InitRefines, RegistryInvariant, PTL DEF Spec, ImplementsStore, Store!Spec
=============================================================================
