------------------------ MODULE CandidateSelection ------------------------
(***************************************************************************)
(* The wave-selection functions of src/src/orchestration.rs as operators   *)
(* on sequences of candidates, best first.  A candidate stands for one     *)
(* attempt key; its model key determines its provider family.              *)
(***************************************************************************)
EXTENDS Naturals, Sequences, FiniteSets, SequencesExt

CONSTANTS
  Known,     \* candidates, already deduplicated by candidate_attempt_key
  family,    \* [Known -> provider type]
  model,     \* [Known -> candidate_model_key]
  local,     \* candidates that candidate_is_local_fallback accepts
  NoCand     \* Option::None

ASSUME SelectionConstants ==
  /\ NoCand \notin Known /\ IsFiniteSet(Known)
  /\ local \subseteq Known
  /\ \A c, d \in Known : model[c] = model[d] => family[c] = family[d]

Families(s) == {family[c] : c \in Range(s)}
Models(s)   == {model[c] : c \in Range(s)}

AtLeast1(n) == IF n = 0 THEN 1 ELSE n   \* .max(1)

\* The candidates of a list that are in S, in their order.
Among(list, S) ==
  LET kept[n \in 0..Len(list)] ==
        IF n = 0 THEN <<>>
        ELSE IF list[n] \in S THEN Append(kept[n - 1], list[n]) ELSE kept[n - 1]
  IN  kept[Len(list)]

(* Mutant: the first pass does not look at families. *)
PassAnyFamily(ordered, start, target, dedup, distinctFamilies) ==
  LET Refused(acc, c) ==
        \/ Len(acc) >= target
        \/ c \in Range(acc)
        \/ dedup /\ model[c] \in Models(acc)
      taken[n \in 0..Len(ordered)] ==
        IF n = 0 THEN start
        ELSE LET acc == taken[n - 1]
             IN  IF Refused(acc, ordered[n]) THEN acc ELSE Append(acc, ordered[n])
  IN  taken[Len(ordered)]

(* One greedy pass over the candidates: take what is acceptable until the
   target is reached. *)
Pass(ordered, start, target, dedup, distinctFamilies) ==
  LET Refused(acc, c) ==
        \/ Len(acc) >= target
        \/ c \in Range(acc)
        \/ distinctFamilies /\ family[c] \in Families(acc)
        \/ dedup /\ model[c] \in Models(acc)
      taken[n \in 0..Len(ordered)] ==
        IF n = 0 THEN start
        ELSE LET acc == taken[n - 1]
             IN  IF Refused(acc, ordered[n]) THEN acc ELSE Append(acc, ordered[n])
  IN  taken[Len(ordered)]

(* best_local_fallback_candidate: max_by over (health_ok, score). *)
BestLocal(ranked, healthy) ==
  LET locals == Among(ranked, local)
      fit    == Among(locals, healthy)
  IN  IF fit # <<>> THEN Head(fit) ELSE IF locals # <<>> THEN Head(locals) ELSE NoCand

(* Mutant: the fallback is added without looking at its model. *)
EnsureLocalUnchecked(selected, fallback, target, dedup) ==
  IF fallback = NoCand \/ fallback \in Range(selected) THEN selected
  ELSE IF Len(selected) < target THEN Append(selected, fallback)
  ELSE IF target >= 2 THEN Append(Front(selected), fallback)
  ELSE selected

(* Mutant: the fallback evicts the first choice. *)
EnsureLocalEvictsFirst(selected, fallback, target, dedup) ==
  IF \/ fallback = NoCand
     \/ fallback \in Range(selected)
     \/ dedup /\ model[fallback] \in Models(selected)
  THEN selected
  ELSE IF Len(selected) < target THEN Append(selected, fallback)
  ELSE IF target >= 2 THEN Append(Tail(selected), fallback)
  ELSE selected

(* Mutant: a full wave has no room for the fallback. *)
EnsureLocalOnlyIfRoom(selected, fallback, target, dedup) ==
  IF \/ fallback = NoCand
     \/ fallback \in Range(selected)
     \/ dedup /\ model[fallback] \in Models(selected)
     \/ Len(selected) >= target
  THEN selected
  ELSE Append(selected, fallback)

(* ensure_local_fallback_selected: the last choice makes room for it. *)
EnsureLocal(selected, fallback, target, dedup) ==
  IF \/ fallback = NoCand
     \/ fallback \in Range(selected)
     \/ dedup /\ model[fallback] \in Models(selected)
  THEN selected
  ELSE IF Len(selected) < target THEN Append(selected, fallback)
  ELSE IF target >= 2 THEN Append(Front(selected), fallback)
  ELSE selected

(* select_ranked_candidates: distinct families first, then the rest.  ranked
   is in score order, ordered in order of health, throughput and size. *)
SelectRanked(ranked, ordered, healthy, max, dedup) ==
  LET target   == AtLeast1(max)
      distinct == Pass(ordered, <<>>, target, dedup, TRUE)
      filled   == Pass(ordered, distinct, target, dedup, FALSE)
      fallback == IF target >= 2 THEN BestLocal(ranked, healthy) ELSE NoCand
  IN  EnsureLocal(filled, fallback, target, dedup)

(* Mutant: only the pass over distinct families. *)
SelectAdaptiveOnePass(byEta, raced, max, dedup) ==
  Pass(SubSeq(byEta, 1, raced), <<>>,
       IF raced <= AtLeast1(max) THEN raced ELSE AtLeast1(max), dedup, TRUE)

(* select_adaptive_candidates: byEta is in order of expected useful
   completion, and raced is how many of its first candidates are within the
   race window and the race limit. *)
SelectAdaptive(byEta, raced, max, dedup) ==
  LET competitive == SubSeq(byEta, 1, raced)
      target      == IF raced <= AtLeast1(max) THEN raced ELSE AtLeast1(max)
      distinct    == Pass(competitive, <<>>, target, dedup, TRUE)
  IN  IF byEta = <<>> THEN <<>>
      ELSE Pass(competitive, distinct, target, dedup, FALSE)

(* Mutant: the cursor is ignored. *)
ReorderWithoutCursor(ranked, healthy, groupModel, offset) ==
  LET same  == {c \in Known : model[c] = groupModel}
      group == Among(ranked, same)
  IN  Among(group, healthy) \o Among(group, Known \ healthy) \o Among(ranked, Known \ same)

(* reorder_ranked_candidates_for_round_robin: rotate the group of equivalent
   endpoints and put it first, its healthy members before the others. *)
ReorderRoundRobin(ranked, healthy, groupModel, offset) ==
  LET same    == {c \in Known : model[c] = groupModel}
      group   == Among(ranked, same)
      rest    == Among(ranked, Known \ same)
      k       == offset % Len(group)
      rotated == SubSeq(group, k + 1, Len(group)) \o SubSeq(group, 1, k)
  IN  IF Len(group) < 2 THEN group \o rest
      ELSE Among(rotated, healthy) \o Among(rotated, Known \ healthy) \o rest

(* transient_backoff_probe_target_with_config *)
ProbeTarget(waveSize, count, configured) ==
  LET wanted == AtLeast1(IF configured >= waveSize THEN configured ELSE waveSize)
  IN  IF wanted <= AtLeast1(count) THEN wanted ELSE AtLeast1(count)
=============================================================================
