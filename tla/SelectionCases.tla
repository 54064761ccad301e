------------------------- MODULE SelectionCases -------------------------
(* The selection operators on every order of every subset of the candidates,
   every health and every wave size up to MaxWave.  One step computes the
   selections of an input. *)
EXTENDS CandidateSelection

CONSTANT MaxWave   \* the largest wave

VARIABLES input, output

selectionVars == <<input, output>>

Orders(S) == SetToSeqs(S)
Inputs ==
  [by : {s \in UNION {Orders(S) : S \in SUBSET Known} : s # <<>>},
   healthy : SUBSET Known, max : 0..MaxWave, dedup : BOOLEAN]

(* A second order with the same candidates: healthy ones first, otherwise
   reversed, as unrelated to the score as an order of throughputs can be. *)
Ordered(in) ==
  LET r == Reverse(in.by)
  IN  Among(r, in.healthy) \o Among(r, Known \ in.healthy)

SelectionInit ==
  /\ input \in Inputs
  /\ input.healthy \subseteq Range(input.by)
  /\ output = <<>>

Compute ==
  /\ output = <<>>
  /\ output' = [ranked |-> SelectRanked(input.by, Ordered(input), input.healthy,
                                        input.max, input.dedup),
                adaptive |-> [n \in 1..Len(input.by) |->
                   SelectAdaptive(input.by, n, input.max, input.dedup)],
                robin |-> [k \in 0..2 |->
                   ReorderRoundRobin(input.by, input.healthy, model[Head(input.by)], k)]]
  /\ UNCHANGED input
-----------------------------------------------------------------------------
Done == output # <<>>
Target == AtLeast1(input.max)

(* A wave never exceeds its target, never holds a candidate twice, is not
   empty while there is a candidate, and in a deduplicating wave no two
   candidates run the same model - also after the local fallback was forced
   in. *)
WaveIsLawful ==
  Done => LET s == output.ranked IN
    /\ Len(s) \in 1..Target
    /\ IsInjective(s)
    /\ Range(s) \subseteq Range(input.by)
    /\ input.dedup => \A i, j \in DOMAIN s : model[s[i]] = model[s[j]] => i = j

(* The best candidate is never the one that makes room for the fallback. *)
BestIsKept == Done => Head(output.ranked) = Head(Ordered(input))

(* A wave of two or more contains the best local candidate whenever there is
   one, unless deduplication already has its model from another endpoint. *)
LocalCovered ==
  Done /\ Target >= 2 =>
    LET f == BestLocal(input.by, input.healthy) IN
    f # NoCand => \/ f \in Range(output.ranked)
                  \/ input.dedup /\ model[f] \in Models(output.ranked)

(* A family gets a second candidate only when no family is left without one,
   apart from the slot that the local fallback takes. *)
FamiliesFirst ==
  Done => LET s == output.ranked
              chosen == IF BestLocal(input.by, input.healthy) \in Range(s)
                        THEN Front(s) ELSE s
          IN  (\E i, j \in DOMAIN chosen : i # j /\ family[chosen[i]] = family[chosen[j]])
                => Families(input.by) \subseteq Families(s)

(* The adaptive selection is the deduplicated head of the race, for every
   race size: a non-empty set that contains the fastest candidate. *)
AdaptiveIsHeadOfRace ==
  Done => \A n \in DOMAIN output.adaptive :
    LET s == output.adaptive[n]
        race == SubSeq(input.by, 1, n)
        firstOfModel == {c \in Range(race) : \A i, j \in DOMAIN race :
                           race[i] = c /\ model[race[j]] = model[c] => i <= j}
    IN  /\ s # <<>> /\ Head(s) = Head(input.by)
        /\ IsInjective(s)
        /\ n <= Target => Range(s) = IF input.dedup THEN firstOfModel ELSE Range(race)

(* Round robin loses and repeats nobody, keeps the group of equivalent
   endpoints in front with its healthy members first, and consecutive cursors
   start with different members when all are healthy. *)
RotationIsFair ==
  Done =>
    LET group == {c \in Range(input.by) : model[c] = model[Head(input.by)]}
        s(k) == output.robin[k]
    IN /\ \A k \in 0..2 :
            /\ Range(s(k)) = Range(input.by) /\ Len(s(k)) = Len(input.by)
            /\ {s(k)[i] : i \in 1..Cardinality(group)} = group
            /\ \A i, j \in 1..Cardinality(group) :
                 s(k)[i] \in input.healthy /\ s(k)[j] \notin input.healthy => i < j
       /\ Cardinality(group) > 1 /\ group \subseteq input.healthy => Head(s(0)) # Head(s(1))
=============================================================================
