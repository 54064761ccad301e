-------------------------- MODULE MCOrchestration --------------------------
(* One request over three candidates: two endpoints of one hosted family that
   run the same model, one of them with family backoff, and a local one. *)
EXTENDS Orchestration, TLC

CONSTANTS a1, a2, o1, A, O

MCFamily == a1 :> A @@ a2 :> A @@ o1 :> O
MCModel  == a1 :> "a" @@ a2 :> "a" @@ o1 :> "o"
MCLocal  == {o1}
MCFamilyBackoff == {a1}
MCRanks  == {<<a1, a2, o1>>, <<o1, a2, a1>>}
=============================================================================
