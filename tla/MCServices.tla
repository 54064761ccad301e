----------------------------- MODULE MCServices ------------------------------
(***************************************************************************)
(* The services behind a completion, explored for safety: the admission of *)
(* three invocations that may be aborted at every await, the metrics store *)
(* with a crash, the selection of waves over five candidates, and a        *)
(* request over three.  A behaviour runs one part and leaves the others    *)
(* where they began.                                                       *)
(***************************************************************************)
EXTENDS LoadAdmission, MetricsStore, Orchestration, SelectionCases, TLC

CONSTANTS c1, c2, h1, cpu, ram, interactive, trading,
          a1, a2, b1, b2, o1, A, B, O

MCHostGroup     == c1 :> h1 @@ c2 :> h1
MCMaxConcurrent == c1 :> 0 @@ c2 :> Unlimited
MCCost          == c1 :> (cpu :> 1 @@ ram :> 1) @@ c2 :> (cpu :> 1 @@ ram :> 0)
MCBudget        == c1 :> (cpu :> 2 @@ ram :> 0) @@ c2 :> (cpu :> 2 @@ ram :> 0)
MCPoolSize      == interactive :> 2 @@ trading :> 1

\* Two endpoints of a family that run one model, the second of them local, two models of
\* another, and a local model.  The request has three of the five.
Five       == {a1, a2, b1, b2, o1}
MCFamily == a1 :> A @@ a2 :> A @@ b1 :> B @@ b2 :> B @@ o1 :> O
MCModel  == a1 :> "a" @@ a2 :> "a" @@ b1 :> "b" @@ b2 :> "b-large" @@ o1 :> "o"
MCLocal  == {a2, o1}
MCFamilyBackoff == {a1}
MCRanks  == {<<a1, a2, o1>>}

MCSymmetry  == Permutations(Task) \cup Permutations(Tracked)

VARIABLE part

\* What an idle part begins with: one of its initial states.
IdleLoad    == req = [t \in Task |-> [cand |-> c1, class |-> interactive, wait |-> FALSE]]
IdleRequest == /\ mode = "balanced" /\ rank = <<a1, a2, o1>> /\ inBudget = Candidate
               /\ health = [c \in Candidate |-> "ok"]
IdleChoice  == input = <<>> /\ output = <<>>

ServicesInit ==
  /\ part \in {"load", "metrics", "selection", "request"}
  /\ part # "load" => IdleLoad
  /\ part # "request" => IdleRequest
  /\ LoadInit /\ RequestInit /\ MetricsInit
  /\ IF part = "selection" THEN SelectionInit ELSE IdleChoice

ServicesNext ==
  /\ UNCHANGED part
  /\ \/ /\ part = "load" /\ LoadNext
        /\ UNCHANGED <<metricsVars, selectionVars, requestVars>>
     \/ /\ part = "metrics" /\ MetricsNext
        /\ UNCHANGED <<loadVars, selectionVars, requestVars>>
     \/ /\ part = "selection" /\ Compute
        /\ UNCHANGED <<loadVars, metricsVars, requestVars>>
     \/ /\ part = "request" /\ RequestNext
        /\ UNCHANGED <<loadVars, metricsVars, selectionVars>>

ServicesSpec ==
  ServicesInit
    /\ [][ServicesNext]_<<part, loadVars, metricsVars, selectionVars, requestVars>>

(* The selection functions keep a wave lawful, the best candidate in it and
   the families and the local fallback covered, and rotate fairly; waves of
   complete_inner never go back to a candidate nor pay twice for a model. *)
WavesAreLawful ==
  /\ part = "selection" =>
       /\ WaveIsLawful /\ BestIsKept /\ LocalCovered
       /\ FamiliesFirst /\ AdaptiveIsHeadOfRace /\ RotationIsFair
  /\ NoReattempt /\ OneAnswerPerModel
=============================================================================
