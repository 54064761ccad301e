-------------------------- MODULE MCLoadAdmission --------------------------
(* Three invocations over two candidates of one shared host: c1 admits one
   request, c2 is bounded only by the host's cpu budget; the interactive pool
   has two permits, the trading pool one. *)
EXTENDS LoadAdmission, TLC

CONSTANTS c1, c2, h1, cpu, ram, interactive, trading

MCHostGroup     == c1 :> h1 @@ c2 :> h1
MCMaxConcurrent == c1 :> 0 @@ c2 :> Unlimited
MCCost          == c1 :> (cpu :> 1 @@ ram :> 1) @@ c2 :> (cpu :> 1 @@ ram :> 0)
MCBudget        == c1 :> (cpu :> 2 @@ ram :> 0) @@ c2 :> (cpu :> 2 @@ ram :> 0)
MCPoolSize      == interactive :> 2 @@ trading :> 1
Symmetry        == Permutations(Task)

=============================================================================
