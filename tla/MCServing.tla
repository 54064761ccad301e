----------------------------- MODULE MCServing -------------------------------
(***************************************************************************)
(* The request path of the server: the admission of an invocation, the     *)
(* readiness cache and an orchestrated completion.  They share no state    *)
(* the properties can tell apart, so a behaviour runs one of them and      *)
(* leaves the others where they began; one run explores all three.         *)
(* Two invocations over two candidates of one host, the second of which    *)
(* never fits; three calls of /readyz; one request over a hosted and a     *)
(* local candidate (MCServices has a request over three).                  *)
(***************************************************************************)
EXTENDS LoadAdmission, Readiness, Orchestration, TLC

CONSTANTS c1, c2, h1, cpu, ram, interactive, trading, a1, o1, A, O

MCHostGroup     == c1 :> h1 @@ c2 :> h1
MCMaxConcurrent == c1 :> 0 @@ c2 :> Unlimited
MCCost          == c1 :> (cpu :> 2 @@ ram :> 1) @@ c2 :> (cpu :> 3 @@ ram :> 0)
MCBudget        == c1 :> (cpu :> 2 @@ ram :> 0) @@ c2 :> (cpu :> 2 @@ ram :> 0)
MCPoolSize      == interactive :> 2 @@ trading :> 1
MCGuardedPoints == AwaitPoints \ UnguardedPoints

MCFamily == a1 :> A @@ o1 :> O
MCModel  == a1 :> "a" @@ o1 :> "o"
MCLocal  == {o1}
MCFamilyBackoff == {a1}
MCRanks  == {<<a1, o1>>, <<o1, a1>>}

VARIABLE part

servingVars == <<part, loadVars, readyVars, requestVars>>

ServingInit ==
  /\ part \in {"load", "readiness", "request"}
  /\ part # "load" =>
       req = [t \in Task |-> [cand |-> c1, class |-> interactive, wait |-> FALSE]]
  /\ part # "request" =>
       /\ mode = "balanced" /\ hasCap = FALSE /\ rank = <<a1, o1>>
       /\ health = [c \in Candidate |-> "ok"]
  /\ LoadInit /\ ReadyInit /\ RequestInit

\* A step of one part leaves the others alone.
InLoad(A0)      == part = "load" /\ A0 /\ UNCHANGED <<part, readyVars, requestVars>>
InReadiness(A0) == part = "readiness" /\ A0 /\ UNCHANGED <<part, loadVars, requestVars>>
InRequest(A0)   == part = "request" /\ A0 /\ UNCHANGED <<part, loadVars, readyVars>>

ServingNext == InLoad(LoadNext) \/ InReadiness(ReadyNext) \/ InRequest(RequestNext)

\* LoadFairness, ReadyFairness and the fairness of RequestFairSpec.
ServingSpec ==
  /\ ServingInit /\ [][ServingNext]_servingVars
  /\ \A t \in Task : WF_servingVars(InLoad(Step(t)))
  /\ WF_servingVars(InLoad(Spawned))
  /\ \A k \in Caller : WF_servingVars(InReadiness(Serve(k)))
  /\ \A a \in Actor : WF_servingVars(InReadiness(Refresh(a)))
  /\ WF_servingVars(InRequest(RequestNext))

(* Every invocation ends, every caller of /readyz is answered, and every
   orchestrated request ends: the waves of complete_inner never go round for
   ever. *)
RequestEnds == part = "request" ~> phase = "done"
EveryCallEnds == EveryInvocationEnds /\ EveryCallAnswered /\ RequestEnds
=============================================================================
