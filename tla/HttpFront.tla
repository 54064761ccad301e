------------------------------ MODULE HttpFront ------------------------------
(***************************************************************************)
(* An exchange with the server: the governance guard around the handlers   *)
(* (governance.rs), the OpenAI-compatible handlers with their routing and  *)
(* their degraded answers (app.rs), the completions of in-process users,   *)
(* and Aria's own assessments, which come back through the same service.   *)
(* Aria may be down, and may answer with a verdict on something else; a    *)
(* client may leave at any await, which drops the handler.                 *)
(***************************************************************************)
EXTENDS Integers, FiniteSets

CONSTANTS
  Exchange,          \* exchanges with the server
  PlanKey,           \* keys of EXECUTION_PLAN_CACHE
  NoKey,             \* no key: the request asks for no execution plan
  MaxInFlight,       \* GovernanceConfig::max_in_flight
  AssessmentSlots,   \* the permits of assessment_slots
  MaxPlans,          \* EXECUTION_PLAN_CACHE_MAX_ENTRIES
  LocalFallback,     \* GAIL_FALLBACK_UNAVAILABLE_LOCAL_MODELS
  Vias               \* the kinds of exchange explored

\* The counts of permits are usize; the guard and the services it wraps are the only ways in.
ASSUME FrontAssumption ==
  /\ IsFiniteSet(Exchange) /\ MaxInFlight \in Nat /\ AssessmentSlots \in Nat
  /\ Vias \subseteq {"chat", "responses", "audio", "complete", "direct", "transcribe",
                     "internal", "assess"}

VARIABLES
  aria,              \* GovernanceConfig: the mode and fail_open
  ex,                \* the exchanges
  slots,             \* permits free in Governance::slots
  assessing,         \* permits free in assessment_slots
  plans              \* EXECUTION_PLAN_CACHE: what each key holds

frontVars == <<aria, ex, slots, assessing, plans>>

Governed == {"chat", "responses", "audio", "complete", "direct", "transcribe"}
Final    == {"delivered", "refused", "gone"}
Phase    == {"request", "response"}

NoVerdict   == [id |-> "none", phase |-> "none", action |-> "none"]
Unavailable == [NoVerdict EXCEPT !.action = "unavailable"]
New == [at |-> "new", via |-> "none", route |-> "none", own |-> FALSE, plan |-> NoKey,
        sent |-> [how |-> "none", configured |-> FALSE, most |-> 0],
        marked |-> FALSE, held |-> 0, asked |-> NoVerdict, told |-> NoVerdict,
        body |-> "none", checks |-> [p \in Phase |-> 0]]

Go1(e, at) == ex' = [ex EXCEPT ![e].at = at]
\* The guard's _permit is dropped with the handler.
Ended(x, at) == [New EXCEPT !.at = at, !.via = x.via, !.checks = x.checks,
                            !.asked = x.asked, !.told = x.told]
Leave(e, at) == /\ ex' = [ex EXCEPT ![e] = Ended(@, at)]
                /\ slots' = slots + (IF ex[e].via = "assess" THEN 0 ELSE ex[e].held)
                /\ assessing' = assessing + (IF ex[e].via = "assess" THEN ex[e].held ELSE 0)
-----------------------------------------------------------------------------
(***************************************************************************)
(* Where a requested model is sent.                                        *)
(***************************************************************************)
\* What resolve_openai_route tells apart in a model's name and its provider hint.
Shape == {"empty", "auto", "specialist", "local", "gail/auto", "gail/other", "specialist/x",
          "provider/x", "hint specialist", "hint supported", "hint unknown",
          "profiled", "inferred", "unknown"}

\* select_provider_profile: the profile's own name or its type; an exact model first.
ProfileOf(s) == s \in {"provider/x", "hint supported", "profiled"}
\* find_profile_for_model: only where all the profiles are of one type.
OneProvider(s) == s = "profiled"
\* infer_provider_from_model
Inferred(s) == s \in {"inferred", "local"}

\* resolve_openai_route
ResolveRoute(s) ==
  CASE s = "empty" -> "error"
    [] s \in {"auto", "specialist", "gail/auto", "specialist/x", "hint specialist"} ->
         "orchestrated"
    [] s = "local" /\ LocalFallback -> "orchestrated"
    [] s \in {"gail/other", "hint unknown"} -> "error"
    [] ~(s = "local" /\ LocalFallback) /\ (ProfileOf(s) \/ OneProvider(s) \/ Inferred(s)) ->
         "explicit"
    [] OTHER -> "error"

\* build_direct_provider_request: the named provider and no other.
DirectRequest == [how |-> "direct", configured |-> FALSE, most |-> 1]
\* build_completion_request: the configured pool, unless the caller brought an endpoint.
CompletionRequest(route, own) ==
  [how |-> "complete", configured |-> ~(route = "explicit" /\ own),
   most |-> IF route = "explicit" /\ own THEN 1 ELSE 2]

\* dispatch_openai_chat_completion
DispatchChat(route, own) ==
  IF route = "explicit" /\ own THEN DirectRequest ELSE CompletionRequest(route, own)
\* dispatch_openai_responses
DispatchResponses(route, own) ==
  IF route = "explicit" /\ own THEN DirectRequest ELSE CompletionRequest(route, own)
-----------------------------------------------------------------------------
(***************************************************************************)
(* Aria's verdicts.                                                        *)
(***************************************************************************)
\* What Aria may answer: nothing of use, or a verdict on some request and phase.
Replies == {Unavailable} \cup
           [id : Exchange, phase : Phase, action : {"allow", "block"}]

\* Mutant: any verdict will do.
EvaluateAny(e, phase, reply) == reply
\* Governance::evaluate: the verdict must be on this request and this phase.
Evaluate(e, phase, reply) ==
  IF reply.id = e /\ reply.phase = phase THEN reply ELSE Unavailable

\* Governance::failure
FailureRefuses == aria.mode = "enforce" /\ ~aria.failOpen

\* Governance::check: TRUE when the exchange goes on.
Passes(v) == CASE v.action = "block" -> aria.mode # "enforce"
               [] v.action = "unavailable" -> ~FailureRefuses
               [] OTHER -> TRUE

\* Mutant: an assessment is checked like any other completion.
ChecksAll(e) == aria.mode # "disabled" /\ ~ex[e].marked
\* checks_completion: neither an assessment nor under the guard's marker.
ChecksCompletion(e) == aria.mode # "disabled" /\ ex[e].via # "assess" /\ ~ex[e].marked
-----------------------------------------------------------------------------
(***************************************************************************)
(* guard: the credential of an assessment, the scope of the path, the      *)
(* caller's token, a permit, the body, Aria's verdict, the handler.        *)
(***************************************************************************)
\* The multipart forms of openai_audio_transcriptions and transcribe: complete, or refused.
AudioForm   == {"run", "refused"}
UploadForm  == {"run", "refused"}
\* openai_chat_completions and openai_responses name a route and perhaps a plan.
Asks(e, via) ==
  \E s \in Shape, own \in BOOLEAN, k \in PlanKey \cup {NoKey} :
    /\ via \notin {"chat", "responses"} => s = "auto" /\ ~own /\ k = NoKey
    /\ ex' = [ex EXCEPT ![e] = [New EXCEPT
         !.at = IF via \in Governed THEN "guard" ELSE "enter", !.via = via,
         !.route = ResolveRoute(s), !.own = own, !.plan = k]]

Arrive(e) == /\ ex[e].at = "new" /\ \E via \in Vias : Asks(e, via)
             /\ UNCHANGED <<aria, slots, assessing, plans>>

\* A path of scope_for_path, authorised, with a permit and a body that fits.
Guard(e) ==
  /\ ex[e].at = "guard" /\ UNCHANGED <<aria, assessing, plans>>
  /\ \/ aria.mode = "disabled" /\ Go1(e, "enter") /\ UNCHANGED slots
     \/ /\ aria.mode # "disabled"
        /\ \E authorised \in BOOLEAN :
             IF authorised /\ slots > 0
             THEN slots' = slots - 1 /\ ex' = [ex EXCEPT ![e].at = "reading", ![e].held = 1]
             ELSE Go1(e, "refused") /\ UNCHANGED slots

\* to_bytes within ten seconds and max_body_bytes: the permit is held meanwhile.
ReadBody(e) ==
  /\ ex[e].at = "reading" /\ UNCHANGED <<aria, plans>>
  /\ \/ Go1(e, "asking") /\ UNCHANGED <<slots, assessing>>
     \/ Leave(e, "refused")

\* The check of a phase, by the guard or by Governance::completion.  inspectable_content
\* flattens what was said and tells whether that is all of it: Aria may judge either way.
Check(e, phase) == {Evaluate(e, phase, reply) : reply \in Replies}

AskedWith(e, v) ==
  ex' = [ex EXCEPT ![e].asked = v, ![e].checks["request"] = @ + 1,
                   ![e].marked = @ \/ ex[e].via \in Governed,
                   ![e].at = IF ex[e].via \in Governed THEN "enter" ELSE "run"]

Ask(e) ==
  /\ ex[e].at = "asking" /\ UNCHANGED <<aria, plans>>
  /\ \E v \in Check(e, "request") :
       IF Passes(v) THEN AskedWith(e, v) /\ UNCHANGED <<slots, assessing>> ELSE Leave(e, "refused")

\* The handler begins: the form is read, the route is resolved, an assessment takes its permit.
Enter(e) ==
  /\ ex[e].at = "enter" /\ UNCHANGED <<aria, plans>>
  /\ CASE ex[e].via \in {"audio", "transcribe"} ->
            /\ UNCHANGED <<slots, assessing>>
            /\ \E at \in AudioForm \cup UploadForm :
                 ex' = [ex EXCEPT ![e].at = IF at = "run" THEN at ELSE "tell", ![e].body = "error"]
       [] ex[e].via = "assess" ->
            /\ UNCHANGED slots
            /\ \/ Go1(e, "refused") /\ UNCHANGED assessing          \* token, phase or 429
               \/ /\ assessing > 0 /\ assessing' = assessing - 1
                  /\ ex' = [ex EXCEPT ![e].held = 1, ![e].at = "complete"]
       [] ex[e].route = "error" ->
            /\ UNCHANGED <<slots, assessing>>
            /\ ex' = [ex EXCEPT ![e].at = "tell", ![e].body = "error"]
       [] OTHER -> Go1(e, "complete") /\ UNCHANGED <<slots, assessing>>

\* GailService::complete and direct_complete: checked here unless the guard has done it.
Complete(e) ==
  LET sent == CASE ex[e].via \in {"chat", "internal"} -> DispatchChat(ex[e].route, ex[e].own)
                [] ex[e].via = "responses" -> DispatchResponses(ex[e].route, ex[e].own)
                [] ex[e].via = "direct" -> DirectRequest
                [] OTHER -> CompletionRequest("orchestrated", FALSE)
  IN  /\ ex[e].at = "complete" /\ UNCHANGED <<aria, assessing, plans>>
      /\ IF ~ChecksCompletion(e)
         THEN ex' = [ex EXCEPT ![e].at = "run", ![e].sent = sent] /\ UNCHANGED slots
         ELSE \/ /\ slots = 0 /\ Go1(e, "refused") /\ UNCHANGED slots
              \/ /\ slots > 0 /\ slots' = slots - 1
                 /\ ex' = [ex EXCEPT ![e].at = "asking", ![e].held = 1, ![e].sent = sent]
-----------------------------------------------------------------------------
(***************************************************************************)
(* What the operation returned, and what the handler makes of it.          *)
(***************************************************************************)
\* A provider's answer, a plan, a blank plan, the orchestrator's degraded policy, or an error.
Results == {"answer", "plan", "blank", "degraded", "transient", "quota", "broken"}

\* Mutant: a degraded answer is kept like a provider's.
CachesAny(e, r) == ex[e].plan # NoKey /\ r \in {"plan", "degraded"}
\* maybe_cache_execution_plan_from_chat_success and ..._from_responses_success: never what
\* the model degraded_safety wrote; maybe_cache_execution_plan_response: only a plan with steps.
Caches(e, r) == ex[e].plan # NoKey /\ r = "plan"

\* store_cached_execution_plan: any other key makes room.
Stored(k, r) ==
  IF plans[k] = "none" /\ Cardinality({q \in PlanKey : plans[q] # "none"}) >= MaxPlans
  THEN \E q \in PlanKey : plans[q] # "none" /\ plans' = [plans EXCEPT ![q] = "none", ![k] = r]
  ELSE plans' = [plans EXCEPT ![k] = r]

\* transient_openai_fallback_reason and message_indicates_transient_upstream
Transient(r) == r = "transient"

\* load_cached_execution_plan: what fits the schema that is asked for now.
Loaded(k) == IF plans[k] = "none" THEN {"context"} ELSE {"context", plans[k]}
\* degraded_chat_completion_for_upstream_error: a plan from the cache or from the prompt, or hold.
DegradedChat(e) == IF ex[e].plan = NoKey THEN {"hold"} ELSE Loaded(ex[e].plan)
\* degraded_responses_completion_for_upstream_error
DegradedResponses(e) == IF ex[e].plan = NoKey THEN {"hold"} ELSE Loaded(ex[e].plan)

\* parse_classification, and the degraded policy, refuse what an assessment got.
Classified(r) == IF r = "answer" THEN {"answer", "error"} ELSE {"error"}

Bodies(e, r) ==
  IF ex[e].via = "assess" THEN Classified(r)
  ELSE IF ex[e].via = "chat" /\ Transient(r) THEN DegradedChat(e)
  ELSE IF ex[e].via = "responses" /\ Transient(r) THEN DegradedResponses(e)
  ELSE IF r \in {"transient", "quota", "broken"} THEN {"error"} ELSE {r}

\* The operation ends and the handler answers; the guard, or completion, has it checked.
Run(e) ==
  /\ ex[e].at = "run" /\ UNCHANGED aria
  /\ \E r \in Results : \E b \in Bodies(e, r) :
       /\ IF ex[e].via \in {"chat", "responses"} /\ Caches(e, r)
          THEN Stored(ex[e].plan, r) ELSE UNCHANGED plans
       /\ IF ex[e].via = "internal" /\ b = "error"
          THEN Leave(e, "refused")
          ELSE ex' = [ex EXCEPT ![e].at = "tell", ![e].body = b] /\ UNCHANGED <<slots, assessing>>

\* Nothing leaves before the response was read in full and Aria has spoken.
Tell(e) ==
  /\ ex[e].at = "tell" /\ UNCHANGED <<aria, plans>>
  /\ IF ex[e].held = 0 \/ ex[e].via = "assess"
     THEN Leave(e, "delivered")
     ELSE \/ ex[e].via \in Governed /\ Leave(e, "refused")   \* body limit, 502
          \/ \E v \in Check(e, "response") :
               /\ ex' = [ex EXCEPT ![e] =
                    [Ended(ex[e], IF Passes(v) THEN "delivered" ELSE "refused")
                       EXCEPT !.told = v, !.checks["response"] = @ + 1]]
               /\ slots' = slots + 1 /\ UNCHANGED assessing

\* The client leaves: the future is dropped where it waits.
Disconnect(e) == /\ ex[e].at \in {"reading", "asking", "run", "tell"} /\ Leave(e, "gone")
                 /\ UNCHANGED <<aria, plans>>

\* Governance::new accepts a configuration.
FrontInit ==
  /\ aria \in [mode : {"disabled", "monitor", "enforce"}, failOpen : BOOLEAN]
  /\ aria.failOpen => aria.mode = "enforce"
  /\ ex = [e \in Exchange |-> New]
  /\ slots = MaxInFlight /\ assessing = AssessmentSlots
  /\ plans = [k \in PlanKey |-> "none"]

FrontNext == \E e \in Exchange :
  \/ Arrive(e) \/ Guard(e) \/ ReadBody(e) \/ Ask(e) \/ Enter(e) \/ Complete(e) \/ Run(e)
  \/ Tell(e) \/ Disconnect(e)

FrontSpec == FrontInit /\ [][FrontNext]_frontVars
-----------------------------------------------------------------------------
Allowed(e, v, phase) == v.id = e /\ v.phase = phase /\ v.action # "block"

(* Enforcing and not failing open, nothing is executed before Aria allowed
   that very request, and no answer leaves before Aria allowed that very
   response (guard, Governance::completion). *)
NothingUnchecked ==
  FailureRefuses => \A e \in Exchange : ex[e].via # "assess" =>
    /\ ex[e].at \in {"run", "tell", "delivered"} => Allowed(e, ex[e].asked, "request")
    /\ ex[e].at = "delivered" => Allowed(e, ex[e].told, "response")

(* One exchange is checked once a phase, whether the guard or the completion
   inside it does it, and Aria's assessments are neither checked themselves
   nor kept out by the exchanges that wait for them: they hold permits of
   their own.  Every permit comes back. *)
CheckedOnce ==
  /\ \A e \in Exchange : \A p \in Phase :
       ex[e].checks[p] <= IF ex[e].via = "assess" THEN 0 ELSE 1
  /\ slots + Cardinality({e \in Exchange : ex[e].held = 1 /\ ex[e].via # "assess"}) = MaxInFlight
  /\ assessing + Cardinality({e \in Exchange : ex[e].held = 1 /\ ex[e].via = "assess"})
       = AssessmentSlots
  /\ \A e \in Exchange : ex[e].at \in Final => ex[e].held = 0

(* A caller who names a provider and brings an endpoint or a credential for it
   is answered by that provider alone: the configured pool is not tried
   (dispatch_openai_chat_completion, build_completion_request). *)
OwnEndpointAlone ==
  \A e \in Exchange : ex[e].own /\ ex[e].route = "explicit" /\ ex[e].sent.most > 0
    => ex[e].sent.most = 1 /\ ~ex[e].sent.configured

(* A degraded answer never enters the cache that degraded answers are made
   from, so every cached plan is a provider's
   (maybe_cache_execution_plan_from_chat_success). *)
PlansAreReal == \A k \in PlanKey : plans[k] \in {"none", "plan"}

\* The exchanges with the server keep to what governance promises.
FrontIsGoverned == NothingUnchecked /\ CheckedOnce /\ OwnEndpointAlone /\ PlansAreReal
=============================================================================
