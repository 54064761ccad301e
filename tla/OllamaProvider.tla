---------------------------- MODULE OllamaProvider ----------------------------
(***************************************************************************)
(* The Ollama adapter of src/providers/ollama.rs: a completion tries its   *)
(* endpoints in order under one deadline; each endpoint has a semaphore    *)
(* and a cooldown shared by all completions; the model that answers is     *)
(* resolved from the endpoint's inventory. Ollama is external. A model is  *)
(* its size, and a Duration is a number of ticks, Second to the second.    *)
(***************************************************************************)
EXTENDS Integers, Sequences, FiniteSets, SequencesExt

CONSTANTS
  OllamaCall,       \* completions
  Explicit,         \* those whose request names an endpoint
  RequestedUrl,     \* the base URL of a request that names one
  OwnUrl,           \* self.base_url
  FallbackUrls,     \* the other endpoints, in order
  MaxEndpoints,     \* GAIL_OLLAMA_MAX_ENDPOINTS
  EndpointPermits,  \* GAIL_OLLAMA_MAX_CONCURRENT_REQUESTS
  TotalTimeout,     \* total_timeout_seconds
  QueueTimeout,     \* GAIL_OLLAMA_QUEUE_TIMEOUT_SECONDS
  FallbackReserve,          \* GAIL_OLLAMA_FALLBACK_RESERVE_SECONDS
  SaturationBackoff,\* GAIL_OLLAMA_SATURATION_BACKOFF_SECONDS
  FamilyBackoff,    \* GAIL_OLLAMA_FAMILY_SATURATION_BACKOFF
  AllowPull,        \* OLLAMA_ALLOW_AUTO_PULL
  RequestedModel, DefaultModel,   \* sizes
  Second            \* ticks of a second

ASSUME OllamaAssumption ==
  /\ Explicit \subseteq OllamaCall /\ FallbackUrls \in Seq(ToSet(FallbackUrls))
  /\ MaxEndpoints \in Nat \ {0} /\ EndpointPermits \in Nat \ {0} /\ Second \in Nat \ {0}
  /\ {TotalTimeout, QueueTimeout, FallbackReserve, SaturationBackoff} \subseteq Nat \ {0}
  /\ FamilyBackoff \in BOOLEAN /\ AllowPull \in BOOLEAN
  /\ RequestedModel \in Nat \ {0} /\ DefaultModel \in Nat \ {0}

VARIABLES
  permitsOut,   \* [endpoint -> calls that hold one of its permits]
  cooldown,      \* OLLAMA_ENDPOINT_SATURATED_UNTIL: [endpoint -> ticks left]
  familyLeft,   \* OLLAMA_SATURATED_UNTIL: ticks left
  oll           \* [OllamaCall -> the state of complete and complete_once]

ollamaVars == <<permitsOut, cooldown, familyLeft, oll>>

Urls == {RequestedUrl, OwnUrl} \cup ToSet(FallbackUrls)
Sizes == 1 .. (IF RequestedModel > DefaultModel THEN RequestedModel ELSE DefaultModel)
Lower(a, b) == IF a < b THEN a ELSE b
Upper(a, b) == IF a > b THEN a ELSE b

Unused == [pc |-> "unused", urls |-> <<>>, index |-> 0, left |-> 0, budget |-> 0, due |-> 0,
           model |-> 0, attempt |-> 0, strict |-> FALSE, floor |-> 0]

OllamaInit ==
  /\ permitsOut = [u \in Urls |-> {}]
  /\ cooldown = [u \in Urls |-> 0] /\ familyLeft = 0
  /\ oll = [c \in OllamaCall |-> Unused]

OllamaOver(pc, model) == [Unused EXCEPT !.pc = pc, !.model = model]
Url(c) == oll[c].urls[oll[c].index]
Pc(c) == oll[c].pc


\* base_url_candidates: the request's endpoint, the adapter's own, then the fallbacks,
\* each once and at most MaxEndpoints.
UrlCandidates(explicit) ==
  LET all == (IF explicit THEN <<RequestedUrl>> ELSE <<>>) \o <<OwnUrl>> \o FallbackUrls
      firsts == {i \in DOMAIN all : \A j \in 1 .. (i - 1) : all[j] # all[i]}
      kept == [n \in 1 .. Cardinality(firsts) |-> CHOOSE i \in firsts : Cardinality({j \in firsts : j <= i}) = n]
  IN  [n \in 1 .. Lower(MaxEndpoints, Len(kept)) |-> all[kept[n]]]

-----------------------------------------------------------------------------
(* Budgets.                                                                *)

\* compute_ollama_endpoint_budget.
EndpointBudget(remaining, endpoints) ==
  LET least == Lower(2 * Second, Upper(remaining, Second))
      split == Lower(Upper(remaining \div endpoints, least), remaining)
      preferred == remaining - Lower(FallbackReserve * Second, remaining \div 3)
  IN  IF endpoints <= 1 THEN Upper(remaining, Second)
      ELSE IF preferred >= least THEN preferred ELSE split

\* resolved_ollama_queue_timeout_seconds, of the whole seconds of the budget.
QueueBudget(budget) ==
  LET seconds == Upper(budget \div Second, 1)
  IN  Second * Lower(QueueTimeout, Upper(seconds - 1, 1))

\* Mutant: the endpoint budget alone bounds the inference.
InferenceBudgetUncut(c) == oll[c].budget

\* complete: the endpoint budget, cut to the time left when the permit came.
InferenceBudget(c) == Lower(oll[c].budget, Upper(oll[c].left, 0))

-----------------------------------------------------------------------------
(* The endpoint loop of complete.                                          *)

\* complete: a request without its own endpoint respects the family's cooldown.
StartOllama(c, strict, floor) ==
  IF c \notin Explicit /\ FamilyBackoff /\ familyLeft > 0
  THEN oll' = [oll EXCEPT ![c] = OllamaOver("error", 0)]
  ELSE oll' = [oll EXCEPT ![c] = [Unused EXCEPT !.pc = "endpoint", !.urls = UrlCandidates(c \in Explicit),
                 !.index = 1, !.left = TotalTimeout * Second, !.strict = strict, !.floor = floor]]

NextEndpoint(c) == [oll[c] EXCEPT !.pc = "endpoint", !.index = @ + 1]
Cool(u) == cooldown' = [cooldown EXCEPT ![u] = SaturationBackoff * Second]
ReleasePermit(c) == permitsOut' = [permitsOut EXCEPT ![Url(c)] = @ \ {c}]

\* The head of the loop: out of endpoints, cooldown, out of time, or on to the queue.
TryEndpoint(c) ==
  LET o == oll[c]
      budget == EndpointBudget(o.left, Len(o.urls) - o.index + 1)
  IN  /\ Pc(c) = "endpoint"
      /\ oll' = [oll EXCEPT ![c] =
           IF o.index > Len(o.urls) THEN OllamaOver("error", 0)
           ELSE IF cooldown[Url(c)] > 0 THEN NextEndpoint(c)
           ELSE IF o.left <= 0 THEN OllamaOver("error", 0)
           ELSE [o EXCEPT !.pc = "queue", !.budget = budget, !.due = QueueBudget(budget)]]
      /\ UNCHANGED <<permitsOut, cooldown, familyLeft>>

\* acquire_ollama_request_permit: the endpoint's permit, or the queue timeout.
TakePermit(c) ==
  /\ Pc(c) = "queue" /\ Cardinality(permitsOut[Url(c)]) < EndpointPermits
  /\ IF InferenceBudget(c) = 0
     THEN oll' = [oll EXCEPT ![c] = NextEndpoint(c)] /\ UNCHANGED permitsOut
     ELSE /\ permitsOut' = [permitsOut EXCEPT ![Url(c)] = @ \cup {c}]
          /\ oll' = [oll EXCEPT ![c].pc = "infer", ![c].due = InferenceBudget(c),
                                ![c].model = RequestedModel, ![c].attempt = 0]
  /\ UNCHANGED <<cooldown, familyLeft>>

QueueSaturated(c) ==
  /\ Pc(c) = "queue" /\ oll[c].due = 0
  /\ Cool(Url(c)) /\ oll' = [oll EXCEPT ![c] = NextEndpoint(c)]
  /\ UNCHANGED <<permitsOut, familyLeft>>

\* The outer timeout: on to the next endpoint while there is one and time is left. The
\* endpoint is not cooled.
InferenceTimeout(c) ==
  /\ Pc(c) = "infer" /\ oll[c].due = 0
  /\ ReleasePermit(c)
  /\ oll' = [oll EXCEPT ![c] = IF oll[c].index < Len(oll[c].urls) /\ oll[c].left > 0
                               THEN NextEndpoint(c) ELSE OllamaOver("error", 0)]
  /\ UNCHANGED <<cooldown, familyLeft>>

\* The three kinds of error of complete_once.
EndpointFails(c, kind) ==
  /\ ReleasePermit(c) /\ oll' = [oll EXCEPT ![c] = NextEndpoint(c)]
  /\ IF kind \in {"saturated", "transport"} THEN Cool(Url(c)) ELSE UNCHANGED cooldown
  /\ IF kind = "saturated" /\ FamilyBackoff
     THEN familyLeft' = SaturationBackoff * Second ELSE UNCHANGED familyLeft

-----------------------------------------------------------------------------
(* complete_once: resolve a model, generate, and once more after a missing *)
(* model or a crashed runner.                                              *)

\* model_meets_size_floor and the floor of resolve_model_for_request.
RequiredSize(model, strict, floor) == Upper(floor, IF strict THEN model ELSE 0)

\* resolve_model_for_request: the requested model when it is installed, meets the floor and
\* fits (a strict request does without the fit); any other that does, unless strict; a
\* pulled one; the requested one unseen; or none (0).
Resolutions(model, strict, floor, installed, fits) ==
  LET enough == {m \in Sizes : m >= RequiredSize(model, strict, floor)}
      others == installed \cap fits \cap enough
      pulls == {m \in Sizes \cap fits : m = model \/ m >= Upper(RequiredSize(model, strict, floor), model)}
      unseen == IF strict \/ AllowPull THEN {model} ELSE {0}
  IN  IF model \in installed \cap enough /\ (model \in fits \/ strict) THEN {model}
      ELSE IF ~strict /\ others # {} THEN others
      ELSE IF AllowPull THEN pulls \cup unseen ELSE unseen

\* Over the inventories and resources an endpoint may report.
Floors == 0 .. Upper(RequestedModel, DefaultModel) + 1
Resolvable ==
  [m \in Sizes, strict \in BOOLEAN, floor \in Floors |->
     UNION {Resolutions(m, strict, floor, installed, fits) :
              installed \in SUBSET Sizes, fits \in SUBSET Sizes}]
Resolved(c) == Resolvable[oll[c].model, oll[c].strict, oll[c].floor]

\* One attempt that ends with the model's answer.
Answers(c) ==
  /\ Pc(c) = "infer" /\ ReleasePermit(c)
  /\ \E m \in Resolved(c) \ {0} : oll' = [oll EXCEPT ![c] = OllamaOver("ok", m)]
  /\ UNCHANGED <<cooldown, familyLeft>>

\* The model is missing, and the default model is tried; or the runner exited, and the
\* model that was resolved is tried again.
AttemptAgain(c) ==
  /\ Pc(c) = "infer" /\ oll[c].attempt = 0
  /\ \E m \in Resolved(c) \ {0} :
       \E next \in {m} \cup (IF m # DefaultModel THEN {DefaultModel} ELSE {}) :
         oll' = [oll EXCEPT ![c].model = next, ![c].attempt = 1]
  /\ UNCHANGED <<permitsOut, cooldown, familyLeft>>

\* No inventory, no usable model, an error status, an empty or a truncated text.
AttemptFails(c) ==
  /\ Pc(c) = "infer" /\ \E kind \in {"saturated", "transport", "other"} : EndpointFails(c, kind)

\* The caller is dropped: the future and its permit go with it.
AbandonOllama(c) ==
  /\ IF Pc(c) = "infer" THEN ReleasePermit(c) ELSE UNCHANGED permitsOut
  /\ oll' = [oll EXCEPT ![c] = OllamaOver("dropped", 0)]

\* Time passes while every running call waits for something that is not due.
AllWaiting == {c \in OllamaCall : Pc(c) \in {"queue", "infer"}}
Tick ==
  /\ AllWaiting # {} \/ familyLeft > 0 \/ \E u \in Urls : cooldown[u] > 0
  /\ \A c \in OllamaCall : Pc(c) # "endpoint" /\ (c \in AllWaiting => oll[c].due > 0)
  /\ oll' = [c \in OllamaCall |-> IF c \in AllWaiting THEN [oll[c] EXCEPT !.left = @ - 1, !.due = @ - 1] ELSE oll[c]]
  /\ cooldown' = [u \in Urls |-> Upper(cooldown[u] - 1, 0)] /\ familyLeft' = Upper(familyLeft - 1, 0)
  /\ UNCHANGED permitsOut

OllamaStep(c) ==
  \/ TryEndpoint(c) \/ TakePermit(c) \/ QueueSaturated(c) \/ InferenceTimeout(c)
  \/ Answers(c) \/ AttemptAgain(c) \/ AttemptFails(c)

-----------------------------------------------------------------------------
\* Whatever endpoints are slow, saturated or gone, a completion is over at most a second
\* (the shortest wait for a permit) after its deadline (complete,
\* compute_ollama_endpoint_budget).
OverByDeadline ==
  \A c \in OllamaCall : Pc(c) \in {"endpoint", "queue", "infer"} => oll[c].left >= -Second
=============================================================================
