---------------------------- MODULE HostedProvider ----------------------------
(***************************************************************************)
(* The OpenAI-compatible adapter of src/providers/openai.rs and the Gemini *)
(* one of src/providers/gemini.rs: a completion negotiates with the        *)
(* provider by posting again with less, polls what was accepted, and asks  *)
(* again for an answer that was cut off. The provider is external.         *)
(***************************************************************************)
EXTENDS Naturals, FiniteSets

CONSTANTS
  HostedCall,      \* completions
  PostRetries,     \* max_retries of a post
  ReplayEnabled    \* responses_max_output_replay_enabled

ASSUME HostedAssumption == PostRetries \in Nat /\ ReplayEnabled \in BOOLEAN

VARIABLES
  hosted,       \* [HostedCall -> the state of complete]
  geminiCache   \* cache_store of a system prompt, by model: "none", "live" or "gone" at Gemini

hostedVars == <<hosted, geminiCache>>

Idle == [pc |-> "unused", path |-> "chat", attempt |-> 0, tries |-> 0, onDefault |-> FALSE,
         effort |-> FALSE, cache |-> FALSE, text |-> "none", failedBy |-> "none"]

HostedInit ==
  /\ hosted = [c \in HostedCall |-> Idle]
  /\ geminiCache = [default \in BOOLEAN |-> "none"]

\* complete_once and complete: which path, and what the first payload asks for. A chat or
\* responses payload carries a prompt cache key, a Gemini one a cached system prompt.
StartHosted(c, path, effort) ==
  hosted' = [hosted EXCEPT ![c] = [Idle EXCEPT !.pc = "build", !.path = path, !.effort = effort,
               !.cache = path # "legacy"]]

Attempts(path) == IF path = "responses" THEN 3 ELSE IF path = "legacy" THEN 1 ELSE 2
HAt(c, pc) == hosted[c].pc = pc
Cached(c) == geminiCache[hosted[c].onDefault]
HStep(c, pc) == hosted' = [hosted EXCEPT ![c].pc = pc]

\* The loop's continue: the next attempt, or "retries exhausted".
NextAttempt(h) ==
  [h EXCEPT !.pc = IF h.attempt + 1 < Attempts(h.path) THEN "build" ELSE "error",
            !.attempt = @ + 1, !.tries = 0]

\* build_responses_payload, the chat payload and build_payload. maybe_cached_content uses the
\* stored name, or creates the content and stores its name; an error of the request fails
\* the completion, a refusal sends the system prompt itself.
Build(c) ==
  /\ HAt(c, "build")
  /\ IF hosted[c].path = "gemini" /\ hosted[c].cache /\ Cached(c) = "none"
     THEN \/ geminiCache' = [geminiCache EXCEPT ![hosted[c].onDefault] = "live"] /\ HStep(c, "post")
          \/ UNCHANGED geminiCache /\ hosted' = [hosted EXCEPT ![c].pc = "post", ![c].cache = FALSE]
          \/ UNCHANGED geminiCache /\ HStep(c, "error")
     ELSE UNCHANGED geminiCache /\ HStep(c, "post")

\* Gemini forgets the content: nothing removes its name from cache_store.
CacheExpires ==
  /\ \E m \in BOOLEAN : geminiCache[m] = "live" /\ geminiCache' = [geminiCache EXCEPT ![m] = "gone"]
  /\ UNCHANGED hosted

\* post_json_with_retries: 429, 5xx and transport errors are retried.
PostFails(c) ==
  /\ HAt(c, "post")
  /\ hosted' = [hosted EXCEPT ![c].tries = @ + 1,
                  ![c].pc = IF hosted[c].tries < PostRetries THEN "post" ELSE "error"]
  /\ UNCHANGED geminiCache

\* A refusal: again without the effort, without the cache, with the default model or
\* through the legacy endpoint, or the end. The chat path has no answer to a refused
\* cache key, and Gemini's has one further attempt for all of these.
Negotiate(c, why, skipCache) ==
  LET h == hosted[c]
      again == \/ why = "effort" /\ h.path = "responses"
               \/ why = "cache" /\ (h.path = "responses" \/ (h.path = "gemini" /\ h.attempt = 0))
               \/ why = "model" /\ h.path # "legacy" /\ h.attempt = 0 /\ ~h.onDefault
  IN  /\ HAt(c, "post")
      /\ why = "cache" => h.cache
      /\ why = "effort" => h.effort
      /\ hosted' = [hosted EXCEPT ![c] =
           IF why = "route" /\ h.path = "chat" /\ h.attempt = 0
           THEN [h EXCEPT !.path = "legacy", !.tries = 0, !.cache = FALSE]
           ELSE IF again
           THEN NextAttempt([h EXCEPT !.effort = @ /\ why # "effort", !.onDefault = @ \/ why = "model",
                                      !.cache = @ /\ ~(why = "cache" /\ skipCache)])
           ELSE [h EXCEPT !.pc = "error", !.failedBy = why]]
      /\ UNCHANGED geminiCache

\* Mutant: skip_cache stays false.
RefusedKeepsCache(c, why) == Negotiate(c, why, FALSE)

Refused(c, why) == Negotiate(c, why, TRUE)

\* ACCEPTED, or queued in the background: poll_async_status, poll_background_response.
Accepted(c) ==
  /\ HAt(c, "post") /\ hosted[c].path \in {"responses", "chat"} /\ HStep(c, "poll") /\ UNCHANGED geminiCache
PollFails(c) == HAt(c, "poll") /\ HStep(c, "error") /\ UNCHANGED geminiCache

\* A 200: a responses answer that was cut off is asked for again with twice the tokens; an
\* empty text is an error of the responses and the legacy path only.
Received(c, text) ==
  LET h == hosted[c]
  IN  /\ h.pc \in {"post", "poll"}
      /\ h.path = "gemini" /\ h.cache => Cached(c) = "live"
      /\ hosted' = [hosted EXCEPT ![c] =
           IF text = "cut" /\ h.path = "responses" /\ h.attempt < 2 /\ ReplayEnabled
           THEN NextAttempt(h)
           ELSE [h EXCEPT !.text = text,
                   !.pc = IF text = "empty" /\ h.path \in {"responses", "legacy"} THEN "error" ELSE "ok"]]
      /\ UNCHANGED geminiCache

AbandonHosted(c) == HStep(c, "dropped")

HostedStep(c) ==
  \/ Build(c) \/ PostFails(c) \/ Accepted(c) \/ PollFails(c)
  \/ \E why \in {"effort", "cache", "model", "route", "other"} : Refused(c, why)
  \/ \E text \in {"full", "cut", "empty"} : Received(c, text)
-----------------------------------------------------------------------------
\* A cached content that Gemini forgot, whose name stays in cache_store, fails a completion
\* only when its one further attempt went to the default model (complete,
\* maybe_cached_content).
ForgottenCacheTolerated ==
  \A c \in HostedCall :
    HAt(c, "error") /\ hosted[c].path = "gemini" /\ hosted[c].failedBy = "cache" => hosted[c].onDefault
=============================================================================
