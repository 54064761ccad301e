--------------------------- MODULE Orchestration ---------------------------
(***************************************************************************)
(* One orchestrated request: complete_inner of src/src/orchestration.rs    *)
(* from its ranked candidates to its outcome.  Waves of candidates are     *)
(* selected, raced by invoke_candidates and judged; the ranking (health,   *)
(* time estimates) is a snapshot taken before the first wave.              *)
(***************************************************************************)
EXTENDS CandidateSelection

CONSTANTS
  Candidate,       \* the candidates of the request
  familyBackoff,   \* candidates without an endpoint of their own and not Ollama
  Ranks,           \* orders the ranking may produce
  WaveSize,        \* max_candidates.max(1)
  Modes,           \* selection modes: "fastest", "round_robin", "balanced"
  DedupModels,     \* deduplicate_model_candidates
  EarlySuccess,    \* early_success_enabled, when the mode is not fastest
  Caps,            \* whether a request may have a timeout cap, or none
  ProbeTransient,  \* should_probe_transient_backoff_candidates
  ProbeCandidates, \* GAIL_TRANSIENT_BACKOFF_PROBE_CANDIDATES
  Degrade,         \* should_return_degraded_fallback
  SaveMayFail      \* a metrics save fails while the results are recorded

Health  == {"ok", "down", "transient", "hard"}   \* health_ok and health_mode
\* What an invocation can return, as the message_indicates_* functions tell
\* the errors apart: refused (quota, authentication), transient (upstream,
\* saturated, constrained), a lost reservation race, an answer below the
\* quality threshold, any other error (time-outs too).
Failure == {"refused", "transient", "race", "poor", "error"}
Result  == Failure \cup {"good", "none"}
Outcome == {"none", "response", "degraded", "error", "io_error", "bad_request"}

ASSUME OrchestrationConstants ==
  /\ Candidate \subseteq Known /\ familyBackoff \subseteq Candidate
  /\ \A r \in Ranks : r \in Seq(Candidate) /\ Range(r) = Candidate /\ Len(r) = Cardinality(Candidate)
  /\ WaveSize \in Nat \ {0}
  /\ Caps \subseteq BOOLEAN
  /\ ProbeCandidates \in Nat

VARIABLES
  mode,       \* selection_mode of the request
  hasCap,     \* it has a timeout cap
  rank,       \* the candidates, best estimate first
  health,     \* their health when they were ranked
  inBudget,   \* candidates whose useful estimate is within the cap
  phase,      \* select, invoke, judge or done
  attempted,  \* attempted_candidate_ids
  tries,      \* invocations of each candidate (history)
  throttled,  \* throttled_provider_types
  wave,       \* the selected candidates of this wave
  running,    \* those that have not finished
  armed,      \* early_deadline is set
  results,    \* what each invocation returned
  recorded,   \* health recorded by this request: "none", "ok" or "failed"
  outcome

ranking == <<mode, hasCap, rank, health, inBudget>>
requestVars == <<ranking, phase, attempted, tries, throttled, wave, running, armed,
          results, recorded, outcome>>

InBackoff(c) == health[c] \in {"transient", "hard"}
Dedup == DedupModels /\ mode # "fastest"
EarlyEnabled == mode = "fastest" \/ EarlySuccess

Unattempted == {c \in Candidate : c \notin attempted /\ family[c] \notin throttled}
Budgeted    == IF hasCap THEN Unattempted \cap inBudget ELSE Unattempted
AllOver     == hasCap /\ Unattempted # {} /\ Budgeted = {}
Pool        == IF AllOver THEN Unattempted ELSE Budgeted
Remaining   == {c \in Pool : ~InBackoff(c)}
Transient   == {c \in Unattempted : health[c] = "transient"}
NoResults   == \A c \in Candidate : results[c] = "none"
ForcedProbe == /\ Remaining = {} /\ Unattempted # {}
               /\ NoResults /\ ProbeTransient /\ Transient # {}

InOrder(S) == Among(rank, S)
ByHealth(S) == InOrder({c \in S : health[c] = "ok"}) \o InOrder({c \in S : health[c] # "ok"})
Ranked(S, n) ==
  SelectRanked(InOrder(S), ByHealth(S), {c \in S : health[c] = "ok"}, n, Dedup)

Finish(o) == /\ phase' = "done"
             /\ outcome' = o
-----------------------------------------------------------------------------
(* Nothing but candidates in backoff, and none of them may be probed: the
   request is degraded or rejected before anything was tried. *)
RejectBackoff ==
  /\ phase = "select"
  /\ Remaining = {} /\ Unattempted # {} /\ NoResults
  /\ ~ForcedProbe
  /\ Finish(IF Degrade THEN "degraded" ELSE "error")
  /\ UNCHANGED <<ranking, attempted, tries, throttled, wave, running, armed, results, recorded>>

(* Mutant: the selected candidates are not marked as attempted. *)
DispatchUnmarked(selected) ==
  /\ phase = "select"
  /\ UNCHANGED attempted
  /\ tries' = [c \in Candidate |-> IF c \in Range(selected) THEN tries[c] + 1 ELSE tries[c]]
  /\ wave' = Range(selected)
  /\ running' = Range(selected)
  /\ armed' = FALSE
  /\ phase' = "invoke"
  /\ UNCHANGED <<ranking, throttled, results, recorded, outcome>>

(* A selected wave is marked as attempted and dispatched. *)
Dispatch(selected) ==
  /\ phase = "select"
  /\ attempted' = attempted \cup Range(selected)
  /\ tries' = [c \in Candidate |-> IF c \in Range(selected) THEN tries[c] + 1 ELSE tries[c]]
  /\ wave' = Range(selected)
  /\ running' = Range(selected)
  /\ armed' = FALSE
  /\ phase' = "invoke"
  /\ UNCHANGED <<ranking, throttled, results, recorded, outcome>>

(* Every candidate is in backoff: probe some of the transient ones. *)
SelectForced ==
  /\ ForcedProbe
  /\ Dispatch(Ranked(Transient, ProbeTarget(WaveSize, Cardinality(Transient), ProbeCandidates)))

(* Every candidate is over budget: one bounded try of the best ranked. *)
SelectBounded ==
  /\ AllOver /\ Remaining # {}
  /\ Dispatch(Ranked(Remaining, 1))

(* Mutant: the wave is not deduplicated. *)
SelectWaveUndeduplicated ==
  /\ ~AllOver /\ Remaining # {}
  /\ \E raced \in 1..Cardinality(Remaining) :
       /\ raced <= WaveSize
       /\ Dispatch(SelectAdaptive(InOrder(Remaining), raced, WaveSize, FALSE))

(* The normal wave: race the candidates whose estimates are close to the
   best one.  Round robin only reorders equal estimates. *)
SelectWave ==
  /\ ~AllOver /\ Remaining # {}
  /\ \E raced \in 1..Cardinality(Remaining) :
       /\ raced <= WaveSize
       /\ Dispatch(SelectAdaptive(InOrder(Remaining), raced, WaveSize, Dedup))

(* Mutant: only the last candidate ends the loop, not an empty selection. *)
ExhaustedWhenAllTried ==
  /\ phase = "select"
  /\ Remaining = {}
  /\ Unattempted = {}
  /\ IF NoResults THEN Finish("bad_request") ELSE phase' = "judge" /\ UNCHANGED outcome
  /\ UNCHANGED <<ranking, attempted, tries, throttled, wave, running, armed, results, recorded>>

(* Nothing left to select. *)
Exhausted ==
  /\ phase = "select"
  /\ Remaining = {}
  /\ Unattempted = {} \/ ~NoResults
  /\ IF NoResults THEN Finish("bad_request") ELSE phase' = "judge" /\ UNCHANGED outcome
  /\ UNCHANGED <<ranking, attempted, tries, throttled, wave, running, armed, results, recorded>>
-----------------------------------------------------------------------------
(* An invocation of the wave returns; a useful answer may end the race. *)
Complete(c, result) ==
  /\ phase = "invoke"
  /\ c \in running
  /\ results' = [results EXCEPT ![c] = result]
  /\ LET ends == EarlyEnabled /\ result = "good" /\ Cardinality(wave) > 1 IN
     /\ running' = IF ends /\ mode = "fastest" THEN {} ELSE running \ {c}
     /\ armed' = (armed \/ (ends /\ mode # "fastest"))
  /\ UNCHANGED <<ranking, phase, attempted, tries, throttled, wave, recorded, outcome>>

(* The settle time after the first useful answer is over: abort the rest. *)
EarlyDeadline ==
  /\ phase = "invoke"
  /\ armed /\ running # {}
  /\ running' = {}
  /\ UNCHANGED <<ranking, phase, attempted, tries, throttled, wave, armed, results, recorded, outcome>>

(* The cap is over: abort the rest and record a time-out for each. *)
HardDeadline ==
  /\ phase = "invoke"
  /\ hasCap /\ Cardinality(wave) > 1 /\ running # {}
  /\ results' = [c \in Candidate |-> IF c \in running THEN "error" ELSE results[c]]
  /\ running' = {}
  /\ UNCHANGED <<ranking, phase, attempted, tries, throttled, wave, armed, recorded, outcome>>

(* Mutant: a refusal only rests families without endpoints. *)
BackoffEndpointOnly(c, result) ==
  c \in familyBackoff /\ result \in {"refused", "transient"}

(* error_should_backoff_provider_family *)
BacksOffFamily(c, result) ==
  result \in IF c \in familyBackoff THEN {"refused", "transient"} ELSE {"refused"}

(* Mutant: the request is judged after its first wave. *)
EndWaveGivesUp ==
  /\ phase = "invoke"
  /\ running = {}
  /\ throttled' = throttled \cup {family[c] : c \in {d \in wave : BacksOffFamily(d, results[d])}}
  /\ phase' = "judge"
  /\ UNCHANGED <<ranking, attempted, tries, wave, running, armed, results, recorded, outcome>>

(* The wave is over: throttle families, stop on a useful answer. *)
EndWave ==
  /\ phase = "invoke"
  /\ running = {}
  /\ throttled' = throttled \cup {family[c] : c \in {d \in wave : BacksOffFamily(d, results[d])}}
  /\ phase' = IF \E c \in Candidate : c \in wave /\ results[c] = "good" THEN "judge" ELSE "select"
  /\ UNCHANGED <<ranking, attempted, tries, wave, running, armed, results, recorded, outcome>>
-----------------------------------------------------------------------------
(* Mutant: a lost reservation race is recorded like any failure. *)
RecordedHealthBlamesRace(c) ==
  CASE results[c] = "good" -> "ok"
    [] results[c] = "none" -> recorded[c]
    [] OTHER -> "failed"

(* What the judging loop records: a useful answer, nothing for a lost
   reservation race, a failure otherwise. *)
RecordedHealth(c) ==
  CASE results[c] = "good" -> "ok"
    [] results[c] \in {"none", "race"} -> recorded[c]
    [] OTHER -> "failed"

(* Mutant: an answer below the quality threshold counts as an answer. *)
JudgeKeepsPoor ==
  /\ phase = "judge"
  /\ recorded' = [c \in Candidate |-> RecordedHealth(c)]
  /\ Finish(IF \E c \in Candidate : results[c] \in {"good", "poor"} THEN "response"
            ELSE IF Degrade THEN "degraded" ELSE "error")
  /\ UNCHANGED <<ranking, attempted, tries, throttled, wave, running, armed, results>>

(* Results are recorded and the best useful answer is returned; without one
   the request is degraded or fails. *)
Judge ==
  /\ phase = "judge"
  /\ recorded' = [c \in Candidate |-> RecordedHealth(c)]
  /\ Finish(IF \E c \in Candidate : results[c] = "good" THEN "response"
            ELSE IF Degrade THEN "degraded" ELSE "error")
  /\ UNCHANGED <<ranking, attempted, tries, throttled, wave, running, armed, results>>

(* A metrics save fails in the middle: the ? returns its error. *)
JudgeSaveFails ==
  /\ SaveMayFail
  /\ phase = "judge"
  /\ \E done \in SUBSET attempted :
       recorded' = [c \in Candidate |-> IF c \in done THEN RecordedHealth(c) ELSE recorded[c]]
  /\ Finish("io_error")
  /\ UNCHANGED <<ranking, attempted, tries, throttled, wave, running, armed, results>>
-----------------------------------------------------------------------------
RequestInit ==
  /\ mode \in Modes
  /\ hasCap \in Caps
  /\ rank \in Ranks
  /\ health \in [Candidate -> Health]
  /\ inBudget \in IF hasCap THEN SUBSET Candidate ELSE {Candidate}
  /\ phase = "select"
  /\ attempted = {}
  /\ tries = [c \in Candidate |-> 0]
  /\ throttled = {}
  /\ wave = {}
  /\ running = {}
  /\ armed = FALSE
  /\ results = [c \in Candidate |-> "none"]
  /\ recorded = [c \in Candidate |-> "none"]
  /\ outcome = "none"

Select == SelectForced \/ SelectBounded \/ SelectWave
RequestNext ==
  \/ RejectBackoff \/ Exhausted \/ Select
  \/ \E c \in Candidate, result \in Result \ {"none"} : Complete(c, result)
  \/ EarlyDeadline \/ HardDeadline \/ EndWave
  \/ Judge \/ JudgeSaveFails

RequestSpec == RequestInit /\ [][RequestNext]_requestVars

(* Every invocation ends (LoadAdmission, EveryInvocationEnds) and the
   orchestrating task is polled. *)
RequestFairSpec == RequestSpec /\ WF_requestVars(RequestNext)
-----------------------------------------------------------------------------
Failed == outcome \in {"degraded", "error"}

(* Types; what runs belongs to the wave, and a wave was marked as attempted. *)
RequestTypeOK ==
  /\ phase \in {"select", "invoke", "judge", "done"}
  /\ outcome \in Outcome
  /\ health \in [Candidate -> Health]
  /\ inBudget \subseteq Candidate
  /\ running \subseteq wave
  /\ wave \subseteq attempted
  /\ tries \in [Candidate -> Nat]
  /\ armed \in BOOLEAN
  /\ results \in [Candidate -> Result]
  /\ recorded \in [Candidate -> {"none", "ok", "failed"}]

(* No candidate is invoked twice for one request, whatever the waves. *)
NoReattempt == \A c \in Candidate : tries[c] <= 1

(* Once an answer shows that a family is rate limited, rejected or down, no
   later wave of the request goes to it.  The code exempts the transient failure
   of a candidate with an endpoint of its own or of Ollama
   (candidate_uses_provider_family_backoff), and so does this property; the
   documentation does not, see FailedFamilyThrottled. *)
ThrottledFamilyRests ==
  phase = "select" =>
    \A c \in Candidate : /\ c \in attempted
                         /\ results[c] \in IF c \in familyBackoff
                                           THEN {"refused", "transient"} ELSE {"refused"}
                         => \A d \in Remaining : family[d] # family[c]

(* The request returns a response exactly when some candidate gave an answer
   above the quality threshold, unless its metrics could not be saved. *)
ResponseIffUseful ==
  phase = "done" /\ outcome # "io_error" =>
    (outcome = "response" <=> \E c \in Candidate : results[c] = "good")

(* A candidate is blamed only for what its own invocation returned: not for a
   slot that another request won, nor for a race it lost. *)
BlamedForOwnFailure ==
  \A c \in Candidate : recorded[c] = "failed" => results[c] \notin {"none", "race", "good"}

(* A wave that deduplicates never pays twice for one model. *)
OneAnswerPerModel ==
  Dedup => \A c, d \in wave : model[c] = model[d] => c = d

(* The request gives up only when every candidate was tried, rests with its
   family, is in backoff, or is over the time budget. *)
GivesUpLast ==
  Failed => \A c \in Candidate : \/ c \in attempted
                                 \/ family[c] \in throttled
                                 \/ InBackoff(c)
                                 \/ hasCap /\ c \notin inBudget

(* Every request ends. *)
Terminates == <>(phase = "done")

(* As the documentation has it: a candidate that reports a rate limit or a
   transient upstream failure such as a 503 has its family throttled for the
   request, whatever the candidate (error_should_backoff_provider_family). *)
FailedFamilyThrottled ==
  phase = "select" =>
    \A c \in attempted : results[c] \in {"refused", "transient"} => family[c] \in throttled

(* As the documentation has it: a request is only degraded or rejected when
   every candidate failed or is in adaptive backoff. *)
NoHealthyLeftBehind ==
  Failed => \A c \in Candidate : \/ c \in attempted
                                 \/ family[c] \in throttled
                                 \/ InBackoff(c)
=============================================================================
