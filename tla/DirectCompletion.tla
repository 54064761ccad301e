--------------------------- MODULE DirectCompletion ---------------------------
(***************************************************************************)
(* direct_complete of src/orchestration.rs over the provider adapters: the *)
(* request is admitted, holds a workload permit and a load reservation     *)
(* while its provider works (LoadAdmission models those), and its outcome  *)
(* is recorded in the interaction ledger once the awaits that follow the   *)
(* answer are over.                                                        *)
(***************************************************************************)
EXTENDS OllamaProvider, HostedProvider

CONSTANTS
  ModelFloor,      \* model_floor_b of the workload class
  Hushed           \* requests in the scope of a governance assessment or of suppressed learning

ASSUME DirectAssumption ==
  /\ ModelFloor \in Floors /\ OllamaCall \cap HostedCall = {}
  /\ Hushed \subseteq OllamaCall \cup HostedCall

VARIABLES
  direct,     \* [Call -> "new", "received", "queued", "calling", "answered", "failing", "returned",
              \*  "failed", "gone"]
  asked,      \* [Call -> whether strict_no_downgrade was in force]
  rows        \* [Call -> statuses handed to the ledger]

directVars == <<direct, asked, rows>>
DirectCall == OllamaCall \cup HostedCall

DirectInit ==
  /\ OllamaInit /\ HostedInit
  /\ direct = [c \in DirectCall |-> "new"] /\ asked = [c \in DirectCall |-> FALSE]
  /\ rows = [c \in DirectCall |-> <<>>]

Reaches(c, pc) == direct' = [direct EXCEPT ![c] = pc]
ProviderPc(c) == IF c \in OllamaCall THEN oll[c].pc ELSE hosted[c].pc

\* direct_complete_unguarded: the request gets the policy in force.
ReceiveDirect(c, strict) ==
  /\ direct[c] = "new"
  /\ Reaches(c, "received") /\ asked' = [asked EXCEPT ![c] = strict]
  /\ UNCHANGED rows /\ UNCHANGED ollamaVars /\ UNCHANGED hostedVars

\* A failure before the provider is called is not recorded.
FailEarly(c) ==
  /\ Reaches(c, "failed")
  /\ UNCHANGED <<asked, rows>> /\ UNCHANGED ollamaVars /\ UNCHANGED hostedVars

\* trained_candidate_is_admitted and the check for a user message.
AdmitDirect(c) ==
  /\ direct[c] = "received"
  /\ \/ FailEarly(c)
     \/ Reaches(c, "queued") /\ UNCHANGED <<asked, rows>> /\ UNCHANGED ollamaVars /\ UNCHANGED hostedVars

\* The workload pool or the provider's capacity stayed saturated.
Saturated(c) == direct[c] = "queued" /\ FailEarly(c)

\* Permit and reservation are held: complete is called.
CallOllama(c) ==
  /\ c \in OllamaCall /\ direct[c] = "queued" /\ Reaches(c, "calling")
  /\ StartOllama(c, asked[c], ModelFloor)
  /\ UNCHANGED <<permitsOut, cooldown, familyLeft, asked, rows>> /\ UNCHANGED hostedVars

CallHosted(c, path, effort) ==
  /\ c \in HostedCall /\ direct[c] = "queued" /\ Reaches(c, "calling")
  /\ StartHosted(c, path, effort)
  /\ UNCHANGED <<geminiCache, asked, rows>> /\ UNCHANGED ollamaVars

\* The provider is done, permit and reservation are given back.
HandOver(c, pc) ==
  /\ direct[c] = "calling" /\ Reaches(c, pc)
  /\ UNCHANGED <<asked, rows>> /\ UNCHANGED ollamaVars /\ UNCHANGED hostedVars

Over(c) == ProviderPc(c) \in {"ok", "error"}
Answered(c) == ProviderPc(c) = "ok" /\ (c \in HostedCall => hosted[c].text # "empty")

\* Mutant: whatever the adapter returns is an answer.
SettleUnchecked(c) == Over(c) /\ HandOver(c, IF ProviderPc(c) = "ok" THEN "answered" ELSE "failing")

\* direct_complete_inner after the provider: an error or an empty text fails the request.
Settle(c) == Over(c) /\ HandOver(c, IF Answered(c) THEN "answered" ELSE "failing")

\* record_llm_interaction leaves no row of a hushed request.
Noted(c, status) == rows' = [rows EXCEPT ![c] = @ \o (IF c \in Hushed THEN <<>> ELSE <<status>>)]

\* The awaits are over: the failure was observed, or the answer was mirrored to AARNN, whose
\* reply may replace it (AarnnBridge). The outcome is recorded and handed to the client.
Close(c) ==
  /\ \/ direct[c] = "failing" /\ Reaches(c, "failed") /\ Noted(c, "error")
     \/ direct[c] = "answered" /\ Reaches(c, "returned") /\ Noted(c, "ok")
  /\ UNCHANGED asked /\ UNCHANGED ollamaVars /\ UNCHANGED hostedVars

\* The client goes away: while its request waits for the provider, or at an await between
\* the provider's answer and the record of the outcome.
Disconnect(c) ==
  /\ direct[c] \in {"calling", "answered", "failing"} /\ Reaches(c, "gone")
  /\ IF Over(c) THEN UNCHANGED <<oll, permitsOut, hosted>>
     ELSE IF c \in OllamaCall THEN AbandonOllama(c) /\ UNCHANGED hosted
     ELSE AbandonHosted(c) /\ UNCHANGED <<oll, permitsOut>>
  /\ UNCHANGED <<cooldown, familyLeft, geminiCache, asked, rows>>

\* Every request is over.
DirectDone ==
  /\ \A c \in DirectCall : direct[c] \in {"returned", "failed", "gone"}
  /\ UNCHANGED directVars /\ UNCHANGED ollamaVars /\ UNCHANGED hostedVars

DirectNext ==
  \/ \E c \in DirectCall :
       \/ \E strict \in BOOLEAN : ReceiveDirect(c, strict)
       \/ AdmitDirect(c) \/ Saturated(c) \/ Settle(c) \/ Close(c) \/ Disconnect(c)
  \/ \E c \in OllamaCall :
       \/ CallOllama(c)
       \/ OllamaStep(c) /\ UNCHANGED directVars /\ UNCHANGED hostedVars
  \/ \E c \in HostedCall :
       \/ \E path \in {"responses", "chat", "gemini"}, effort \in BOOLEAN :
            (effort => path = "responses") /\ CallHosted(c, path, effort)
       \/ HostedStep(c) /\ UNCHANGED directVars /\ UNCHANGED ollamaVars
  \/ CacheExpires /\ UNCHANGED directVars /\ UNCHANGED ollamaVars
  \/ Tick /\ UNCHANGED directVars /\ UNCHANGED hostedVars
  \/ DirectDone

DirectSpec == DirectInit /\ [][DirectNext]_<<directVars, ollamaVars, hostedVars>>

-----------------------------------------------------------------------------
\* A returned answer is never empty, although the chat and the Gemini adapters hand on an
\* empty text, and the row of a request says what its client was told: a request that is
\* over at the provider and for its client has exactly one, whether it failed or not, while
\* a hushed one, one that failed before its provider and one whose client left meanwhile
\* have none (direct_complete_inner, record_llm_interaction).
AnswersRecorded ==
  \A c \in DirectCall :
    /\ direct[c] = "returned" => Answered(c)
    /\ rows[c] = IF direct[c] \in {"returned", "failed"} /\ Over(c) /\ c \notin Hushed
                 THEN <<IF Answered(c) THEN "ok" ELSE "error">> ELSE <<>>
===============================================================================
