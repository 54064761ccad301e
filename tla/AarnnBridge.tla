------------------------------ MODULE AarnnBridge -----------------------------
(***************************************************************************)
(* The AARNN mirror client of src/aarnn_bridge.rs: exchanges queued to a   *)
(* bus that runs a bounded number at a time, the cached peripheral session *)
(* of a network that they share, retries, and the gates that let AARNN's   *)
(* reply replace the provider's in src/orchestration.rs. The AARNN server  *)
(* is external. A quality score is 1 (good) or 0.                          *)
(***************************************************************************)
EXTENDS Naturals, Sequences, FiniteSets, SequencesExt

CONSTANTS
  Exchange,        \* mirrored exchanges
  Speech,          \* those that are speech pairs, sent without the bus and without a candidate
  BusCapacity,     \* queue_capacity
  BusWorkers,      \* worker_count
  HttpAttempts,    \* request_max_attempts
  Sustained,       \* samples before a task is eligible
  HistoryWindow,   \* samples kept
  RecentWindow,    \* samples of the recent average
  SessionBound,    \* bound: sessions AARNN issues
  BridgeFaults     \* bound: transport failures, refused sessions and server restarts

ASSUME BridgeAssumption ==
  /\ Speech \subseteq Exchange /\ "none" \notin Exchange /\ "free" \notin Exchange
  /\ BusCapacity \in Nat \ {0} /\ BusWorkers \in Nat \ {0} /\ HttpAttempts \in Nat \ {0}
  /\ Sustained \in Nat \ {0} /\ HistoryWindow \in Nat \ {0} /\ RecentWindow \in Nat \ {0}
  /\ SessionBound \in Nat /\ BridgeFaults \in Nat

VARIABLES
  bus,         \* the channel: a sequence of exchanges
  inHand,      \* the exchange the bus took from the channel, or "none"
  running,     \* exchanges that hold a permit
  mirrorJob,   \* [Exchange -> [pc, session, round, tries]]
  caller,      \* [Exchange -> "idle", "waiting", "left", "weighing", "aarnn", "llm", "kept"]
  slot,        \* the cached session: [kind, id, live]
  slotOwner,   \* holder of the slot's mutex, or "free"
  valid,       \* sessions AARNN accepts
  issued,      \* sessions AARNN issued
  samples,     \* PROMOTION_HISTORY of the task
  bridgeFaults,
  ended,       \* history: sessions that were revoked or came within the margin of their end
  judged,      \* history: exchanges whose candidate was evaluated
  sustainedBy  \* history: [Exchange -> judged exchanges when it was promoted as sustained, 0]

bridgeVars == <<bus, inHand, running, mirrorJob, caller, slot, slotOwner, valid, issued, samples,
                bridgeFaults, ended, judged, sustainedBy>>

MirrorStep == {"new", "queued", "dropped", "session", "create", "send", "rejected", "answered",
               "failed", "done"}
MirrorJob == [pc : MirrorStep, session : Nat, round : 1 .. 2, tries : Nat]
Slot == [kind : {"empty", "active", "unsupported", "failed"}, id : Nat, live : BOOLEAN]

BridgeTypeOK ==
  /\ bus \in Seq(Exchange) /\ inHand \in Exchange \cup {"none"} /\ running \in SUBSET Exchange
  /\ mirrorJob \in [Exchange -> MirrorJob]
  /\ caller \in [Exchange -> {"idle", "waiting", "left", "weighing", "aarnn", "llm", "kept"}]
  /\ slot \in Slot /\ slotOwner \in Exchange \cup {"free"}
  /\ valid \in SUBSET Nat /\ issued \in Nat
  /\ samples \in Seq({0, 1}) /\ bridgeFaults \in 0 .. BridgeFaults
  /\ ended \in SUBSET Nat /\ judged \in SUBSET Exchange /\ IsFiniteSet(judged)
  /\ sustainedBy \in [Exchange -> Nat]

EmptySlot == [kind |-> "empty", id |-> 0, live |-> FALSE]
NewJob == [pc |-> "new", session |-> 0, round |-> 1, tries |-> 0]

BridgeInit ==
  /\ bus = <<>> /\ inHand = "none" /\ running = {} /\ mirrorJob = [x \in Exchange |-> NewJob]
  /\ caller = [x \in Exchange |-> "idle"]
  /\ slot = EmptySlot /\ slotOwner = "free" /\ valid = {} /\ issued = 0
  /\ samples = <<>> /\ bridgeFaults = 0
  /\ ended = {} /\ judged = {} /\ sustainedBy = [x \in Exchange |-> 0]

BridgeFault == bridgeFaults < BridgeFaults /\ bridgeFaults' = bridgeFaults + 1
gateVars == <<samples, judged, sustainedBy>>
sessionVars == <<slot, slotOwner, valid, issued, ended>>
Step(x, pc) == mirrorJob' = [mirrorJob EXCEPT ![x].pc = pc]
At(x, pc) == mirrorJob[x].pc = pc

-----------------------------------------------------------------------------
(* The bus.                                                                *)

\* enqueue: the exchange goes to the channel, or is dropped when there is no room within
\* enqueue_timeout.
Enqueue(x) ==
  /\ x \notin Speech /\ At(x, "new") /\ caller[x] = "idle"
  /\ \/ /\ Len(bus) < BusCapacity
        /\ bus' = Append(bus, x) /\ Step(x, "queued") /\ caller' = [caller EXCEPT ![x] = "waiting"]
     \/ /\ Len(bus) >= BusCapacity
        /\ caller' = [caller EXCEPT ![x] = "llm"] /\ Step(x, "dropped") /\ UNCHANGED bus
  /\ UNCHANGED <<inHand, running, bridgeFaults>> /\ UNCHANGED sessionVars /\ UNCHANGED gateVars

\* start_worker_bus: a received job waits for a permit in the hands of the bus.
Receive ==
  /\ bus # <<>> /\ inHand = "none" /\ inHand' = Head(bus) /\ bus' = Tail(bus)
  /\ UNCHANGED <<running, mirrorJob, caller, bridgeFaults>> /\ UNCHANGED sessionVars /\ UNCHANGED gateVars

StartMirror ==
  /\ inHand # "none" /\ Cardinality(running) < BusWorkers
  /\ inHand' = "none" /\ running' = running \cup {inHand} /\ Step(inHand, "session")
  /\ UNCHANGED <<bus, caller, bridgeFaults>> /\ UNCHANGED sessionVars /\ UNCHANGED gateVars

\* mirror_speech.
MirrorSpeech(x) ==
  /\ x \in Speech /\ At(x, "new") /\ Step(x, "session") /\ caller' = [caller EXCEPT ![x] = "waiting"]
  /\ UNCHANGED <<bus, inHand, running, bridgeFaults>> /\ UNCHANGED sessionVars /\ UNCHANGED gateVars

-----------------------------------------------------------------------------
(* The peripheral session.                                                 *)

\* peripheral_session takes the slot's mutex and holds it across the creation.
LockSlot(x) ==
  /\ At(x, "session") /\ slotOwner = "free"
  /\ IF slot.live
     THEN /\ mirrorJob' = [mirrorJob EXCEPT
               ![x].session = IF slot.kind = "active" THEN slot.id ELSE 0,
               ![x].pc = IF slot.kind # "active" /\ mirrorJob[x].round = 2 THEN "failed" ELSE "send"]
          /\ UNCHANGED slotOwner
     ELSE Step(x, "create") /\ slotOwner' = x
  /\ UNCHANGED <<bus, inHand, running, caller, bridgeFaults, slot, valid, issued, ended>> /\ UNCHANGED gateVars

\* create_peripheral_session: a session, "unsupported" (403 to 405) or "failed".
CreateSession(x) ==
  /\ At(x, "create") /\ slotOwner = x /\ slotOwner' = "free"
  /\ \/ /\ issued < SessionBound /\ issued' = issued + 1 /\ valid' = valid \cup {issued + 1}
        /\ slot' = [kind |-> "active", id |-> issued + 1, live |-> TRUE]
        /\ mirrorJob' = [mirrorJob EXCEPT ![x].session = issued + 1, ![x].pc = "send"]
        /\ UNCHANGED bridgeFaults
     \/ /\ BridgeFault /\ \E kind \in {"unsupported", "failed"} : slot' = [kind |-> kind, id |-> 0, live |-> TRUE]
        /\ mirrorJob' = [mirrorJob EXCEPT ![x].session = 0,
                           ![x].pc = IF mirrorJob[x].round = 2 THEN "failed" ELSE "send"]
        /\ UNCHANGED <<issued, valid>>
  /\ UNCHANGED <<bus, inHand, running, caller, ended>> /\ UNCHANGED gateVars

\* Mutant: whatever session is cached is dropped.
InvalidatedAny(stale) == IF slot.kind = "unsupported" THEN slot ELSE EmptySlot

\* invalidate_peripheral_session: only the session that was rejected is dropped.
Invalidated(stale) ==
  IF slot.kind = "unsupported" \/ (slot.kind = "active" /\ slot.id # stale) THEN slot ELSE EmptySlot

\* mirror_once, after a session error: drop the session and try once more with another.
Invalidate(x) ==
  /\ At(x, "rejected") /\ slotOwner = "free"
  /\ slot' = Invalidated(mirrorJob[x].session)
  /\ mirrorJob' = [mirrorJob EXCEPT ![x].pc = "session", ![x].round = 2, ![x].tries = 0]
  /\ UNCHANGED <<bus, inHand, running, caller, bridgeFaults, slotOwner, valid, issued, ended>> /\ UNCHANGED gateVars

\* A cached session comes within the refresh margin, or a negative entry ends.
SlotAges ==
  /\ slot.live /\ slotOwner = "free" /\ BridgeFault
  /\ slot' = [slot EXCEPT !.live = FALSE]
  /\ ended' = ended \cup ({slot.id} \ {0})
  /\ UNCHANGED <<bus, inHand, running, mirrorJob, caller, slotOwner, valid, issued>> /\ UNCHANGED gateVars

\* AARNN restarts and forgets its sessions.
ServerRestarts ==
  /\ valid # {} /\ BridgeFault /\ valid' = {} /\ ended' = ended \cup valid
  /\ UNCHANGED <<bus, inHand, running, mirrorJob, caller, slot, slotOwner, issued>> /\ UNCHANGED gateVars

-----------------------------------------------------------------------------
(* The request.                                                            *)

\* mirror_once_attempt under mirror_with_retries: an answer, a rejected session, or an
\* error that is retried while attempts are left.
Attempt(x) ==
  LET j == mirrorJob[x]
  IN  /\ At(x, "send")
      /\ \/ j.session \in valid \cup {0} /\ Step(x, "answered") /\ UNCHANGED bridgeFaults
         \/ /\ j.session \notin valid /\ UNCHANGED bridgeFaults
            /\ Step(x, IF j.round = 1 THEN "rejected" ELSE "failed")
         \/ /\ BridgeFault
            /\ mirrorJob' = [mirrorJob EXCEPT ![x].tries = @ + 1,
                               ![x].pc = IF j.tries + 1 < HttpAttempts THEN "send" ELSE "failed"]
         \/ BridgeFault /\ Step(x, "failed")
      /\ UNCHANGED <<bus, inHand, running, caller>> /\ UNCHANGED sessionVars /\ UNCHANGED gateVars

\* mirror returns its trace and the permit; the caller may have left.
Deliver(x) ==
  /\ mirrorJob[x].pc \in {"answered", "failed"}
  /\ Step(x, "done") /\ running' = running \ {x}
  /\ caller' = [caller EXCEPT ![x] =
       IF @ # "waiting" THEN @ ELSE IF At(x, "answered") /\ x \notin Speech THEN "weighing" ELSE "llm"]
  /\ UNCHANGED <<bus, inHand, bridgeFaults>> /\ UNCHANGED sessionVars /\ UNCHANGED gateVars

\* await_aarnn_mirror_task: the wait for a candidate is bounded.
StopWaiting(x) ==
  /\ caller[x] = "waiting" /\ x \notin Speech /\ caller' = [caller EXCEPT ![x] = "left"]
  /\ UNCHANGED <<bus, inHand, running, mirrorJob, bridgeFaults>> /\ UNCHANGED sessionVars /\ UNCHANGED gateVars

-----------------------------------------------------------------------------
(* Promotion.                                                              *)

Push(s, q) == LET t == Append(s, q) IN IF Len(t) > HistoryWindow THEN Tail(t) ELSE t
QualityOf(s) == FoldSeq(LAMBDA q, n : q + n, 0, s)

\* Mutant: one good average is enough.
SustainedGateUncounted(s) == 10 * QualityOf(s) >= 8 * Len(s)

\* evaluate_candidate: enough samples, their average at least 0.80 and the recent one 0.75.
SustainedGate(s) ==
  LET recent == SubSeq(s, IF Len(s) > RecentWindow THEN Len(s) - RecentWindow + 1 ELSE 1, Len(s))
  IN  /\ Len(s) >= Sustained
      /\ 10 * QualityOf(s) >= 8 * Len(s)
      /\ 100 * QualityOf(recent) >= 75 * Len(recent)

\* should_promote_candidate and, failing that, should_promote_admitted_candidate for an
\* admitted decoder: each evaluates the candidate, and so samples it, once more.
Judged(s, q, admitted) ==
  LET once == Push(s, q)
      sustained == SustainedGate(once) /\ q = 1
  IN  [sustained |-> sustained, promoted |-> sustained \/ (admitted /\ q = 1),
       samples |-> IF sustained \/ ~admitted THEN once ELSE Push(once, q)]

\* A direct completion evaluates the candidate for its report, lets it be judged, and
\* evaluates it again, against the text that is returned, for the interaction's record.
Weigh(x, q, admitted) ==
  LET verdict == Judged(Push(samples, q), q, admitted)
  IN  /\ caller[x] = "weighing"
      /\ judged' = judged \cup {x}
      /\ sustainedBy' = [sustainedBy EXCEPT ![x] = IF verdict.sustained THEN Cardinality(judged') ELSE 0]
      /\ caller' = [caller EXCEPT ![x] = IF verdict.promoted THEN "aarnn" ELSE "kept"]
      /\ \E recorded \in {q} \cup (IF verdict.promoted THEN {1} ELSE {}) :
           samples' = Push(verdict.samples, recorded)
      /\ UNCHANGED <<bus, inHand, running, mirrorJob, bridgeFaults>> /\ UNCHANGED sessionVars

\* Every exchange was answered or given up.
BridgeDone ==
  /\ \A x \in Exchange : caller[x] \in {"left", "aarnn", "llm", "kept"} /\ mirrorJob[x].pc \in {"done", "dropped"}
  /\ UNCHANGED bridgeVars

BridgeNext ==
  \/ \E x \in Exchange :
       \/ Enqueue(x) \/ MirrorSpeech(x) \/ LockSlot(x) \/ CreateSession(x) \/ Invalidate(x)
       \/ Attempt(x) \/ Deliver(x) \/ StopWaiting(x)
       \/ \E q \in {0, 1}, admitted \in BOOLEAN : Weigh(x, q, admitted)
  \/ Receive \/ StartMirror \/ SlotAges \/ ServerRestarts \/ BridgeDone

BridgeSpec == BridgeInit /\ [][BridgeNext]_bridgeVars

-----------------------------------------------------------------------------
\* A new session is asked for only when the one before ended: several exchanges rejected
\* with one session replace it once (peripheral_session, invalidate_peripheral_session).
NoSessionStampede == issued <= 1 + Cardinality(ended)

\* AARNN's reply replaces a provider's as sustained only after other exchanges were
\* judged: although one exchange is sampled up to four times, its own samples never
\* suffice (evaluate_candidate, should_promote_candidate).
PromotionIsSustained ==
  \A x \in Exchange : sustainedBy[x] # 0 => 4 * sustainedBy[x] >= Sustained + 2
=============================================================================
