----------------------------- MODULE VoiceSkill ------------------------------
(***************************************************************************)
(* The Alexa skill (alexa.rs).  A spoken question starts a task that asks  *)
(* Gail; when the answer is later than Alexa's deadline the task is put    *)
(* aside for the session, and "yes" takes it up again.  The conversation   *)
(* is kept by the device, as session attributes that each response         *)
(* replaces.  A device speaks one turn at a time; sessions interleave.     *)
(***************************************************************************)
EXTENDS Integers, Sequences, FiniteSets

CONSTANTS
  Voice,             \* sessions
  PendingTtl,        \* PENDING_ANSWER_TTL
  MaxPending,        \* MAX_PENDING_ANSWERS
  MaxTurns,          \* MAX_HISTORY_TURNS
  LastBeat,          \* bound: the clock stops here
  MaxAsks            \* bound: questions asked

\* The limits are counts, and the devices that speak at a time are finitely many.
ASSUME VoiceAssumption == IsFiniteSet(Voice) /\ MaxPending \in Nat /\ MaxTurns \in Nat

VARIABLES
  beat,              \* the clock
  asks,              \* the tasks started, in order: who asked, their state, how often told
  pend,              \* AlexaRuntime::pending, by session
  turn,              \* the handler of a session's current turn, in await_answer or idle
  heard              \* the history in the session attributes the device holds

voiceVars == <<beat, asks, pend, turn, heard>>

Nothing == [ask |-> 0, hist |-> <<>>, created |-> 0]

Fresh(p) == p.ask # 0 /\ beat - p.created < PendingTtl
Stopped(as, a) == [as EXCEPT ![a].st = IF @ = "running" THEN "stopped" ELSE @]
Dropped(as, a) == [as EXCEPT ![a].loose = TRUE]
Held == {s \in Voice : pend[s].ask # 0}

\* take_pending: the entry leaves the map; one past its time is dropped, which lets it run on.
Take(s) == IF Fresh(pend[s]) THEN pend[s] ELSE Nothing
AfterTake(s) == IF pend[s].ask # 0 /\ ~Fresh(pend[s]) THEN Dropped(asks, pend[s].ask) ELSE asks

\* Mutant: the entry put aside stays.
KeepPending(s) == [asks |-> asks, pend |-> pend]
\* clear_pending aborts what take_pending returns.
ClearPending(s) ==
  [asks |-> IF Fresh(pend[s]) THEN Stopped(asks, pend[s].ask) ELSE AfterTake(s),
   pend |-> [pend EXCEPT ![s] = Nothing]]
-----------------------------------------------------------------------------
\* validate_cert_chain_url and select_signature: the headers name a chain and a signature.
HeadersGood == BOOLEAN
\* chain_for: from the cache, or fetched and stored.
ChainFound == BOOLEAN
\* verify_chain and verify_body_signature, at the present time.
SignatureGood == BOOLEAN
\* check_timestamp, check_application_id.
EnvelopeGood == BOOLEAN
\* verify_request
Verified == {h /\ c /\ g /\ v : h \in HeadersGood, c \in ChainFound,
                                g \in SignatureGood, v \in EnvelopeGood}

\* history_from: the last turns of what the device sent.
Last(h) == IF Len(h) <= MaxTurns THEN h ELSE SubSeq(h, Len(h) - MaxTurns + 1, Len(h))
HistoryFrom(s) == Last(heard[s])

Idle(s)  == turn[s].ask = 0
Still    == UNCHANGED beat

\* handle refuses what does not verify; respond and intent answer from fixed speech.
Chat(s) ==
  /\ Idle(s) /\ Still /\ UNCHANGED <<asks, pend, turn>>
  /\ \E good \in Verified :
       heard' = IF good THEN [heard EXCEPT ![s] = HistoryFrom(s)] ELSE heard

\* A question intent: what was put aside is abandoned and a task is started.
Question(s) ==
  /\ Idle(s) /\ Still /\ UNCHANGED heard /\ Len(asks) < MaxAsks
  /\ pend' = ClearPending(s).pend
  /\ asks' = Append(ClearPending(s).asks, [by |-> s, st |-> "running", loose |-> FALSE, told |-> 0])
  /\ turn' = [turn EXCEPT ![s] =
       [ask |-> Len(asks) + 1, hist |-> HistoryFrom(s), created |-> 0]]

\* AMAZON.YesIntent: await what was put aside, or there is nothing.
Yes(s) ==
  /\ Idle(s) /\ Still /\ UNCHANGED heard
  /\ turn' = [turn EXCEPT ![s] = [Take(s) EXCEPT !.created = 0]]
  /\ asks' = AfterTake(s) /\ pend' = [pend EXCEPT ![s] = Nothing]

\* AMAZON.NoIntent keeps the conversation; Stop, Cancel and SessionEndedRequest end it.
Abandon(s) ==
  /\ Idle(s) /\ Still /\ UNCHANGED turn
  /\ pend' = ClearPending(s).pend /\ asks' = ClearPending(s).asks
  /\ \E ends \in BOOLEAN : heard' = [heard EXCEPT ![s] = IF ends THEN <<>> ELSE HistoryFrom(s)]

\* alexa_asker: the task ends with a text, a refusal of Aria's, or a failure.
AskEnds(a) ==
  /\ asks[a].st = "running" /\ Still /\ UNCHANGED <<pend, turn, heard>>
  /\ \E st \in {"answered", "blocked", "failed"} : asks' = [asks EXCEPT ![a].st = st]

\* await_answer, the task ended within the deadline: an answer joins the history.
Answer(s) ==
  LET a == turn[s].ask
  IN  /\ ~Idle(s) /\ asks[a].st # "running" /\ Still /\ UNCHANGED pend
      /\ turn' = [turn EXCEPT ![s] = Nothing]
      /\ IF asks[a].st = "answered"
         THEN /\ heard' = [heard EXCEPT ![s] = Last(Append(turn[s].hist, a))]
              /\ asks' = [asks EXCEPT ![a].told = @ + 1]
         ELSE heard' = [heard EXCEPT ![s] = turn[s].hist] /\ UNCHANGED asks

\* store_pending: the outdated are aborted, the oldest makes room, the session's entry is replaced.
Outdated == {v \in Held : ~Fresh(pend[v])}
Oldest(keep) ==
  IF Cardinality(keep) < MaxPending THEN {{}}
  ELSE {{v} : v \in {w \in keep : \A u \in keep : pend[w].created <= pend[u].created}}
StorePending(s, entry) ==
  \E evicted \in Oldest(Held \ Outdated) :
    LET gone == Outdated \cup evicted \cup (Held \cap {s})
        stop == {pend[v].ask : v \in gone}
    IN  /\ pend' = [v \in Voice |-> IF v = s THEN entry ELSE IF v \in gone THEN Nothing ELSE pend[v]]
        /\ asks' = [a \in 1..Len(asks) |->
                      IF a \in stop THEN Stopped(asks, a)[a] ELSE asks[a]]

\* await_answer, the deadline: the task is put aside and the device told to ask again.
Deadline(s) ==
  /\ ~Idle(s) /\ asks[turn[s].ask].st = "running" /\ Still
  /\ StorePending(s, [turn[s] EXCEPT !.created = beat])
  /\ heard' = [heard EXCEPT ![s] = turn[s].hist]
  /\ turn' = [turn EXCEPT ![s] = Nothing]

\* The connection is lost in await_answer: the handle is dropped and the task runs on.
Lost(s) == /\ ~Idle(s) /\ Still /\ UNCHANGED <<pend, heard>>
           /\ asks' = Dropped(asks, turn[s].ask) /\ turn' = [turn EXCEPT ![s] = Nothing]

Beat == beat < LastBeat /\ beat' = beat + 1 /\ UNCHANGED <<asks, pend, turn, heard>>

VoiceInit == /\ beat = 0 /\ asks = <<>>
             /\ pend = [s \in Voice |-> Nothing] /\ turn = [s \in Voice |-> Nothing]
             /\ heard = [s \in Voice |-> <<>>]

VoiceNext ==
  \/ \E s \in Voice : \/ Chat(s) \/ Question(s) \/ Yes(s) \/ Abandon(s)
                      \/ Answer(s) \/ Deadline(s) \/ Lost(s)
  \/ \E a \in 1..Len(asks) : AskEnds(a)
  \/ Beat

VoiceSpec == VoiceInit /\ [][VoiceNext]_voiceVars
-----------------------------------------------------------------------------
Holders(a) == {s \in Voice : turn[s].ask = a} \cup {s \in Voice : pend[s].ask = a}

(* An answer put aside still continues the conversation as the device has it:
   taking it up forgets no turn that was spoken meanwhile (the history kept in
   PendingAnswer against the session attributes). *)
NoTurnForgotten ==
  \A s \in Voice : /\ turn[s].ask # 0 => turn[s].hist = heard[s]
                   /\ Fresh(pend[s]) => pend[s].hist = heard[s]

(* A task is held by one handler or put aside once, by the session that asked
   (or has lost its connection, or outlived its time); what was aborted is held
   by nobody; and an answer is spoken once, to its own session. *)
AnswersReachTheirAsker ==
  /\ \A a \in 1..Len(asks) :
       /\ Holders(a) \subseteq {asks[a].by} /\ asks[a].told <= 1
       /\ \A s \in Voice : ~(turn[s].ask = a /\ pend[s].ask = a)
       /\ asks[a].st = "running" /\ ~asks[a].loose => Holders(a) # {}
       /\ asks[a].st = "stopped" => Holders(a) = {} /\ asks[a].told = 0
  /\ \A s \in Voice : \A i \in 1..Len(heard[s]) : asks[heard[s][i]].by = s

VoiceIsTrue == NoTurnForgotten /\ AnswersReachTheirAsker /\ Cardinality(Held) <= MaxPending
=============================================================================
