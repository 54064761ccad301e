--------------------------- MODULE TradeExecution ---------------------------
(***************************************************************************)
(* Order execution of the trading bridge: one execution owner (the loop of *)
(* src/src/trading/mod.rs) that leases an order intent, makes the lease    *)
(* durable, submits the order to OctoBot and records the fill; the HTTP    *)
(* controls and background workers that change and save the same state;    *)
(* OctoBot, which may accept an order late or without an answer; and the   *)
(* crash and restart of the process at any point.                          *)
(***************************************************************************)
EXTENDS Integers, Sequences, FiniteSets

CONSTANTS
  Key,          \* order intents: BUY|symbol, SELL|exchange|symbol
  SellKey,      \* those that sell
  None,         \* no pending override
  Passive,      \* an override to hold, to cancel, or without a symbol
  Foreign,      \* intents that may have been traded before Gail started
  Requests,     \* overrides that the operator may issue
  Lease,        \* execution_lease_seconds
  Cooldown,     \* min_trade_interval_seconds
  RingSize,     \* trade_ring_size
  Modes,        \* number of order submission endpoints
  SellRetries,  \* sell_retry_attempts_remaining
  MaxClock, MaxOrders,   \* bounds on time and on orders
  MaxEvents     \* bound on operator requests, worker saves, failed saves and crashes

ASSUME TradeConstants ==
  /\ SellKey \subseteq Key /\ Foreign \subseteq Key /\ Requests \subseteq Key \cup {Passive}
  /\ None \notin Key /\ Passive \notin Key /\ None # Passive
  /\ Lease \in Nat \ {0} /\ Cooldown \in Nat
  /\ RingSize \in Nat \ {0} /\ Modes \in Nat \ {0} /\ SellRetries \in Nat
  /\ {MaxClock, MaxOrders, MaxEvents} \subseteq Nat

VARIABLES
  clock,
  mem,       \* the part of TradingState that restore brings back
  override,  \* pending_override: saved too, but never restored
  disk,      \* the state file
  writer,    \* holder of the persist lock with its snapshot
  op,        \* the execution owner
  api,       \* the HTTP control or background worker at work
  orders,    \* every order that reached OctoBot (ground truth)
  promised,  \* what the operator was told (history)
  events     \* how many of them there were

store   == <<mem, disk, writer>>
outside == <<api, promised, events>>
vars    == <<clock, store, override, op, orders, outside>>

Override == Key \cup {None, Passive}
Trade  == [id : Nat, key : Key, ts : Nat]
Ledger == [lease : [Key -> Nat],     \* in_flight_order_intents: expiry, 0 if none
           trades : SUBSET Trade,    \* trade_history
           paused : BOOLEAN]
Order  == [key : Key, claimed : Nat,
           by : {"auto", "manual", "foreign"},
           status : {"pending", "accepted", "rejected"},
           at : Nat,            \* when it was filled
           known : BOOLEAN]     \* Gail saw the acknowledgement
PC == {"idle", "evaluating", "ready", "lease", "activate", "post", "posted", "ending"}
Owner == [pc : PC, key : Override, manual : BOOLEAN, claimed : Nat,
          mode : Nat, retries : Nat, order : Nat]

Empty == [lease |-> [k \in Key |-> 0], trades |-> {}, paused |-> FALSE]
NoWriter == [who |-> "none", snap |-> Empty]
Resting == [pc |-> "idle", key |-> None, manual |-> FALSE, claimed |-> 0,
            mode |-> 1, retries |-> 0, order |-> 0]
At(pc) == [op EXCEPT !.pc = pc]
(* The owner leaves execute_if_warranted; the saves that follow there and at
   the end of the evaluation are best effort and are one save here. *)
Ending == [Resting EXCEPT !.pc = "ending"]

Gail(o) == o.by # "foreign"
OwnOrders == {i \in DOMAIN orders : Gail(orders[i])}

(* Mutant: a full ring takes no new trade. *)
RecentKeepsOldest(S) ==
  {t \in S : Cardinality({u \in S : u.ts < t.ts \/ (u.ts = t.ts /\ u.id < t.id)}) < RingSize}

(* The ring of recent trades: the last RingSize of the history. *)
Recent(S) ==
  {t \in S : Cardinality({u \in S : u.ts > t.ts \/ (u.ts = t.ts /\ u.id > t.id)}) < RingSize}

(* A trade on the account that Gail did not make, from before it started. *)
ForeignTrade(k) == [key |-> k, claimed |-> 0, by |-> "foreign", status |-> "accepted",
                    at |-> 1, known |-> FALSE]

Init ==
  /\ clock = 1
  /\ mem = Empty /\ disk = Empty /\ writer = NoWriter
  /\ override = None
  /\ op = Resting
  /\ orders \in {<<>>} \cup {<<ForeignTrade(k)>> : k \in Foreign}
  /\ api = "idle"
  /\ promised = [pause |-> FALSE, override |-> FALSE]
  /\ events = 0
-----------------------------------------------------------------------------
(* Something out of the ordinary happens. *)
Event == events < MaxEvents /\ events' = events + 1

(* persist_checked: the persist lock first, then the snapshot, then an atomic
   rename of a temporary file that may fail. *)
BeginWrite(who) ==
  /\ writer.who = "none"
  /\ writer' = [who |-> who, snap |-> mem]
  /\ UNCHANGED <<mem, disk>>

EndWrite(who, ok) ==
  /\ writer.who = who
  /\ writer' = NoWriter
  /\ IF ok THEN disk' = writer.snap /\ UNCHANGED events
           ELSE UNCHANGED disk /\ Event
-----------------------------------------------------------------------------
(* The owner wakes up; a paused bridge does not evaluate. *)
BeginEvaluation ==
  /\ op.pc = "idle"
  /\ ~mem.paused
  /\ op' = At("evaluating")
  /\ UNCHANGED <<clock, store, override, orders, outside>>

(* Mutant: an override that is not actionable is executed like any other. *)
DecideUnfiltered ==
  /\ op.pc = "evaluating"
  /\ IF override # None
       THEN op' = [At("ready") EXCEPT !.key = override, !.manual = TRUE]
       ELSE \E k \in Key : op' = [At("ready") EXCEPT !.key = k]
  /\ UNCHANGED <<clock, store, override, orders, outside>>

(* decide, under the state lock: a pending override replaces the decision for
   the one market; one that is not actionable ends the evaluation without a
   trade, and so does a decision to hold. *)
Decide ==
  /\ op.pc = "evaluating"
  /\ \/ /\ override \in Key
        /\ op' = [At("ready") EXCEPT !.key = override, !.manual = TRUE]
     \/ /\ override = None
        /\ \E k \in Key : op' = [At("ready") EXCEPT !.key = k]
     \/ /\ override \in {None, Passive}
        /\ op' = Ending
  /\ UNCHANGED <<clock, store, override, orders, outside>>

(* A finished maintenance review hands its plan to the owner. *)
MaintenancePlan(k) ==
  /\ op.pc = "idle"
  /\ ~mem.paused /\ override = None
  /\ op' = [At("ready") EXCEPT !.key = k]
  /\ UNCHANGED <<clock, store, override, orders, outside>>

(* OctoBot's trade history is merged; rows already known are skipped. *)
Import ==
  LET seen == {t.id : t \in mem.trades}
      new  == {i \in DOMAIN orders : orders[i].status = "accepted" /\ i \notin seen}
  IN
  /\ op.pc = "idle"
  /\ new # {}
  /\ mem' = [mem EXCEPT !.trades = @ \cup
              {[id |-> i, key |-> orders[i].key, ts |-> orders[i].at] : i \in new}]
  /\ op' = Ending
  /\ UNCHANGED <<clock, disk, writer, override, orders, outside>>
-----------------------------------------------------------------------------
(* One of the read-only gates of execute_if_warranted stops the trade. *)
SkipTrade ==
  /\ op.pc = "ready"
  /\ op' = Ending
  /\ UNCHANGED <<clock, store, override, orders, outside>>

(* claim_execution_intent: no lease on the same intent, and unless the operator
   asked, no equivalent trade in the cooldown. *)
MayClaim(k, manual) ==
  /\ mem.lease[k] <= clock
  /\ ~manual => \A t \in Recent(mem.trades) : t.key = k => clock - t.ts >= Cooldown

Unexpired == [k \in Key |-> IF mem.lease[k] > clock THEN mem.lease[k] ELSE 0]

(* Mutant: the order is prepared before the lease is durable. *)
ClaimUnsaved ==
  /\ op.pc = "ready"
  /\ MayClaim(op.key, op.manual)
  /\ Cardinality(OwnOrders) < MaxOrders
  /\ mem' = [mem EXCEPT !.lease = [Unexpired EXCEPT ![op.key] = clock + Lease]]
  /\ op' = [At("activate") EXCEPT !.claimed = clock]
  /\ UNCHANGED <<clock, disk, writer, override, orders, outside>>

Claim ==
  /\ op.pc = "ready"
  /\ MayClaim(op.key, op.manual)
  /\ Cardinality(OwnOrders) < MaxOrders
  /\ mem' = [mem EXCEPT !.lease = [Unexpired EXCEPT ![op.key] = clock + Lease]]
  /\ op' = [At("lease") EXCEPT !.claimed = clock,
                               !.retries = IF op.key \in SellKey THEN SellRetries ELSE 0]
  /\ UNCHANGED <<clock, disk, writer, override, orders, outside>>

ClaimRefused ==
  /\ op.pc = "ready"
  /\ ~MayClaim(op.key, op.manual)
  /\ mem' = [mem EXCEPT !.lease = Unexpired]
  /\ op' = Ending
  /\ UNCHANGED <<clock, disk, writer, override, orders, outside>>

(* The pair is made tradable, or the intent is released. *)
ActivatePair(ok) ==
  /\ op.pc = "activate"
  /\ op' = IF ok THEN At("post") ELSE Ending
  /\ mem' = IF ok THEN mem ELSE [mem EXCEPT !.lease[op.key] = 0]
  /\ UNCHANGED <<clock, disk, writer, override, orders, outside>>

(* place_order submits through the current endpoint. *)
Post ==
  /\ op.pc = "post"
  /\ orders' = Append(orders, [key |-> op.key, claimed |-> op.claimed,
                               by |-> IF op.manual THEN "manual" ELSE "auto",
                               status |-> "pending", at |-> 0, known |-> FALSE])
  /\ op' = [At("posted") EXCEPT !.order = Len(orders) + 1]
  /\ UNCHANGED <<clock, store, override, outside>>

(* Mutant: no answer is taken for a refusal. *)
RefusedUnlessFilled == orders[op.order].status # "accepted"

(* Only a client error proves that nothing was ordered. *)
Refused == orders[op.order].status = "rejected"

(* Try the next endpoint, or a smaller amount from the first one when a sale
   exceeded the portfolio. *)
TryAgain ==
  /\ op.pc = "posted"
  /\ Refused
  /\ Cardinality(OwnOrders) < MaxOrders
  /\ \/ /\ op.mode < Modes
        /\ op' = [At("post") EXCEPT !.mode = @ + 1]
     \/ /\ op.retries > 0
        /\ op' = [At("post") EXCEPT !.mode = 1, !.retries = @ - 1]
  /\ UNCHANGED <<clock, store, override, orders, outside>>

(* Endpoints exhausted, a quantity of zero, a server error, a time-out or no
   acknowledgement: the order failed or may still be filled; the lease stays. *)
OrderFails ==
  /\ op.pc = "posted"
  /\ op' = Ending
  /\ UNCHANGED <<clock, store, override, orders, outside>>

(* The acknowledged fill replaces the lease under one lock, and any pending
   override is cleared. *)
OrderFilled ==
  /\ op.pc = "posted"
  /\ orders[op.order].status = "accepted"
  /\ orders' = [orders EXCEPT ![op.order] = [@ EXCEPT !.known = TRUE]]
  /\ mem' = [mem EXCEPT !.lease[op.key] = 0,
                        !.trades = @ \cup {[id |-> op.order, key |-> op.key, ts |-> clock]}]
  /\ override' = None
  /\ promised' = [promised EXCEPT !.override = @ /\ ~op.manual]
  /\ op' = Ending
  /\ UNCHANGED <<clock, disk, writer, api, events>>

OwnerBeginsWrite ==
  /\ op.pc \in {"lease", "ending"}
  /\ BeginWrite("owner")
  /\ UNCHANGED <<clock, override, op, orders, outside>>

(* Only a durable lease lets the order go on; other saves are best effort. *)
OwnerEndsWrite(ok) ==
  /\ op.pc \in {"lease", "ending"}
  /\ EndWrite("owner", ok)
  /\ mem' = IF op.pc = "lease" /\ ~ok THEN [mem EXCEPT !.lease[op.key] = 0] ELSE mem
  /\ op' = IF op.pc = "ending" THEN Resting ELSE IF ok THEN At("activate") ELSE Ending
  /\ UNCHANGED <<clock, override, orders, api, promised>>
-----------------------------------------------------------------------------
(* trading_pause, trading_resume and trading_override change the state and then
   save it; the operator is told whether the save succeeded. *)
Handle(request) ==
  /\ api = "idle" /\ api' = request
  /\ Event
  /\ UNCHANGED <<clock, disk, writer, op, orders>>

Pause ==
  /\ Handle("pause")
  /\ mem' = [mem EXCEPT !.paused = TRUE]
  /\ UNCHANGED <<override, promised>>

Resume ==
  /\ Handle("resume")
  /\ mem' = [mem EXCEPT !.paused = FALSE]
  /\ promised' = [promised EXCEPT !.pause = FALSE]
  /\ UNCHANGED override

SetOverride(ov) ==
  /\ Handle("override")
  /\ override' = ov
  /\ promised' = [promised EXCEPT !.override = FALSE]
  /\ UNCHANGED mem

ApiBeginsWrite ==
  /\ api \in {"pause", "resume", "override"}
  /\ BeginWrite("api")
  /\ UNCHANGED <<clock, override, op, orders, outside>>

(* A backtest or advisory worker saves what it changed elsewhere in the state. *)
WorkerBeginsWrite ==
  /\ api = "idle" /\ api' = "worker"
  /\ Event
  /\ BeginWrite("api")
  /\ UNCHANGED <<clock, override, op, orders, promised>>

ApiEndsWrite(ok) ==
  /\ EndWrite("api", ok)
  /\ api' = "idle"
  /\ promised' = [pause    |-> promised.pause \/ (ok /\ api = "pause"),
                  override |-> promised.override \/ (ok /\ api = "override" /\ override # None)]
  /\ UNCHANGED <<clock, mem, override, op, orders>>
-----------------------------------------------------------------------------
(* OctoBot settles an order at any time, also long after Gail stopped waiting. *)
Settle(i, status) ==
  /\ orders[i].status = "pending"
  /\ orders' = [orders EXCEPT ![i] =
                  [@ EXCEPT !.status = status, !.at = IF status = "accepted" THEN clock ELSE 0]]
  /\ UNCHANGED <<clock, store, override, op, outside>>

(* Mutant: trading starts unpaused. *)
CrashForgetsPause ==
  /\ Event
  /\ mem' = [disk EXCEPT !.paused = FALSE]
  /\ override' = None
  /\ writer' = NoWriter
  /\ op' = Resting /\ api' = "idle"
  /\ UNCHANGED <<clock, disk, orders, promised>>

(* The process dies and restore reads the file: leases, history and pause come
   back, the pending override does not. *)
Crash ==
  /\ Event
  /\ mem' = disk
  /\ override' = None
  /\ writer' = NoWriter
  /\ op' = Resting /\ api' = "idle"
  /\ UNCHANGED <<clock, disk, orders, promised>>

Tick ==
  /\ clock < MaxClock /\ clock' = clock + 1
  /\ UNCHANGED <<store, override, op, orders, outside>>
-----------------------------------------------------------------------------
Execution ==
  \/ Decide \/ SkipTrade \/ Claim \/ ClaimRefused
  \/ \E ok \in BOOLEAN : ActivatePair(ok)
  \/ Post \/ TryAgain \/ OrderFails \/ OrderFilled
OwnerWrites == OwnerBeginsWrite \/ \E ok \in BOOLEAN : OwnerEndsWrite(ok)
ApiWrites   == ApiBeginsWrite \/ \E ok \in BOOLEAN : ApiEndsWrite(ok)
Wake     == BeginEvaluation \/ Import \/ \E k \in Key : MaintenancePlan(k)
Operator == Pause \/ Resume \/ \E ov \in Requests : SetOverride(ov)
OctoBot  == \E i \in DOMAIN orders : \E s \in {"accepted", "rejected"} : Settle(i, s)

Next ==
  \/ Wake \/ Execution \/ OwnerWrites
  \/ Operator \/ WorkerBeginsWrite \/ ApiWrites
  \/ OctoBot \/ Crash \/ Tick
Spec == Init /\ [][Next]_vars

-----------------------------------------------------------------------------
(* TypeOK: the state keeps its types, every restored ledger included, and only
   an actionable decision, with an intent, is executed. *)
TypeOK ==
  /\ clock \in Nat /\ events \in Nat
  /\ mem \in Ledger /\ disk \in Ledger
  /\ writer \in [who : {"none", "owner", "api"}, snap : Ledger]
  /\ op \in Owner
  /\ api \in {"idle", "pause", "resume", "override", "worker"}
  /\ op.pc \notin {"idle", "evaluating", "ending"} => op.key \in Key
  /\ op.pc = "posted" => op.order \in DOMAIN orders
  /\ orders \in Seq(Order)
  /\ promised \in [pause : BOOLEAN, override : BOOLEAN]
  /\ override \in Override

(* NoBlindRepeat: Gail never submits an order while an earlier one of the same
   intent may still be filled unseen, whether through another endpoint, in a
   later evaluation, by an operator's override or after a restart: the earlier
   one was acknowledged or its lease has run out. *)
NoBlindRepeat ==
  \A i, j \in DOMAIN orders :
    /\ i < j /\ orders[i].key = orders[j].key
    /\ Gail(orders[i]) /\ Gail(orders[j])
    /\ ~orders[i].known /\ orders[i].status # "rejected"
    => orders[j].claimed >= orders[i].claimed + Lease

(* CooldownHolds: an order of Gail's own accord follows an equivalent one no
   sooner than the cooldown or the lease, whatever was saved or lost in between,
   unless RingSize other trades have pushed it out of the ring. *)
CooldownHolds ==
  \A i, j \in DOMAIN orders :
    /\ i < j /\ orders[i].key = orders[j].key
    /\ Gail(orders[i]) /\ orders[j].by = "auto"
    /\ orders[i].status # "rejected"
    => \/ orders[j].claimed >= orders[i].claimed + (IF Cooldown < Lease THEN Cooldown ELSE Lease)
       \/ Cardinality({n \in DOMAIN orders \ {i, j} : /\ orders[n].status = "accepted"
                                                     /\ orders[n].at >= orders[i].claimed}) >= RingSize

(* UnsettledIsLeased: until its lease runs out, an order whose outcome Gail has
   not seen is leased in memory and in the file, so that a restart at any
   moment finds the lease. *)
UnsettledIsLeased ==
  \A i \in DOMAIN orders :
    /\ Gail(orders[i]) /\ ~orders[i].known /\ orders[i].status # "rejected"
    /\ clock < orders[i].claimed + Lease
    => /\ mem.lease[orders[i].key] >= orders[i].claimed + Lease
       /\ disk.lease[orders[i].key] >= orders[i].claimed + Lease

(* PauseSurvives: once an operator was told that trading is paused it stays
   paused, across concurrent saves and restarts, until somebody resumes it. *)
PauseSurvives == promised.pause => mem.paused /\ disk.paused

(* OverrideStaysQueued: an override that was acknowledged as queued and
   persisted stays pending until an order is placed for it. *)
OverrideStaysQueued == promised.override => override # None
=============================================================================
