--------------------------- MODULE OrderSubmission ---------------------------
(***************************************************************************)
(* place_order of the OctoBot client (trading/octobot.rs): the endpoints   *)
(* tried in turn, what each answer allows to be tried next, the baseline   *)
(* taken beforehand and the order or trade looked for afterwards when the  *)
(* answer names none.  TradeExecution has the caller; here calls follow    *)
(* one another for one symbol and side.                                    *)
(***************************************************************************)
EXTENDS Integers, Sequences, FiniteSetsExt

CONSTANTS
  Ways,              \* number of OctobotOrderSubmissionModes
  Selling,           \* the calls sell
  SellTries,         \* sell_retry_attempts_remaining
  Amount,            \* the amount of a call, in steps of a reduction
  Calls,             \* bound: calls of place_order
  Rivals             \* bound: orders of others on the account

VARIABLES
  preferred,         \* preferred_order_submission_mode, 0 if none
  proven,            \* direct_acknowledged_order_mode, 0 if none
  placing,           \* the call that runs
  baseline,          \* OrderPlacementBaseline
  venue,             \* orders that reached the exchange, oldest first
  reports            \* auxiliary: how each call was answered

orderVars == <<preferred, proven, placing, baseline, venue, reports>>

\* An order of call own (0: of somebody else), not shown yet, open or filled,
\* and whether its trade carries an id.
VenueOrder(own, seen, named) == [own |-> own, seen |-> seen, named |-> named]

NoBaseline == [taken |-> FALSE, open |-> {}, trades |-> {}, okOpen |-> FALSE, okTrades |-> FALSE]
NoCall == [pc |-> "idle", all |-> <<>>, ways |-> <<>>, direct |-> 0, tries |-> 0, amount |-> 0, start |-> 0]

\* ordered_submission_modes
OrderedWays(p) ==
  LET default == [i \in 1..Ways |-> i]
  IN  IF p = 0 THEN default ELSE <<p>> \o SelectSeq(default, LAMBDA w : w # p)

\* get_open_orders and get_trade_history
Open == {i \in DOMAIN venue : venue[i].seen = "open"}
Traded == {i \in DOMAIN venue : venue[i].seen = "trade"}

\* is_new_open_order, is_new_trade: by id when the baseline has them, else by age,
\* with a second's tolerance; without a baseline of trades any id is new.
Recent1(i) == i + 1 > placing.start
NewOpen(i) == IF baseline.okOpen THEN i \notin baseline.open ELSE Recent1(i)
NewTrade(i) ==
  CASE venue[i].named -> baseline.okTrades => i \notin baseline.trades
    [] ~venue[i].named /\ baseline.okTrades -> \A j \in baseline.trades : j < i
    [] OTHER -> Recent1(i)

BeginPlacing ==
  /\ placing.pc = "idle" /\ Len(reports) < Calls
  /\ placing' = [pc |-> IF preferred # 0 /\ preferred = proven THEN "submit" ELSE "baseline",
                 all |-> OrderedWays(preferred), ways |-> OrderedWays(preferred), direct |-> proven,
                 tries |-> IF Selling THEN SellTries ELSE 0, amount |-> Amount, start |-> Len(venue)]
  /\ baseline' = NoBaseline
  /\ UNCHANGED <<preferred, proven, venue, reports>>

\* capture_order_baseline: either read may fail.
CaptureBaseline(okOpen, okTrades) ==
  /\ placing.pc = "baseline"
  /\ baseline' = [taken |-> TRUE, okOpen |-> okOpen, okTrades |-> okTrades,
                  open |-> IF okOpen THEN Open ELSE {}, trades |-> IF okTrades THEN Traded ELSE {}]
  /\ placing' = [placing EXCEPT !.pc = "submit"]
  /\ UNCHANGED <<preferred, proven, venue, reports>>

\* Another endpoint than the proven one is not tried without a baseline.
NeedsBaseline == ~baseline.taken /\ Head(placing.ways) # placing.direct
BaselineFirst ==
  /\ placing.pc = "submit" /\ NeedsBaseline
  /\ placing' = [placing EXCEPT !.pc = "baseline"]
  /\ UNCHANGED <<preferred, proven, baseline, venue, reports>>

Call == Len(reports) + 1
EndPlacing(how) == placing' = NoCall /\ reports' = Append(reports, how)
\* The post reached the exchange, which shows the order at once, later or never.
TakeOrder == venue' = Append(venue, VenueOrder(Call, "no", FALSE))
MaybeTakeOrder == TakeOrder \/ UNCHANGED venue

\* The body of an answer (parse_order_result_body, extract_attempt_message): it names
\* the order, refuses it for the portfolio or the quantity, or says nothing of use.
Body == {"order", "portfolio_negative", "non_positive", "other"}

\* An endpoint that fails is no longer preferred.
Forget(w) ==
  /\ preferred' = IF preferred = w THEN 0 ELSE preferred
  /\ proven' = IF proven = w THEN 0 ELSE proven

\* reduced_sell_retry_amount and the amount the refusal suggests.
Smaller(a) == IF a > 1 THEN 1..(a - 1) ELSE {}

\* Mutant: a server error is a refusal like any other.
RefusalAny(status, body) ==
  CASE Selling /\ body = "portfolio_negative" -> "less"
    [] body = "non_positive" -> "stop"
    [] OTHER -> "next"

\* attempt_order_submission, of an answer that is no success.
Refusal(status, body) ==
  IF Selling /\ body = "portfolio_negative" THEN "less"
  ELSE IF body = "non_positive" THEN "stop"
  ELSE IF status = "server" THEN "ambiguous" ELSE "next"

\* No answer: the error ends the call.
Unanswered ==
  /\ placing.pc = "submit" /\ ~NeedsBaseline
  /\ MaybeTakeOrder /\ EndPlacing("failed")
  /\ UNCHANGED <<preferred, proven, baseline>>

\* A refusal that names its reason, or a client error, was not taken.
RefusedBy(status, body) ==
  LET w == Head(placing.ways)
      what == Refusal(status, body)
  IN  /\ placing.pc = "submit" /\ ~NeedsBaseline
      /\ Forget(w)
      /\ IF status = "server" /\ body = "other" THEN MaybeTakeOrder ELSE UNCHANGED venue
      /\ \/ /\ what = "next" /\ Len(placing.ways) > 1
            /\ placing' = [placing EXCEPT !.ways = Tail(@)] /\ UNCHANGED reports
         \/ /\ what = "less" /\ placing.tries > 0
            /\ \E a \in Smaller(placing.amount) :
                 placing' = [placing EXCEPT !.amount = a, !.tries = @ - 1,
                                            !.ways = placing.all]
            /\ UNCHANGED reports
         \/ /\ \/ what \in {"stop", "ambiguous"}
               \/ what = "next" /\ Len(placing.ways) = 1
               \/ what = "less" /\ (placing.tries = 0 \/ Smaller(placing.amount) = {})
            /\ EndPlacing("failed")
      /\ UNCHANGED baseline

\* The answer names the order.
Acknowledged ==
  /\ placing.pc = "submit" /\ ~NeedsBaseline
  /\ TakeOrder /\ preferred' = Head(placing.ways) /\ proven' = Head(placing.ways)
  /\ EndPlacing("accepted") /\ UNCHANGED baseline

\* It does not: with a baseline its traces are looked for, else it is ambiguous.
Unacknowledged ==
  /\ placing.pc = "submit" /\ ~NeedsBaseline
  /\ MaybeTakeOrder
  /\ IF baseline.taken THEN placing' = [placing EXCEPT !.pc = "watch"] /\ UNCHANGED reports
     ELSE EndPlacing("failed")
  /\ UNCHANGED <<preferred, proven, baseline>>

\* wait_for_order_side_effects: a poll that finds a new order or trade, or none to the end.
SideEffect(i) ==
  /\ placing.pc = "watch"
  /\ (i \in Open /\ NewOpen(i)) \/ (i \in Traded /\ NewTrade(i))
  /\ preferred' = Head(placing.ways) /\ proven' = 0
  /\ EndPlacing("accepted") /\ UNCHANGED <<baseline, venue>>

NoSideEffect ==
  /\ placing.pc = "watch" /\ EndPlacing("failed")
  /\ UNCHANGED <<preferred, proven, baseline, venue>>

\* The exchange shows an order it took, and fills an open one; others trade too.
VenueShows(i, seen, named) ==
  /\ \/ venue[i].seen = "no" \/ (venue[i].seen = "open" /\ seen = "trade")
  /\ venue' = [venue EXCEPT ![i] = VenueOrder(@.own, seen, named)]
  /\ UNCHANGED <<preferred, proven, placing, baseline, reports>>

RivalOrders ==
  /\ Cardinality({i \in DOMAIN venue : venue[i].own = 0}) < Rivals
  /\ venue' = Append(venue, VenueOrder(0, "no", FALSE))
  /\ UNCHANGED <<preferred, proven, placing, baseline, reports>>

OrderInit ==
  /\ preferred = 0 /\ proven = 0 /\ placing = NoCall /\ baseline = NoBaseline
  /\ venue = <<>> /\ reports = <<>>

OrderNext ==
  \/ BeginPlacing \/ BaselineFirst \/ Unanswered \/ Acknowledged \/ Unacknowledged \/ NoSideEffect
  \/ RivalOrders
  \/ \E a, b \in BOOLEAN : CaptureBaseline(a, b)
  \/ \E status \in {"client", "server"}, body \in Body \ {"order"} : RefusedBy(status, body)
  \/ \E i \in DOMAIN venue : SideEffect(i)
  \/ \E i \in DOMAIN venue, seen \in {"open", "trade"}, named \in BOOLEAN : VenueShows(i, seen, named)

OrderSpec == OrderInit /\ [][OrderNext]_orderVars

Own(c) == {i \in DOMAIN venue : venue[i].own = c}

(* However many endpoints and amounts a call of place_order tries, the exchange
   takes at most one order of it, and the endpoint used without a baseline is
   the preferred one. *)
OneOrderPerCall ==
  /\ \A c \in 1..Call : Cardinality(Own(c)) <= 1
  /\ proven \in {0, preferred}
=============================================================================
