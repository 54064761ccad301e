--------------------------- MODULE EdgeCalibration ---------------------------
(***************************************************************************)
(* What the trading loop learns from the market after the fact: the        *)
(* multi-horizon calibration of the quantitative edge                      *)
(* (trading/quantitative/calibration.rs) and the fixed-horizon markouts of *)
(* filled orders (trading/outcomes.rs).  One evaluation resolves what is   *)
(* due, gates the signal on what has been resolved, and records the raw    *)
(* intent for every horizon that is free again: a moment later, since the  *)
(* loop awaits the exchange's feedback in between.  A market is a symbol   *)
(* on its exchange, and each has its own quotes.                           *)
(*                                                                         *)
(* Time is a clock; a return is 1 or -1, a gain or a loss after costs, so  *)
(* that an edge is supported when gains outnumber losses.                  *)
(***************************************************************************)
EXTENDS Integers, Sequences, FiniteSets

CONSTANTS
  Markets,
  Horizons,        \* horizons_seconds, in evaluations
  Grace,           \* expiry_grace_seconds
  EdgeLedger,      \* ledger_size
  MinEdgeSamples,  \* minimum_samples
  MarkoutHorizon, MarkoutLedger,
  LastTick         \* bound on the clock

ASSUME EdgeAssumption == Horizons \subseteq Nat \ {0}

VARIABLES
  tick,
  forecasts,    \* pending observations [h, at, market, began, seen, gain]: made at the time at
                \* in the evaluation that began at began; seen and gain are 0 while pending
  labels,       \* resolved observations
  lastAt,       \* last_recorded_by_horizon
  markouts,     \* OutcomeLedger: [order, market, due, gain]; gain 0 while unresolved
  admitted      \* the horizon the last signal was admitted on, 0 for a hold

edgevars == <<tick, forecasts, labels, lastAt, markouts, admitted>>

Never == -1

EdgeInit ==
  /\ tick = 0 /\ forecasts = {} /\ labels = {}
  /\ lastAt = [h \in Horizons |-> Never]
  /\ markouts = <<>> /\ admitted = 0

\* An evaluation goes through the pending observations from front to back, where the horizons
\* of one signal stand in ascending order: a deque holds its observations in this order.
MadeBefore(x, y) ==
  \/ x.seen < y.seen
  \/ x.seen = y.seen /\ (x.at < y.at \/ (x.at = y.at /\ x.h < y.h))

\* pop_front while the deque is longer than the ledger.
Ledgered(S, n) == {x \in S : Cardinality({y \in S : MadeBefore(x, y)}) < n}

\* mutant: an observation is not due at its time, only after it
DueLate == {f \in forecasts : f.at + f.h < tick}

\* resolve_due: a due observation whose market is quoted becomes a label, one
\* without a quote waits until its grace is over.
DueForecasts == {f \in forecasts : f.at + f.h <= tick}

Seen(quoted) == {f \in DueForecasts : f.market \in quoted}

Labelled(quoted, gain) ==
  Ledgered(labels \cup {[f EXCEPT !.seen = tick, !.gain = gain[f.market]] : f \in Seen(quoted)}, EdgeLedger)

StillPending(quoted) ==
  {f \in forecasts : f \in DueForecasts => f.market \notin quoted /\ f.at + f.h + Grace > tick}

\* estimate: the labels of the market, or those of all markets if these are too few.
Comparable(h, market, known) ==
  LET own == {l \in known : l.h = h /\ l.market = market}
  IN  IF Cardinality(own) >= MinEdgeSamples THEN own ELSE {l \in known : l.h = h}

\* The edge that the comparable labels of a horizon support, 0 when they are too few.
EdgeOf(h, market, known) ==
  LET gains(g) == Cardinality({l \in Comparable(h, market, known) : l.gain = g})
  IN  IF gains(1) + gains(-1) < MinEdgeSamples THEN 0 ELSE gains(1) - gains(-1)

BestHorizon(market, known) ==
  LET good == {h \in Horizons: EdgeOf(h, market, known) > 0}
  IN IF good = {} THEN 0
     ELSE CHOOSE h \in good: \A k \in good: EdgeOf(k, market, known) <= EdgeOf(h, market, known)

\* Horizons whose last observation, of whichever market, is at least one horizon old.
FreeHorizons(now) == {h \in Horizons: lastAt[h] = Never \/ now - lastAt[h] >= h}

\* record_signal, before the gate: a hold must not censor its own evidence.
Fresh(market, now) ==
  {[h |-> h, at |-> now, market |-> market, began |-> tick, seen |-> 0, gain |-> 0] : h \in FreeHorizons(now)}

\* resolve_trade_markouts
Marked(quoted, gain) ==
  [i \in DOMAIN markouts |->
     IF markouts[i].gain = 0 /\ markouts[i].due <= tick /\ markouts[i].market \in quoted
     THEN [markouts[i] EXCEPT !.gain = gain[markouts[i].market]] ELSE markouts[i]]

\* OutcomeLedger.record: one observation per order.
Filled(s, order, market) ==
  IF \E i \in DOMAIN s: s[i].order = order THEN s
  ELSE Append(IF Len(s) < MarkoutLedger THEN s ELSE SubSeq(s, Len(s) - MarkoutLedger + 2, Len(s)),
              [order |-> order, market |-> market, due |-> tick + MarkoutHorizon, gain |-> 0])

\* The markets something is due in: a return matters of no other.
Settling ==
  {f.market : f \in DueForecasts}
    \cup {markouts[i].market : i \in {j \in DOMAIN markouts : markouts[j].gain = 0 /\ markouts[j].due <= tick}}

\* An evaluation without an intent to act.
EvaluateHold(quoted, gain) ==
  /\ labels' = Labelled(quoted, gain) /\ forecasts' = StillPending(quoted)
  /\ admitted' = 0 /\ markouts' = Marked(quoted, gain)
  /\ tick' = tick + 1 /\ UNCHANGED lastAt

\* An evaluation whose signal is for this market, recorded a delay after it began.
EvaluateSignal(market, quoted, gain, delay, fills) ==
  LET now == tick + delay
  IN  /\ market \in quoted
      /\ labels' = Labelled(quoted, gain)
      /\ forecasts' = Ledgered(StillPending(quoted) \cup Fresh(market, now), EdgeLedger)
      /\ lastAt' = [h \in Horizons |-> IF h \in FreeHorizons(now) THEN now ELSE lastAt[h]]
      /\ admitted' = BestHorizon(market, Labelled(quoted, gain))
      /\ markouts' = IF fills /\ admitted' # 0
                     THEN Filled(Marked(quoted, gain), tick, market) ELSE Marked(quoted, gain)
      /\ tick' = now + 1

EvaluateEdge ==
  /\ tick < LastTick
  /\ \E quoted \in SUBSET Markets, gain \in [Markets -> {1, -1}] :
       /\ \A m \in Markets : m \notin quoted \cap Settling => gain[m] = 1
       /\ \/ EvaluateHold(quoted, gain)
          \/ \E market \in Markets, delay \in {0, 1}, fills \in BOOLEAN :
               EvaluateSignal(market, quoted, gain, delay, fills)

EdgeNext == EvaluateEdge

\* Labels of one horizon are independent evidence.  What they forecast never overlaps, in
\* whichever markets, however quotes go missing and the ledgers wrap.  What they measured,
\* from the forecast to the quote that came late, never overlaps in one market either: an
\* observation begins with every older one of its market and horizon resolved, but for one
\* that fell due while its own evaluation ran (resolve_due, record_signal).
LabelsDontOverlap ==
  \A x, y \in forecasts \cup labels :
    x # y /\ x.h = y.h /\ x.at <= y.at =>
      /\ x.at + x.h <= y.at
      /\ x.market = y.market => x.at + x.h > y.began \/ (x.seen # 0 /\ x.seen <= y.began)
=============================================================================
