---------------------------- MODULE NativeReplay ----------------------------
(***************************************************************************)
(* The native walk-forward replay of a quantitative policy                 *)
(* (trading/quantitative/backtest.rs).  The replay goes through the frames *)
(* once: positions that are due are closed at a quoted price, then the     *)
(* policy may open one.  The walk-forward folds are cut from the finished  *)
(* tape: a training window, an embargo and a validation window.            *)
(***************************************************************************)
EXTENDS Integers, Sequences, FiniteSets

CONSTANTS
  Training, Embargo, Validation,   \* frames of a fold
  Holding,                         \* holding_horizon, in frames
  Symbols,
  LastFrame                        \* bound on the frames of a tape

ASSUME ReplayAssumption ==
  {Training, Embargo, Holding} \subseteq Nat /\ Validation \in Nat \ {0}

VARIABLES
  frame,       \* frames replayed so far
  positions,   \* open: [symbol, entered]
  trades       \* closed: [symbol, entered, exited]

replayvars == <<frame, positions, trades>>

ReplayInit == frame = 0 /\ positions = {} /\ trades = {}

\* A due position waits for the next frame that quotes its symbol.
Due(quoted) == {p \in positions: p.entered + Holding <= frame + 1 /\ p.symbol \in quoted}

Closed(quoted) ==
  {[symbol |-> p.symbol, entered |-> p.entered, exited |-> frame + 1] : p \in Due(quoted)}

\* mutant: a symbol may have several open positions
OpenedAgain(quoted, signal) ==
  (positions \ Due(quoted)) \cup {[symbol |-> s, entered |-> frame + 1] : s \in quoted \cap {signal}}

\* One open position for a symbol.
Opened(quoted, signal) ==
  LET open == positions \ Due(quoted)
  IN IF signal \in quoted /\ \A p \in open: p.symbol # signal
     THEN open \cup {[symbol |-> signal, entered |-> frame + 1]} ELSE open

ReplayFrame ==
  /\ frame < LastFrame
  /\ \E quoted \in SUBSET Symbols, signal \in Symbols \cup {"hold"} :
       trades' = trades \cup Closed(quoted) /\ positions' = Opened(quoted, signal)
  /\ frame' = frame + 1

ReplayNext == ReplayFrame

(* ---------------------------------------------------------------------- *)
(* The folds of the tape as it stands                                     *)

Fold(last) ==
  [from |-> last - Validation - Embargo - Training + 1, to |-> last - Validation - Embargo,
   start |-> last - Validation + 1, end |-> last]

\* The validation windows follow one another.
Folds ==
  {Fold(last): last \in {n \in 1..frame:
      /\ n >= Training + Embargo + Validation
      /\ (n - (Training + Embargo + Validation)) % Validation = 0}}

\* statistics_between: a trade belongs to the window it was entered in.
Between(first, last) == {t \in trades: first <= t.entered /\ t.entered <= last}

\* The validation trades of all folds, from which the edge is estimated.
OutOfSample == UNION {Between(f.start, f.end): f \in Folds}

\* The positions of one symbol never overlap, open or closed. The embargo does not keep every
\* training trade from being closed at a price of the validation window: it is not tied to the
\* holding horizon, and a due position waits for a quote. At most one of a symbol does
\* (replay_candidate, walk_forward).
TradesStandAlone ==
  /\ \A t, u \in trades : t.symbol = u.symbol /\ t # u => t.exited <= u.entered \/ u.exited <= t.entered
  /\ \A t \in trades, p \in positions : t.symbol = p.symbol => t.exited <= p.entered
  /\ \A p, q \in positions : p.symbol = q.symbol => p = q
  /\ \A f \in Folds : \A t, u \in Between(f.from, f.to) :
       t.symbol = u.symbol /\ t.exited >= f.start /\ u.exited >= f.start => t = u

\* Out-of-sample evidence is independent: no trade is validated by two folds.
ValidatedOnce ==
  \A t \in OutOfSample: Cardinality({f \in Folds: t \in Between(f.start, f.end)}) = 1
=============================================================================
