----------------------------- MODULE VenueScan -------------------------------
(***************************************************************************)
(* The scan of a venue's markets (trading/octobot.rs): discovery of what   *)
(* the exchange lists, the choice of symbols from a rolling cursor, the    *)
(* requests in parallel with retries and a circuit breaker per exchange,   *)
(* and what is remembered of every symbol.  One exchange; next to the scan *)
(* runs a read of the markets of held assets, which moves the breaker only.*)
(***************************************************************************)
EXTENDS Integers, Sequences, Functions, FiniteSetsExt

CONSTANTS
  Universe,          \* the symbols the exchange lists, in order (a sequence)
  Configured,        \* the pairs of OctoBot's configuration, in order
  StatusRows,        \* the rows of OctoBot's trading page, in order
  HeldMarkets,       \* the markets of portfolio balances
  ScanLimit,         \* limit, at most OCTOBOT_MARKET_SNAPSHOT_HARD_LIMIT
  ProbeLimit,        \* MARKET_SNAPSHOT_UNKNOWN_PROBE_LIMIT_PER_EXCHANGE
  Parallel,          \* MAX_PARALLEL_MARKET_SNAPSHOT_REQUESTS
  Attempts,          \* MARKET_SNAPSHOT_RETRY_ATTEMPTS
  BreakerThreshold,  \* EXCHANGE_BREAKER_FAILURE_THRESHOLD
  BreakerMax,        \* EXCHANGE_BREAKER_MAX_COOLDOWN_SECONDS; the base is 1
  CoolMax,           \* MARKET_SNAPSHOT_UNAVAILABLE_MAX_COOLDOWN_SECONDS; the base is 1
  BlackStrikes,      \* MARKET_SNAPSHOT_BLACKLIST_STRIKE_THRESHOLD
  BlackTime,         \* MARKET_SNAPSHOT_BLACKLIST_COOLDOWN_SECONDS
  LastHour,          \* bound: the clock stops here
  MaxOutages,        \* bound: failed requests
  ScanRestarts       \* bound: restarts of the process

VenueSymbol == Range(Universe) \cup Range(Configured) \cup Range(StatusRows) \cup HeldMarkets

\* Lists are sorted and without duplicates.
ASSUME VenueAssumption ==
  /\ \A seq \in {Universe, Configured, StatusRows} :
       /\ seq \in Seq(VenueSymbol)
       /\ \A i, j \in 1..Len(seq) : seq[i] = seq[j] => i = j
  /\ IsFiniteSet(HeldMarkets)
  /\ {ScanLimit, Parallel, Attempts, BreakerThreshold, BreakerMax, CoolMax, BlackTime} \subseteq Nat

VARIABLES
  hour,              \* the clock
  breaker,           \* exchange_circuit: consecutive_failures and opened_until
  strikes,           \* market_snapshot_unavailable_strikes
  coolUntil,         \* market_snapshot_unavailable_until
  blackUntil,        \* market_snapshot_blacklisted_until
  known,             \* market_snapshot_available_symbols
  cursor,            \* symbol_scan_offsets
  scan,              \* the scan that runs
  flights,           \* requests in flight: <<reader, symbol, attempt>>
  streak,            \* auxiliary: outages since the exchange last answered
  outages, scanStops \* for the bounds

scanVars == <<hour, breaker, strikes, coolUntil, blackUntil, known, cursor, scan,
              flights, streak, outages, scanStops>>

Calm == [fails |-> 0, until |-> 0]
NoScan == [on |-> FALSE, queue |-> <<>>, asked |-> 0, base |-> 0, span |-> 0]

\* exchange_circuit_open
BreakerOpen == breaker.until > hour

\* record_exchange_success
RecordSuccess == breaker' = Calm /\ streak' = 0

\* The cool-down after record_exchange_failure and after a strike.
Backoff(n, most) == Min({2 ^ n, most})

\* Mutant: the failure of a symbol counts against the exchange.
CountsAlways(o) == o # "ok"

\* is_market_snapshot_unavailable_error: a symbol without data is no outage.
CountsAsOutage(o) == o = "outage"

\* record_exchange_failure
RecordFailure(o) ==
  /\ breaker' =
       LET n == breaker.fails + 1
       IN  [fails |-> n,
            until |-> IF n >= BreakerThreshold
                      THEN hour + Backoff(n - BreakerThreshold, BreakerMax)
                      ELSE breaker.until]
  /\ streak' = IF o = "outage" THEN streak + 1 ELSE streak

\* market_snapshot_is_cooling_down, market_snapshot_is_blacklisted
Resting(s) == coolUntil[s] > hour \/ blackUntil[s] > hour

\* configured_symbols: the configuration, and the universe when it answers.
ConfiguredSymbols(universe) == IF universe THEN Universe ELSE Configured

\* What a sequence has at some positions, and what of it is in a set, in order.
Sublist(seq, ids) ==
  [n \in 1..Cardinality(ids) |-> seq[CHOOSE i \in ids : Cardinality({j \in ids : j <= i}) = n]]
Among(seq, S) == Sublist(seq, {i \in 1..Len(seq) : seq[i] \in S})

\* get_exchange_info: what the sources that answer add up to.  The universe is
\* the source of truth for the rows of the trading page, which come first.
StatusListed(page, universe) ==
  IF ~page THEN <<>> ELSE IF universe THEN Among(StatusRows, Range(Universe)) ELSE StatusRows
Listed(page, universe) ==
  StatusListed(page, universe)
    \o Among(ConfiguredSymbols(universe), VenueSymbol \ Range(StatusListed(page, universe)))

(***************************************************************************)
(* get_all_market_snapshots, up to the first requests.  Discovery itself   *)
(* closes the breaker (get_exchange_info); symbols at rest are left out;   *)
(* from the cursor on, every symbol on the trading page or known to answer *)
(* is taken, and of the others no more than ProbeLimit.                    *)
(***************************************************************************)
Eligible(seq) == Among(seq, {s \in VenueSymbol : ~Resting(s)})
Rotated(seq, k) == [i \in 1..Len(seq) |-> seq[((k + i - 1) % Len(seq)) + 1]]
Selected(seq, sure) ==
  LET taken(i) == seq[i] \in sure \/ Cardinality({j \in 1..i : seq[j] \notin sure}) <= ProbeLimit
  IN  Sublist(seq, {i \in 1..Len(seq) : taken(i)})

BeginScan(page, universe) ==
  /\ ~scan.on /\ RecordSuccess
  /\ LET eligible == Eligible(Listed(page, universe))
         span == Len(eligible)
         base == cursor % span
         selected == Selected(Rotated(eligible, base), known \cup Range(StatusListed(page, universe)))
         targets == SubSeq(selected, 1, Min({ScanLimit, Len(selected)}))
         first == Min({Parallel, Len(targets)})
     IN  IF span = 0 THEN UNCHANGED <<scan, flights>>
         ELSE /\ scan' = [on |-> TRUE, queue |-> SubSeq(targets, first + 1, Len(targets)),
                          asked |-> first, base |-> base, span |-> span]
              /\ flights' = flights \cup {<<"scan", targets[i], 0>> : i \in 1..first}
  /\ UNCHANGED <<hour, strikes, coolUntil, blackUntil, known, cursor, outages, scanStops>>

\* get_market_snapshots_for_targets asks for listed markets, or for all of them when
\* discovery fails or finds none.
BeginHeld(ok, page, universe) ==
  LET listed == Range(Listed(page, universe))
      targets == IF ok /\ listed # {} THEN HeldMarkets \cap listed ELSE HeldMarkets
  IN  /\ \A f \in flights : f[1] # "held"
      /\ IF ok THEN RecordSuccess ELSE UNCHANGED <<breaker, streak>>
      /\ flights' = flights \cup {<<"held", s, 0>> : s \in targets}
      /\ UNCHANGED <<hour, strikes, coolUntil, blackUntil, known, cursor, scan, outages, scanStops>>

\* The request after f that the scan starts: after a panic without retries or breaker.
Next1(f, first) ==
  IF f[1] = "scan" /\ scan.queue # <<>>
  THEN (flights \ {f}) \cup {<<"scan", Head(scan.queue), first>>}
  ELSE flights \ {f}
Raw == Attempts + 1

Taken(f) ==
  IF f[1] # "scan" THEN scan
  ELSE [scan EXCEPT !.queue = IF @ = <<>> THEN @ ELSE Tail(@),
                    !.asked = IF scan.queue = <<>> THEN @ ELSE @ + 1]

\* get_market_snapshot_with_resilience: an open breaker refuses the request.
StartRequest(f) ==
  /\ f \in flights /\ f[3] = 0
  /\ breaker' = IF BreakerOpen THEN breaker ELSE [breaker EXCEPT !.until = 0]
  /\ IF BreakerOpen THEN flights' = Next1(f, 0) /\ scan' = Taken(f)
     ELSE flights' = (flights \ {f}) \cup {<<f[1], f[2], 1>>} /\ UNCHANGED scan
  /\ UNCHANGED <<hour, strikes, coolUntil, blackUntil, known, cursor, streak, outages, scanStops>>

\* A snapshot: mark_market_snapshot_available, clear_market_snapshot_unavailable.
Answered(f) ==
  /\ f \in flights /\ f[3] > 0
  /\ IF f[3] = Raw THEN UNCHANGED <<breaker, streak>> ELSE RecordSuccess
  /\ IF f[1] = "scan"
     THEN /\ known' = known \cup {f[2]}
          /\ strikes' = [strikes EXCEPT ![f[2]] = 0]
          /\ coolUntil' = [coolUntil EXCEPT ![f[2]] = 0]
          /\ blackUntil' = [blackUntil EXCEPT ![f[2]] = 0]
     ELSE UNCHANGED <<known, strikes, coolUntil, blackUntil>>
  /\ flights' = Next1(f, 0) /\ scan' = Taken(f)
  /\ UNCHANGED <<hour, cursor, outages, scanStops>>

\* No data for the symbol: mark_market_snapshot_unavailable, without a retry.
NoData(f) ==
  /\ f \in flights /\ f[3] > 0
  /\ IF f[3] # Raw /\ CountsAsOutage("none") THEN RecordFailure("none")
     ELSE UNCHANGED <<breaker, streak>>
  /\ IF f[1] = "scan"
     THEN LET n == strikes[f[2]] + 1
          IN  /\ known' = known \ {f[2]}
              /\ strikes' = [strikes EXCEPT ![f[2]] = n]
              /\ coolUntil' = [coolUntil EXCEPT ![f[2]] = hour + Backoff(n - 1, CoolMax)]
              /\ blackUntil' = IF n >= BlackStrikes
                               THEN [blackUntil EXCEPT ![f[2]] = hour + BlackTime] ELSE blackUntil
     ELSE UNCHANGED <<known, strikes, coolUntil, blackUntil>>
  /\ flights' = Next1(f, 0) /\ scan' = Taken(f)
  /\ UNCHANGED <<hour, cursor, outages, scanStops>>

\* The exchange fails: a retry, whether or not the breaker has opened meanwhile.
Outage(f) ==
  /\ f \in flights /\ f[3] > 0 /\ outages < MaxOutages /\ outages' = outages + 1
  /\ IF f[3] = Raw THEN UNCHANGED <<breaker, streak>> ELSE RecordFailure("outage")
  /\ IF f[3] < Attempts
     THEN flights' = (flights \ {f}) \cup {<<f[1], f[2], f[3] + 1>>} /\ UNCHANGED scan
     ELSE flights' = Next1(f, 0) /\ scan' = Taken(f)
  /\ UNCHANGED <<hour, strikes, coolUntil, blackUntil, known, cursor, scanStops>>

\* The task panics: nothing is learned, and the next request goes out bare.
Panic(f) ==
  /\ f \in flights /\ f[3] > 0 /\ outages < MaxOutages /\ outages' = outages + 1
  /\ flights' = Next1(f, Raw) /\ scan' = Taken(f)
  /\ UNCHANGED <<hour, breaker, strikes, coolUntil, blackUntil, known, cursor, streak, scanStops>>

\* The end of the scan moves the cursor past the requests it made.
EndScan ==
  /\ scan.on /\ scan.queue = <<>> /\ \A f \in flights : f[1] # "scan"
  /\ cursor' = (scan.base + Min({scan.asked, scan.span})) % scan.span
  /\ scan' = NoScan
  /\ UNCHANGED <<hour, breaker, strikes, coolUntil, blackUntil, known, flights, streak, outages,
                 scanStops>>

ScanTick ==
  /\ hour < LastHour /\ hour' = hour + 1
  /\ UNCHANGED <<breaker, strikes, coolUntil, blackUntil, known, cursor, scan, flights, streak,
                 outages, scanStops>>

\* A new client: restore_exchange_circuit brings the breaker back, nothing else.
ScanRestart ==
  /\ scanStops < ScanRestarts /\ scanStops' = scanStops + 1
  /\ strikes' = [s \in VenueSymbol |-> 0] /\ coolUntil' = [s \in VenueSymbol |-> 0]
  /\ blackUntil' = [s \in VenueSymbol |-> 0] /\ known' = {} /\ cursor' = 0
  /\ scan' = NoScan /\ flights' = {}
  /\ UNCHANGED <<hour, breaker, streak, outages>>

ScanInit ==
  /\ hour = 1 /\ breaker = Calm /\ strikes = [s \in VenueSymbol |-> 0]
  /\ coolUntil = [s \in VenueSymbol |-> 0] /\ blackUntil = [s \in VenueSymbol |-> 0]
  /\ known = {} /\ cursor = 0 /\ scan = NoScan /\ flights = {} /\ streak = 0
  /\ outages = 0 /\ scanStops = 0

ScanNext ==
  \/ \E page, universe \in BOOLEAN : BeginScan(page, universe)
  \/ \E ok, page, universe \in BOOLEAN : BeginHeld(ok, page, universe)
  \/ EndScan \/ ScanTick \/ ScanRestart
  \/ \E f \in flights : StartRequest(f)
  \/ \E f \in flights : Answered(f)
  \/ \E f \in flights : NoData(f)
  \/ \E f \in flights : Outage(f)
  \/ \E f \in flights : Panic(f)

ScanSpec == ScanInit /\ [][ScanNext]_scanVars

Asking == {f[2] : f \in {g \in flights : g[1] = "scan"}} \cup Range(scan.queue)

(* The breaker of an exchange opens only after BreakerThreshold outages in a
   row: neither a bad symbol nor requests that race each other trip it.  A scan
   never asks for a symbol at rest nor has more than Parallel requests out, and a
   symbol known to answer has no strikes. *)
ScanIsLawful ==
  /\ breaker.until # 0 => streak >= BreakerThreshold
  /\ \A s \in Asking : ~Resting(s)
  /\ \A s \in known : strikes[s] = 0 /\ coolUntil[s] = 0
  /\ Cardinality({f \in flights : f[1] = "scan"}) <= Parallel
=============================================================================
