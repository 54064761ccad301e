----------------------------- MODULE OctobotApi ------------------------------
(***************************************************************************)
(* The calls to OctoBot's web interface (trading/octobot.rs) and what the  *)
(* adaptive schema and the issue registry learn from each: an endpoint     *)
(* that failed rests for a while, and a call that may be skipped then      *)
(* returns as if the endpoint had nothing.  On top of single calls stand   *)
(* the read of candle history, the read of the portfolio, the activation   *)
(* of a trading pair and the backtest's calls; a behaviour runs one kind,  *)
(* one after the other.                                                    *)
(***************************************************************************)
EXTENDS Integers, Sequences, FiniteSets

CONSTANTS
  Pair,              \* pairs of an exchange and a symbol
  StructuralSkip,    \* STRUCTURAL_SKIP_SECONDS, in minutes
  TransientSkip,     \* TRANSIENT_SKIP_SECONDS, RATE_LIMIT_SKIP_SECONDS
  RestartCool,       \* TRADING_PAIR_RESTART_COOLDOWN_SECONDS
  LastMinute,        \* bound: the clock stops here
  ApiJobs            \* bound: jobs begun

ASSUME ApiAssumption == Pair # {} /\ RestartCool \in Nat

VARIABLES
  caller,            \* the kind of job this behaviour runs
  minute,            \* the clock
  skipUntil,         \* AdaptiveEndpointSchema::skip_until
  issue,             \* the ApiIssue of an endpoint: none, mitigating or resolved
  job,               \* the job that runs
  octobot,           \* OctoBot: configured, watched and active pairs, a restart under way
  restartUntil,      \* trading_pair_restart_cooldown_until
  restartsAsked,     \* auxiliary: when a pair's restarts were asked since it was seen active
  jobs               \* for the bound

apiVars == <<caller, minute, skipUntil, issue, job, octobot, restartUntil, restartsAsked, jobs>>

Callers == {"history", "portfolio", "pair", "backtest", "logs"}
Endpoint == {"candles", "watched", "graph", "portfolio", "page", "value",
             "trading", "config", "setconfig", "watch", "restart",
             "start", "stop", "collect", "report", "files", "logs1", "logs2", "logs3"}

\* A reply: 200, 404, 429 or 5xx, 200 that does not parse, or none at all.
Reply == {"ok", "missing", "error", "garbled", "unreachable"}

\* skip_seconds_for_failure
SkipFor(o) == CASE o = "missing" -> StructuralSkip
                [] o \in {"error", "garbled"} -> TransientSkip
                [] OTHER -> 0

\* AdaptiveApiSchema::observe_success and observe_failure
Rest(e, o) ==
  skipUntil' = [skipUntil EXCEPT ![e] = IF o = "ok" THEN 0
                                        ELSE IF SkipFor(o) = 0 THEN @ ELSE minute + SkipFor(o)]
\* ApiIssueRegistry::observe_recovery
Recovered(i) == IF i = "mitigating" THEN "resolved" ELSE i

\* OctobotClient::observe_success and observe_failure
Observe(e, o) ==
  Rest(e, o) /\ issue' = [issue EXCEPT ![e] = IF o = "ok" THEN Recovered(@) ELSE "mitigating"]

\* should_skip
Skips(e) == skipUntil[e] > minute

\* What a caller is told; a reply that never came is not observed.
Told(o) == CASE o = "ok" -> "body" [] o \in {"missing", "skipped"} -> "none"
             [] o = "garbled" -> "parse" [] OTHER -> "err"
Heard(e, o) ==
  IF o \in {"unreachable", "skipped"} THEN UNCHANGED <<skipUntil, issue>> ELSE Observe(e, o)

\* request_optional_json
OptionalJson(e, adaptive) == IF adaptive /\ Skips(e) THEN {"skipped"} ELSE Reply

\* get_optional_text: any text will do.
OptionalText(e) == IF Skips(e) THEN {"skipped"} ELSE Reply \ {"garbled"}

\* post_json_with_status: without an answer the post may have been carried out.
PostJson == {"ok", "error", "unreachable"}

NoJob == [pc |-> "idle", missing |-> FALSE, heard |-> FALSE, total |-> FALSE, kind |-> "none",
          pair |-> CHOOSE p \in Pair : TRUE]
Go(pc) == job' = [job EXCEPT !.pc = pc]
Calm4 == UNCHANGED <<caller, minute, octobot, restartUntil, restartsAsked, jobs>>

BeginJob(pc, p) ==
  /\ job.pc \in {"idle", "done", "failed"} /\ jobs < ApiJobs /\ jobs' = jobs + 1
  /\ job' = [NoJob EXCEPT !.pc = pc, !.pair = p]
  /\ UNCHANGED <<caller, minute, skipUntil, issue, octobot, restartUntil, restartsAsked>>
-----------------------------------------------------------------------------
(***************************************************************************)
(* get_market_snapshot_history                                             *)
(***************************************************************************)
\* parse_graph_history_snapshots: some closed candles, or none.
GraphHolds == BOOLEAN

\* Mutant: the history read honours the backoff like any other.
CandlesRest == TRUE
\* The bootstrap's read of native candles ignores the backoff.
CandlesBackoff == FALSE

HistoryCandles ==
  /\ job.pc = "candles" /\ Calm4
  /\ \E o \in OptionalJson("candles", CandlesBackoff) :
       /\ Heard("candles", o)
       /\ CASE Told(o) = "body" -> \E valid \in BOOLEAN : Go(IF valid THEN "done" ELSE "failed")
            [] Told(o) = "none" -> job' = [job EXCEPT !.pc = "context", !.missing = o = "missing"]
            [] OTHER -> Go("failed")

\* watched_symbol_context: the exchange's id is cached, or the symbol is asked for.
HistoryContext ==
  /\ job.pc = "context" /\ Calm4
  /\ \/ UNCHANGED <<skipUntil, issue>> /\ Go("graph")
     \/ \E o \in OptionalJson("watched", TRUE) :
          /\ Heard("watched", o)
          /\ IF Told(o) = "body" THEN \E named \in BOOLEAN : Go(IF named THEN "graph" ELSE "failed")
             ELSE Go("failed")

HistoryGraph ==
  /\ job.pc = "graph" /\ Calm4
  /\ \E o \in OptionalJson("graph", TRUE) :
       /\ Heard("graph", o)
       /\ \E some \in GraphHolds : Go(IF Told(o) = "body" /\ some THEN "done" ELSE "failed")
-----------------------------------------------------------------------------
(***************************************************************************)
(* get_portfolio: the JSON route, enriched from the page and the history,  *)
(* else the page, else the history alone.  total is total_value_usd,       *)
(* heard that balances were read.                                          *)
(***************************************************************************)
\* parse_portfolio_json, parse_portfolio_html: what is there.
JsonHolds == [balances: BOOLEAN, total: BOOLEAN]
PageHolds == {h \in JsonHolds : h.total => h.balances}

Read(pc, b, t, kind) ==
  job' = [job EXCEPT !.pc = pc, !.heard = @ \/ b, !.total = @ \/ t, !.kind = kind]

PortfolioApi ==
  /\ job.pc = "portfolio" /\ Calm4
  /\ \E o \in OptionalJson("portfolio", TRUE) :
       /\ Heard("portfolio", o)
       /\ CASE Told(o) = "body" -> \E h \in JsonHolds :
                               Read(IF h.total THEN "done" ELSE "enrich", h.balances, h.total, "json")
            [] Told(o) \in {"none", "parse"} -> Go("page")
            [] OTHER -> Go("failed")

\* enrich_portfolio_from_html
PortfolioEnrich ==
  /\ job.pc = "enrich" /\ Calm4
  /\ \E o \in OptionalText("page") :
       /\ Heard("page", o)
       /\ CASE Told(o) = "body" -> \E h \in JsonHolds :
                               Read(IF h.total THEN "done" ELSE "value", h.balances, h.total, "json")
            [] Told(o) = "none" -> Go("value")
            [] OTHER -> Go("failed")

\* enrich_portfolio_total_from_history; without balances and total the page is next.
PortfolioValue ==
  /\ job.pc = "value" /\ Calm4
  /\ \E o \in OptionalJson("value", TRUE) :
       /\ Heard("value", o)
       /\ CASE Told(o) \in {"parse", "err"} -> Go("failed")
            [] OTHER -> \E t \in (IF Told(o) = "body" THEN BOOLEAN ELSE {FALSE}) :
                          Read(IF job.kind = "json" /\ ~(job.heard \/ t) THEN "page" ELSE "done",
                               FALSE, t, job.kind)

\* The page, and with nothing on it the empty portfolio.
PortfolioPage ==
  /\ job.pc = "page" /\ Calm4
  /\ \E o \in OptionalText("page") :
       /\ Heard("page", o)
       /\ CASE Told(o) = "body" -> \E h \in PageHolds :
                               Read(IF h.total THEN "done" ELSE "value", h.balances, h.total,
                                    IF h.balances THEN "html" ELSE "empty")
            [] Told(o) = "none" -> Read("value", FALSE, FALSE, "empty")
            [] OTHER -> Go("failed")
-----------------------------------------------------------------------------
(***************************************************************************)
(* ensure_trading_pair_active_for_order                                    *)
(***************************************************************************)
\* parse_trading_page_symbol_status_rows: the page has a row for every active pair.
OnPage(p) == p \in octobot.active
\* configured_currency_map_contains_symbol
InConfig(p) == p \in octobot.config

\* market_status_contains_pair; a pair seen active ends its cool-down.
PairStatus ==
  /\ job.pc = "trading" /\ UNCHANGED <<caller, minute, octobot, jobs>>
  /\ \E o \in OptionalText("trading") :
       /\ Heard("trading", o)
       /\ CASE Told(o) = "body" /\ OnPage(job.pair) ->
                 /\ Go("done")
                 /\ restartUntil' = [restartUntil EXCEPT ![job.pair] = 0]
                 /\ restartsAsked' = [restartsAsked EXCEPT ![job.pair] = <<>>]
            [] Told(o) \in {"body", "none"} /\ ~(Told(o) = "body" /\ OnPage(job.pair)) ->
                 Go("config") /\ UNCHANGED <<restartUntil, restartsAsked>>
            [] OTHER -> Go("failed") /\ UNCHANGED <<restartUntil, restartsAsked>>

\* ensure_symbol_in_config, its read: a skipped or missing route is an empty map.
PairConfig ==
  /\ job.pc = "config" /\ Calm4
  /\ \E o \in OptionalJson("config", TRUE) :
       /\ Heard("config", o)
       /\ CASE Told(o) = "body" -> Go(IF InConfig(job.pair) THEN "watch" ELSE "setconfig")
            [] Told(o) = "none" -> Go("setconfig")
            [] OTHER -> Go("failed")

\* Its post, and ensure_symbol_in_watchlist.
PairSet(pc, field, next) ==
  /\ job.pc = pc /\ UNCHANGED <<caller, minute, restartUntil, restartsAsked, jobs>>
  /\ \E o \in PostJson :
       /\ Heard(pc, o)
       /\ Go(IF o = "ok" THEN next ELSE "failed")
       /\ \E did \in (IF o = "ok" THEN {TRUE} ELSE {FALSE, o # "error"}) :
            octobot' = IF did THEN [octobot EXCEPT ![field] = @ \cup {job.pair}] ELSE octobot

PairSetConfig == PairSet("setconfig", "config", "watch")
PairWatch == PairSet("watch", "watch", "restart")

\* Mutant: the cool-down of the restart is not looked at.
NeverCooling(p) == FALSE
\* trading_pair_restart_on_cooldown
RestartCooling(p) == restartUntil[p] > minute

\* request_restart and record_trading_pair_restart_request, unless it is cooling down.
PairRestart ==
  /\ job.pc = "restart" /\ UNCHANGED <<caller, minute, jobs>>
  /\ IF RestartCooling(job.pair)
     THEN Go("done") /\ UNCHANGED <<skipUntil, issue, octobot, restartUntil, restartsAsked>>
     ELSE \E o \in PostJson :
            /\ Heard("restart", o)
            /\ Go(IF o = "ok" THEN "done" ELSE "failed")
            /\ \E did \in (IF o = "ok" THEN {TRUE} ELSE {FALSE, o # "error"}) :
                 octobot' = [octobot EXCEPT !.restarting = @ \/ did]
            /\ restartUntil' = IF o = "ok" THEN [restartUntil EXCEPT ![job.pair] = minute + RestartCool]
                               ELSE restartUntil
            /\ restartsAsked' = IF o = "ok" THEN [restartsAsked EXCEPT ![job.pair] = Append(@, minute)]
                                ELSE restartsAsked

\* OctoBot comes back with the configured pairs.
OctobotRestarts ==
  /\ octobot.restarting
  /\ octobot' = [octobot EXCEPT !.active = octobot.config, !.restarting = FALSE]
  /\ UNCHANGED <<caller, minute, skipUntil, issue, job, restartUntil, restartsAsked, jobs>>
-----------------------------------------------------------------------------
(***************************************************************************)
(* The backtest's calls.  They observe a missing answer too.               *)
(***************************************************************************)
\* start_backtest
BacktestStart == \E o \in {"ok", "error", "unreachable"} : job.pc = "start" /\ Observe("start", o)
                   /\ Go(IF o = "ok" THEN "report" ELSE "failed") /\ Calm4
\* stop_backtest
BacktestStop == \E o \in {"ok", "error", "unreachable"} : job.pc = "stop" /\ Observe("stop", o)
                  /\ Go(IF o = "ok" THEN "done" ELSE "failed") /\ Calm4
\* start_data_collector
CollectorStart == \E o \in {"ok", "error", "unreachable"} : job.pc = "collect" /\ Observe("collect", o)
                    /\ Go(IF o = "ok" THEN "files" ELSE "failed") /\ Calm4

\* collect_backtest_data_files, extract_backtest_data_files_from_text
FilesListed == BOOLEAN
\* list_backtest_data_files: a page of the collector, then the backtest's list;
\* one that answered is enough.
DataFiles == \E o \in {"ok", "error", "unreachable"}, listed \in FilesListed :
               /\ job.pc = "files" /\ Observe("files", o) /\ Calm4
               /\ Go(IF o = "ok" \/ listed THEN "start" ELSE "failed")

\* backtest_report_is_pending_response: an empty object, the error of a portfolio
\* that is not there yet, and a page.
ReportBody == {"report", "empty", "no_portfolio", "page", "garbled"}
Pending(o, body) == body \in {"empty", "no_portfolio"} \/ (o = "ok" /\ body = "page")

\* get_backtest_report
BacktestReport ==
  \E o \in {"ok", "error", "unreachable"}, body \in ReportBody :
    LET fine == o # "unreachable" /\ (Pending(o, body) \/ (o = "ok" /\ body = "report"))
    IN  /\ job.pc = "report" /\ Calm4
        /\ Observe("report", IF fine THEN "ok" ELSE IF o = "ok" THEN "garbled" ELSE o)
        /\ job' = [job EXCEPT !.pc = IF ~fine THEN "failed"
                                     ELSE IF Pending(o, body) THEN "report" ELSE "stop",
                              !.kind = IF fine THEN body ELSE "none"]
-----------------------------------------------------------------------------
\* parse_octobot_logs: entries, or none that can be read.
LogsHold == BOOLEAN
\* get_recent_logs: three routes in turn until one has entries; what went wrong on
\* an earlier one is told when none has.
LogsNext(pc) == CASE pc = "logs1" -> "logs2" [] pc = "logs2" -> "logs3"
                  [] OTHER -> "done"
RecentLogs ==
  /\ job.pc \in {"logs1", "logs2", "logs3"} /\ Calm4
  /\ \E o \in OptionalText(job.pc) :
       /\ Heard(job.pc, o)
       /\ LET wrong == job.kind = "wrong" \/ Told(o) = "err"
              next == LogsNext(job.pc)
          IN  \E some \in (IF Told(o) = "body" THEN LogsHold ELSE {FALSE}) :
                IF some THEN Go("done")
                ELSE job' = [job EXCEPT !.kind = IF wrong THEN "wrong" ELSE @,
                                        !.pc = IF next = "done" /\ wrong THEN "failed" ELSE next]

ApiTick ==
  /\ minute < LastMinute /\ minute' = minute + 1
  /\ UNCHANGED <<caller, skipUntil, issue, job, octobot, restartUntil, restartsAsked, jobs>>

ApiInit ==
  /\ caller \in Callers /\ minute = 1
  /\ skipUntil = [e \in Endpoint |-> 0] /\ issue = [e \in Endpoint |-> "none"]
  /\ job = NoJob
  /\ octobot = [config |-> {}, watch |-> {}, active |-> {}, restarting |-> FALSE]
  /\ restartUntil = [p \in Pair |-> 0] /\ restartsAsked = [p \in Pair |-> <<>>] /\ jobs = 0

ApiNext ==
  \/ caller = "history" /\ BeginJob("candles", NoJob.pair)
  \/ caller = "portfolio" /\ BeginJob("portfolio", NoJob.pair)
  \/ \E p \in Pair : caller = "pair" /\ BeginJob("trading", p)
  \/ caller = "backtest" /\ BeginJob("collect", NoJob.pair)
  \/ caller = "logs" /\ BeginJob("logs1", NoJob.pair)
  \/ HistoryCandles \/ HistoryContext \/ HistoryGraph
  \/ PortfolioApi \/ PortfolioEnrich \/ PortfolioValue \/ PortfolioPage
  \/ PairStatus \/ PairConfig \/ PairSetConfig \/ PairWatch \/ PairRestart \/ OctobotRestarts
  \/ BacktestStart \/ BacktestStop \/ CollectorStart \/ DataFiles \/ BacktestReport \/ RecentLogs
  \/ ApiTick

ApiSpec == ApiInit /\ [][ApiNext]_apiVars

(* FallbackIsHonest: the bootstrap's history falls back to the dashboard only when the native
   route is really missing: a remembered failure never looks like a missing
   route.  Balances that were read are not answered with an empty portfolio. *)
FallbackIsHonest ==
  /\ job.pc \in {"context", "graph"} => job.missing
  /\ job.pc = "done" /\ job.heard => job.kind # "empty"

(* OctoBot is not restarted for a pair again within the cool-down, unless the
   pair was seen active meanwhile, and when it is, the pair is in the
   configuration and on the watch list: the restart applies it. *)
RestartsAreSpaced ==
  \A p \in Pair :
    /\ \A i \in 1..(Len(restartsAsked[p]) - 1) :
         restartsAsked[p][i + 1] - restartsAsked[p][i] >= RestartCool
    /\ restartUntil[p] > minute => p \in octobot.config \cap octobot.watch
=============================================================================
