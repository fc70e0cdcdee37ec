------------------------------- MODULE Vendors -------------------------------
(***************************************************************************)
(* The data tools of TradingAgents (dataflows/): the router that tries the *)
(* configured vendors in order, what each vendor's function does with what *)
(* its service says, and the day's price cache, which the tool calls of    *)
(* one message read and write at the same time.                            *)
(*                                                                         *)
(* What a vendor's data says is reduced to the newest day it knows of.     *)
(* There is one symbol, and its cache file is named after one day, Today.  *)
(***************************************************************************)
EXTENDS Integers, Sequences, SequencesExt

CONSTANTS
    Run, Config,   \* graphs of one process, and what their config may hold
    Call,          \* threads of a ToolNode: the tool calls of one message
    Today, Asked,  \* days count up to Today; trade dates of the runs
    MaxStaleDays,  \* MAX_OHLCV_STALE_DAYS
    LookBack,      \* look_back_days of an indicator
    TTL,           \* OHLCV_CACHE_TTL_SECONDS, in ticks
    MaxTime, MaxTurns, MaxStops, \* bounds: ticks of the day, messages of a process, deaths
    Apart,         \* bound: a call that shares nothing with others is alone in its message
    KeySets,       \* which API keys may be set
    None

Day == 0 .. Today
ASSUME VendorsAssumption ==
    /\ None \notin Int
    /\ Today \in Nat /\ Asked \subseteq Day
    /\ {MaxStaleDays, LookBack, TTL, MaxTime, MaxTurns, MaxStops} \subseteq Nat
    /\ Apart \in BOOLEAN

\* A configuration names, per category (data) and per tool, vendors in order.
Names(f) == f \in [DOMAIN f -> Seq(STRING)]
ASSUME ConfigAssumption ==
    /\ None \notin Config
    /\ \A cfg \in Config :
          cfg = [data |-> cfg.data, tool |-> cfg.tool] /\ Names(cfg.data) /\ Names(cfg.tool)

VARIABLES
    keys,     \* vendors whose API key is set
    settings, \* dataflows.config._config, one for the process
    config,   \* the configuration each run was built with
    turn,     \* the message whose tool calls run: its run, tools and trade date
    call,     \* the tool calls
    file,     \* the cache file of the day
    now, turns, stops

venvars == <<keys, settings, config, turn, call, file, now, turns, stops>>

-----------------------------------------------------------------------------
(* Configuration.                                                          *)

Tools == [market       |-> {"get_stock_data", "get_indicators", "get_verified_market_snapshot"},
          social       |-> {"get_news", "fetch_stocktwits_messages", "fetch_reddit_posts"},
          news         |-> {"get_news", "get_global_news", "get_insider_transactions",
                            "get_macro_indicators", "get_prediction_markets"},
          fundamentals |-> {"get_fundamentals", "get_balance_sheet", "get_cashflow",
                            "get_income_statement"}]
Statements == {"get_balance_sheet", "get_cashflow", "get_income_statement"}
\* Tools that call their source themselves instead of route_to_vendor.
Direct == [get_verified_market_snapshot |-> "yfinance",
           fetch_stocktwits_messages |-> "stocktwits", fetch_reddit_posts |-> "reddit"]

Category(m) ==
    CASE m = "get_stock_data" -> "core_stock_apis"
      [] m = "get_indicators" -> "technical_indicators"
      [] m \in Tools.fundamentals -> "fundamental_data"
      [] m = "get_macro_indicators" -> "macro_data"
      [] m = "get_prediction_markets" -> "prediction_markets"
      [] OTHER -> "news_data"
Optional == {"macro_data", "prediction_markets"}

Available(m) ==
    CASE Category(m) = "macro_data" -> <<"fred">>
      [] Category(m) = "prediction_markets" -> <<"polymarket">>
      [] m = "get_global_news" -> <<"yfinance", "alpha_vantage">>
      [] OTHER -> <<"alpha_vantage", "yfinance">>

\* default_config: every category has its vendor, no tool has one of its own.
Default ==
    [data |-> [k \in {"core_stock_apis", "technical_indicators", "fundamental_data",
                      "news_data", "macro_data", "prediction_markets"} |->
                 CASE k = "macro_data" -> <<"fred">>
                   [] k = "prediction_markets" -> <<"polymarket">>
                   [] OTHER -> <<"yfinance">>],
     tool |-> <<>>]

\* set_config: dictionaries are merged one level deep, so a name that the new
\* configuration leaves out keeps the value of an earlier one.
Over(new, old) == [k \in DOMAIN new \cup DOMAIN old |-> IF k \in DOMAIN new THEN new[k] ELSE old[k]]
Merged(s, c) == [data |-> Over(c.data, s.data), tool |-> Over(c.tool, s.tool)]

Named(s, m) == IF m \in DOMAIN s.tool THEN s.tool[m] ELSE s.data[Category(m)]
\* A list of vendors from the first one on that offers the tool.
Onward(vendors, m) ==
    LET offered == {i \in DOMAIN vendors :
                      m \in DOMAIN Direct \/ vendors[i] \in ToSet(Available(m))}
        first   == CHOOSE i \in offered : \A j \in offered : i <= j
    IN IF offered = {} THEN <<>> ELSE SubSeq(vendors, first, Len(vendors))
ChainWithOthers(s, m) ==
    IF m \in DOMAIN Direct THEN <<Direct[m]>>
    ELSE Onward(Named(s, m) \o Available(m), m)
\* The vendors named and no others; the word default, here no name, means all.
Chain(s, m) ==
    IF m \in DOMAIN Direct THEN <<Direct[m]>>
    ELSE IF Named(s, m) = <<>> THEN Available(m)
    ELSE Onward(Named(s, m), m)

-----------------------------------------------------------------------------
(* What the vendors' functions return or raise, for a trade date d.        *)

Says(kind) == [is |-> kind, upTo |-> None]
Data(days) == {[is |-> "data", upTo |-> n] : n \in days}
Text == Says("text")     \* a failure or an empty result, put into words

\* in_window: what has no date is kept only when the window reaches the present.
Undated == -1
InWindow(published, d) == IF published = Undated THEN d = Today ELSE published <= d
WrittenBy(d) ==
    {IF p = Undated THEN Today ELSE p : p \in {q \in Day \cup {Undated} : InWindow(q, d)}}

\* yfinance.  Prices raise; the other functions turn every failure but missing
\* data into words.  Statements are cut by fiscal period, whenever they were filed.
StockFromYahoo(d) ==
    Data({n \in Day : d - MaxStaleDays <= n /\ n <= d})
    \cup {Says("no_data"), Says("down"), Says("bad_argument")}
FundamentalsFromYahoo == Data({Today}) \cup {Says("no_data"), Text}
StatementFromYahoo == Data(Day) \cup {Says("no_data"), Text}
InsidersFromYahoo == Data({Today}) \cup {Text}
NewsFromYahoo(d) == Data(WrittenBy(d)) \cup {Text}
GlobalNewsFromYahoo(d) == Data(WrittenBy(d)) \cup {Text}

\* _make_api_request: a notice is a spent quota or a bad key; every other body,
\* an error message too, is passed on.
Requested(results) ==
    IF "alpha_vantage" \notin keys THEN {Says("not_configured")}
    ELSE results \cup {Says("rate_limited"), Says("not_configured"), Says("down"), Text}
\* The filter passes everything on when it fails, as for an end_date that is no
\* date: get_stock reads only the start_date itself.
FilteredByDate(d) == Data(0 .. d \cup {Today})
StockFromAlphaVantage(d) == Requested(FilteredByDate(d)) \cup {Says("bad_argument")}
FundamentalsFromAlphaVantage == Requested(Data({Today}))
StatementFromAlphaVantage == Requested(Data(Day))
\* time_to is midnight at the beginning of the day.
NewsFromAlphaVantage(d) == Requested(Data(0 .. d - 1)) \cup {Says("bad_argument")}
InsidersFromAlphaVantage == Requested(Data({Today}))
\* Only a missing key and an unknown indicator are raised: a spent quota is put
\* into words, and so is the one indicator that it does not have.
IndicatorFromAlphaVantage(d) ==
    {IF o.is \in {"rate_limited", "down"} THEN Text ELSE o : o \in Requested(Data(0 .. d))}
    \cup {Says("bad_argument"), Text}

\* FRED is asked for what was known on the day.
Fred(d) ==
    IF "fred" \notin keys THEN {Says("not_configured"), Text}
    ELSE Data(0 .. d) \cup {Says("down"), Says("bad_argument"), Text}
\* Probabilities are those of now; a failed request is put into words, a body of
\* another shape is not.
Polymarket == Data({Today}) \cup {Says("down"), Text}
StockTwits(d) == Data(WrittenBy(d)) \cup {Text}
Reddit(d) == Data(WrittenBy(d)) \cup {Text}

Results(v, m, d) ==
    CASE v = "fred" -> Fred(d)
      [] v = "polymarket" -> Polymarket
      [] v = "stocktwits" -> StockTwits(d)
      [] v = "reddit" -> Reddit(d)
      [] v = "yfinance" /\ m = "get_stock_data" -> StockFromYahoo(d)
      [] v = "yfinance" /\ m = "get_fundamentals" -> FundamentalsFromYahoo
      [] v = "yfinance" /\ m \in Statements -> StatementFromYahoo
      [] v = "yfinance" /\ m = "get_insider_transactions" -> InsidersFromYahoo
      [] v = "yfinance" /\ m = "get_news" -> NewsFromYahoo(d)
      [] v = "yfinance" /\ m = "get_global_news" -> GlobalNewsFromYahoo(d)
      [] v = "alpha_vantage" /\ m = "get_stock_data" -> StockFromAlphaVantage(d)
      [] v = "alpha_vantage" /\ m = "get_indicators" -> IndicatorFromAlphaVantage(d)
      [] v = "alpha_vantage" /\ m = "get_fundamentals" -> FundamentalsFromAlphaVantage
      [] v = "alpha_vantage" /\ m \in Statements -> StatementFromAlphaVantage
      [] v = "alpha_vantage" /\ m = "get_insider_transactions" -> InsidersFromAlphaVantage
      [] OTHER -> NewsFromAlphaVantage(d)

-----------------------------------------------------------------------------
(* Tool calls.                                                             *)

Cached == {"get_indicators", "get_verified_market_snapshot"}
Free == [at |-> "free", tool |-> None, left |-> <<>>, tried |-> <<>>, day |-> None,
         had |-> None, seen |-> None, got |-> None]

VendorsInit ==
    /\ keys \in KeySets
    /\ settings = Default /\ config = [r \in Run |-> None]
    /\ turn = None /\ call = [c \in Call |-> Free]
    /\ file = None
    /\ now = 0 /\ turns = 0 /\ stops = 0

Resting == \A c \in Call : call[c].at \in {"free", "done"}

\* TradingAgentsGraph.__init__: its configuration goes over that of the process.
Build(r, cfg) ==
    /\ config[r] = None /\ Resting
    /\ config' = [config EXCEPT ![r] = cfg]
    /\ settings' = Merged(settings, cfg)
    /\ turn' = None /\ call' = [c \in Call |-> Free]
    /\ UNCHANGED <<keys, file, now, turns, stops>>

\* The model's next message with tool calls, all about one trade date.
Turn(r, node, d) ==
    /\ config[r] # None /\ Resting /\ turns < MaxTurns
    /\ turn' = [run |-> r, node |-> node, date |-> d]
    /\ call' = [c \in Call |-> Free] /\ turns' = turns + 1
    /\ UNCHANGED <<keys, settings, config, file, now, stops>>

\* Which day an answer was loaded for, how old the cached rows were, and whether
\* the file was written since they were read.
From(d, age, renewed) == [day |-> d, age |-> age, renewed |-> renewed]
AtOnce == From(turn.date, 0, FALSE)
\* What the caller gets when a call is over; by is the vendor, if one answered.
Got(is, by, reach, from) == [is |-> is, by |-> by, reach |-> reach, from |-> from]
\* How far data reaches, seen from the day it was loaded for.
Reach(o, d) ==
    CASE o.is # "data" -> None
      [] o.is = "data" /\ o.upTo > d -> "beyond"
      [] o.is = "data" /\ d - o.upTo > MaxStaleDays -> "short"
      [] OTHER -> "there"

\* get_indicators turns every ValueError into words; a missing key is one, too.
Raised(m, kind) ==
    IF m = "get_indicators" /\ kind \in {"not_configured", "bad_argument", "no_vendor"}
    THEN "told" ELSE "raised"
Failures(tried) == {i \in DOMAIN tried : tried[i].is \in {"not_configured", "down", "bad_argument"}}
FirstError(tried) == tried[CHOOSE i \in Failures(tried) : \A j \in Failures(tried) : i <= j].is
Heard(tried) == {tried[i].is : i \in DOMAIN tried}
VerdictByError(m, tried) ==
    IF m \in DOMAIN Direct THEN "raised"
    ELSE IF Failures(tried) # {} /\ Category(m) \in Optional THEN "unavailable"
    ELSE IF Failures(tried) # {} THEN Raised(m, FirstError(tried))
    ELSE IF "no_data" \in Heard(tried) THEN "no_data"
    ELSE "raised"
\* No vendor had an answer: no data outranks the first error, which an optional
\* category does not raise; a rate limit is not remembered.
Verdict(m, tried) ==
    IF m \in DOMAIN Direct THEN "raised"
    ELSE IF "no_data" \in Heard(tried) THEN "no_data"
    ELSE IF Failures(tried) = {} THEN "raised"
    ELSE IF Category(m) \in Optional THEN "unavailable"
    ELSE Raised(m, FirstError(tried))

\* A tool call of the message starts: the vendors it will try, in order.
Ask(c, m) ==
    /\ turn # None /\ call[c].at = "free" /\ m \in Tools[turn.node]
    /\ Apart => \A o \in Call : call[o].tool \in {None} \cup IF m \in Cached THEN Cached ELSE {}
    /\ LET chain == Chain(settings, m) IN
       call' = [call EXCEPT ![c] =
                  IF chain = <<>>
                  THEN [Free EXCEPT !.at = "done", !.tool = m,
                          !.got = Got(Raised(m, "no_vendor"), None, None, AtOnce)]
                  ELSE [Free EXCEPT !.at = "route", !.tool = m, !.left = chain]]
    /\ UNCHANGED <<keys, settings, config, turn, file, now, turns, stops>>

\* The call as the router leaves it once the vendor in turn has given o.
Handled(c, o, from) ==
    LET v     == Head(call[c].left)
        tried == Append(call[c].tried, [by |-> v, is |-> o.is])
        rest  == Onward(Tail(call[c].left), call[c].tool)
        over  == [call[c] EXCEPT !.tried = tried, !.seen = None, !.had = None, !.day = None]
    IN  IF o.is \in {"data", "text"}
        THEN [call EXCEPT ![c] =
                [over EXCEPT !.at = "done", !.got = Got(o.is, v, Reach(o, from.day), from)]]
        ELSE IF rest = <<>>
        THEN [call EXCEPT ![c] =
                [over EXCEPT !.at = "done", !.got = Got(Verdict(call[c].tool, tried), None, None, AtOnce)]]
        ELSE [call EXCEPT ![c] = [over EXCEPT !.at = "route", !.left = rest]]

FromCache(c) == call[c].tool \in Cached /\ Head(call[c].left) = "yfinance"

\* A vendor's function that keeps nothing: one request and its answer.
Serve(c) ==
    /\ call[c].at = "route" /\ ~FromCache(c)
    /\ \E o \in Results(Head(call[c].left), call[c].tool, turn.date) :
          call' = Handled(c, o, AtOnce)
    /\ UNCHANGED <<keys, settings, config, turn, file, now, turns, stops>>

-----------------------------------------------------------------------------
(* load_ohlcv.  The file is replaced in place, so whoever opens it while   *)
(* it is written, or after the writer died or met another one, gets some   *)
(* first part of the bars, none, or an error.                              *)

Torn == file.writers # {} \/ file.broken
Lower(x, y) == IF x <= y THEN x ELSE y
Higher(x, y) == IF x <= y THEN y ELSE x

\* get_stock_stats_indicators_window loads the bars of the trade date; when that
\* fails it loads those of each day, back to the first one.  had is what the newest
\* day gave that did not fail.
DayOf(c) == IF call[c].day = None THEN turn.date ELSE call[c].day
DayBefore(c, had) ==
    IF call[c].day > turn.date - LookBack
    THEN [call EXCEPT ![c] = [@ EXCEPT !.at = "route", !.day = call[c].day - 1,
                                        !.had = had, !.seen = None]]
    ELSE IF had = None THEN Handled(c, Text, AtOnce)
    ELSE Handled(c, had.o, had.from)
\* A failed day is an empty string; the snapshot raises.
Failed(c) ==
    IF call[c].tool # "get_indicators" THEN Handled(c, Says("down"), AtOnce)
    ELSE IF call[c].day = None
    THEN [call EXCEPT ![c] = [@ EXCEPT !.at = "route", !.day = turn.date, !.seen = None]]
    ELSE DayBefore(c, call[c].had)
\* A day without data ends the whole as no data.
Loaded(c, o, from) ==
    IF call[c].day = None \/ o.is # "data" THEN Handled(c, o, from)
    ELSE DayBefore(c, IF call[c].had = None THEN [o |-> o, from |-> from] ELSE call[c].had)

\* The rows up to the date: a newest bar without a close, and a frame that ends
\* long before the date, are no data.
Bars(frame, d) ==
    LET n == Lower(frame.upTo, d) IN
    IF (~frame.closed /\ n = frame.upTo) \/ d - n > MaxStaleDays
    THEN Says("no_data") ELSE [is |-> "data", upTo |-> n]

\* An unknown indicator is refused first; then exists and read_csv.
OpenCache(c) ==
    /\ call[c].at = "route" /\ FromCache(c)
    /\ \/ /\ call[c].tool = "get_indicators" /\ call[c].day = None
          /\ call' = Handled(c, Says("bad_argument"), AtOnce)
       \/ file = None /\ call' = [call EXCEPT ![c].at = "fetch"]
       \/ /\ file # None /\ ~Torn
          /\ call' = [call EXCEPT ![c].at = "age",
                        ![c].seen = [upTo |-> file.upTo, closed |-> file.closed,
                                     at |-> file.at]]
       \/ /\ file # None /\ Torn
          /\ \/ \E n \in 0 .. file.upTo, closed \in BOOLEAN :
                   call' = [call EXCEPT ![c].at = "age",
                              ![c].seen = [upTo |-> n, closed |-> closed,
                                           at |-> file.at]]
             \/ call' = [call EXCEPT ![c].at = "fetch"]
             \/ call' = Failed(c)
    /\ UNCHANGED <<keys, settings, config, turn, file, now, turns, stops>>

NeverRefreshed(d) == FALSE
\* _needs_same_day_refresh looks at the file's time now, not at the time of the
\* rows that were read; bars of an earlier day are taken whatever their age.
NeedsRefresh(d) == d = Today /\ now - file.at > TTL
CheckAge(c) ==
    /\ call[c].at = "age"
    /\ call' = IF NeedsRefresh(DayOf(c))
               THEN [call EXCEPT ![c].at = "fetch", ![c].seen = None]
               ELSE Loaded(c, Bars(call[c].seen, DayOf(c)),
                           From(DayOf(c), now - call[c].seen.at, file.at # call[c].seen.at))
    /\ UNCHANGED <<keys, settings, config, turn, file, now, turns, stops>>

\* yf.download, and to_csv opens the file, which empties it.
Download(c) ==
    /\ call[c].at = "fetch"
    /\ \/ \E n \in Day, closed \in BOOLEAN :
            LET frame == [upTo |-> n, closed |-> closed]
                other == file # None /\ file.writers # {}
            IN /\ file' = [upTo    |-> IF other THEN Higher(n, file.upTo) ELSE n,
                           closed  |-> closed, at |-> now,
                           writers |-> IF other THEN file.writers \cup {c} ELSE {c},
                           broken  |-> other /\ (file.broken \/ frame #
                                         [upTo |-> file.upTo, closed |-> file.closed])]
               /\ call' = [call EXCEPT ![c].at = "write",
                             ![c].seen = [upTo |-> n, closed |-> closed, at |-> now]]
       \/ call' = Handled(c, Says("no_data"), AtOnce) /\ UNCHANGED file
       \/ call' = Failed(c) /\ UNCHANGED file
    /\ UNCHANGED <<keys, settings, config, turn, now, turns, stops>>

\* The file is complete; the call goes on with the rows it downloaded.
Written(c) ==
    /\ call[c].at = "write"
    /\ file' = [file EXCEPT !.writers = @ \ {c}, !.at = now]
    /\ call' = Loaded(c, Bars(call[c].seen, DayOf(c)), From(DayOf(c), 0, FALSE))
    /\ UNCHANGED <<keys, settings, config, turn, now, turns, stops>>

-----------------------------------------------------------------------------
Tick ==
    /\ now < MaxTime /\ now' = now + 1
    /\ UNCHANGED <<keys, settings, config, turn, call, file, turns, stops>>

\* The process dies and another one starts.
Stop ==
    /\ stops < MaxStops /\ stops' = stops + 1
    /\ settings' = Default /\ config' = [r \in Run |-> None]
    /\ turn' = None /\ call' = [c \in Call |-> Free] /\ turns' = 0
    /\ file' = IF file # None /\ file.writers # {}
               THEN [file EXCEPT !.writers = {}, !.broken = TRUE] ELSE file
    /\ UNCHANGED <<keys, now>>

VendorsNext ==
    \/ \E r \in Run, cfg \in Config : Build(r, cfg)
    \/ \E r \in Run, node \in DOMAIN Tools, d \in Asked : Turn(r, node, d)
    \/ \E c \in Call :
          \/ \E m \in UNION {Tools[node] : node \in DOMAIN Tools} : Ask(c, m)
          \/ Serve(c) \/ OpenCache(c) \/ CheckAge(c) \/ Download(c) \/ Written(c)
    \/ Tick \/ Stop
VendorsSpec == VendorsInit /\ [][VendorsNext]_venvars

-----------------------------------------------------------------------------
(* Properties.                                                             *)

Done == {c \in Call : call[c].at = "done"}

\* An agent is told that there is no data only when a vendor said so and none
\* had any; a call that aborts the run, or says that optional data could not be
\* had, met no vendor that answered, with data or with none.  An optional tool
\* aborts only when the configuration names no vendor that offers it.
VerdictIsJustified ==
    \A c \in Done : call[c].tool \notin DOMAIN Direct =>
       LET heard == Heard(call[c].tried)
           is    == call[c].got.is
       IN  /\ is = "no_data" => "no_data" \in heard /\ heard \cap {"data", "text"} = {}
           /\ is \in {"raised", "told", "unavailable"} =>
                heard \cap {"data", "text", "no_data"} = {}
           /\ is = "raised" /\ Category(call[c].tool) \in Optional => heard = {}

\* What a configuration allows to answer a tool; no name stands for every vendor.
Allows(s, m, v) ==
    \/ m \in DOMAIN s.tool /\ (s.tool[m] = <<>> \/ v \in ToSet(s.tool[m]))
    \/ Category(m) \in DOMAIN s.data /\ (s.data[Category(m)] = <<>> \/ v \in ToSet(s.data[Category(m)]))
\* Data comes from a vendor that the run's configuration or the default allows,
\* unless another graph of the process was built with one that allows it:
\* set_config merges, so settings of one run reach the next.
VendorsAreChosen ==
    \A c \in Done : call[c].got.by # None /\ call[c].tool \notin DOMAIN Direct =>
       \/ Allows(Merged(Default, config[turn.run]), call[c].tool, call[c].got.by)
       \/ \E r \in Run \ {turn.run} :
             config[r] # None /\ Allows(config[r], call[c].tool, call[c].got.by)

\* Bars never reach past the day they were loaded for, but where Alpha Vantage's
\* filter failed; Yahoo's do not end long before it, however torn the file was, and
\* for the current day they are no older than the time to live, unless a parallel
\* call has renewed the file in between.  That day is the trade date, but where an
\* indicator fell back to the days one by one: then the newest that did not fail.
BarsAreDue ==
    \A c \in Done :
       LET got == call[c].got
           m   == call[c].tool
       IN  m \in Cached \cup {"get_stock_data"} /\ got.is = "data" =>
             /\ got.reach = "beyond" => m = "get_stock_data" /\ got.by = "alpha_vantage"
             /\ got.by = "yfinance" => got.reach = "there"
             /\ m \in Cached /\ got.from.day = Today =>
                  got.from.age <= TTL \/ got.from.renewed
             /\ IF m = "get_indicators" /\ got.by = "yfinance"
                THEN got.from.day \in turn.date - LookBack .. turn.date
                ELSE got.from.day = turn.date

=============================================================================
