----------------------------- MODULE VendorsProofs -----------------------------
(***************************************************************************)
(* Proofs about the data tools of TradingAgents, for any configurations,   *)
(* keys, graphs of a process, parallel tool calls, days and deaths.        *)
(***************************************************************************)
EXTENDS Vendors, WellFoundedInduction, TLAPS

-----------------------------------------------------------------------------
(* The tables of tools and vendors.                                        *)

ToolNames == UNION {Tools[node] : node \in DOMAIN Tools}

\* The provers do not know that a literal is a string.
Vendor == STRING \cup {"yfinance", "alpha_vantage", "fred", "polymarket", "stocktwits", "reddit"}

LEMMA DirectTools ==
    /\ DOMAIN Direct = {"get_verified_market_snapshot", "fetch_stocktwits_messages", "fetch_reddit_posts"}
    /\ Direct["get_verified_market_snapshot"] = "yfinance"
    /\ Direct["fetch_stocktwits_messages"] = "stocktwits"
    /\ Direct["fetch_reddit_posts"] = "reddit"
BY DEF Direct

LEMMA Categories ==
    ASSUME NEW m
    PROVE  /\ Category(m) \in {"core_stock_apis", "technical_indicators", "fundamental_data",
                               "news_data", "macro_data", "prediction_markets"}
           /\ m = "get_stock_data" => Category(m) = "core_stock_apis"
           /\ m = "get_indicators" => Category(m) = "technical_indicators"
           /\ Category(m) = "macro_data" <=> m = "get_macro_indicators"
           /\ Category(m) = "prediction_markets" <=> m = "get_prediction_markets"
BY DEF Category, Tools

LEMMA Lists ==
    /\ <<"fred">> \in Seq(Vendor) /\ <<"polymarket">> \in Seq(Vendor) /\ <<"yfinance">> \in Seq(Vendor)
    /\ <<"yfinance", "alpha_vantage">> \in Seq(Vendor) /\ <<"alpha_vantage", "yfinance">> \in Seq(Vendor)
<1>1. <<"fred">> \in Seq(Vendor)
  BY DEF Vendor
<1>2. <<"polymarket">> \in Seq(Vendor)
  BY DEF Vendor
<1>3. <<"yfinance">> \in Seq(Vendor)
  BY DEF Vendor
<1>4. <<"yfinance", "alpha_vantage">> \in Seq(Vendor)
  BY DEF Vendor
<1>5. <<"alpha_vantage", "yfinance">> \in Seq(Vendor)
  BY DEF Vendor
<1> QED BY <1>1, <1>2, <1>3, <1>4, <1>5

LEMMA AvailableVendors ==
    ASSUME NEW m
    PROVE  /\ Available(m) \in Seq(Vendor) /\ Available(m) # <<>>
           /\ Category(m) = "macro_data" => ToSet(Available(m)) = {"fred"}
           /\ Category(m) = "prediction_markets" => ToSet(Available(m)) = {"polymarket"}
           /\ Category(m) \notin Optional => ToSet(Available(m)) \subseteq {"yfinance", "alpha_vantage"}
<1>1. CASE Category(m) = "macro_data"
  <2>1. Available(m) = <<"fred">>
    BY <1>1, Categories DEF Available
  <2> QED BY <1>1, <2>1, Lists DEF ToSet, Optional
<1>2. CASE Category(m) = "prediction_markets"
  <2>1. Available(m) = <<"polymarket">>
    BY <1>2, Categories DEF Available
  <2> QED BY <1>2, <2>1, Lists DEF ToSet, Optional
<1>3. CASE Category(m) \notin Optional
  <2>1. Available(m) = <<"yfinance", "alpha_vantage">> \/ Available(m) = <<"alpha_vantage", "yfinance">>
    BY <1>3 DEF Available, Optional
  <2>2. CASE Available(m) = <<"yfinance", "alpha_vantage">>
    BY <1>3, <2>2, Lists DEF ToSet, Optional
  <2>3. CASE Available(m) = <<"alpha_vantage", "yfinance">>
    BY <1>3, <2>3, Lists DEF ToSet, Optional
  <2> QED BY <2>1, <2>2, <2>3
<1> QED BY <1>1, <1>2, <1>3 DEF Optional

LEMMA DefaultNames ==
    /\ DOMAIN Default.tool = {}
    /\ \A m : Category(m) \in DOMAIN Default.data
    /\ Default.data \in [DOMAIN Default.data -> Seq(Vendor)]
    /\ Default = [data |-> Default.data, tool |-> Default.tool]
<1>1. \A k : (CASE k = "macro_data" -> <<"fred">>
                [] k = "prediction_markets" -> <<"polymarket">>
                [] OTHER -> <<"yfinance">>) \in Seq(Vendor)
  BY Lists
<1> QED BY <1>1, Categories DEF Default


-----------------------------------------------------------------------------
(* The vendors still to come.                                              *)

Offers(m, v) == m \in DOMAIN Direct \/ v \in ToSet(Available(m))

LEMMA FirstPosition ==
    ASSUME NEW S \in SUBSET Nat, S # {}
    PROVE  \E i \in S : \A j \in S : i <= j
<1> DEFINE R == OpToRel(<, Nat)
<1>1. \A j, i \in Nat : j < i => <<j, i>> \in R
  BY DEF OpToRel
<1>2. IsWellFoundedOn(R, Nat)
  BY NatLessThanWellFounded
<1> HIDE DEF R
<1>3. PICK i \in S : \A j \in S : ~(<<j, i>> \in R)
  BY <1>2, WFMin, Zenon
<1>4. \A j \in S : ~(j < i)
  BY <1>1, <1>3
<1> QED BY <1>4

LEMMA OnwardGives ==
    ASSUME NEW m, NEW vendors \in Seq(Vendor)
    PROVE  /\ Onward(vendors, m) \in Seq(Vendor)
           /\ ToSet(Onward(vendors, m)) \subseteq ToSet(vendors)
           /\ Onward(vendors, m) # <<>> => Offers(m, Head(Onward(vendors, m)))
<1> DEFINE offered == {i \in DOMAIN vendors : m \in DOMAIN Direct \/ vendors[i] \in ToSet(Available(m))}
           first == CHOOSE i \in offered : \A j \in offered : i <= j
<1>1. CASE offered = {}
  <2>1. Onward(vendors, m) = <<>>
    BY <1>1 DEF Onward
  <2> QED BY <2>1 DEF ToSet
<1>2. CASE offered # {}
  <2>1. offered \in SUBSET Nat
    OBVIOUS
  <2>2. \E i \in offered : \A j \in offered : i <= j
    <3> HIDE DEF offered
    <3> QED BY <1>2, <2>1, FirstPosition
  <2>3. first \in offered
    <3> HIDE DEF offered
    <3> QED BY <2>2
  <2>4. first \in 1 .. Len(vendors) /\ Offers(m, vendors[first])
    BY <2>3 DEF Offers
  <2> DEFINE rest == SubSeq(vendors, first, Len(vendors))
  <2>5. Onward(vendors, m) = rest
    BY <1>2 DEF Onward
  <2> HIDE DEF first, offered
  <2>6. /\ rest \in Seq(Vendor) /\ Len(rest) = Len(vendors) - first + 1
        /\ \A i \in 1 .. Len(rest) : rest[i] = vendors[first + i - 1]
    BY <2>4
  <2>7. Head(rest) = vendors[first]
    BY <2>4, <2>6
  <2>8. \A i \in 1 .. Len(rest) : first + i - 1 \in DOMAIN vendors
    BY <2>4, <2>6
  <2>9. ToSet(rest) \subseteq ToSet(vendors)
    <3> HIDE DEF rest
    <3> QED BY <2>6, <2>8 DEF ToSet
  <2> QED BY <2>4, <2>5, <2>6, <2>7, <2>9
<1> QED BY <1>1, <1>2


-----------------------------------------------------------------------------
(* What the vendors' functions give.                                       *)

Kind == {"data", "text", "no_data", "down", "bad_argument", "not_configured", "rate_limited"}
Errors == {"not_configured", "down", "bad_argument"}
BarTool == Cached \cup {"get_stock_data"}

\* The bars in o end on a day that can be served for d; Alpha Vantage's filter of
\* prices may fail.
Due(m, o, v, d) ==
    \/ m = "get_stock_data" /\ v = "alpha_vantage"
    \/ o.upTo \in Int /\ o.upTo <= d /\ (v = "yfinance" => d - o.upTo <= MaxStaleDays)

\* Every set of results is made of these.
LEMMA SaysAndData ==
    /\ \A kind : Says(kind).is = kind
    /\ Text.is = "text"
    /\ \A days : \A o \in Data(days) : o.is = "data" /\ o.upTo \in days
BY DEF Says, Text, Data

LEMMA RequestedGives ==
    ASSUME NEW results, NEW o \in Requested(results)
    PROVE  o \in results \/ o.is \in {"not_configured", "rate_limited", "down", "text"}
BY SaysAndData DEF Requested

LEMMA StocksAreDue ==
    ASSUME NEW d \in Day
    PROVE  /\ \A o \in StockFromYahoo(d) :
                o.is \in Kind /\ (o.is = "data" => Due("get_stock_data", o, "yfinance", d))
           /\ \A o \in StockFromAlphaVantage(d) :
                o.is \in Kind /\ (o.is = "data" => Due("get_stock_data", o, "alpha_vantage", d))
           /\ \A o \in IndicatorFromAlphaVantage(d) :
                o.is \in Kind /\ (o.is = "data" => Due("get_indicators", o, "alpha_vantage", d))
<1>1. d \in Int /\ Day \subseteq Int /\ MaxStaleDays \in Int
  BY VendorsAssumption DEF Day
<1>2. \A o \in Data({n \in Day : d - MaxStaleDays <= n /\ n <= d}) :
        o.is = "data" /\ Due("get_stock_data", o, "yfinance", d)
  <2>1. \A o \in Data({n \in Day : d - MaxStaleDays <= n /\ n <= d}) :
          o.is = "data" /\ o.upTo \in {n \in Day : d - MaxStaleDays <= n /\ n <= d}
    BY SaysAndData
  <2>2. \A n \in Int : d - MaxStaleDays <= n => d - n <= MaxStaleDays
    BY <1>1
  <2> QED BY <1>1, <2>1, <2>2 DEF Due
<1>3. \A o \in Data(0 .. d) : o.is = "data" /\ Due("get_indicators", o, "alpha_vantage", d)
  <2>1. \A o \in Data(0 .. d) : o.is = "data" /\ o.upTo \in 0 .. d
    BY SaysAndData
  <2> QED BY <1>1, <2>1 DEF Due
<1>4. \A o \in StockFromYahoo(d) : o.is \in Kind /\ (o.is = "data" => Due("get_stock_data", o, "yfinance", d))
  BY <1>2, SaysAndData DEF StockFromYahoo, Kind
<1>5. \A o \in Requested(Data(0 .. d)) :
        o.is \in Kind /\ (o.is = "data" => Due("get_indicators", o, "alpha_vantage", d))
  BY <1>3, RequestedGives DEF Kind
<1>6. \A o \in StockFromAlphaVantage(d) : o.is \in Kind /\ Due("get_stock_data", o, "alpha_vantage", d)
  BY RequestedGives, SaysAndData DEF StockFromAlphaVantage, FilteredByDate, Kind, Due
<1>7. \A o \in IndicatorFromAlphaVantage(d) :
        o.is \in Kind /\ (o.is = "data" => Due("get_indicators", o, "alpha_vantage", d))
  BY <1>5, SaysAndData DEF IndicatorFromAlphaVantage, Kind
<1> QED BY <1>4, <1>6, <1>7

LEMMA ResultsGive ==
    ASSUME NEW m, m \notin DOMAIN Direct, NEW v \in ToSet(Available(m)),
           NEW d \in Day, NEW o \in Results(v, m, d)
    PROVE  /\ o.is \in Kind
           /\ Category(m) \in Optional => o.is \in {"data", "text"} \cup Errors
           /\ m \in BarTool /\ o.is = "data" /\ ~(m \in Cached /\ v = "yfinance") => Due(m, o, v, d)
<1>1. CASE Category(m) = "macro_data"
  <2>1. v = "fred" /\ m = "get_macro_indicators"
    BY <1>1, AvailableVendors, Categories
  <2>2. o \in Fred(d) /\ m \notin BarTool
    BY <2>1 DEF Results, BarTool, Cached
  <2> QED BY <2>2, SaysAndData DEF Fred, Kind, Errors
<1>2. CASE Category(m) = "prediction_markets"
  <2>1. v = "polymarket" /\ m = "get_prediction_markets"
    BY <1>2, AvailableVendors, Categories
  <2>2. o \in Polymarket /\ m \notin BarTool
    BY <2>1 DEF Results, BarTool, Cached
  <2> QED BY <2>2, SaysAndData DEF Polymarket, Kind, Errors
<1>3. CASE Category(m) \notin Optional
  <2>1. v \in {"yfinance", "alpha_vantage"} /\ m # "get_verified_market_snapshot"
    BY <1>3, AvailableVendors, DirectTools
  <2>2. CASE m = "get_stock_data"
    <3>1. /\ v = "yfinance" => o \in StockFromYahoo(d)
          /\ v = "alpha_vantage" => o \in StockFromAlphaVantage(d)
      BY <2>2, Zenon DEF Results, Statements
    <3> QED BY <1>3, <2>1, <2>2, <3>1, StocksAreDue
  <2>3. CASE m = "get_indicators" /\ v = "alpha_vantage"
    <3>1. o \in IndicatorFromAlphaVantage(d)
      BY <2>3 DEF Results, Statements
    <3> QED BY <1>3, <2>3, <3>1, StocksAreDue
  <2>4. CASE m \notin {"get_stock_data", "get_indicators"} \/ (m = "get_indicators" /\ v = "yfinance")
    <3>1. \/ o \in FundamentalsFromYahoo \/ o \in StatementFromYahoo \/ o \in InsidersFromYahoo
          \/ o \in NewsFromYahoo(d) \/ o \in GlobalNewsFromYahoo(d)
          \/ o \in FundamentalsFromAlphaVantage \/ o \in StatementFromAlphaVantage
          \/ o \in InsidersFromAlphaVantage \/ o \in NewsFromAlphaVantage(d)
      BY <2>1, <2>4 DEF Results
    <3>2. o.is \in Kind
      BY <3>1, SaysAndData, RequestedGives DEF FundamentalsFromYahoo, StatementFromYahoo,
         InsidersFromYahoo, NewsFromYahoo, GlobalNewsFromYahoo, FundamentalsFromAlphaVantage,
         StatementFromAlphaVantage, InsidersFromAlphaVantage, NewsFromAlphaVantage, Kind
    <3> QED BY <1>3, <2>1, <2>4, <3>2 DEF BarTool, Cached
  <2> QED BY <2>1, <2>2, <2>3, <2>4
<1> QED BY <1>1, <1>2, <1>3 DEF Optional


-----------------------------------------------------------------------------
(* The invariant.                                                          *)

Going == {"route", "age", "fetch", "write"}
IsFile(f) ==
    /\ f = [upTo |-> f.upTo, closed |-> f.closed, at |-> f.at, writers |-> f.writers, broken |-> f.broken]
    /\ f.upTo \in Int /\ f.at \in Int
IsCall(r) ==
    r = [at |-> r.at, tool |-> r.tool, left |-> r.left, tried |-> r.tried, day |-> r.day,
         had |-> r.had, seen |-> r.seen, got |-> r.got]

\* The process's settings are the default with the configurations of its graphs
\* over it: every list is that of one of them or, where none has one, the default's.
Built(r) == config[r] # None
SettingsInv ==
    /\ config \in [Run -> Config \cup {None}]
    /\ settings = [data |-> settings.data, tool |-> settings.tool]
    /\ \A m : Named(settings, m) \in Seq(Vendor)
    /\ DOMAIN Default.data \subseteq DOMAIN settings.data
    /\ \A m \in DOMAIN settings.tool : \E r \in Run :
          Built(r) /\ m \in DOMAIN config[r].tool /\ settings.tool[m] = config[r].tool[m]
    /\ \A k \in DOMAIN settings.data :
          \/ \E r \in Run : Built(r) /\ k \in DOMAIN config[r].data /\ settings.data[k] = config[r].data[k]
          \/ /\ k \in DOMAIN Default.data /\ settings.data[k] = Default.data[k]
             /\ \A r \in Run : Built(r) => k \notin DOMAIN config[r].data

TurnKnown == turn.run \in Run /\ Built(turn.run) /\ turn.date \in Day

\* A vendor the settings name for a tool, or any where they name none.
Chosen(m, v) == m \in DOMAIN Direct \/ Named(settings, m) = <<>> \/ v \in ToSet(Named(settings, m))

\* A call on its way: the vendors to come are chosen ones, the next of them offers
\* the tool, and those tried had no answer.
OnItsWay(r) ==
    /\ r.tool \in ToolNames
    /\ r.left \in Seq(Vendor) /\ r.left # <<>> /\ Offers(r.tool, Head(r.left))
    /\ r.tool \in DOMAIN Direct => r.left = <<Direct[r.tool]>>
    /\ \A v \in ToSet(r.left) : Chosen(r.tool, v)
    /\ r.tried \in Seq([by : Vendor, is : Kind])
    /\ Heard(r.tried) \cap {"data", "text"} = {}
    /\ r.tool \notin DOMAIN Direct /\ Category(r.tool) \in Optional => Heard(r.tried) \subseteq Errors

\* A call that is over: the three properties.
Justified(r) == r.tool \notin DOMAIN Direct =>
    /\ r.got.is = "no_data" => "no_data" \in Heard(r.tried) /\ Heard(r.tried) \cap {"data", "text"} = {}
    /\ r.got.is \in {"raised", "told", "unavailable"} => Heard(r.tried) \cap {"data", "text", "no_data"} = {}
    /\ r.got.is = "raised" /\ Category(r.tool) \in Optional => Heard(r.tried) = {}
ByChosen(r) == r.got.by # None => Chosen(r.tool, r.got.by)
BarsDue(r) == r.tool \in BarTool /\ r.got.is = "data" =>
    /\ r.got.reach = "beyond" => r.tool = "get_stock_data" /\ r.got.by = "alpha_vantage"
    /\ r.got.by = "yfinance" => r.got.reach = "there"
    /\ r.tool \in Cached /\ r.got.from.day = Today => r.got.from.age <= TTL \/ r.got.from.renewed
    /\ IF r.tool = "get_indicators" /\ r.got.by = "yfinance"
       THEN r.got.from.day \in turn.date - LookBack .. turn.date
       ELSE r.got.from.day = turn.date

\* What the vendor in turn has given, o, is sound for the tool.
Sound(r, o, from) ==
    /\ o.is \in Kind
    /\ r.tool \notin DOMAIN Direct /\ Category(r.tool) \in Optional => o.is \in {"data", "text"} \cup Errors
    /\ r.tool \in BarTool /\ o.is = "data" =>
         /\ Due(r.tool, o, Head(r.left), from.day)
         /\ r.tool \in Cached /\ from.day = Today => from.age <= TTL \/ from.renewed
         /\ IF r.tool = "get_indicators" /\ Head(r.left) = "yfinance"
            THEN from.day \in turn.date - LookBack .. turn.date
            ELSE from.day = turn.date

\* A call that has fallen back to the days one by one.
ByDay(r) ==
    /\ r.tool = "get_indicators" /\ Head(r.left) = "yfinance"
    /\ r.day \in turn.date - LookBack .. turn.date
    /\ r.had # None => Sound(r, r.had.o, r.had.from)

CallInv(r) ==
    /\ IsCall(r) /\ r.at \in Going \cup {"free", "done"}
    /\ r.at # "free" => TurnKnown
    /\ r.at \in Going => OnItsWay(r)
    /\ r.at \in Going \ {"route"} => r.tool \in Cached /\ Head(r.left) = "yfinance"
    /\ r.at \in Going => IF r.day = None THEN r.had = None ELSE ByDay(r)
    /\ r.at \in {"age", "write"} => IsFile(file) /\ r.seen.upTo \in Int /\ r.seen.at \in Int
    /\ r.at = "done" => Justified(r) /\ ByChosen(r) /\ BarsDue(r)

VInv ==
    /\ now \in Int
    /\ file = None \/ IsFile(file)
    /\ SettingsInv
    /\ turn # None => TurnKnown
    /\ call = [c \in Call |-> call[c]] /\ \A c \in Call : CallInv(call[c])

-----------------------------------------------------------------------------
(* Configuration.                                                          *)

LEMMA FreeInv == CallInv(Free)
BY DEF CallInv, Free, IsCall, Going

LEMMA FreshCalls ==
    ASSUME call' = [c \in Call |-> Free]
    PROVE  call' = [c \in Call |-> call'[c]] /\ \A c \in Call : CallInv(call[c])'
BY DEF CallInv, Free, IsCall, Going

LEMMA DefaultSettings ==
    ASSUME settings = Default, config = [r \in Run |-> None]
    PROVE  SettingsInv
<1>1. \A m : Named(settings, m) \in Seq(Vendor)
  BY DefaultNames DEF Named
<1> QED BY <1>1, DefaultNames DEF SettingsInv, Built

LEMMA InitVInv == VendorsInit => VInv
<1> SUFFICES ASSUME VendorsInit PROVE VInv
  OBVIOUS
<1>1. SettingsInv
  BY DefaultSettings DEF VendorsInit
<1> QED BY <1>1, FreeInv DEF VendorsInit, VInv

\* A new graph: where its configuration says nothing, what was said before stays.
LEMMA MergedNames ==
    ASSUME SettingsInv, NEW r \in Run, ~Built(r), NEW cfg \in Config,
           config' = [config EXCEPT ![r] = cfg], settings' = Merged(settings, cfg)
    PROVE  SettingsInv'
<1>1. /\ cfg = [data |-> cfg.data, tool |-> cfg.tool] /\ cfg # None
      /\ \A k \in DOMAIN cfg.data : cfg.data[k] \in Seq(STRING)
      /\ \A k \in DOMAIN cfg.tool : cfg.tool[k] \in Seq(STRING)
  BY ConfigAssumption DEF Names
<1>2. Seq(STRING) \subseteq Seq(Vendor)
  BY DEF Vendor
<1>3. /\ config' \in [Run -> Config \cup {None}] /\ config'[r] = cfg
      /\ \A q \in Run : q # r => config'[q] = config[q]
  BY DEF SettingsInv
<1>4. /\ settings' = [data |-> settings'.data, tool |-> settings'.tool]
      /\ settings'.data = Over(cfg.data, settings.data) /\ settings'.tool = Over(cfg.tool, settings.tool)
  BY DEF Merged
<1>5. /\ settings'.data = [k \in DOMAIN cfg.data \cup DOMAIN settings.data |->
                             IF k \in DOMAIN cfg.data THEN cfg.data[k] ELSE settings.data[k]]
      /\ settings'.tool = [k \in DOMAIN cfg.tool \cup DOMAIN settings.tool |->
                             IF k \in DOMAIN cfg.tool THEN cfg.tool[k] ELSE settings.tool[k]]
  BY <1>4 DEF Over
<1>6. /\ DOMAIN settings'.data = DOMAIN cfg.data \cup DOMAIN settings.data
      /\ DOMAIN settings'.tool = DOMAIN cfg.tool \cup DOMAIN settings.tool
      /\ \A k \in DOMAIN cfg.data : settings'.data[k] = cfg.data[k]
      /\ \A k \in DOMAIN settings.data : k \notin DOMAIN cfg.data => settings'.data[k] = settings.data[k]
      /\ \A k \in DOMAIN cfg.tool : settings'.tool[k] = cfg.tool[k]
      /\ \A k \in DOMAIN settings.tool : k \notin DOMAIN cfg.tool => settings'.tool[k] = settings.tool[k]
  BY <1>5
<1>7. \A q \in Run : config'[q] # None <=> q = r \/ config[q] # None
  BY <1>1, <1>3 DEF Built
<1>8. DOMAIN Default.data \subseteq DOMAIN settings'.data
  BY <1>6 DEF SettingsInv
<1>9. ASSUME NEW m PROVE Named(settings, m)' \in Seq(Vendor)
  <2>1. Category(m) \in DOMAIN settings.data /\ Category(m) \in DOMAIN settings'.data
    BY <1>8, DefaultNames DEF SettingsInv
  <2>2. CASE m \in DOMAIN cfg.tool
    BY <1>1, <1>2, <1>6, <2>2 DEF Named
  <2>3. CASE m \notin DOMAIN cfg.tool /\ m \in DOMAIN settings.tool
    <3>1. Named(settings, m) = settings.tool[m]
      BY <2>3 DEF Named
    <3> QED BY <1>6, <2>3, <3>1 DEF Named, SettingsInv
  <2>4. CASE m \notin DOMAIN cfg.tool /\ m \notin DOMAIN settings.tool /\ Category(m) \in DOMAIN cfg.data
    BY <1>1, <1>2, <1>6, <2>4 DEF Named
  <2>5. CASE m \notin DOMAIN cfg.tool /\ m \notin DOMAIN settings.tool /\ Category(m) \notin DOMAIN cfg.data
    <3>1. Named(settings, m) = settings.data[Category(m)]
      BY <2>5 DEF Named
    <3> QED BY <1>6, <2>1, <2>5, <3>1 DEF Named, SettingsInv
  <2> QED BY <2>2, <2>3, <2>4, <2>5
<1>10. ASSUME NEW m \in DOMAIN settings'.tool
       PROVE  \E q \in Run : /\ config'[q] # None /\ m \in DOMAIN config'[q].tool
                             /\ settings'.tool[m] = config'[q].tool[m]
  <2>1. CASE m \in DOMAIN cfg.tool
    BY <1>3, <1>6, <1>7, <2>1
  <2>2. CASE m \notin DOMAIN cfg.tool
    <3>1. m \in DOMAIN settings.tool /\ settings'.tool[m] = settings.tool[m]
      BY <1>6, <2>2
    <3>2. PICK q \in Run : Built(q) /\ m \in DOMAIN config[q].tool /\ settings.tool[m] = config[q].tool[m]
      BY <3>1 DEF SettingsInv
    <3>3. q # r /\ config'[q] = config[q]
      BY <1>3, <3>2
    <3> QED BY <1>7, <3>1, <3>2, <3>3 DEF Built
  <2> QED BY <2>1, <2>2
<1>11. ASSUME NEW k \in DOMAIN settings'.data
       PROVE  \/ \E q \in Run : /\ config'[q] # None /\ k \in DOMAIN config'[q].data
                                /\ settings'.data[k] = config'[q].data[k]
              \/ /\ k \in DOMAIN Default.data /\ settings'.data[k] = Default.data[k]
                 /\ \A q \in Run : config'[q] # None => k \notin DOMAIN config'[q].data
  <2>1. CASE k \in DOMAIN cfg.data
    BY <1>3, <1>6, <1>7, <2>1
  <2>2. CASE k \notin DOMAIN cfg.data
    <3>1. k \in DOMAIN settings.data /\ settings'.data[k] = settings.data[k]
      BY <1>6, <2>2
    <3>2. CASE \E q \in Run : Built(q) /\ k \in DOMAIN config[q].data /\ settings.data[k] = config[q].data[k]
      <4>1. PICK q \in Run : Built(q) /\ k \in DOMAIN config[q].data /\ settings.data[k] = config[q].data[k]
        BY <3>2
      <4>2. q # r /\ config'[q] = config[q]
        BY <1>3, <4>1
      <4> QED BY <1>7, <3>1, <4>1, <4>2 DEF Built
    <3>3. CASE /\ k \in DOMAIN Default.data /\ settings.data[k] = Default.data[k]
               /\ \A q \in Run : Built(q) => k \notin DOMAIN config[q].data
      BY <1>3, <1>7, <2>2, <3>1, <3>3 DEF Built
    <3> QED BY <3>1, <3>2, <3>3 DEF SettingsInv
  <2> QED BY <2>1, <2>2
<1> QED BY <1>3, <1>4, <1>8, <1>9, <1>10, <1>11, Zenon DEF SettingsInv, Built

\* What the settings name is allowed by the run's own configuration over the
\* default, or by that of another graph of the process.
LEMMA ChosenIsAllowed ==
    ASSUME SettingsInv, TurnKnown, NEW m, m \notin DOMAIN Direct, NEW v, Chosen(m, v)
    PROVE  \/ Allows(Merged(Default, config[turn.run]), m, v)
           \/ \E r \in Run \ {turn.run} : config[r] # None /\ Allows(config[r], m, v)
<1> DEFINE own == config[turn.run]
           merged == Merged(Default, own)
<1>1. own \in Config
  BY DEF SettingsInv, TurnKnown, Built
<1>2. /\ merged.data = Over(own.data, Default.data) /\ merged.tool = Over(own.tool, Default.tool)
  BY DEF Merged
<1>3. /\ DOMAIN merged.data = DOMAIN own.data \cup DOMAIN Default.data
      /\ DOMAIN own.tool \subseteq DOMAIN merged.tool
      /\ \A k \in DOMAIN own.data : merged.data[k] = own.data[k]
      /\ \A k \in DOMAIN Default.data : k \notin DOMAIN own.data => merged.data[k] = Default.data[k]
      /\ \A k \in DOMAIN own.tool : merged.tool[k] = own.tool[k]
  BY <1>2 DEF Over
<1>4. Category(m) \in DOMAIN settings.data
  BY DefaultNames DEF SettingsInv
<1> HIDE DEF merged
<1>5. CASE m \in DOMAIN settings.tool
  <2>1. PICK r \in Run : Built(r) /\ m \in DOMAIN config[r].tool /\ settings.tool[m] = config[r].tool[m]
    BY <1>5 DEF SettingsInv
  <2>2. settings.tool[m] = <<>> \/ v \in ToSet(settings.tool[m])
    BY <1>5 DEF Chosen, Named
  <2>3. Allows(config[r], m, v)
    BY <2>1, <2>2 DEF Allows
  <2>4. r = turn.run => Allows(merged, m, v)
    BY <1>3, <2>1, <2>2 DEF Allows
  <2> QED BY <2>1, <2>3, <2>4 DEF Built, merged
<1>6. CASE m \notin DOMAIN settings.tool
  <2> DEFINE k == Category(m)
  <2>1. settings.data[k] = <<>> \/ v \in ToSet(settings.data[k])
    BY <1>6 DEF Chosen, Named
  <2> HIDE DEF k
  <2>2. CASE \E r \in Run : Built(r) /\ k \in DOMAIN config[r].data /\ settings.data[k] = config[r].data[k]
    <3>1. PICK r \in Run : Built(r) /\ k \in DOMAIN config[r].data /\ settings.data[k] = config[r].data[k]
      BY <2>2
    <3>2. Allows(config[r], m, v)
      BY <2>1, <3>1 DEF Allows, k
    <3>3. r = turn.run => Allows(merged, m, v)
      BY <1>3, <2>1, <3>1 DEF Allows, k
    <3> QED BY <3>1, <3>2, <3>3 DEF Built, merged
  <2>3. CASE /\ k \in DOMAIN Default.data /\ settings.data[k] = Default.data[k]
             /\ \A r \in Run : Built(r) => k \notin DOMAIN config[r].data
    <3>1. merged.data[k] = settings.data[k] /\ k \in DOMAIN merged.data
      BY <1>3, <2>3 DEF TurnKnown
    <3> QED BY <2>1, <3>1 DEF Allows, k, merged
  <2> QED BY <1>4, <2>2, <2>3 DEF SettingsInv, k
<1> QED BY <1>5, <1>6

-----------------------------------------------------------------------------
(* The tool calls.                                                         *)

LEMMA DirectVendor ==
    ASSUME NEW m \in DOMAIN Direct
    PROVE  <<Direct[m]>> \in Seq(Vendor)
<1>1. Direct[m] \in Vendor
  BY DirectTools DEF Vendor
<1> QED BY <1>1

\* The vendors a call starts with.
LEMMA ChainGives ==
    ASSUME SettingsInv, NEW m
    PROVE  /\ Chain(settings, m) \in Seq(Vendor)
           /\ Chain(settings, m) # <<>> => Offers(m, Head(Chain(settings, m)))
           /\ m \in DOMAIN Direct => Chain(settings, m) = <<Direct[m]>>
           /\ \A v \in ToSet(Chain(settings, m)) : Chosen(m, v)
<1>1. CASE m \in DOMAIN Direct
  BY <1>1, DirectVendor DEF Chain, Offers, Chosen
<1>2. CASE m \notin DOMAIN Direct /\ Named(settings, m) = <<>>
  <2>1. Chain(settings, m) = Available(m)
    BY <1>2 DEF Chain
  <2>2. Available(m) \in Seq(Vendor) /\ Available(m) # <<>>
    BY AvailableVendors
  <2>3. Head(Available(m)) \in ToSet(Available(m))
    BY <2>2 DEF ToSet
  <2> QED BY <1>2, <2>1, <2>2, <2>3 DEF Offers, Chosen
<1>3. CASE m \notin DOMAIN Direct /\ Named(settings, m) # <<>>
  <2>1. Chain(settings, m) = Onward(Named(settings, m), m)
    BY <1>3 DEF Chain
  <2>2. Named(settings, m) \in Seq(Vendor)
    BY DEF SettingsInv
  <2> QED BY <1>3, <2>1, <2>2, OnwardGives DEF Chosen
<1> QED BY <1>1, <1>2, <1>3

LEMMA OneMoreHeard ==
    ASSUME NEW tried \in Seq([by : Vendor, is : Kind]), NEW v \in Vendor, NEW kind \in Kind
    PROVE  /\ Append(tried, [by |-> v, is |-> kind]) \in Seq([by : Vendor, is : Kind])
           /\ Heard(Append(tried, [by |-> v, is |-> kind])) = Heard(tried) \cup {kind}
<1> DEFINE more == Append(tried, [by |-> v, is |-> kind])
<1>1. /\ more \in Seq([by : Vendor, is : Kind]) /\ Len(more) = Len(tried) + 1
      /\ \A i \in 1 .. Len(tried) : more[i] = tried[i]
      /\ more[Len(tried) + 1] = [by |-> v, is |-> kind]
  OBVIOUS
<1>2. DOMAIN more = 1 .. Len(tried) + 1 /\ DOMAIN tried = 1 .. Len(tried) /\ Len(tried) \in Nat
  BY <1>1
<1>3. DOMAIN more = DOMAIN tried \cup {Len(tried) + 1}
  BY <1>2
<1> HIDE DEF more
<1>4. \A i \in DOMAIN tried : more[i].is = tried[i].is
  BY <1>1, <1>2
<1>5. more[Len(tried) + 1].is = kind
  BY <1>1
<1>6. Heard(more) = Heard(tried) \cup {kind}
  BY <1>3, <1>4, <1>5 DEF Heard
<1> QED BY <1>1, <1>6 DEF more

\* What happens to one call does not disturb the others.
LEMMA CallKeeps ==
    ASSUME NEW d \in Call, CallInv(call[d]), call'[d] = call[d],
           UNCHANGED <<settings, config, turn>>, IsFile(file) => IsFile(file)'
    PROVE  CallInv(call[d])'
<1>1. TurnKnown => TurnKnown'
  BY DEF TurnKnown, Built
<1>2. OnItsWay(call[d]) => OnItsWay(call[d])'
  BY DEF OnItsWay, Chosen, Named, Offers
<1>3. ByChosen(call[d]) /\ BarsDue(call[d]) => ByChosen(call[d])' /\ BarsDue(call[d])'
  BY DEF ByChosen, BarsDue, Chosen, Named
<1>4. Justified(call[d]) => Justified(call[d])'
  BY DEF Justified
<1>5. ByDay(call[d]) => ByDay(call[d])'
  BY DEF ByDay, Sound
<1> QED BY <1>1, <1>2, <1>3, <1>4, <1>5 DEF CallInv, IsCall

LEMMA OneCall ==
    ASSUME VInv, NEW c \in Call, NEW q, call' = [call EXCEPT ![c] = q],
           UNCHANGED <<settings, config, turn>>, IsFile(file) => IsFile(file)'
    PROVE  /\ call' = [d \in Call |-> call'[d]] /\ call'[c] = q
           /\ \A d \in Call \ {c} : CallInv(call[d])'
<1>1. call = [d \in Call |-> call[d]] /\ \A d \in Call : CallInv(call[d])
  BY DEF VInv
<1>2. call'[c] = q /\ \A d \in Call \ {c} : call'[d] = call[d]
  BY <1>1
<1>3. call' = [d \in Call |-> call'[d]]
  BY <1>1
<1>4. ASSUME NEW d \in Call \ {c} PROVE CallInv(call[d])'
  <2>1. CallInv(call[d]) /\ call'[d] = call[d]
    BY <1>1, <1>2
  <2> QED BY <2>1, CallKeeps
<1> QED BY <1>2, <1>3, <1>4

\* No vendor had an answer: what is said to the caller is justified.
LEMMA VerdictJustified ==
    ASSUME NEW m, m \notin DOMAIN Direct, NEW tried, Heard(tried) \cap {"data", "text"} = {},
           Heard(tried) # {}, Category(m) \in Optional => Heard(tried) \subseteq Errors
    PROVE  LET is == Verdict(m, tried) IN
           /\ is \notin {"data", "text"}
           /\ is = "no_data" => "no_data" \in Heard(tried)
           /\ is \in {"raised", "told", "unavailable"} => Heard(tried) \cap {"data", "text", "no_data"} = {}
           /\ is = "raised" /\ Category(m) \in Optional => Heard(tried) = {}
<1>1. Failures(tried) = {} => Heard(tried) \cap Errors = {}
  BY DEF Failures, Heard, Errors
<1>2. CASE "no_data" \in Heard(tried)
  BY <1>2 DEF Verdict
<1>3. CASE "no_data" \notin Heard(tried)
  <2>1. Verdict(m, tried) \in {"raised", "told", "unavailable"}
    BY <1>3 DEF Verdict, Raised
  <2>2. Category(m) \in Optional => Verdict(m, tried) = "unavailable"
    BY <1>1, <1>3 DEF Verdict
  <2> QED BY <1>3, <2>1, <2>2
<1> QED BY <1>2, <1>3

LEMMA ReachIsDue ==
    ASSUME NEW o, o.is = "data", NEW m, NEW v, NEW d \in Int, Due(m, o, v, d)
    PROVE  /\ Reach(o, d) = "beyond" => m = "get_stock_data" /\ v = "alpha_vantage"
           /\ v = "yfinance" => Reach(o, d) = "there"
<1>1. CASE m = "get_stock_data" /\ v = "alpha_vantage"
  BY <1>1
<1>2. CASE o.upTo \in Int /\ o.upTo <= d /\ (v = "yfinance" => d - o.upTo <= MaxStaleDays)
  <2>1. MaxStaleDays \in Int
    BY VendorsAssumption
  <2>2. ~(o.upTo > d) /\ (v = "yfinance" => ~(d - o.upTo > MaxStaleDays))
    BY <1>2, <2>1
  <2> QED BY <2>2 DEF Reach
<1> QED BY <1>1, <1>2 DEF Due

LEMMA HandledKeeps ==
    ASSUME VInv, NEW c \in Call, call[c].at \in Going, NEW o, NEW from,
           Sound(call[c], o, from), call' = Handled(c, o, from),
           UNCHANGED <<settings, config, turn>>, IsFile(file) => IsFile(file)'
    PROVE  call' = [d \in Call |-> call'[d]] /\ \A d \in Call : CallInv(call[d])'
<1> DEFINE r == call[c]
           v == Head(r.left)
           tried == Append(r.tried, [by |-> v, is |-> o.is])
           rest == Onward(Tail(r.left), r.tool)
           over == [r EXCEPT !.tried = tried, !.seen = None, !.had = None, !.day = None]
<1>1. IsCall(r) /\ OnItsWay(r) /\ TurnKnown /\ TurnKnown'
  BY DEF VInv, CallInv, TurnKnown, Built, Going
<1>2. v \in Vendor /\ Chosen(r.tool, v) /\ Tail(r.left) \in Seq(Vendor) /\ ToSet(Tail(r.left)) \subseteq ToSet(r.left)
  <2>1. r.left \in Seq(Vendor) /\ r.left # <<>>
    BY <1>1 DEF OnItsWay
  <2>2. v = r.left[1] /\ 1 \in DOMAIN r.left
    BY <2>1
  <2>3. v \in ToSet(r.left)
    BY <2>1, <2>2 DEF ToSet
  <2>4. \A i \in DOMAIN Tail(r.left) : i + 1 \in DOMAIN r.left /\ Tail(r.left)[i] = r.left[i + 1]
    BY <2>1
  <2>5. ToSet(Tail(r.left)) \subseteq ToSet(r.left)
    BY <2>4 DEF ToSet
  <2> QED BY <1>1, <2>1, <2>2, <2>3, <2>5 DEF OnItsWay
<1>3. tried \in Seq([by : Vendor, is : Kind]) /\ Heard(tried) = Heard(r.tried) \cup {o.is}
  <2>1. o.is \in Kind /\ r.tried \in Seq([by : Vendor, is : Kind])
    BY <1>1 DEF OnItsWay, Sound
  <2> QED BY <1>2, <2>1, OneMoreHeard
<1>4. /\ rest \in Seq(Vendor) /\ ToSet(rest) \subseteq ToSet(r.left)
      /\ rest # <<>> => Offers(r.tool, Head(rest))
  BY <1>2, OnwardGives
<1>5. r.tool \in DOMAIN Direct => rest = <<>>
  <2>1. ASSUME r.tool \in DOMAIN Direct PROVE rest = <<>>
    <3>1. r.left = <<Direct[r.tool]>>
      BY <1>1, <2>1 DEF OnItsWay
    <3>a. \A x : Tail(<<x>>) = <<>>
      OBVIOUS
    <3>2. \A m : Onward(<<>>, m) = <<>>
      BY DEF Onward
    <3> QED BY <3>1, <3>a, <3>2
  <2> QED BY <2>1
<1>a. IsCall(over) /\ over.tool = r.tool /\ over.tried = tried /\ over.day = None /\ over.had = None
  <2>1. over = [r EXCEPT !.tried = tried, !.seen = None, !.had = None, !.day = None] /\ IsCall(r)
    BY <1>1
  <2> HIDE DEF over, r, tried
  <2> QED BY <2>1 DEF IsCall
<1>b. call' = IF o.is \in {"data", "text"}
              THEN [call EXCEPT ![c] = [over EXCEPT !.at = "done", !.got = Got(o.is, v, Reach(o, from.day), from)]]
              ELSE IF rest = <<>>
              THEN [call EXCEPT ![c] = [over EXCEPT !.at = "done",
                                          !.got = Got(Verdict(r.tool, tried), None, None, AtOnce)]]
              ELSE [call EXCEPT ![c] = [over EXCEPT !.at = "route", !.left = rest]]
  BY DEF Handled
<1> HIDE DEF tried, rest, over
<1>6. ASSUME NEW q, call' = [call EXCEPT ![c] = q]
      PROVE  /\ call' = [d \in Call |-> call'[d]] /\ call'[c] = q
             /\ \A d \in Call \ {c} : CallInv(call[d])'
  BY <1>6, OneCall
<1>7. CASE o.is \in {"data", "text"}
  <2> DEFINE got == Got(o.is, v, Reach(o, from.day), from)
             q == [over EXCEPT !.at = "done", !.got = got]
  <2>1. /\ IsCall(q) /\ q.at = "done" /\ q.tool = r.tool /\ q.tried = tried /\ q.got = got
    <3>1. q = [over EXCEPT !.at = "done", !.got = got] /\ IsCall(over)
      BY <1>a
    <3> HIDE DEF q, got
    <3> QED BY <1>a, <3>1 DEF IsCall
  <2>2. got.is = o.is /\ got.by = v /\ got.reach = Reach(o, from.day) /\ got.from = from
    BY DEF Got
  <2>3. call' = [call EXCEPT ![c] = q]
    BY <1>7, <1>b
  <2> HIDE DEF got, q
  <2>4. call'[c] = q /\ \A d \in Call \ {c} : CallInv(call[d])'
    BY <1>6, <2>3
  <2>5. Justified(call[c])' /\ ByChosen(call[c])'
    BY <1>2, <1>7, <2>1, <2>2, <2>4 DEF Justified, ByChosen, Chosen, Named
  <2>6. BarsDue(call[c])'
    <3>1. turn.date \in Int /\ LookBack \in Int
      BY <1>1, VendorsAssumption DEF TurnKnown, Day
    <3>2. ASSUME r.tool \in BarTool, o.is = "data"
          PROVE  /\ Reach(o, from.day) = "beyond" => r.tool = "get_stock_data" /\ v = "alpha_vantage"
                 /\ v = "yfinance" => Reach(o, from.day) = "there"
      <4>1. from.day \in Int /\ Due(r.tool, o, v, from.day)
        BY <3>1, <3>2 DEF Sound
      <4> QED BY <3>2, <4>1, ReachIsDue
    <3> QED BY <2>1, <2>2, <2>4, <3>2 DEF BarsDue, Sound
  <2>7. CallInv(call[c])'
    BY <1>1, <2>1, <2>4, <2>5, <2>6 DEF CallInv, Going, IsCall
  <2> QED BY <1>6, <2>3, <2>4, <2>7
<1>8. CASE o.is \notin {"data", "text"} /\ rest = <<>>
  <2> DEFINE got == Got(Verdict(r.tool, tried), None, None, AtOnce)
             q == [over EXCEPT !.at = "done", !.got = got]
  <2>1. /\ IsCall(q) /\ q.at = "done" /\ q.tool = r.tool /\ q.tried = tried /\ q.got = got
    <3>1. q = [over EXCEPT !.at = "done", !.got = got] /\ IsCall(over)
      BY <1>a
    <3> HIDE DEF q, got
    <3> QED BY <1>a, <3>1 DEF IsCall
  <2>2. got.is = Verdict(r.tool, tried) /\ got.by = None
    BY DEF Got
  <2>3. call' = [call EXCEPT ![c] = q]
    BY <1>8, <1>b
  <2> HIDE DEF got, q
  <2>4. call'[c] = q /\ \A d \in Call \ {c} : CallInv(call[d])'
    BY <1>6, <2>3
  <2>5. Heard(tried) # {} /\ Heard(tried) \cap {"data", "text"} = {}
    BY <1>1, <1>3, <1>8 DEF OnItsWay
  <2>6. r.tool \notin DOMAIN Direct /\ Category(r.tool) \in Optional => Heard(tried) \subseteq Errors
    BY <1>1, <1>3, <1>8 DEF OnItsWay, Sound
  <2>7. Verdict(r.tool, tried) # "data"
    BY DEF Verdict, Raised
  <2>8. Justified(call[c])'
    <3>1. Justified(q)
      BY <2>1, <2>2, <2>5, <2>6, VerdictJustified DEF Justified
    <3> QED BY <2>4, <3>1 DEF Justified
  <2>9. ByChosen(call[c])' /\ BarsDue(call[c])'
    BY <2>1, <2>2, <2>4, <2>7 DEF ByChosen, BarsDue
  <2>10. CallInv(call[c])'
    BY <1>1, <2>1, <2>4, <2>8, <2>9 DEF CallInv, Going, IsCall
  <2> QED BY <1>6, <2>3, <2>4, <2>10
<1>9. CASE o.is \notin {"data", "text"} /\ rest # <<>>
  <2> DEFINE q == [over EXCEPT !.at = "route", !.left = rest]
  <2>1. /\ IsCall(q) /\ q.at = "route" /\ q.tool = r.tool /\ q.tried = tried /\ q.left = rest /\ q.day = None /\ q.had = None
    <3>1. q = [over EXCEPT !.at = "route", !.left = rest] /\ IsCall(over)
      BY <1>a
    <3> HIDE DEF q
    <3> QED BY <1>a, <3>1 DEF IsCall
  <2>2. call' = [call EXCEPT ![c] = q]
    BY <1>9, <1>b
  <2> HIDE DEF q
  <2>3. call'[c] = q /\ \A d \in Call \ {c} : CallInv(call[d])'
    BY <1>6, <2>2
  <2>4. OnItsWay(q)
    <3>1. Heard(tried) \cap {"data", "text"} = {}
      BY <1>1, <1>3, <1>9 DEF OnItsWay
    <3>2. r.tool \notin DOMAIN Direct /\ Category(r.tool) \in Optional => Heard(tried) \subseteq Errors
      BY <1>1, <1>3, <1>9 DEF OnItsWay, Sound
    <3> QED BY <1>1, <1>3, <1>4, <1>5, <1>9, <2>1, <3>1, <3>2 DEF OnItsWay
  <2>5. OnItsWay(call[c])'
    BY <2>3, <2>4 DEF OnItsWay, Chosen, Named, Offers
  <2>6. CallInv(call[c])'
    BY <1>1, <2>1, <2>3, <2>5 DEF CallInv, Going, IsCall
  <2> QED BY <1>6, <2>2, <2>3, <2>6
<1> QED BY <1>7, <1>8, <1>9

\* A call goes on without an answer of a vendor.
LEMMA MovedOn ==
    ASSUME VInv, NEW c \in Call, call[c].at \in Going, UNCHANGED <<settings, config, turn>>,
           IsCall(call'[c]), call'[c].at \in Going,
           call'[c].tool = call[c].tool, call'[c].left = call[c].left, call'[c].tried = call[c].tried,
           call'[c].at # "route" => call[c].tool \in Cached /\ Head(call[c].left) = "yfinance",
           \/ call'[c].day = call[c].day /\ call'[c].had = call[c].had
           \/ call'[c].day # None /\ ByDay(call'[c]),
           call'[c].at \in {"age", "write"} =>
              IsFile(file)' /\ call'[c].seen.upTo \in Int /\ call'[c].seen.at \in Int
    PROVE  CallInv(call[c])'
<1>1. OnItsWay(call[c]) /\ TurnKnown
  BY DEF VInv, CallInv, Going
<1>2. OnItsWay(call[c])'
  BY <1>1 DEF OnItsWay, Chosen, Named, Offers
<1>3. TurnKnown'
  BY <1>1 DEF TurnKnown, Built
<1>4. IF call[c].day = None THEN call[c].had = None ELSE ByDay(call[c])
  BY DEF VInv, CallInv
<1>5. IF call'[c].day = None THEN call'[c].had = None ELSE ByDay(call'[c])
  BY <1>4 DEF ByDay, Sound
<1>6. (IF call[c].day = None THEN call[c].had = None ELSE ByDay(call[c]))'
  BY <1>5 DEF ByDay, Sound
<1> QED BY <1>2, <1>3, <1>6 DEF CallInv, Going, IsCall

LEMMA CachedTools ==
    ASSUME NEW m \in Cached
    PROVE  /\ m = "get_indicators" \/ m = "get_verified_market_snapshot"
           /\ m = "get_indicators" => m \notin DOMAIN Direct
           /\ m \notin DOMAIN Direct => Category(m) \notin Optional
           /\ m \in BarTool
BY DirectTools, Categories DEF Cached, BarTool, Optional

LEMMA BuildKeeps ==
    ASSUME VInv, NEW r \in Run, NEW cfg \in Config, Build(r, cfg)
    PROVE  VInv'
<1>1. SettingsInv'
  BY MergedNames DEF VInv, Build, Built
<1>2. call' = [c \in Call |-> call'[c]] /\ \A c \in Call : CallInv(call[c])'
  BY FreshCalls DEF Build
<1> QED BY <1>1, <1>2 DEF VInv, Build, IsFile

LEMMA TurnKeeps ==
    ASSUME VInv, NEW r \in Run, NEW node \in DOMAIN Tools, NEW d \in Asked, Turn(r, node, d)
    PROVE  VInv'
<1>1. SettingsInv'
  BY DEF VInv, Turn, SettingsInv, Named, Built
<1>2. call' = [c \in Call |-> call'[c]] /\ \A c \in Call : CallInv(call[c])'
  BY FreshCalls DEF Turn
<1>3. TurnKnown'
  BY VendorsAssumption DEF Turn, TurnKnown, Built
<1> QED BY <1>1, <1>2, <1>3 DEF VInv, Turn, IsFile

LEMMA FreeIsCall == IsCall(Free) /\ Free.tried = <<>> /\ Free.day = None /\ Free.had = None
BY DEF IsCall, Free

LEMMA AskKeeps ==
    ASSUME VInv, NEW c \in Call, NEW m \in ToolNames, Ask(c, m)
    PROVE  VInv'
<1> DEFINE chain == Chain(settings, m)
<1>1. UNCHANGED <<keys, settings, config, turn, file, now>> /\ TurnKnown
  BY DEF Ask, VInv
<1>2. SettingsInv /\ SettingsInv'
  BY <1>1 DEF VInv, SettingsInv, Named, Built
<1>3. TurnKnown'
  BY <1>1 DEF TurnKnown, Built
<1>4. /\ chain \in Seq(Vendor) /\ (chain # <<>> => Offers(m, Head(chain)))
      /\ m \in DOMAIN Direct => chain = <<Direct[m]>>
      /\ \A v \in ToSet(chain) : Chosen(m, v)
  BY <1>2, ChainGives
<1>5. call' = [call EXCEPT ![c] =
                  IF chain = <<>>
                  THEN [Free EXCEPT !.at = "done", !.tool = m,
                          !.got = Got(Raised(m, "no_vendor"), None, None, AtOnce)]
                  ELSE [Free EXCEPT !.at = "route", !.tool = m, !.left = chain]]
  BY DEF Ask
<1> HIDE DEF chain
<1>6. Heard(<<>>) = {}
  BY DEF Heard
<1>7. CASE chain = <<>>
  <2> DEFINE got == Got(Raised(m, "no_vendor"), None, None, AtOnce)
             q == [Free EXCEPT !.at = "done", !.tool = m, !.got = got]
  <2>1. call' = [call EXCEPT ![c] = q]
    BY <1>5, <1>7
  <2>2. IsCall(q) /\ q.at = "done" /\ q.tool = m /\ q.tried = <<>> /\ q.got = got
    <3>1. q = [Free EXCEPT !.at = "done", !.tool = m, !.got = got]
      OBVIOUS
    <3> HIDE DEF q, got
    <3> QED BY <3>1, FreeIsCall DEF IsCall
  <2>3. got.is \in {"raised", "told"} /\ got.by = None
    BY DEF Got, Raised
  <2> HIDE DEF q, got
  <2>4. call' = [d \in Call |-> call'[d]] /\ call'[c] = q /\ \A d \in Call \ {c} : CallInv(call[d])'
    BY <1>1, <2>1, OneCall DEF IsFile
  <2>5. Justified(call[c])' /\ ByChosen(call[c])' /\ BarsDue(call[c])'
    BY <1>6, <2>2, <2>3, <2>4 DEF Justified, ByChosen, BarsDue
  <2>6. CallInv(call[c])'
    BY <1>3, <2>2, <2>4, <2>5 DEF CallInv, Going, IsCall
  <2> QED BY <1>1, <1>2, <1>3, <2>4, <2>6 DEF VInv, IsFile
<1>8. CASE chain # <<>>
  <2> DEFINE q == [Free EXCEPT !.at = "route", !.tool = m, !.left = chain]
  <2>1. call' = [call EXCEPT ![c] = q]
    BY <1>5, <1>8
  <2>2. IsCall(q) /\ q.at = "route" /\ q.tool = m /\ q.tried = <<>> /\ q.left = chain /\ q.day = None /\ q.had = None
    <3>1. q = [Free EXCEPT !.at = "route", !.tool = m, !.left = chain]
      OBVIOUS
    <3> HIDE DEF q
    <3> QED BY <3>1, FreeIsCall DEF IsCall
  <2> HIDE DEF q
  <2>3. call' = [d \in Call |-> call'[d]] /\ call'[c] = q /\ \A d \in Call \ {c} : CallInv(call[d])'
    BY <1>1, <2>1, OneCall DEF IsFile
  <2>4. OnItsWay(q)
    BY <1>4, <1>6, <1>8, <2>2 DEF OnItsWay
  <2>5. OnItsWay(call[c])'
    BY <1>1, <2>3, <2>4 DEF OnItsWay, Chosen, Named, Offers
  <2>6. CallInv(call[c])'
    BY <1>3, <2>2, <2>3, <2>5 DEF CallInv, Going, IsCall
  <2> QED BY <1>1, <1>2, <1>3, <2>3, <2>6 DEF VInv, IsFile
<1> QED BY <1>7, <1>8

\* What VInv' needs beyond the calls when only calls and the file change.
LEMMA RestKeeps ==
    ASSUME VInv, UNCHANGED <<keys, settings, config, turn>>, now' \in Int,
           file' = None \/ IsFile(file)',
           call' = [c \in Call |-> call'[c]], \A c \in Call : CallInv(call[c])'
    PROVE  VInv'
<1>1. SettingsInv'
  BY DEF VInv, SettingsInv, Named, Built
<1>2. turn' # None => TurnKnown'
  BY DEF VInv, TurnKnown, Built
<1> QED BY <1>1, <1>2 DEF VInv

LEMMA ServeKeeps ==
    ASSUME VInv, NEW c \in Call, Serve(c)
    PROVE  VInv'
<1> DEFINE r == call[c]
<1>1. /\ r.at = "route" /\ ~FromCache(c) /\ UNCHANGED <<keys, settings, config, turn, file, now>>
      /\ CallInv(r) /\ OnItsWay(r) /\ TurnKnown
  BY DEF Serve, VInv, CallInv, Going
<1>2. PICK o \in Results(Head(r.left), r.tool, turn.date) : call' = Handled(c, o, AtOnce)
  BY DEF Serve
<1>3. r.left # <<>> /\ (r.tool \notin DOMAIN Direct => Head(r.left) \in ToSet(Available(r.tool)))
  BY <1>1 DEF OnItsWay, Offers
<1>4. turn.date \in Day
  BY <1>1 DEF TurnKnown
<1>5. 0 <= TTL
  BY VendorsAssumption
<1>6. ASSUME r.tool \notin DOMAIN Direct PROVE Sound(r, o, AtOnce)
  <2>1. /\ o.is \in Kind
        /\ Category(r.tool) \in Optional => o.is \in {"data", "text"} \cup Errors
        /\ r.tool \in BarTool /\ o.is = "data" /\ ~(r.tool \in Cached /\ Head(r.left) = "yfinance")
             => Due(r.tool, o, Head(r.left), turn.date)
    BY <1>2, <1>3, <1>4, <1>6, ResultsGive
  <2>2. turn.date \in turn.date - LookBack .. turn.date
    BY <1>4, VendorsAssumption DEF Day
  <2> QED BY <1>1, <1>5, <2>1, <2>2 DEF Sound, FromCache, AtOnce, From
<1>7. ASSUME r.tool \in DOMAIN Direct PROVE Sound(r, o, AtOnce)
  <2>1. r.left = <<Direct[r.tool]>>
    BY <1>1, <1>7 DEF OnItsWay
  <2>2. Head(r.left) = Direct[r.tool]
    <3> HIDE DEF r
    <3> QED BY <2>1
  <2>3. r.tool # "get_verified_market_snapshot"
    BY <1>1, <2>2, DirectTools DEF FromCache, Cached
  <2>4. o \in StockTwits(turn.date) \/ o \in Reddit(turn.date)
    <3>1. Head(r.left) = "stocktwits" \/ Head(r.left) = "reddit"
      BY <1>7, <2>2, <2>3, DirectTools
    <3> QED BY <1>2, <3>1 DEF Results
  <2>5. o.is \in Kind
    BY <2>4, SaysAndData DEF StockTwits, Reddit, Kind
  <2>6. r.tool \notin BarTool
    BY <1>7, <2>3, DirectTools DEF BarTool, Cached
  <2> QED BY <1>7, <2>5, <2>6 DEF Sound
<1>8. Sound(r, o, AtOnce)
  BY <1>6, <1>7
<1>9. call' = [d \in Call |-> call'[d]] /\ \A d \in Call : CallInv(call[d])'
  BY <1>1, <1>2, <1>8, HandledKeeps DEF Going, IsFile
<1> QED BY <1>1, <1>9, RestKeeps DEF VInv, IsFile

-----------------------------------------------------------------------------
(* The day's price cache.                                                  *)

\* A call that reads the cache.
Reading(c) == /\ call[c].at \in Going /\ call[c].tool \in Cached /\ Head(call[c].left) = "yfinance"

\* A failure is an error or words, which are sound for the tools that read the cache.
LEMMA NoDataSound ==
    ASSUME VInv, NEW c \in Call, Reading(c), NEW o, o.is \in Kind \ {"data"}, NEW from
    PROVE  Sound(call[c], o, from)
BY CachedTools DEF Sound, Reading

\* A call goes on with another day; had is what the days so far gave.
LEMMA DayKeeps ==
    ASSUME VInv, NEW c \in Call, Reading(c), call[c].tool = "get_indicators",
           NEW day \in turn.date - LookBack .. turn.date, NEW had,
           had # None => Sound(call[c], had.o, had.from),
           call' = [call EXCEPT ![c] = [@ EXCEPT !.at = "route", !.day = day, !.had = had, !.seen = None]],
           UNCHANGED <<settings, config, turn>>, IsFile(file) => IsFile(file)'
    PROVE  call' = [d \in Call |-> call'[d]] /\ \A d \in Call : CallInv(call[d])'
<1> DEFINE q == [call[c] EXCEPT !.at = "route", !.day = day, !.had = had, !.seen = None]
<1>1. call' = [call EXCEPT ![c] = q]
  OBVIOUS
<1>2. IsCall(call[c])
  BY DEF VInv, CallInv
<1>3. /\ IsCall(q) /\ q.at = "route" /\ q.tool = call[c].tool /\ q.left = call[c].left
      /\ q.tried = call[c].tried /\ q.day = day /\ q.had = had
  <2>1. q = [call[c] EXCEPT !.at = "route", !.day = day, !.had = had, !.seen = None]
    OBVIOUS
  <2> HIDE DEF q
  <2> QED BY <1>2, <2>1 DEF IsCall
<1> HIDE DEF q
<1>a. day # None
  BY VendorsAssumption DEF VInv, CallInv, Reading, Going, TurnKnown, Day
<1>4. call' = [d \in Call |-> call'[d]] /\ call'[c] = q /\ \A d \in Call \ {c} : CallInv(call[d])'
  BY <1>1, OneCall DEF IsFile
<1>5. ByDay(q)
  BY <1>3 DEF ByDay, Sound, Reading
<1>6. CallInv(call[c])'
  BY <1>a, <1>3, <1>4, <1>5, MovedOn DEF Reading, Going
<1> QED BY <1>4, <1>6

LEMMA DayBeforeKeeps ==
    ASSUME VInv, NEW c \in Call, Reading(c), call[c].day # None, NEW had,
           had # None => Sound(call[c], had.o, had.from),
           call' = DayBefore(c, had), UNCHANGED <<settings, config, turn>>, IsFile(file) => IsFile(file)'
    PROVE  call' = [d \in Call |-> call'[d]] /\ \A d \in Call : CallInv(call[d])'
<1>1. ByDay(call[c]) /\ turn.date \in Int /\ LookBack \in Nat
  BY VendorsAssumption DEF VInv, CallInv, Reading, Going, TurnKnown, Day
<1>2. CASE call[c].day > turn.date - LookBack
  <2>1. call[c].day - 1 \in turn.date - LookBack .. turn.date
    BY <1>1, <1>2 DEF ByDay
  <2>2. call' = [call EXCEPT ![c] = [@ EXCEPT !.at = "route", !.day = call[c].day - 1, !.had = had, !.seen = None]]
    BY <1>2 DEF DayBefore
  <2> QED BY <1>1, <2>1, <2>2, DayKeeps DEF ByDay
<1>3. CASE ~(call[c].day > turn.date - LookBack) /\ had = None
  <2>1. call' = Handled(c, Text, AtOnce)
    BY <1>3 DEF DayBefore
  <2>2. Sound(call[c], Text, AtOnce)
    BY SaysAndData, NoDataSound DEF Kind
  <2> QED BY <2>1, <2>2, HandledKeeps DEF Reading, IsFile
<1>4. CASE ~(call[c].day > turn.date - LookBack) /\ had # None
  <2>1. call' = Handled(c, had.o, had.from)
    BY <1>4 DEF DayBefore
  <2> QED BY <1>4, <2>1, HandledKeeps DEF Reading, IsFile
<1> QED BY <1>2, <1>3, <1>4

LEMMA FailedKeeps ==
    ASSUME VInv, NEW c \in Call, Reading(c), call' = Failed(c),
           UNCHANGED <<settings, config, turn>>, IsFile(file) => IsFile(file)'
    PROVE  call' = [d \in Call |-> call'[d]] /\ \A d \in Call : CallInv(call[d])'
<1>1. CASE call[c].tool = "get_indicators" /\ call[c].day = None
  <2>1. call' = [call EXCEPT ![c] = [@ EXCEPT !.at = "route", !.day = turn.date, !.seen = None]]
    BY <1>1 DEF Failed
  <2> DEFINE q == [call[c] EXCEPT !.at = "route", !.day = turn.date, !.seen = None]
  <2>2. call' = [call EXCEPT ![c] = q]
    BY <2>1
  <2>3. IsCall(call[c])
    BY DEF VInv, CallInv
  <2>4. /\ IsCall(q) /\ q.at = "route" /\ q.tool = call[c].tool /\ q.left = call[c].left
        /\ q.tried = call[c].tried /\ q.day = turn.date /\ q.had = call[c].had
    <3>1. q = [call[c] EXCEPT !.at = "route", !.day = turn.date, !.seen = None]
      OBVIOUS
    <3> HIDE DEF q
    <3> QED BY <2>3, <3>1 DEF IsCall
  <2> HIDE DEF q
  <2>5. call' = [d \in Call |-> call'[d]] /\ call'[c] = q /\ \A d \in Call \ {c} : CallInv(call[d])'
    BY <2>2, OneCall DEF IsFile
  <2>6. turn.date \in turn.date - LookBack .. turn.date /\ call[c].had = None /\ turn.date # None
    BY <1>1, VendorsAssumption DEF VInv, CallInv, Reading, Going, TurnKnown, Day
  <2>7. ByDay(q)
    BY <1>1, <2>4, <2>6 DEF ByDay, Sound, Reading
  <2>8. CallInv(call[c])'
    BY <2>4, <2>5, <2>6, <2>7, MovedOn DEF Reading, Going
  <2> QED BY <2>5, <2>8
<1>2. CASE call[c].tool = "get_indicators" /\ call[c].day # None
  <2>1. call' = DayBefore(c, call[c].had)
    BY <1>2 DEF Failed
  <2>2. call[c].had # None => Sound(call[c], call[c].had.o, call[c].had.from)
    BY <1>2 DEF VInv, CallInv, ByDay, Reading
  <2> QED BY <1>2, <2>1, <2>2, DayBeforeKeeps
<1>3. CASE call[c].tool # "get_indicators"
  <2>1. call' = Handled(c, Says("down"), AtOnce)
    BY <1>3 DEF Failed
  <2>2. Sound(call[c], Says("down"), AtOnce)
    BY SaysAndData, NoDataSound DEF Kind
  <2> QED BY <2>1, <2>2, HandledKeeps DEF Reading, IsFile
<1> QED BY <1>1, <1>2, <1>3

\* The rows up to the day, when they are data, end where they should.
LEMMA BarsSound ==
    ASSUME VInv, NEW c \in Call, Reading(c), NEW frame, frame.upTo \in Int, NEW age, NEW renewed,
           DayOf(c) = Today => age <= TTL \/ renewed
    PROVE  Sound(call[c], Bars(frame, DayOf(c)), From(DayOf(c), age, renewed))
<1> DEFINE day == DayOf(c)
           n == Lower(frame.upTo, day)
           o == Bars(frame, day)
           from == From(day, age, renewed)
<1>1. turn.date \in Int /\ LookBack \in Nat /\ MaxStaleDays \in Int
  BY VendorsAssumption DEF VInv, CallInv, Reading, Going, TurnKnown, Day
<1>2. IF call[c].tool = "get_indicators" THEN day \in turn.date - LookBack .. turn.date ELSE day = turn.date
  BY <1>1 DEF DayOf, VInv, CallInv, Reading, ByDay
<1>3. day \in Int
  BY <1>1, <1>2
<1>4. from.day = day /\ from.age = age /\ from.renewed = renewed
  BY DEF From
<1> HIDE DEF day, from
<1>5. n \in Int /\ n <= day
  BY <1>3 DEF Lower
<1>6. CASE o = Says("no_data")
  BY <1>6, SaysAndData, NoDataSound DEF Kind, day, from
<1>7. CASE o # Says("no_data")
  <2>1. o = [is |-> "data", upTo |-> n] /\ ~(day - n > MaxStaleDays)
    BY <1>7 DEF Bars
  <2> HIDE DEF n, o
  <2>2. o.is = "data" /\ Due(call[c].tool, o, Head(call[c].left), day)
    BY <1>1, <1>3, <1>5, <2>1 DEF Due
  <2>3. Sound(call[c], o, from)
    <3>1. o.is \in Kind
      BY <2>2 DEF Kind
    <3>2. day = Today => age <= TTL \/ renewed
      BY DEF day
    <3> QED BY <1>2, <1>4, <2>2, <3>1, <3>2, CachedTools DEF Sound, Reading
  <2> QED BY <2>3 DEF o, day, from
<1> QED BY <1>6, <1>7

\* The bars of one day are loaded.
LEMMA LoadedKeeps ==
    ASSUME VInv, NEW c \in Call, Reading(c), NEW o, NEW from, Sound(call[c], o, from),
           call' = Loaded(c, o, from), UNCHANGED <<settings, config, turn>>, IsFile(file) => IsFile(file)'
    PROVE  call' = [d \in Call |-> call'[d]] /\ \A d \in Call : CallInv(call[d])'
<1>1. CASE call[c].day = None \/ o.is # "data"
  <2>1. call' = Handled(c, o, from)
    BY <1>1 DEF Loaded
  <2> QED BY <2>1, HandledKeeps DEF Reading, IsFile
<1>2. CASE ~(call[c].day = None \/ o.is # "data")
  <2> DEFINE had == IF call[c].had = None THEN [o |-> o, from |-> from] ELSE call[c].had
  <2>1. call' = DayBefore(c, had)
    BY <1>2 DEF Loaded
  <2>2. had # None => Sound(call[c], had.o, had.from)
    BY <1>2 DEF VInv, CallInv, ByDay, Reading
  <2> HIDE DEF had
  <2> QED BY <1>2, <2>1, <2>2, DayBeforeKeeps
<1> QED BY <1>1, <1>2

LEMMA OpenCacheKeeps ==
    ASSUME VInv, NEW c \in Call, OpenCache(c)
    PROVE  VInv'
<1>1. Reading(c) /\ IsCall(call[c]) /\ UNCHANGED <<keys, settings, config, turn, file, now>>
  BY DEF OpenCache, FromCache, Reading, Going, VInv, CallInv
<1>2. ASSUME call' = Handled(c, Says("bad_argument"), AtOnce)
      PROVE  call' = [d \in Call |-> call'[d]] /\ \A d \in Call : CallInv(call[d])'
  <2>1. Sound(call[c], Says("bad_argument"), AtOnce)
    BY <1>1, SaysAndData, NoDataSound DEF Kind
  <2> QED BY <1>1, <1>2, <2>1, HandledKeeps DEF Reading, IsFile
<1>3. ASSUME call' = [call EXCEPT ![c].at = "fetch"]
      PROVE  call' = [d \in Call |-> call'[d]] /\ \A d \in Call : CallInv(call[d])'
  <2> DEFINE q == [call[c] EXCEPT !.at = "fetch"]
  <2>1. call' = [call EXCEPT ![c] = q]
    BY <1>3
  <2>2. /\ IsCall(q) /\ q.at = "fetch" /\ q.tool = call[c].tool /\ q.left = call[c].left
        /\ q.tried = call[c].tried /\ q.day = call[c].day /\ q.had = call[c].had
    <3>1. q = [call[c] EXCEPT !.at = "fetch"]
      OBVIOUS
    <3> HIDE DEF q
    <3> QED BY <1>1, <3>1 DEF IsCall
  <2> HIDE DEF q
  <2>3. call' = [d \in Call |-> call'[d]] /\ call'[c] = q /\ \A d \in Call \ {c} : CallInv(call[d])'
    BY <1>1, <2>1, OneCall DEF IsFile
  <2>4. CallInv(call[c])'
    BY <1>1, <2>2, <2>3, MovedOn DEF Reading, Going
  <2> QED BY <2>3, <2>4
<1>4. ASSUME NEW upTo \in Int, NEW closed, file # None,
             call' = [call EXCEPT ![c].at = "age",
                        ![c].seen = [upTo |-> upTo, closed |-> closed, at |-> file.at]]
      PROVE  call' = [d \in Call |-> call'[d]] /\ \A d \in Call : CallInv(call[d])'
  <2> DEFINE seen == [upTo |-> upTo, closed |-> closed, at |-> file.at]
             q == [call[c] EXCEPT !.at = "age", !.seen = seen]
  <2>1. call' = [call EXCEPT ![c] = q]
    BY <1>4
  <2>2. /\ IsCall(q) /\ q.at = "age" /\ q.tool = call[c].tool /\ q.left = call[c].left
        /\ q.tried = call[c].tried /\ q.seen = seen /\ q.day = call[c].day /\ q.had = call[c].had
    <3>1. q = [call[c] EXCEPT !.at = "age", !.seen = seen]
      OBVIOUS
    <3> HIDE DEF q, seen
    <3> QED BY <1>1, <3>1 DEF IsCall
  <2>3. IsFile(file) /\ IsFile(file)' /\ seen.upTo \in Int /\ seen.at \in Int
    BY <1>1, <1>4 DEF VInv, IsFile
  <2> HIDE DEF q, seen
  <2>4. call' = [d \in Call |-> call'[d]] /\ call'[c] = q /\ \A d \in Call \ {c} : CallInv(call[d])'
    BY <1>1, <2>1, <2>3, OneCall
  <2>5. CallInv(call[c])'
    BY <1>1, <2>2, <2>3, <2>4, MovedOn DEF Reading, Going
  <2> QED BY <2>4, <2>5
<1>5. file # None => file.upTo \in Int /\ 0 .. file.upTo \subseteq Int
  BY DEF VInv, IsFile
<1>6. call' = [d \in Call |-> call'[d]] /\ \A d \in Call : CallInv(call[d])'
  <2>1. CASE call' = Handled(c, Says("bad_argument"), AtOnce)
    BY <1>2, <2>1
  <2>2. CASE call' = [call EXCEPT ![c].at = "fetch"]
    BY <1>3, <2>2
  <2>3. CASE file # None /\ call' = [call EXCEPT ![c].at = "age",
                ![c].seen = [upTo |-> file.upTo, closed |-> file.closed, at |-> file.at]]
    BY <1>4, <1>5, <2>3
  <2>4. CASE file # None /\ \E n \in 0 .. file.upTo, closed \in BOOLEAN :
               call' = [call EXCEPT ![c].at = "age",
                          ![c].seen = [upTo |-> n, closed |-> closed, at |-> file.at]]
    BY <1>4, <1>5, <2>4
  <2>5. CASE call' = Failed(c)
    BY <1>1, <2>5, FailedKeeps
  <2> QED BY <2>1, <2>2, <2>3, <2>4, <2>5 DEF OpenCache
<1> QED BY <1>1, <1>6, RestKeeps DEF VInv, IsFile

LEMMA CheckAgeKeeps ==
    ASSUME VInv, NEW c \in Call, CheckAge(c)
    PROVE  VInv'
<1>1. Reading(c) /\ IsCall(call[c]) /\ UNCHANGED <<keys, settings, config, turn, file, now>>
  BY DEF CheckAge, Reading, Going, VInv, CallInv
<1>2. IsFile(file) /\ call[c].seen.upTo \in Int /\ call[c].seen.at \in Int
  BY DEF CheckAge, VInv, CallInv
<1>3. CASE NeedsRefresh(DayOf(c))
  <2> DEFINE q == [call[c] EXCEPT !.at = "fetch", !.seen = None]
  <2>1. call' = [call EXCEPT ![c] = q]
    BY <1>3 DEF CheckAge
  <2>2. /\ IsCall(q) /\ q.at = "fetch" /\ q.tool = call[c].tool /\ q.left = call[c].left
        /\ q.tried = call[c].tried /\ q.day = call[c].day /\ q.had = call[c].had
    <3>1. q = [call[c] EXCEPT !.at = "fetch", !.seen = None]
      OBVIOUS
    <3> HIDE DEF q
    <3> QED BY <1>1, <3>1 DEF IsCall
  <2> HIDE DEF q
  <2>3. call' = [d \in Call |-> call'[d]] /\ call'[c] = q /\ \A d \in Call \ {c} : CallInv(call[d])'
    BY <1>1, <2>1, OneCall DEF IsFile
  <2>4. CallInv(call[c])'
    BY <1>1, <2>2, <2>3, MovedOn DEF Reading, Going
  <2> QED BY <1>1, <2>3, <2>4, RestKeeps DEF VInv, IsFile
<1>4. CASE ~NeedsRefresh(DayOf(c))
  <2> DEFINE age == now - call[c].seen.at
             renewed == file.at # call[c].seen.at
             from == From(DayOf(c), age, renewed)
  <2>1. call' = Loaded(c, Bars(call[c].seen, DayOf(c)), from)
    BY <1>4 DEF CheckAge
  <2>2. DayOf(c) = Today => age <= TTL \/ renewed
    BY <1>2, <1>4, VendorsAssumption DEF NeedsRefresh, IsFile, VInv
  <2>3. Sound(call[c], Bars(call[c].seen, DayOf(c)), from)
    <3> HIDE DEF age, renewed
    <3> QED BY <1>1, <1>2, <2>2, BarsSound
  <2> HIDE DEF from
  <2>4. call' = [d \in Call |-> call'[d]] /\ \A d \in Call : CallInv(call[d])'
    BY <1>1, <2>1, <2>3, LoadedKeeps DEF IsFile
  <2> QED BY <1>1, <2>4, RestKeeps DEF VInv, IsFile
<1> QED BY <1>3, <1>4

LEMMA DownloadKeeps ==
    ASSUME VInv, NEW c \in Call, Download(c)
    PROVE  VInv'
<1>1. Reading(c) /\ IsCall(call[c]) /\ UNCHANGED <<keys, settings, config, turn, now>>
  BY DEF Download, Reading, Going, VInv, CallInv
<1>2. ASSUME NEW n \in Day, NEW closed, NEW writers, NEW broken,
             file' = [upTo |-> IF file # None /\ file.writers # {} THEN Higher(n, file.upTo) ELSE n,
                      closed |-> closed, at |-> now, writers |-> writers, broken |-> broken],
             call' = [call EXCEPT ![c].at = "write",
                             ![c].seen = [upTo |-> n, closed |-> closed, at |-> now]]
      PROVE  VInv'
  <2> DEFINE seen == [upTo |-> n, closed |-> closed, at |-> now]
             q == [call[c] EXCEPT !.at = "write", !.seen = seen]
  <2>1. call' = [call EXCEPT ![c] = q]
    BY <1>2
  <2>2. /\ IsCall(q) /\ q.at = "write" /\ q.tool = call[c].tool /\ q.left = call[c].left
        /\ q.tried = call[c].tried /\ q.seen = seen /\ q.day = call[c].day /\ q.had = call[c].had
    <3>1. q = [call[c] EXCEPT !.at = "write", !.seen = seen]
      OBVIOUS
    <3> HIDE DEF q, seen
    <3> QED BY <1>1, <3>1 DEF IsCall
  <2>3. n \in Int /\ now \in Int
    BY VendorsAssumption DEF Day, VInv
  <2>4. seen.upTo \in Int /\ seen.at \in Int
    BY <2>3
  <2>5. IsFile(file)'
    <3>1. file # None => file.upTo \in Int
      BY DEF VInv, IsFile
    <3>2. (IF file # None /\ file.writers # {} THEN Higher(n, file.upTo) ELSE n) \in Int
      BY <2>3, <3>1 DEF Higher
    <3> QED BY <1>2, <2>3, <3>2 DEF IsFile
  <2> HIDE DEF q, seen
  <2>6. call' = [d \in Call |-> call'[d]] /\ call'[c] = q /\ \A d \in Call \ {c} : CallInv(call[d])'
    BY <1>1, <2>1, <2>5, OneCall
  <2>7. CallInv(call[c])'
    BY <1>1, <2>2, <2>4, <2>5, <2>6, MovedOn DEF Reading, Going
  <2> QED BY <1>1, <2>3, <2>5, <2>6, <2>7, RestKeeps
<1>3. CASE call' = Handled(c, Says("no_data"), AtOnce) /\ UNCHANGED file
  <2>1. Sound(call[c], Says("no_data"), AtOnce)
    BY <1>1, SaysAndData, NoDataSound DEF Kind
  <2>2. call' = [d \in Call |-> call'[d]] /\ \A d \in Call : CallInv(call[d])'
    BY <1>1, <1>3, <2>1, HandledKeeps DEF Reading, IsFile
  <2> QED BY <1>1, <1>3, <2>2, RestKeeps DEF VInv, IsFile
<1>4. CASE call' = Failed(c) /\ UNCHANGED file
  <2>1. call' = [d \in Call |-> call'[d]] /\ \A d \in Call : CallInv(call[d])'
    BY <1>1, <1>4, FailedKeeps
  <2> QED BY <1>1, <1>4, <2>1, RestKeeps DEF VInv, IsFile
<1>5. CASE ~(call' = Handled(c, Says("no_data"), AtOnce) /\ UNCHANGED file)
           /\ ~(call' = Failed(c) /\ UNCHANGED file)
  <2>1. PICK n \in Day, closed \in BOOLEAN :
          LET frame == [upTo |-> n, closed |-> closed]
              other == file # None /\ file.writers # {}
          IN /\ file' = [upTo    |-> IF other THEN Higher(n, file.upTo) ELSE n,
                         closed  |-> closed, at |-> now,
                         writers |-> IF other THEN file.writers \cup {c} ELSE {c},
                         broken  |-> other /\ (file.broken \/ frame #
                                       [upTo |-> file.upTo, closed |-> file.closed])]
             /\ call' = [call EXCEPT ![c].at = "write",
                           ![c].seen = [upTo |-> n, closed |-> closed, at |-> now]]
    BY <1>5, Zenon DEF Download
  <2> QED BY <1>2, <2>1, Zenon
<1> QED BY <1>3, <1>4, <1>5

LEMMA WrittenKeeps ==
    ASSUME VInv, NEW c \in Call, Written(c)
    PROVE  VInv'
<1>1. Reading(c) /\ IsCall(call[c]) /\ UNCHANGED <<keys, settings, config, turn, now>>
  BY DEF Written, Reading, Going, VInv, CallInv
<1>2. IsFile(file) /\ call[c].seen.upTo \in Int /\ now \in Int
  BY DEF Written, VInv, CallInv
<1>3. IsFile(file)'
  BY <1>2 DEF Written, IsFile
<1>4. Sound(call[c], Bars(call[c].seen, DayOf(c)), From(DayOf(c), 0, FALSE))
  <2>1. 0 <= TTL
    BY VendorsAssumption
  <2> QED BY <1>1, <1>2, <2>1, BarsSound
<1>5. call' = [d \in Call |-> call'[d]] /\ \A d \in Call : CallInv(call[d])'
  BY <1>1, <1>3, <1>4, LoadedKeeps DEF Written
<1> QED BY <1>1, <1>2, <1>3, <1>5, RestKeeps

LEMMA TickKeeps == VInv /\ Tick => VInv'
<1> SUFFICES ASSUME VInv, Tick PROVE VInv'
  OBVIOUS
<1>1. UNCHANGED <<keys, settings, config, turn, call, file>> /\ now' \in Int
  BY DEF Tick, VInv
<1>2. ASSUME NEW c \in Call PROVE CallInv(call[c])'
  BY <1>1, CallKeeps DEF VInv, IsFile
<1> QED BY <1>1, <1>2, RestKeeps DEF VInv, IsFile

LEMMA StopKeeps == VInv /\ Stop => VInv'
<1> SUFFICES ASSUME VInv, Stop PROVE VInv'
  OBVIOUS
<1>1. SettingsInv'
  <2>1. \A m : Named(Default, m) \in Seq(Vendor)
    BY DefaultNames DEF Named
  <2> QED BY <2>1, DefaultNames DEF Stop, SettingsInv, Built, Named
<1>2. call' = [c \in Call |-> call'[c]] /\ \A c \in Call : CallInv(call[c])'
  BY FreshCalls DEF Stop
<1>3. file' = None \/ IsFile(file)'
  BY DEF Stop, VInv, IsFile
<1> QED BY <1>1, <1>2, <1>3 DEF VInv, Stop

LEMMA StepKeeps == VInv /\ [VendorsNext]_venvars => VInv'
<1> SUFFICES ASSUME VInv, [VendorsNext]_venvars PROVE VInv'
  OBVIOUS
<1>1. CASE UNCHANGED venvars
  <2>1. UNCHANGED <<keys, settings, config, turn, call, file, now>>
    BY <1>1 DEF venvars
  <2>2. ASSUME NEW c \in Call PROVE CallInv(call[c])'
    BY <2>1, CallKeeps DEF VInv, IsFile
  <2> QED BY <2>1, <2>2, RestKeeps DEF VInv, IsFile
<1> QED BY <1>1, BuildKeeps, TurnKeeps, AskKeeps, ServeKeeps, OpenCacheKeeps, CheckAgeKeeps,
           DownloadKeeps, WrittenKeeps, TickKeeps, StopKeeps DEF VendorsNext, ToolNames

-----------------------------------------------------------------------------
(* The theorems.                                                           *)

\* The inductive invariant: what every call on its way has been told, where the
\* vendors still to come were named, and what the rows it holds can be.
THEOREM CallsAreSound == VendorsSpec => []VInv
<1>1. VendorsInit => VInv
  BY InitVInv
<1>2. VInv /\ [VendorsNext]_venvars => VInv'
  BY StepKeeps
<1> QED BY <1>1, <1>2, PTL DEF VendorsSpec

\* route_to_vendor: no data is said only when a vendor said so and none had an
\* answer; an abort, or unavailable, met no vendor with an answer or with none;
\* an optional category aborts only when no vendor was tried.
THEOREM VerdictIsJustifiedThm == VendorsSpec => []VerdictIsJustified
<1>1. VInv => VerdictIsJustified
  BY DEF VInv, CallInv, Justified, VerdictIsJustified, Done
<1> QED BY <1>1, CallsAreSound, PTL

\* A vendor that answered was named by the run's configuration over the default,
\* or by the configuration of another graph of the process.
THEOREM VendorsAreChosenThm == VendorsSpec => []VendorsAreChosen
<1>1. ASSUME VInv, NEW c \in Done, call[c].got.by # None, call[c].tool \notin DOMAIN Direct
      PROVE  \/ Allows(Merged(Default, config[turn.run]), call[c].tool, call[c].got.by)
             \/ \E r \in Run \ {turn.run} :
                   config[r] # None /\ Allows(config[r], call[c].tool, call[c].got.by)
  <2>1. SettingsInv /\ TurnKnown /\ Chosen(call[c].tool, call[c].got.by)
    BY <1>1 DEF VInv, CallInv, ByChosen, Done
  <2> QED BY <1>1, <2>1, ChosenIsAllowed
<1>2. VInv => VendorsAreChosen
  BY <1>1 DEF VendorsAreChosen
<1> QED BY <1>2, CallsAreSound, PTL

\* Whatever torn file was read: bars of an indicator or of Yahoo never reach past
\* the day they were loaded for, Yahoo's end near it, those of the current day are no
\* older than the time to live unless the file was renewed meanwhile, and the day is
\* the trade date or, for an indicator that fell back, one of its look-back.
THEOREM BarsAreDueThm == VendorsSpec => []BarsAreDue
<1>1. VInv => BarsAreDue
  BY DEF VInv, CallInv, BarsDue, BarTool, BarsAreDue, Done
<1> QED BY <1>1, CallsAreSound, PTL
=============================================================================
