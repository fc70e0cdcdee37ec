----------------------------- MODULE MarketData -----------------------------
(***************************************************************************)
(* The price syncs (market_data.py).  A sync asks a provider for the bars  *)
(* of every symbol the store knows, gives each bar a company and the       *)
(* ticker of its day, merges the rows into the prices, registers the file  *)
(* and checks it for extreme returns.  It reads the symbols, the members   *)
(* for its tickers and the members for its check at three different times, *)
(* next to imports and index syncs.  SPY, which is always asked for, has   *)
(* no part in this.                                                        *)
(***************************************************************************)
EXTENDS IndexMembership

CONSTANTS
    Quote,      \* adjusted close per <<ticker, day>> for which a provider, asked, has a bar
    Lookback,   \* days before membership for which prices are kept
    Tolerant,   \* providers that leave out a symbol they have no answer for (Yahoo);
                \* with the others (Alpaca) the sync fails as a whole
    Flaky,      \* bound: symbols that may be left out
    MaxPriceSyncs,
    MaxBusy, MaxCommands   \* bounds: commands that run at once, and in all

ASSUME MarketAssumption ==
    /\ DOMAIN Quote \subseteq Ticker \X Day /\ \A b \in DOMAIN Quote : Quote[b] \in Nat
    /\ Lookback \in Nat /\ MaxPriceSyncs \in Nat /\ Tolerant \subseteq Provider /\ Flaky \subseteq Ticker

VARIABLES
    files,     \* price files in the manifest, by digest
    flagged,   \* digests with an ADJUSTED_PRICE_RETURN_OUTLIER error
    at, fetch, \* per provider's sync: where it is, what it has read and fetched
    pricesyncs,
    merged,    \* history: the frames that syncs merged into the prices
    joined,    \* history: the rows joined to a whole reconstruction, and which one
    views      \* history: the instruments and members that price syncs read

history == <<merged, joined, views>>
pricevars == <<files, flagged, at, fetch, pricesyncs, history>>

-----------------------------------------------------------------------------
(* historical_symbol_map, ticker_at_price_date.                            *)

\* A symbol is that of the instrument with the latest effective_at, otherwise that of
\* the company it has been a member for most recently: a ticker can pass from one
\* company to another.
Instruments == Brought("instruments")
Symbols == {n.ticker : n \in Instruments} \cup {r.ticker : r \in universe}
SymbolMap == [t \in Symbols |->
    IF \E n \in Instruments : n.ticker = t
    THEN (CHOOSE n \in Instruments : n.ticker = t /\ \A o \in Instruments : o.ticker = t => o.at <= n.at).company
    ELSE (CHOOSE r \in universe : r.ticker = t /\ \A q \in universe : q.ticker = t => q.from <= r.from).company]

Rejected == "rejected"
TickerAsked(company, ticker, d, members) == ticker
\* The ticker a company had on a day.  A day outside a known ticker's validity, but
\* for the lookback before it, is rejected; an unknown ticker is taken as it is.
TickerAt(company, ticker, d, members) ==
    LET validity == {r \in members : r.company = company /\ r.ticker = ticker}
        that_day == {r \in members : r.company = company /\ Covers(r, d)}
    IN IF validity # {} /\ \A r \in validity : d < r.from - Lookback \/ d > r.to THEN Rejected
       ELSE IF validity # {} /\ that_day # {} THEN (CHOOSE r \in that_day : TRUE).ticker
       ELSE ticker

\* A file's rows; of those of one company, ticker and day the symbol that comes last wins.
Joined(p, map, members) ==
    LET row(t, d) == [company |-> map[t], ticker |-> TickerAt(map[t], t, d, members),
                      symbol |-> t, day |-> d, source |-> p]
        all == {row(b[1], b[2]) : b \in {x \in DOMAIN Quote : x[1] \in DOMAIN map}}
        kept == {r \in all : r.ticker # Rejected}
    IN {r \in kept : \A q \in kept :
          q.company = r.company /\ q.ticker = r.ticker /\ q.day = r.day => Rank[q.symbol] <= Rank[r.symbol]}

\* Rows of one company and day collide in the primary key: again the last one wins.
Stored(frame) ==
    {r \in frame : \A q \in frame : Key(q) = Key(r) => Rank[q.symbol] <= Rank[r.symbol]}

-----------------------------------------------------------------------------
Nothing == [map |-> <<>>, rows |-> {}, file |-> <<>>]

MarketInit ==
    /\ files = {} /\ flagged = {}
    /\ at = [p \in Provider |-> "idle"]
    /\ fetch = [p \in Provider |-> Nothing]
    /\ pricesyncs = 0
    /\ merged = {} /\ joined = {} /\ views = {}

View == <<Instruments, universe>>
Look == views' = views \cup {View}

Move(p, label) == at' = [at EXCEPT ![p] = label]
End(p) == Move(p, "idle") /\ fetch' = [fetch EXCEPT ![p] = Nothing]

\* Alpaca's sync raises when the store knows no symbol.
SyncPrices(p) ==
    /\ at[p] = "idle" /\ pricesyncs < MaxPriceSyncs
    /\ p \notin Tolerant => Symbols # {}
    /\ pricesyncs' = pricesyncs + 1
    /\ fetch' = [fetch EXCEPT ![p].map = SymbolMap]
    /\ Look
    /\ Move(p, "mapped")
    /\ UNCHANGED <<tables, files, flagged, merged, joined>>

\* History: the companies whose members are those of the last reconstruction alone.
Plain(frame) ==
    {r \in frame : Whole /\ bundles # {} /\ \A m \in universe \ Reconstructed : m.company # r.company}

\* The members are read, then the bars are fetched and joined.  The digest is that of
\* the requests and the answers.
FetchBars(p) ==
    /\ at[p] = "mapped"
    /\ \E missing \in SUBSET (Flaky \cap DOMAIN fetch[p].map) :
         LET map  == [t \in DOMAIN fetch[p].map \ missing |-> fetch[p].map[t]]
             bars == Joined(p, map, universe)
         IN /\ missing # {} => p \in Tolerant
            /\ fetch' = [fetch EXCEPT ![p] = [Nothing EXCEPT
                  !.rows = bars, !.file = <<p, DOMAIN fetch[p].map, missing>>]]
            /\ joined' = joined \cup {[rows |-> Plain(bars), bundle |-> last]}
    /\ Look
    /\ Move(p, "fetched")
    /\ UNCHANGED <<tables, files, flagged, pricesyncs, merged>>

\* A request raises (with both providers), or Alpaca answers an error: nothing has
\* been written.
FailFetch(p) ==
    /\ at[p] = "mapped"
    /\ End(p)
    /\ UNCHANGED <<tables, files, flagged, pricesyncs, history>>

\* A file whose digest the manifest has is merged again, and that is all; otherwise it
\* is registered and checked.
Merged(p) ==
    IF fetch[p].file \in files THEN End(p) ELSE Move(p, "registering") /\ UNCHANGED fetch
Merge(p) == merged' = merged \cup {fetch[p].rows}

StoreBars(p) ==
    /\ at[p] = "fetched"
    /\ backend = "duckdb" \/ fetch[p].rows = {}
    /\ lake' = Upsert(lake, Stored(fetch[p].rows))
    /\ Merge(p)
    /\ Merged(p)
    /\ UNCHANGED <<backend, universe, temp, merging, brought, raced, files, flagged, pricesyncs, joined, views>>

\* Next to Postgres, in two steps that other processes share.
MergeIntoLake(p) ==
    /\ at[p] = "fetched" /\ backend = "postgres" /\ fetch[p].rows # {}
    /\ WriteTemp(p, Stored(fetch[p].rows))
    /\ Merge(p)
    /\ Move(p, "merging")
    /\ UNCHANGED <<backend, universe, lake, brought, fetch, files, flagged, pricesyncs, joined, views>>
ReplaceLake(p) ==
    /\ at[p] = "merging"
    /\ TakePlace(p)
    /\ IF temp = {} THEN End(p) ELSE Merged(p)
    /\ UNCHANGED <<backend, universe, brought, raced, files, flagged, pricesyncs, history>>

RegisterPrices(p) ==
    /\ at[p] = "registering"
    /\ files' = files \cup {fetch[p].file}
    /\ brought' = brought \cup {Key(r) : r \in Stored(fetch[p].rows)}
    /\ Move(p, "checking")
    /\ UNCHANGED <<backend, universe, lake, temp, merging, raced, flagged, fetch, pricesyncs, history>>

\* active_membership_return_outliers: moves by more than 300% from one bar to the next
\* that the file has for a company under the same ticker, while it is in the index.
Series(table, r) == {q \in table : q.company = r.company /\ q.ticker = r.ticker}
Before(table, r, q) ==
    q.day < r.day /\ \A x \in Series(table, r) : x.day <= q.day \/ r.day <= x.day
Jumped(table, r) ==
    \E q \in Series(table, r) :
        Before(table, r, q) /\ Quote[<<r.symbol, r.day>>] > 4 * Quote[<<q.symbol, q.day>>]
Active(r) == \E m \in universe : m.company = r.company /\ Covers(m, r.day)
Outliers(table) == {r \in table : Jumped(table, r) /\ Active(r)}

CheckNothing(p) ==
    /\ at[p] = "checking"
    /\ Look
    /\ End(p)
    /\ UNCHANGED <<tables, files, flagged, pricesyncs, merged, joined>>
\* The check reads the members again.
CheckReturns(p) ==
    /\ at[p] = "checking"
    /\ flagged' = IF Outliers(fetch[p].rows) = {} THEN flagged ELSE flagged \cup {fetch[p].file}
    /\ Look
    /\ End(p)
    /\ UNCHANGED <<tables, files, pricesyncs, merged, joined>>

\* The process stops or the store raises.
StopPrices(p) ==
    /\ at[p] # "idle" /\ stops < MaxStops
    /\ stops' = stops + 1
    /\ merging' = merging \ {p}
    /\ End(p)
    /\ UNCHANGED <<backend, universe, lake, temp, brought, raced, files, flagged, pricesyncs, history>>

MarketStep(p) ==
    \/ SyncPrices(p) \/ FetchBars(p) \/ FailFetch(p) \/ StoreBars(p) \/ MergeIntoLake(p)
    \/ ReplaceLake(p) \/ RegisterPrices(p) \/ CheckReturns(p)
Busy == Cardinality({i \in Importer : pc[i] # "idle"}) + Cardinality({s \in Syncer : step[s] # "idle"})
        + Cardinality({p \in Provider : at[p] # "idle"})
DataStep ==
    \/ MembershipNext /\ UNCHANGED pricevars
    \/ \E p \in Provider : MarketStep(p) /\ UNCHANGED <<impvars, memvars, stops>>
    \/ \E p \in Provider : StopPrices(p) /\ UNCHANGED <<impvars, memvars>>
DataNext == DataStep /\ Busy' <= MaxBusy /\ calls' + syncs' + pricesyncs' <= MaxCommands
datavars == <<storevars, memvars, pricevars>>
DataInit == ImportInit /\ MembershipInit /\ MarketInit
DataSpec == DataInit /\ [][DataNext]_datavars

-----------------------------------------------------------------------------
\* What certify_point_in_time asks of members and prices: rows of both, their
\* manifest entries, and no error.
Registered(dataset) == \E f \in File : sources[f] # Unknown /\ sources[f].dataset = dataset
Certified ==
    /\ universe # {} /\ (bundles # {} \/ Registered("index_membership"))
    /\ lake # {} /\ (files # {} \/ Registered("prices"))
    /\ flagged = {} /\ \A p \in issues : p[2] \notin {"index_membership", "prices"}

IsShown(company, ticker, b, d) == [company |-> company, ticker |-> ticker] \in Shown(b, d)

\* A bar whose company the index has shown under the symbol asked for lies on or
\* shortly before a day on which it was: after the company has left, or changed its
\* ticker, no bar of a later owner of the symbol is joined to it.  And on a day on
\* which the company is a member its bar carries the ticker it had.  This is so of
\* every bar joined while the members of its company were a whole reconstruction, under
\* the identities of that reconstruction and not those of now, whichever company the
\* instruments, imports and other syncs gave its symbol.
PricesFollowTheRoster ==
    \A j \in joined : \A r \in j.rows :
      (\E d \in Day : IsShown(r.company, r.symbol, j.bundle, d)) =>
        /\ \E d \in r.day .. r.day + Lookback : d \in Day /\ IsShown(r.company, r.symbol, j.bundle, d)
        /\ (\E m \in Shown(j.bundle, r.day) : m.company = r.company) =>
              IsShown(r.company, r.ticker, j.bundle, r.day)

\* The price rows of every registered file stay, whatever other files are merged over
\* them, unless two processes replaced the lake at once.
BroughtPricesStay == ~raced => brought \subseteq {Key(r) : r \in lake}

\* Members and prices are certified in spite of an extreme return of an active member
\* within a merged file only while that file's check is still to come, or if a price
\* sync read other instruments or members than there are now, a command stopped, or two
\* processes replaced the lake at once.
OutliersBlockCertification ==
    Certified /\ stops = 0 /\ views \subseteq {View} /\ ~raced =>
      \A frame \in merged : Outliers(frame) # {} =>
         \E p \in Provider : at[p] \in {"merging", "registering", "checking"} /\ fetch[p].rows = frame
=============================================================================
