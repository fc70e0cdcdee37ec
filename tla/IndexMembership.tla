--------------------------- MODULE IndexMembership ---------------------------
(***************************************************************************)
(* PublicSP500MembershipSync (index_data.py): the historical index members *)
(* are rebuilt from a pinned event log and replace those of earlier        *)
(* bundles.  Reading the identities, deleting, inserting and registering   *)
(* are separate transactions of a command-line process, next to which      *)
(* workbooks are imported and other syncs run.                             *)
(*                                                                         *)
(* A bundle is known by its coverage end, on which its digest depends.     *)
(***************************************************************************)
EXTENDS SourceImport, FiniteSets

CONSTANTS
    Canonical,          \* canonical_groups: the ticker that stands for a ticker's group
    Rank, Place,        \* alphabetical order of tickers, and of company ids
    Seed,               \* the roster of day 0
    Upstream, Overrides,\* per day, the tickers [removed, added] by the log and by official overrides
    Current,            \* sp500_current.csv
    MinSecurities, MaxCompanies,  \* the sanity band
    Syncer, MaxSyncs

Changes == [Day -> [removed : SUBSET Ticker, added : SUBSET Ticker]]
Public(t) == <<"PUBLICSP500", t>>

ASSUME MembershipAssumption ==
    /\ MaxSyncs \in Nat /\ MinSecurities \in Nat /\ MaxCompanies \in Nat
    /\ Canonical \in [Ticker -> Ticker] /\ \A t \in Ticker : Canonical[Canonical[t]] = Canonical[t]
    /\ Rank \in [Ticker -> Nat] /\ Place \in [Entity \cup {Public(t) : t \in Ticker} -> Nat]
    /\ Seed \subseteq Ticker /\ Current \subseteq Ticker
    /\ Upstream \in Changes /\ Overrides \in Changes

VARIABLES
    bundles,    \* public reconstructions in the source manifest
    step, plan, \* per sync: where it is; its bundle, the identities and prior bundles it read
    syncs,
    alone,      \* history: the syncs that had their writes to themselves
    orphaned,   \* history: bundles whose rows a stop left without an entry
    torn,       \* history: the last writes were stopped or overlapped
    last        \* history: bundle and identities of the last sync that registered

memvars == <<bundles, step, plan, syncs, alone, orphaned, torn, last>>

First(tickers) == CHOOSE t \in tickers : \A u \in tickers : Rank[t] <= Rank[u]

-----------------------------------------------------------------------------
(* _ticker_company_map.  Prices that a sync booked under a company id are  *)
(* read back as identities, where prices are a table of the database.      *)

Brought(dataset) == UNION {Names[p] : p \in {q \in rows : q[2] = dataset}}
Sources == <<Brought("instruments"), Brought("fundamentals"), Brought("estimates"),
             IF backend = "duckdb" THEN lake ELSE {}>>
Ids(table, t) == {n.company : n \in {m \in table : m.ticker = t}}

\* The least id in the first table that names the ticker.
Identified(named) == UNION {{n.ticker : n \in named[k]} : k \in DOMAIN named}
FirstId(named, t) ==
    LET k == CHOOSE k \in DOMAIN named :
               Ids(named[k], t) # {} /\ \A j \in 1 .. k - 1 : Ids(named[j], t) = {}
    IN CHOOSE c \in Ids(named[k], t) : \A e \in Ids(named[k], t) : Place[c] <= Place[e]

\* A group has the id of its canonical ticker, otherwise that of its first ticker
\* that has one, otherwise a public one.
Identities ==
    LET named == Sources
        identified == Identified(named)
        Standing(t) == LET group == {u \in identified : Canonical[u] = Canonical[t]}
                       IN IF Canonical[t] \in group THEN Canonical[t] ELSE First(group)
    IN [t \in Ticker |-> IF \E u \in identified : Canonical[u] = Canonical[t]
                         THEN FirstId(named, Standing(t)) ELSE Public(Canonical[t])]

-----------------------------------------------------------------------------
(* The reconstruction, under the identities known.                         *)

\* The ticker that stands for a company: a canonical one if it is in the roster.
Representative(company, roster, known) ==
    LET classes == {t \in roster : known[t] = company}
        preferred == {Canonical[t] : t \in classes} \cap classes
    IN First(IF preferred # {} THEN preferred ELSE classes)
Collapsed(roster, known) ==
    {[company |-> c, ticker |-> Representative(c, roster, known)] : c \in {known[t] : t \in roster}}

\* Removals come before additions within a day.
After(roster, d) ==
    (roster \ (Upstream[d].removed \cup Overrides[d].removed))
        \cup Upstream[d].added \cup Overrides[d].added
Roster[d \in Day] == IF d = 0 THEN Seed ELSE After(Roster[d - 1], d)

\* An interval stays open while its company is a member under the same ticker.
CompanyStays(a, members) == \E m \in members : m.company = a.company
Stays(a, members) == [company |-> a.company, ticker |-> a.ticker] \in members

Close(a, to) == [company |-> a.company, ticker |-> a.ticker, from |-> a.from, to |-> to]

\* A member whose company leaves, or goes on under another ticker, is closed the
\* day before; companies not active are opened.  Days without events change nothing.
Play(before, members, d) ==
    LET stay  == {a \in before.active : Stays(a, members)}
        enter == {m \in members : \A a \in stay : a.company # m.company}
    IN [active |-> stay \cup
          {[company |-> m.company, ticker |-> m.ticker, from |-> d] : m \in enter},
        closed |-> before.closed \cup {Close(a, d - 1) : a \in before.active \ stay}]
Replay(known) ==
    LET played[d \in Day] ==
          Play(IF d = 0 THEN [active |-> {}, closed |-> {}] ELSE played[d - 1],
               Collapsed(Roster[d], known), d)
    IN played
Intervals(end, known) ==
    Replay(known)[end].closed \cup {Close(a, Forever) : a \in Replay(known)[end].active}

\* Refused: events without effect, too few securities or too many companies, an end
\* roster that is not the current one with the overrides so far.
Effective(d) ==
    LET removed == Upstream[d].removed \cup Overrides[d].removed
        added   == Upstream[d].added \cup Overrides[d].added
    IN removed \subseteq Roster[d - 1] /\ added \cap (Roster[d - 1] \ removed) = {}
Overridden[d \in Day] ==
    ((IF d = 0 THEN Current ELSE Overridden[d - 1]) \ Overrides[d].removed) \cup Overrides[d].added
Reconciles(end, known) ==
    /\ \A d \in 1 .. end : Effective(d)
    /\ Roster[end] = Overridden[end]
    /\ \A d \in 0 .. end : /\ Cardinality(Roster[d]) >= MinSecurities
                           /\ Cardinality({known[t] : t \in Roster[d]}) <= MaxCompanies

-----------------------------------------------------------------------------
(* The sync.                                                               *)

Writing == {"deleting", "inserting", "registering"}
Alone(s) == \A t \in Syncer \ {s} : step[t] \notin Writing

NoPlan == [end |-> 0, known |-> <<>>, prior |-> {}]

MembershipInit ==
    /\ bundles = {}
    /\ step = [s \in Syncer |-> "idle"]
    /\ plan = [s \in Syncer |-> NoPlan]
    /\ syncs = 0
    /\ alone = {} /\ orphaned = {} /\ torn = FALSE
    /\ last = [end |-> 0, known |-> <<>>]

\* A bundle the manifest knows answers the call, unless identities are refreshed;
\* a bundle that does not reconcile is refused before anything is written.
SyncIndex(s, end, refresh) ==
    /\ step[s] = "idle" /\ syncs < MaxSyncs
    /\ syncs' = syncs + 1
    /\ end \in bundles => refresh
    /\ LET known == Identities IN
         /\ Reconciles(end, known)
         /\ plan' = [plan EXCEPT ![s] = [end |-> end, known |-> known, prior |-> {}]]
    /\ step' = [step EXCEPT ![s] = "planned"]
    /\ UNCHANGED <<tables, bundles, alone, orphaned, torn, last>>

\* The sources to supersede are those registered now; the bundle is archived before.
ReadPrior(s) ==
    /\ step[s] = "planned"
    /\ plan' = [plan EXCEPT ![s].prior = bundles]
    /\ step' = [step EXCEPT ![s] = "deleting"]
    /\ alone' = IF Alone(s) /\ orphaned \subseteq bundles THEN alone \cup {s} ELSE {}
    /\ torn' = (torn \/ ~Alone(s))
    /\ UNCHANGED <<tables, bundles, syncs, orphaned, last>>

DeleteSuperseded(s) ==
    /\ step[s] = "deleting"
    /\ universe' = {r \in universe : r.source \notin plan[s].prior}
    /\ orphaned' = orphaned \ plan[s].prior
    /\ step' = [step EXCEPT ![s] = "inserting"]
    /\ UNCHANGED <<backend, lake, temp, merging, brought, raced, bundles, plan, syncs, alone, torn, last>>

\* The rows of a bundle read under these identities.
Frame(b) ==
    {[company |-> i.company, ticker |-> i.ticker, from |-> i.from, to |-> i.to, source |-> b.end] :
       i \in Intervals(b.end, b.known)}

InsertIntervals(s) ==
    /\ step[s] = "inserting"
    /\ universe' = UpsertMembers(Frame(plan[s]))
    /\ step' = [step EXCEPT ![s] = "registering"]
    /\ UNCHANGED <<backend, lake, temp, merging, brought, raced,
                  bundles, plan, syncs, alone, orphaned, torn, last>>

\* The manifest entry; issues that only warn follow it.
RegisterBundle(s) ==
    /\ step[s] = "registering"
    /\ bundles' = bundles \cup {plan[s].end}
    /\ step' = [step EXCEPT ![s] = "idle"]
    /\ alone' = alone \ {s}
    /\ torn' = (s \notin alone)
    /\ last' = [end |-> plan[s].end, known |-> plan[s].known]
    /\ plan' = [plan EXCEPT ![s] = NoPlan]
    /\ UNCHANGED <<tables, syncs, orphaned>>

\* The process stops, or the store raises, anywhere.
StopSync(s) ==
    /\ step[s] # "idle" /\ stops < MaxStops
    /\ stops' = stops + 1
    /\ step' = [step EXCEPT ![s] = "idle"]
    /\ alone' = alone \ {s}
    /\ torn' = (torn \/ step[s] \in {"inserting", "registering"})
    /\ orphaned' = IF step[s] = "registering" /\ plan[s].end \notin bundles
                   THEN orphaned \cup {plan[s].end} ELSE orphaned
    /\ plan' = [plan EXCEPT ![s] = NoPlan]
    /\ UNCHANGED <<tables, bundles, syncs, last>>

SyncStep(s) ==
    \/ \E end \in Day, refresh \in BOOLEAN : SyncIndex(s, end, refresh)
    \/ ReadPrior(s) \/ DeleteSuperseded(s) \/ InsertIntervals(s) \/ RegisterBundle(s)
MembershipNext ==
    \/ ImportNext /\ UNCHANGED memvars
    \/ \E s \in Syncer : SyncStep(s) /\ UNCHANGED <<impvars, stops>>
    \/ \E s \in Syncer : StopSync(s) /\ UNCHANGED impvars

-----------------------------------------------------------------------------
Covers(r, d) == r.from <= d /\ d <= r.to
Named(r) == [company |-> r.company, ticker |-> r.ticker]
Whole == ~torn /\ \A s \in Syncer : step[s] \notin Writing

Reconstructed == {r \in universe : r.source # Licensed}

\* What a bundle, read under these identities, says of a day; after its coverage, what
\* it says of its last.
Shown(b, d) == Collapsed(Roster[IF d < b.end THEN d ELSE b.end], b.known)

\* Once a sync has run through, on every day its rows tell exactly the companies of that
\* day's roster, each once and under the ticker it had, but for intervals whose key a
\* workbook's row has taken: whatever bundles, identities and workbooks were loaded
\* earlier, whatever prices gave their identities, whatever stopped in between, unless
\* the last writes were stopped or two syncs overlapped.
UniverseIsTheRoster ==
    Whole /\ bundles # {} =>
      \A d \in Day :
        LET today == {r \in Reconstructed : Covers(r, d)} IN
        /\ \A r \in today : Named(r) \in Shown(last, d)
        /\ \A r, q \in today : r.company = q.company => r = q
        /\ \A m \in Shown(last, d) :
             \/ \E r \in today : Named(r) = m
             \/ \E w \in universe \ Reconstructed :
                  w.company = m.company /\ w.from <= d /\ \A x \in w.from .. d : m \in Shown(last, x)
=============================================================================
