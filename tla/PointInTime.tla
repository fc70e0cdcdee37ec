---------------------------- MODULE PointInTime ----------------------------
(***************************************************************************)
(* One point-in-time table, fundamentals or estimates: the rows an import  *)
(* merges into it by primary key (ingestion.py, storage.py) and what the   *)
(* factor engine sees of it at a signal date (factors.py).                 *)
(*                                                                         *)
(* One company and one metric; other companies and metrics never meet a    *)
(* row's key nor its rank.  A row's value is the import it came from.      *)
(* effective is the day the observation became available, asOf the day of  *)
(* the snapshot the row was exported in.                                   *)
(***************************************************************************)
EXTENDS Integers

CONSTANTS
    Date,        \* dates
    Period,      \* fiscal period ends, period_end or fiscal_period
    PeriodType,  \* period_type of a fundamental: annual, quarterly ...
    MaxFiles     \* bound: files imported

ASSUME DatesAreOrdered == Date \subseteq Int /\ Period \subseteq Int
ASSUME MaxFilesIsNat == MaxFiles \in Nat

VARIABLES
    table,    \* the table's name, which fixes its primary key
    rows,     \* its rows
    imports   \* files imported so far: the clock of ingested_at

pitVars == <<table, rows, imports>>

Row == [period : Period, type : PeriodType, effective : Date, asOf : Date,
        ingested : 1 .. MaxFiles]

\* Estimates carry no period type: all their rows have the same one.
NoType == CHOOSE t \in PeriodType : TRUE

-----------------------------------------------------------------------------
(* The primary keys, the same in DuckDB and in Supabase.                   *)

KeyBeforeMigration(r) == <<r.period, r.type, r.effective>>
FundamentalKey(r) == <<r.period, r.type, r.effective, r.asOf>>
EstimateKey(r) == <<r.period, r.effective>>

SameKey(r, q) ==
    IF table = "fundamentals" THEN FundamentalKey(r) = FundamentalKey(q)
    ELSE EstimateKey(r) = EstimateKey(q)

\* insert_frame: INSERT OR REPLACE, ON CONFLICT DO UPDATE.
Merged(incoming) ==
    incoming \cup {r \in rows : \A q \in incoming : ~SameKey(r, q)}

\* The importer rejects rows that claim to be effective after their snapshot.
Accepted(file) == {r \in file : r.effective <= r.asOf}

-----------------------------------------------------------------------------
PointInTimeInit ==
    /\ table \in {"fundamentals", "estimates"}
    /\ rows = {}
    /\ imports = 0

\* One file: its accepted rows share an ingested_at and are merged at once.
\* Within a file a key occurs once (drop_duplicates before the upsert).
ImportFile(file) ==
    /\ imports < MaxFiles
    /\ \A r \in file : r.ingested = imports + 1
    /\ table = "estimates" => \A r \in file : r.type = NoType
    /\ \A r, q \in file : SameKey(r, q) => r = q
    /\ rows' = Merged(Accepted(file))
    /\ imports' = imports + 1
    /\ UNCHANGED table

\* Bound: a file brings at most two rows of this company and metric.
Fresh == {r \in Row : r.ingested = imports + 1}

PointInTimeNext == \E r, q \in Fresh : ImportFile({r, q})

PointInTimeSpec == PointInTimeInit /\ [][PointInTimeNext]_pitVars

-----------------------------------------------------------------------------
(* What _latest_metrics takes at a signal: of the rows available by then,  *)
(* the first in the order of its ranking.                                  *)

Visible(signal) == {r \in rows : r.effective <= signal /\ r.asOf <= signal}

BySnapshot(r, q) ==
    \/ r.asOf > q.asOf
    \/ r.asOf = q.asOf /\ r.period > q.period
    \/ r.asOf = q.asOf /\ r.period = q.period /\ r.effective > q.effective

\* r ranks before q: period, effective_at, as_of_date, ingested_at, all
\* descending.  period_type is not ranked, so two rows may tie.
Before(r, q) ==
    \/ r.period > q.period
    \/ /\ r.period = q.period
       /\ \/ r.effective > q.effective
          \/ r.effective = q.effective /\ r.asOf > q.asOf
          \/ /\ r.effective = q.effective /\ r.asOf = q.asOf
             /\ r.ingested > q.ingested

\* The rows that may be taken: one, unless rows tie.
Latest(signal) == {r \in Visible(signal) : ~\E q \in Visible(signal) : Before(q, r)}

-----------------------------------------------------------------------------
\* The rows are rows the importer lets in, one for each primary key, and none
\* is newer than the last import.
PointInTimeTypeOK ==
    /\ table \in {"fundamentals", "estimates"}
    /\ imports \in 0 .. MaxFiles
    /\ rows \subseteq Row
    /\ \A r \in rows : r.effective <= r.asOf /\ r.ingested <= imports
    /\ \A r, q \in rows : SameKey(r, q) => r = q

\* The past is closed: importing fundamentals exported after a signal never
\* changes what that signal sees, so a backtest can be run again after newer
\* snapshots have arrived (migrations/002_fundamentals_snapshot_key.sql).
PastIsClosed ==
    [][table = "fundamentals" =>
         \A s \in Date : (\A r \in rows' \ rows : r.asOf > s) => Latest(s)' = Latest(s)]_pitVars

\* A later signal never falls back to an older fiscal period than an earlier
\* signal used, whatever restatements have arrived since (factors.py:160-172).
NewestPeriodWins ==
    \A s, t \in Date : s <= t =>
      \A r \in Latest(s), q \in Latest(t) : r.period <= q.period

\* "effective_at means the first timestamp at which the observation was
\* available to the strategy" (docs/CIQ_EXPORT_TEMPLATES.md:17): a signal that
\* had an estimate still has one after a later export of it.
AvailableStaysAvailable ==
    [][\A s \in Date : Latest(s) # {} => Latest(s)' # {}]_pitVars
=============================================================================
