---------------------------- MODULE SourceImport ----------------------------
(***************************************************************************)
(* CapitalIQImporter.import_file (ingestion.py), the source manifest and   *)
(* the two tables that syncs write too: index_membership and the prices.   *)
(* A file is known by its SHA-256.  The rows, the issue and the manifest   *)
(* entry are separate transactions: an import may stop after any of them,  *)
(* and the server and the command line may import at the same time.        *)
(***************************************************************************)
EXTENDS Integers

CONSTANTS File,       \* contents, told apart by their digest
          Dataset,    \* DatasetKind
          Request,    \* <<file, dataset>>: what callers say their files hold
          Fits,       \* those for which no required column is missing
          Importer,   \* the processes that import: the API and the CLI
          Provider,   \* the price syncs
          Ticker,
          Entity,     \* Capital IQ company ids
          Horizon,    \* the calendar's last day
          Names,      \* per fitting request, the [ticker, company, at] of its rows
          Spells,     \* ... its index_membership rows
          Closes,     \* ... its price rows
          MaxCalls, MaxStops,
          Unknown

Day == 0 .. Horizon
Forever == Horizon + 1   \* member_to NULL
Licensed == -1           \* source of a member row that a workbook brought
Entry == [dataset : Dataset, status : {"accepted", "rejected"}]

\* An export tells one ticker of a company per effective_at; the rows of one export
\* have different primary keys.
ASSUME ImportAssumption ==
    /\ Request \subseteq File \X Dataset /\ Fits \subseteq Request /\ Unknown \notin Entry
    /\ Importer \cap Provider = {}
    /\ Horizon \in Nat /\ MaxCalls \in Nat /\ MaxStops \in Nat
    /\ Names \in [Fits -> SUBSET [ticker : Ticker, company : Entity, at : Day]]
    /\ \A p \in Fits : \A q \in {x \in Fits : x[2] = p[2]} :
         \A n \in Names[p], m \in Names[q] : n.company = m.company /\ n.at = m.at => n = m
    /\ \A p \in Fits : \A r \in Spells[p] :
         p[2] = "index_membership" /\ r.source = Licensed /\ r.from \in Day /\ r.to \in Day \cup {Forever}
    /\ \A p \in Fits : \A r \in Closes[p] : p[2] = "prices" /\ r.source = "capital_iq"

VARIABLES backend,   \* create_store: "duckdb" or "postgres"
          sources,   \* source_files: per digest, the dataset and status of its entry
          rows,      \* requests whose rows were inserted
          issues,    \* requests with a MISSING_REQUIRED_COLUMNS issue
          universe,  \* index_membership
          lake,      \* prices: a table in DuckDB, a Parquet file next to Postgres
          temp,      \* the file next to the lake that is to replace it, if there is one
          merging,   \* processes between writing that file and putting it in place
          pc, job,   \* what each importer does, and for which request
          calls, stops,
          excused,   \* history: files imported twice at once, or whose import stopped
          brought,   \* history: keys of the price rows of registered files
          raced      \* history: two processes replaced the lake at once

tables == <<backend, universe, lake, temp, merging, brought, raced>>
manifest == <<sources, rows, issues>>
impvars == <<manifest, pc, job, calls, excused>>
storevars == <<tables, impvars, stops>>

-----------------------------------------------------------------------------
(* The store.                                                              *)

\* INSERT OR REPLACE by (company_id, index_code, member_from).
MemberKey(r) == <<r.company, r.from>>
UpsertMembers(incoming) ==
    incoming \cup {r \in universe : \A i \in incoming : MemberKey(i) # MemberKey(r)}

\* The primary key of prices, and of the lake's deduplication.
Key(r) == <<r.company, r.day, r.source>>
Overwrite(table, incoming) == incoming
Upsert(table, incoming) ==
    incoming \cup {r \in table : \A i \in incoming : Key(i) # Key(r)}

\* ParquetPriceLake.persist writes the lake and the new rows to a file next to it,
\* under a lock that other processes do not share ...
WriteTemp(w, incoming) ==
    /\ temp' = {Upsert(lake, incoming)}
    /\ raced' = (raced \/ merging # {})
    /\ merging' = merging \cup {w}
\* ... which then takes the lake's place; it is gone if another process, whose file
\* has the same name, was faster: then the call raises.
TakePlace(w) ==
    /\ lake' = IF temp = {} THEN lake ELSE UNION temp
    /\ temp' = {}
    /\ merging' = merging \ {w}

-----------------------------------------------------------------------------
ImportInit ==
    /\ backend \in {"duckdb", "postgres"}
    /\ sources = [f \in File |-> Unknown]
    /\ rows = {} /\ issues = {}
    /\ universe = {} /\ lake = {} /\ temp = {} /\ merging = {}
    /\ pc = [i \in Importer |-> "idle"]
    /\ job = [i \in Importer |-> Unknown]
    /\ calls = 0 /\ stops = 0
    /\ excused = {} /\ brought = {} /\ raced = FALSE

Goto(i, label) == pc' = [pc EXCEPT ![i] = label]
Done(i) == Goto(i, "idle") /\ job' = [job EXCEPT ![i] = Unknown]

\* History: two imports of one file are under way.
Meets(i, f) == \E j \in Importer \ {i} : pc[j] # "idle" /\ job[j][1] = f
Start(i, p) ==
    /\ job' = [job EXCEPT ![i] = p]
    /\ Goto(i, "reading")
    /\ excused' = IF Meets(i, p[1]) THEN excused \cup {p[1]} ELSE excused

CallWithoutLookup(i) ==
    /\ pc[i] = "idle" /\ calls < MaxCalls
    /\ calls' = calls + 1
    /\ \E p \in Request : Start(i, p)
    /\ UNCHANGED <<manifest, stops, tables>>
\* The call hashes its file and looks the digest up.  An entry of whatever status
\* and dataset answers the call; only an unknown digest is imported.
Call(i) ==
    /\ pc[i] = "idle" /\ calls < MaxCalls
    /\ calls' = calls + 1
    /\ \E p \in Request :
         IF sources[p[1]] # Unknown THEN UNCHANGED <<pc, job, excused>> ELSE Start(i, p)
    /\ UNCHANGED <<manifest, stops, tables>>

\* The file is archived, read and renamed to the contract's columns.
Archive(i) ==
    /\ pc[i] = "reading"
    /\ Goto(i, IF job[i] \in Fits THEN "loading" ELSE "rejecting")
    /\ UNCHANGED <<manifest, job, calls, excused, stops, tables>>

\* Missing columns: an ERROR issue, then an entry with no rows, then ValueError.
RecordIssue(i) ==
    /\ pc[i] = "rejecting"
    /\ issues' = issues \cup {job[i]}
    /\ Goto(i, "rejected")
    /\ UNCHANGED <<sources, rows, job, calls, excused, stops, tables>>

\* ON CONFLICT (source_file_id) DO UPDATE: an entry replaces that of another dataset.
Register(i, status) == sources' = [sources EXCEPT ![job[i][1]] = [dataset |-> job[i][2], status |-> status]]

RegisterRejected(i) ==
    /\ pc[i] = "rejected"
    /\ Register(i, "rejected")
    /\ Done(i)
    /\ UNCHANGED <<rows, issues, calls, excused, stops, tables>>

\* insert_frame, then register_source_file: two transactions.
RegisterFirst(i) ==
    /\ pc[i] \in {"loading", "registering"}
    /\ Register(i, "accepted")
    /\ Done(i)
    /\ UNCHANGED <<rows, issues, calls, excused, stops, tables>>
Load(i) ==
    /\ pc[i] = "loading"
    /\ backend = "duckdb" \/ Closes[job[i]] = {}
    /\ rows' = rows \cup {job[i]}
    /\ universe' = UpsertMembers(Spells[job[i]])
    /\ lake' = Upsert(lake, Closes[job[i]])
    /\ Goto(i, "registering")
    /\ UNCHANGED <<backend, sources, issues, temp, merging, job, calls, stops, excused, brought, raced>>

\* Next to Postgres the prices are a file.
WriteCloses(i) ==
    /\ pc[i] = "loading" /\ backend = "postgres" /\ Closes[job[i]] # {}
    /\ WriteTemp(i, Closes[job[i]])
    /\ Goto(i, "replacing")
    /\ UNCHANGED <<backend, manifest, universe, lake, job, calls, stops, excused, brought>>
ReplaceCloses(i) ==
    /\ pc[i] = "replacing"
    /\ TakePlace(i)
    /\ IF temp = {} THEN Done(i) /\ UNCHANGED rows
       ELSE Goto(i, "registering") /\ rows' = rows \cup {job[i]} /\ UNCHANGED job
    /\ UNCHANGED <<backend, sources, issues, universe, calls, stops, excused, brought, raced>>

RegisterAccepted(i) ==
    /\ pc[i] = "registering"
    /\ Register(i, "accepted")
    /\ brought' = brought \cup {Key(r) : r \in Closes[job[i]]}
    /\ Done(i)
    /\ UNCHANGED <<rows, issues, calls, excused, stops, backend, universe, lake, temp, merging, raced>>

\* The process stops, or the importer or the store raises (an unreadable workbook,
\* a lost connection, a database file another process holds), between two writes.
\* A file next to the lake stays where it is.
Stop(i) ==
    /\ pc[i] # "idle" /\ stops < MaxStops
    /\ stops' = stops + 1
    /\ excused' = excused \cup {job[i][1]}
    /\ merging' = merging \ {i}
    /\ Done(i)
    /\ UNCHANGED <<manifest, calls, backend, universe, lake, temp, brought, raced>>

ImporterStep(i) ==
    \/ Call(i) \/ Archive(i) \/ RecordIssue(i) \/ RegisterRejected(i)
    \/ Load(i) \/ WriteCloses(i) \/ ReplaceCloses(i) \/ RegisterAccepted(i) \/ Stop(i)
ImportNext == \E i \in Importer : ImporterStep(i)

-----------------------------------------------------------------------------
ImportTypeOK ==
    /\ sources \in [File -> Entry \cup {Unknown}]
    /\ rows \subseteq Fits /\ issues \subseteq Request \ Fits
    /\ pc \in [Importer -> {"idle", "reading", "rejecting", "rejected", "loading", "replacing", "registering"}]
    /\ job \in [Importer -> Request \cup {Unknown}]
    /\ \A i \in Importer : pc[i] # "idle" => job[i] \in Request
    /\ excused \subseteq File
    /\ calls \in 0..MaxCalls /\ stops \in 0..MaxStops

\* An entry the manifest calls accepted has its rows, whatever stopped or ran at
\* the same time; one it calls rejected has an issue that says why, and no rows.
ManifestIsTrue ==
    \A f \in File : sources[f] # Unknown =>
        LET p == <<f, sources[f].dataset>> IN
        IF sources[f].status = "accepted" THEN p \in rows ELSE p \in issues /\ p \notin rows

\* Rows that were inserted are those of an accepted entry of their own dataset, or of
\* an import about to write it, unless that import met another of the same file, whose
\* entry replaced this one, or one of them stopped.
RowsAreRegistered ==
    \A p \in rows :
        \/ sources[p[1]] = [dataset |-> p[2], status |-> "accepted"]
        \/ p[1] \in excused
        \/ \E i \in Importer : pc[i] = "registering" /\ job[i] = p
=============================================================================
