--------------------------- MODULE DataSyncProofs ---------------------------
(***************************************************************************)
(* Proofs about imports, index syncs and price syncs next to each other,   *)
(* for any files, datasets, identities, event logs, providers, bars and    *)
(* number of commands and stops.                                           *)
(*   - The manifest, the rows and the issues agree, although every write   *)
(*     is a transaction of its own and one file may be imported twice.     *)
(*   - Rows put into the prices never take away the rows of another file,  *)
(*     unless two processes replaced the lake at once.                     *)
(*   - Once an index sync has run through, the members of every day are    *)
(*     that day's roster, and prices joined to it carry its tickers.       *)
(*   - Extreme returns are flagged, under the members that the syncs read. *)
(***************************************************************************)
EXTENDS MarketData, WellFoundedInduction, TLAPS

-----------------------------------------------------------------------------
(* Imports.                                                                *)

\* How far an importer has come is backed by what it has written: this is what
\* lets a manifest entry, written last, be true.
ProgressInv ==
    \A i \in Importer :
        /\ pc[i] \in {"loading", "replacing"} => job[i] \in Fits
        /\ pc[i] \in {"rejecting", "rejected"} => job[i] \notin Fits
        /\ pc[i] = "rejected" => job[i] \in issues
        /\ pc[i] = "registering" => job[i] \in rows

\* An import of a file that is not excused is the only one of its file, which the
\* manifest does not have yet: this is what keeps its rows from losing their entry.
OnlyInv ==
    \A i \in Importer : pc[i] # "idle" /\ job[i][1] \notin excused =>
        /\ sources[job[i][1]] = Unknown
        /\ \A j \in Importer : pc[j] # "idle" /\ job[j][1] = job[i][1] => j = i

IInv == ImportTypeOK /\ ProgressInv /\ OnlyInv /\ ManifestIsTrue /\ RowsAreRegistered

LEMMA RequestParts ==
    ASSUME NEW p \in Request
    PROVE  p[1] \in File /\ p[2] \in Dataset /\ p = <<p[1], p[2]>>
BY ImportAssumption

LEMMA InitHolds == ImportInit => IInv
<1> SUFFICES ASSUME ImportInit PROVE IInv
  OBVIOUS
<1>1. ImportTypeOK
  BY ImportAssumption DEF ImportInit, ImportTypeOK
<1>2. ProgressInv /\ OnlyInv /\ ManifestIsTrue /\ RowsAreRegistered
  BY DEF ImportInit, ProgressInv, OnlyInv, ManifestIsTrue, RowsAreRegistered
<1> QED BY <1>1, <1>2 DEF IInv

-----------------------------------------------------------------------------
(* The steps that leave the manifest alone.                                *)

Places == {"idle", "reading", "rejecting", "rejected", "loading", "replacing", "registering"}

\* One importer goes on with its work; rows and issues may be written.
LEMMA GoesOnKeeps ==
    ASSUME IInv, NEW i \in Importer, NEW label \in Places \ {"idle"}, pc[i] # "idle",
           pc[i] # "registering", pc' = [pc EXCEPT ![i] = label], UNCHANGED <<sources, job, calls, excused, stops>>,
           \/ UNCHANGED <<rows, issues>>
           \/ label = "registering" /\ job[i] \in Fits /\ rows' = rows \cup {job[i]} /\ issues' = issues
           \/ label = "rejected" /\ job[i] \notin Fits /\ issues' = issues \cup {job[i]} /\ rows' = rows,
           label \in {"loading", "replacing"} => job[i] \in Fits,
           label \in {"rejecting", "rejected"} => job[i] \notin Fits,
           label = "rejected" => job[i] \in issues',
           label = "registering" => job[i] \in rows'
    PROVE  IInv'
<1>1. /\ pc' \in [Importer -> Places] /\ pc'[i] = label
      /\ \A j \in Importer : j # i => pc'[j] = pc[j]
      /\ rows \subseteq rows' /\ issues \subseteq issues' /\ job[i] \in Request
  BY DEF IInv, ImportTypeOK, Places
<1>2. ImportTypeOK'
  BY <1>1 DEF IInv, ImportTypeOK, Places
<1>3. ProgressInv'
  BY <1>1 DEF IInv, ProgressInv
<1>4. OnlyInv'
  BY <1>1 DEF IInv, OnlyInv
<1>5. ManifestIsTrue'
  <2>1. \A q \in issues : q \notin rows'
    BY DEF IInv, ImportTypeOK
  <2> QED BY <1>1, <2>1 DEF IInv, ManifestIsTrue
<1>6. RowsAreRegistered'
  <2> SUFFICES ASSUME NEW q \in rows', q[1] \notin excused,
                      sources[q[1]] # [dataset |-> q[2], status |-> "accepted"]
               PROVE  \E k \in Importer : pc'[k] = "registering" /\ job[k] = q
    BY DEF RowsAreRegistered
  <2>1. CASE q \in rows
    <3>1. PICK k \in Importer : pc[k] = "registering" /\ job[k] = q
      BY <2>1 DEF IInv, RowsAreRegistered
    <3> QED BY <1>1, <3>1
  <2>2. CASE q \notin rows
    BY <1>1, <2>2
  <2> QED BY <2>1, <2>2
<1> QED BY <1>2, <1>3, <1>4, <1>5, <1>6 DEF IInv

\* One importer gives up, its file excused or without rows of its own.
LEMMA GivesUpKeeps ==
    ASSUME IInv, NEW i \in Importer, Done(i), UNCHANGED <<manifest, calls>>,
           (excused' = excused /\ pc[i] # "registering") \/ excused' = excused \cup {job[i][1]},
           pc[i] # "idle", stops' \in 0 .. MaxStops
    PROVE  IInv'
<1>1. /\ pc' = [pc EXCEPT ![i] = "idle"] /\ job' = [job EXCEPT ![i] = Unknown]
      /\ UNCHANGED <<sources, rows, issues, calls>> /\ job[i][1] \in File
  BY RequestParts DEF Done, Goto, manifest, IInv, ImportTypeOK
<1>2. /\ pc' \in [Importer -> Places] /\ pc'[i] = "idle"
      /\ \A j \in Importer : j # i => pc'[j] = pc[j] /\ job'[j] = job[j]
      /\ job' \in [Importer -> Request \cup {Unknown}]
  BY <1>1 DEF IInv, ImportTypeOK, Places
<1>3. ImportTypeOK'
  BY <1>1, <1>2 DEF IInv, ImportTypeOK, Places
<1>4. ProgressInv'
  BY <1>1, <1>2 DEF IInv, ProgressInv
<1>5. OnlyInv' /\ ManifestIsTrue'
  BY <1>1, <1>2 DEF IInv, OnlyInv, ManifestIsTrue
<1>6. RowsAreRegistered'
  <2> SUFFICES ASSUME NEW q \in rows, q[1] \notin excused',
                      sources[q[1]] # [dataset |-> q[2], status |-> "accepted"]
               PROVE  \E k \in Importer : pc'[k] = "registering" /\ job'[k] = q
    BY <1>1 DEF RowsAreRegistered
  <2>1. PICK k \in Importer : pc[k] = "registering" /\ job[k] = q
    BY DEF IInv, RowsAreRegistered
  <2>2. k # i
    BY <2>1
  <2> QED BY <1>2, <2>1, <2>2
<1> QED BY <1>3, <1>4, <1>5, <1>6 DEF IInv

LEMMA CallKeeps == ASSUME IInv, NEW i \in Importer, Call(i) PROVE IInv'
<1>1. /\ pc[i] = "idle" /\ UNCHANGED <<sources, rows, issues, stops>>
      /\ calls' \in 0 .. MaxCalls
  BY ImportAssumption DEF Call, manifest, IInv, ImportTypeOK
<1>2. CASE UNCHANGED <<pc, job, excused>>
  BY <1>1, <1>2 DEF IInv, ImportTypeOK, ProgressInv, OnlyInv, ManifestIsTrue, RowsAreRegistered
<1>3. ASSUME NEW p \in Request, sources[p[1]] = Unknown, Start(i, p) PROVE IInv'
  <2>1. /\ job' = [job EXCEPT ![i] = p] /\ pc' = [pc EXCEPT ![i] = "reading"]
        /\ excused' = IF Meets(i, p[1]) THEN excused \cup {p[1]} ELSE excused
        /\ p[1] \in File
    BY <1>3, RequestParts DEF Start, Goto
  <2>2. /\ pc' \in [Importer -> Places] /\ pc'[i] = "reading" /\ job'[i] = p
        /\ \A j \in Importer : j # i => pc'[j] = pc[j] /\ job'[j] = job[j]
        /\ job' \in [Importer -> Request \cup {Unknown}] /\ excused \subseteq excused'
    BY <2>1 DEF IInv, ImportTypeOK, Places
  <2>3. ImportTypeOK'
    BY <1>1, <2>1, <2>2 DEF IInv, ImportTypeOK, Places
  <2>4. ProgressInv'
    BY <1>1, <2>2 DEF IInv, ProgressInv
  <2>5. OnlyInv'
    <3> SUFFICES ASSUME NEW k \in Importer, pc'[k] # "idle", job'[k][1] \notin excused'
                 PROVE  /\ sources[job'[k][1]] = Unknown
                        /\ \A j \in Importer : pc'[j] # "idle" /\ job'[j][1] = job'[k][1] => j = k
      BY <1>1 DEF OnlyInv
    <3>1. CASE k = i
      BY <1>3, <2>1, <2>2, <3>1 DEF Meets
    <3>2. CASE k # i
      <4>1. pc[k] # "idle" /\ job'[k] = job[k] /\ job[k][1] \notin excused
        BY <2>2, <3>2
      <4>2. job[k][1] = p[1] => Meets(i, p[1])
        BY <3>2, <4>1 DEF Meets
      <4>3. job[k][1] # p[1]
        BY <2>1, <4>1, <4>2
      <4> QED BY <2>2, <4>1, <4>3 DEF IInv, OnlyInv
    <3> QED BY <3>1, <3>2
  <2>6. ManifestIsTrue'
    BY <1>1 DEF IInv, ManifestIsTrue
  <2>7. RowsAreRegistered'
    <3> SUFFICES ASSUME NEW q \in rows, q[1] \notin excused',
                        sources[q[1]] # [dataset |-> q[2], status |-> "accepted"]
                 PROVE  \E k \in Importer : pc'[k] = "registering" /\ job'[k] = q
      BY <1>1 DEF RowsAreRegistered
    <3>1. PICK k \in Importer : pc[k] = "registering" /\ job[k] = q
      BY <2>2 DEF IInv, RowsAreRegistered
    <3> QED BY <1>1, <2>2, <3>1
  <2> QED BY <2>3, <2>4, <2>5, <2>6, <2>7 DEF IInv
<1> QED BY <1>2, <1>3 DEF Call

LEMMA ArchiveKeeps == ASSUME IInv, NEW i \in Importer, Archive(i) PROVE IInv'
<1> DEFINE label == IF job[i] \in Fits THEN "loading" ELSE "rejecting"
<1>1. /\ label \in Places \ {"idle"} /\ pc[i] = "reading" /\ pc' = [pc EXCEPT ![i] = label]
      /\ UNCHANGED <<sources, rows, issues, job, calls, excused, stops>>
  BY DEF Archive, Goto, Places, manifest
<1> QED BY <1>1, GoesOnKeeps

LEMMA RecordIssueKeeps == ASSUME IInv, NEW i \in Importer, RecordIssue(i) PROVE IInv'
<1>1. /\ "rejected" \in Places \ {"idle"} /\ pc[i] = "rejecting" /\ pc' = [pc EXCEPT ![i] = "rejected"]
      /\ issues' = issues \cup {job[i]} /\ UNCHANGED <<sources, rows, job, calls, excused, stops>>
  BY DEF RecordIssue, Goto, Places
<1>2. job[i] \notin Fits
  BY <1>1 DEF IInv, ProgressInv
<1> QED BY <1>1, <1>2, GoesOnKeeps

LEMMA LoadKeeps == ASSUME IInv, NEW i \in Importer, Load(i) PROVE IInv'
<1>1. /\ "registering" \in Places \ {"idle"} /\ pc[i] = "loading" /\ pc' = [pc EXCEPT ![i] = "registering"]
      /\ rows' = rows \cup {job[i]} /\ UNCHANGED <<sources, issues, job, calls, excused, stops>>
  BY DEF Load, Goto, Places
<1>2. job[i] \in Fits
  BY <1>1 DEF IInv, ProgressInv
<1> QED BY <1>1, <1>2, GoesOnKeeps

LEMMA WriteClosesKeeps == ASSUME IInv, NEW i \in Importer, WriteCloses(i) PROVE IInv'
<1>1. /\ "replacing" \in Places \ {"idle"} /\ pc[i] = "loading" /\ pc' = [pc EXCEPT ![i] = "replacing"]
      /\ UNCHANGED <<sources, rows, issues, job, calls, excused, stops>>
  BY DEF WriteCloses, Goto, Places, manifest
<1>2. job[i] \in Fits
  BY <1>1 DEF IInv, ProgressInv
<1> QED BY <1>1, <1>2, GoesOnKeeps

LEMMA ReplaceClosesKeeps == ASSUME IInv, NEW i \in Importer, ReplaceCloses(i) PROVE IInv'
<1>1. pc[i] = "replacing" /\ UNCHANGED <<sources, issues, calls, stops, excused>>
  BY DEF ReplaceCloses
<1>2. job[i] \in Fits
  BY <1>1 DEF IInv, ProgressInv
<1>3. CASE temp = {}
  <2>1. Done(i) /\ UNCHANGED manifest /\ stops' \in 0 .. MaxStops
    BY <1>1, <1>3 DEF ReplaceCloses, manifest, IInv, ImportTypeOK
  <2> QED BY <1>1, <2>1, GivesUpKeeps
<1>4. CASE temp # {}
  <2>1. /\ "registering" \in Places \ {"idle"} /\ pc' = [pc EXCEPT ![i] = "registering"]
        /\ rows' = rows \cup {job[i]} /\ UNCHANGED job
    BY <1>4 DEF ReplaceCloses, Goto, Places
  <2> QED BY <1>1, <1>2, <2>1, GoesOnKeeps
<1> QED BY <1>3, <1>4

LEMMA StopKeeps == ASSUME IInv, NEW i \in Importer, Stop(i) PROVE IInv'
<1>1. /\ Done(i) /\ UNCHANGED <<manifest, calls>> /\ excused' = excused \cup {job[i][1]}
      /\ pc[i] # "idle" /\ stops' \in 0 .. MaxStops
  BY ImportAssumption DEF Stop, IInv, ImportTypeOK
<1> QED BY <1>1, GivesUpKeeps

-----------------------------------------------------------------------------
(* The two steps that register a file.                                     *)

LEMMA RegisterKeeps ==
    ASSUME IInv, NEW i \in Importer, NEW status \in {"accepted", "rejected"},
           Register(i, status), Done(i), UNCHANGED <<rows, issues, calls, excused, stops>>,
           status = "accepted" => pc[i] = "registering",
           status = "rejected" => pc[i] = "rejected"
    PROVE  IInv'
<1> DEFINE p == job[i]
           entry == [dataset |-> p[2], status |-> status]
<1>1. /\ pc[i] # "idle" /\ p \in Request /\ p[1] \in File /\ p[2] \in Dataset /\ p = <<p[1], p[2]>>
      /\ IF status = "accepted" THEN p \in rows ELSE p \in issues /\ p \notin rows
  BY RequestParts DEF IInv, ImportTypeOK, ProgressInv
<1>2. entry \in Entry /\ entry # Unknown /\ entry.dataset = p[2] /\ entry.status = status
  BY <1>1, ImportAssumption DEF Entry
<1>3. /\ sources' = [sources EXCEPT ![p[1]] = entry]
      /\ pc' = [pc EXCEPT ![i] = "idle"] /\ job' = [job EXCEPT ![i] = Unknown]
  BY DEF Register, Done, Goto
<1>4. sources \in [File -> Entry \cup {Unknown}]
  BY DEF IInv, ImportTypeOK
<1>5. /\ sources' \in [File -> Entry \cup {Unknown}] /\ sources'[p[1]] = entry
      /\ \A f \in File : f # p[1] => sources'[f] = sources[f]
  BY <1>1, <1>2, <1>3, <1>4
<1>6. /\ pc' \in [Importer -> Places] /\ pc'[i] = "idle"
      /\ \A j \in Importer : j # i => pc'[j] = pc[j] /\ job'[j] = job[j]
      /\ job' \in [Importer -> Request \cup {Unknown}]
  BY <1>3 DEF IInv, ImportTypeOK, Places
<1> HIDE DEF entry
<1>7. ImportTypeOK'
  BY <1>5, <1>6 DEF IInv, ImportTypeOK, Places
<1>8. ProgressInv'
  BY <1>6 DEF IInv, ProgressInv
<1>9. OnlyInv'
  <2> SUFFICES ASSUME NEW k \in Importer, pc'[k] # "idle", job'[k][1] \notin excused
               PROVE  /\ sources'[job'[k][1]] = Unknown
                      /\ \A j \in Importer : pc'[j] # "idle" /\ job'[j][1] = job'[k][1] => j = k
    BY DEF OnlyInv
  <2>1. k # i /\ pc[k] # "idle" /\ job'[k] = job[k]
    BY <1>6
  <2>2. /\ sources[job[k][1]] = Unknown /\ job[k][1] \in File
        /\ \A j \in Importer : pc[j] # "idle" /\ job[j][1] = job[k][1] => j = k
    BY <2>1, RequestParts DEF IInv, OnlyInv, ImportTypeOK
  <2>3. job[k][1] # p[1]
    BY <1>1, <2>1, <2>2
  <2> QED BY <1>5, <1>6, <2>1, <2>2, <2>3
<1>10. ManifestIsTrue'
  <2> SUFFICES ASSUME NEW f \in File, sources'[f] # Unknown
               PROVE  LET q == <<f, sources'[f].dataset>> IN
                      IF sources'[f].status = "accepted" THEN q \in rows
                      ELSE q \in issues /\ q \notin rows
    BY DEF ManifestIsTrue
  <2>1. CASE f # p[1]
    BY <1>5, <2>1 DEF IInv, ManifestIsTrue
  <2>2. CASE f = p[1]
    BY <1>1, <1>2, <1>5, <2>2
  <2> QED BY <2>1, <2>2
<1>11. RowsAreRegistered'
  <2> SUFFICES ASSUME NEW q \in rows, q[1] \notin excused,
                      ~(\E k \in Importer : pc'[k] = "registering" /\ job'[k] = q)
               PROVE  sources'[q[1]] = [dataset |-> q[2], status |-> "accepted"]
    BY DEF RowsAreRegistered
  <2>1. q \in Request /\ q[1] \in File
    BY RequestParts, ImportAssumption DEF IInv, ImportTypeOK
  <2>2. CASE q = p
    BY <1>1, <1>5, <2>2 DEF entry
  <2>3. CASE q # p
    <3>1. ~(\E k \in Importer : pc[k] = "registering" /\ job[k] = q)
      BY <1>6, <2>3
    <3>2. sources[q[1]] = [dataset |-> q[2], status |-> "accepted"]
      BY <3>1 DEF IInv, RowsAreRegistered
    <3>3. q[1] # p[1]
      <4>1. [dataset |-> q[2], status |-> "accepted"] # Unknown
        BY <2>1, RequestParts, ImportAssumption DEF Entry
      <4> QED BY <1>1, <3>2, <4>1 DEF IInv, OnlyInv
    <3> QED BY <1>5, <2>1, <3>2, <3>3
  <2> QED BY <2>2, <2>3
<1> QED BY <1>7, <1>8, <1>9, <1>10, <1>11 DEF IInv

-----------------------------------------------------------------------------
LEMMA ImporterStepKeeps == ASSUME IInv, NEW i \in Importer, ImporterStep(i) PROVE IInv'
<1>1. CASE RegisterRejected(i)
  <2>1. pc[i] = "rejected" /\ Register(i, "rejected") /\ Done(i) /\ UNCHANGED <<rows, issues, calls, excused, stops>>
    BY <1>1 DEF RegisterRejected
  <2> QED BY <2>1, RegisterKeeps
<1>2. CASE RegisterAccepted(i)
  <2>1. pc[i] = "registering" /\ Register(i, "accepted") /\ Done(i) /\ UNCHANGED <<rows, issues, calls, excused, stops>>
    BY <1>2 DEF RegisterAccepted
  <2> QED BY <2>1, RegisterKeeps
<1> QED BY <1>1, <1>2, CallKeeps, ArchiveKeeps, RecordIssueKeeps, LoadKeeps, WriteClosesKeeps,
           ReplaceClosesKeeps, StopKeeps DEF ImporterStep

\* The syncs write no workbook's rows and no workbook's entry: of the import's state
\* they change at most the number of stops.
LEMMA ElsewhereIInv ==
    ASSUME IInv, UNCHANGED impvars, stops' \in 0 .. MaxStops
    PROVE  IInv'
  BY DEF impvars, manifest, IInv, ImportTypeOK, ProgressInv, OnlyInv, ManifestIsTrue, RowsAreRegistered

LEMMA ImportInvariant == DataSpec => []IInv
<1>1. DataInit => IInv
  BY InitHolds DEF DataInit
<1>2. ASSUME IInv, [DataNext]_datavars PROVE IInv'
  <2>0. stops \in 0 .. MaxStops
    BY <1>2 DEF IInv, ImportTypeOK
  <2>1. CASE UNCHANGED datavars
    BY <1>2, <2>0, <2>1, ElsewhereIInv DEF datavars, storevars
  <2>2. CASE MembershipNext
    <3>1. CASE ImportNext
      BY <1>2, <3>1, ImporterStepKeeps DEF ImportNext
    <3>2. CASE UNCHANGED <<impvars, stops>>
      BY <1>2, <2>0, <3>2, ElsewhereIInv
    <3>3. ASSUME NEW s \in Syncer, StopSync(s), UNCHANGED impvars PROVE IInv'
      <4>1. stops' \in 0 .. MaxStops
        BY <2>0, <3>3, ImportAssumption DEF StopSync
      <4> QED BY <1>2, <3>3, <4>1, ElsewhereIInv
    <3> QED BY <2>2, <3>1, <3>2, <3>3 DEF MembershipNext
  <2>3. CASE UNCHANGED <<impvars, stops>>
    BY <1>2, <2>0, <2>3, ElsewhereIInv
  <2>4. ASSUME NEW p \in Provider, StopPrices(p), UNCHANGED impvars PROVE IInv'
    <3>1. stops' \in 0 .. MaxStops
      BY <2>0, <2>4, ImportAssumption DEF StopPrices
    <3> QED BY <1>2, <2>4, <3>1, ElsewhereIInv
  <2> QED BY <1>2, <2>1, <2>2, <2>3, <2>4 DEF DataNext, DataStep
<1> QED BY <1>1, <1>2, PTL DEF DataSpec

\* What the manifest says of a file is so, whatever stops or runs next to the import:
\* accepted rows are loaded, a rejected file left none and has its issue.
THEOREM ManifestTellsTheTruth == DataSpec => []ManifestIsTrue
<1>1. IInv => ManifestIsTrue
  BY DEF IInv
<1> QED BY <1>1, ImportInvariant, PTL

\* No rows lose their accepted entry, or never get it, but for those of a file that
\* was imported twice at once or whose import stopped.
THEOREM RowsKeepTheirEntries == DataSpec => []RowsAreRegistered
<1>1. IInv => RowsAreRegistered
  BY DEF IInv
<1> QED BY <1>1, ImportInvariant, PTL

-----------------------------------------------------------------------------
(* The prices.  Next to DuckDB they are updated at once.  The price lake   *)
(* next to Postgres is read and replaced in two steps; as long as one      *)
(* process at a time is between them, the file that takes the lake's place *)
(* is its present content with the new rows over it.                       *)

Keys(table) == {Key(r) : r \in table}

\* A process that puts rows into the prices, where it is, and these rows.
Processes == Importer \cup Provider
Stands(w) == IF w \in Importer THEN pc[w] ELSE at[w]
Owed(w) == IF w \in Importer THEN Closes[job[w]] ELSE Stored(fetch[w].rows)
Between == {"replacing", "merging"}

\* A sync's work is a record of these three fields.
IsFetch(f) == f = [map |-> f.map, rows |-> f.rows, file |-> f.file]
FetchInv ==
    /\ pc = [i \in Importer |-> pc[i]] /\ job = [i \in Importer |-> job[i]]
    /\ at = [p \in Provider |-> at[p]] /\ fetch = [p \in Provider |-> fetch[p]]
    /\ \A p \in Provider : IsFetch(fetch[p])

\* Between the two steps a process is alone, and its file is the lake and its rows.
MergeInv ==
    /\ merging = {w \in Processes : Stands(w) \in Between}
    /\ backend = "duckdb" => merging = {}
    /\ ~raced => \A w \in merging : temp = {Upsert(lake, Owed(w))} /\ \A v \in merging : v = w

\* Once it has stored its rows they are in the prices.
LoadedInv == ~raced => \A w \in Processes :
    Stands(w) = "registering" => Keys(Owed(w)) \subseteq Keys(lake)

LInv == MergeInv /\ LoadedInv /\ BroughtPricesStay
MInv == FetchInv /\ LInv

LEMMA UpsertKeepsKeys ==
    ASSUME NEW table, NEW incoming
    PROVE  /\ Keys(table) \subseteq Keys(Upsert(table, incoming))
           /\ Keys(incoming) \subseteq Keys(Upsert(table, incoming))
<1> SUFFICES ASSUME NEW r \in table
             PROVE  \E u \in Upsert(table, incoming) : Key(u) = Key(r)
  BY DEF Keys, Upsert
<1>1. CASE \E i \in incoming : Key(i) = Key(r)
  BY <1>1 DEF Upsert
<1>2. CASE \A i \in incoming : Key(i) # Key(r)
  BY <1>2 DEF Upsert
<1> QED BY <1>1, <1>2

LEMMA UpsertNothing == ASSUME NEW table PROVE Upsert(table, {}) = table
  BY DEF Upsert

LEMMA ExceptIsFetch ==
    ASSUME NEW g, IsFetch(g), NEW x, NEW y
    PROVE  IsFetch([g EXCEPT !.rows = x, !.file = y])
<1> DEFINE h == [g EXCEPT !.rows = x]
<1>1. IsFetch(h)
  BY DEF IsFetch
<1>2. [g EXCEPT !.rows = x, !.file = y] = [h EXCEPT !.file = y]
  OBVIOUS
<1> HIDE DEF h
<1>3. IsFetch([h EXCEPT !.file = y])
  BY <1>1 DEF IsFetch
<1> QED BY <1>2, <1>3

LEMMA InitMInv == DataInit => MInv
<1> SUFFICES ASSUME DataInit PROVE MInv
  OBVIOUS
<1>1. /\ pc = [i \in Importer |-> "idle"] /\ job = [i \in Importer |-> Unknown]
      /\ at = [p \in Provider |-> "idle"] /\ fetch = [p \in Provider |-> Nothing]
      /\ merging = {} /\ brought = {}
  BY DEF DataInit, ImportInit, MarketInit
<1>2. FetchInv
  BY <1>1 DEF FetchInv, IsFetch, Nothing
<1>3. \A w \in Processes : Stands(w) = "idle"
  BY <1>1 DEF Processes, Stands
<1>4. LInv
  BY <1>1, <1>3 DEF LInv, MergeInv, Between, LoadedInv, BroughtPricesStay
<1> QED BY <1>2, <1>4 DEF MInv

\* A step that leaves the prices and all who write them alone.
LEMMA ElsewhereKeeps ==
    ASSUME MInv, UNCHANGED <<pc, job, at, fetch, backend, lake, temp, merging, brought, raced>>
    PROVE  MInv'
<1>1. FetchInv'
  BY DEF MInv, FetchInv, IsFetch
<1>2. \A w : Stands(w)' = Stands(w) /\ Owed(w)' = Owed(w) /\ Upsert(lake, Owed(w))' = Upsert(lake, Owed(w))
  BY DEF Stands, Owed, Upsert, Key, Stored
<1>3. MergeInv' /\ LoadedInv'
  BY <1>2 DEF MInv, LInv, MergeInv, LoadedInv, Keys, Key
<1>4. BroughtPricesStay'
  BY DEF MInv, LInv, BroughtPricesStay, Key
<1> QED BY <1>1, <1>3, <1>4 DEF MInv, LInv

-----------------------------------------------------------------------------
(* What one process does to the prices while the others stand still.       *)

Still(w) ==
    /\ \A v \in Processes \ {w} : Stands(v)' = Stands(v) /\ Owed(v)' = Owed(v)
    /\ backend' = backend

LEMMA QuietKeeps ==
    ASSUME LInv, NEW w \in Processes, Still(w), Stands(w)' \notin Between \cup {"registering"},
           merging' = merging \ {w}, UNCHANGED <<lake, temp, brought, raced>>
    PROVE  LInv'
<1>1. MergeInv'
  <2>1. merging' = {v \in Processes : Stands(v)' \in Between}
    BY DEF LInv, MergeInv, Still
  <2>2. ~raced' => \A v \in merging' : temp' = {Upsert(lake, Owed(v))} /\ \A u \in merging' : u = v
    BY DEF LInv, MergeInv
  <2>3. \A v \in merging' : Owed(v)' = Owed(v) /\ Upsert(lake, Owed(v))' = Upsert(lake, Owed(v))
    <3>1. \A v \in merging' : v \in Processes \ {w}
      BY DEF LInv, MergeInv
    <3> QED BY <3>1 DEF Still, Upsert, Key
  <2> QED BY <2>1, <2>2, <2>3 DEF LInv, MergeInv, Still
<1>2. LoadedInv'
  BY DEF LInv, LoadedInv, Still, Keys, Key
<1>3. BroughtPricesStay'
  BY DEF LInv, BroughtPricesStay, Key
<1> QED BY <1>1, <1>2, <1>3 DEF LInv

LEMMA WriteKeeps ==
    ASSUME LInv, NEW w \in Processes, Still(w), WriteTemp(w, Owed(w)), Stands(w)' \in Between,
           Owed(w)' = Owed(w), backend # "duckdb", UNCHANGED <<lake, brought>>
    PROVE  LInv'
<1>1. merging' = {v \in Processes : Stands(v)' \in Between}
  BY DEF WriteTemp, LInv, MergeInv, Still
<1>2. ~raced' => merging' = {w} /\ temp' = {Upsert(lake, Owed(w))} /\ ~raced
  BY DEF WriteTemp
<1>3. Upsert(lake, Owed(w))' = Upsert(lake, Owed(w))
  BY DEF Upsert, Key
<1>4. MergeInv'
  BY <1>1, <1>2, <1>3 DEF MergeInv, Still
<1>5. LoadedInv'
  <2> SUFFICES ASSUME ~raced', NEW v \in Processes, Stands(v)' = "registering"
               PROVE  Keys(Owed(v))' \subseteq Keys(lake)'
    BY DEF LoadedInv
  <2>1. v # w
    BY DEF Between
  <2>2. Stands(v) = "registering" /\ Owed(v)' = Owed(v)
    BY <2>1 DEF Still
  <2> QED BY <1>2, <2>2 DEF LInv, LoadedInv, Keys, Key
<1>6. BroughtPricesStay'
  BY <1>2 DEF LInv, BroughtPricesStay, Key
<1> QED BY <1>4, <1>5, <1>6 DEF LInv

\* The prices have grown, if anything, by the rows of the process, and nobody else is
\* between the two steps.
LEMMA StoredKeeps ==
    ASSUME LInv, NEW w \in Processes, Still(w), UNCHANGED <<brought, raced>>,
           merging' = merging \ {w}, ~raced => merging' = {} \/ (lake' = lake /\ temp' = temp),
           ~raced => lake' = Upsert(lake, Owed(w)),
           Stands(w)' \notin Between, Stands(w)' = "registering" => Owed(w)' = Owed(w)
    PROVE  LInv'
<1>1. ~raced => Keys(lake) \subseteq Keys(lake') /\ Keys(Owed(w)) \subseteq Keys(lake')
  BY UpsertKeepsKeys
<1>2. MergeInv'
  <2>1. merging' = {v \in Processes : Stands(v)' \in Between}
    BY DEF LInv, MergeInv, Still
  <2>2. ASSUME ~raced', NEW v \in merging'
        PROVE  temp' = {Upsert(lake, Owed(v))'} /\ \A u \in merging' : u = v
    <3>1. lake' = lake /\ temp' = temp /\ v \in merging /\ v \in Processes \ {w}
      BY <2>2 DEF LInv, MergeInv
    <3>2. Upsert(lake, Owed(v))' = Upsert(lake, Owed(v))
      BY <3>1 DEF Still, Upsert, Key
    <3> QED BY <2>2, <3>1, <3>2 DEF LInv, MergeInv
  <2> QED BY <2>1, <2>2 DEF LInv, MergeInv, Still
<1>3. LoadedInv'
  <2> SUFFICES ASSUME ~raced, NEW v \in Processes, Stands(v)' = "registering"
               PROVE  Keys(Owed(v))' \subseteq Keys(lake)'
    BY DEF LoadedInv
  <2>1. Owed(v)' = Owed(v) /\ Keys(Owed(v)) \subseteq Keys(lake')
    <3>1. CASE v = w
      BY <1>1, <3>1
    <3>2. CASE v # w
      BY <1>1, <3>2 DEF LInv, LoadedInv, Still
    <3> QED BY <3>1, <3>2
  <2> QED BY <2>1 DEF Keys, Key
<1>4. BroughtPricesStay'
  BY <1>1 DEF LInv, BroughtPricesStay, Keys, Key
<1> QED BY <1>2, <1>3, <1>4 DEF LInv

LEMMA TakePlaceKeeps ==
    ASSUME LInv, NEW w \in Processes, Still(w), TakePlace(w), Stands(w) \in Between,
           UNCHANGED <<brought, raced>>,
           Stands(w)' \notin Between, Stands(w)' = "registering" => Owed(w)' = Owed(w)
    PROVE  LInv'
<1>1. merging' = merging \ {w} /\ w \in merging
  BY DEF TakePlace, LInv, MergeInv
<1>2. ~raced => merging' = {} /\ temp = {Upsert(lake, Owed(w))}
  BY <1>1 DEF LInv, MergeInv
<1>3. ~raced => lake' = Upsert(lake, Owed(w))
  BY <1>2 DEF TakePlace
<1> QED BY <1>1, <1>2, <1>3, StoredKeeps

\* On DuckDB nobody is between the two steps; where there is no row nothing changes.
LEMMA DirectKeeps ==
    ASSUME LInv, NEW w \in Processes, Still(w), backend = "duckdb" \/ Owed(w) = {},
           lake' = Upsert(lake, Owed(w)), UNCHANGED <<temp, merging, brought, raced>>,
           Stands(w) \notin Between, Stands(w)' \notin Between,
           Stands(w)' = "registering" => Owed(w)' = Owed(w)
    PROVE  LInv'
<1>1. merging' = merging \ {w}
  BY DEF LInv, MergeInv
<1>2. merging' = {} \/ (lake' = lake /\ temp' = temp)
  BY UpsertNothing DEF LInv, MergeInv
<1> QED BY <1>1, <1>2, StoredKeeps

LEMMA RegisteredKeeps ==
    ASSUME LInv, NEW w \in Processes, Still(w), Stands(w) = "registering",
           brought' = brought \cup Keys(Owed(w)), UNCHANGED <<lake, temp, merging, raced>>,
           Stands(w)' \notin Between \cup {"registering"}
    PROVE  LInv'
<1>1. MergeInv'
  <2>1. merging' = {v \in Processes : Stands(v)' \in Between}
    BY DEF LInv, MergeInv, Still, Between
  <2>2. \A v \in merging : Owed(v)' = Owed(v) /\ Upsert(lake, Owed(v))' = Upsert(lake, Owed(v))
    <3>1. \A v \in merging : v \in Processes \ {w}
      BY DEF LInv, MergeInv, Between
    <3> QED BY <3>1 DEF Still, Upsert, Key
  <2> QED BY <2>1, <2>2 DEF LInv, MergeInv, Still
<1>2. LoadedInv'
  BY DEF LInv, LoadedInv, Still, Keys, Key
<1>3. BroughtPricesStay'
  BY DEF LInv, LoadedInv, BroughtPricesStay, Keys, Key
<1> QED BY <1>1, <1>2, <1>3 DEF LInv

-----------------------------------------------------------------------------
(* The importers' steps and the price syncs' steps are of these kinds.     *)

LEMMA ImporterIsStill ==
    ASSUME FetchInv, NEW i \in Importer, NEW label, NEW p, pc' = [pc EXCEPT ![i] = label],
           job' = [job EXCEPT ![i] = p], UNCHANGED <<at, fetch, backend>>
    PROVE  /\ FetchInv' /\ i \in Processes /\ Still(i)
           /\ Stands(i) = pc[i] /\ Stands(i)' = label
           /\ Owed(i) = Closes[job[i]] /\ Owed(i)' = Closes[p]
<1>1. /\ pc'[i] = label /\ job'[i] = p
      /\ \A j \in Importer : j # i => pc'[j] = pc[j] /\ job'[j] = job[j]
      /\ pc' = [j \in Importer |-> pc'[j]] /\ job' = [j \in Importer |-> job'[j]]
  BY DEF FetchInv
<1>2. FetchInv'
  BY <1>1 DEF FetchInv, IsFetch
<1>3. Still(i)
  BY <1>1 DEF Still, Processes, Stands, Owed, Stored, Key
<1> QED BY <1>1, <1>2, <1>3 DEF Processes, Stands, Owed

LEMMA ProviderIsStill ==
    ASSUME FetchInv, NEW p \in Provider, NEW label, NEW f, IsFetch(f), at' = [at EXCEPT ![p] = label],
           fetch' = [fetch EXCEPT ![p] = f], UNCHANGED <<pc, job, backend>>
    PROVE  /\ FetchInv' /\ p \in Processes /\ Still(p)
           /\ Stands(p) = at[p] /\ Stands(p)' = label
           /\ Owed(p) = Stored(fetch[p].rows) /\ Owed(p)' = Stored(f.rows)
<1>1. /\ at'[p] = label /\ fetch'[p] = f
      /\ \A q \in Provider : q # p => at'[q] = at[q] /\ fetch'[q] = fetch[q]
      /\ at' = [q \in Provider |-> at'[q]] /\ fetch' = [q \in Provider |-> fetch'[q]]
  BY DEF FetchInv
<1>2. FetchInv'
  BY <1>1 DEF FetchInv, IsFetch
<1>3. p \notin Importer
  BY ImportAssumption
<1>4. Still(p)
  BY <1>1 DEF Still, Processes, Stands, Owed, Stored, Key
<1> QED BY <1>1, <1>2, <1>3, <1>4 DEF Processes, Stands, Owed, Stored, Key

LEMMA QuietImporterKeeps ==
    ASSUME MInv, NEW i \in Importer, NEW label \in {"idle", "reading", "rejecting", "rejected", "loading"},
           NEW p, pc' = [pc EXCEPT ![i] = label], job' = [job EXCEPT ![i] = p],
           (pc[i] \notin Between /\ merging' = merging) \/ merging' = merging \ {i},
           UNCHANGED <<at, fetch, backend, lake, temp, brought, raced>>
    PROVE  MInv'
<1>1. FetchInv' /\ i \in Processes /\ Still(i) /\ Stands(i) = pc[i] /\ Stands(i)' = label
  BY ImporterIsStill DEF MInv
<1>2. merging' = merging \ {i}
  BY <1>1 DEF MInv, LInv, MergeInv
<1>3. label \notin Between \cup {"registering"}
  BY DEF Between
<1>4. LInv'
  BY <1>1, <1>2, <1>3, QuietKeeps DEF MInv
<1> QED BY <1>1, <1>4 DEF MInv

LEMMA QuietSyncKeeps ==
    ASSUME MInv, NEW p \in Provider, NEW label \in {"idle", "mapped", "fetched"},
           NEW f, IsFetch(f), at' = [at EXCEPT ![p] = label], fetch' = [fetch EXCEPT ![p] = f],
           (at[p] \notin Between /\ merging' = merging) \/ merging' = merging \ {p},
           UNCHANGED <<pc, job, backend, lake, temp, brought, raced>>
    PROVE  MInv'
<1>1. FetchInv' /\ p \in Processes /\ Still(p) /\ Stands(p) = at[p] /\ Stands(p)' = label
  BY ProviderIsStill DEF MInv
<1>2. merging' = merging \ {p}
  BY <1>1 DEF MInv, LInv, MergeInv
<1>3. label \notin Between \cup {"registering"}
  BY DEF Between
<1>4. LInv'
  BY <1>1, <1>2, <1>3, QuietKeeps DEF MInv
<1> QED BY <1>1, <1>4 DEF MInv

LEMMA ImportersKeepPrices ==
    ASSUME MInv, NEW i \in Importer, ImporterStep(i), UNCHANGED <<at, fetch>>
    PROVE  MInv'
<1> USE DEF MInv
<1>a. job' = job => job' = [job EXCEPT ![i] = job[i]]
  BY DEF FetchInv
<1>1. CASE Call(i)
  <2>1. pc[i] = "idle" /\ UNCHANGED tables
    BY <1>1 DEF Call
  <2>2. CASE UNCHANGED <<pc, job>>
    BY <2>1, <2>2, ElsewhereKeeps DEF tables
  <2>3. ASSUME NEW p \in Request, Start(i, p) PROVE MInv'
    <3>1. pc' = [pc EXCEPT ![i] = "reading"] /\ job' = [job EXCEPT ![i] = p]
      BY <2>3 DEF Start, Goto
    <3> QED BY <2>1, <3>1, QuietImporterKeeps DEF tables, Between
  <2> QED BY <1>1, <2>2, <2>3 DEF Call
<1>2. CASE Archive(i)
  <2> DEFINE label == IF job[i] \in Fits THEN "loading" ELSE "rejecting"
  <2>1. pc[i] = "reading" /\ pc' = [pc EXCEPT ![i] = label] /\ UNCHANGED <<job, tables>>
    BY <1>2 DEF Archive, Goto
  <2> QED BY <1>a, <2>1, QuietImporterKeeps DEF tables, Between
<1>3. CASE RecordIssue(i)
  <2>1. pc[i] = "rejecting" /\ pc' = [pc EXCEPT ![i] = "rejected"] /\ UNCHANGED <<job, tables>>
    BY <1>3 DEF RecordIssue, Goto
  <2> QED BY <1>a, <2>1, QuietImporterKeeps DEF tables, Between
<1>4. CASE RegisterRejected(i)
  <2>1. /\ pc[i] = "rejected" /\ pc' = [pc EXCEPT ![i] = "idle"] /\ job' = [job EXCEPT ![i] = Unknown]
        /\ UNCHANGED tables
    BY <1>4 DEF RegisterRejected, Done, Goto
  <2> QED BY <2>1, QuietImporterKeeps DEF tables, Between
<1>5. CASE Load(i)
  <2>1. /\ pc[i] = "loading" /\ pc' = [pc EXCEPT ![i] = "registering"] /\ UNCHANGED job
        /\ backend = "duckdb" \/ Closes[job[i]] = {}
        /\ lake' = Upsert(lake, Closes[job[i]]) /\ UNCHANGED <<backend, temp, merging, brought, raced>>
    BY <1>5 DEF Load, Goto
  <2>2. /\ FetchInv' /\ i \in Processes /\ Still(i) /\ Stands(i) = "loading" /\ Stands(i)' = "registering"
        /\ Owed(i) = Closes[job[i]] /\ Owed(i)' = Owed(i)
    BY <1>a, <2>1, ImporterIsStill
  <2>3. LInv'
    BY <2>1, <2>2, DirectKeeps DEF Between
  <2> QED BY <2>2, <2>3
<1>6. CASE WriteCloses(i)
  <2>1. /\ pc[i] = "loading" /\ pc' = [pc EXCEPT ![i] = "replacing"] /\ UNCHANGED <<job, backend, lake, brought>>
        /\ backend # "duckdb" /\ WriteTemp(i, Closes[job[i]])
    BY <1>6 DEF WriteCloses, Goto
  <2> QED BY <1>a, <2>1, ImporterIsStill, WriteKeeps DEF Between
<1>7. CASE ReplaceCloses(i)
  <2>1. /\ pc[i] = "replacing" /\ TakePlace(i) /\ UNCHANGED <<backend, brought, raced>>
        /\ \/ pc' = [pc EXCEPT ![i] = "idle"] /\ job' = [job EXCEPT ![i] = Unknown]
           \/ pc' = [pc EXCEPT ![i] = "registering"] /\ job' = job
    BY <1>7 DEF ReplaceCloses, Done, Goto
  <2> QED BY <1>a, <2>1, ImporterIsStill, TakePlaceKeeps DEF Between
<1>8. CASE RegisterAccepted(i)
  <2>1. /\ pc[i] = "registering" /\ pc' = [pc EXCEPT ![i] = "idle"] /\ job' = [job EXCEPT ![i] = Unknown]
        /\ brought' = brought \cup Keys(Closes[job[i]]) /\ UNCHANGED <<backend, lake, temp, merging, raced>>
    BY <1>8 DEF RegisterAccepted, Done, Goto, Keys
  <2> QED BY <2>1, ImporterIsStill, RegisteredKeeps DEF Between
<1>9. CASE Stop(i)
  <2>1. /\ pc' = [pc EXCEPT ![i] = "idle"] /\ job' = [job EXCEPT ![i] = Unknown]
        /\ merging' = merging \ {i} /\ UNCHANGED <<backend, lake, temp, brought, raced>>
    BY <1>9 DEF Stop, Done, Goto
  <2> QED BY <2>1, QuietImporterKeeps DEF Between
<1> QED BY <1>1, <1>2, <1>3, <1>4, <1>5, <1>6, <1>7, <1>8, <1>9 DEF ImporterStep

LEMMA NothingIsFetch == IsFetch(Nothing)
  BY DEF IsFetch, Nothing

LEMMA MarketKeepsPrices ==
    ASSUME MInv, NEW p \in Provider, MarketStep(p) \/ StopPrices(p), UNCHANGED <<pc, job>>
    PROVE  MInv'
<1> USE DEF MInv
<1>a. IsFetch(fetch[p]) /\ (fetch' = fetch => fetch' = [fetch EXCEPT ![p] = fetch[p]])
  BY DEF FetchInv
<1>1. CASE SyncPrices(p)
  <2> DEFINE f == [fetch[p] EXCEPT !.map = SymbolMap]
  <2>1. /\ at[p] = "idle" /\ at' = [at EXCEPT ![p] = "mapped"] /\ fetch' = [fetch EXCEPT ![p] = f]
        /\ UNCHANGED tables
    BY <1>1 DEF SyncPrices, Move
  <2>2. IsFetch(f)
    BY <1>a DEF IsFetch
  <2> HIDE DEF f
  <2> QED BY <2>1, <2>2, QuietSyncKeeps DEF tables, Between
<1>2. CASE FetchBars(p)
  <2>1. PICK missing \in SUBSET (Flaky \cap DOMAIN fetch[p].map) :
          LET map == [t \in DOMAIN fetch[p].map \ missing |-> fetch[p].map[t]] IN
          fetch' = [fetch EXCEPT ![p] = [Nothing EXCEPT
            !.rows = Joined(p, map, universe), !.file = <<p, DOMAIN fetch[p].map, missing>>]]
    BY <1>2 DEF FetchBars
  <2> DEFINE map == [t \in DOMAIN fetch[p].map \ missing |-> fetch[p].map[t]]
             bars == Joined(p, map, universe)
             digest == <<p, DOMAIN fetch[p].map, missing>>
             f == [Nothing EXCEPT !.rows = bars, !.file = digest]
  <2>2. fetch' = [fetch EXCEPT ![p] = f]
    BY <2>1
  <2>3. IsFetch(f)
    <3> HIDE DEF bars, digest
    <3> QED BY NothingIsFetch, ExceptIsFetch
  <2> HIDE DEF f
  <2>4. at[p] = "mapped" /\ at' = [at EXCEPT ![p] = "fetched"] /\ UNCHANGED tables
    BY <1>2 DEF FetchBars, Move
  <2> QED BY <2>2, <2>3, <2>4, QuietSyncKeeps DEF tables, Between
<1>3. CASE FailFetch(p)
  <2>1. /\ at[p] = "mapped" /\ at' = [at EXCEPT ![p] = "idle"] /\ fetch' = [fetch EXCEPT ![p] = Nothing]
        /\ UNCHANGED tables
    BY <1>3 DEF FailFetch, End, Move
  <2> QED BY <2>1, NothingIsFetch, QuietSyncKeeps DEF tables, Between
<1>4. CASE StoreBars(p)
  <2>1. /\ at[p] = "fetched" /\ (backend = "duckdb" \/ Stored(fetch[p].rows) = {})
        /\ lake' = Upsert(lake, Stored(fetch[p].rows)) /\ UNCHANGED <<backend, temp, merging, brought, raced>>
        /\ \/ at' = [at EXCEPT ![p] = "idle"] /\ fetch' = [fetch EXCEPT ![p] = Nothing]
           \/ at' = [at EXCEPT ![p] = "registering"] /\ fetch' = fetch
    BY <1>4 DEF StoreBars, Merged, End, Move, Stored
  <2> QED BY <1>a, <2>1, NothingIsFetch, ProviderIsStill, DirectKeeps DEF Between
<1>5. CASE MergeIntoLake(p)
  <2>1. /\ at[p] = "fetched" /\ at' = [at EXCEPT ![p] = "merging"] /\ UNCHANGED <<fetch, backend, lake, brought>>
        /\ backend # "duckdb" /\ WriteTemp(p, Stored(fetch[p].rows))
    BY <1>5 DEF MergeIntoLake, Move
  <2> QED BY <1>a, <2>1, ProviderIsStill, WriteKeeps DEF Between
<1>6. CASE ReplaceLake(p)
  <2>1. /\ at[p] = "merging" /\ TakePlace(p) /\ UNCHANGED <<backend, brought, raced>>
        /\ \/ at' = [at EXCEPT ![p] = "idle"] /\ fetch' = [fetch EXCEPT ![p] = Nothing]
           \/ at' = [at EXCEPT ![p] = "registering"] /\ fetch' = fetch
    BY <1>6 DEF ReplaceLake, Merged, End, Move
  <2> QED BY <1>a, <2>1, NothingIsFetch, ProviderIsStill, TakePlaceKeeps DEF Between
<1>7. CASE RegisterPrices(p)
  <2>1. /\ at[p] = "registering" /\ at' = [at EXCEPT ![p] = "checking"] /\ UNCHANGED fetch
        /\ brought' = brought \cup Keys(Stored(fetch[p].rows)) /\ UNCHANGED <<backend, lake, temp, merging, raced>>
    BY <1>7 DEF RegisterPrices, Move, Keys
  <2>2. /\ FetchInv' /\ p \in Processes /\ Still(p) /\ Stands(p) = "registering" /\ Stands(p)' = "checking"
        /\ Owed(p) = Stored(fetch[p].rows)
    BY <1>a, <2>1, ProviderIsStill
  <2>3. LInv'
    BY <2>1, <2>2, RegisteredKeeps DEF Between
  <2> QED BY <2>2, <2>3
<1>8. CASE CheckReturns(p)
  <2>1. /\ at[p] = "checking" /\ at' = [at EXCEPT ![p] = "idle"] /\ fetch' = [fetch EXCEPT ![p] = Nothing]
        /\ UNCHANGED tables
    BY <1>8 DEF CheckReturns, End, Move
  <2> QED BY <2>1, NothingIsFetch, QuietSyncKeeps DEF tables, Between
<1>9. CASE StopPrices(p)
  <2>1. /\ at' = [at EXCEPT ![p] = "idle"] /\ fetch' = [fetch EXCEPT ![p] = Nothing]
        /\ merging' = merging \ {p} /\ UNCHANGED <<backend, lake, temp, brought, raced>>
    BY <1>9 DEF StopPrices, End, Move
  <2> QED BY <2>1, NothingIsFetch, QuietSyncKeeps DEF Between
<1> QED BY <1>1, <1>2, <1>3, <1>4, <1>5, <1>6, <1>7, <1>8, <1>9 DEF MarketStep

-----------------------------------------------------------------------------
LEMMA DataStepKeeps == ASSUME MInv, DataStep PROVE MInv'
<1>1. CASE MembershipNext /\ UNCHANGED pricevars
  <2>1. CASE ImportNext
    BY <1>1, <2>1, ImportersKeepPrices DEF ImportNext, pricevars
  <2>2. ASSUME NEW s \in Syncer, SyncStep(s) \/ StopSync(s), UNCHANGED impvars PROVE MInv'
    <3>1. UNCHANGED <<backend, lake, temp, merging, brought, raced>>
      BY <2>2 DEF SyncStep, SyncIndex, ReadPrior, DeleteSuperseded, InsertIntervals, RegisterBundle,
                  StopSync, tables
    <3> QED BY <1>1, <2>2, <3>1, ElsewhereKeeps DEF impvars, pricevars
  <2> QED BY <1>1, <2>1, <2>2 DEF MembershipNext
<1>2. ASSUME NEW p \in Provider, MarketStep(p) \/ StopPrices(p), UNCHANGED impvars PROVE MInv'
  BY <1>2, MarketKeepsPrices DEF impvars
<1> QED BY <1>1, <1>2 DEF DataStep

LEMMA LakeInvariant == DataSpec => []MInv
<1>1. ASSUME MInv, [DataNext]_datavars PROVE MInv'
  BY <1>1, DataStepKeeps, ElsewhereKeeps
     DEF DataNext, datavars, storevars, tables, impvars, pricevars
<1> QED BY <1>1, InitMInv, PTL DEF DataSpec

\* Whatever syncs, imports and stops interleave, the price rows of every registered
\* file stay, unless two processes replaced the lake at once.
THEOREM BroughtPricesAreKept == DataSpec => []BroughtPricesStay
<1>1. MInv => BroughtPricesStay
  BY DEF MInv, LInv
<1> QED BY <1>1, LakeInvariant, PTL

-----------------------------------------------------------------------------
\* A set of numbers has a least one: the induction that the provers can use.
LEMMA FirstNumber ==
    ASSUME NEW S \in SUBSET Nat, S # {}
    PROVE  \E i \in S : \A j \in S : i <= j
<1> DEFINE R == OpToRel(<, Nat)
<1>1. \A j, i \in Nat : j < i => <<j, i>> \in R
  BY DEF OpToRel
<1>2. IsWellFoundedOn(R, Nat)
  BY NatLessThanWellFounded
<1> HIDE DEF R
<1>3. PICK i \in S : \A j \in S : ~(<<j, i>> \in R)
  BY <1>2, WFMin, Zenon
<1>4. \A j \in S : ~(j < i)
  BY <1>1, <1>3
<1> QED BY <1>4

-----------------------------------------------------------------------------
(* The reconstruction.  Both the roster and the replay of its days are     *)
(* functions defined by recursion on the day; that they satisfy their      *)
(* equations has to be proved.                                             *)

\* f unfolds advance from base over the days up to n.
Unfolds(f, n, base, advance) ==
    f = [d \in 0 .. n |-> IF d = 0 THEN base ELSE advance[<<f[d - 1], d>>]]

LEMMA RecursionExists ==
    ASSUME NEW V, NEW N \in Nat, NEW base \in V, NEW advance \in [V \X (0 .. N) -> V]
    PROVE  \E f \in [0 .. N -> V] : Unfolds(f, N, base, advance)
<1> DEFINE bad == {n \in 0 .. N : \A f \in [0 .. n -> V] : ~Unfolds(f, n, base, advance)}
<1>1. SUFFICES bad = {}
  OBVIOUS
<1>2. SUFFICES ASSUME bad # {} PROVE FALSE
  OBVIOUS
<1>3. bad \in SUBSET Nat
  OBVIOUS
<1>4. PICK n \in bad : \A m \in bad : n <= m
  <2> HIDE DEF bad
  <2> QED BY <1>2, <1>3, FirstNumber
<1>5. CASE n = 0
  <2> DEFINE f == [d \in 0 .. 0 |-> base]
  <2>1. f \in [0 .. 0 -> V] /\ Unfolds(f, 0, base, advance)
    BY DEF Unfolds
  <2> QED BY <1>5, <2>1
<1>6. CASE n # 0
  <2>1. n \in Nat /\ n <= N /\ n - 1 \in 0 .. N /\ n - 1 \notin bad
    BY <1>4, <1>6
  <2>2. PICK g \in [0 .. n - 1 -> V] : Unfolds(g, n - 1, base, advance)
    BY <2>1
  <2> DEFINE f == [d \in 0 .. n |-> IF d = n THEN advance[<<g[n - 1], n>>] ELSE g[d]]
  <2>3. g[n - 1] \in V /\ <<g[n - 1], n>> \in V \X (0 .. N)
    BY <1>6, <2>1
  <2>4. f \in [0 .. n -> V]
    BY <2>1, <2>3
  <2>5. ASSUME NEW d \in 0 .. n
        PROVE  f[d] = IF d = 0 THEN base ELSE advance[<<f[d - 1], d>>]
    <3>1. CASE d = n
      <4>1. n # 0 /\ f[d - 1] = g[n - 1]
        BY <1>6, <2>1, <3>1
      <4> QED BY <3>1, <4>1
    <3>2. CASE d # n
      <4>1. d \in 0 .. n - 1 /\ (d # 0 => d - 1 \in 0 .. n - 1)
        BY <2>1, <3>2
      <4>2. g[d] = IF d = 0 THEN base ELSE advance[<<g[d - 1], d>>]
        BY <2>2, <4>1 DEF Unfolds
      <4>3. f[d] = g[d] /\ (d # 0 => f[d - 1] = g[d - 1])
        BY <2>1, <3>2, <4>1
      <4> QED BY <4>2, <4>3
    <3> QED BY <3>1, <3>2
  <2>6. f = [d \in 0 .. n |-> f[d]]
    OBVIOUS
  <2>7. Unfolds(f, n, base, advance)
    <3> HIDE DEF f
    <3> QED BY <2>5, <2>6 DEF Unfolds
  <2> QED BY <2>4, <2>7
<1> QED BY <1>5, <1>6

\* The roster of a day is that of the day before with the day's events.
LEMMA RosterUnfolds ==
    /\ \A d \in Day : Roster[d] = IF d = 0 THEN Seed ELSE After(Roster[d - 1], d)
    /\ \A d \in Day : Roster[d] \subseteq Ticker
<1> DEFINE advance == [x \in (SUBSET Ticker) \X Day |-> After(x[1], x[2])]
<1>1. /\ Horizon \in Nat /\ Day = 0 .. Horizon /\ Seed \in SUBSET Ticker
      /\ \A d \in Day : /\ Upstream[d].added \in SUBSET Ticker
                        /\ Overrides[d].added \in SUBSET Ticker
  BY ImportAssumption, MembershipAssumption DEF Day, Changes
<1>2. \A S \in SUBSET Ticker, d \in Day : After(S, d) \in SUBSET Ticker
  BY <1>1 DEF After
<1>3. advance \in [(SUBSET Ticker) \X (0 .. Horizon) -> SUBSET Ticker]
  BY <1>1, <1>2
<1>4. PICK f \in [Day -> SUBSET Ticker] : Unfolds(f, Horizon, Seed, advance)
  <2> HIDE DEF advance
  <2> QED BY <1>1, <1>3, RecursionExists
<1>5. ASSUME NEW d \in Day
      PROVE  f[d] = IF d = 0 THEN Seed ELSE After(f[d - 1], d)
  <2>1. f[d] = IF d = 0 THEN Seed ELSE advance[<<f[d - 1], d>>]
    <3> HIDE DEF advance
    <3> QED BY <1>1, <1>4 DEF Unfolds
  <2>2. d # 0 => advance[<<f[d - 1], d>>] = After(f[d - 1], d)
    BY <1>1
  <2> QED BY <2>1, <2>2
<1>6. f = [d \in Day |-> IF d = 0 THEN Seed ELSE After(f[d - 1], d)]
  <2> HIDE DEF advance
  <2> QED BY <1>4, <1>5
<1>7. Roster = [d \in Day |-> IF d = 0 THEN Seed ELSE After(Roster[d - 1], d)]
  BY <1>6 DEF Roster
<1>8. \A d \in Day : Roster[d] = IF d = 0 THEN Seed ELSE After(Roster[d - 1], d)
  BY <1>7
<1> DEFINE bad == {d \in Day : ~(Roster[d] \subseteq Ticker)}
<1>9. bad = {}
  <2>1. SUFFICES ASSUME bad # {} PROVE FALSE
    OBVIOUS
  <2>2. PICK n \in bad : \A m \in bad : n <= m
    <3>1. bad \in SUBSET Nat
      BY <1>1
    <3> HIDE DEF bad
    <3> QED BY <2>1, <3>1, FirstNumber
  <2>3. n \in Day /\ n # 0
    BY <1>1, <1>8
  <2>4. n - 1 \in Day /\ n - 1 \notin bad
    BY <1>1, <2>2, <2>3
  <2>5. Roster[n] = After(Roster[n - 1], n) /\ Roster[n - 1] \subseteq Ticker
    BY <1>8, <2>3, <2>4
  <2> QED BY <1>2, <2>3, <2>5
<1> QED BY <1>8, <1>9

-----------------------------------------------------------------------------
(* Members of a day, and the spells opened and closed by the replay.       *)

Companies(known) == {known[t] : t \in Ticker}
Members(known) == [company : Companies(known), ticker : Ticker]
Stints(known) == [company : Companies(known), ticker : Ticker, from : Day]
Ended(known) == [company : Companies(known), ticker : Ticker, from : Day, to : Int]
Played(known) == [active : SUBSET Stints(known), closed : SUBSET Ended(known)]
Empty == [active |-> {}, closed |-> {}]

LEMMA FirstIsOne ==
    ASSUME NEW S \in SUBSET Ticker, S # {}
    PROVE  First(S) \in S
<1> DEFINE ranks == {Rank[u] : u \in S}
<1>1. ranks \in SUBSET Nat /\ ranks # {}
  BY MembershipAssumption
<1>2. PICK k \in ranks : \A j \in ranks : k <= j
  <2> HIDE DEF ranks
  <2> QED BY <1>1, FirstNumber
<1>3. \E u \in S : \A v \in S : Rank[u] <= Rank[v]
  BY <1>2
<1> QED BY <1>3 DEF First

LEMMA RepresentativeIsInRoster ==
    ASSUME NEW roster \in SUBSET Ticker, NEW known, NEW t \in roster
    PROVE  /\ Representative(known[t], roster, known) \in roster
           /\ known[Representative(known[t], roster, known)] = known[t]
<1> DEFINE classes == {u \in roster : known[u] = known[t]}
           preferred == {Canonical[u] : u \in classes} \cap classes
           chosen == IF preferred # {} THEN preferred ELSE classes
<1>1. chosen \in SUBSET Ticker /\ chosen # {} /\ chosen \subseteq classes
  OBVIOUS
<1>2. First(chosen) \in chosen
  <2> HIDE DEF chosen
  <2> QED BY <1>1, FirstIsOne
<1>3. Representative(known[t], roster, known) = First(chosen)
  BY DEF Representative
<1> HIDE DEF chosen
<1> QED BY <1>1, <1>2, <1>3

\* A day's members are one per company.
LEMMA CollapsedIsAFunction ==
    ASSUME NEW roster \in SUBSET Ticker, NEW known
    PROVE  /\ Collapsed(roster, known) \subseteq Members(known)
           /\ \A m, n \in Collapsed(roster, known) : m.company = n.company => m = n
<1>1. \A t \in roster : Representative(known[t], roster, known) \in Ticker /\ known[t] \in Companies(known)
  BY RepresentativeIsInRoster DEF Companies
<1> QED BY <1>1 DEF Collapsed, Members

LEMMA PlayIsPlayed ==
    ASSUME NEW known, NEW before \in Played(known), NEW members \in SUBSET Members(known), NEW d \in Day
    PROVE  Play(before, members, d) \in Played(known)
<1>1. d \in Nat
  BY ImportAssumption DEF Day
<1>2. \A a \in Stints(known) : Close(a, d - 1) \in Ended(known)
  BY <1>1 DEF Stints, Ended, Close
<1>3. \A m \in Members(known) : [company |-> m.company, ticker |-> m.ticker, from |-> d] \in Stints(known)
  BY DEF Stints, Members
<1> QED BY <1>2, <1>3 DEF Play, Played

LEMMA ReplayUnfolds ==
    ASSUME NEW known
    PROVE  /\ \A d \in Day : Replay(known)[d] =
                Play(IF d = 0 THEN Empty ELSE Replay(known)[d - 1], Collapsed(Roster[d], known), d)
           /\ \A d \in Day : Replay(known)[d] \in Played(known)
<1> DEFINE members(d) == Collapsed(Roster[d], known)
           first == Play(Empty, members(0), 0)
           advance == [x \in Played(known) \X Day |-> Play(x[1], members(x[2]), x[2])]
<1>1. Horizon \in Nat /\ Day = 0 .. Horizon /\ 0 \in Day
  BY ImportAssumption DEF Day
<1>2. \A d \in Day : members(d) \in SUBSET Members(known)
  BY RosterUnfolds, CollapsedIsAFunction
<1>3. Empty \in Played(known)
  BY DEF Empty, Played
<1> HIDE DEF members
<1>4. first \in Played(known) /\ advance \in [Played(known) \X (0 .. Horizon) -> Played(known)]
  BY <1>1, <1>2, <1>3, PlayIsPlayed
<1>5. PICK f \in [Day -> Played(known)] : Unfolds(f, Horizon, first, advance)
  <2> HIDE DEF advance, first
  <2> QED BY <1>1, <1>4, RecursionExists
<1>6. ASSUME NEW d \in Day
      PROVE  f[d] = Play(IF d = 0 THEN Empty ELSE f[d - 1], members(d), d)
  <2>1. f[d] = IF d = 0 THEN first ELSE advance[<<f[d - 1], d>>]
    <3> HIDE DEF advance, first
    <3> QED BY <1>1, <1>5 DEF Unfolds
  <2>2. d # 0 => f[d - 1] \in Played(known) /\ advance[<<f[d - 1], d>>] = Play(f[d - 1], members(d), d)
    BY <1>1
  <2> QED BY <2>1, <2>2
<1> HIDE DEF advance, first
<1>7. f = [d \in Day |-> Play(IF d = 0 THEN Empty ELSE f[d - 1], members(d), d)]
  BY <1>5, <1>6
<1>8. Replay(known) = [d \in Day |->
        Play(IF d = 0 THEN Empty ELSE Replay(known)[d - 1], members(d), d)]
  BY <1>7 DEF Replay, members, Empty
<1> DEFINE R == Replay(known)
<1>9. \A d \in Day : R[d] = Play(IF d = 0 THEN Empty ELSE R[d - 1], members(d), d)
  <2> HIDE DEF R
  <2>1. R = [d \in Day |-> Play(IF d = 0 THEN Empty ELSE R[d - 1], members(d), d)]
    BY <1>8 DEF R
  <2> QED BY <2>1
<1> HIDE DEF R
<1> DEFINE bad == {d \in Day : R[d] \notin Played(known)}
<1>10. bad = {}
  <2>1. SUFFICES ASSUME bad # {} PROVE FALSE
    OBVIOUS
  <2>2. PICK n \in bad : \A m \in bad : n <= m
    <3>1. bad \in SUBSET Nat
      BY <1>1
    <3> HIDE DEF bad
    <3> QED BY <2>1, <3>1, FirstNumber
  <2>3. n \in Day /\ n # 0
    BY <1>1, <1>2, <1>3, <1>9, PlayIsPlayed
  <2>4. n - 1 \in Day /\ R[n - 1] \in Played(known)
    BY <1>1, <2>2, <2>3
  <2>5. R[n] = Play(R[n - 1], members(n), n)
    BY <1>9, <2>3
  <2> QED BY <1>2, <2>3, <2>4, <2>5, PlayIsPlayed
<1> QED BY <1>9, <1>10 DEF members, R

-----------------------------------------------------------------------------
OnePerCompany(S) == \A i, j \in S : i.company = j.company => i = j

\* On day x the replay p has exactly the members M: each is in one spell that covers
\* the day, closed or still open.
ClosedOn(p, x) == {c \in p.closed : Covers(c, x)}
OpenOn(p, x) == {a \in p.active : a.from <= x}
DayIsRight(p, x, M) ==
    /\ \A c \in ClosedOn(p, x) : Named(c) \in M
    /\ \A a \in OpenOn(p, x) : Named(a) \in M
    /\ \A m \in M : \/ \E c \in ClosedOn(p, x) : Named(c) = m
                    \/ \E a \in OpenOn(p, x) : Named(a) = m
    /\ OnePerCompany(ClosedOn(p, x)) /\ OnePerCompany(OpenOn(p, x))
    /\ \A c \in ClosedOn(p, x), a \in OpenOn(p, x) : c.company # a.company

\* Nothing begins after the day that was played last, and what is closed ended before.
InTime(p, d) ==
    /\ \A a \in p.active : a.from <= d
    /\ \A c \in p.closed : c.from <= c.to /\ c.to < d

\* What a day does to the spells does not touch the days before it.
LEMMA EarlierDaysStay ==
    ASSUME NEW known, NEW p \in Played(known), NEW members \in SUBSET Members(known), NEW d \in Day, NEW x \in Day, x < d,
           NEW M, DayIsRight(p, x, M)
    PROVE  DayIsRight(Play(p, members, d), x, M)
<1> DEFINE q == Play(p, members, d)
           stay == {a \in p.active : Stays(a, members)}
           gone == p.active \ stay
<1>1. d \in Nat /\ x \in Nat /\ \A a \in p.active : a.from \in Nat
  BY ImportAssumption DEF Day, Played, Stints
<1>2. OpenOn(q, x) = {a \in stay : a.from <= x}
  BY <1>1 DEF OpenOn, Play
<1>3. ClosedOn(q, x) = ClosedOn(p, x) \cup {Close(a, d - 1) : a \in {b \in gone : b.from <= x}}
  BY <1>1 DEF ClosedOn, Play, Covers, Close
<1>4. \A a \in p.active : /\ Named(Close(a, d - 1)) = Named(a) /\ Close(a, d - 1).company = a.company
                          /\ a.from <= x => a \in OpenOn(p, x)
  BY DEF Named, Close, OpenOn
<1>5. OpenOn(p, x) = {a \in stay : a.from <= x} \cup {a \in gone : a.from <= x}
  BY DEF OpenOn
<1> DEFINE shut == {Close(a, d - 1) : a \in {b \in gone : b.from <= x}}
           open == {a \in stay : a.from <= x}
<1>6. \A c \in shut : \E a \in gone : a.from <= x /\ c = Close(a, d - 1)
  OBVIOUS
<1>7. \A a \in gone : a.from <= x => Close(a, d - 1) \in shut
  OBVIOUS
<1>8. /\ OpenOn(q, x) = open /\ ClosedOn(q, x) = ClosedOn(p, x) \cup shut
      /\ \A a \in open : a \in OpenOn(p, x) /\ a \notin gone
      /\ \A a \in gone : a.from <= x => a \in OpenOn(p, x)
  BY <1>2, <1>3, <1>5
<1>9. \A a \in OpenOn(p, x) : a \in open \/ (a \in gone /\ a.from <= x)
  BY <1>5
<1>10. \A a \in gone : a \in p.active
  OBVIOUS
<1> HIDE DEF shut, open, gone, q
<1>11. /\ \A c \in ClosedOn(q, x) : Named(c) \in M
       /\ \A a \in OpenOn(q, x) : Named(a) \in M
  BY <1>4, <1>6, <1>8, <1>10 DEF DayIsRight
<1>12. \A m \in M : \/ \E c \in ClosedOn(q, x) : Named(c) = m
                    \/ \E a \in OpenOn(q, x) : Named(a) = m
  BY <1>4, <1>7, <1>8, <1>9, <1>10 DEF DayIsRight
<1>13. OnePerCompany(OpenOn(q, x))
  BY <1>8 DEF DayIsRight, OnePerCompany
<1>14. OnePerCompany(ClosedOn(q, x))
  BY <1>4, <1>6, <1>8, <1>10 DEF DayIsRight, OnePerCompany
<1>15. \A c \in ClosedOn(q, x), a \in OpenOn(q, x) : c.company # a.company
  BY <1>4, <1>6, <1>8, <1>10 DEF DayIsRight, OnePerCompany
<1> QED BY <1>11, <1>12, <1>13, <1>14, <1>15 DEF DayIsRight, q

\* The day itself has the members it was played with.
LEMMA TodayIsRight ==
    ASSUME NEW known, NEW p \in Played(known), NEW members \in SUBSET Members(known), NEW d \in Day,
           OnePerCompany(members), OnePerCompany(p.active),
           \A a \in p.active : a.from < d, \A c \in p.closed : c.from <= c.to /\ c.to < d
    PROVE  /\ DayIsRight(Play(p, members, d), d, members)
           /\ InTime(Play(p, members, d), d)
           /\ OnePerCompany(Play(p, members, d).active)
<1> DEFINE q == Play(p, members, d)
           stay == {a \in p.active : Stays(a, members)}
           enter == {m \in members : \A a \in stay : a.company # m.company}
           new == {[company |-> m.company, ticker |-> m.ticker, from |-> d] : m \in enter}
<1>1. d \in Nat /\ (\A a \in p.active : a.from \in Nat) /\ \A c \in p.closed : c.to \in Int
  BY ImportAssumption DEF Day, Played, Stints, Ended
<1>2. q.active = stay \cup new /\ q.closed = p.closed \cup {Close(a, d - 1) : a \in p.active \ stay}
  BY DEF Play
<1>3. InTime(q, d)
  BY <1>1, <1>2 DEF InTime, Close
<1>4. ClosedOn(q, d) = {} /\ OpenOn(q, d) = q.active
  <2>1. \A c \in q.closed : c.to \in Int
    BY <1>1, <1>2 DEF Close
  <2> HIDE DEF q
  <2> QED BY <1>1, <1>3, <2>1 DEF InTime, ClosedOn, OpenOn, Covers
<1>5. /\ \A a \in stay : Named(a) \in members
      /\ \A a \in new : Named(a) \in members /\ Named(a) \in enter
  <2>1. \A a \in stay : Named(a) \in members
    BY DEF Stays, Named
  <2>2. \A m \in members : m = [company |-> m.company, ticker |-> m.ticker]
    BY DEF Members
  <2>3. \A a \in new : \E m \in enter : Named(a) = m
    BY <2>2 DEF Named
  <2> QED BY <2>1, <2>3
<1>6. \A m \in members : m \in enter \/ \E a \in stay : a.company = m.company
  OBVIOUS
<1>7. \A m \in enter : \E a \in new : Named(a) = m
  <2> SUFFICES ASSUME NEW m \in enter PROVE \E a \in new : Named(a) = m
    OBVIOUS
  <2> DEFINE a == [company |-> m.company, ticker |-> m.ticker, from |-> d]
  <2>1. a \in new /\ m \in Members(known)
    OBVIOUS
  <2>2. Named(a) = m
    BY <2>1 DEF Named, Members
  <2> QED BY <2>1, <2>2
<1>8. \A a \in stay, m \in members : a.company = m.company => Named(a) = m
  <2> SUFFICES ASSUME NEW a \in stay, NEW m \in members, a.company = m.company PROVE Named(a) = m
    OBVIOUS
  <2>1. Named(a) \in members /\ Named(a).company = m.company
    BY <1>5 DEF Named
  <2> QED BY <2>1 DEF OnePerCompany
<1>9. \A m \in members : \E a \in q.active : Named(a) = m
  BY <1>2, <1>6, <1>7, <1>8
<1>10. OnePerCompany(q.active)
  <2>1. \A a, b \in new : a.company = b.company => a = b
    BY DEF OnePerCompany
  <2>2. \A a \in stay, b \in new : a.company # b.company
    OBVIOUS
  <2>3. \A a, b \in stay : a.company = b.company => a = b
    BY DEF OnePerCompany
  <2> HIDE DEF stay, new
  <2> QED BY <1>2, <2>1, <2>2, <2>3 DEF OnePerCompany
<1>11. DayIsRight(q, d, members)
  BY <1>2, <1>4, <1>5, <1>9, <1>10 DEF DayIsRight, OnePerCompany
<1> QED BY <1>3, <1>10, <1>11

\* The spells of a replay up to a day tell the members of every day until then.
LEMMA ReplayIsRight ==
    ASSUME NEW known, NEW d \in Day
    PROVE  /\ InTime(Replay(known)[d], d)
           /\ \A x \in 0 .. d : DayIsRight(Replay(known)[d], x, Collapsed(Roster[x], known))
<1> DEFINE R == Replay(known)
           members(x) == Collapsed(Roster[x], known)
           right(n) == /\ InTime(R[n], n) /\ OnePerCompany(R[n].active)
                       /\ \A x \in 0 .. n : DayIsRight(R[n], x, members(x))
           bad == {n \in Day : ~right(n)}
<1>1. Horizon \in Nat /\ Day = 0 .. Horizon /\ 0 \in Day
  BY ImportAssumption DEF Day
<1>2. \A x \in Day : members(x) \in SUBSET Members(known) /\ OnePerCompany(members(x))
  BY RosterUnfolds, CollapsedIsAFunction DEF OnePerCompany
<1>3. /\ \A n \in Day : R[n] = Play(IF n = 0 THEN Empty ELSE R[n - 1], members(n), n)
      /\ \A n \in Day : R[n] \in Played(known)
  BY ReplayUnfolds
<1> HIDE DEF members, R
<1>4. right(0)
  <2>1. R[0] = Play(Empty, members(0), 0)
    BY <1>1, <1>3
  <2>2. Empty \in Played(known) /\ OnePerCompany(Empty.active) /\ Empty.active = {} /\ Empty.closed = {}
    BY DEF Empty, Played, OnePerCompany
  <2>3. /\ DayIsRight(R[0], 0, members(0)) /\ InTime(R[0], 0) /\ OnePerCompany(R[0].active)
    <3>1. /\ members(0) \in SUBSET Members(known) /\ OnePerCompany(members(0)) /\ 0 \in Day
          /\ (\A a \in Empty.active : a.from < 0) /\ \A c \in Empty.closed : c.from <= c.to /\ c.to < 0
      BY <1>1, <1>2, <2>2
    <3> QED BY <2>1, <2>2, <3>1, TodayIsRight
  <2>4. \A x \in 0 .. 0 : x = 0
    OBVIOUS
  <2> QED BY <2>3, <2>4
<1>5. bad = {}
  <2>1. SUFFICES ASSUME bad # {} PROVE FALSE
    OBVIOUS
  <2>2. PICK n \in bad : \A m \in bad : n <= m
    <3>1. bad \in SUBSET Nat
      BY <1>1
    <3> HIDE DEF bad
    <3> QED BY <2>1, <3>1, FirstNumber
  <2>3. n \in Day /\ n # 0 /\ n \in Nat
    BY <1>1, <1>4
  <2>4. n - 1 \in Day /\ n - 1 \notin bad
    BY <1>1, <2>2, <2>3
  <2>5. right(n - 1) /\ R[n - 1] \in Played(known) /\ R[n] = Play(R[n - 1], members(n), n)
    BY <1>3, <2>3, <2>4
  <2>6. (\A a \in R[n - 1].active : a.from < n) /\ \A c \in R[n - 1].closed : c.from <= c.to /\ c.to < n
    <3>1. /\ \A a \in R[n - 1].active : a.from \in Nat
          /\ \A c \in R[n - 1].closed : c.to \in Int
      BY <1>1, <2>5 DEF Played, Stints, Ended
    <3> QED BY <2>3, <2>5, <3>1 DEF InTime
  <2>7. DayIsRight(R[n], n, members(n)) /\ InTime(R[n], n) /\ OnePerCompany(R[n].active)
    BY <1>2, <2>3, <2>5, <2>6, TodayIsRight
  <2>8. ASSUME NEW x \in 0 .. n PROVE DayIsRight(R[n], x, members(x))
    <3>1. CASE x = n
      BY <2>7, <3>1
    <3>2. CASE x # n
      <4>1. x \in Day /\ x < n /\ x \in 0 .. n - 1
        BY <1>1, <2>3, <3>2
      <4> QED BY <1>2, <2>3, <2>5, <4>1, EarlierDaysStay
    <3> QED BY <3>1, <3>2
  <2> QED BY <2>2, <2>7, <2>8
<1>6. right(d)
  BY <1>5
<1> QED BY <1>6 DEF R, members

-----------------------------------------------------------------------------
\* The rows of a bundle: on every day of the calendar they are the members of that
\* day or, after the bundle's coverage, of its last day.
Rows(table, d) == {r \in table : Covers(r, d)}
ShowsMembers(table, d, M) ==
    /\ {[company |-> r.company, ticker |-> r.ticker] : r \in Rows(table, d)} = M
    /\ OnePerCompany(Rows(table, d))

LEMMA FrameShowsTheRoster ==
    ASSUME NEW b, b.end \in Day, NEW d \in Day
    PROVE  LET x == IF d < b.end THEN d ELSE b.end IN
           ShowsMembers(Frame(b), d, Collapsed(Roster[x], b.known))
<1> DEFINE x == IF d < b.end THEN d ELSE b.end
           M == Collapsed(Roster[x], b.known)
           p == Replay(b.known)[b.end]
           row(c) == [company |-> c.company, ticker |-> c.ticker, from |-> c.from, to |-> c.to,
                      source |-> b.end]
           shut == {row(c) : c \in ClosedOn(p, x)}
           open == {row(Close(a, Forever)) : a \in OpenOn(p, x)}
<1>1. Horizon \in Nat /\ b.end \in Nat /\ d \in Nat /\ d <= Horizon /\ x \in 0 .. b.end /\ x \in Nat
  BY ImportAssumption DEF Day
<1>2. p \in Played(b.known) /\ InTime(p, b.end) /\ DayIsRight(p, x, M)
  BY <1>1, ReplayUnfolds, ReplayIsRight
<1>3. Frame(b) = {row(c) : c \in p.closed} \cup {row(Close(a, Forever)) : a \in p.active}
  BY DEF Frame, Intervals
<1>4. ASSUME NEW c \in p.closed PROVE Covers(row(c), d) <=> c \in ClosedOn(p, x)
  <2>1. c.from \in Nat /\ c.to \in Int /\ c.to < b.end
    BY <1>1, <1>2 DEF Played, Ended, InTime, Day
  <2> QED BY <1>1, <2>1 DEF Covers, ClosedOn
<1>5. ASSUME NEW a \in p.active PROVE Covers(row(Close(a, Forever)), d) <=> a \in OpenOn(p, x)
  <2>1. a.from \in Nat /\ a.from <= b.end
    BY <1>1, <1>2 DEF Played, Stints, InTime, Day
  <2> QED BY <1>1, <2>1 DEF Covers, OpenOn, Close, Forever
<1>6. Rows(Frame(b), d) = shut \cup open
  <2>1. \A c \in ClosedOn(p, x) : c \in p.closed
    BY DEF ClosedOn
  <2>2. \A a \in OpenOn(p, x) : a \in p.active
    BY DEF OpenOn
  <2> HIDE DEF p, row
  <2> QED BY <1>3, <1>4, <1>5, <2>1, <2>2 DEF Rows
<1>7. \A c : Named(row(c)) = Named(c) /\ row(c).company = c.company
  BY DEF Named
<1>8. \A a : /\ Named(row(Close(a, Forever))) = Named(a)
             /\ row(Close(a, Forever)).company = a.company
  BY DEF Named, Close
<1>9. {Named(r) : r \in Rows(Frame(b), d)} = M
  <2> HIDE DEF row, p, M
  <2>1. \A r \in shut \cup open : Named(r) \in M
    BY <1>2, <1>7, <1>8 DEF DayIsRight
  <2>2. \A m \in M : \E r \in shut \cup open : Named(r) = m
    BY <1>2, <1>7, <1>8 DEF DayIsRight
  <2> QED BY <1>6, <2>1, <2>2
<1>10. OnePerCompany(shut \cup open)
  <2> HIDE DEF row, p, M
  <2>1. \A r \in shut : \E c \in ClosedOn(p, x) : r = row(c) /\ r.company = c.company
    BY <1>7
  <2>2. \A r \in open : \E a \in OpenOn(p, x) : r = row(Close(a, Forever)) /\ r.company = a.company
    BY <1>8
  <2>3. /\ OnePerCompany(ClosedOn(p, x)) /\ OnePerCompany(OpenOn(p, x))
        /\ \A c \in ClosedOn(p, x), a \in OpenOn(p, x) : c.company # a.company
    BY <1>2 DEF DayIsRight
  <2> HIDE DEF shut, open
  <2>4. \A r, q \in shut : r.company = q.company => r = q
    BY <2>1, <2>3 DEF OnePerCompany
  <2>5. \A r, q \in open : r.company = q.company => r = q
    BY <2>2, <2>3 DEF OnePerCompany
  <2>6. \A r \in shut, q \in open : r.company # q.company
    BY <2>1, <2>2, <2>3
  <2> QED BY <2>4, <2>5, <2>6 DEF OnePerCompany
<1>11. {[company |-> r.company, ticker |-> r.ticker] : r \in Rows(Frame(b), d)} = M
  BY <1>9 DEF Named
<1> QED BY <1>6, <1>10, <1>11 DEF ShowsMembers


\* A bundle's rows are spells of days, and bear its name.
LEMMA FrameRows ==
    ASSUME NEW b, b.end \in Day, NEW r \in Frame(b)
    PROVE  /\ r.from \in Day /\ r.to \in Int /\ r.from <= r.to /\ r.source = b.end
           /\ r.source # Licensed
<1>1. Horizon \in Nat /\ Day = 0 .. Horizon
  BY ImportAssumption DEF Day
<1> DEFINE p == Replay(b.known)[b.end]
<1>2. p \in Played(b.known) /\ InTime(p, b.end)
  BY <1>1, ReplayUnfolds, ReplayIsRight
<1>3. /\ r.source = b.end
      /\ \/ \E c \in p.closed : r.from = c.from /\ r.to = c.to
         \/ \E a \in p.active : r.from = a.from /\ r.to = Forever
  BY DEF Frame, Intervals, Close
<1> HIDE DEF p
<1>4. /\ \A c \in p.closed : c.from \in Day /\ c.to \in Int /\ c.from <= c.to
      /\ \A a \in p.active : a.from \in Day /\ a.from <= Forever /\ Forever \in Int
  BY <1>1, <1>2 DEF Played, Stints, Ended, InTime, Forever
<1>5. r.from \in Day /\ r.to \in Int /\ r.from <= r.to
  BY <1>3, <1>4
<1>6. Licensed # b.end
  BY <1>1 DEF Licensed
<1> QED BY <1>3, <1>5, <1>6

-----------------------------------------------------------------------------
(* The syncs.                                                              *)

IsBundle(b) ==
    /\ b = [end |-> b.end, known |-> b.known, prior |-> b.prior]
    /\ b.end \in Day /\ b.prior \subseteq Day
SyncTypeOK ==
    /\ step \in [Syncer -> {"idle", "planned"} \cup Writing]
    /\ plan = [s \in Syncer |-> plan[s]] /\ \A s \in Syncer : IsBundle(plan[s])
    /\ last.end \in Day
    /\ bundles \in SUBSET Day /\ alone \in SUBSET Syncer /\ torn \in BOOLEAN

\* Every reconstructed row comes from a bundle that is registered, is about to be, or
\* whose sync stopped before it was.
RowsHaveSources ==
    \A r \in Reconstructed :
        \/ r.source \in bundles \cup orphaned
        \/ \E s \in Syncer : step[s] = "registering" /\ r.source = plan[s].end

\* The reconstructed rows are those of a bundle, but for those that a workbook's row
\* of the same key has replaced.
Carries(frame) ==
    /\ Reconstructed \subseteq frame
    /\ \A f \in frame : f \in universe \/ \E w \in universe \ Reconstructed : MemberKey(w) = MemberKey(f)

\* A sync that has its writes to itself deletes every reconstructed row, then inserts
\* its own.
AloneInv ==
    \A s \in alone :
        /\ step[s] \in Writing /\ Alone(s)
        /\ step[s] = "deleting" => \A r \in Reconstructed : r.source \in plan[s].prior
        /\ step[s] = "inserting" => Reconstructed = {}
        /\ step[s] = "registering" => Carries(Frame(plan[s]))

\* Unless the last writes were torn, one sync at most writes, and before it deletes
\* the rows are those of the bundle registered last.
WholeInv ==
    ~torn =>
        /\ \A s \in Syncer : step[s] \in Writing => Alone(s)
        /\ bundles # {} /\ (\A s \in Syncer : step[s] \notin {"inserting", "registering"}) =>
             Carries(Frame(last))

UInv == SyncTypeOK /\ RowsHaveSources /\ AloneInv /\ WholeInv

LEMMA NoPlanIsBundle == IsBundle(NoPlan)
  BY ImportAssumption DEF IsBundle, NoPlan, Day

LEMMA UInvInit == DataInit => UInv
<1> SUFFICES ASSUME MembershipInit, ImportInit PROVE UInv
  BY DEF DataInit
<1>1. 0 \in Day
  BY ImportAssumption DEF Day
<1>2. SyncTypeOK
  BY <1>1, NoPlanIsBundle DEF MembershipInit, SyncTypeOK, Writing
<1>3. RowsHaveSources /\ AloneInv /\ WholeInv
  BY DEF MembershipInit, ImportInit, RowsHaveSources, AloneInv, WholeInv, Writing, Reconstructed
<1> QED BY <1>2, <1>3 DEF UInv

\* Carries of a frame depends on the table alone.
LEMMA CarriesStays ==
    ASSUME NEW b, universe' = universe, Carries(Frame(b)), NEW c, c.end = b.end, c.known = b.known
    PROVE  Carries(Frame(c))'
  BY DEF Carries, Reconstructed, MemberKey, Frame, Intervals

LEMMA OthersKeepUInv == ASSUME UInv, UNCHANGED memvars, UNCHANGED universe PROVE UInv'
<1>1. SyncTypeOK' /\ RowsHaveSources'
  BY DEF memvars, UInv, SyncTypeOK, RowsHaveSources, Reconstructed, Writing, IsBundle
<1>2. AloneInv' /\ WholeInv'
  BY DEF memvars, UInv, AloneInv, WholeInv, Alone, Writing, Carries, Reconstructed, MemberKey, Frame, Intervals
<1> QED BY <1>1, <1>2 DEF UInv

\* A workbook's rows take the place of reconstructed ones, and add none.
LEMMA WorkbookKeeps ==
    ASSUME UInv, UNCHANGED memvars, NEW new, \A r \in new : r.source = Licensed,
           universe' = UpsertMembers(new)
    PROVE  UInv'
<1>1. Reconstructed' \subseteq Reconstructed
  BY DEF Reconstructed, UpsertMembers
<1>2. ASSUME NEW frame, Carries(frame)
      PROVE  /\ Reconstructed' \subseteq frame
             /\ \A f \in frame : \/ f \in universe'
                                 \/ \E w \in universe' \ Reconstructed' : MemberKey(w) = MemberKey(f)
  <2>1. Reconstructed' \subseteq frame
    BY <1>1, <1>2 DEF Carries
  <2>2. ASSUME NEW r \in universe
        PROVE  r \in universe' \/ \E w \in universe' \ Reconstructed' : MemberKey(w) = MemberKey(r)
    <3>1. CASE \A i \in new : MemberKey(i) # MemberKey(r)
      BY <3>1 DEF UpsertMembers
    <3>2. ASSUME NEW i \in new, MemberKey(i) = MemberKey(r)
          PROVE  \E w \in universe' \ Reconstructed' : MemberKey(w) = MemberKey(r)
      <4>1. i \in universe' \ Reconstructed'
        BY DEF UpsertMembers, Reconstructed
      <4> QED BY <3>2, <4>1
    <3> QED BY <3>1, <3>2
  <2>3. \A w \in universe \ Reconstructed : w \in universe' => w \in universe' \ Reconstructed'
    BY DEF Reconstructed
  <2> QED BY <1>2, <2>1, <2>2, <2>3 DEF Carries
<1>3. SyncTypeOK'
  BY DEF memvars, UInv, SyncTypeOK, Writing, IsBundle
<1>4. RowsHaveSources'
  BY <1>1 DEF memvars, UInv, RowsHaveSources
<1>5. \A b : Carries(Frame(b)) => Carries(Frame(b))'
  BY <1>2 DEF Carries, MemberKey, Frame, Intervals
<1>6. AloneInv'
  <2>1. \A s : Frame(plan'[s]) = Frame(plan[s]) /\ plan'[s] = plan[s]
    BY DEF memvars
  <2>2. \A s \in alone : Carries(Frame(plan[s])) => Carries(Frame(plan[s]))'
    BY <1>5, <2>1 DEF memvars, Carries, Frame, Intervals
  <2> QED BY <1>1, <2>2 DEF memvars, UInv, AloneInv, Alone, Writing
<1>7. WholeInv'
  <2>1. Carries(Frame(last)) => Carries(Frame(last))'
    BY <1>5 DEF memvars, Carries, Frame, Intervals
  <2> QED BY <2>1 DEF memvars, UInv, WholeInv, Alone, Writing
<1> QED BY <1>3, <1>4, <1>6, <1>7 DEF UInv

LEMMA ImportersKeepUInv ==
    ASSUME UInv, IInv, UNCHANGED memvars, NEW i \in Importer, ImporterStep(i)
    PROVE  UInv'
<1>1. CASE Load(i)
  <2>1. pc[i] = "loading" /\ universe' = UpsertMembers(Spells[job[i]])
    BY <1>1 DEF Load
  <2>2. \A r \in Spells[job[i]] : r.source = Licensed
    BY <2>1, ImportAssumption DEF IInv, ProgressInv
  <2> QED BY <2>1, <2>2, WorkbookKeeps
<1>2. CASE ~Load(i)
  <2>1. UNCHANGED universe
    BY <1>2 DEF ImporterStep, Call, Archive, RecordIssue, RegisterRejected, WriteCloses, ReplaceCloses,
                RegisterAccepted, Stop, tables
  <2> QED BY <2>1, OthersKeepUInv
<1> QED BY <1>1, <1>2

\* A sync goes from one place to another, at most one of which is one where it writes.
LEMMA SyncIndexKeeps ==
    ASSUME UInv, NEW s \in Syncer, NEW end \in Day, NEW refresh \in BOOLEAN,
           SyncIndex(s, end, refresh)
    PROVE  UInv'
<1> DEFINE b == [end |-> end, known |-> Identities, prior |-> {}]
<1>1. /\ step[s] = "idle" /\ plan' = [plan EXCEPT ![s] = b] /\ step' = [step EXCEPT ![s] = "planned"]
      /\ UNCHANGED <<universe, bundles, alone, orphaned, torn, last>>
  BY DEF SyncIndex, tables
<1>2. IsBundle(b)
  BY DEF IsBundle
<1> HIDE DEF b
<1>3. /\ step'[s] = "planned" /\ plan'[s] = b
      /\ plan' = [t \in Syncer |-> plan'[t]]
      /\ \A t \in Syncer : t # s => step'[t] = step[t] /\ plan'[t] = plan[t]
      /\ \A t \in alone : t # s /\ t \in Syncer
  BY <1>1 DEF UInv, SyncTypeOK, AloneInv, Writing
<1>4. SyncTypeOK'
  BY <1>1, <1>2, <1>3 DEF UInv, SyncTypeOK, Writing, IsBundle
<1>5. \A t \in Syncer : Alone(t)' <=> Alone(t)
  BY <1>1, <1>3 DEF Alone, Writing
<1>6. RowsHaveSources'
  BY <1>1, <1>3 DEF UInv, RowsHaveSources, Reconstructed
<1>7. AloneInv'
  <2>1. \A t \in alone : Carries(Frame(plan[t])) => Carries(Frame(plan[t]))'
    BY <1>1, <1>3, CarriesStays
  <2> QED BY <1>1, <1>3, <1>5, <2>1 DEF UInv, AloneInv, Writing, Reconstructed
<1>8. WholeInv'
  <2>1. Carries(Frame(last)) => Carries(Frame(last))'
    BY <1>1, CarriesStays
  <2> QED BY <1>1, <1>3, <1>5, <2>1 DEF UInv, WholeInv, Writing
<1> QED BY <1>4, <1>6, <1>7, <1>8 DEF UInv

LEMMA ReadPriorKeeps == ASSUME UInv, NEW s \in Syncer, ReadPrior(s) PROVE UInv'
<1> DEFINE b == [plan[s] EXCEPT !.prior = bundles]
<1>1. /\ step[s] = "planned" /\ plan' = [plan EXCEPT ![s] = b] /\ step' = [step EXCEPT ![s] = "deleting"]
      /\ alone' = IF Alone(s) /\ orphaned \subseteq bundles THEN alone \cup {s} ELSE {}
      /\ torn' = (torn \/ ~Alone(s))
      /\ UNCHANGED <<universe, bundles, orphaned, last>>
  BY DEF ReadPrior, tables
<1>2. IsBundle(b) /\ b.prior = bundles /\ b.end = plan[s].end
  BY DEF UInv, SyncTypeOK, IsBundle
<1> HIDE DEF b
<1>3. /\ step'[s] = "deleting" /\ plan'[s] = b
      /\ plan' = [t \in Syncer |-> plan'[t]]
      /\ \A t \in Syncer : t # s => step'[t] = step[t] /\ plan'[t] = plan[t]
  BY <1>1 DEF UInv, SyncTypeOK
<1>4. SyncTypeOK'
  BY <1>1, <1>2, <1>3 DEF UInv, SyncTypeOK, Writing, IsBundle
<1>5. \A t \in alone' : t = s /\ Alone(s) /\ orphaned \subseteq bundles
  BY <1>1 DEF UInv, AloneInv, SyncTypeOK, Alone, Writing
<1>6. Alone(s)' <=> Alone(s)
  BY <1>3 DEF Alone, Writing
<1>7. RowsHaveSources'
  BY <1>1, <1>3 DEF UInv, RowsHaveSources, Reconstructed
<1>8. AloneInv'
  <2>1. Alone(s) /\ orphaned \subseteq bundles => \A r \in Reconstructed : r.source \in bundles
    BY <1>1 DEF UInv, RowsHaveSources, Alone, Writing
  <2> QED BY <1>1, <1>2, <1>3, <1>5, <1>6, <2>1 DEF AloneInv, Writing, Reconstructed
<1>9. WholeInv'
  <2> SUFFICES ASSUME ~torn' PROVE WholeInv'
    BY DEF WholeInv
  <2>1. ~torn /\ Alone(s)
    BY <1>1 DEF UInv, SyncTypeOK
  <2>2. \A t \in Syncer : step'[t] \in Writing => t = s
    BY <1>3, <2>1 DEF Alone
  <2>3. \A t \in Syncer : step[t] \notin {"inserting", "registering"}
    BY <1>1, <2>1 DEF Alone, Writing
  <2>4. bundles # {} => Carries(Frame(last))
    BY <2>1, <2>3 DEF UInv, WholeInv
  <2>5. bundles # {} => Carries(Frame(last))'
    BY <1>1, <2>4, CarriesStays
  <2> QED BY <1>1, <1>6, <2>1, <2>2, <2>5 DEF WholeInv
<1> QED BY <1>4, <1>7, <1>8, <1>9 DEF UInv

LEMMA DeleteKeeps == ASSUME UInv, NEW s \in Syncer, DeleteSuperseded(s) PROVE UInv'
<1>1. /\ step[s] = "deleting" /\ step' = [step EXCEPT ![s] = "inserting"]
      /\ universe' = {r \in universe : r.source \notin plan[s].prior}
      /\ orphaned' = orphaned \ plan[s].prior
      /\ UNCHANGED <<bundles, plan, alone, torn, last>>
  BY DEF DeleteSuperseded
<1>2. SyncTypeOK'
  BY <1>1 DEF UInv, SyncTypeOK, Writing, IsBundle
<1>3. /\ step'[s] = "inserting" /\ \A t \in Syncer : t # s => step'[t] = step[t]
      /\ alone \subseteq Syncer
  BY <1>1 DEF UInv, SyncTypeOK
<1>4. \A t \in Syncer : Alone(t)' <=> Alone(t)
  BY <1>1, <1>3 DEF Alone, Writing
<1>5. \A r \in Reconstructed' : r \in Reconstructed /\ r.source \notin plan[s].prior
  BY <1>1 DEF Reconstructed
<1>6. RowsHaveSources'
  BY <1>1, <1>3, <1>5 DEF UInv, RowsHaveSources
<1>7. AloneInv'
  <2>1. \A t \in alone : t = s
    BY <1>1, <1>3 DEF UInv, AloneInv, Alone, Writing
  <2>2. s \in alone => Reconstructed' = {}
    BY <1>1, <1>5 DEF UInv, AloneInv
  <2> QED BY <1>1, <1>3, <1>4, <2>1, <2>2 DEF UInv, AloneInv, Writing
<1>8. WholeInv'
  BY <1>1, <1>3, <1>4 DEF UInv, WholeInv, Writing
<1> QED BY <1>2, <1>6, <1>7, <1>8 DEF UInv

LEMMA InsertKeeps == ASSUME UInv, NEW s \in Syncer, InsertIntervals(s) PROVE UInv'
<1> DEFINE frame == Frame(plan[s])
<1>1. /\ step[s] = "inserting" /\ step' = [step EXCEPT ![s] = "registering"]
      /\ universe' = UpsertMembers(frame)
      /\ UNCHANGED <<bundles, plan, alone, orphaned, torn, last>>
  BY DEF InsertIntervals
<1>2. SyncTypeOK'
  BY <1>1 DEF UInv, SyncTypeOK, Writing, IsBundle
<1>3. /\ step'[s] = "registering" /\ \A t \in Syncer : t # s => step'[t] = step[t]
      /\ alone \subseteq Syncer
  BY <1>1 DEF UInv, SyncTypeOK
<1>4. \A t \in Syncer : Alone(t)' <=> Alone(t)
  BY <1>1, <1>3 DEF Alone, Writing
<1>5. \A r \in frame : r.source = plan[s].end /\ r.source # Licensed
  BY FrameRows DEF UInv, SyncTypeOK, IsBundle
<1> HIDE DEF frame
<1>6. /\ \A r \in Reconstructed' : r \in Reconstructed \/ r \in frame
      /\ frame \subseteq universe'
  BY <1>1 DEF UpsertMembers, Reconstructed
<1>7. RowsHaveSources'
  BY <1>1, <1>3, <1>5, <1>6 DEF UInv, RowsHaveSources
<1>8. AloneInv'
  <2>1. \A t \in alone : t = s
    BY <1>1, <1>3 DEF UInv, AloneInv, Alone, Writing
  <2>2. s \in alone => Reconstructed' \subseteq frame
    BY <1>1, <1>6 DEF UInv, AloneInv
  <2>3. frame = Frame(plan[s])'
    BY <1>1 DEF frame, Frame, Intervals
  <2>4. s \in alone => Carries(Frame(plan[s]))'
    BY <1>6, <2>2, <2>3 DEF Carries
  <2> QED BY <1>1, <1>3, <1>4, <2>1, <2>4 DEF UInv, AloneInv, Writing
<1>9. WholeInv'
  BY <1>1, <1>3, <1>4 DEF UInv, WholeInv, Writing
<1> QED BY <1>2, <1>7, <1>8, <1>9 DEF UInv

LEMMA RegisterBundleKeeps == ASSUME UInv, NEW s \in Syncer, RegisterBundle(s) PROVE UInv'
<1>1. /\ step[s] = "registering" /\ step' = [step EXCEPT ![s] = "idle"]
      /\ bundles' = bundles \cup {plan[s].end} /\ alone' = alone \ {s} /\ torn' = (s \notin alone)
      /\ last' = [end |-> plan[s].end, known |-> plan[s].known]
      /\ plan' = [plan EXCEPT ![s] = NoPlan] /\ UNCHANGED <<universe, orphaned>>
  BY DEF RegisterBundle, tables
<1>2. plan[s].end \in Day
  BY DEF UInv, SyncTypeOK, IsBundle
<1>3. /\ step'[s] = "idle" /\ plan'[s] = NoPlan
      /\ plan' = [t \in Syncer |-> plan'[t]]
      /\ \A t \in Syncer : t # s => step'[t] = step[t] /\ plan'[t] = plan[t]
      /\ alone \subseteq Syncer
  BY <1>1 DEF UInv, SyncTypeOK
<1>4. SyncTypeOK'
  BY <1>1, <1>2, <1>3, NoPlanIsBundle DEF UInv, SyncTypeOK, Writing, IsBundle
<1>5. RowsHaveSources'
  BY <1>1, <1>3 DEF UInv, RowsHaveSources, Reconstructed
<1>6. AloneInv'
  <2>1. \A t \in alone' : t \in alone /\ t \in Syncer /\ t # s
    BY <1>1, <1>3
  <2>2. \A t \in Syncer : Alone(t) => Alone(t)'
    BY <1>3 DEF Alone, Writing
  <2>3. \A t \in alone' : Carries(Frame(plan[t])) => Carries(Frame(plan[t]))'
    BY <1>1, <1>3, <2>1, CarriesStays
  <2> QED BY <1>1, <1>3, <2>1, <2>2, <2>3 DEF UInv, AloneInv, Writing, Reconstructed
<1>7. WholeInv'
  <2> SUFFICES ASSUME s \in alone PROVE WholeInv'
    BY <1>1 DEF WholeInv
  <2>1. Carries(Frame(plan[s])) /\ Alone(s)
    BY <1>1 DEF UInv, AloneInv
  <2>2. Carries(Frame(last))'
    BY <1>1, <2>1, CarriesStays
  <2>3. \A t \in Syncer : step'[t] \notin Writing
    BY <1>3, <2>1 DEF Alone, Writing
  <2> QED BY <1>1, <2>2, <2>3 DEF WholeInv
<1> QED BY <1>4, <1>5, <1>6, <1>7 DEF UInv

LEMMA StopSyncKeeps == ASSUME UInv, NEW s \in Syncer, StopSync(s) PROVE UInv'
<1>1. /\ step' = [step EXCEPT ![s] = "idle"] /\ alone' = alone \ {s}
      /\ torn' = (torn \/ step[s] \in {"inserting", "registering"})
      /\ orphaned' = IF step[s] = "registering" /\ plan[s].end \notin bundles
                      THEN orphaned \cup {plan[s].end} ELSE orphaned
      /\ plan' = [plan EXCEPT ![s] = NoPlan] /\ UNCHANGED <<universe, bundles, last>>
  BY DEF StopSync, tables
<1>2. /\ step'[s] = "idle" /\ plan'[s] = NoPlan
      /\ plan' = [t \in Syncer |-> plan'[t]]
      /\ \A t \in Syncer : t # s => step'[t] = step[t] /\ plan'[t] = plan[t]
      /\ alone \subseteq Syncer
  BY <1>1 DEF UInv, SyncTypeOK
<1>3. SyncTypeOK'
  BY <1>1, <1>2, NoPlanIsBundle DEF UInv, SyncTypeOK, Writing, IsBundle
<1>4. RowsHaveSources'
  <2> SUFFICES ASSUME NEW r \in Reconstructed
               PROVE  \/ r.source \in bundles \cup orphaned'
                      \/ \E t \in Syncer : step'[t] = "registering" /\ r.source = plan'[t].end
    BY <1>1 DEF RowsHaveSources, Reconstructed
  <2>1. CASE r.source \in bundles \cup orphaned
    BY <1>1, <2>1
  <2>2. ASSUME NEW t \in Syncer, step[t] = "registering", r.source = plan[t].end
        PROVE  \/ r.source \in bundles \cup orphaned'
               \/ \E u \in Syncer : step'[u] = "registering" /\ r.source = plan'[u].end
    BY <1>1, <1>2, <2>2
  <2> QED BY <2>1, <2>2 DEF UInv, RowsHaveSources
<1>5. \A t \in Syncer : Alone(t) => Alone(t)'
  BY <1>2 DEF Alone, Writing
<1>6. AloneInv'
  <2>1. \A t \in alone' : t \in alone /\ t \in Syncer /\ t # s
    BY <1>1, <1>2
  <2>2. \A t \in alone' : Carries(Frame(plan[t])) => Carries(Frame(plan[t]))'
    BY <1>1, <1>2, <2>1, CarriesStays
  <2> QED BY <1>1, <1>2, <1>5, <2>1, <2>2 DEF UInv, AloneInv, Writing, Reconstructed
<1>7. WholeInv'
  <2> SUFFICES ASSUME ~torn' PROVE WholeInv'
    BY DEF WholeInv
  <2>1. ~torn /\ step[s] \notin {"inserting", "registering"}
    BY <1>1
  <2>2. \A t \in Syncer : step'[t] \in Writing => step[t] \in Writing
    BY <1>2 DEF Writing
  <2>3. (\A t \in Syncer : step'[t] \notin {"inserting", "registering"}) =>
          \A t \in Syncer : step[t] \notin {"inserting", "registering"}
    BY <1>2, <2>1
  <2>4. Carries(Frame(last)) => Carries(Frame(last))'
    BY <1>1, CarriesStays
  <2> QED BY <1>1, <1>5, <2>1, <2>2, <2>3, <2>4 DEF UInv, WholeInv
<1> QED BY <1>3, <1>4, <1>6, <1>7 DEF UInv

-----------------------------------------------------------------------------
LEMMA MembershipInvariant == DataSpec => []UInv
<1>1. ASSUME UInv, IInv, [DataNext]_datavars PROVE UInv'
  <2>1. CASE UNCHANGED <<memvars, universe>>
    BY <1>1, <2>1, OthersKeepUInv
  <2>2. CASE MembershipNext
    <3>1. ASSUME NEW i \in Importer, ImporterStep(i), UNCHANGED memvars PROVE UInv'
      BY <1>1, <3>1, ImportersKeepUInv
    <3>2. ASSUME NEW s \in Syncer, SyncStep(s) PROVE UInv'
      BY <1>1, <3>2, SyncIndexKeeps, ReadPriorKeeps, DeleteKeeps, InsertKeeps, RegisterBundleKeeps DEF SyncStep
    <3>3. ASSUME NEW s \in Syncer, StopSync(s) PROVE UInv'
      BY <1>1, <3>3, StopSyncKeeps
    <3> QED BY <2>2, <3>1, <3>2, <3>3 DEF MembershipNext, ImportNext
  <2>3. ASSUME NEW p \in Provider, MarketStep(p) \/ StopPrices(p), UNCHANGED memvars PROVE UInv'
    <3>1. UNCHANGED universe
      BY <2>3 DEF MarketStep, SyncPrices, FetchBars, FailFetch, StoreBars, MergeIntoLake, ReplaceLake,
                  RegisterPrices, CheckReturns, StopPrices, tables
    <3> QED BY <2>1, <2>3, <3>1
  <2>4. CASE UNCHANGED datavars
    BY <2>1, <2>4 DEF datavars, storevars, tables
  <2> QED BY <1>1, <2>2, <2>3, <2>4 DEF DataNext, DataStep
<1> QED BY <1>1, UInvInit, ImportInvariant, PTL DEF DataSpec

\* A table that carries a bundle's rows shows on every day exactly the companies of
\* that day, but for the workbooks' rows.
LEMMA CarriedShows ==
    ASSUME NEW b, b.end \in Day, Carries(Frame(b)), NEW d \in Day
    PROVE  /\ \A r \in Rows(Reconstructed, d) : Named(r) \in Shown(b, d)
           /\ OnePerCompany(Rows(Reconstructed, d))
           /\ \A m \in Shown(b, d) :
                \/ \E r \in Rows(Reconstructed, d) : Named(r) = m
                \/ \E w \in universe \ Reconstructed :
                     w.company = m.company /\ w.from <= d /\ \A x \in w.from .. d : m \in Shown(b, x)
<1> DEFINE frame == Frame(b)
<1>1. /\ \A r \in frame : r.from \in Day /\ r.to \in Int /\ r.source # Licensed
      /\ \A x \in Day : ShowsMembers(frame, x, Shown(b, x))
      /\ Reconstructed \subseteq frame
      /\ \A f \in frame : f \in universe \/ \E w \in universe \ Reconstructed : MemberKey(w) = MemberKey(f)
  BY FrameRows, FrameShowsTheRoster DEF Carries, Shown
<1>2. Horizon \in Nat /\ Day = 0 .. Horizon
  BY ImportAssumption DEF Day
<1> HIDE DEF frame
<1>3. \A x \in Day : /\ \A f \in Rows(frame, x) : Named(f) \in Shown(b, x)
                     /\ \A m \in Shown(b, x) : \E f \in Rows(frame, x) : Named(f) = m
  BY <1>1 DEF ShowsMembers, Named
<1>4. Rows(Reconstructed, d) \subseteq Rows(frame, d)
  BY <1>1 DEF Rows
<1>5. OnePerCompany(Rows(Reconstructed, d))
  BY <1>1, <1>4 DEF ShowsMembers, OnePerCompany
<1>6. ASSUME NEW m \in Shown(b, d)
      PROVE  \/ \E r \in Rows(Reconstructed, d) : Named(r) = m
             \/ \E w \in universe \ Reconstructed :
                  w.company = m.company /\ w.from <= d /\ \A x \in w.from .. d : m \in Shown(b, x)
  <2>1. PICK f \in Rows(frame, d) : Named(f) = m
    BY <1>3
  <2>2. f \in frame /\ f.from \in Day /\ f.to \in Int /\ f.from <= d /\ d <= f.to
    BY <1>1 DEF Rows, Covers
  <2>3. CASE f \in universe
    BY <1>1, <2>1, <2>2, <2>3 DEF Reconstructed, Rows
  <2>4. CASE f \notin universe
    <3>1. PICK w \in universe \ Reconstructed : MemberKey(w) = MemberKey(f)
      BY <1>1, <2>2, <2>4
    <3>2. w.company = f.company /\ w.from = f.from /\ f.company = m.company
      BY <2>1, <3>1 DEF MemberKey, Named
    <3>3. ASSUME NEW x \in f.from .. d PROVE m \in Shown(b, x)
      <4>1. x \in Day /\ f \in Rows(frame, x)
        BY <1>2, <2>2 DEF Rows, Covers
      <4> QED BY <1>3, <2>1, <4>1
    <3> QED BY <2>2, <3>2, <3>3
  <2> QED BY <2>3, <2>4
<1> QED BY <1>3, <1>4, <1>5, <1>6

\* Once an index sync has run through, its rows show on every day the companies of
\* that day's roster, each once, but for those whose key a workbook's row has taken:
\* whatever was loaded and stopped before, unless the last writes were torn.
THEOREM UniverseShowsTheRoster == DataSpec => []UniverseIsTheRoster
<1>1. ASSUME UInv PROVE UniverseIsTheRoster
  <2> SUFFICES ASSUME Whole, bundles # {}, NEW d \in Day
               PROVE  LET today == {r \in Reconstructed : Covers(r, d)} IN
                      /\ \A r \in today : Named(r) \in Shown(last, d)
                      /\ \A r, q \in today : r.company = q.company => r = q
                      /\ \A m \in Shown(last, d) :
                           \/ \E r \in today : Named(r) = m
                           \/ \E w \in universe \ Reconstructed :
                                w.company = m.company /\ w.from <= d
                                /\ \A x \in w.from .. d : m \in Shown(last, x)
    BY DEF UniverseIsTheRoster
  <2>1. Carries(Frame(last)) /\ last.end \in Day
    BY <1>1 DEF Whole, UInv, SyncTypeOK, WholeInv, Writing
  <2> QED BY <2>1, CarriedShows DEF Rows, OnePerCompany
<1> QED BY <1>1, MembershipInvariant, PTL

-----------------------------------------------------------------------------
(* Prices joined to a whole reconstruction.                                *)

Follows(r, b) ==
    (\E d \in Day : IsShown(r.company, r.symbol, b, d)) =>
        /\ \E d \in r.day .. r.day + Lookback : d \in Day /\ IsShown(r.company, r.symbol, b, d)
        /\ (\E m \in Shown(b, r.day) : m.company = r.company) =>
              IsShown(r.company, r.ticker, b, r.day)
JInv == \A j \in joined : \A r \in j.rows : Follows(r, j.bundle)

\* A bar whose company has only the rows of the reconstruction follows it.
LEMMA JoinedFollows ==
    ASSUME NEW b, b.end \in Day, Carries(Frame(b)), NEW p, NEW map, NEW r \in Joined(p, map, universe),
           \A w \in universe \ Reconstructed : w.company # r.company
    PROVE  Follows(r, b)
<1>1. /\ r.day \in Day /\ r.ticker # Rejected
      /\ r.ticker = TickerAt(r.company, r.symbol, r.day, universe)
  BY MarketAssumption DEF Joined
<1>2. Horizon \in Nat /\ Day = 0 .. Horizon /\ Lookback \in Nat
  BY ImportAssumption, MarketAssumption DEF Day
<1> DEFINE c == r.company
           d == r.day
           validity == {q \in universe : q.company = c /\ q.ticker = r.symbol}
           that_day == {q \in universe : q.company = c /\ Covers(q, d)}
<1>3. ASSUME NEW q \in universe, q.company = c
      PROVE  /\ q \in Reconstructed /\ q.from \in Day /\ q.to \in Int /\ q.from <= q.to
             /\ \A x \in Day : Covers(q, x) => IsShown(c, q.ticker, b, x)
  <2>1. q \in Reconstructed /\ q \in Frame(b)
    BY <1>3 DEF Carries
  <2>2. ASSUME NEW x \in Day, Covers(q, x) PROVE IsShown(c, q.ticker, b, x)
    <3>1. q \in Rows(Reconstructed, x)
      BY <2>1, <2>2 DEF Rows
    <3>2. Named(q) \in Shown(b, x)
      BY <3>1, CarriedShows
    <3> QED BY <1>3, <3>2 DEF Named, IsShown
  <2> QED BY <2>1, <2>2, FrameRows
<1>4. ASSUME NEW x \in Day, NEW m \in Shown(b, x), m.company = c
      PROVE  \E q \in universe : q.company = c /\ Covers(q, x) /\ Named(q) = m
  <2>1. ~(\E w \in universe \ Reconstructed : w.company = m.company)
    BY <1>4
  <2>2. PICK q \in Rows(Reconstructed, x) : Named(q) = m
    BY <2>1, CarriedShows
  <2> QED BY <1>4, <2>2 DEF Rows, Reconstructed, Named
<1> SUFFICES ASSUME NEW x \in Day, IsShown(c, r.symbol, b, x)
             PROVE  /\ \E y \in d .. d + Lookback : y \in Day /\ IsShown(c, r.symbol, b, y)
                    /\ (\E m \in Shown(b, d) : m.company = c) => IsShown(c, r.ticker, b, d)
  BY DEF Follows
<1>5. validity # {}
  <2> DEFINE m == [company |-> c, ticker |-> r.symbol]
  <2>1. m \in Shown(b, x) /\ m.company = c
    BY DEF IsShown
  <2>2. PICK q \in universe : q.company = c /\ Named(q) = m
    BY <1>4, <2>1
  <2>3. q.ticker = r.symbol
    BY <2>2 DEF Named
  <2> QED BY <2>2, <2>3
<1>6. PICK q \in validity : ~(d < q.from - Lookback \/ d > q.to)
  BY <1>1, <1>5 DEF TickerAt
<1>7. q \in universe /\ q.company = c /\ q.ticker = r.symbol
  OBVIOUS
<1>8. \E y \in d .. d + Lookback : y \in Day /\ IsShown(c, r.symbol, b, y)
  <2>1. q.from \in Day /\ q.to \in Int /\ q.from <= q.to
    BY <1>3, <1>7
  <2>2. CASE d < q.from
    <3>1. Covers(q, q.from)
      BY <1>2, <2>1 DEF Covers
    <3>2. q.from \in d .. d + Lookback
      BY <1>1, <1>2, <1>6, <2>1, <2>2
    <3> QED BY <1>3, <1>7, <2>1, <3>1, <3>2
  <2>3. CASE ~(d < q.from)
    <3>1. Covers(q, d) /\ d \in d .. d + Lookback
      BY <1>1, <1>2, <1>6, <2>1, <2>3 DEF Covers
    <3> QED BY <1>1, <1>3, <1>7, <3>1
  <2> QED BY <2>2, <2>3
<1>9. ASSUME NEW m \in Shown(b, d), m.company = c PROVE IsShown(c, r.ticker, b, d)
  <2>1. that_day # {}
    BY <1>1, <1>4, <1>9
  <2>2. r.ticker = (CHOOSE z \in that_day : TRUE).ticker
    BY <1>1, <1>5, <1>6, <2>1 DEF TickerAt
  <2>3. PICK z \in that_day : r.ticker = z.ticker
    BY <2>1, <2>2
  <2> QED BY <1>1, <1>3, <2>3
<1> QED BY <1>8, <1>9

LEMMA FetchedFollow == ASSUME UInv, JInv, NEW p \in Provider, FetchBars(p) PROVE JInv'
<1>1. PICK missing \in SUBSET (Flaky \cap DOMAIN fetch[p].map) :
        LET map == [t \in DOMAIN fetch[p].map \ missing |-> fetch[p].map[t]] IN
        joined' = joined \cup {[rows |-> Plain(Joined(p, map, universe)), bundle |-> last]}
  BY DEF FetchBars
<1> DEFINE map == [t \in DOMAIN fetch[p].map \ missing |-> fetch[p].map[t]]
           j == [rows |-> Plain(Joined(p, map, universe)), bundle |-> last]
<1>2. ASSUME NEW r \in j.rows PROVE Follows(r, last)
  <2> HIDE DEF map
  <2>1. /\ r \in Joined(p, map, universe) /\ Whole /\ bundles # {}
        /\ \A w \in universe \ Reconstructed : w.company # r.company
    BY DEF Plain
  <2>2. Carries(Frame(last)) /\ last.end \in Day
    BY <2>1 DEF Whole, UInv, SyncTypeOK, WholeInv, Writing
  <2> QED BY <2>1, <2>2, JoinedFollows
<1>3. joined' = joined \cup {j} /\ j.bundle = last
  BY <1>1
<1> HIDE DEF j
<1>4. \A k \in joined' : \A r \in k.rows : Follows(r, k.bundle)
  BY <1>2, <1>3 DEF JInv
<1> QED BY <1>4 DEF JInv, Follows, IsShown, Shown

\* Bars that were joined to a whole reconstruction follow it, whichever company their
\* symbols were given by instruments, imports and other syncs.
THEOREM PricesFollow == DataSpec => []PricesFollowTheRoster
<1>1. DataInit => JInv
  BY DEF DataInit, MarketInit, JInv
<1>2. ASSUME UInv, JInv, [DataNext]_datavars PROVE JInv'
  <2>1. CASE UNCHANGED joined
    BY <1>2, <2>1 DEF JInv, Follows, IsShown, Shown
  <2>2. ASSUME NEW p \in Provider, MarketStep(p) \/ StopPrices(p) PROVE JInv'
    <3>1. CASE FetchBars(p)
      BY <1>2, <3>1, FetchedFollow
    <3>2. CASE ~FetchBars(p)
      <4>1. UNCHANGED joined
        BY <2>2, <3>2 DEF MarketStep, SyncPrices, FailFetch, StoreBars, MergeIntoLake, ReplaceLake,
                          RegisterPrices, CheckReturns, StopPrices, history
      <4> QED BY <2>1, <4>1
    <3> QED BY <3>1, <3>2
  <2> QED BY <1>2, <2>1, <2>2 DEF DataNext, DataStep, datavars, pricevars, history
<1>3. JInv => PricesFollowTheRoster
  BY DEF JInv, Follows, PricesFollowTheRoster
<1> QED BY <1>1, <1>2, <1>3, MembershipInvariant, PTL DEF DataSpec

-----------------------------------------------------------------------------
(* The check for extreme returns.  What a price sync reads is a view: the  *)
(* instruments and the members.  As long as every sync has read the same   *)
(* view, a file's digest determines its rows, so a file merged again       *)
(* without a check brings the rows that were checked.                      *)

SymbolsOf(v) == {n.ticker : n \in v[1]} \cup {r.ticker : r \in v[2]}
MapOf(v) == [t \in SymbolsOf(v) |->
    IF \E n \in v[1] : n.ticker = t
    THEN (CHOOSE n \in v[1] : n.ticker = t /\ \A o \in v[1] : o.ticker = t => o.at <= n.at).company
    ELSE (CHOOSE r \in v[2] : r.ticker = t /\ \A q \in v[2] : q.ticker = t => q.from <= r.from).company]
FileRows(f, v) == Joined(f[1], [t \in f[2] \ f[3] |-> MapOf(v)[t]], v[2])
Extremes(table, v) ==
    {r \in table : Jumped(table, r) /\ \E m \in v[2] : m.company = r.company /\ Covers(m, r.day)}

LEMMA ViewIsWhatIsRead ==
    /\ SymbolMap = MapOf(View)
    /\ \A table : Outliers(table) = Extremes(table, View)
<1> DEFINE v == <<Instruments, universe>>
<1>1. v[1] = Instruments /\ v[2] = universe /\ View = v
  BY DEF View
<1> HIDE DEF v
<1>2. SymbolMap = MapOf(v)
  BY <1>1 DEF SymbolMap, Symbols, MapOf, SymbolsOf
<1>3. \A table : Outliers(table) = Extremes(table, v)
  BY <1>1 DEF Outliers, Active, Extremes
<1> QED BY <1>1, <1>2, <1>3

\* What holds of syncs and frames that were all read under view v.
Fetched == {"fetched", "merging", "registering", "checking"}
WorkInv(v) == \A p \in Provider :
    /\ at[p] = "mapped" => fetch[p].map = MapOf(v)
    /\ at[p] \in Fetched => fetch[p].rows = FileRows(fetch[p].file, v)
\* A merged frame is that of a registered file, or of a file about to be.
OriginInv(v) == \A frame \in merged :
    \/ \E f \in files : frame = FileRows(f, v)
    \/ \E p \in Provider : at[p] \in {"merging", "registering"} /\ fetch[p].rows = frame
\* A registered file with an outlier is flagged, or its check is next.
CheckInv(v) == \A f \in files :
    \/ f \in flagged \/ Extremes(FileRows(f, v), v) = {}
    \/ \E p \in Provider : at[p] = "checking" /\ fetch[p].file = f
Checked(v) == WorkInv(v) /\ OriginInv(v) /\ CheckInv(v)
OInv == stops = 0 /\ ~raced => \A v : views \subseteq {v} => Checked(v)

LEMMA OInvInit == DataInit => OInv
BY DEF DataInit, MarketInit, OInv, Checked, WorkInv, OriginInv, CheckInv, Fetched

\* One sync goes to a place where it has nothing merged, registered or to check.
LEMMA WorkGoesOn ==
    ASSUME MInv, NEW p \in Provider, NEW label \in {"idle", "mapped", "fetched"}, NEW f, NEW v,
           at' = [at EXCEPT ![p] = label], fetch' = [fetch EXCEPT ![p] = f],
           at[p] \notin {"merging", "registering", "checking"}, UNCHANGED <<merged, files, flagged>>,
           Checked(v),
           label = "mapped" => f.map = MapOf(v),
           label \in Fetched => f.rows = FileRows(f.file, v)
    PROVE  Checked(v)'
<1>1. /\ at'[p] = label /\ fetch'[p] = f
      /\ \A q \in Provider : q # p => at'[q] = at[q] /\ fetch'[q] = fetch[q]
  BY DEF MInv, FetchInv
<1>2. WorkInv(v)'
  BY <1>1 DEF Checked, WorkInv
<1>3. OriginInv(v)'
  BY <1>1 DEF Checked, OriginInv
<1>4. CheckInv(v)'
  BY <1>1 DEF Checked, CheckInv
<1> QED BY <1>2, <1>3, <1>4 DEF Checked

LEMMA OSyncKeeps ==
    ASSUME MInv, NEW p \in Provider, SyncPrices(p), NEW v, views' \subseteq {v}, Checked(v)
    PROVE  Checked(v)'
<1> DEFINE f == [fetch[p] EXCEPT !.map = SymbolMap]
<1>1. /\ at[p] = "idle" /\ at' = [at EXCEPT ![p] = "mapped"] /\ fetch' = [fetch EXCEPT ![p] = f]
      /\ UNCHANGED <<merged, files, flagged>> /\ v = View
  BY DEF SyncPrices, Move, Look
<1>2. f.map = MapOf(v)
  <2>1. f.map = SymbolMap
    BY DEF MInv, FetchInv, IsFetch
  <2> QED BY <1>1, <2>1, ViewIsWhatIsRead
<1> HIDE DEF f
<1> QED BY <1>1, <1>2, WorkGoesOn DEF Fetched

LEMMA OFetchKeeps ==
    ASSUME MInv, NEW p \in Provider, FetchBars(p), NEW v, views' \subseteq {v}, Checked(v)
    PROVE  Checked(v)'
<1>1. PICK missing \in SUBSET (Flaky \cap DOMAIN fetch[p].map) :
        LET map == [t \in DOMAIN fetch[p].map \ missing |-> fetch[p].map[t]] IN
        fetch' = [fetch EXCEPT ![p] = [Nothing EXCEPT
          !.rows = Joined(p, map, universe), !.file = <<p, DOMAIN fetch[p].map, missing>>]]
  BY DEF FetchBars
<1> DEFINE map == [t \in DOMAIN fetch[p].map \ missing |-> fetch[p].map[t]]
           bars == Joined(p, map, universe)
           digest == <<p, DOMAIN fetch[p].map, missing>>
           f == [Nothing EXCEPT !.rows = bars, !.file = digest]
<1>2. f.rows = bars /\ f.file = digest
  <2> HIDE DEF bars, digest
  <2> QED BY DEF Nothing
<1>3. fetch' = [fetch EXCEPT ![p] = f]
  BY <1>1
<1> HIDE DEF f
<1>4. /\ at[p] = "mapped" /\ at' = [at EXCEPT ![p] = "fetched"] /\ UNCHANGED <<merged, files, flagged>>
      /\ v = View
  BY DEF FetchBars, Move, Look
<1>5. fetch[p].map = MapOf(v) /\ v[2] = universe
  BY <1>4 DEF Checked, WorkInv, View
<1>6. bars = FileRows(digest, v)
  BY <1>5 DEF FileRows
<1> HIDE DEF bars, digest
<1> QED BY <1>2, <1>3, <1>4, <1>6, WorkGoesOn

\* A sync merges its rows; it goes on, or ends where its file is registered already.
LEMMA MergedKeeps ==
    ASSUME MInv, NEW p \in Provider, NEW v, Checked(v), at[p] \in {"fetched", "merging"},
           UNCHANGED <<files, flagged>>, merged' \subseteq merged \cup {fetch[p].rows},
           \/ at' = [at EXCEPT ![p] = "merging"] /\ UNCHANGED fetch
           \/ at' = [at EXCEPT ![p] = "registering"] /\ UNCHANGED fetch
           \/ End(p) /\ fetch[p].file \in files
    PROVE  Checked(v)'
<1>1. /\ \A q \in Provider : q # p => at'[q] = at[q] /\ fetch'[q] = fetch[q]
      /\ \/ at'[p] \in {"merging", "registering"} /\ fetch'[p] = fetch[p]
         \/ at'[p] = "idle" /\ fetch[p].file \in files
  BY DEF MInv, FetchInv, End, Move
<1>2. fetch[p].rows = FileRows(fetch[p].file, v)
  BY DEF Checked, WorkInv, Fetched
<1>3. WorkInv(v)'
  BY <1>1, <1>2 DEF Checked, WorkInv, Fetched
<1>4. OriginInv(v)'
  BY <1>1, <1>2 DEF Checked, OriginInv
<1>5. CheckInv(v)'
  BY <1>1 DEF Checked, CheckInv
<1> QED BY <1>3, <1>4, <1>5 DEF Checked

\* Unless two processes replaced the lake at once, the file that is to take its place
\* is there.
LEMMA FileIsThere == ASSUME MInv, ~raced, NEW p \in Provider, at[p] = "merging" PROVE temp # {}
<1>1. p \in Processes /\ Stands(p) = "merging"
  BY ImportAssumption DEF Processes, Stands
<1>2. p \in merging
  BY <1>1 DEF MInv, LInv, MergeInv, Between
<1> QED BY <1>2 DEF MInv, LInv, MergeInv

LEMMA OMergeKeeps ==
    ASSUME MInv, ~raced, NEW p \in Provider, StoreBars(p) \/ MergeIntoLake(p) \/ ReplaceLake(p),
           NEW v, Checked(v)
    PROVE  Checked(v)'
<1>1. CASE StoreBars(p)
  BY <1>1, MergedKeeps DEF StoreBars, Merge, Merged, Move
<1>2. CASE MergeIntoLake(p)
  BY <1>2, MergedKeeps DEF MergeIntoLake, Merge, Move
<1>3. CASE ReplaceLake(p)
  <2>1. at[p] = "merging" /\ Merged(p) /\ UNCHANGED <<files, flagged, merged>>
    BY <1>3, FileIsThere DEF ReplaceLake, history
  <2> QED BY <2>1, MergedKeeps DEF Merged, Move
<1> QED BY <1>1, <1>2, <1>3

LEMMA ORegisterKeeps ==
    ASSUME MInv, NEW p \in Provider, RegisterPrices(p), NEW v, Checked(v)
    PROVE  Checked(v)'
<1>1. /\ at[p] = "registering" /\ files' = files \cup {fetch[p].file}
      /\ UNCHANGED <<merged, flagged, fetch>>
      /\ at'[p] = "checking" /\ \A q \in Provider : q # p => at'[q] = at[q]
  BY DEF RegisterPrices, Move, MInv, FetchInv, history
<1>2. fetch[p].rows = FileRows(fetch[p].file, v)
  BY <1>1 DEF Checked, WorkInv, Fetched
<1>3. WorkInv(v)'
  BY <1>1, <1>2 DEF Checked, WorkInv, Fetched
<1>4. OriginInv(v)'
  BY <1>1, <1>2 DEF Checked, OriginInv
<1>5. CheckInv(v)'
  BY <1>1 DEF Checked, CheckInv
<1> QED BY <1>3, <1>4, <1>5 DEF Checked

LEMMA OCheckKeeps ==
    ASSUME MInv, NEW p \in Provider, CheckReturns(p), NEW v, views' \subseteq {v}, Checked(v)
    PROVE  Checked(v)'
<1>1. /\ at[p] = "checking" /\ UNCHANGED <<merged, files>> /\ v = View
      /\ flagged' = IF Outliers(fetch[p].rows) = {} THEN flagged ELSE flagged \cup {fetch[p].file}
      /\ at'[p] = "idle" /\ \A q \in Provider : q # p => at'[q] = at[q] /\ fetch'[q] = fetch[q]
  BY DEF CheckReturns, Look, End, Move, MInv, FetchInv
<1>2. Outliers(fetch[p].rows) = Extremes(FileRows(fetch[p].file, v), v)
  BY <1>1, ViewIsWhatIsRead DEF Checked, WorkInv, Fetched
<1>3. WorkInv(v)'
  BY <1>1 DEF Checked, WorkInv, Fetched
<1>4. OriginInv(v)'
  BY <1>1 DEF Checked, OriginInv
<1>5. CheckInv(v)'
  BY <1>1, <1>2 DEF Checked, CheckInv
<1> QED BY <1>3, <1>4, <1>5 DEF Checked

LEMMA OFailKeeps ==
    ASSUME MInv, NEW p \in Provider, FailFetch(p), NEW v, Checked(v)
    PROVE  Checked(v)'
BY WorkGoesOn DEF FailFetch, End, Move, Fetched, history

\* No step takes a stop back, or a race, or what was read.
LEMMA HistoryStays ==
    ASSUME IInv, [DataNext]_datavars
    PROVE  /\ stops' = 0 => stops = 0 /\ \A p \in Provider : ~StopPrices(p)
           /\ ~raced' => ~raced
           /\ views \subseteq views'
<1>1. stops \in Nat
  BY DEF IInv, ImportTypeOK
<1>2. CASE UNCHANGED datavars
  <2>1. \A p \in Provider : StopPrices(p) => stops' = stops + 1
    BY DEF StopPrices
  <2> QED BY <1>1, <1>2, <2>1 DEF datavars, storevars, tables, pricevars, history
<1>3. ASSUME NEW i \in Importer, ImporterStep(i), UNCHANGED pricevars
      PROVE  (stops' = stops \/ stops' = stops + 1) /\ (~raced' => ~raced) /\ views' = views
  <2>1. views' = views
    BY <1>3 DEF pricevars, history
  <2>2. CASE Call(i) \/ Archive(i) \/ RecordIssue(i) \/ RegisterRejected(i)
    BY <2>1, <2>2 DEF Call, Archive, RecordIssue, RegisterRejected, tables
  <2>3. CASE Load(i) \/ ReplaceCloses(i) \/ RegisterAccepted(i)
    BY <2>1, <2>3 DEF Load, ReplaceCloses, RegisterAccepted
  <2>4. CASE WriteCloses(i)
    <3>1. stops' = stops /\ raced' = (raced \/ merging # {})
      BY <2>4 DEF WriteCloses, WriteTemp
    <3> QED BY <2>1, <3>1
  <2>5. CASE Stop(i)
    BY <2>1, <2>5 DEF Stop
  <2> QED BY <1>3, <2>2, <2>3, <2>4, <2>5 DEF ImporterStep
<1>4. ASSUME NEW s \in Syncer, (SyncStep(s) /\ UNCHANGED stops) \/ StopSync(s), UNCHANGED pricevars
      PROVE  (stops' = stops \/ stops' = stops + 1) /\ raced' = raced /\ views' = views
  BY <1>4 DEF SyncStep, SyncIndex, ReadPrior, DeleteSuperseded, InsertIntervals, RegisterBundle,
              StopSync, tables, pricevars, history
<1>5. ASSUME NEW p \in Provider, MarketStep(p) PROVE (~raced' => ~raced) /\ views \subseteq views'
  <2>1. CASE SyncPrices(p) \/ FetchBars(p) \/ CheckReturns(p)
    <3>1. raced' = raced /\ Look
      BY <2>1 DEF SyncPrices, FetchBars, CheckReturns, tables
    <3> QED BY <3>1 DEF Look
  <2>2. CASE FailFetch(p) \/ ReplaceLake(p) \/ RegisterPrices(p)
    BY <2>2 DEF FailFetch, ReplaceLake, RegisterPrices, history, tables
  <2>3. CASE StoreBars(p)
    BY <2>3 DEF StoreBars
  <2>4. CASE MergeIntoLake(p)
    <3>1. views' = views /\ raced' = (raced \/ merging # {})
      BY <2>4 DEF MergeIntoLake, WriteTemp
    <3> QED BY <3>1
  <2> QED BY <1>5, <2>1, <2>2, <2>3, <2>4 DEF MarketStep
<1>6. ASSUME NEW p \in Provider, StopPrices(p)
      PROVE  stops' = stops + 1 /\ raced' = raced /\ views' = views
  BY <1>6 DEF StopPrices, history
<1>7. stops' = stops \/ stops' = stops + 1
  BY <1>2, <1>3, <1>4, <1>6 DEF DataNext, DataStep, MembershipNext, ImportNext, datavars, storevars
<1>8. (~raced' => ~raced) /\ views \subseteq views'
  BY <1>2, <1>3, <1>4, <1>5, <1>6 DEF DataNext, DataStep, MembershipNext, ImportNext
<1> QED BY <1>1, <1>6, <1>7, <1>8

LEMMA OStepKeeps == ASSUME IInv, MInv, OInv, [DataNext]_datavars PROVE OInv'
<1> SUFFICES ASSUME stops' = 0, ~raced', NEW v, views' \subseteq {v} PROVE Checked(v)'
  BY DEF OInv
<1>1. ~raced /\ Checked(v) /\ \A p \in Provider : ~StopPrices(p)
  BY HistoryStays DEF OInv
<1>2. CASE UNCHANGED pricevars
  BY <1>1, <1>2 DEF pricevars, history, Checked, WorkInv, OriginInv, CheckInv
<1>3. ASSUME NEW p \in Provider, MarketStep(p) PROVE Checked(v)'
  BY <1>1, <1>3, OSyncKeeps, OFetchKeeps, OFailKeeps, OMergeKeeps, ORegisterKeeps, OCheckKeeps
     DEF MarketStep
<1> QED BY <1>1, <1>2, <1>3 DEF DataNext, DataStep, datavars

\* An extreme return of an active member keeps members and prices from being
\* certified, once its file has been checked, if every price sync read the instruments
\* and the members that there are now.
THEOREM OutliersAreCaught == DataSpec => []OutliersBlockCertification
<1>1. ASSUME OInv PROVE OutliersBlockCertification
  <2> SUFFICES ASSUME Certified, stops = 0, views \subseteq {View}, ~raced,
                      NEW frame \in merged, Outliers(frame) # {}
               PROVE  \E p \in Provider :
                        at[p] \in {"merging", "registering", "checking"} /\ fetch[p].rows = frame
    BY DEF OutliersBlockCertification
  <2>1. WorkInv(View) /\ OriginInv(View) /\ CheckInv(View) /\ flagged = {}
    BY <1>1 DEF OInv, Checked, Certified
  <2>2. Extremes(frame, View) # {}
    BY ViewIsWhatIsRead
  <2>3. CASE \E p \in Provider : at[p] \in {"merging", "registering"} /\ fetch[p].rows = frame
    BY <2>3
  <2>4. ASSUME NEW f \in files, frame = FileRows(f, View)
        PROVE  \E p \in Provider :
                 at[p] \in {"merging", "registering", "checking"} /\ fetch[p].rows = frame
    <3>1. PICK p \in Provider : at[p] = "checking" /\ fetch[p].file = f
      BY <2>1, <2>2, <2>4 DEF CheckInv
    <3>2. fetch[p].rows = FileRows(f, View)
      BY <2>1, <3>1 DEF WorkInv, Fetched
    <3> QED BY <2>4, <3>1, <3>2
  <2> QED BY <2>1, <2>3, <2>4 DEF OriginInv
<1> QED BY <1>1, OInvInit, OStepKeeps, ImportInvariant, LakeInvariant, PTL DEF DataSpec
=============================================================================
