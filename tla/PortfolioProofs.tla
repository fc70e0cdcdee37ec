-------------------------- MODULE PortfolioProofs --------------------------
(***************************************************************************)
(* Proofs about how portfolios are made and followed.                      *)
(*                                                                         *)
(* Operations, for any number of jobs, cases, portfolios and cutoffs:      *)
(* what makes the table of portfolios safe under every overlap is that a   *)
(* save either adds the newest row or takes the place of the job's own     *)
(* row, at the same cutoff and never older: the portfolio in force can     *)
(* then only stay or be replaced by the row just saved.                    *)
(*                                                                         *)
(* Rebalance, for any positions, targets, scores and limits: reductions    *)
(* are fitted into the budget and purchases into the reductions, each kept *)
(* between the holding and its limit or target.                            *)
(***************************************************************************)
EXTENDS Operations, Rebalance, FiniteSetTheorems, WellFoundedInduction, TLAPS

\* A job saves for its own cutoff only.
CutoffInv == \A r \in book : r.by \in Op => r.asof = asof[r.by]

\* Some row is in force as soon as there is one.
Heads(r, rows) == r \in rows /\ \A s \in rows : Precedes(s, r)
LatestInv == book = {} \/ \E r \in book : Heads(r, book)

\* The event loop belongs to the weekly adjustment under way, and a job holds a
\* portfolio to start from only while it looks for the next one.
LoopInv ==
    \A o \in Op : /\ pc[o] = "weighing" => loop = o
                  /\ pc[o] \notin {"weighing", "building"} => base[o] = NoRow

\* What each stage says of the workflow and of its cases.
AllSaved(o) == \A c \in Case : case[o][c] = "saved"
StageInv ==
    \A o \in Op :
        /\ pc[o] = "cases" => o \in Committee
        /\ pc[o] \in {"weekly", "weighing"} => kind[o] \in {"weekly", "full-cycle"}
        /\ pc[o] \in {"build", "building", "built"} =>
             kind[o] # "weekly" /\ (o \in Committee => AllSaved(o))
        /\ pc[o] = "preview" => kind[o] = "full-cycle"

\* Where a job stands that has a row in the table.
Reached(o, cadence) ==
    /\ cadence = "monthly" =>
         /\ kind[o] # "weekly"
         /\ pc[o] \in {"built", "preview", "completed", "failed"}
         /\ pc[o] = "preview" => kind[o] = "full-cycle"
         /\ pc[o] = "failed" => kind[o] = "full-cycle" \/ o \in refused
         /\ o \in Committee => AllSaved(o)
    /\ cadence = "weekly" =>
         /\ kind[o] \in {"weekly", "full-cycle"}
         /\ kind[o] = "weekly" => pc[o] \in {"completed", "failed"}
         /\ kind[o] = "weekly" /\ pc[o] = "failed" => o \in refused
RowInv == \A r \in book : r.by \in Op => Reached(r.by, r.cadence)

BookInv == OneRowPerRun /\ CutoffInv /\ LatestInv
OInv == OpsTypeOK /\ BookInv /\ LoopInv /\ StageInv /\ RowInv /\ WeeklyStartsFromDeployed

-----------------------------------------------------------------------------
(* The table of portfolios.                                                *)

LEMMA RowFields ==
    ASSUME NEW r \in Row
    PROVE  /\ r.asof \in Int /\ r.made \in Nat /\ r.point \in Point
           /\ r.by \in Op \cup {Earlier} /\ r.cadence \in {"weekly", "monthly"}
  BY OperationsAssumption DEF Row

LEMMA CurrentHeads ==
    ASSUME NEW rows, \E r \in rows : Heads(r, rows)
    PROVE  Heads(Current(rows), rows)
  BY DEF Current, Heads

LEMMA CurrentIsNone ==
    ASSUME NEW rows \in SUBSET Row, rows = {} \/ \E r \in rows : Heads(r, rows)
    PROVE  Current(rows) = NoRow <=> rows = {}
<1>1. CASE rows = {}
  BY <1>1 DEF Current
<1>2. CASE rows # {}
  BY <1>2, CurrentHeads, OperationsAssumption DEF Heads
<1> QED BY <1>1, <1>2

\* What a save does to the table, whatever the backend.
Replaces(row, o, cadence) ==
    /\ row \in Row /\ row.by = o /\ row.cadence = cadence /\ row.asof = asof[o]
    /\ book' = (book \ SavedBefore(o, cadence)) \cup {row}
    /\ row.made <= now'
    /\ \A r \in SavedBefore(o, cadence) : r.made <= row.made
    /\ \A r \in book \ SavedBefore(o, cadence) : r.made # row.made

\* A save leaves one row of the run, the newest one or its predecessor's heir.
LEMMA SaveReplaces ==
    ASSUME OpsTypeOK, OneRowPerRun, NEW o \in Op, NEW cadence \in {"weekly", "monthly"},
           NEW p \in Point, Save(o, cadence, p)
    PROVE  /\ now' = now + 1 /\ now' \in Nat
           /\ \E row \in Row : Replaces(row, o, cadence) /\ row.point = p
<1> DEFINE old == SavedBefore(o, cadence)
           row(made) == [by |-> o, cadence |-> cadence, asof |-> asof[o], made |-> made, point |-> p]
<1>1. now' = now + 1 /\ now' \in Nat
  BY DEF Save, OpsTypeOK
<1>2. asof[o] \in Date /\ book \subseteq Row /\ \A r \in book : r.made <= now /\ r.made \in Nat
  BY RowFields DEF OpsTypeOK
<1>3. ASSUME NEW made \in Nat
      PROVE  /\ row(made) \in Row /\ row(made).by = o /\ row(made).cadence = cadence
             /\ row(made).asof = asof[o] /\ row(made).made = made /\ row(made).point = p
  BY <1>2, <1>3 DEF Row
<1>4. old \subseteq book /\ \A r \in old : r.by = o /\ r.cadence = cadence
  BY DEF SavedBefore
<1>5. ASSUME NEW r \in old, book' = (book \ old) \cup {row(r.made)}
      PROVE  \E w \in Row : Replaces(w, o, cadence) /\ w.point = p
  <2>1. \A s \in old : s = r
    BY <1>4, <1>5 DEF OneRowPerRun
  <2>2. \A s \in book \ old : s.made # r.made
    BY <1>4, <1>5 DEF OneRowPerRun
  <2>3. r.made \in Nat /\ r.made <= now'
    BY <1>1, <1>2, <1>4, <1>5 DEF OpsTypeOK
  <2>4. row(r.made) \in Row /\ Replaces(row(r.made), o, cadence) /\ row(r.made).point = p
    <3> HIDE DEF row
    <3> QED BY <1>3, <1>5, <2>1, <2>2, <2>3 DEF Replaces
  <2> QED BY <2>4
<1>6. ASSUME book' = (book \ old) \cup {row(now')}
      PROVE  \E w \in Row : Replaces(w, o, cadence) /\ w.point = p
  <2>1. \A r \in book : r.made < now'
    BY <1>1, <1>2 DEF OpsTypeOK
  <2>2. row(now') \in Row /\ Replaces(row(now'), o, cadence) /\ row(now').point = p
    <3> HIDE DEF row
    <3> QED BY <1>1, <1>2, <1>3, <1>4, <1>6, <2>1 DEF Replaces
  <2> QED BY <2>2
<1> QED BY <1>1, <1>5, <1>6 DEF Save

\* The row that is saved is in force, or the one that was stays so.
LEMMA ReplacesKeeps ==
    ASSUME OpsTypeOK, BookInv, NEW o \in Op, NEW cadence \in {"weekly", "monthly"},
           NEW row \in Row, Replaces(row, o, cadence), asof' = asof, now' \in Nat, now <= now'
    PROVE  /\ book' \subseteq Row /\ book' # {} /\ \A r \in book' : r.made <= now'
           /\ BookInv'
           /\ Current(book') \in {Deployed, row}
           /\ Deployed # NoRow =>
                Current(book') # NoRow /\ Current(book').asof >= Deployed.asof
<1> DEFINE old == SavedBefore(o, cadence)
<1>1. book \subseteq Row /\ book' \subseteq Row /\ row \in book' /\ old \subseteq book
  BY DEF Replaces, OpsTypeOK, SavedBefore
<1>2. \A r \in Row : r.asof \in Int /\ r.made \in Nat
  BY RowFields
<1>3. \A r \in old : r.by = o /\ r.cadence = cadence /\ r.asof = row.asof /\ r.made <= row.made
  BY DEF Replaces, SavedBefore, BookInv, CutoffInv
<1>4. \A r \in book \ old : r.by # o \/ r.cadence # cadence
  BY DEF SavedBefore
<1>5. OneRowPerRun'
  <2> SUFFICES ASSUME NEW r \in book', NEW s \in book',
                      (r.by = s.by /\ r.cadence = s.cadence) \/ r.made = s.made
               PROVE  r = s
    BY DEF OneRowPerRun
  <2>1. CASE r # row /\ s # row
    BY <2>1 DEF Replaces, BookInv, OneRowPerRun
  <2>2. CASE r = row \/ s = row
    BY <1>4, <2>2 DEF Replaces
  <2> QED BY <2>1, <2>2
<1>6. CutoffInv'
  BY DEF BookInv, CutoffInv, Replaces
<1>7. \A r \in book' : r.made <= now'
  <2>1. \A r \in book : r.made <= now /\ r.made \in Nat
    BY <1>1, <1>2 DEF OpsTypeOK
  <2> QED BY <2>1, <1>2 DEF Replaces, OpsTypeOK
<1>8. CASE book = {}
  <2>1. book' = {row} /\ Deployed = NoRow
    BY <1>8, <1>1 DEF Replaces, Deployed, Current
  <2>2. Heads(row, book')
    BY <2>1, <1>2 DEF Heads, Precedes
  <2>3. Current(book') = row /\ LatestInv'
    BY <2>1, <2>2, CurrentHeads DEF LatestInv, Heads
  <2> QED BY <1>1, <1>5, <1>6, <1>7, <2>1, <2>3 DEF BookInv
<1>9. CASE book # {}
  <2>1. Heads(Deployed, book) /\ Deployed \in Row
    BY <1>1, <1>9, CurrentHeads DEF BookInv, LatestInv, Deployed, Heads
  <2>2. Heads(row, book') \/ (Deployed \in book' /\ Heads(Deployed, book'))
    <3>1. CASE Precedes(Deployed, row)
      <4>1. ASSUME NEW s \in book' PROVE Precedes(s, row)
        <5>1. CASE s = row
          BY <5>1, <1>2 DEF Precedes
        <5>2. CASE s \in book
          BY <5>2, <3>1, <2>1, <1>1, <1>2 DEF Heads, Precedes
        <5> QED BY <5>1, <5>2 DEF Replaces
      <4> QED BY <4>1, <1>1 DEF Heads
    <3>2. CASE ~Precedes(Deployed, row)
      <4>1. Deployed \notin old
        BY <3>2, <1>1, <1>2, <1>3, <2>1 DEF Precedes
      <4>2. Deployed \in book' /\ Precedes(row, Deployed)
        BY <3>2, <4>1, <1>2, <2>1 DEF Replaces, Heads, Precedes
      <4> QED BY <4>2, <2>1 DEF Heads, Replaces
    <3> QED BY <3>1, <3>2
  <2>3. LatestInv'
    BY <2>2, <1>1 DEF LatestInv
  <2>4. Heads(Current(book'), book') /\ Current(book') \in Row
    BY <1>1, <2>2, CurrentHeads DEF Heads
  <2>5. Current(book') \in {Deployed, row}
    <3>1. ASSUME NEW r, NEW s, Heads(r, book'), Heads(s, book') PROVE r = s
      <4>1. r \in book' /\ s \in book' /\ r.made = s.made
        BY <3>1, <1>1, <1>2 DEF Heads, Precedes
      <4> QED BY <4>1, <1>5 DEF OneRowPerRun
    <3> QED BY <3>1, <2>2, <2>4
  <2>6. Current(book') # NoRow /\ Current(book').asof >= Deployed.asof
    <3>1. CASE Deployed \in book'
      BY <3>1, <2>1, <2>4, <1>2, OperationsAssumption DEF Heads, Precedes
    <3>2. CASE Deployed \notin book'
      <4>1. Deployed \in old
        BY <3>2, <2>1 DEF Heads, Replaces
      <4> QED BY <4>1, <1>1, <1>2, <1>3, <2>4, <2>1, OperationsAssumption DEF Heads, Precedes
    <3> QED BY <3>1, <3>2
  <2> QED BY <1>1, <1>5, <1>6, <1>7, <2>3, <2>5, <2>6 DEF BookInv
<1> QED BY <1>8, <1>9

\* Job o saved row: the portfolio in force stays or is that row, and its cutoff
\* does not fall.
Moved(row, o) ==
    /\ row.by = o /\ Current(book') \in {Deployed, row}
    /\ Deployed # NoRow => Current(book') # NoRow /\ Current(book').asof >= Deployed.asof
Within(row, o) == base[o] # NoRow => Dist(row.point, base[o].point) <= CapOf(row.cadence)
Moves(o) == UNCHANGED book \/ \E row \in Row : Moved(row, o) /\ Within(row, o)

-----------------------------------------------------------------------------
(* The steps, one lemma for each action.                                   *)

LEMMA InitOInv == OpsInit => OInv
<1> SUFFICES ASSUME OpsInit PROVE OInv
  OBVIOUS
<1>1. PICK d \in Initial \cup {<<0, 0>>} :
        book = {} \/ (d \in Initial /\ book = {[by |-> Earlier, cadence |-> "monthly",
                          asof |-> d[1], made |-> 0, point |-> d[2]]})
  BY DEF OpsInit
<1> DEFINE row == [by |-> Earlier, cadence |-> "monthly", asof |-> d[1], made |-> 0, point |-> d[2]]
<1>2. d \in Initial => row \in Row
  BY OperationsAssumption DEF Row
<1>3. book = {} \/ (book = {row} /\ row \in Row)
  BY <1>1, <1>2
<1>4. \A r \in book : r = row /\ r.by = Earlier /\ r.made = 0
  BY <1>3
<1> HIDE DEF row
<1>5. OpsTypeOK
  BY <1>3, <1>4 DEF OpsInit, OpsTypeOK, Kind
<1>6. OneRowPerRun /\ CutoffInv
  BY <1>4, OperationsAssumption DEF OneRowPerRun, CutoffInv
<1>7. LatestInv
  BY <1>3, RowFields DEF LatestInv, Heads, Precedes
<1>8. LoopInv /\ StageInv /\ RowInv /\ WeeklyStartsFromDeployed
  BY <1>4, OperationsAssumption DEF OpsInit, LoopInv, StageInv, RowInv, Reached, WeeklyStartsFromDeployed,
     WeeklyBaseStale, Builders, Forget
<1> QED BY <1>5, <1>6, <1>7, <1>8 DEF OInv, BookInv

\* A step that leaves the table alone.
LEMMA TableKept ==
    ASSUME BookInv, UNCHANGED <<book, asof>>
    PROVE  BookInv' /\ Deployed' = Deployed
  BY DEF BookInv, OneRowPerRun, CutoffInv, LatestInv, Heads, Precedes, Deployed, Current

LEMMA StartKeeps == ASSUME OInv, NEW o \in Op, Start(o) PROVE OInv'
<1>1. BookInv' /\ Deployed' = Deployed
  BY TableKept DEF Start, OInv
<1>2. OpsTypeOK'
  BY DEF Start, OInv, OpsTypeOK, Goto, Fails
<1>3. LoopInv' /\ WeeklyStartsFromDeployed'
  BY <1>1, OperationsAssumption DEF Start, OInv, OpsTypeOK, LoopInv, WeeklyStartsFromDeployed, Goto, Fails,
     WeeklyBaseStale, Builders, Forget
<1>4. StageInv'
  BY DEF Start, OInv, OpsTypeOK, StageInv, Committee, AllSaved, Goto, Fails, Kind
<1>5. RowInv'
  <2> SUFFICES ASSUME NEW r \in book, r.by \in Op PROVE Reached(r.by, r.cadence)'
    BY DEF Start, RowInv
  <2>1. Reached(r.by, r.cadence)
    BY DEF OInv, RowInv
  <2>2. CASE r.by = o
    BY <2>1, <2>2 DEF Start, OInv, OpsTypeOK, StageInv, Reached, Committee, AllSaved, Goto, Fails
  <2>3. CASE r.by # o
    <3>1. kind' = kind /\ pc'[r.by] = pc[r.by] /\ case'[r.by] = case[r.by] /\ refused' = refused
      BY <2>3 DEF Start, OInv, OpsTypeOK, Goto, Fails
    <3> QED BY <2>1, <3>1 DEF Reached, Committee, AllSaved
  <2> QED BY <2>2, <2>3
<1> QED BY <1>1, <1>2, <1>3, <1>4, <1>5 DEF OInv

LEMMA WeeklyHeldKeeps == ASSUME OInv, NEW o \in Op, WeeklyHeld(o) PROVE OInv'
<1>1. BookInv' /\ Deployed' = Deployed
  BY TableKept DEF WeeklyHeld, OInv
<1>2. OpsTypeOK'
  <2>1. UNCHANGED <<backend, kind, asof, book, now, base, loop>>
    BY DEF WeeklyHeld
  <2>2. \/ \E label \in {"completed", "failed"} : pc' = [pc EXCEPT ![o] = label] /\ case' = case
        \/ /\ pc' = [pc EXCEPT ![o] = "cases"]
           /\ case' = [case EXCEPT ![o] = [c \in Case |-> "waiting"]]
    BY DEF WeeklyHeld, AfterWeekly, Reports, Refused, Fails, Goto
  <2>3. refused' \subseteq Op
    BY DEF WeeklyHeld, AfterWeekly, Reports, Refused, OInv, OpsTypeOK
  <2>4. pc' \in [Op -> {"start", "weekly", "weighing", "cases", "build", "building", "built",
                        "preview", "completed", "failed"}]
    BY <2>2 DEF OInv, OpsTypeOK
  <2>5. case' \in [Op -> [Case -> {"none", "waiting", "running", "saved", "raised"}]]
    BY <2>2 DEF OInv, OpsTypeOK
  <2> QED BY <2>1, <2>3, <2>4, <2>5 DEF OInv, OpsTypeOK
<1>3. LoopInv' /\ WeeklyStartsFromDeployed'
  BY <1>1, OperationsAssumption DEF WeeklyHeld, AfterWeekly, Reports, Refused, Fails, OInv, OpsTypeOK, LoopInv, WeeklyStartsFromDeployed, Goto,
     WeeklyBaseStale, Builders, Forget
<1>4. StageInv'
  BY DEF WeeklyHeld, AfterWeekly, Reports, Refused, Fails, OInv, OpsTypeOK, StageInv, Committee, AllSaved, Goto
<1>5. RowInv'
  <2> SUFFICES ASSUME NEW r \in book, r.by \in Op PROVE Reached(r.by, r.cadence)'
    BY DEF WeeklyHeld, AfterWeekly, Reports, Refused, Fails, RowInv
  <2>1. Reached(r.by, r.cadence)
    BY DEF OInv, RowInv
  <2>2. CASE r.by = o
    BY <2>1, <2>2 DEF WeeklyHeld, AfterWeekly, Reports, Refused, Fails, OInv, OpsTypeOK, StageInv, Reached, Committee, AllSaved, Goto, Fails
  <2>3. CASE r.by # o
    <3>1. kind' = kind /\ pc'[r.by] = pc[r.by] /\ case'[r.by] = case[r.by]
          /\ (r.by \in refused' <=> r.by \in refused)
      BY <2>3 DEF WeeklyHeld, AfterWeekly, Reports, Refused, Fails, OInv, OpsTypeOK, Goto, Fails
    <3> QED BY <2>1, <3>1 DEF Reached, Committee, AllSaved
  <2> QED BY <2>2, <2>3
<1> QED BY <1>1, <1>2, <1>3, <1>4, <1>5 DEF OInv

LEMMA WeeklyReadKeeps == ASSUME OInv, NEW o \in Op, WeeklyRead(o) PROVE OInv'
<1>1. BookInv' /\ Deployed' = Deployed
  BY TableKept DEF WeeklyRead, OInv
<1>2. Deployed \in Row
  BY CurrentHeads DEF WeeklyRead, OInv, BookInv, LatestInv, OpsTypeOK, Deployed, Heads, Current
<1>3. OpsTypeOK'
  BY <1>2 DEF WeeklyRead, OInv, OpsTypeOK, Goto
<1>4. LoopInv' /\ WeeklyStartsFromDeployed'
  BY <1>1, OperationsAssumption DEF WeeklyRead, OInv, OpsTypeOK, LoopInv, WeeklyStartsFromDeployed, Goto,
     WeeklyBaseStale, Builders, Forget
<1>5. StageInv'
  BY DEF WeeklyRead, OInv, OpsTypeOK, StageInv, Committee, AllSaved, Goto
<1>6. RowInv'
  BY DEF WeeklyRead, OInv, OpsTypeOK, RowInv, Reached, Committee, AllSaved, Goto
<1> QED BY <1>1, <1>3, <1>4, <1>5, <1>6 DEF OInv

LEMMA WeeklyRaisesKeeps == ASSUME OInv, NEW o \in Op, WeeklyRaises(o) PROVE OInv'
<1>1. BookInv' /\ Deployed' = Deployed
  BY TableKept DEF WeeklyRaises, OInv
<1>2. OpsTypeOK'
  BY DEF WeeklyRaises, OInv, OpsTypeOK, Goto, Fails, Forget
<1>3. LoopInv' /\ WeeklyStartsFromDeployed'
  BY <1>1, OperationsAssumption DEF WeeklyRaises, OInv, OpsTypeOK, LoopInv, WeeklyStartsFromDeployed, Goto, Fails, Forget,
     WeeklyBaseStale, Builders, Forget
<1>4. StageInv'
  BY DEF WeeklyRaises, OInv, OpsTypeOK, StageInv, Committee, AllSaved, Goto, Fails
<1>5. RowInv'
  BY DEF WeeklyRaises, OInv, OpsTypeOK, StageInv, RowInv, Reached, Committee, AllSaved, Goto, Fails
<1> QED BY <1>1, <1>2, <1>3, <1>4, <1>5 DEF OInv

LEMMA CaseStartKeeps == ASSUME OInv, NEW o \in Op, NEW c \in Case, CaseStart(o, c) PROVE OInv'
<1>1. BookInv' /\ Deployed' = Deployed
  BY TableKept DEF CaseStart, OInv
<1>2. OpsTypeOK'
  BY DEF CaseStart, OInv, OpsTypeOK
<1>3. LoopInv' /\ WeeklyStartsFromDeployed'
  BY <1>1, OperationsAssumption DEF CaseStart, InGather, OInv, OpsTypeOK, LoopInv, WeeklyStartsFromDeployed, WeeklyBaseStale, Builders
<1>4. StageInv'
  BY DEF CaseStart, InGather, OInv, OpsTypeOK, StageInv, Committee, AllSaved
<1>5. RowInv'
  BY DEF CaseStart, InGather, OInv, OpsTypeOK, RowInv, Reached, Committee, AllSaved
<1> QED BY <1>1, <1>2, <1>3, <1>4, <1>5 DEF OInv

LEMMA CaseEndsKeeps == ASSUME OInv, NEW o \in Op, NEW c \in Case, CaseEnds(o, c) PROVE OInv'
<1>1. BookInv' /\ Deployed' = Deployed
  BY TableKept DEF CaseEnds, OInv
<1>2. OpsTypeOK'
  BY DEF CaseEnds, OInv, OpsTypeOK, Goto, Fails
<1>3. LoopInv' /\ WeeklyStartsFromDeployed'
  BY <1>1, OperationsAssumption DEF CaseEnds, InGather, OInv, OpsTypeOK, LoopInv, WeeklyStartsFromDeployed, Goto, Fails,
     WeeklyBaseStale, Builders, Forget
<1>4. StageInv'
  BY DEF CaseEnds, InGather, OInv, OpsTypeOK, StageInv, Committee, AllSaved, Goto, Fails
<1>5. RowInv'
  <2> SUFFICES ASSUME NEW r \in book, r.by \in Op PROVE Reached(r.by, r.cadence)'
    BY DEF CaseEnds, InGather, RowInv
  <2>1. Reached(r.by, r.cadence)
    BY DEF OInv, RowInv
  <2>2. CASE r.by = o
    BY <2>1, <2>2 DEF CaseEnds, InGather, OInv, OpsTypeOK, StageInv, Reached, Committee, AllSaved, Goto, Fails
  <2>3. CASE r.by # o
    <3>1. kind' = kind /\ pc'[r.by] = pc[r.by] /\ case'[r.by] = case[r.by] /\ refused' = refused
      BY <2>3 DEF CaseEnds, InGather, OInv, OpsTypeOK, Goto, Fails
    <3> QED BY <2>1, <3>1 DEF Reached, Committee, AllSaved
  <2> QED BY <2>2, <2>3
<1> QED BY <1>1, <1>2, <1>3, <1>4, <1>5 DEF OInv

LEMMA GatherKeeps == ASSUME OInv, NEW o \in Op, Gather(o) PROVE OInv'
<1>1. BookInv' /\ Deployed' = Deployed
  BY TableKept DEF Gather, OInv
<1>2. OpsTypeOK'
  BY DEF Gather, OInv, OpsTypeOK, Goto
<1>3. LoopInv' /\ WeeklyStartsFromDeployed'
  BY <1>1, OperationsAssumption DEF Gather, OInv, OpsTypeOK, LoopInv, WeeklyStartsFromDeployed, Goto,
     WeeklyBaseStale, Builders, Forget
<1>4. StageInv'
  BY DEF Gather, OInv, OpsTypeOK, StageInv, Committee, AllSaved, Goto
<1>5. RowInv'
  BY DEF Gather, OInv, OpsTypeOK, RowInv, Reached, Committee, AllSaved, Goto
<1> QED BY <1>1, <1>2, <1>3, <1>4, <1>5 DEF OInv

LEMMA BuildReadKeeps == ASSUME OInv, NEW o \in Op, BuildRead(o) PROVE OInv'
<1>1. BookInv' /\ Deployed' = Deployed
  BY TableKept DEF BuildRead, OInv
<1>2. Deployed \in Row \cup {NoRow}
  BY CurrentHeads DEF OInv, BookInv, LatestInv, OpsTypeOK, Deployed, Heads, Current
<1>3. OpsTypeOK'
  BY <1>2 DEF BuildRead, OInv, OpsTypeOK, Goto, Fails
<1>4. LoopInv' /\ WeeklyStartsFromDeployed'
  BY <1>1, OperationsAssumption DEF BuildRead, OInv, OpsTypeOK, LoopInv, WeeklyStartsFromDeployed, WeeklyBaseStale, Builders, Goto, Fails
<1>5. StageInv'
  BY DEF BuildRead, OInv, OpsTypeOK, StageInv, Committee, AllSaved, Goto, Fails
<1>6. RowInv'
  BY DEF BuildRead, OInv, OpsTypeOK, StageInv, RowInv, Reached, Committee, AllSaved, Goto, Fails
<1> QED BY <1>1, <1>3, <1>4, <1>5, <1>6 DEF OInv

LEMMA PreviewKeeps == ASSUME OInv, NEW o \in Op, Preview(o) PROVE OInv'
<1>1. BookInv' /\ Deployed' = Deployed
  BY TableKept DEF Preview, Reports, Refused, OInv
<1>2. OpsTypeOK'
  BY DEF Preview, Reports, Refused, OInv, OpsTypeOK, Goto, Fails
<1>3. LoopInv' /\ WeeklyStartsFromDeployed'
  BY <1>1, OperationsAssumption DEF Preview, Reports, Refused, OInv, OpsTypeOK, LoopInv, WeeklyStartsFromDeployed, Goto, Fails,
     WeeklyBaseStale, Builders, Forget
<1>4. StageInv'
  BY DEF Preview, Reports, Refused, OInv, OpsTypeOK, StageInv, Committee, AllSaved, Goto, Fails
<1>5. RowInv'
  <2> SUFFICES ASSUME NEW r \in book, r.by \in Op PROVE Reached(r.by, r.cadence)'
    BY DEF Preview, Reports, Refused, RowInv
  <2>1. Reached(r.by, r.cadence)
    BY DEF OInv, RowInv
  <2>2. CASE r.by = o
    BY <2>1, <2>2 DEF Preview, Reports, Refused, OInv, OpsTypeOK, StageInv, Reached, Committee, AllSaved, Goto, Fails
  <2>3. CASE r.by # o
    BY <2>1, <2>3 DEF Preview, Reports, Refused, OInv, OpsTypeOK, Reached, Committee, AllSaved, Goto, Fails
  <2> QED BY <2>2, <2>3
<1> QED BY <1>1, <1>2, <1>3, <1>4, <1>5 DEF OInv

LEMMA WeeklySaveKeeps == ASSUME OInv, NEW o \in Op, WeeklySave(o) PROVE OInv' /\ Moves(o)
<1>1. PICK p \in Reachable(base[o], "weekly") : Save(o, "weekly", p)
  BY DEF WeeklySave
<1>2. p \in Point /\ (base[o] # NoRow => Dist(p, base[o].point) <= CapOf("weekly"))
  BY DEF Reachable
<1>3. now' = now + 1 /\ now' \in Nat
  BY <1>1, <1>2, SaveReplaces DEF OInv, BookInv
<1>4. PICK row \in Row : Replaces(row, o, "weekly") /\ row.point = p
  BY <1>1, <1>2, SaveReplaces DEF OInv, BookInv
<1>5. asof' = asof /\ now \in Nat /\ pc[o] = "weighing"
  BY DEF WeeklySave, OInv, OpsTypeOK
<1>6. /\ book' \subseteq Row /\ \A r \in book' : r.made <= now'
      /\ BookInv' /\ Moved(row, o)
  <2>1. row.by = o
    BY <1>4 DEF Replaces
  <2> QED BY <1>3, <1>4, <1>5, <2>1, ReplacesKeeps DEF OInv, Moved
<1>7. OpsTypeOK'
  <2>1. backend' = backend /\ kind' = kind /\ asof' = asof /\ loop' = "free"
        /\ base' = [base EXCEPT ![o] = NoRow]
    BY DEF WeeklySave, Forget
  <2>2. \/ \E label \in {"completed", "failed"} : pc' = [pc EXCEPT ![o] = label] /\ case' = case
        \/ /\ pc' = [pc EXCEPT ![o] = "cases"]
           /\ case' = [case EXCEPT ![o] = [c \in Case |-> "waiting"]]
    BY DEF WeeklySave, AfterWeekly, Reports, Refused, Fails, Goto
  <2>3. refused' \subseteq Op
    BY DEF WeeklySave, AfterWeekly, Reports, Refused, OInv, OpsTypeOK
  <2> QED BY <1>3, <1>6, <2>1, <2>2, <2>3 DEF OInv, OpsTypeOK
<1>8. LoopInv' /\ WeeklyStartsFromDeployed'
  BY OperationsAssumption DEF WeeklySave, AfterWeekly, Reports, Refused, Fails, OInv, OpsTypeOK, LoopInv, WeeklyStartsFromDeployed, Goto, Forget,
     WeeklyBaseStale, Builders, Forget
<1>9. StageInv'
  BY DEF WeeklySave, AfterWeekly, Reports, Refused, Fails, OInv, OpsTypeOK, StageInv, Committee, AllSaved, Goto
<1>10. RowInv'
  <2>1. \A r \in book' : r = row \/ (r \in book /\ ~(r.by = o /\ r.cadence = "weekly"))
    BY <1>4 DEF Replaces, SavedBefore
  <2>2. row.by = o /\ row.cadence = "weekly"
    BY <1>4 DEF Replaces
  <2> QED
    BY <2>1, <2>2, <1>5, RowFields DEF WeeklySave, AfterWeekly, Reports, Refused, Fails, OInv, OpsTypeOK, StageInv, RowInv, Reached, Committee,
       AllSaved, Goto
<1>11. Within(row, o)
  BY <1>2, <1>4 DEF Replaces, Within
<1> QED BY <1>6, <1>7, <1>8, <1>9, <1>10, <1>11 DEF OInv, Moves

LEMMA BuildSaveKeeps == ASSUME OInv, NEW o \in Op, BuildSave(o) PROVE OInv' /\ Moves(o)
<1>1. CASE Fails(o) /\ UNCHANGED <<book, now>>
  <2>1. BookInv' /\ Deployed' = Deployed
    BY <1>1, TableKept DEF BuildSave, OInv
  <2>2. OpsTypeOK'
    BY <1>1 DEF BuildSave, OInv, OpsTypeOK, Goto, Fails, Forget
  <2>3. LoopInv' /\ WeeklyStartsFromDeployed'
    BY <1>1, <2>1, OperationsAssumption DEF BuildSave, OInv, OpsTypeOK, LoopInv, WeeklyStartsFromDeployed,
       WeeklyBaseStale, Builders, Goto, Fails, Forget
  <2>4. StageInv'
    BY <1>1 DEF BuildSave, OInv, OpsTypeOK, StageInv, Committee, AllSaved, Goto, Fails
  <2>5. RowInv'
    BY <1>1 DEF BuildSave, OInv, OpsTypeOK, StageInv, RowInv, Reached, Committee, AllSaved, Goto, Fails
  <2> QED BY <1>1, <2>1, <2>2, <2>3, <2>4, <2>5 DEF OInv, Moves
<1>2. CASE \E p \in Reachable(base[o], "monthly") : Save(o, "monthly", p) /\ Goto(o, "built")
  <2>1. PICK p \in Reachable(base[o], "monthly") : Save(o, "monthly", p) /\ Goto(o, "built")
    BY <1>2
  <2>2. p \in Point /\ (base[o] # NoRow => Dist(p, base[o].point) <= CapOf("monthly"))
    BY DEF Reachable
  <2>3. now' = now + 1 /\ now' \in Nat
    BY <2>1, <2>2, SaveReplaces DEF OInv, BookInv
  <2>4. PICK row \in Row : Replaces(row, o, "monthly") /\ row.point = p
    BY <2>1, <2>2, SaveReplaces DEF OInv, BookInv
  <2>5. asof' = asof /\ now \in Nat /\ pc[o] = "building"
    BY DEF BuildSave, OInv, OpsTypeOK
  <2>6. /\ book' \subseteq Row /\ \A r \in book' : r.made <= now'
        /\ BookInv' /\ Moved(row, o)
    <3>1. row.by = o
      BY <2>4 DEF Replaces
    <3> QED BY <2>3, <2>4, <2>5, <3>1, ReplacesKeeps DEF OInv, Moved
  <2>7. OpsTypeOK'
    BY <2>1, <2>3, <2>6 DEF BuildSave, OInv, OpsTypeOK, Goto, Forget
  <2>8. pc' = [pc EXCEPT ![o] = "built"] /\ base' = [base EXCEPT ![o] = NoRow]
        /\ UNCHANGED <<backend, kind, asof, case, refused, loop>>
    BY <2>1 DEF BuildSave, Goto, Forget
  <2>9. LoopInv'
    BY <2>8 DEF OInv, OpsTypeOK, LoopInv
  <2>10. WeeklyStartsFromDeployed'
    BY <2>5, <2>8 DEF OInv, OpsTypeOK, StageInv, WeeklyStartsFromDeployed, WeeklyBaseStale, Builders
  <2>11. StageInv'
    BY <2>5, <2>8 DEF OInv, OpsTypeOK, StageInv, Committee, AllSaved
  <2>12. RowInv'
    <3>1. \A r \in book' : r = row \/ r \in book
      BY <2>4 DEF Replaces
    <3>2. row.by = o /\ row.cadence = "monthly"
      BY <2>4 DEF Replaces
    <3> QED BY <3>1, <3>2, <2>5, <2>8, RowFields DEF OInv, OpsTypeOK, StageInv, RowInv, Reached, Committee, AllSaved
  <2>13. Within(row, o)
    BY <2>2, <2>4 DEF Replaces, Within
  <2> QED BY <2>6, <2>7, <2>9, <2>10, <2>11, <2>12, <2>13 DEF OInv, Moves
<1> QED BY <1>1, <1>2 DEF BuildSave

LEMMA DeployKeeps == ASSUME OInv, NEW o \in Op, Deploy(o) PROVE OInv' /\ Moves(o)
<1>1. /\ pc[o] = "built" /\ loop = "free" /\ base[o] = NoRow
      /\ UNCHANGED <<backend, kind, asof, base, case, loop>>
      /\ \/ /\ kind[o] = "full-cycle" /\ refused' = refused
            /\ pc' = [pc EXCEPT ![o] = "preview"]
         \/ refused' = refused /\ pc' = [pc EXCEPT ![o] = "completed"]
         \/ refused' = refused \cup {o} /\ pc' = [pc EXCEPT ![o] = "failed"]
  BY DEF Deploy, AfterDeploy, Reports, Refused, Fails, Goto, OInv, LoopInv
<1>2. LoopInv' /\ WeeklyStartsFromDeployed'
  BY <1>1, OperationsAssumption DEF OInv, OpsTypeOK, LoopInv, WeeklyStartsFromDeployed,
     WeeklyBaseStale, Builders, Forget
<1>3. StageInv'
  BY <1>1 DEF OInv, OpsTypeOK, StageInv, Committee, AllSaved
<1>4. CASE UNCHANGED <<book, now>>
  <2>1. BookInv'
    BY <1>1, <1>4, TableKept DEF OInv
  <2>2. OpsTypeOK'
    BY <1>1, <1>4 DEF OInv, OpsTypeOK
  <2>3. RowInv'
    <3> SUFFICES ASSUME NEW s \in book, s.by \in Op PROVE Reached(s.by, s.cadence)'
      BY <1>4 DEF RowInv
    <3>1. Reached(s.by, s.cadence)
      BY DEF OInv, RowInv
    <3>2. CASE s.by = o
      BY <1>1, <3>1, <3>2 DEF OInv, OpsTypeOK, StageInv, Reached, Committee, AllSaved
    <3>3. CASE s.by # o
      BY <1>1, <3>1, <3>3 DEF OInv, OpsTypeOK, Reached, Committee, AllSaved
    <3> QED BY <3>2, <3>3
  <2> QED BY <1>2, <1>3, <1>4, <2>1, <2>2, <2>3 DEF OInv, Moves
<1>5. CASE o \in Committee /\ \E r \in SavedBefore(o, "monthly") : Save(o, "monthly", r.point)
  <2>1. PICK r \in SavedBefore(o, "monthly") : Save(o, "monthly", r.point)
    BY <1>5
  <2>2. r.point \in Point /\ now \in Nat
    BY RowFields DEF SavedBefore, OInv, OpsTypeOK
  <2>3. now' = now + 1 /\ now' \in Nat
    BY <2>1, <2>2, SaveReplaces DEF OInv, BookInv
  <2>4. PICK row \in Row : Replaces(row, o, "monthly") /\ row.point = r.point
    BY <2>1, <2>2, SaveReplaces DEF OInv, BookInv
  <2>5. /\ book' \subseteq Row /\ \A s \in book' : s.made <= now'
        /\ BookInv' /\ Moved(row, o)
    <3>1. row.by = o
      BY <2>4 DEF Replaces
    <3> QED BY <1>1, <2>2, <2>3, <2>4, <3>1, ReplacesKeeps DEF OInv, Moved
  <2>6. OpsTypeOK'
    BY <1>1, <2>3, <2>5 DEF OInv, OpsTypeOK
  <2>7. RowInv'
    <3>1. \A s \in book' : s = row \/ s \in book
      BY <2>4 DEF Replaces
    <3>2. row.by = o /\ row.cadence = "monthly"
      BY <2>4 DEF Replaces
    <3> SUFFICES ASSUME NEW s \in book', s.by \in Op PROVE Reached(s.by, s.cadence)'
      BY DEF RowInv
    <3>3. CASE s = row
      <4>1. Reached(o, "monthly")'
        BY <1>1, <1>5 DEF OInv, OpsTypeOK, StageInv, Reached, Committee, AllSaved
      <4> QED BY <3>2, <3>3, <4>1
    <3>4. CASE s \in book
      <4>1. Reached(s.by, s.cadence)
        BY <3>4 DEF OInv, RowInv
      <4>2. CASE s.by = o
        BY <1>1, <4>1, <4>2 DEF OInv, OpsTypeOK, StageInv, Reached, Committee, AllSaved
      <4>3. CASE s.by # o
        BY <1>1, <4>1, <4>3 DEF OInv, OpsTypeOK, Reached, Committee, AllSaved
      <4> QED BY <4>2, <4>3
    <3> QED BY <3>1, <3>3, <3>4
  <2>8. Within(row, o)
    BY <1>1 DEF Within
  <2> QED BY <1>2, <1>3, <2>5, <2>6, <2>7, <2>8 DEF OInv, Moves
<1> QED BY <1>4, <1>5 DEF Deploy

-----------------------------------------------------------------------------
(* The theorems.                                                           *)

LEMMA StepKeeps == ASSUME OInv, NEW o \in Op, OpStep(o) PROVE OInv' /\ Moves(o)
<1>1. CASE Start(o)
  BY <1>1, StartKeeps DEF Start, Moves
<1>2. CASE WeeklyHeld(o)
  BY <1>2, WeeklyHeldKeeps DEF WeeklyHeld, Moves
<1>3. CASE WeeklyRead(o)
  BY <1>3, WeeklyReadKeeps DEF WeeklyRead, Moves
<1>4. CASE WeeklySave(o)
  BY <1>4, WeeklySaveKeeps DEF Moves
<1>5. CASE WeeklyRaises(o)
  BY <1>5, WeeklyRaisesKeeps DEF WeeklyRaises, Moves
<1>6. CASE Gather(o)
  BY <1>6, GatherKeeps DEF Gather, Moves
<1>7. CASE BuildRead(o)
  BY <1>7, BuildReadKeeps DEF BuildRead, Moves
<1>8. CASE BuildSave(o)
  BY <1>8, BuildSaveKeeps DEF Moves
<1>9. CASE Deploy(o)
  BY <1>9, DeployKeeps DEF Moves
<1>10. CASE Preview(o)
  BY <1>10, PreviewKeeps DEF Preview, Moves
<1>11. ASSUME NEW c \in Case, CaseStart(o, c) PROVE OInv' /\ Moves(o)
  BY <1>11, CaseStartKeeps DEF CaseStart, Moves
<1>12. ASSUME NEW c \in Case, CaseEnds(o, c) PROVE OInv' /\ Moves(o)
  BY <1>12, CaseEndsKeeps DEF CaseEnds, Moves
<1> QED BY <1>1, <1>2, <1>3, <1>4, <1>5, <1>6, <1>7, <1>8, <1>9, <1>10, <1>11, <1>12 DEF OpStep

LEMMA StutterKeeps == ASSUME OInv, UNCHANGED opvars PROVE OInv'
  BY DEF opvars, OInv, OpsTypeOK, BookInv, OneRowPerRun, CutoffInv, LatestInv, Heads, Precedes,
     LoopInv, StageInv, RowInv, Reached, AllSaved, Committee, WeeklyStartsFromDeployed, WeeklyBaseStale,
     Builders, Deployed, Current

LEMMA OInvariant == OpsSpec => []OInv
<1>1. ASSUME OInv, [OpsNext]_opvars PROVE OInv'
  BY <1>1, StepKeeps, StutterKeeps DEF OpsNext
<1> QED BY <1>1, InitOInv, PTL DEF OpsSpec

\* Every variable keeps its type, and no row is newer than the latest save.
THEOREM OpsTypeCorrect == OpsSpec => []OpsTypeOK
  BY OInvariant, PTL DEF OInv

\* However saves of overlapping workflows interleave, on either backend, a run has
\* one row a cadence and created_at tells every two rows apart.
THEOREM RunsHaveOneRow == OpsSpec => []OneRowPerRun
  BY OInvariant, PTL DEF OInv, BookInv

\* A weekly adjustment about to be saved starts from the portfolio in force, up to
\* a worker thread's save that its job has not yet come back from.
THEOREM WeeklyStartsCurrent == OpsSpec => []WeeklyStartsFromDeployed
  BY OInvariant, PTL DEF OInv

\* A failed workflow has left a portfolio only if it is a full cycle or the store
\* refused a later write of it, and a committee's portfolio rests on every case.
THEOREM FailuresLeaveOnlyThis == OpsSpec => []WhatFailuresLeave
<1>1. OInv => WhatFailuresLeave
  BY RowFields DEF OInv, OpsTypeOK, RowInv, Reached, AllSaved, WhatFailuresLeave
<1> QED BY <1>1, OInvariant, PTL

\* The portfolio in force never gives way to one for an earlier cutoff.
THEOREM CutoffsRise == OpsSpec => CutoffNeverFalls
<1>1. ASSUME OInv, [OpsNext]_opvars
      PROVE  Deployed # NoRow => Deployed' # NoRow /\ Deployed'.asof >= Deployed.asof
  <2>1. Current(book)' = Current(book')
    BY DEF Current, Precedes
  <2>2. CASE UNCHANGED book
    <3>1. Deployed # NoRow => Deployed \in Row
      BY <1>1, CurrentHeads DEF OInv, BookInv, LatestInv, OpsTypeOK, Deployed, Heads, Current
    <3> QED BY <2>1, <2>2, <3>1, RowFields DEF Deployed
  <2>3. CASE \E o \in Op : Moves(o)
    BY <2>1, <2>2, <2>3 DEF Moves, Moved, Deployed
  <2> QED BY <1>1, <2>2, <2>3, StepKeeps DEF OpsNext, opvars
<1> QED BY <1>1, OInvariant, PTL DEF CutoffNeverFalls, OpsSpec

\* Nothing replaces the portfolio in force from beyond its cadence's cap, unless the
\* job started from another portfolio.
THEOREM CapHolds == OpsSpec => CapHoldsWithoutOverlap
<1> DEFINE Holds == LET old == Deployed  new == Current(book')
                    IN  old # NoRow /\ new # old =>
                          \/ new.by \in Op /\ base[new.by] # old
                          \/ Dist(new.point, old.point) <= CapOf(new.cadence)
<1>1. ASSUME OInv, [OpsNext]_opvars PROVE Holds
  <2>1. CASE UNCHANGED book
    BY <2>1 DEF Deployed
  <2>2. ASSUME NEW o \in Op, NEW row \in Row, Moved(row, o), Within(row, o) PROVE Holds
    BY <2>2 DEF Moved, Within
  <2> QED BY <1>1, <2>1, <2>2, StepKeeps DEF OpsNext, opvars, Moves
<1> QED BY <1>1, OInvariant, PTL DEF CapHoldsWithoutOverlap, OpsSpec

-----------------------------------------------------------------------------
(* Sums over finite sets.                                                  *)

LEMMA FirstNumber ==
    ASSUME NEW S \in SUBSET Nat, S # {}
    PROVE  \E i \in S : \A j \in S : i <= j
<1> DEFINE R == OpToRel(<, Nat)
<1>1. \A j, i \in Nat : j < i => <<j, i>> \in R
  BY DEF OpToRel
<1>2. IsWellFoundedOn(R, Nat)
  BY NatLessThanWellFounded
<1> HIDE DEF R
<1>3. PICK i \in S : \A j \in S : ~(<<j, i>> \in R)
  BY <1>2, WFMin, Zenon
<1>4. \A j \in S : ~(j < i)
  BY <1>1, <1>3
<1> QED BY <1>4

\* Among finite sets one is as small as any.
LEMMA SmallestSet ==
    ASSUME NEW B, B # {}, \A s \in B : IsFiniteSet(s)
    PROVE  \E s \in B : \A t \in B : Cardinality(s) <= Cardinality(t)
<1> DEFINE sizes == {Cardinality(s) : s \in B}
<1>1. sizes \in SUBSET Nat /\ sizes # {}
  BY FS_CardinalityType
<1>2. PICK n \in sizes : \A k \in sizes : n <= k
  <2> HIDE DEF sizes
  <2> QED BY <1>1, FirstNumber
<1> QED BY <1>2

\* A finite set without one of its elements.
LEMMA OneLess ==
    ASSUME NEW s, IsFiniteSet(s), NEW x \in s
    PROVE  /\ IsFiniteSet(s \ {x}) /\ Cardinality(s) \in Nat
           /\ Cardinality(s \ {x}) = Cardinality(s) - 1 /\ Cardinality(s \ {x}) < Cardinality(s)
<1>1. IsFiniteSet(s \ {x}) /\ Cardinality(s \ {x}) = Cardinality(s) - 1
  BY FS_RemoveElement
<1>2. Cardinality(s) \in Nat
  BY FS_CardinalityType
<1> QED BY <1>1, <1>2

Pick(s) == CHOOSE x \in s : TRUE
\* f gives the sum of v over each set in D, a set of sets that is closed under
\* taking out the element that is picked.
SumsOver(v, D, f) ==
    f = [s \in D |-> IF s = {} THEN 0 ELSE v[Pick(s)] + f[s \ {Pick(s)}]]

LEMMA SumsExist ==
    ASSUME NEW v, NEW S, IsFiniteSet(S)
    PROVE  \E f : SumsOver(v, SUBSET S, f)
<1> DEFINE upTo(n) == {s \in SUBSET S : Cardinality(s) <= n}
           none == {n \in Nat : ~\E f : SumsOver(v, upTo(n), f)}
<1>1. \A s \in SUBSET S : IsFiniteSet(s) /\ Cardinality(s) \in Nat /\ Cardinality(s) <= Cardinality(S)
  BY FS_Subset, FS_CardinalityType
<1>2. ASSUME NEW n \in none, \A k \in none : n <= k PROVE FALSE
  <2>1. CASE n = 0
    <3>1. \A s \in upTo(0) : s = {}
      BY <1>1, FS_EmptySet
    <3>2. SumsOver(v, upTo(0), [s \in upTo(0) |-> 0])
      BY <3>1 DEF SumsOver
    <3> QED BY <2>1, <3>2
  <2>2. CASE n # 0
    <3>1. n - 1 \in Nat /\ n - 1 < n
      BY <2>2
    <3>2. PICK f : SumsOver(v, upTo(n - 1), f)
      <4>1. n - 1 \notin none
        <5>1. n \in Nat
          OBVIOUS
        <5> HIDE DEF none
        <5> QED BY <1>2, <3>1, <5>1
      <4> HIDE DEF upTo
      <4> QED BY <3>1, <4>1
    <3> DEFINE g == [s \in upTo(n) |-> IF s \in upTo(n - 1) THEN f[s] ELSE v[Pick(s)] + f[s \ {Pick(s)}]]
    <3>3. ASSUME NEW s \in upTo(n), s # {}
          PROVE  s \ {Pick(s)} \in upTo(n - 1)
      <4>1. Pick(s) \in s
        BY <3>3 DEF Pick
      <4>2. Cardinality(s \ {Pick(s)}) = Cardinality(s) - 1 /\ Cardinality(s) \in Nat
        BY <1>1, <4>1, OneLess
      <4> QED BY <4>2
    <3>4. {} \in upTo(n - 1)
      BY <3>1, FS_EmptySet
    <3>5. ASSUME NEW s \in upTo(n - 1)
          PROVE  f[s] = (IF s = {} THEN 0 ELSE v[Pick(s)] + f[s \ {Pick(s)}])
      <4> HIDE DEF upTo
      <4> QED BY <3>2, <3>5 DEF SumsOver
    <3>6. upTo(n - 1) \subseteq upTo(n)
      BY <1>1, <3>1
    <3>7. \A s \in upTo(n - 1) : g[s] = f[s]
      <4> HIDE DEF upTo
      <4> QED BY <3>6
    <3>8. ASSUME NEW s \in upTo(n)
          PROVE  g[s] = (IF s = {} THEN 0 ELSE v[Pick(s)] + g[s \ {Pick(s)}])
      <4>1. CASE s = {}
        <5>1. g[s] = f[s] /\ f[s] = 0
          <6> HIDE DEF upTo, g
          <6> QED BY <3>4, <3>5, <3>7, <4>1
        <5> QED BY <4>1, <5>1
      <4>2. CASE s # {}
        <5>1. g[s \ {Pick(s)}] = f[s \ {Pick(s)}]
          BY <3>3, <3>7, <4>2
        <5>2. g[s] = v[Pick(s)] + f[s \ {Pick(s)}]
          <6> HIDE DEF upTo
          <6> QED BY <3>5, <4>2
        <5> QED BY <4>2, <5>1, <5>2
      <4> QED BY <4>1, <4>2
    <3>9. SumsOver(v, upTo(n), g)
      <4>1. g = [s \in upTo(n) |-> g[s]]
        BY Zenon
      <4> HIDE DEF g, upTo
      <4> QED BY <3>8, <4>1 DEF SumsOver
    <3> QED BY <3>9
  <2> QED BY <2>1, <2>2
<1>3. none = {}
  <2> HIDE DEF none
  <2>1. none # {} => \E n \in none : \A k \in none : n <= k
    BY FirstNumber DEF none
  <2> QED BY <1>2, <2>1
<1>4. Cardinality(S) \in Nat
  BY FS_CardinalityType
<1>5. SUBSET S = upTo(Cardinality(S))
  BY <1>1
<1>6. \E f : SumsOver(v, upTo(Cardinality(S)), f)
  BY <1>3, <1>4
<1> HIDE DEF upTo
<1> QED BY <1>5, <1>6

SumsOf(v, S, f) == SumsOver(v, SUBSET S, f)

LEMMA TotalIsSum ==
    ASSUME NEW v, NEW S, IsFiniteSet(S)
    PROVE  \E f : SumsOf(v, S, f) /\ Total(v, S) = f[S]
<1> DEFINE g == CHOOSE f : f = [s \in SUBSET S |-> IF s = {} THEN 0 ELSE
                  v[CHOOSE x \in s : TRUE] + f[s \ {CHOOSE x \in s : TRUE}]]
<1>1. Total(v, S) = g[S]
  BY DEF Total, MapThenSumSet, MapThenFoldSet
<1>2. \E f : SumsOf(v, S, f)
  BY SumsExist DEF SumsOf
<1>3. SumsOf(v, S, g)
  BY <1>2 DEF SumsOf, SumsOver, Pick
<1> QED BY <1>1, <1>3

\* The sum depends on the values of its elements only, not on the sums' domain.
LEMMA SumsAgree ==
    ASSUME NEW v, NEW S, IsFiniteSet(S), NEW f, SumsOf(v, S, f),
           NEW w, NEW U, NEW g, SumsOf(w, U, g), NEW T, T \subseteq S, T \subseteq U,
           \A t \in T : v[t] = w[t]
    PROVE  f[T] = g[T]
<1> DEFINE bad == {s \in SUBSET T : f[s] # g[s]}
<1>1. \A s \in bad : IsFiniteSet(s)
  BY FS_Subset
<1>2. \A s \in SUBSET T : /\ f[s] = (IF s = {} THEN 0 ELSE v[Pick(s)] + f[s \ {Pick(s)}])
                          /\ g[s] = (IF s = {} THEN 0 ELSE w[Pick(s)] + g[s \ {Pick(s)}])
  <2>1. \A s \in SUBSET T : s \in SUBSET S /\ s \in SUBSET U
    OBVIOUS
  <2>2. \A s \in SUBSET S : f[s] = (IF s = {} THEN 0 ELSE v[Pick(s)] + f[s \ {Pick(s)}])
    BY DEF SumsOf, SumsOver
  <2>3. \A s \in SUBSET U : g[s] = (IF s = {} THEN 0 ELSE w[Pick(s)] + g[s \ {Pick(s)}])
    BY DEF SumsOf, SumsOver
  <2> QED BY <2>1, <2>2, <2>3
<1>3. ASSUME NEW s \in bad, \A u \in bad : Cardinality(s) <= Cardinality(u) PROVE FALSE
  <2>1. s # {}
    BY <1>2
  <2>2. Pick(s) \in s
    BY <2>1 DEF Pick
  <2>3. Cardinality(s \ {Pick(s)}) < Cardinality(s) /\ Cardinality(s) \in Nat
        /\ Cardinality(s \ {Pick(s)}) \in Nat
    BY <1>1, <2>2, OneLess, FS_CardinalityType
  <2>4. s \ {Pick(s)} \in SUBSET T /\ s \ {Pick(s)} \notin bad
    <3> HIDE DEF bad
    <3> QED BY <1>3, <2>3 DEF bad
  <2> QED BY <1>2, <2>1, <2>2, <2>4
<1>4. bad = {}
  <2> HIDE DEF bad
  <2> QED BY <1>1, <1>3, SmallestSet
<1> QED BY <1>4

LEMMA TotalCongruent ==
    ASSUME NEW S, IsFiniteSet(S), NEW v, NEW w, \A t \in S : v[t] = w[t]
    PROVE  Total(v, S) = Total(w, S)
<1>1. PICK f : SumsOf(v, S, f) /\ Total(v, S) = f[S]
  BY TotalIsSum
<1>2. PICK g : SumsOf(w, S, g) /\ Total(w, S) = g[S]
  BY TotalIsSum
<1>3. f[S] = g[S]
  <2>1. S \subseteq S /\ \A t \in S : v[t] = w[t]
    OBVIOUS
  <2> QED BY <1>1, <1>2, <2>1, SumsAgree
<1> QED BY <1>1, <1>2, <1>3

LEMMA TotalEmpty == \A v : Total(v, {}) = 0
<1> TAKE v
<1>1. PICK f : SumsOf(v, {}, f) /\ Total(v, {}) = f[{}]
  BY TotalIsSum, FS_EmptySet
<1> QED BY <1>1 DEF SumsOf, SumsOver

LEMMA TotalPick ==
    ASSUME NEW v, NEW S, IsFiniteSet(S), S # {}
    PROVE  Total(v, S) = v[Pick(S)] + Total(v, S \ {Pick(S)})
<1> DEFINE U == S \ {Pick(S)}
<1>1. PICK f : SumsOf(v, S, f) /\ Total(v, S) = f[S]
  BY TotalIsSum
<1>2. IsFiniteSet(U) /\ U \subseteq S
  BY FS_Subset
<1>3. PICK g : SumsOf(v, U, g) /\ Total(v, U) = g[U]
  BY <1>2, TotalIsSum
<1>4. f[U] = g[U]
  <2> HIDE DEF U
  <2>1. \A t \in U : v[t] = v[t]
    OBVIOUS
  <2>2. U \subseteq U
    OBVIOUS
  <2> QED BY <1>1, <1>2, <1>3, <2>1, <2>2, SumsAgree
<1>5. f[S] = v[Pick(S)] + f[U]
  BY <1>1 DEF SumsOf, SumsOver
<1> QED BY <1>1, <1>3, <1>4, <1>5

LEMMA TotalIsInt ==
    ASSUME NEW v, NEW S, IsFiniteSet(S), \A t \in S : v[t] \in Int
    PROVE  Total(v, S) \in Int
<1> DEFINE bad == {s \in SUBSET S : Total(v, s) \notin Int}
<1>1. \A s \in bad : IsFiniteSet(s)
  BY FS_Subset
<1>2. ASSUME NEW s \in bad, \A u \in bad : Cardinality(s) <= Cardinality(u) PROVE FALSE
  <2>1. s # {}
    BY TotalEmpty
  <2>2. Pick(s) \in s
    BY <2>1 DEF Pick
  <2>3. Cardinality(s \ {Pick(s)}) < Cardinality(s) /\ Cardinality(s) \in Nat
        /\ Cardinality(s \ {Pick(s)}) \in Nat
    BY <1>1, <2>2, OneLess, FS_CardinalityType
  <2>4. Total(v, s \ {Pick(s)}) \in Int
    <3>1. s \ {Pick(s)} \in SUBSET S /\ s \ {Pick(s)} \notin bad
      <4> HIDE DEF bad
      <4> QED BY <1>2, <2>3 DEF bad
    <3> QED BY <3>1
  <2>5. Total(v, s) = v[Pick(s)] + Total(v, s \ {Pick(s)})
    BY <1>1, <2>1, TotalPick
  <2> QED BY <2>2, <2>4, <2>5
<1>3. bad = {}
  <2> HIDE DEF bad
  <2> QED BY <1>1, <1>2, SmallestSet
<1> QED BY <1>3

\* Any element may be taken out first.
LEMMA TotalTakeOut ==
    ASSUME NEW v, NEW S, IsFiniteSet(S), \A t \in S : v[t] \in Int, NEW x \in S
    PROVE  Total(v, S) = v[x] + Total(v, S \ {x})
<1> DEFINE bad == {s \in SUBSET S : \E y \in s : Total(v, s) # v[y] + Total(v, s \ {y})}
<1>1. \A s \in SUBSET S : IsFiniteSet(s) /\ Total(v, s) \in Int
  BY FS_Subset, TotalIsInt
<1>2. ASSUME NEW s \in bad, \A u \in bad : Cardinality(s) <= Cardinality(u) PROVE FALSE
  <2>1. PICK y \in s : Total(v, s) # v[y] + Total(v, s \ {y})
    OBVIOUS
  <2> DEFINE c == Pick(s)
  <2>2. c \in s /\ Total(v, s) = v[c] + Total(v, s \ {c})
    BY <1>1, <2>1, TotalPick DEF Pick
  <2> HIDE DEF c
  <2>3. y # c
    BY <2>1, <2>2
  <2>4. s \in SUBSET S
    OBVIOUS
  <2>5. ASSUME NEW z \in s PROVE s \ {z} \in SUBSET S /\ s \ {z} \notin bad
    <3>1. Cardinality(s \ {z}) = Cardinality(s) - 1 /\ Cardinality(s) \in Nat
      BY <1>1, <2>4, OneLess
    <3> HIDE DEF bad
    <3> QED BY <1>2, <2>4, <3>1
  <2>6. Total(v, s \ {c}) = v[y] + Total(v, (s \ {c}) \ {y})
    <3>1. s \ {c} \in SUBSET S /\ s \ {c} \notin bad /\ y \in s \ {c}
      BY <2>2, <2>3, <2>5
    <3> QED BY <3>1
  <2>7. Total(v, s \ {y}) = v[c] + Total(v, (s \ {y}) \ {c})
    <3>1. s \ {y} \in SUBSET S /\ s \ {y} \notin bad /\ c \in s \ {y}
      BY <2>2, <2>3, <2>5
    <3> QED BY <3>1
  <2>8. (s \ {c}) \ {y} = (s \ {y}) \ {c}
    OBVIOUS
  <2>9. v[c] \in Int /\ v[y] \in Int /\ Total(v, (s \ {y}) \ {c}) \in Int
    BY <1>1, <2>2
  <2> HIDE DEF bad
  <2>10. Total(v, s \ {c}) = v[y] + Total(v, (s \ {y}) \ {c})
    BY <2>6, <2>8
  <2>11. Total(v, s) # v[y] + Total(v, s \ {y})
    BY <2>1
  <2>12. Total(v, s) = v[c] + Total(v, s \ {c})
    BY <2>2
  <2> QED BY <2>7, <2>9, <2>10, <2>11, <2>12
<1>3. bad = {}
  <2> HIDE DEF bad
  <2> QED BY <1>1, <1>2, SmallestSet DEF bad
<1> QED BY <1>3

\* The sum over two sets that have nothing in common.
LEMMA TotalSplit ==
    ASSUME NEW v, NEW S, IsFiniteSet(S), \A t \in S : v[t] \in Int, NEW A \in SUBSET S
    PROVE  Total(v, S) = Total(v, A) + Total(v, S \ A)
<1> DEFINE bad == {s \in SUBSET A : Total(v, s \cup (S \ A)) # Total(v, s) + Total(v, S \ A)}
<1>1. \A s \in SUBSET S : IsFiniteSet(s) /\ Total(v, s) \in Int
  BY FS_Subset, TotalIsInt
<1>2. ASSUME NEW s \in bad, \A u \in bad : Cardinality(s) <= Cardinality(u) PROVE FALSE
  <2>0. s \in SUBSET A /\ s \in SUBSET S /\ S \ A \in SUBSET S
    OBVIOUS
  <2>1. s # {}
    <3>1. Total(v, {}) = 0 /\ Total(v, S \ A) \in Int /\ {} \cup (S \ A) = S \ A
      BY <1>1, TotalEmpty
    <3>2. Total(v, {} \cup (S \ A)) = Total(v, {}) + Total(v, S \ A)
      BY <3>1
    <3> QED BY <3>2
  <2>2. PICK x \in s : TRUE
    BY <2>1
  <2>3. Cardinality(s \ {x}) < Cardinality(s) /\ Cardinality(s) \in Nat
                     /\ Cardinality(s \ {x}) \in Nat
    BY <1>1, <2>0, <2>2, OneLess, FS_CardinalityType
  <2>4. s \ {x} \in SUBSET A /\ s \ {x} \notin bad
    <3> HIDE DEF bad
    <3> QED BY <1>2, <2>0, <2>3
  <2>5. Total(v, s) = v[x] + Total(v, s \ {x})
    <3>1. IsFiniteSet(s) /\ \A t \in s : v[t] \in Int
      BY <1>1, <2>0
    <3> HIDE DEF bad
    <3> QED BY <2>2, <3>1, TotalTakeOut
  <2>6. Total(v, s \cup (S \ A)) = v[x] + Total(v, (s \cup (S \ A)) \ {x})
    <3> DEFINE U == s \cup (S \ A)
    <3>1. U \in SUBSET S /\ x \in U
      BY <2>0, <2>2
    <3>2. IsFiniteSet(U) /\ \A t \in U : v[t] \in Int
      BY <1>1, <3>1
    <3> HIDE DEF U, bad
    <3>3. Total(v, U) = v[x] + Total(v, U \ {x})
      BY <3>1, <3>2, TotalTakeOut
    <3> QED BY <3>3 DEF U
  <2>7. (s \cup (S \ A)) \ {x} = (s \ {x}) \cup (S \ A)
    BY <2>0, <2>2
  <2>8. v[x] \in Int /\ Total(v, s \ {x}) \in Int /\ Total(v, S \ A) \in Int
    BY <1>1, <2>0, <2>2
  <2>9. Total(v, (s \ {x}) \cup (S \ A)) = Total(v, s \ {x}) + Total(v, S \ A)
    BY <2>4
  <2>10. Total(v, s \cup (S \ A)) # Total(v, s) + Total(v, S \ A)
    OBVIOUS
  <2> HIDE DEF bad
  <2>11. Total(v, s \cup (S \ A)) = v[x] + Total(v, (s \ {x}) \cup (S \ A))
    BY <2>6, <2>7
  <2> QED BY <2>5, <2>8, <2>9, <2>10, <2>11
<1>3. bad = {}
  <2> HIDE DEF bad
  <2> QED BY <1>1, <1>2, SmallestSet DEF bad
<1>4. A \cup (S \ A) = S
  OBVIOUS
<1> QED BY <1>3, <1>4

\* No element below -k: the sum is no less than so many times -k.
LEMMA TotalFloor ==
    ASSUME NEW v, NEW S, IsFiniteSet(S), NEW k \in Int, \A t \in S : v[t] \in Int /\ v[t] >= -k
    PROVE  Total(v, S) >= -(Cardinality(S) * k)
<1> DEFINE bad == {s \in SUBSET S : ~(Total(v, s) >= -(Cardinality(s) * k))}
<1>1. \A s \in SUBSET S : IsFiniteSet(s) /\ Total(v, s) \in Int /\ Cardinality(s) \in Nat
  BY FS_Subset, TotalIsInt, FS_CardinalityType
<1>2. ASSUME NEW s \in bad, \A u \in bad : Cardinality(s) <= Cardinality(u) PROVE FALSE
  <2>1. s # {}
    BY TotalEmpty, FS_EmptySet
  <2>2. PICK x \in s : TRUE
    BY <2>1
  <2>3. Cardinality(s \ {x}) = Cardinality(s) - 1 /\ Cardinality(s) \in Nat
    BY <1>1, OneLess
  <2>4. s \ {x} \in SUBSET S /\ s \ {x} \notin bad
    <3> HIDE DEF bad
    <3> QED BY <1>2, <2>3 DEF bad
  <2>5. Total(v, s \ {x}) >= -((Cardinality(s) - 1) * k)
    BY <2>3, <2>4
  <2>6. Total(v, s) = v[x] + Total(v, s \ {x})
    BY <1>1, TotalTakeOut
  <2>7. \A n, m \in Int : (n - 1) * m = n * m - m
    OBVIOUS
  <2>8. (Cardinality(s) - 1) * k = Cardinality(s) * k - k /\ Cardinality(s) * k \in Int
    BY <2>3, <2>7
  <2>9. v[x] \in Int /\ v[x] >= -k /\ Total(v, s \ {x}) \in Int
    BY <1>1, <2>4
  <2>10. ~(Total(v, s) >= -(Cardinality(s) * k))
    OBVIOUS
  <2> HIDE DEF bad
  <2> QED BY <2>5, <2>6, <2>8, <2>9, <2>10
<1>3. bad = {}
  <2> HIDE DEF bad
  <2> QED BY <1>1, <1>2, SmallestSet DEF bad
<1> QED BY <1>3

LEMMA TotalNotNegative ==
    ASSUME NEW v, NEW S, IsFiniteSet(S), \A t \in S : v[t] \in Int /\ v[t] >= 0
    PROVE  Total(v, S) >= 0
<1>1. \A t \in S : v[t] \in Int /\ v[t] >= -0
  OBVIOUS
<1>2. Total(v, S) >= -(Cardinality(S) * 0)
  BY <1>1, TotalFloor
<1>3. Cardinality(S) * 0 = 0
  BY FS_CardinalityType
<1> QED BY <1>2, <1>3

LEMMA TotalCeiling ==
    ASSUME NEW v, NEW S, IsFiniteSet(S), \A t \in S : v[t] \in Int /\ v[t] <= 0
    PROVE  Total(v, S) <= 0
<1> DEFINE bad == {s \in SUBSET S : ~(Total(v, s) <= 0)}
<1>1. \A s \in SUBSET S : IsFiniteSet(s) /\ Total(v, s) \in Int
  BY FS_Subset, TotalIsInt
<1>2. ASSUME NEW s \in bad, \A u \in bad : Cardinality(s) <= Cardinality(u) PROVE FALSE
  <2>1. s # {}
    BY TotalEmpty
  <2>2. Pick(s) \in s /\ Total(v, s) = v[Pick(s)] + Total(v, s \ {Pick(s)})
    BY <1>1, <2>1, TotalPick DEF Pick
  <2>3. Cardinality(s \ {Pick(s)}) < Cardinality(s) /\ Cardinality(s) \in Nat
        /\ Cardinality(s \ {Pick(s)}) \in Nat
    BY <1>1, <2>2, OneLess, FS_CardinalityType
  <2>4. s \ {Pick(s)} \in SUBSET S /\ s \ {Pick(s)} \notin bad
    <3> HIDE DEF bad
    <3> QED BY <1>2, <2>3 DEF bad
  <2>5. Total(v, s \ {Pick(s)}) \in Int /\ v[Pick(s)] \in Int /\ v[Pick(s)] <= 0
    BY <1>1, <2>2, <2>4
  <2> QED BY <2>2, <2>4, <2>5
<1>3. bad = {}
  <2> HIDE DEF bad
  <2> QED BY <1>1, <1>2, SmallestSet DEF bad
<1> QED BY <1>3

LEMMA TotalOfZeros ==
    ASSUME NEW v, NEW S, IsFiniteSet(S), \A t \in S : v[t] = 0
    PROVE  Total(v, S) = 0
<1> DEFINE bad == {s \in SUBSET S : Total(v, s) # 0}
<1>1. \A s \in SUBSET S : IsFiniteSet(s)
  BY FS_Subset
<1>2. ASSUME NEW s \in bad, \A u \in bad : Cardinality(s) <= Cardinality(u) PROVE FALSE
  <2>1. s # {}
    BY TotalEmpty
  <2>2. Pick(s) \in s /\ Total(v, s) = v[Pick(s)] + Total(v, s \ {Pick(s)})
    BY <1>1, <2>1, TotalPick DEF Pick
  <2>3. Cardinality(s \ {Pick(s)}) < Cardinality(s) /\ Cardinality(s) \in Nat
        /\ Cardinality(s \ {Pick(s)}) \in Nat
    BY <1>1, <2>2, OneLess, FS_CardinalityType
  <2>4. s \ {Pick(s)} \in SUBSET S /\ s \ {Pick(s)} \notin bad
    <3> HIDE DEF bad
    <3> QED BY <1>2, <2>3 DEF bad
  <2> QED BY <2>2, <2>4
<1>3. bad = {}
  <2> HIDE DEF bad
  <2> QED BY <1>1, <1>2, SmallestSet DEF bad
<1> QED BY <1>3

LEMMA TotalUpdate ==
    ASSUME NEW S, IsFiniteSet(S), NEW v \in [S -> Int], NEW w \in [S -> Int], NEW x \in S,
           \A t \in S \ {x} : w[t] = v[t]
    PROVE  Total(w, S) = Total(v, S) - v[x] + w[x]
<1>1. Total(w, S) = w[x] + Total(w, S \ {x}) /\ Total(v, S) = v[x] + Total(v, S \ {x})
  BY TotalTakeOut
<1>2. IsFiniteSet(S \ {x})
  BY FS_Subset
<1>3. Total(w, S \ {x}) = Total(v, S \ {x})
  BY <1>2, TotalCongruent
<1>4. Total(v, S \ {x}) \in Int
  BY <1>2, TotalIsInt
<1>5. v[x] \in Int /\ w[x] \in Int
  OBVIOUS
<1> QED BY <1>1, <1>3, <1>4, <1>5

-----------------------------------------------------------------------------
(* The staged plan.                                                        *)

Planned == {"selling", "buying", "done"}
Staged == {"buying", "done"}

Valued ==
    /\ phase \in Planned \cup {"gates"}
    /\ held \in [Ticker -> Int] /\ target \in [Ticker -> 0 .. NameLimit]
    /\ desired \in [Ticker -> Int] /\ proposed \in [Ticker -> Int]
    /\ todo \subseteq Ticker /\ remaining \in Nat

\* What is staged for a name lies between nothing and what is desired, and a
\* purchase is staged only after all reductions.
InRange ==
    /\ phase = "gates" => \A t \in Ticker : proposed[t] = 0
    /\ phase \in Planned =>
         /\ desired = [t \in Ticker |-> DesiredDelta(t)]
         /\ \A t \in Ticker :
               /\ desired[t] <= 0 => desired[t] <= proposed[t] /\ proposed[t] <= 0
               /\ desired[t] > 0 => 0 <= proposed[t] /\ proposed[t] <= desired[t]
    /\ phase = "selling" =>
         /\ todo \subseteq Sells /\ \A t \in todo \cup Buys : proposed[t] = 0
    /\ phase = "buying" => todo \subseteq Buys /\ \A t \in todo : proposed[t] = 0

\* What is left of the budget and then of the proceeds.
Balanced ==
    /\ phase = "selling" => Total(proposed, Ticker) = remaining - Budget
    /\ phase \in Staged => /\ Total(proposed, Ticker) = -remaining
                           /\ -Total(proposed, Sells) <= Budget

PlanKnown ==
    /\ phase = "done" => plan = {t \in Ticker : Abs(proposed[t]) >= MinTrade}
    /\ bought \subseteq Ticker /\ \A t \in bought : held[t] <= NameLimit

RInv == Valued /\ InRange /\ Balanced /\ PlanKnown

LEMMA Parameters ==
    /\ NameLimit \in Nat /\ HalfLimit \in Nat /\ Budget \in Nat /\ Band \in Nat
    /\ MinTrade \in Nat /\ MinTrade > 0 /\ HalfLimit <= NameLimit
    /\ IsFiniteSet(Ticker)
BY RebalanceAssumption

\* A holding's risk limit is a number of at least nothing.
LEMMA RiskLimitIsNat ==
    ASSUME held \in [Ticker -> Int], target \in [Ticker -> 0 .. NameLimit],
           NEW t \in Ticker, held[t] > 0
    PROVE  SectorOverage(t) \in Int /\ RiskLimit(t) \in Nat
<1>1. IsFiniteSet(InSector(t, Held)) /\ IsFiniteSet(InSector(t, Ticker))
  <2>1. InSector(t, Held) \subseteq Ticker /\ InSector(t, Ticker) \subseteq Ticker
    BY DEF InSector, Held
  <2> QED BY <2>1, Parameters, FS_Subset
<1>2. \A u \in InSector(t, Held) : held[u] \in Int
  BY DEF InSector, Held
<1>3. \A u \in InSector(t, Ticker) : target[u] \in Int
  <2>1. 0 .. NameLimit \subseteq Int
    BY Parameters
  <2> QED BY <2>1 DEF InSector
<1>4. SectorOverage(t) \in Int
  <2>1. Total(held, InSector(t, Held)) \in Int /\ Total(target, InSector(t, Ticker)) \in Int
    BY <1>1, <1>2, <1>3, TotalIsInt
  <2> QED BY <2>1, Parameters DEF SectorOverage
<1>5. Cardinality(InSector(t, Held)) \in Nat /\ Cardinality(InSector(t, Held)) > 0
  <2>1. t \in InSector(t, Held)
    BY DEF InSector, Held
  <2>2. InSector(t, Held) # {}
    BY <2>1
  <2> QED BY <1>1, <2>2, FS_CardinalityType, FS_EmptySet
<1> DEFINE share == held[t] - SectorOverage(t) \div Cardinality(InSector(t, Held))
<1>6. held[t] \in Int /\ share \in Int
  BY <1>4, <1>5
<1> HIDE DEF share
<1>7. RiskLimit(t) = (LET concentrated == IF held[t] > NameLimit THEN NameLimit ELSE held[t]
                          crowded == IF SectorOverage(t) <= 0 THEN concentrated
                                     ELSE Least(concentrated, IF share > 0 THEN share ELSE 0)
                      IN IF t \in weak THEN Least(crowded, HalfLimit) ELSE crowded)
  BY DEF RiskLimit, share
<1>8. RiskLimit(t) \in Nat
  BY <1>6, <1>7, Parameters DEF Least
<1> QED BY <1>4, <1>8

\* What a gate asks for keeps the holding at its risk limit; what a target asks
\* for keeps the name at its target.
LEMMA DesiredWithinLimits ==
    ASSUME held \in [Ticker -> Int], target \in [Ticker -> 0 .. NameLimit], NEW t \in Ticker
    PROVE  /\ DesiredDelta(t) \in Int
           /\ DesiredDelta(t) < 0 => /\ held[t] > 0 /\ RiskLimit(t) \in Nat /\ RiskLimit(t) < held[t]
                                     /\ held[t] + DesiredDelta(t) = RiskLimit(t)
           /\ DesiredDelta(t) > 0 => held[t] + DesiredDelta(t) = target[t]
<1>1. held[t] \in Int /\ target[t] \in Nat
  BY Parameters
<1>2. CASE held[t] <= 0
  BY <1>1, <1>2 DEF DesiredDelta
<1>3. CASE held[t] > 0
  <2>1. RiskLimit(t) \in Nat
    BY <1>3, RiskLimitIsNat
  <2> QED BY <1>1, <1>3, <2>1 DEF DesiredDelta
<1> QED BY <1>1, <1>2, <1>3

LEMMA InitRInv == RebalanceInit => RInv
<1> SUFFICES ASSUME RebalanceInit PROVE RInv
  OBVIOUS
<1>1. Valued
  <2>1. {0, HalfLimit, NameLimit} \subseteq 0 .. NameLimit
    BY Parameters
  <2>2. held \in [Ticker -> Int]
    BY RebalanceAssumption DEF RebalanceInit
  <2>3. target \in [Ticker -> 0 .. NameLimit]
    BY <2>1 DEF RebalanceInit
  <2> QED BY <2>2, <2>3 DEF RebalanceInit, Valued
<1> QED BY <1>1 DEF RebalanceInit, RInv, InRange, Balanced, PlanKnown, Planned, Staged

LEMMA GateKeeps == RInv /\ Gate => RInv'
<1> SUFFICES ASSUME RInv, Gate PROVE RInv'
  OBVIOUS
<1>1. /\ held' = held /\ target' = target /\ weak' = weak /\ proposed' = proposed
      /\ phase' = "selling" /\ remaining' = Budget
      /\ todo' = {t \in Ticker : DesiredDelta(t) < 0}
      /\ desired' = [t \in Ticker |-> DesiredDelta(t)] /\ bought' = bought
  BY DEF Gate, inputs
<1>2. \A t \in Ticker : DesiredDelta(t)' = DesiredDelta(t)
  BY <1>1 DEF DesiredDelta, RiskLimit, SectorOverage, InSector, Held
<1>3. \A t \in Ticker : DesiredDelta(t) \in Int
  BY DesiredWithinLimits DEF RInv, Valued
<1>4. \A t \in Ticker : proposed[t] = 0
  BY DEF RInv, InRange, Gate
<1>5. Valued'
  BY <1>1, <1>3, Parameters DEF RInv, Valued, Planned
<1>6. InRange'
  <2>1. todo' \subseteq Sells'
    BY <1>1 DEF Sells
  <2>2. \A t \in Ticker : desired'[t] \in Int /\ proposed'[t] = 0
    BY <1>1, <1>3, <1>4
  <2>3. Buys' \subseteq Ticker /\ todo' \subseteq Ticker
    BY <1>1 DEF Buys
  <2>4. desired' = [t \in Ticker |-> DesiredDelta(t)']
    BY <1>1, <1>2
  <2> QED BY <1>1, <2>1, <2>2, <2>3, <2>4 DEF InRange, Planned
<1>7. Balanced'
  <2>1. Total(proposed, Ticker) = 0
    BY <1>4, Parameters, TotalOfZeros
  <2>2. Total(proposed, Ticker)' = 0
    BY <1>1, <2>1
  <2> QED BY <1>1, <2>2, Parameters DEF Balanced, Staged
<1> QED BY <1>1, <1>5, <1>6, <1>7 DEF RInv, PlanKnown

\* What is desired and what the limits are stays while the plan is staged.
LEMMA DesiredStays ==
    ASSUME UNCHANGED inputs, UNCHANGED desired
    PROVE  /\ \A t \in Ticker : DesiredDelta(t)' = DesiredDelta(t) /\ RiskLimit(t)' = RiskLimit(t)
           /\ Sells' = Sells /\ Buys' = Buys
BY DEF inputs, DesiredDelta, RiskLimit, SectorOverage, InSector, Held, Sells, Buys

LEMMA SellNextKeeps ==
    ASSUME RInv, NEW t \in Ticker, SellNext(t)
    PROVE  RInv'
<1> DEFINE amount == Least(Abs(desired[t]), remaining)
<1>1. /\ phase = "selling" /\ phase' = "selling" /\ t \in todo /\ UNCHANGED inputs /\ UNCHANGED desired
      /\ proposed' = [proposed EXCEPT ![t] = -amount] /\ remaining' = remaining - amount
      /\ todo' = todo \ {t} /\ bought' = bought /\ held' = held /\ target' = target
  BY DEF SellNext, inputs
<1>2. /\ desired[t] \in Int /\ desired[t] < 0 /\ proposed[t] = 0 /\ remaining \in Nat
      /\ proposed \in [Ticker -> Int]
  BY <1>1 DEF RInv, Valued, InRange, Sells
<1>3. amount \in Nat /\ amount <= remaining /\ amount <= -desired[t]
  BY <1>2 DEF Least, Abs
<1> HIDE DEF amount
<1>4. /\ proposed' \in [Ticker -> Int] /\ proposed'[t] = -amount
      /\ \A u \in Ticker \ {t} : proposed'[u] = proposed[u]
  BY <1>1, <1>2, <1>3
<1>5. Valued'
  BY <1>1, <1>2, <1>3, <1>4 DEF RInv, Valued
<1>6. InRange'
  <2>1. desired' = [u \in Ticker |-> DesiredDelta(u)']
    <3>1. desired = [u \in Ticker |-> DesiredDelta(u)]
      BY <1>1 DEF RInv, InRange, Planned
    <3>2. \A u \in Ticker : DesiredDelta(u)' = DesiredDelta(u)
      BY <1>1, DesiredStays
    <3> QED BY <1>1, <3>1, <3>2
  <2>2. ASSUME NEW u \in Ticker
        PROVE  /\ desired[u] <= 0 => desired[u] <= proposed'[u] /\ proposed'[u] <= 0
               /\ desired[u] > 0 => 0 <= proposed'[u] /\ proposed'[u] <= desired[u]
    <3>1. CASE u = t
      BY <1>2, <1>3, <1>4, <3>1
    <3>2. CASE u # t
      BY <1>1, <1>4, <3>2 DEF RInv, InRange, Planned
    <3> QED BY <3>1, <3>2
  <2>3. todo' \subseteq Sells /\ \A u \in todo' \cup Buys : proposed'[u] = 0
    <3>1. t \notin Buys /\ Buys \subseteq Ticker /\ todo \subseteq Ticker
      BY <1>2 DEF Buys, RInv, Valued
    <3> QED BY <1>1, <1>4, <3>1 DEF RInv, InRange
  <2>4. Sells' = Sells /\ Buys' = Buys
    BY <1>1, DesiredStays
  <2> QED BY <1>1, <2>1, <2>2, <2>3, <2>4 DEF InRange, Planned
<1>7. Balanced'
  <2>1. Total(proposed', Ticker) = Total(proposed, Ticker) - 0 + (-amount)
    <3>1. Total(proposed', Ticker) = Total(proposed, Ticker) - proposed[t] + proposed'[t]
      BY <1>2, <1>4, Parameters, TotalUpdate
    <3> QED BY <1>2, <1>4, <3>1
  <2>2. Total(proposed, Ticker) = remaining - Budget
    BY <1>1 DEF RInv, Balanced
  <2>3. Total(proposed', Ticker) = remaining' - Budget
    BY <1>1, <1>2, <1>3, <2>1, <2>2, Parameters
  <2> QED BY <1>1, <2>3 DEF Balanced, Staged
<1> QED BY <1>1, <1>5, <1>6, <1>7 DEF RInv, PlanKnown

LEMMA CountProceedsKeeps == RInv /\ CountProceeds => RInv'
<1> SUFFICES ASSUME RInv, CountProceeds PROVE RInv'
  OBVIOUS
<1>1. /\ phase = "selling" /\ phase' = "buying" /\ UNCHANGED inputs /\ UNCHANGED desired
      /\ UNCHANGED proposed /\ remaining' = Budget - remaining
      /\ todo' = Buys /\ bought' = bought /\ held' = held /\ target' = target
  BY DEF CountProceeds, inputs
<1>2. Total(proposed, Ticker) = remaining - Budget /\ remaining \in Nat /\ proposed \in [Ticker -> Int]
  BY <1>1 DEF RInv, Balanced, Valued
<1>3. ASSUME NEW t \in Ticker \ Sells PROVE proposed[t] = 0
  <2>1. desired[t] \in Int /\ ~(desired[t] < 0) /\ proposed[t] \in Int
    BY DEF RInv, Valued, Sells
  <2>2. CASE t \in Buys
    BY <1>1, <2>2 DEF RInv, InRange
  <2>3. CASE t \notin Buys
    <3>1. desired[t] = 0
      BY <2>1, <2>3 DEF Buys
    <3> QED BY <1>1, <2>1, <3>1 DEF RInv, InRange, Planned
  <2> QED BY <2>2, <2>3
<1>4. Total(proposed, Ticker) = Total(proposed, Sells)
  <2>1. Sells \in SUBSET Ticker /\ IsFiniteSet(Ticker \ Sells) /\ IsFiniteSet(Sells)
    BY Parameters, FS_Subset DEF Sells
  <2>2. Total(proposed, Ticker) = Total(proposed, Sells) + Total(proposed, Ticker \ Sells)
    BY <1>2, <2>1, Parameters, TotalSplit
  <2>3. Total(proposed, Ticker \ Sells) = 0
    BY <1>3, <2>1, TotalOfZeros
  <2>4. Total(proposed, Sells) \in Int
    BY <1>2, <2>1, TotalIsInt
  <2> QED BY <2>2, <2>3, <2>4
\* The reductions only ever lower the sum.
<1>5. Total(proposed, Ticker) <= 0
  <2>1. \A t \in Ticker : proposed[t] \in Int /\ proposed[t] <= 0
    <3> TAKE t \in Ticker
    <3>1. CASE t \in Sells
      BY <1>1, <1>2, <3>1 DEF RInv, InRange, Planned, Sells, Valued
    <3>2. CASE t \notin Sells
      BY <1>3, <3>2
    <3> QED BY <1>2, <3>1, <3>2
  <2> QED BY <2>1, Parameters, TotalCeiling
<1>6. remaining' \in Nat
  BY <1>1, <1>2, <1>5, Parameters
<1>7. Valued'
  BY <1>1, <1>6 DEF RInv, Valued, Planned, Buys
<1>8. InRange'
  <2>1. desired' = [u \in Ticker |-> DesiredDelta(u)']
    <3>1. desired = [u \in Ticker |-> DesiredDelta(u)]
      BY <1>1 DEF RInv, InRange, Planned
    <3>2. \A u \in Ticker : DesiredDelta(u)' = DesiredDelta(u)
      BY <1>1, DesiredStays
    <3> QED BY <1>1, <3>1, <3>2
  <2>2. Buys' = Buys
    BY <1>1, DesiredStays
  <2> QED BY <1>1, <2>1, <2>2 DEF RInv, InRange, Planned
<1>9. Balanced'
  <2>1. Sells' = Sells
    BY <1>1, DesiredStays
  <2>2. Total(proposed, Ticker) = -(Budget - remaining) /\ -Total(proposed, Sells) <= Budget
    BY <1>2, <1>4, Parameters
  <2> QED BY <1>1, <2>1, <2>2 DEF Balanced, Staged
<1> QED BY <1>1, <1>7, <1>8, <1>9 DEF RInv, PlanKnown

LEMMA BuyNextKeeps ==
    ASSUME RInv, NEW t \in Ticker, BuyNext(t)
    PROVE  RInv'
<1> DEFINE amount == Least(desired[t], remaining)
<1>1. /\ phase = "buying" /\ phase' = "buying" /\ t \in todo /\ UNCHANGED inputs /\ UNCHANGED desired
      /\ proposed' = [proposed EXCEPT ![t] = amount] /\ remaining' = remaining - amount
      /\ todo' = todo \ {t} /\ bought' = bought /\ held' = held /\ target' = target
  BY DEF BuyNext, inputs
<1>2. /\ desired[t] \in Int /\ desired[t] > 0 /\ proposed[t] = 0 /\ remaining \in Nat
      /\ proposed \in [Ticker -> Int]
  BY <1>1 DEF RInv, Valued, InRange, Buys
<1>3. amount \in Nat /\ amount <= remaining /\ amount <= desired[t]
  BY <1>2 DEF Least
<1> HIDE DEF amount
<1>4. /\ proposed' \in [Ticker -> Int] /\ proposed'[t] = amount
      /\ \A u \in Ticker \ {t} : proposed'[u] = proposed[u]
  BY <1>1, <1>2, <1>3
<1>5. Valued'
  BY <1>1, <1>2, <1>3, <1>4 DEF RInv, Valued
<1>6. InRange'
  <2>1. desired' = [u \in Ticker |-> DesiredDelta(u)']
    <3>1. desired = [u \in Ticker |-> DesiredDelta(u)]
      BY <1>1 DEF RInv, InRange, Planned
    <3>2. \A u \in Ticker : DesiredDelta(u)' = DesiredDelta(u)
      BY <1>1, DesiredStays
    <3> QED BY <1>1, <3>1, <3>2
  <2>2. ASSUME NEW u \in Ticker
        PROVE  /\ desired[u] <= 0 => desired[u] <= proposed'[u] /\ proposed'[u] <= 0
               /\ desired[u] > 0 => 0 <= proposed'[u] /\ proposed'[u] <= desired[u]
    <3>1. CASE u = t
      BY <1>2, <1>3, <1>4, <3>1
    <3>2. CASE u # t
      BY <1>1, <1>4, <3>2 DEF RInv, InRange, Planned
    <3> QED BY <3>1, <3>2
  <2>3. todo' \subseteq Buys /\ \A u \in todo' : proposed'[u] = 0
    <3>1. todo \subseteq Ticker
      BY DEF RInv, Valued
    <3> QED BY <1>1, <1>4, <3>1 DEF RInv, InRange
  <2>4. Buys' = Buys
    BY <1>1, DesiredStays
  <2> QED BY <1>1, <2>1, <2>2, <2>3, <2>4 DEF InRange, Planned
<1>7. Balanced'
  <2>1. Total(proposed', Ticker) = Total(proposed, Ticker) - 0 + amount
    <3>1. Total(proposed', Ticker) = Total(proposed, Ticker) - proposed[t] + proposed'[t]
      BY <1>2, <1>4, Parameters, TotalUpdate
    <3> QED BY <1>2, <1>4, <3>1
  <2>2. Total(proposed, Ticker) = -remaining /\ -Total(proposed, Sells) <= Budget
    BY <1>1 DEF RInv, Balanced, Staged
  <2>3. Total(proposed', Ticker) = -remaining'
    BY <1>1, <1>2, <1>3, <2>1, <2>2
  <2>4. Total(proposed', Sells) = Total(proposed, Sells)
    <3>1. IsFiniteSet(Sells) /\ \A u \in Sells : proposed'[u] = proposed[u]
      <4>1. Sells \subseteq Ticker /\ t \notin Sells
        BY <1>2 DEF Sells
      <4> QED BY <1>4, <4>1, Parameters, FS_Subset
    <3> QED BY <3>1, TotalCongruent
  <2>5. Sells' = Sells
    BY <1>1, DesiredStays
  <2> QED BY <1>1, <2>2, <2>3, <2>4, <2>5 DEF Balanced, Staged
<1> QED BY <1>1, <1>5, <1>6, <1>7 DEF RInv, PlanKnown

LEMMA AdviseKeeps == RInv /\ Advise => RInv'
<1> SUFFICES ASSUME RInv, Advise PROVE RInv'
  OBVIOUS
<1>1. /\ phase = "buying" /\ phase' = "done" /\ UNCHANGED inputs /\ UNCHANGED desired
      /\ UNCHANGED <<proposed, remaining, todo, bought, held, target>>
      /\ plan' = {t \in Ticker : Abs(proposed[t]) >= MinTrade}
  BY DEF Advise, inputs
<1>2. Valued'
  BY <1>1 DEF RInv, Valued, Planned
<1>3. InRange'
  <2>1. desired' = [u \in Ticker |-> DesiredDelta(u)']
    <3>1. desired = [u \in Ticker |-> DesiredDelta(u)]
      BY <1>1 DEF RInv, InRange, Planned
    <3>2. \A u \in Ticker : DesiredDelta(u)' = DesiredDelta(u)
      BY <1>1, DesiredStays
    <3> QED BY <1>1, <3>1, <3>2
  <2> QED BY <1>1, <2>1 DEF RInv, InRange, Planned
<1>4. Balanced'
  <2>1. Sells' = Sells
    BY <1>1, DesiredStays
  <2> QED BY <1>1, <2>1 DEF RInv, Balanced, Staged
<1>5. PlanKnown'
  BY <1>1 DEF RInv, PlanKnown
<1> QED BY <1>2, <1>3, <1>4, <1>5 DEF RInv

LEMMA FollowKeeps == RInv /\ Follow => RInv'
<1> SUFFICES ASSUME RInv, Follow PROVE RInv'
  OBVIOUS
<1>1. /\ phase = "done" /\ phase' = "gates" /\ target' = target /\ todo' = todo /\ remaining' = 0
      /\ held' = [t \in Ticker |-> IF t \in plan THEN held[t] + proposed[t] ELSE held[t]]
      /\ bought' = {t \in plan : proposed[t] > 0}
      /\ desired' = [t \in Ticker |-> 0] /\ proposed' = [t \in Ticker |-> 0]
  BY DEF Follow
<1>2. \A t \in Ticker : held[t] \in Int /\ proposed[t] \in Int /\ desired[t] \in Int /\ target[t] \in 0 .. NameLimit
  BY DEF RInv, Valued
<1>3. Valued'
  BY <1>1, <1>2 DEF RInv, Valued
<1>4. plan \subseteq Ticker
  BY <1>1 DEF RInv, PlanKnown
<1>5. ASSUME NEW t \in plan, proposed[t] > 0 PROVE held'[t] <= NameLimit
  <2>1. t \in Ticker /\ desired = [u \in Ticker |-> DesiredDelta(u)]
    BY <1>1, <1>4 DEF RInv, InRange, Planned
  <2>2. desired[t] > 0 /\ proposed[t] <= desired[t]
    BY <1>1, <1>2, <1>5, <2>1 DEF RInv, InRange, Planned
  <2>3. held[t] + desired[t] = target[t]
    BY <2>1, <2>2, DesiredWithinLimits DEF RInv, Valued
  <2>4. held'[t] = held[t] + proposed[t]
    BY <1>1, <2>1
  <2> QED BY <1>2, <2>1, <2>2, <2>3, <2>4, Parameters
<1>6. PlanKnown'
  BY <1>1, <1>4, <1>5 DEF PlanKnown
<1> QED BY <1>1, <1>3, <1>6 DEF RInv, InRange, Balanced, Planned, Staged

LEMMA RStepKeeps == RInv /\ [RebalanceNext]_rebvars => RInv'
<1> SUFFICES ASSUME RInv, [RebalanceNext]_rebvars PROVE RInv'
  OBVIOUS
<1>1. CASE UNCHANGED rebvars
  <2>1. UNCHANGED <<held, target, weak, score, desired, proposed, todo, remaining, phase, plan, bought>>
    BY <1>1 DEF rebvars, inputs
  <2> QED BY <2>1 DEF RInv, Valued, InRange, Balanced, PlanKnown, Planned, Staged, DesiredDelta, RiskLimit,
             SectorOverage, InSector, Held, Sells, Buys
<1> QED BY <1>1, GateKeeps, CountProceedsKeeps, AdviseKeeps, FollowKeeps, SellNextKeeps, BuyNextKeeps
        DEF RebalanceNext

-----------------------------------------------------------------------------
(* The theorems.                                                           *)

\* The inductive invariant of the staged plan.
THEOREM PlanIsStaged == RebalanceSpec => []RInv
<1> QED BY InitRInv, RStepKeeps, PTL DEF RebalanceSpec

\* _allocate_notional, for any positions, targets and scores: reductions stay within
\* the monthly budget, purchases within the reductions, and what the plan leaves out
\* as too small is the most by which its purchases can exceed its reductions.
THEOREM PlanFits == RebalanceSpec => []PlanFitsBudget
<1>1. ASSUME RInv, phase = "done" PROVE PlanFitsBudget
  <2> DEFINE dust == Reduced \ plan
             rest == (Ticker \ plan) \ dust
  <2>1. /\ proposed \in [Ticker -> Int] /\ remaining \in Nat /\ Total(proposed, Ticker) = -remaining
        /\ -Total(proposed, Sells) <= Budget
        /\ plan = {t \in Ticker : Abs(proposed[t]) >= MinTrade}
    BY <1>1 DEF RInv, Valued, Balanced, Staged, PlanKnown
  <2>2. /\ Reduced \subseteq Sells /\ \A t \in Sells \ Reduced : proposed[t] = 0
        /\ Sells \subseteq Ticker
    <3> SUFFICES ASSUME NEW t \in Ticker
                 PROVE  /\ t \in Reduced => t \in Sells
                        /\ t \in Sells /\ t \notin Reduced => proposed[t] = 0
      BY DEF Reduced, Sells
    <3>1. desired[t] \in Int /\ proposed[t] \in Int
      BY <1>1 DEF RInv, Valued
    <3>2. /\ desired[t] <= 0 => desired[t] <= proposed[t] /\ proposed[t] <= 0
          /\ desired[t] > 0 => 0 <= proposed[t] /\ proposed[t] <= desired[t]
      BY <1>1 DEF RInv, InRange, Planned
    <3> QED BY <3>1, <3>2 DEF Reduced, Sells
  <2>3. \A S \in SUBSET Ticker : IsFiniteSet(S) /\ Total(proposed, S) \in Int
    <3> TAKE S \in SUBSET Ticker
    <3>1. IsFiniteSet(S)
      BY Parameters, FS_Subset
    <3>2. \A t \in S : proposed[t] \in Int
      BY <2>1
    <3> QED BY <3>1, <3>2, TotalIsInt
  <2>4. \A S \in SUBSET Ticker : \A A \in SUBSET S :
          Total(proposed, S) = Total(proposed, A) + Total(proposed, S \ A)
    <3> TAKE S \in SUBSET Ticker
    <3> TAKE A \in SUBSET S
    <3>1. IsFiniteSet(S) /\ \A t \in S : proposed[t] \in Int
      BY <2>1, <2>3
    <3> QED BY <3>1, TotalSplit
  <2>5. Total(proposed, Reduced) = Total(proposed, Sells)
    <3>1. Total(proposed, Sells) = Total(proposed, Reduced) + Total(proposed, Sells \ Reduced)
      BY <2>2, <2>4
    <3>2. IsFiniteSet(Sells \ Reduced)
      BY <2>2, <2>3
    <3>3. Total(proposed, Sells \ Reduced) = 0
      BY <2>2, <3>2, TotalOfZeros
    <3>4. Reduced \in SUBSET Ticker
      BY <2>2
    <3>5. Total(proposed, Reduced) \in Int
      BY <2>3, <3>4
    <3> QED BY <3>1, <3>3, <3>5
  <2>6. Total(proposed, Bought) = Total(proposed, Ticker) - Total(proposed, Reduced)
    <3> DEFINE kept == (Ticker \ Reduced) \ Bought
    <3>1. /\ Reduced \in SUBSET Ticker /\ Bought \in SUBSET (Ticker \ Reduced)
          /\ Ticker \in SUBSET Ticker /\ Ticker \ Reduced \in SUBSET Ticker /\ kept \in SUBSET Ticker
          /\ Bought \in SUBSET Ticker
      BY <2>1 DEF Reduced, Bought
    <3>2. Total(proposed, Ticker) = Total(proposed, Reduced) + Total(proposed, Ticker \ Reduced)
      BY <2>4, <3>1
    <3>3. Total(proposed, Ticker \ Reduced) = Total(proposed, Bought) + Total(proposed, kept)
      BY <2>4, <3>1
    <3>4. Total(proposed, kept) = 0
      <4>1. \A t \in kept : proposed[t] = 0
        BY <2>1 DEF Reduced, Bought
      <4>2. IsFiniteSet(kept)
        BY <2>3, <3>1
      <4> HIDE DEF kept
      <4> QED BY <4>1, <4>2, TotalOfZeros
    <3> HIDE DEF kept
    <3>5. Total(proposed, Reduced) \in Int /\ Total(proposed, Bought) \in Int
      BY <2>3, <3>1
    <3> QED BY <3>2, <3>3, <3>4, <3>5
  <2>7. Total(proposed, Ticker \ plan) >= -(Cardinality(dust) * (MinTrade - 1))
    <3>1. /\ Ticker \ plan \in SUBSET Ticker /\ dust \in SUBSET (Ticker \ plan) /\ dust \in SUBSET Ticker
          /\ rest \in SUBSET Ticker
      BY DEF Reduced
    <3>2. Total(proposed, Ticker \ plan) = Total(proposed, dust) + Total(proposed, rest)
      BY <2>4, <3>1
    <3>3. Total(proposed, dust) >= -(Cardinality(dust) * (MinTrade - 1))
      <4>1. IsFiniteSet(dust) /\ MinTrade - 1 \in Int
        BY <2>3, <3>1, Parameters
      <4>2. \A t \in dust : proposed[t] \in Int /\ proposed[t] >= -(MinTrade - 1)
        BY <2>1, Parameters DEF Reduced, Abs
      <4> HIDE DEF dust
      <4> QED BY <4>1, <4>2, TotalFloor
    <3>4. Total(proposed, rest) >= 0
      <4>1. IsFiniteSet(rest)
        BY <2>3, <3>1
      <4>2. \A t \in rest : proposed[t] \in Int /\ proposed[t] >= 0
        BY <2>1 DEF Reduced
      <4> HIDE DEF rest
      <4> QED BY <4>1, <4>2, TotalNotNegative
    <3> HIDE DEF dust, rest
    <3>5. Total(proposed, dust) \in Int /\ Total(proposed, rest) \in Int /\ Cardinality(dust) \in Nat
      BY <2>3, <3>1, FS_CardinalityType
    <3>6. Cardinality(dust) * (MinTrade - 1) \in Int
      BY <3>5, Parameters
    <3> QED BY <3>2, <3>3, <3>4, <3>5, <3>6
  <2>8. Total(proposed, Ticker) = Total(proposed, plan) + Total(proposed, Ticker \ plan)
    BY <2>1, <2>4
  <2>9. /\ Total(proposed, plan) \in Int /\ Total(proposed, Ticker \ plan) \in Int
        /\ Total(proposed, Reduced) \in Int /\ Cardinality(dust) * (MinTrade - 1) \in Int
    <3>1. plan \in SUBSET Ticker /\ Ticker \ plan \in SUBSET Ticker /\ Reduced \in SUBSET Ticker
          /\ dust \in SUBSET Ticker
      BY <2>1 DEF Reduced
    <3>2. Cardinality(dust) \in Nat
      BY <2>3, <3>1, FS_CardinalityType
    <3> QED BY <2>3, <3>1, <3>2, Parameters
  <2>10. -Total(proposed, Reduced) <= Budget
    BY <2>1, <2>5
  <2>11. Total(proposed, Bought) <= -Total(proposed, Reduced)
    BY <2>1, <2>6, <2>9
  <2>12. Total(proposed, plan) <= Cardinality(dust) * (MinTrade - 1)
    BY <2>1, <2>7, <2>8, <2>9
  <2> QED BY <2>10, <2>11, <2>12 DEF PlanFitsBudget
<1>2. RInv => PlanFitsBudget
  BY <1>1 DEF PlanFitsBudget
<1> QED BY <1>2, PlanIsStaged, PTL

\* A reduction ends at the holding's risk limit at the lowest, and has a gate that
\* fired; a purchase ends at the target at the highest.
THEOREM LimitsHold == RebalanceSpec => []LimitsAreKept
<1>1. ASSUME RInv, NEW t \in Ticker, phase \in Planned
      PROVE  /\ t \in Reduced => held[t] + proposed[t] >= RiskLimit(t) /\ held[t] + proposed[t] >= 0
                                 /\ RiskLimit(t) < held[t]
             /\ t \in Bought => held[t] + proposed[t] <= target[t]
  <2>1. /\ held[t] \in Int /\ desired[t] \in Int /\ proposed[t] \in Int /\ target[t] \in Int
    BY <1>1, Parameters DEF RInv, Valued
  <2>2. /\ desired[t] = DesiredDelta(t)
        /\ desired[t] <= 0 => desired[t] <= proposed[t] /\ proposed[t] <= 0
        /\ desired[t] > 0 => 0 <= proposed[t] /\ proposed[t] <= desired[t]
    BY <1>1 DEF RInv, InRange
  <2>3. /\ desired[t] < 0 => /\ held[t] > 0 /\ RiskLimit(t) \in Nat /\ RiskLimit(t) < held[t]
                             /\ held[t] + desired[t] = RiskLimit(t)
        /\ desired[t] > 0 => held[t] + desired[t] = target[t]
    BY <1>1, <2>2, DesiredWithinLimits DEF RInv, Valued
  <2>4. ASSUME proposed[t] < 0
        PROVE  held[t] + proposed[t] >= RiskLimit(t) /\ held[t] + proposed[t] >= 0 /\ RiskLimit(t) < held[t]
    BY <2>1, <2>2, <2>3, <2>4
  <2>5. ASSUME proposed[t] > 0
        PROVE  held[t] + proposed[t] <= target[t]
    BY <2>1, <2>2, <2>3, <2>5
  <2> QED BY <2>4, <2>5 DEF Reduced, Bought
<1>2. RInv => LimitsAreKept
  BY <1>1 DEF LimitsAreKept, Planned
<1> QED BY <1>2, PlanIsStaged, PTL

\* The target is within the name limit, so a purchase never makes the concentration
\* gate fire in the next plan.
THEOREM ReversalsHaveReasons == RebalanceSpec => []ReversalNeedsAReason
<1>1. ASSUME RInv, LimitsAreKept, NEW t \in bought, t \in Reduced, t \notin weak
      PROVE  SectorOverage(t) > 0
  <2>1. t \in Ticker /\ held[t] <= NameLimit /\ held[t] \in Int /\ proposed[t] < 0
    BY <1>1 DEF RInv, PlanKnown, Valued, Reduced
  <2>2. phase \in Planned
    BY <1>1, <2>1 DEF RInv, InRange, Valued, Planned
  <2>3. RiskLimit(t) < held[t] /\ held[t] + proposed[t] >= 0 /\ proposed[t] \in Int
    BY <1>1, <2>1, <2>2 DEF LimitsAreKept, Planned, RInv, Valued
  <2>4. held[t] > 0
    BY <2>1, <2>3
  <2>5. SectorOverage(t) \in Int
    BY <1>1, <2>1, <2>4, RiskLimitIsNat DEF RInv, Valued
  <2>6. SectorOverage(t) <= 0 => RiskLimit(t) = held[t]
    BY <1>1, <2>1, Parameters DEF RiskLimit
  <2> QED BY <2>1, <2>3, <2>5, <2>6
<1>2. RInv /\ LimitsAreKept => ReversalNeedsAReason
  BY <1>1 DEF ReversalNeedsAReason
<1> QED BY <1>2, PlanIsStaged, LimitsHold, PTL
=============================================================================
