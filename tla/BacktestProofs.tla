--------------------------- MODULE BacktestProofs ---------------------------
(***************************************************************************)
(* Proofs about the backtest and the tables it reads.                      *)
(*                                                                         *)
(* WalkForward, for any calendar, window, history and number of imports:   *)
(* the months are walked in order and trained on exactly their past, all   *)
(* of them see one version of the frozen tables, each uses the parameters  *)
(* chosen in its own year, and the holding periods that are evaluated tile *)
(* the time line.                                                          *)
(*                                                                         *)
(* PointInTime, for any dates, periods, period types and number of         *)
(* imports: the table's rows stay well formed and keyed, the past is       *)
(* closed for fundamentals, and a later signal never falls back to an      *)
(* older period.                                                           *)
(***************************************************************************)
EXTENDS WalkForward, PointInTime, FiniteSetTheorems, WellFoundedInduction, TLAPS

-----------------------------------------------------------------------------
(* WalkForward: months in order, on frozen inputs.                         *)

\* Until the loop nothing has been predicted, and only labelled days ever are.
LoopInv ==
    /\ phase \in Phases
    /\ phase \in {"certify", "preload", "load"} => frames = {}
    /\ sessions \subseteq Day /\ DOMAIN forward \subseteq Day
    /\ Done \subseteq DOMAIN forward

\* What is done is a prefix of the labelled days: this is what makes the
\* history of the next month exactly the months before it.
PrefixInv ==
    \A d \in Done, s \in DOMAIN forward : s <= d => s \in Done

\* Every frame saw the frozen tables as they are frozen now.
SawInv == \A f \in frames, t \in FrozenTable : f.saw[t] = frozen[t]

\* A year's entry is a month of that year that is done and had its training.
Past(s) == {d \in DOMAIN forward : d < s}
YearsInv ==
    /\ DOMAIN selections = {Year(d) : d \in Day}
    /\ \A y \in DOMAIN selections : selections[y] # NoDay =>
         /\ selections[y] \in Done /\ Year(selections[y]) = y
         /\ Cardinality(Past(selections[y])) >= MinTraining
    /\ SelectionOfTheYear

WInv == LoopInv /\ PrefixInv /\ WalkForwardOrder /\ SawInv /\ YearsInv

LEMMA InitWInv == WalkForwardInit => WInv
<1> SUFFICES ASSUME WalkForwardInit PROVE WInv
  OBVIOUS
<1>1. DOMAIN forward = {}
  <2>1. forward = << >>
    BY DEF WalkForwardInit
  <2>2. Len(<< >>) = 0 /\ DOMAIN << >> = 1 .. 0
    OBVIOUS
  <2> QED BY <2>1, <2>2
<1>2. LoopInv /\ PrefixInv /\ SawInv
  BY <1>1 DEF WalkForwardInit, LoopInv, PrefixInv, SawInv, Phases, Done
<1>3. WalkForwardOrder
  BY DEF WalkForwardInit, WalkForwardOrder
<1>4. YearsInv
  BY DEF WalkForwardInit, YearsInv, SelectionOfTheYear
<1> QED BY <1>2, <1>3, <1>4 DEF WInv

-----------------------------------------------------------------------------
(* Steps that neither predict nor load.                                    *)

\* The part of the state the invariant speaks of, apart from the phase.
Walked == <<sessions, forward, frozen, frames, selections>>

LEMMA QuietStep ==
    ASSUME WInv, UNCHANGED Walked, phase' \in Phases,
           phase' \in {"certify", "preload", "load"} => phase \in {"certify", "preload", "load"},
           reason' # "leak"
    PROVE  WInv'
<1>1. LoopInv'
  BY DEF WInv, LoopInv, Walked, Done
<1>2. PrefixInv' /\ SawInv'
  BY DEF WInv, PrefixInv, SawInv, Walked, Done
<1>3. WalkForwardOrder'
  BY DEF WInv, WalkForwardOrder, Walked
<1>4. YearsInv'
  BY DEF WInv, YearsInv, SelectionOfTheYear, Walked, Done, Past
<1> QED BY <1>1, <1>2, <1>3, <1>4 DEF WInv

\* A step before the first prediction may read tables and set the labels.
LEMMA FirstSteps ==
    ASSUME WInv, frames = {}, frames' = {}, phase' \in Phases,
           UNCHANGED <<sessions, selections>>,
           DOMAIN forward' \subseteq Day, reason' # "leak"
    PROVE  WInv'
<1>1. \A y \in DOMAIN selections : selections[y] = NoDay
  BY DEF WInv, YearsInv, Done
<1>2. LoopInv' /\ PrefixInv' /\ SawInv'
  BY DEF WInv, LoopInv, PrefixInv, SawInv, Done
<1>3. WalkForwardOrder'
  BY DEF WalkForwardOrder
<1>4. YearsInv'
  BY <1>1 DEF WInv, YearsInv, SelectionOfTheYear
<1> QED BY <1>2, <1>3, <1>4 DEF WInv

-----------------------------------------------------------------------------
(* One month is predicted.                                                 *)

LEMMA PastIsFinite ==
    ASSUME WInv, NEW s
    PROVE  IsFiniteSet(Past(s))
<1>1. Past(s) \subseteq 0 .. Horizon
  BY DEF Past, WInv, LoopInv, Day
<1>2. IsFiniteSet(0 .. Horizon)
  BY CalendarAssumption, FS_Interval
<1> QED BY <1>1, <1>2, FS_Subset

\* The history of the first remaining month is exactly its past.
LEMMA HistoryIsThePast ==
    ASSUME WInv, NEW s \in Remaining, \A d \in Remaining : s <= d
    PROVE  /\ s \in DOMAIN forward /\ s \in Day /\ s \notin Done
           /\ Training(s) = Past(s)
           /\ ~PredictRefuses(s)
<1>1. s \in DOMAIN forward /\ s \in Day /\ s \notin Done
  BY DEF Remaining, WInv, LoopInv
<1>2. DOMAIN forward \subseteq Int /\ s \in Int
  BY <1>1, CalendarAssumption DEF WInv, LoopInv, Day
<1>3. ASSUME NEW d \in Done PROVE d \in DOMAIN forward /\ d < s
  <2>1. d \in DOMAIN forward
    BY <1>3 DEF WInv, LoopInv
  <2>2. ~(s <= d)
    BY <1>1, <1>3 DEF WInv, PrefixInv
  <2> QED BY <1>2, <2>1, <2>2
<1>4. ASSUME NEW d \in DOMAIN forward, d < s PROVE d \in Done
  <2>1. ~(s <= d)
    BY <1>2, <1>4
  <2> QED BY <2>1 DEF Remaining
<1>5. Done = Past(s)
  BY <1>3, <1>4 DEF Past
<1>6. \A h \in Done : ~(h >= s)
  BY <1>2, <1>3
<1> QED BY <1>1, <1>5, <1>6 DEF Training, PredictRefuses

LEMMA PredictKeeps ==
    ASSUME WInv, PredictMonth
    PROVE  WInv'
<1>1. PICK s \in Remaining :
        /\ \A d \in Remaining : s <= d
        /\ ~PredictRefuses(s) =>
              /\ frames' = frames \cup {[signal |-> s, trained |-> Training(s),
                                         chosen |-> Chosen(s), saw |-> Seen]}
              /\ selections' = IF Chosen(s) = NoDay THEN selections
                               ELSE [selections EXCEPT ![SelectionKey(s)] = Chosen(s)]
              /\ UNCHANGED <<phase, reason>>
  BY DEF PredictMonth
<1> DEFINE c == Chosen(s)
           frame == [signal |-> s, trained |-> Training(s), chosen |-> c, saw |-> Seen]
<1>2. /\ s \in DOMAIN forward /\ s \in Day /\ s \notin Done
      /\ Training(s) = Past(s) /\ ~PredictRefuses(s)
  BY <1>1, HistoryIsThePast
<1>3. /\ frames' = frames \cup {frame}
      /\ selections' = IF c = NoDay THEN selections ELSE [selections EXCEPT ![Year(s)] = c]
      /\ UNCHANGED <<phase, reason, sessions, forward, frozen>>
  BY <1>1, <1>2 DEF PredictMonth, SelectionKey
<1>4. Done' = Done \cup {s}
  <2>1. frame.signal = s
    OBVIOUS
  <2> HIDE DEF frame
  <2> QED BY <1>3, <2>1 DEF Done
<1>5. phase = "loop"
  BY DEF PredictMonth
<1>6. DOMAIN forward \subseteq Int /\ s \in Int
  BY <1>2, CalendarAssumption DEF WInv, LoopInv, Day
<1>7. LoopInv'
  BY <1>2, <1>3, <1>4, <1>5 DEF WInv, LoopInv
<1>8. PrefixInv'
  <2> SUFFICES ASSUME NEW d \in Done \cup {s}, NEW e \in DOMAIN forward, e <= d
               PROVE  e \in Done \cup {s}
    BY <1>3, <1>4 DEF PrefixInv
  <2>1. CASE d \in Done
    BY <2>1 DEF WInv, PrefixInv
  <2>2. CASE d = s
    <3>1. ASSUME e \in Remaining PROVE e = s
      BY <1>1, <1>6, <2>2, <3>1
    <3> QED BY <3>1 DEF Remaining
  <2> QED BY <2>1, <2>2
<1>9. WalkForwardOrder'
  <2>1. \A f \in frames : f.trained = {d \in DOMAIN forward : d < f.signal}
    BY DEF WInv, WalkForwardOrder
  <2>2. frame.trained = {d \in DOMAIN forward : d < frame.signal}
    BY <1>2 DEF Past
  <2>3. reason' # "leak"
    BY <1>3 DEF WInv, WalkForwardOrder
  <2> HIDE DEF frame
  <2> QED BY <1>3, <2>1, <2>2, <2>3 DEF WalkForwardOrder
<1>10. SawInv'
  <2>1. \A t \in FrozenTable : frame.saw[t] = frozen[t]
    BY DEF Seen, Table
  <2> HIDE DEF frame
  <2> QED BY <1>3, <2>1 DEF WInv, SawInv
<1>11. YearsInv'
  <2>1. Year(s) \in DOMAIN selections
    BY <1>2 DEF WInv, YearsInv
  <2>2. c # NoDay =>
          /\ c \in Done \cup {s} /\ Year(c) = Year(s)
          /\ Cardinality(Past(c)) >= MinTraining /\ c <= s
    <3> SUFFICES ASSUME c # NoDay
                 PROVE  /\ c \in Done \cup {s} /\ Year(c) = Year(s)
                        /\ Cardinality(Past(c)) >= MinTraining /\ c <= s
      OBVIOUS
    <3> DEFINE n == Cardinality(Past(s))
    <3>1. ~(n < MinTraining)
      BY <1>2 DEF Chosen
    <3>2. CASE selections[Year(s)] = NoDay
      <4>1. c = s
        BY <1>2, <3>1, <3>2 DEF Chosen, SelectionKey
      <4>2. n \in Nat
        BY PastIsFinite, FS_CardinalityType
      <4>3. n >= MinTraining
        BY <3>1, <4>2, CalendarAssumption
      <4> QED BY <1>6, <4>1, <4>3
    <3>3. CASE selections[Year(s)] # NoDay
      <4>1. c = selections[Year(s)]
        BY <1>2, <3>1, <3>3 DEF Chosen, SelectionKey
      <4>2. c \in Done /\ Year(c) = Year(s) /\ Cardinality(Past(c)) >= MinTraining
        BY <2>1, <3>3, <4>1 DEF WInv, YearsInv
      <4>3. c \in Past(s)
        BY <1>2, <4>2 DEF Training
      <4> QED BY <1>6, <4>2, <4>3 DEF Past
    <3> QED BY <3>2, <3>3
  <2>3. \A f \in frames' : f.chosen # NoDay =>
          /\ Year(f.chosen) = Year(f.signal) /\ f.chosen <= f.signal
          /\ Cardinality(Past(f.chosen)) >= MinTraining
    <3>1. frame.chosen = c /\ frame.signal = s
      OBVIOUS
    <3> HIDE DEF frame, c
    <3> QED BY <1>3, <2>2, <3>1 DEF WInv, YearsInv, SelectionOfTheYear, Past
  <2>4. SelectionOfTheYear'
    BY <1>3, <2>3 DEF SelectionOfTheYear, Past
  <2>5. DOMAIN selections' = {Year(d) : d \in Day}
    BY <1>3 DEF WInv, YearsInv
  <2>6. \A y \in DOMAIN selections' : selections'[y] # NoDay =>
          /\ selections'[y] \in Done' /\ Year(selections'[y]) = y
          /\ Cardinality(Past(selections'[y])) >= MinTraining
    <3> SUFFICES ASSUME NEW y \in DOMAIN selections, selections'[y] # NoDay
                 PROVE  /\ selections'[y] \in Done' /\ Year(selections'[y]) = y
                        /\ Cardinality(Past(selections'[y])) >= MinTraining
      BY <2>5 DEF WInv, YearsInv
    <3> HIDE DEF c
    <3>1. CASE selections'[y] = selections[y]
      BY <1>4, <3>1 DEF WInv, YearsInv
    <3>2. CASE c # NoDay /\ y = Year(s) /\ selections'[y] = c
      BY <1>4, <2>2, <3>2
    <3> QED BY <1>3, <3>1, <3>2
  <2> QED BY <1>3, <2>4, <2>5, <2>6 DEF YearsInv, Past
<1> QED BY <1>7, <1>8, <1>9, <1>10, <1>11 DEF WInv

-----------------------------------------------------------------------------
LEMMA StepWInv == WInv /\ [WalkForwardNext]_vars => WInv'
<1> SUFFICES ASSUME WInv, [WalkForwardNext]_vars PROVE WInv'
  OBVIOUS
<1> USE DEF Walked, Phases, Fail
<1>0. phase \in Phases /\ reason # "leak"
  BY DEF WInv, LoopInv, WalkForwardOrder
<1>1. CASE UNCHANGED vars
  BY <1>0, <1>1, QuietStep DEF vars
<1>2. ASSUME NEW t \in Table, Import(t) PROVE WInv'
  BY <1>0, <1>2, QuietStep DEF Import
<1>3. CASE Certify
  BY <1>0, <1>3, QuietStep DEF Certify
<1>4. ASSUME NEW i \in DOMAIN PreloadOrder, Preload(i) PROVE WInv'
  BY <1>0, <1>4, FirstSteps DEF Preload, WInv, LoopInv
<1>5. CASE LoadPrices
  <2>1. DOMAIN forward' \subseteq Day
    BY <1>5 DEF LoadPrices, Labelled, Signals, MonthEnds, Loaded, WInv, LoopInv
  <2> QED BY <1>0, <1>5, <2>1, FirstSteps DEF LoadPrices, WInv, LoopInv
<1>6. CASE SnapshotFails
  BY <1>0, <1>6, QuietStep DEF SnapshotFails
<1>7. CASE PredictMonth
  BY <1>7, PredictKeeps
<1>8. CASE Persist
  BY <1>0, <1>8, QuietStep DEF Persist
<1>9. CASE EvaluateMonth
  BY <1>0, <1>9, QuietStep DEF EvaluateMonth
<1>10. CASE Save
  BY <1>0, <1>10, QuietStep DEF Save
<1> QED
  BY <1>1, <1>2, <1>3, <1>4, <1>5, <1>6, <1>7, <1>8, <1>9, <1>10 DEF WalkForwardNext

THEOREM WalkInvariant == WalkForwardSpec => []WInv
BY InitWInv, StepWInv, PTL DEF WalkForwardSpec

\* No month is trained on itself or on a later one, and none before it is left
\* out: the refusal in ml.py is a second line of defence that never fires.
THEOREM MonthsAreTrainedInOrder == WalkForwardSpec => []WalkForwardOrder
<1>1. WInv => WalkForwardOrder
  BY DEF WInv
<1> QED BY <1>1, WalkInvariant, PTL

\* Every month of a run sees the same version of the four frozen tables,
\* whatever is imported meanwhile.
THEOREM InputsAreFrozen == WalkForwardSpec => []FrozenInputs
<1>1. WInv => FrozenInputs
  BY DEF WInv, SawInv, FrozenInputs
<1> QED BY <1>1, WalkInvariant, PTL

\* A month's parameters were chosen in its own year, on enough history, and
\* never after it.
THEOREM ParametersAreOfTheYear == WalkForwardSpec => []SelectionOfTheYear
<1>1. WInv => SelectionOfTheYear
  BY DEF WInv, YearsInv
<1> QED BY <1>1, WalkInvariant, PTL

-----------------------------------------------------------------------------
(* The holding periods.  A position is opened at the first session after   *)
(* its signal and closed at the first session after the next signal, which *)
(* is when the next position is opened.                                    *)

LEMMA LeastNatural ==
    ASSUME NEW T, T \subseteq Nat, T # {}
    PROVE  \E x \in T : \A y \in T : x <= y
<1> DEFINE R == OpToRel(<, Nat)
<1>1. IsWellFoundedOn(R, Nat)
  BY NatLessThanWellFounded
<1>2. \A y, x \in Nat : y < x => <<y, x>> \in R
  BY DEF OpToRel
<1> HIDE DEF R
<1>3. PICK x \in T : \A y \in T : ~(<<y, x>> \in R)
  BY <1>1, WFMin, Zenon
<1>4. ASSUME NEW y \in T PROVE x <= y
  <2>1. x \in Nat /\ y \in Nat
    OBVIOUS
  <2>2. ~(y < x)
    BY <1>2, <1>3, <2>1, Zenon
  <2> QED BY <2>1, <2>2
<1> QED BY <1>4

LEMMA MinOfDays ==
    ASSUME NEW T, T \subseteq Nat, T # {}
    PROVE  Min(T) \in T /\ Min(T) \in Nat /\ \A y \in T : Min(T) <= y
BY LeastNatural DEF Min

\* The first day of a set after a day, and what it can only do: move on.
LEMMA FirstAfter ==
    ASSUME NEW S, S \subseteq Nat, NEW d \in Nat, After(S, d) # {}
    PROVE  /\ Min(After(S, d)) \in S /\ Min(After(S, d)) \in Nat /\ d < Min(After(S, d))
           /\ \A e \in S : d < e => Min(After(S, d)) <= e
<1>1. After(S, d) \subseteq S /\ After(S, d) \subseteq Nat
  BY DEF After
<1>2. Min(After(S, d)) \in After(S, d) /\ \A y \in After(S, d) : Min(After(S, d)) <= y
  BY <1>1, MinOfDays
<1> QED BY <1>1, <1>2 DEF After

LEMMA SignalsAreSessions ==
    ASSUME sessions \subseteq Day
    PROVE  /\ Loaded \subseteq Nat /\ Signals \subseteq Loaded /\ Signals \subseteq Nat
           /\ Labelled \subseteq Signals
<1>1. Day \subseteq Nat
  BY CalendarAssumption DEF Day
<1>2. Loaded \subseteq sessions
  BY DEF Loaded
<1>3. Signals \subseteq Loaded
  BY Zenon DEF Signals, MonthEnds
<1>4. Labelled \subseteq Signals
  BY Zenon DEF Labelled
<1> QED BY <1>1, <1>2, <1>3, <1>4

NextSignal(s) == Min(After(Signals, s))

\* A period is opened before it is closed, at or before the next signal.
LEMMA PeriodOpensFirst ==
    ASSUME sessions \subseteq Day, NEW s \in Labelled
    PROVE  /\ EntryDay(s) \in Nat /\ ExitDay(s) \in Nat
           /\ NextSignal(s) \in Signals /\ s < NextSignal(s)
           /\ \A t \in Signals : s < t => NextSignal(s) <= t
           /\ EntryDay(s) <= NextSignal(s) /\ NextSignal(s) < ExitDay(s)
           /\ \A e \in Loaded : NextSignal(s) < e => ExitDay(s) <= e
<1>1. /\ s \in Nat /\ Signals \subseteq Nat /\ Signals \subseteq Loaded /\ Loaded \subseteq Nat
      /\ After(Signals, s) # {} /\ After(Loaded, NextSignal(s)) # {}
  BY SignalsAreSessions DEF Labelled, NextSignal
<1>2. /\ NextSignal(s) \in Signals /\ NextSignal(s) \in Nat /\ s < NextSignal(s)
      /\ \A t \in Signals : s < t => NextSignal(s) <= t
  BY <1>1, FirstAfter DEF NextSignal
<1>3. After(Loaded, s) # {}
  BY <1>1, <1>2 DEF After
<1>4. EntryDay(s) \in Nat /\ EntryDay(s) <= NextSignal(s)
  BY <1>1, <1>2, <1>3, FirstAfter DEF EntryDay
<1>5. ExitDay(s) = Min(After(Loaded, NextSignal(s)))
  BY DEF ExitDay, NextSignal
<1>6. /\ ExitDay(s) \in Nat /\ NextSignal(s) < ExitDay(s)
      /\ \A e \in Loaded : NextSignal(s) < e => ExitDay(s) <= e
  <2> DEFINE n == NextSignal(s)
  <2>1. n \in Nat /\ Loaded \subseteq Nat /\ After(Loaded, n) # {}
    BY <1>1, <1>2
  <2>2. /\ Min(After(Loaded, n)) \in Nat /\ n < Min(After(Loaded, n))
        /\ \A e \in Loaded : n < e => Min(After(Loaded, n)) <= e
    <3> HIDE DEF n
    <3> QED BY <2>1, FirstAfter
  <2> QED BY <1>5, <2>2, Zenon
<1> QED BY <1>2, <1>4, <1>6

\* Of two labelled signals the earlier one's position is closed when the later
\* one's is opened, or before.
LEMMA PeriodsAreDisjoint ==
    ASSUME sessions \subseteq Day, NEW s \in Labelled, NEW t \in Labelled, s < t
    PROVE  ExitDay(s) <= EntryDay(t)
<1>1. t \in Nat /\ t \in Signals /\ Loaded \subseteq Nat /\ s \in Nat
  BY SignalsAreSessions
<1>2. NextSignal(s) <= t /\ NextSignal(s) \in Nat /\ NextSignal(t) \in Loaded /\ t < NextSignal(t)
  BY <1>1, PeriodOpensFirst, SignalsAreSessions
<1>3. After(Loaded, t) # {}
  BY <1>2 DEF After
<1>4. EntryDay(t) \in Loaded /\ t < EntryDay(t)
  BY <1>1, <1>3, FirstAfter DEF EntryDay
<1>5. NextSignal(s) < EntryDay(t)
  <2>1. EntryDay(t) \in Nat
    BY <1>1, <1>4
  <2> QED BY <1>1, <1>2, <1>4, <2>1
<1> QED BY <1>4, <1>5, PeriodOpensFirst

\* A labelled signal before another one is followed by a labelled signal, whose
\* position is opened as the first one's is closed.
LEMMA PeriodsMeet ==
    ASSUME sessions \subseteq Day, NEW s \in Labelled, NEW t \in Labelled, s < t
    PROVE  /\ NextSignal(s) \in Labelled /\ NextSignal(s) <= t /\ s < NextSignal(s)
           /\ EntryDay(NextSignal(s)) = ExitDay(s)
           /\ ExitDay(s) <= EntryDay(t)
<1> DEFINE n == NextSignal(s)
<1>1. /\ t \in Nat /\ t \in Signals /\ Signals \subseteq Nat /\ Signals \subseteq Loaded
      /\ Loaded \subseteq Nat
  BY SignalsAreSessions
<1>2. n \in Signals /\ n \in Nat /\ n <= t /\ s < n
  BY <1>1, PeriodOpensFirst
<1>3. CASE n = t
  BY <1>2, <1>3, PeriodsAreDisjoint DEF EntryDay, ExitDay, NextSignal
<1>4. CASE n < t
  <2>1. After(Signals, n) # {}
    BY <1>1, <1>4 DEF After
  <2>2. NextSignal(n) \in Nat /\ NextSignal(n) <= t
    BY <1>1, <1>2, <1>4, <2>1, FirstAfter DEF NextSignal
  <2>3. ExitDay(t) \in Loaded /\ t < ExitDay(t)
    <3>1. NextSignal(t) \in Nat /\ t < NextSignal(t) /\ After(Loaded, NextSignal(t)) # {}
      BY <1>1, PeriodOpensFirst DEF Labelled, NextSignal
    <3>2. Min(After(Loaded, NextSignal(t))) \in Loaded /\ NextSignal(t) < Min(After(Loaded, NextSignal(t)))
      BY <1>1, <3>1, FirstAfter
    <3>3. ExitDay(t) = Min(After(Loaded, NextSignal(t)))
      BY DEF ExitDay, NextSignal
    <3>4. ExitDay(t) \in Loaded /\ NextSignal(t) < ExitDay(t)
      BY <3>2, <3>3, Zenon
    <3>5. ExitDay(t) \in Nat
      BY <1>1, <3>4
    <3> QED BY <1>1, <3>1, <3>4, <3>5
  <2>4. After(Loaded, NextSignal(n)) # {}
    BY <1>1, <2>2, <2>3 DEF After
  <2>5. n \in Labelled
    BY <1>2, <2>1, <2>4 DEF Labelled, NextSignal
  <2> QED BY <1>2, <2>5, PeriodsAreDisjoint DEF EntryDay, ExitDay, NextSignal
<1> QED BY <1>1, <1>2, <1>3, <1>4

-----------------------------------------------------------------------------
(* What the run keeps of the calendar.  The labels are those of the one    *)
(* load of prices, every labelled day is walked before the evaluation, and *)
(* each record is the period of a labelled day in the window, once.        *)

Labels == [s \in Labelled |-> [entry |-> EntryDay(s), exit |-> ExitDay(s)]]

IsRecordOf(r, s) ==
    /\ r.signal = s /\ s \in Done /\ InWindow(s)
    /\ r.entry = forward[s].entry /\ r.exit = forward[s].exit

LabelInv == phase \in {"loop", "evaluate", "saved"} => forward = Labels
WalkedInv == phase \in {"evaluate", "saved"} => Done = DOMAIN forward
RecordInv ==
    /\ phase \notin {"evaluate", "saved", "failed"} => records = {}
    /\ phase \in {"evaluate", "saved"} =>
         /\ \A r \in records : IsRecordOf(r, r.signal)
         /\ \A q, r \in records : q.signal = r.signal => q = r
    /\ phase = "saved" => Unevaluated = {}

TileInv == LabelInv /\ WalkedInv /\ RecordInv

LEMMA CalendarStays ==
    ASSUME sessions' = sessions PROVE Labels' = Labels
<1>1. Loaded' = Loaded
  BY DEF Loaded
<1>2. Signals' = Signals
  BY <1>1 DEF Signals, MonthEnds
<1> QED BY <1>1, <1>2 DEF Labels, Labelled, EntryDay, ExitDay

\* What does not touch the calendar, the walk or the records keeps the
\* invariant as long as the phase only moves before the loop.
LEMMA QuietTile ==
    ASSUME TileInv, UNCHANGED <<sessions, forward, frames, records>>,
           \/ phase' = phase
           \/ phase' = "failed"
           \/ phase \in {"certify", "preload"} /\ phase' \in {"preload", "load"}
    PROVE  TileInv'
<1>1. Labels' = Labels
  BY CalendarStays
<1>2. Done' = Done /\ Unevaluated' = Unevaluated /\ \A s : InWindow(s)' <=> InWindow(s)
  BY DEF Done, Unevaluated, Evaluated, InWindow
<1>3. \A r, s : IsRecordOf(r, s)' <=> IsRecordOf(r, s)
  BY <1>2 DEF IsRecordOf
<1> QED BY <1>1, <1>2, <1>3 DEF TileInv, LabelInv, WalkedInv, RecordInv

LEMMA InitTile == WalkForwardInit => TileInv
BY DEF WalkForwardInit, TileInv, LabelInv, WalkedInv, RecordInv

LEMMA EvaluateTile ==
    ASSUME TileInv, WInv, EvaluateMonth
    PROVE  TileInv'
<1> DEFINE s == Min(Unevaluated)
<1>1. Unevaluated \subseteq Nat /\ Unevaluated # {}
  BY CalendarAssumption DEF WInv, LoopInv, EvaluateMonth, Unevaluated, Day
<1>2. s \in Done /\ InWindow(s) /\ s \notin Evaluated
  BY <1>1, MinOfDays DEF Unevaluated
<1>3. PICK r : /\ records' = records \cup {r} /\ r.signal = s
               /\ r.entry = forward[s].entry /\ r.exit = forward[s].exit
  <2>1. PICK covered \in BOOLEAN : records' = records \cup
          {[signal |-> s, entry |-> forward[s].entry, exit |-> forward[s].exit,
            book |-> book', paid |-> covered]}
    BY Zenon DEF EvaluateMonth
  <2> DEFINE new == [signal |-> s, entry |-> forward[s].entry, exit |-> forward[s].exit,
                     book |-> book', paid |-> covered]
  <2>2. /\ records' = records \cup {new} /\ new.signal = s
        /\ new.entry = forward[s].entry /\ new.exit = forward[s].exit
    BY <2>1
  <2> HIDE DEF new, s
  <2> QED BY <2>2
<1>4. /\ phase = "evaluate" /\ phase' = phase
      /\ UNCHANGED <<sessions, forward, frames>>
  BY DEF EvaluateMonth
<1>5. Labels' = Labels /\ Done' = Done /\ \A d : InWindow(d)' <=> InWindow(d)
  BY <1>4, CalendarStays DEF Done, InWindow
<1>6. \A q, d : IsRecordOf(q, d)' <=> IsRecordOf(q, d)
  BY <1>4, <1>5 DEF IsRecordOf
<1>7. IsRecordOf(r, r.signal)
  BY <1>2, <1>3 DEF IsRecordOf
<1>8. \A q \in records : q.signal # r.signal
  BY <1>2, <1>3 DEF Evaluated
<1>9. RecordInv'
  BY <1>3, <1>4, <1>6, <1>7, <1>8 DEF TileInv, RecordInv
<1> QED BY <1>4, <1>5, <1>9 DEF TileInv, LabelInv, WalkedInv

LEMMA StepTile == TileInv /\ WInv /\ [WalkForwardNext]_vars => TileInv'
<1> SUFFICES ASSUME TileInv, WInv, [WalkForwardNext]_vars PROVE TileInv'
  OBVIOUS
<1>0. CASE UNCHANGED vars
  BY <1>0, QuietTile DEF vars
<1>1. CASE \E t \in Table : Import(t)
  BY <1>1, QuietTile DEF Import
<1>2. CASE Certify
  BY <1>2, QuietTile DEF Certify, Fail
<1>3. CASE \E i \in DOMAIN PreloadOrder : Preload(i)
  BY <1>3, QuietTile DEF Preload
<1>4. CASE LoadPrices
  <2>1. forward' = Labels /\ sessions' = sessions /\ records' = records /\ phase = "load"
    BY <1>4 DEF LoadPrices, Labels
  <2>2. phase' \in {"loop", "failed"}
    BY <1>4 DEF LoadPrices, Fail
  <2>3. forward' = Labels' /\ records' = {}
    BY <2>1, CalendarStays DEF TileInv, RecordInv
  <2> QED BY <2>2, <2>3 DEF TileInv, LabelInv, WalkedInv, RecordInv
<1>5. CASE SnapshotFails
  BY <1>5, QuietTile DEF SnapshotFails, Fail
<1>6. CASE PredictMonth
  <2>1. /\ phase = "loop" /\ phase' \in {"loop", "failed"}
        /\ UNCHANGED <<sessions, forward, records>>
    BY <1>6 DEF PredictMonth, Fail
  <2> QED BY <2>1, CalendarStays DEF TileInv, LabelInv, WalkedInv, RecordInv
<1>7. CASE Persist
  <2>1. /\ phase = "loop" /\ phase' = "evaluate" /\ Remaining = {} /\ records = {}
        /\ UNCHANGED <<sessions, forward, frames, records>>
    BY <1>7 DEF Persist, TileInv, RecordInv
  <2>2. Done = DOMAIN forward /\ Done' = Done /\ Labels' = Labels
    BY <2>1, CalendarStays DEF WInv, LoopInv, Remaining, Done
  <2> QED BY <2>1, <2>2 DEF TileInv, LabelInv, WalkedInv, RecordInv
<1>8. CASE EvaluateMonth
  BY <1>8, EvaluateTile
<1>9. CASE Save
  <2>1. /\ phase = "evaluate" /\ Unevaluated = {} /\ phase' \in {"saved", "failed"}
        /\ UNCHANGED <<sessions, forward, frames, records>>
    BY <1>9 DEF Save, Fail
  <2>2. Labels' = Labels /\ Done' = Done /\ Unevaluated' = Unevaluated
    BY <2>1, CalendarStays DEF Done, Unevaluated, Evaluated, InWindow
  <2>3. \A q, d : IsRecordOf(q, d)' <=> IsRecordOf(q, d)
    BY <2>1, <2>2 DEF IsRecordOf, InWindow
  <2> QED BY <2>1, <2>2, <2>3 DEF TileInv, LabelInv, WalkedInv, RecordInv
<1> QED
  BY <1>0, <1>1, <1>2, <1>3, <1>4, <1>5, <1>6, <1>7, <1>8, <1>9 DEF WalkForwardNext

\* In a saved run a record is the period of a labelled day, and a labelled day
\* whose period opens in the window has a record.
LEMMA SavedRecords ==
    ASSUME TileInv, WInv, phase = "saved"
    PROVE  /\ \A r \in records :
                /\ r.signal \in Labelled /\ Start <= r.entry /\ r.entry <= End
                /\ r.entry = EntryDay(r.signal) /\ r.exit = ExitDay(r.signal)
           /\ \A s \in Labelled : Start <= EntryDay(s) /\ EntryDay(s) <= End =>
                \E r \in records : r.signal = s
<1>1. forward = Labels /\ DOMAIN forward = Labelled /\ Done = Labelled
  BY DEF TileInv, LabelInv, WalkedInv, Labels
<1>2. \A s \in Labelled : forward[s].entry = EntryDay(s) /\ forward[s].exit = ExitDay(s)
  BY <1>1 DEF Labels
<1>3. Unevaluated = {} /\ \A r \in records : IsRecordOf(r, r.signal)
  BY DEF TileInv, RecordInv
<1> QED BY <1>1, <1>2, <1>3 DEF IsRecordOf, InWindow, Unevaluated, Evaluated

LEMMA TilesMeet == TileInv /\ WInv => HoldingPeriodsTile
<1> SUFFICES ASSUME TileInv, WInv, phase = "saved", NEW r \in records
             PROVE  /\ Start <= r.entry /\ r.entry <= End /\ r.entry < r.exit
                    /\ \A q \in records : q = r \/ q.exit <= r.entry \/ r.exit <= q.entry
                    /\ r.signal = Max(Evaluated) \/ \E q \in records : q.entry = r.exit
  BY DEF HoldingPeriodsTile
<1>1. sessions \subseteq Day /\ Labelled \subseteq Nat /\ Signals \subseteq Nat
  BY SignalsAreSessions DEF WInv, LoopInv
<1>2. /\ r.signal \in Labelled /\ Start <= r.entry /\ r.entry <= End
      /\ r.entry = EntryDay(r.signal) /\ r.exit = ExitDay(r.signal)
  BY SavedRecords
<1>3. r.entry < r.exit
  <2>1. /\ EntryDay(r.signal) \in Nat /\ ExitDay(r.signal) \in Nat
        /\ EntryDay(r.signal) <= NextSignal(r.signal) /\ NextSignal(r.signal) < ExitDay(r.signal)
        /\ NextSignal(r.signal) \in Nat
    BY <1>1, <1>2, PeriodOpensFirst
  <2> QED BY <1>2, <2>1
<1>4. ASSUME NEW q \in records PROVE q = r \/ q.exit <= r.entry \/ r.exit <= q.entry
  <2>1. /\ q.signal \in Labelled /\ q.entry = EntryDay(q.signal) /\ q.exit = ExitDay(q.signal)
    BY SavedRecords
  <2>2. q.signal = r.signal => q = r
    BY DEF TileInv, RecordInv
  <2>3. q.signal < r.signal => q.exit <= r.entry
    BY <1>1, <1>2, <2>1, PeriodsAreDisjoint
  <2>4. r.signal < q.signal => r.exit <= q.entry
    BY <1>1, <1>2, <2>1, PeriodsAreDisjoint
  <2>5. q.signal \in Nat /\ r.signal \in Nat
    BY <1>1, <1>2, <2>1
  <2> QED BY <2>2, <2>3, <2>4, <2>5
<1>5. ASSUME r.signal # Max(Evaluated) PROVE \E q \in records : q.entry = r.exit
  <2>1. Evaluated \subseteq Nat /\ r.signal \in Evaluated /\ r.signal \in Nat
    BY <1>1, SavedRecords DEF Evaluated
  <2>2. PICK q \in records : r.signal < q.signal
    <3>1. SUFFICES ASSUME \A t \in Evaluated : r.signal >= t PROVE FALSE
      BY <2>1 DEF Evaluated
    <3>2. Max(Evaluated) \in Evaluated /\ Max(Evaluated) >= r.signal
      BY <2>1, <3>1 DEF Max
    <3>3. r.signal >= Max(Evaluated) /\ Max(Evaluated) \in Nat
      BY <2>1, <3>1, <3>2
    <3> QED BY <1>5, <2>1, <3>2, <3>3
  <2> DEFINE n == NextSignal(r.signal)
  <2>3. q.signal \in Labelled /\ q.entry = EntryDay(q.signal) /\ q.entry <= End
    BY SavedRecords
  <2>4. n \in Labelled /\ EntryDay(n) = r.exit /\ r.exit <= q.entry
    BY <1>1, <1>2, <2>2, <2>3, PeriodsMeet
  <2>5. EntryDay(n) \in Nat /\ r.entry \in Nat /\ q.entry \in Nat
    BY <1>1, <1>2, <2>3, <2>4, PeriodOpensFirst
  <2>6. Start <= EntryDay(n) /\ EntryDay(n) <= End
    BY <1>2, <1>3, <2>3, <2>4, <2>5, CalendarAssumption
  <2>7. PICK p \in records : p.signal = n
    BY <2>4, <2>6, SavedRecords
  <2> QED BY <2>4, <2>7, SavedRecords
<1> QED BY <1>2, <1>3, <1>4, <1>5

\* Each evaluated month is sold on the day the next one is bought, no day is
\* earned twice and none between them is lost, for every calendar, window and
\* order of imports.
THEOREM EvaluatedMonthsTile == WalkForwardSpec => []HoldingPeriodsTile
<1>1. WalkForwardInit => TileInv /\ WInv
  BY InitTile, InitWInv
<1>2. TileInv /\ WInv /\ [WalkForwardNext]_vars => (TileInv /\ WInv)'
  BY StepTile, StepWInv
<1>3. TileInv /\ WInv => HoldingPeriodsTile
  BY TilesMeet
<1> QED BY <1>1, <1>2, <1>3, PTL DEF WalkForwardSpec

-----------------------------------------------------------------------------
(* PointInTime: the snapshot tables.                                       *)

\* The file of a step: one or two new rows, stamped with the next import.
LEMMA FileIsFresh ==
    ASSUME NEW r \in Fresh, NEW q \in Fresh
    PROVE  /\ {r, q} \subseteq Row
           /\ \A f \in {r, q} : f.ingested = imports + 1
           /\ Accepted({r, q}) \subseteq {r, q}
BY DEF Fresh, Accepted

-----------------------------------------------------------------------------
(* Type correctness, which holds the primary key too.                      *)

LEMMA SameKeyIsSymmetric ==
    ASSUME NEW r, NEW q, SameKey(r, q)
    PROVE  SameKey(q, r)
BY DEF SameKey, FundamentalKey, EstimateKey

LEMMA InitTypeOK == PointInTimeInit => PointInTimeTypeOK
BY MaxFilesIsNat DEF PointInTimeInit, PointInTimeTypeOK

LEMMA StepTypeOK == PointInTimeTypeOK /\ [PointInTimeNext]_pitVars => PointInTimeTypeOK'
<1> SUFFICES ASSUME PointInTimeTypeOK, [PointInTimeNext]_pitVars
             PROVE  PointInTimeTypeOK'
  OBVIOUS
<1>1. CASE UNCHANGED pitVars
  BY <1>1 DEF pitVars, PointInTimeTypeOK, SameKey
<1>2. ASSUME NEW r \in Fresh, NEW q \in Fresh, ImportFile({r, q})
      PROVE  PointInTimeTypeOK'
  <2> DEFINE incoming == Accepted({r, q})
  <2>1. /\ incoming \subseteq Row
        /\ \A f \in incoming : f.effective <= f.asOf /\ f.ingested = imports + 1
    BY FileIsFresh DEF Accepted
  <2>2. rows' = incoming \cup {f \in rows : \A g \in incoming : ~SameKey(f, g)}
    BY <1>2 DEF ImportFile, Merged
  <2>3. imports \in Nat /\ imports < MaxFiles /\ imports' = imports + 1 /\ table' = table
    BY <1>2 DEF ImportFile, PointInTimeTypeOK
  <2>4. \A f, g \in incoming : SameKey(f, g) => f = g
    BY <1>2 DEF ImportFile, Accepted
  <2>5. imports' \in 0 .. MaxFiles
    BY <2>3, MaxFilesIsNat
  <2>6. rows' \subseteq Row
    BY <2>1, <2>2 DEF PointInTimeTypeOK
  <2>7. \A f \in rows' : f.effective <= f.asOf /\ f.ingested <= imports'
    <3> SUFFICES ASSUME NEW f \in rows'
                 PROVE  f.effective <= f.asOf /\ f.ingested <= imports'
      OBVIOUS
    <3>1. CASE f \in incoming
      <4>1. f.effective <= f.asOf /\ f.ingested = imports'
        BY <2>1, <2>3, <3>1
      <4> QED BY <2>3, <4>1
    <3>2. CASE f \in rows
      <4>1. f.ingested \in Int /\ f.ingested <= imports /\ f.effective <= f.asOf
        BY <3>2 DEF PointInTimeTypeOK, Row
      <4> QED BY <4>1, <2>3
    <3> QED BY <2>2, <3>1, <3>2
  <2>8. \A f, g \in rows' : SameKey(f, g) => f = g
    BY <2>2, <2>4, SameKeyIsSymmetric DEF PointInTimeTypeOK
  <2>9. \A f, g \in rows' : SameKey(f, g)' <=> SameKey(f, g)
    BY <2>3 DEF SameKey
  <2> QED
    BY <2>3, <2>5, <2>6, <2>7, <2>8, <2>9 DEF PointInTimeTypeOK
<1> QED BY <1>1, <1>2 DEF PointInTimeNext

\* The rows are well formed, keyed, and no newer than the last import.
THEOREM TableIsKeyed == PointInTimeSpec => []PointInTimeTypeOK
BY InitTypeOK, StepTypeOK, PTL DEF PointInTimeSpec

-----------------------------------------------------------------------------
(* The past is closed.  The accepted rows are new, so they are exactly     *)
(* rows' \ rows; what they replace has their key, which for fundamentals   *)
(* holds as_of_date, so neither side is visible to an earlier signal.      *)

LEMMA ImportLeavesThePast ==
    ASSUME PointInTimeTypeOK, PointInTimeNext, table = "fundamentals",
           NEW s \in Date, \A r \in rows' \ rows : r.asOf > s
    PROVE  Latest(s)' = Latest(s)
<1> PICK a \in Fresh, b \in Fresh : ImportFile({a, b})
  BY DEF PointInTimeNext
<1> DEFINE incoming == Accepted({a, b})
<1>1. rows' = incoming \cup {r \in rows : \A q \in incoming : ~SameKey(r, q)}
  BY DEF ImportFile, Merged
<1>2. \A q \in incoming : q \in Row /\ q.ingested = imports + 1
  BY FileIsFresh DEF Accepted
<1>3. \A q \in incoming : q \notin rows
  <2>1. \A q \in rows : q.ingested <= imports /\ imports \in Nat
    BY DEF PointInTimeTypeOK
  <2> QED BY <1>2, <2>1
<1>4. \A q \in incoming : q.asOf > s /\ ~(q.asOf <= s)
  <2> SUFFICES ASSUME NEW q \in incoming PROVE q.asOf > s /\ ~(q.asOf <= s)
    OBVIOUS
  <2>1. q.asOf > s
    BY <1>1, <1>3
  <2>2. q.asOf \in Int /\ s \in Int
    BY <1>2, DatesAreOrdered DEF Row
  <2> HIDE DEF incoming
  <2> QED BY <2>1, <2>2, SMT
<1>5. ASSUME NEW r \in rows, NEW q \in incoming, SameKey(r, q)
      PROVE  ~(r.asOf <= s)
  <2>1. r.asOf = q.asOf
    BY <1>5 DEF SameKey, FundamentalKey
  <2> QED BY <2>1, <1>4
<1>6. \A r : r \in Visible(s)' <=> r \in Visible(s)
  BY <1>1, <1>4, <1>5 DEF Visible
<1>7. Visible(s)' = Visible(s)
  BY <1>6
<1> QED BY <1>7 DEF Latest, Before

\* A snapshot exported after a signal never changes what fundamentals that
\* signal sees, for any history of imports.
THEOREM FundamentalsPastIsClosed == PointInTimeSpec => PastIsClosed
<1> DEFINE Step == table = "fundamentals" =>
             \A s \in Date : (\A r \in rows' \ rows : r.asOf > s) => Latest(s)' = Latest(s)
<1>1. PointInTimeTypeOK /\ [PointInTimeNext]_pitVars => [Step]_pitVars
  <2> SUFFICES ASSUME PointInTimeTypeOK, PointInTimeNext PROVE Step
    OBVIOUS
  <2> QED BY ImportLeavesThePast
<1>2. PointInTimeSpec => [][Step]_pitVars
  BY <1>1, TableIsKeyed, PTL DEF PointInTimeSpec
<1> QED BY <1>2 DEF PastIsClosed

-----------------------------------------------------------------------------
\* A later signal never uses an older fiscal period than an earlier one: what
\* the earlier one saw is still visible and would rank first.
THEOREM NewestPeriodAlwaysWins == PointInTimeSpec => []NewestPeriodWins
<1>1. PointInTimeTypeOK => NewestPeriodWins
  <2> SUFFICES ASSUME PointInTimeTypeOK, NEW s \in Date, NEW t \in Date, s <= t,
                      NEW r \in Latest(s), NEW q \in Latest(t)
               PROVE  r.period <= q.period
    BY DEF NewestPeriodWins
  <2>1. r \in rows /\ q \in rows /\ r.effective <= s /\ r.asOf <= s
    BY DEF Latest, Visible
  <2>2. r \in Row /\ q \in Row /\ s \in Int /\ t \in Int
    BY <2>1, DatesAreOrdered DEF PointInTimeTypeOK
  <2>3. r.effective \in Int /\ r.asOf \in Int /\ r.period \in Int /\ q.period \in Int
    BY <2>2, DatesAreOrdered DEF Row
  <2>4. r \in Visible(t)
    BY <2>1, <2>2, <2>3 DEF Visible
  <2>5. ~(r.period > q.period)
    BY <2>4 DEF Latest, Before
  <2> QED BY <2>3, <2>5
<1> QED BY <1>1, TableIsKeyed, PTL
=============================================================================
