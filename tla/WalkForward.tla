---------------------------- MODULE WalkForward ----------------------------
(***************************************************************************)
(* The monthly walk-forward backtest: BacktestEngine.run (backtest.py),    *)
(* the point-in-time factor engine it reads through (factors.py), the      *)
(* walk-forward model it trains (ml.py) and the certification that lets it *)
(* start (ingestion.py).                                                   *)
(*                                                                         *)
(* Days are numbers, months have MonthLength of them.  The days on which   *)
(* the market is open are any set: weekends, holidays and months without a *)
(* single loaded price are all calendars.  The API runs a backtest on a    *)
(* thread while imports keep arriving, so a table may get a new version    *)
(* between any two reads of the run.  Scores, weights and returns are left *)
(* out: a month is known by the days and the versions it was computed from.*)
(***************************************************************************)
EXTENDS Integers, Sequences, FiniteSets, FiniteSetsExt

CONSTANTS
    MonthLength,    \* days in a month
    MonthsPerYear,
    Horizon,        \* the last day prices may exist for
    Start, End,     \* the requested window, spec.start_date and spec.end_date
    TailDays,           \* days of prices loaded after End (40 in the code)
    HistoryMonths,  \* months of signals before Start (37 in the code)
    MinTraining,    \* months the model needs before it predicts (24)
    MaxImports      \* bound: imports that may land during the run

ASSUME CalendarAssumption ==
    /\ MonthLength \in Nat \ {0} /\ MonthsPerYear \in Nat \ {0}
    /\ Start \in Nat /\ End \in Nat /\ Start <= End
    /\ Horizon \in Nat /\ TailDays \in Nat /\ HistoryMonths \in Nat
    /\ MinTraining \in Nat \ {0} /\ MaxImports \in Nat

Day == 0 .. Horizon
NoDay == -1
Month(d) == d \div MonthLength
Year(d) == Month(d) \div MonthsPerYear

PreloadOrder == <<"instruments", "index_membership", "fundamentals", "estimates">>
FrozenTable == {"instruments", "index_membership", "fundamentals", "estimates"}
Table == FrozenTable \cup {"prices"}
Version == 0 .. MaxImports
Unread == -1

VARIABLES
    sessions,    \* the days with a price
    version,     \* how often each table has been imported into
    phase,       \* where the run is
    reason,      \* why it failed, "" if it did not
    forward,     \* the labels: signal -> days its position opens and closes
    frozen,      \* the version of each table FactorEngine.preload read
    frames,      \* month_frames and history: one frame per signal done
    selections,  \* WalkForwardModel._annual_selections: year -> signal
    book,        \* the signal whose weights are held (previous[name])
    records,     \* the evaluated months
    observed     \* signals whose factor observations are stored

vars == <<sessions, version, phase, reason, forward, frozen, frames, selections,
          book, records, observed>>

Phases == {"certify", "preload", "load", "loop", "evaluate", "saved", "failed"}
Reasons == {"", "uncertified", "prices", "members", "leak", "months"}

-----------------------------------------------------------------------------
(* The calendar the run derives from its one load of prices.  The load     *)
(* reaches back 38 months and 450 days before Start, earlier than any      *)
(* signal, so only its end matters here.                                   *)

After(S, d) == {e \in S : e > d}
Loaded == {d \in sessions : d <= End + TailDays}

MonthEnds(S) == {d \in S : \A e \in S : Month(e) = Month(d) => e <= d}

Signals ==
    {d \in MonthEnds(Loaded) : Start - HistoryMonths * MonthLength <= d /\ d <= End}

\* _forward_returns: buy at the open after the signal, sell at the open
\* after the next signal; a signal with no such two opens has no label.
Labelled ==
    {s \in Signals :
        /\ After(Signals, s) # {}
        /\ After(Loaded, Min(After(Signals, s))) # {}}

EntryDay(s) == Min(After(Loaded, s))

ExitAtNextSignal(s) == Min(After(Signals, s))
ExitDay(s) == Min(After(Loaded, Min(After(Signals, s))))

-----------------------------------------------------------------------------
WalkForwardInit ==
    /\ sessions \in SUBSET Day
    /\ version = [t \in Table |-> 0]
    /\ phase = "certify" /\ reason = "" /\ forward = <<>>
    /\ frozen = [t \in FrozenTable |-> Unread]
    /\ frames = {} /\ records = {} /\ observed = {}
    /\ selections = [y \in {Year(d) : d \in Day} |-> NoDay]
    /\ book = NoDay

Fail(why) == phase' = "failed" /\ reason' = why

\* An upload commits new rows into one table while the run goes on.
Import(t) ==
    /\ phase \notin {"saved", "failed"}
    /\ MapThenSumSet(LAMBDA u : version[u], Table) < MaxImports
    /\ version' = [version EXCEPT ![t] = @ + 1]
    /\ UNCHANGED <<sessions, phase, reason, forward, frozen, frames, selections, book,
                   records, observed>>

\* certify_point_in_time, then the refusal at the top of run.  Coverage is
\* data; that prices span the window is decided by the calendar.
PricesSpanWindow ==
    /\ \E d \in sessions : d <= Start
    /\ \E d \in sessions : d >= End

Certify ==
    /\ phase = "certify"
    /\ \/ PricesSpanWindow /\ phase' = "preload" /\ UNCHANGED reason
       \/ Fail("uncertified")
    /\ UNCHANGED <<sessions, version, forward, frozen, frames, selections,
                   book, records, observed>>

\* FactorEngine.preload reads the four tables one query at a time.
Preload(i) ==
    /\ phase = "preload"
    /\ frozen[PreloadOrder[i]] = Unread
    /\ \A j \in 1 .. i - 1 : frozen[PreloadOrder[j]] # Unread
    /\ frozen' = [frozen EXCEPT ![PreloadOrder[i]] = version[PreloadOrder[i]]]
    /\ phase' = IF i = Len(PreloadOrder) THEN "load" ELSE phase
    /\ UNCHANGED <<sessions, version, reason, forward, frames, selections, book,
                   records, observed>>

\* One load of prices fixes the calendar of the whole run.
LoadPrices ==
    /\ phase = "load"
    /\ IF Loaded = {} THEN Fail("prices") ELSE phase' = "loop" /\ UNCHANGED reason
    /\ forward' = [s \in Labelled |-> [entry |-> EntryDay(s), exit |-> ExitDay(s)]]
    /\ UNCHANGED <<sessions, version, frozen, frames, selections, book,
                   records, observed>>

-----------------------------------------------------------------------------
(* The walk: each labelled signal in order takes a snapshot, predicts from *)
(* the frames before it, and only then joins the history.                  *)

Done == {f.signal : f \in frames}
Remaining == DOMAIN forward \ Done

\* What snapshot(signal) reads: the frozen tables and the prices as they are.
SeenLive == version
Seen == [t \in Table |-> IF t \in FrozenTable THEN frozen[t] ELSE version[t]]

\* The history handed to WalkForwardModel.predict for signal s.
TrainingWithCurrent(s) == Done \cup {s}
Training(s) == Done

\* _annual_selections: the parameters are chosen once per calendar year.
OneKey(d) == 0
SelectionKey(d) == Year(d)

Chosen(s) ==
    IF Cardinality(Training(s)) < MinTraining THEN NoDay
    ELSE IF selections[SelectionKey(s)] = NoDay THEN s
    ELSE selections[SelectionKey(s)]

\* snapshot raises when the index has no member on the signal's day.
SnapshotFails ==
    /\ phase = "loop" /\ Remaining # {}
    /\ Fail("members")
    /\ UNCHANGED <<sessions, version, forward, frozen, frames, selections,
                   book, records, observed>>

\* predict raises when its history is not strictly before the month.
PredictRefuses(s) == \E h \in Training(s) : h >= s

PredictMonth ==
    /\ phase = "loop"
    /\ \E s \in Remaining :
         /\ \A d \in Remaining : s <= d
         /\ IF PredictRefuses(s)
            THEN Fail("leak") /\ UNCHANGED <<frames, selections>>
            ELSE /\ frames' = frames \cup {[signal |-> s, trained |-> Training(s),
                                            chosen |-> Chosen(s), saw |-> Seen]}
                 /\ selections' = IF Chosen(s) = NoDay THEN selections
                                  ELSE [selections EXCEPT ![SelectionKey(s)] = Chosen(s)]
                 /\ UNCHANGED <<phase, reason>>
    /\ UNCHANGED <<sessions, version, forward, frozen, book, records, observed>>

\* All observations go to the store in one upsert, before any evaluation;
\* a month in which no company has a factor score leaves none.
Persist ==
    /\ phase = "loop" /\ Remaining = {}
    /\ \E scored \in SUBSET Done : observed' = scored
    /\ phase' = "evaluate"
    /\ UNCHANGED <<sessions, version, reason, forward, frozen, frames,
                   selections, book, records>>

-----------------------------------------------------------------------------
(* The evaluation: the months whose entry lies in the requested window.    *)

InWindow(s) == Start <= forward[s].entry /\ forward[s].entry <= End
Evaluated == {r.signal : r \in records}
Unevaluated == {s \in Done : InWindow(s)} \ Evaluated

\* With enough scored stocks the book is rebuilt and pays its turnover;
\* with too few the book already held earns the month, free of cost.  A
\* month without an observation has no scored stock at all.
EvaluateMonth ==
    /\ phase = "evaluate" /\ Unevaluated # {}
    /\ LET s == Min(Unevaluated)
       IN  \E covered \in BOOLEAN :
             /\ covered => s \in observed
             /\ book' = IF covered THEN s ELSE book
             /\ records' = records \cup
                  {[signal |-> s, entry |-> forward[s].entry, exit |-> forward[s].exit,
                    book |-> book', paid |-> covered]}
    /\ UNCHANGED <<sessions, version, phase, reason, forward, frozen, frames,
                   selections, observed>>

Save ==
    /\ phase = "evaluate" /\ Unevaluated = {}
    /\ \/ records = {} /\ Fail("months")
       \/ records # {} /\ phase' = "saved" /\ UNCHANGED reason
    /\ UNCHANGED <<sessions, version, forward, frozen, frames, selections,
                   book, records, observed>>

WalkForwardNext ==
    \/ \E t \in Table : Import(t)
    \/ Certify
    \/ \E i \in DOMAIN PreloadOrder : Preload(i)
    \/ LoadPrices
    \/ SnapshotFails
    \/ PredictMonth
    \/ Persist
    \/ EvaluateMonth
    \/ Save

WalkForwardSpec == WalkForwardInit /\ [][WalkForwardNext]_vars

-----------------------------------------------------------------------------
\* Walk-forward order (ml.py:130-135): the refusal in predict is never what
\* ends a run, and each month is trained on exactly the labelled months
\* before it, none skipped and none from its own month or later.
WalkForwardOrder ==
    /\ reason # "leak"
    /\ \A f \in frames : f.trained = {s \in DOMAIN forward : s < f.signal}

\* The evaluated months tile the time line: each is sold on the very day the
\* next is bought, no day is earned twice and none between them is lost,
\* whatever holidays and empty months the calendar has (backtest.py:193-225).
HoldingPeriodsTile ==
    phase = "saved" =>
      /\ \A r \in records :
           /\ Start <= r.entry /\ r.entry <= End /\ r.entry < r.exit
           /\ \A q \in records : q = r \/ q.exit <= r.entry \/ r.exit <= q.entry
      /\ \A r \in records :
           r.signal = Max(Evaluated) \/ \E q \in records : q.entry = r.exit

\* All months of one run are computed from the same version of the four
\* tables, however many imports land while it walks (factors.py:80-85).
FrozenInputs ==
    \A f, g \in frames : \A t \in FrozenTable : f.saw[t] = g.saw[t]

\* A month's hyperparameters were chosen in its own calendar year, on a full
\* training history, and never later than the month itself (ml.py:144-148).
SelectionOfTheYear ==
    \A f \in frames : f.chosen # NoDay =>
      /\ Year(f.chosen) = Year(f.signal) /\ f.chosen <= f.signal
      /\ Cardinality({s \in DOMAIN forward : s < f.chosen}) >= MinTraining

\* What the certification note says of a saved run (backtest.py:574): a
\* signal uses only data effective by its month-end.  A training label is
\* known when the position it measures is sold.
SignalsUsePastDataOnly ==
    \A f \in frames : \A s \in f.trained : forward[s].exit <= f.signal
=============================================================================
