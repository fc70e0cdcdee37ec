----------------------------- MODULE Operations -----------------------------
(***************************************************************************)
(* The cadence workflows (operations.py) and the table of portfolios they  *)
(* move.  Weekly adjustments and everything outside an await run on the    *)
(* event loop; _build_portfolio runs in a worker thread (to_thread) and    *)
(* reads and saves while other workflows run.  A portfolio is a point; the *)
(* one-way turnover between two portfolios is the distance of the points.  *)
(***************************************************************************)
EXTENDS Integers, FiniteSets

CONSTANTS Op,                                    \* the jobs submitted
          Case,                                  \* the names a committee studies
          Parallel,                              \* asyncio.Semaphore(2)
          Point,                                 \* portfolios, as numbers
          WeeklyCap, MonthlyCap,                 \* 5% and 20% one-way turnover
          Date,
          Initial,                               \* what may already be deployed, as <<cutoff, portfolio>>
          Earlier,                               \* whoever saved the initial portfolio
          NoRow                                  \* current_portfolio() is None

Row == [by : Op \cup {Earlier}, cadence : {"weekly", "monthly"}, asof : Date, made : Nat,
        point : Point]

ASSUME OperationsAssumption ==
    /\ Point \subseteq Int /\ Date \subseteq Int /\ Initial \subseteq Date \X Point
    /\ Parallel \in Nat \ {0} /\ WeeklyCap \in Nat /\ MonthlyCap \in Nat
    /\ Earlier \notin Op /\ NoRow \notin Row /\ "free" \notin Op

VARIABLES backend,   \* "duckdb" or "postgres"
          kind,      \* the workflow each job runs
          asof,      \* the cutoff each job works for
          book,      \* the portfolios table
          now,       \* created_at of the latest save
          pc, base,  \* progress of each job, and the portfolio it started from
          case,      \* the committee's cases of each job
          refused,   \* the jobs the store refused a write after a portfolio could be saved
          loop       \* the job whose code occupies the event loop, or "free"

opvars == <<backend, kind, asof, book, now, pc, base, case, refused, loop>>

Kind == {"weekly", "monthly", "research", "full-cycle"}
Committee == {o \in Op : kind[o] \in {"monthly", "full-cycle"}}   \* gather cases
Builders  == {o \in Op : kind[o] # "weekly"}                      \* _build_portfolio

OpsInit ==
    /\ backend \in {"duckdb", "postgres"}
    /\ kind \in [Op -> Kind]
    /\ asof \in [Op -> Date]
    /\ \/ book = {}
       \/ \E d \in Initial : book = {[by |-> Earlier, cadence |-> "monthly", asof |-> d[1],
                                     made |-> 0, point |-> d[2]]}
    /\ now = 0
    /\ pc = [o \in Op |-> "start"]
    /\ base = [o \in Op |-> NoRow]
    /\ case = [o \in Op |-> [c \in Case |-> "none"]]
    /\ refused = {}
    /\ loop = "free"

-----------------------------------------------------------------------------
\* ORDER BY as_of_date DESC, created_at DESC LIMIT 1
Precedes(r, s) == r.asof < s.asof \/ (r.asof = s.asof /\ r.made <= s.made)
LatestMade(rows) ==
    IF rows = {} THEN NoRow ELSE CHOOSE r \in rows : \A s \in rows : s.made <= r.made
Current(rows) ==
    IF rows = {} THEN NoRow ELSE CHOOSE r \in rows : \A s \in rows : Precedes(s, r)
Deployed == Current(book)

\* A recommendation keeps its portfolio_id when it is saved twice: DuckDB
\* replaces the row (a fresh created_at), Postgres leaves created_at as it was.
SavedBefore(o, cadence) == {r \in book : r.by = o /\ r.cadence = cadence}
SaveAnew(o, cadence, p) ==
    /\ now' = now + 1
    /\ book' = book \cup {[by |-> o, cadence |-> cadence, asof |-> asof[o], made |-> now', point |-> p]}
Save(o, cadence, p) ==
    LET old == SavedBefore(o, cadence)
        row(made) == [by |-> o, cadence |-> cadence, asof |-> asof[o], made |-> made, point |-> p]
    IN  /\ now' = now + 1
        /\ \/ backend = "postgres" /\ \E r \in old : book' = (book \ old) \cup {row(r.made)}
           \/ ~(backend = "postgres" /\ old # {}) /\ book' = (book \ old) \cup {row(now')}

Dist(a, b) == IF a <= b THEN b - a ELSE a - b
CapOf(cadence) == IF cadence = "weekly" THEN WeeklyCap ELSE MonthlyCap

\* PortfolioOptimizer.optimize: within the cap of the portfolio it was given (an
\* infeasible problem retains that portfolio), anywhere when there is none.
Uncapped(from, cadence) == Point
Reachable(from, cadence) ==
    IF from = NoRow THEN Point
    ELSE {p \in Point : Dist(p, from.point) <= CapOf(cadence)}

Goto(o, label) == pc' = [pc EXCEPT ![o] = label]
Fails(o)       == Goto(o, "failed")
Refused(o)     == Fails(o) /\ refused' = refused \cup {o}
Forget(o)      == base' = [base EXCEPT ![o] = NoRow]   \* a local goes out of scope

\* submit_operation writes the message and the progress of a result that is ready;
\* the store may refuse that write.
Reports(o) == (Goto(o, "completed") /\ UNCHANGED refused) \/ Refused(o)

-----------------------------------------------------------------------------
\* The job starts; a full cycle first runs the daily monitor, which moves no
\* portfolio and swallows what the paper broker raises.  Everything may raise
\* for want of data.
Start(o) ==
    /\ pc[o] = "start" /\ loop = "free"
    /\ \/ kind[o] \in {"weekly", "full-cycle"} /\ Goto(o, "weekly") /\ UNCHANGED case
       \/ /\ kind[o] = "monthly"
          /\ Goto(o, "cases")
          /\ case' = [case EXCEPT ![o] = [c \in Case |-> "waiting"]]
       \/ kind[o] = "research" /\ Goto(o, "build") /\ UNCHANGED case
       \/ Fails(o) /\ UNCHANGED case
    /\ UNCHANGED <<backend, kind, asof, book, now, base, refused, loop>>

\* run_weekly has no await: from reading the current portfolio to saving the
\* adjusted one no other code of the event loop runs.  A full cycle goes on with
\* run_monthly, whose ranking may raise.
AfterWeekly(o) ==
    \/ kind[o] = "weekly" /\ Reports(o) /\ UNCHANGED case
    \/ /\ kind[o] = "full-cycle" /\ Goto(o, "cases")
       /\ case' = [case EXCEPT ![o] = [c \in Case |-> "waiting"]]
       /\ UNCHANGED refused
    \/ kind[o] = "full-cycle" /\ Fails(o) /\ UNCHANGED <<case, refused>>

WeeklyHeld(o) ==
    /\ pc[o] = "weekly" /\ loop = "free" /\ Deployed = NoRow
    /\ AfterWeekly(o)
    /\ UNCHANGED <<backend, kind, asof, book, now, base, loop>>

WeeklyYields(o) ==
    /\ pc[o] = "weekly" /\ Deployed # NoRow
    /\ base' = [base EXCEPT ![o] = Deployed]
    /\ Goto(o, "weighing")
    /\ UNCHANGED <<backend, kind, asof, book, now, case, refused, loop>>
WeeklyRead(o) ==
    /\ pc[o] = "weekly" /\ loop = "free" /\ Deployed # NoRow
    /\ base' = [base EXCEPT ![o] = Deployed]
    /\ Goto(o, "weighing") /\ loop' = o
    /\ UNCHANGED <<backend, kind, asof, book, now, case, refused>>

WeeklySave(o) ==
    /\ pc[o] = "weighing"
    /\ \E p \in Reachable(base[o], "weekly") :
         Save(o, "weekly", p)
    /\ AfterWeekly(o)
    /\ loop' = "free" /\ Forget(o)
    /\ UNCHANGED <<backend, kind, asof>>

WeeklyRaises(o) ==
    /\ pc[o] = "weighing" /\ Fails(o) /\ Forget(o)
    /\ loop' = "free"
    /\ UNCHANGED <<backend, kind, asof, book, now, case, refused>>

-----------------------------------------------------------------------------
\* run_monthly's cases.  gather() raises with the first case that raises, and
\* leaves the others running: their decisions are still made and saved.
InGather(o) == o \in Committee /\ pc[o] \in {"cases", "failed"} /\ loop = "free"

CaseStart(o, c) ==
    /\ InGather(o) /\ case[o][c] = "waiting"
    /\ Cardinality({d \in Case : case[o][d] = "running"}) < Parallel
    /\ case' = [case EXCEPT ![o][c] = "running"]
    /\ UNCHANGED <<backend, kind, asof, book, now, pc, base, refused, loop>>

CaseSwallows(o, c) ==
    /\ InGather(o) /\ case[o][c] = "running"
    /\ \E s \in {"saved", "raised"} : case' = [case EXCEPT ![o][c] = s]
    /\ UNCHANGED <<backend, kind, asof, book, now, pc, base, refused, loop>>
CaseEnds(o, c) ==
    /\ InGather(o) /\ case[o][c] = "running"
    /\ \/ case' = [case EXCEPT ![o][c] = "saved"] /\ UNCHANGED pc
       \/ case' = [case EXCEPT ![o][c] = "raised"] /\ Fails(o)
    /\ UNCHANGED <<backend, kind, asof, book, now, base, refused, loop>>

GatherReturnsExceptions(o) ==
    /\ o \in Committee /\ pc[o] = "cases" /\ loop = "free"
    /\ \E c \in Case : case[o][c] = "saved"
    /\ Goto(o, "build")
    /\ UNCHANGED <<backend, kind, asof, book, now, base, case, refused, loop>>
Gather(o) ==
    /\ o \in Committee /\ pc[o] = "cases" /\ loop = "free"
    /\ \A c \in Case : case[o][c] = "saved"
    /\ Goto(o, "build")
    /\ UNCHANGED <<backend, kind, asof, book, now, base, case, refused, loop>>

-----------------------------------------------------------------------------
\* _build_portfolio, in a worker thread: nothing of it waits for the event loop.
BuildRead(o) ==
    /\ pc[o] = "build"
    /\ \/ base' = [base EXCEPT ![o] = Deployed] /\ Goto(o, "building")
       \/ Fails(o) /\ UNCHANGED base
    /\ UNCHANGED <<backend, kind, asof, book, now, case, refused, loop>>

BuildSave(o) ==
    /\ pc[o] = "building"
    /\ \/ \E p \in Reachable(base[o], "monthly") : Save(o, "monthly", p) /\ Goto(o, "built")
       \/ Fails(o) /\ UNCHANGED <<book, now>>
    /\ Forget(o)
    /\ UNCHANGED <<backend, kind, asof, case, refused, loop>>

\* Back on the event loop run_monthly labels the recommendation and saves it
\* again; a research run only stores its result document.  The store may refuse
\* either write, and the portfolio of _build_portfolio stays.
AfterDeploy(o) ==
    \/ kind[o] = "full-cycle" /\ Goto(o, "preview") /\ UNCHANGED refused
    \/ kind[o] = "monthly" /\ Reports(o)
DeployAnew(o) ==
    /\ pc[o] = "built" /\ loop = "free"
    /\ \/ /\ o \in Committee /\ AfterDeploy(o)
          /\ \E r \in SavedBefore(o, "monthly") : SaveAnew(o, "monthly", r.point)
       \/ o \notin Committee /\ Goto(o, "completed") /\ UNCHANGED <<book, now, refused>>
       \/ Refused(o) /\ UNCHANGED <<book, now>>
    /\ UNCHANGED <<backend, kind, asof, base, case, loop>>
Deploy(o) ==
    /\ pc[o] = "built" /\ loop = "free"
    /\ \/ /\ o \in Committee /\ AfterDeploy(o)
          /\ \E r \in SavedBefore(o, "monthly") : Save(o, "monthly", r.point)
       \/ o \notin Committee /\ Goto(o, "completed") /\ UNCHANGED <<book, now, refused>>
       \/ Refused(o) /\ UNCHANGED <<book, now>>
    /\ UNCHANGED <<backend, kind, asof, base, case, loop>>

\* prepare_one_share_order and the last synchronisation: the preview may raise,
\* and so may the write of the progress.
Preview(o) ==
    /\ pc[o] = "preview" /\ loop = "free"
    /\ Reports(o) \/ (Fails(o) /\ UNCHANGED refused)
    /\ UNCHANGED <<backend, kind, asof, book, now, base, case, loop>>

OpStep(o) ==
    \/ Start(o) \/ WeeklyHeld(o) \/ WeeklyRead(o) \/ WeeklySave(o) \/ WeeklyRaises(o)
    \/ Gather(o) \/ BuildRead(o) \/ BuildSave(o) \/ Deploy(o) \/ Preview(o)
    \/ \E c \in Case : CaseStart(o, c) \/ CaseEnds(o, c)

OpsNext == \E o \in Op : OpStep(o)

\* The event loop and the worker threads keep running every job.
OpsSpec == OpsInit /\ [][OpsNext]_opvars /\ \A o \in Op : WF_opvars(OpStep(o))

-----------------------------------------------------------------------------
OpsTypeOK ==
    /\ backend \in {"duckdb", "postgres"} /\ kind \in [Op -> Kind] /\ asof \in [Op -> Date]
    /\ book \subseteq Row /\ now \in Nat
    /\ \A r \in book : r.made <= now
    /\ pc \in [Op -> {"start", "weekly", "weighing", "cases", "build", "building", "built",
                      "preview", "completed", "failed"}]
    /\ base \in [Op -> Row \cup {NoRow}]
    /\ case \in [Op -> [Case -> {"none", "waiting", "running", "saved", "raised"}]]
    /\ refused \subseteq Op /\ loop \in Op \cup {"free"}

\* Saving a recommendation a second time never yields a second portfolio of the
\* run, and no two portfolios are equally current: created_at orders them.
OneRowPerRun ==
    \A r, s \in book : (r.by = s.by /\ r.cadence = s.cadence) \/ r.made = s.made => r = s

\* The portfolio in force is never replaced by one for an earlier cutoff, even
\* when a job for an old as_of_date saves after a newer one.
CutoffNeverFalls ==
    [][Deployed # NoRow => Deployed' # NoRow /\ Deployed'.asof >= Deployed.asof]_opvars

\* A weekly adjustment that is about to be saved still starts from the portfolio
\* in force, unless a worker thread saved one in the meantime and its job still
\* waits for the event loop: two adjustments never start from one portfolio.
WeeklyBaseStale == \E q \in Builders : pc[q] = "built"
WeeklyStartsFromDeployed ==
    \A o \in Op : pc[o] = "weighing" => base[o] = Deployed \/ WeeklyBaseStale

\* Whatever replaces the portfolio in force is within its cadence's cap of it,
\* unless its job started from another one: overlapping jobs are the only way
\* past the cap.
CapHoldsWithoutOverlap ==
    [][LET old == Deployed  new == Current(book')
       IN  old # NoRow /\ new # old =>
             \/ new.by \in Op /\ base[new.by] # old
             \/ Dist(new.point, old.point) <= CapOf(new.cadence)]_opvars

\* What a failed workflow may have left in the table of portfolios.  The console
\* says of every failure that the existing portfolio was not changed
\* (page.html:416), which holds of a failure before the save only: a full cycle's
\* weekly adjustment stands when its committee fails, and any portfolio stands when
\* the store refuses a later write of its workflow.  There is no third way: whatever
\* else a case, the optimizer or a ranking raises leaves no portfolio, and no
\* committee's portfolio is built on fewer cases than were asked for.
WhatFailuresLeave ==
    \A r \in book : r.by \in Op =>
        /\ pc[r.by] = "failed" =>
             \/ r.by \in refused
             \/ kind[r.by] = "full-cycle"
        /\ r.by \in Committee /\ r.cadence = "monthly" => \A c \in Case : case[r.by][c] = "saved"

\* Every submitted workflow completes or fails: none waits for ever for an event
\* loop another one did not give back, or for a case that nobody runs.
EveryOperationEnds == \A o \in Op : <>(pc[o] \in {"completed", "failed"})
=============================================================================
