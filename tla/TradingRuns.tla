---------------------------- MODULE TradingRuns ----------------------------
(***************************************************************************)
(* Runs of TradingAgentsGraph.propagate by several processes that share    *)
(* the decision log, a file (agents/utils/memory.py), and the checkpoint   *)
(* databases (graph/checkpointer.py).                                      *)
(*                                                                         *)
(* propagate settles the ticker's pending log entries, opens its           *)
(* checkpoint, runs the graph of TradingGraph from the checkpoint or from  *)
(* the start, appends the decision to the log and drops the checkpoint.    *)
(* A process may die between any two of these steps, and a node may raise. *)
(* Checkpoints are enabled; without them every run starts afresh.          *)
(***************************************************************************)
EXTENDS TradingGraph, FiniteSets, FiniteSetsExt

CONSTANTS
    Runner,          \* processes
    Ticker,
    LastDay,         \* bound: the clock stops there
    Config,          \* graph configurations in use
    InitialLogs,     \* logs earlier runs may have left
    HoldingDays,     \* days until an outcome is known (5 in the code)
    MaxEntries,      \* memory_log_max_entries; 0 when the log is not rotated
    RecursionLimit,  \* graph steps of one invocation (max_recur_limit)
    MaxRuns,         \* bound: runs started
    MaxFailures,     \* bound: runs that die or raise
    None

ASSUME RunLimitsAreNat ==
    {LastDay, HoldingDays, MaxEntries, RecursionLimit, MaxRuns, MaxFailures} \subseteq Nat

Day == 1 .. LastDay
Key == [ticker : Ticker, date : Day]

Thread == Key \X Config   \* thread_id: ticker, date and run signature

VARIABLES
    today,
    log,          \* the entries of the file, oldest first
    tmp,          \* the file that will replace it: one path for every rewriter
    checkpoints,  \* the graph state each thread may resume from
    run,          \* the run of each process
    started, failures,
    owed,         \* history: decisions appended and not yet settled
    raced         \* history: a text read was stale when acted upon, or two rewriters
                  \* shared the temporary file

runVars == <<today, log, tmp, checkpoints, run, started, failures, owed, raced>>

\* A graph has each analyst once (setup.py adds a node for each), and both of its
\* debates at least one round; earlier runs logged a decision once.
LogEntry == [ticker : Ticker, date : Day, resolved : Day \cup {None}]
ASSUME ConfigAssumption ==
    \A cfg \in Config :
        /\ cfg.analysts \in Seq(AnalystKey) /\ cfg.analysts # <<>>
        /\ \A i, j \in DOMAIN cfg.analysts : cfg.analysts[i] = cfg.analysts[j] => i = j
        /\ cfg.debate \in Nat \ {0} /\ cfg.risk \in Nat \ {0}
ASSUME LogAssumption ==
    /\ None \notin Day
    /\ \A l \in InitialLogs :
        /\ l \in Seq(LogEntry)
        /\ \A i, j \in DOMAIN l : l[i].resolved = None /\ l[i] = l[j] => i = j

NoFile == [there |-> FALSE, text |-> <<>>]
Holding(text) == [there |-> TRUE, text |-> text]

Idle == [pc |-> "idle", key |-> None, cfg |-> None, read |-> <<>>,
         updates |-> {}, graph |-> None, steps |-> 0]

Pcs == {"idle", "settle", "rewrite", "write", "replace", "open", "start", "resume", "graph", "append", "clear"}

Entry(k, known) == [ticker |-> k.ticker, date |-> k.date, resolved |-> known]
KeyOf(e) == [ticker |-> e.ticker, date |-> e.date]
IsPending(e) == e.resolved = None
PendingKeys(l) == {KeyOf(e) : e \in {f \in Range(l) : IsPending(f)}}
ResolvedUpTo(l, i) == Cardinality({j \in 1 .. i : ~IsPending(l[j])})

-----------------------------------------------------------------------------
(* The decision log.                                                       *)

\* Outcomes that can be fetched: the holding window has traded.
Matured(l, ticker) ==
    {k \in PendingKeys(l) : k.ticker = ticker /\ k.date + HoldingDays <= today}

\* batch_update_with_outcomes on the text read: the first pending entry of
\* each updated key gets its outcome and the day it became known.
WithOutcomes(l, keys) ==
    [i \in DOMAIN l |->
        IF /\ IsPending(l[i]) /\ KeyOf(l[i]) \in keys
           /\ \A j \in 1 .. i - 1 : l[j] # l[i]
        THEN Entry(KeyOf(l[i]), l[i].date + HoldingDays) ELSE l[i]]

\* _apply_rotation: drop the oldest resolved entries above the cap.
RotateAny(l) ==
    IF MaxEntries = 0 \/ Len(l) <= MaxEntries THEN l
    ELSE SubSeq(l, Len(l) - MaxEntries + 1, Len(l))
Nth(S, n) == CHOOSE i \in S : Cardinality({j \in S : j <= i}) = n
Rotate(l) ==
    LET excess == ResolvedUpTo(l, Len(l)) - MaxEntries
        kept == {i \in DOMAIN l : IsPending(l[i]) \/ ResolvedUpTo(l, i) > excess}
    IN  IF MaxEntries = 0 THEN l ELSE [n \in 1 .. Cardinality(kept) |-> l[Nth(kept, n)]]

\* get_past_context: on a historical run only the outcomes known by then.
LessonsByTradeDate(date) ==
    {e \in Range(log) : ~IsPending(e) /\ (date < today => e.date <= date)}
Lessons(date) ==
    {e \in Range(log) : ~IsPending(e) /\ (date < today => e.resolved <= date)}

-----------------------------------------------------------------------------
RunsInit ==
    /\ today \in Day
    /\ log \in InitialLogs
    /\ \A e \in Range(log) : e.date <= today
    /\ \A e \in {f \in Range(log) : ~IsPending(f)} : e.resolved <= today
    /\ tmp = NoFile
    /\ checkpoints = [t \in Thread |-> None]
    /\ run = [p \in Runner |-> Idle]
    /\ started = 0 /\ failures = 0
    /\ owed = PendingKeys(log)
    /\ raced = FALSE

Tick ==
    /\ today < LastDay
    /\ today' = today + 1
    /\ UNCHANGED <<log, tmp, checkpoints, run, started, failures, owed, raced>>

\* propagate, _resolve_pending_entries: read the log and fetch outcomes.  A
\* fetch may fail, and its entry then waits for the next run.
Begin(p, k, cfg) ==
    /\ run[p].pc = "idle" /\ started < MaxRuns /\ k.date <= today
    /\ started' = started + 1
    /\ \E updates \in SUBSET Matured(log, k.ticker) :
         run' = [run EXCEPT ![p] = [Idle EXCEPT
                   !.pc = IF updates = {} THEN "open" ELSE "settle",
                   !.key = k, !.cfg = cfg, !.updates = updates]]
    /\ UNCHANGED <<today, log, tmp, checkpoints, failures, owed, raced>>

ReadForUpdate(p) ==
    /\ run[p].pc = "settle"
    /\ run' = [run EXCEPT ![p].pc = "rewrite", ![p].read = log]
    /\ UNCHANGED <<today, log, tmp, checkpoints, started, failures, owed, raced>>

\* The new text is written to the temporary file, which opening truncates ...
Rewriting == {p \in Runner : run[p].pc \in {"write", "replace"}}
Rewritten(p) == Rotate(WithOutcomes(run[p].read, run[p].updates))

OpenTmp(p) ==
    /\ run[p].pc = "rewrite"
    /\ tmp' = Holding(<<>>)
    /\ raced' = (raced \/ Rewriting # {})
    /\ run' = [run EXCEPT ![p].pc = "write"]
    /\ UNCHANGED <<today, log, checkpoints, started, failures, owed>>

\* ... which may overwrite another rewriter's text, up to its own length, or go
\* into the log itself when another has moved the file there.  (An entry cut at
\* the seam is kept whole or dropped here.)
Overlay(text, old) == text \o SubSeq(old, Len(text) + 1, Len(old))
WriteTmp(p) ==
    /\ run[p].pc = "write"
    /\ \/ tmp.there /\ tmp' = Holding(Overlay(Rewritten(p), tmp.text)) /\ UNCHANGED log
       \/ ~tmp.there /\ log' = Overlay(Rewritten(p), log) /\ UNCHANGED tmp
    /\ run' = [run EXCEPT ![p].pc = "replace"]
    /\ UNCHANGED <<today, checkpoints, started, failures, owed, raced>>

\* ... and moved over the log, whatever is in it by now.
ReplaceLog(p) ==
    /\ run[p].pc = "replace" /\ tmp.there
    /\ log' = tmp.text /\ tmp' = NoFile
    /\ owed' = owed \ run[p].updates
    /\ raced' = (raced \/ log # run[p].read)
    /\ run' = [run EXCEPT ![p].pc = "open", ![p].read = <<>>, ![p].updates = {}]
    /\ UNCHANGED <<today, checkpoints, started, failures>>

\* Another rewriter has moved it already: replace() raises and the run ends.
ReplaceNothing(p) ==
    /\ run[p].pc = "replace" /\ ~tmp.there
    /\ run' = [run EXCEPT ![p] = Idle]
    /\ UNCHANGED <<today, log, tmp, checkpoints, started, failures, owed, raced>>

\* begin_checkpoint, thread_id: the run signature keeps the threads of
\* differently shaped graphs apart.
ThreadOfKey(p) == <<run[p].key, CHOOSE cfg \in Config : TRUE>>
ThreadOf(p) == <<run[p].key, run[p].cfg>>

\* begin_checkpoint: does the thread have a checkpoint?
Open(p) ==
    /\ run[p].pc = "open"
    /\ run' = [run EXCEPT ![p].pc =
                 IF checkpoints[ThreadOf(p)] = None THEN "start" ELSE "resume"]
    /\ UNCHANGED <<today, log, tmp, checkpoints, started, failures, owed, raced>>

\* What the graph is entered with: the initial state, or on a resume nothing
\* (checkpoint_input), and then the saved state is taken up as it is.
Input(p) ==
    IF run[p].pc = "start" THEN StartGraph(run[p].cfg, Lessons(run[p].key.date))
    ELSE checkpoints[ThreadOf(p)]

EnterGraph(p) ==
    /\ run[p].pc \in {"start", "resume"}
    /\ run[p].pc = "resume" => checkpoints[ThreadOf(p)] # None
    /\ run' = [run EXCEPT ![p].pc = "graph", ![p].graph = Input(p)]
    /\ checkpoints' = [checkpoints EXCEPT ![ThreadOf(p)] = Input(p)]
    /\ UNCHANGED <<today, log, tmp, started, failures, owed, raced>>

\* Another run of the thread has ended since, and there is nothing to resume:
\* the invocation without an input raises.
ResumeNothing(p) ==
    /\ run[p].pc = "resume" /\ checkpoints[ThreadOf(p)] = None
    /\ run' = [run EXCEPT ![p] = Idle]
    /\ UNCHANGED <<today, log, tmp, checkpoints, started, failures, owed, raced>>

\* One node of the graph, saved by the checkpointer.
Node(p) ==
    /\ run[p].pc = "graph" /\ ~Finished(run[p].graph)
    /\ run[p].steps < RecursionLimit
    /\ \E g \in GraphSteps(run[p].cfg, run[p].graph) :
         /\ run' = [run EXCEPT ![p].graph = g, ![p].steps = @ + 1]
         /\ checkpoints' = [checkpoints EXCEPT ![ThreadOf(p)] = g]
    /\ UNCHANGED <<today, log, tmp, started, failures, owed, raced>>

\* store_decision scans the file for a pending entry of the same key ...
ScanLog(p) ==
    /\ run[p].pc = "graph" /\ Finished(run[p].graph)
    /\ run' = [run EXCEPT ![p].read = log,
                 ![p].pc = IF run[p].key \in PendingKeys(log) THEN "clear" ELSE "append"]
    /\ UNCHANGED <<today, log, tmp, checkpoints, started, failures, owed, raced>>

\* ... and appends one when there is none.
AppendDecision(p) ==
    /\ run[p].pc = "append"
    /\ log' = Append(log, Entry(run[p].key, None))
    /\ owed' = owed \cup {run[p].key}
    /\ raced' = (raced \/ log # run[p].read)
    /\ run' = [run EXCEPT ![p].pc = "clear"]
    /\ UNCHANGED <<today, tmp, checkpoints, started, failures>>

\* clear_checkpoint_on_success and end_checkpoint; a database that another
\* process holds locked is left as it is.
ClearCheckpoint(p) ==
    /\ run[p].pc = "clear"
    /\ checkpoints' \in {checkpoints, [checkpoints EXCEPT ![ThreadOf(p)] = None]}
    /\ run' = [run EXCEPT ![p] = Idle]
    /\ UNCHANGED <<today, log, tmp, started, failures, owed, raced>>

\* The process dies, or a node, a tool or the reflection raises; what is on
\* disk stays.
Die(p) ==
    /\ run[p].pc # "idle" /\ failures < MaxFailures
    /\ failures' = failures + 1
    /\ run' = [run EXCEPT ![p] = Idle]
    /\ UNCHANGED <<today, log, tmp, checkpoints, started, owed, raced>>

\* The graph runs into its recursion limit and raises.
HitLimit(p) ==
    /\ run[p].pc = "graph" /\ ~Finished(run[p].graph)
    /\ run[p].steps = RecursionLimit
    /\ run' = [run EXCEPT ![p] = Idle]
    /\ UNCHANGED <<today, log, tmp, checkpoints, started, failures, owed, raced>>

RunsNext ==
    \/ Tick
    \/ \E p \in Runner :
         \/ \E k \in Key, cfg \in Config : Begin(p, k, cfg)
         \/ ReadForUpdate(p) \/ OpenTmp(p) \/ WriteTmp(p) \/ ReplaceLog(p)
         \/ ReplaceNothing(p) \/ Open(p) \/ EnterGraph(p)
         \/ ResumeNothing(p) \/ Node(p) \/ ScanLog(p) \/ AppendDecision(p)
         \/ ClearCheckpoint(p) \/ Die(p) \/ HitLimit(p)

RunsSpec == RunsInit /\ [][RunsNext]_runVars

-----------------------------------------------------------------------------
\* Every run, resumed after any crash or not, follows its own agenda: each
\* analyst once, bull and bear in alternation, the risk team in turn, each
\* manager once; nobody speaks twice and nobody is skipped, and a run ends
\* only with the agenda done (conditional_logic.py, trading_graph.py:460-468).
AgendaIsFollowed ==
    /\ \A p \in Runner : run[p].graph # None =>
         /\ IsPrefix(run[p].graph.spoken, Agenda(run[p].cfg))
         /\ Finished(run[p].graph) => run[p].graph.spoken = Agenda(run[p].cfg)
    /\ \A t \in Thread : checkpoints[t] # None =>
         IsPrefix(checkpoints[t].spoken, Agenda(t[2]))

\* No run is given a lesson whose outcome was not known on its trade date,
\* however late it is run or resumed (memory.py:70-90).
LessonsAreKnown ==
    \A p \in Runner : run[p].graph # None =>
      \A e \in run[p].graph.lessons : e.resolved <= run[p].key.date

\* As long as no process acts on a stale reading of the file and no two rewrite
\* it at once, every decision not yet settled has exactly one pending entry in
\* it: none is lost in a rewrite, wherever the process dies in it and whatever
\* it leaves in the temporary file, none is rotated away, and no rerun logs it
\* twice (memory.py:30-49, 177-229, 248-283).
LogKeepsDecisions ==
    ~raced =>
      /\ owed = PendingKeys(log)
      /\ \A i, j \in DOMAIN log : IsPending(log[i]) /\ log[i] = log[j] => i = j
=============================================================================
