-------------------------------- MODULE Jobs --------------------------------
(***************************************************************************)
(* JobManager (jobs.py): every long request becomes a JobRecord in the     *)
(* store and an asyncio task that runs the work.  The record in memory and *)
(* the row in the store are written separately; the store can fail, and    *)
(* the process can stop, between any two of these writes.                  *)
(***************************************************************************)
EXTENDS Naturals

CONSTANTS Job,          \* the jobs submitted in a run, one work function each
          Inline,       \* jobs whose result is the JSON in their own row (operations)
          MaxReports,   \* bound on the progress reports of one work function
          MaxFaults,    \* bound on store writes that raise
          MaxRestarts   \* bound on process restarts

ASSUME JobsAssumption ==
    Inline \subseteq Job /\ MaxReports \in Nat /\ MaxFaults \in Nat /\ MaxRestarts \in Nat

VARIABLES record,    \* the JobRecord each runner holds
          row,       \* the jobs table
          task,      \* the asyncio task of each job
          saved,     \* jobs whose result document is in its own table
          reports,   \* progress reports each work function has made
          faults, restarts

jobvars == <<record, row, task, saved, reports, faults, restarts>>

Status   == {"queued", "running", "succeeded", "failed"}
Terminal == {"succeeded", "failed"}
Record   == [status : Status, ref : BOOLEAN]
Absent   == [status |-> "absent", ref |-> FALSE]
Rows     == Record \cup {Absent}

JobsInit ==
    /\ record = [j \in Job |-> Absent]
    /\ row = [j \in Job |-> Absent]
    /\ task = [j \in Job |-> "none"]
    /\ saved = {}
    /\ reports = [j \in Job |-> 0]
    /\ faults = 0 /\ restarts = 0

\* store.upsert_job(job): the whole record replaces the row, or the store raises
\* and the row stays as it was.
Upsert(j, rec) == row' = [row EXCEPT ![j] = rec] /\ UNCHANGED faults
StoreRaises    == faults < MaxFaults /\ faults' = faults + 1 /\ UNCHANGED row

\* submit(): the row is written before the task exists and before the response.
Submit(j) ==
    LET rec == [status |-> "queued", ref |-> FALSE] IN
    /\ row[j].status = "absent" /\ task[j] = "none"
    /\ record' = [record EXCEPT ![j] = rec]
    /\ Upsert(j, rec)
    /\ task' = [task EXCEPT ![j] = "created"]
    /\ UNCHANGED <<saved, reports, restarts>>

\* The runner's first lines.  They are outside its try block: when the store
\* raises here the task dies and nobody writes the row again.
Begin(j) ==
    LET rec == [record[j] EXCEPT !.status = "running"] IN
    /\ task[j] = "created"
    /\ record' = [record EXCEPT ![j] = rec]
    /\ \/ Upsert(j, rec) /\ task' = [task EXCEPT ![j] = "running"]
       \/ StoreRaises /\ task' = [task EXCEPT ![j] = "dead"]
    /\ UNCHANGED <<saved, reports, restarts>>

\* The last lines of the runner: the final record is written outside the try block.
End(j, rec) ==
    /\ record' = [record EXCEPT ![j] = rec]
    /\ \/ Upsert(j, rec) /\ task' = [task EXCEPT ![j] = "ended"]
       \/ StoreRaises /\ task' = [task EXCEPT ![j] = "dead"]
    /\ UNCHANGED <<saved, reports, restarts>>

\* The handler around the work catches what it raises.
Uncaught(j) ==
    /\ task[j] = "running"
    /\ task' = [task EXCEPT ![j] = "dead"]
    /\ UNCHANGED <<record, row, saved, reports, faults, restarts>>
Fail(j) ==
    /\ task[j] = "running"
    /\ End(j, [record[j] EXCEPT !.status = "failed"])

\* The work returned: result_ref is set and the record written as succeeded.
\* A work function that stores a document does so before it returns.
SucceedEarly(j) ==
    /\ task[j] = "running"
    /\ End(j, [record[j] EXCEPT !.status = "succeeded", !.ref = TRUE])
Succeed(j) ==
    /\ task[j] = "running"
    /\ j \in Inline \cup saved
    /\ End(j, [record[j] EXCEPT !.status = "succeeded", !.ref = TRUE])

\* A progress report of the work: job.progress and job.message, then the row.
\* A report the store refuses raises inside the work, which then ends in Fail.
LateReport(j) ==
    /\ task[j] \in {"running", "ended"} /\ reports[j] < MaxReports
    /\ reports' = [reports EXCEPT ![j] = @ + 1]
    /\ Upsert(j, [record[j] EXCEPT !.status = "running"])
    /\ UNCHANGED <<record, task, saved, restarts>>
Report(j) ==
    /\ task[j] = "running" /\ reports[j] < MaxReports
    /\ reports' = [reports EXCEPT ![j] = @ + 1]
    /\ Upsert(j, record[j])
    /\ UNCHANGED <<record, task, saved, restarts>>

\* save_research_run, save_backtest or save_model_benchmark.
SaveResult(j) ==
    /\ task[j] = "running" /\ j \notin Inline
    /\ saved' = saved \cup {j}
    /\ UNCHANGED <<record, row, task, reports, faults, restarts>>

\* The process stops; nothing reads unfinished rows when it starts again
\* (api.py's lifespan only builds a fresh JobManager).
Restart ==
    /\ restarts < MaxRestarts
    /\ restarts' = restarts + 1
    /\ task' = [j \in Job |-> IF task[j] \in {"created", "running"} THEN "dead" ELSE task[j]]
    /\ UNCHANGED <<record, row, saved, reports, faults>>

RunnerStep(j) == Begin(j) \/ Report(j) \/ SaveResult(j) \/ Succeed(j) \/ Fail(j)

JobsNext == \/ \E j \in Job : Submit(j) \/ RunnerStep(j)
            \/ Restart

\* The event loop keeps running each task, and its work comes to an end.
JobsSpec == JobsInit /\ [][JobsNext]_jobvars
                     /\ \A j \in Job : WF_jobvars(Begin(j)) /\ WF_jobvars(Succeed(j) \/ Fail(j))

-----------------------------------------------------------------------------
JobsTypeOK ==
    /\ record \in [Job -> Rows]
    /\ row \in [Job -> Rows]
    /\ task \in [Job -> {"none", "created", "running", "ended", "dead"}]
    /\ saved \subseteq Job \ Inline
    /\ reports \in [Job -> Nat]
    /\ faults \in Nat /\ restarts \in Nat

\* A job that the store calls succeeded has its result where its result_ref
\* points: in its own row, or in the table the work wrote first.  A crash or a
\* store error between the two writes never leaves a success without a result.
SucceededHasResult ==
    \A j \in Job : row[j].status = "succeeded" => row[j].ref /\ j \in Inline \cup saved

\* What a client that polls the row has seen end never comes back to life.
TerminalIsFinal ==
    [][\A j \in Job : row[j].status \in Terminal => row'[j] = row[j]]_jobvars

\* The manager implements JobContract: a poll sees queued, running and one final
\* answer in this order, nothing skipped and nothing taken back, a result never
\* disappears, and success is never answered before the result is there.
Polled    == [j \in Job |-> row[j].status]
Fetchable == saved \cup {j \in Inline : row[j].ref}
Contract  == INSTANCE JobContract WITH status <- Polled, results <- Fetchable
ImplementsJobContract == Contract!Spec

\* An unfinished row has a task that will finish it, unless the process was
\* restarted or the store refused a write: no exception of the work is lost.
NoSilentDeath ==
    \A j \in Job : row[j].status \in {"queued", "running"} =>
        task[j] \in {"created", "running"} \/ restarts > 0 \/ faults > 0

\* Without a restart or a store error every submitted job ends.
EveryJobSettles ==
    \A j \in Job : row[j].status = "queued" ~>
        row[j].status \in Terminal \/ restarts > 0 \/ faults > 0
=============================================================================
