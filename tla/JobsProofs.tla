----------------------------- MODULE JobsProofs -----------------------------
(***************************************************************************)
(* What JobManager keeps for every set of jobs and every number of         *)
(* reports, store errors and restarts.  IInv ties the record a runner      *)
(* holds to the state of its task, which is what makes a progress report   *)
(* harmless: it writes a record that is still running.                     *)
(***************************************************************************)
EXTENDS Jobs, TLAPS

\* The runner's own record follows its task, and a live task's row says the same.
Fresh   == [status |-> "queued", ref |-> FALSE]
Started == [status |-> "running", ref |-> FALSE]
RunnerInv ==
    \A j \in Job :
        /\ task[j] = "none" => row[j] = Absent
        /\ task[j] = "created" => record[j] = Fresh /\ row[j] = Fresh
        /\ task[j] = "running" => record[j] = Started /\ row[j] = Started

\* Only a task that wrote its final record leaves a terminal row.
TerminalInv == \A j \in Job : row[j].status \in Terminal => task[j] = "ended"

IInv == JobsTypeOK /\ RunnerInv /\ TerminalInv /\ SucceededHasResult /\ NoSilentDeath

LEMMA InitHolds == ASSUME JobsInit PROVE IInv
  BY DEF JobsInit, IInv, JobsTypeOK, RunnerInv, TerminalInv, SucceededHasResult,
         NoSilentDeath, Rows, Absent, Fresh, Started, Record, Status, Terminal

LEMMA SubmitKeeps == ASSUME IInv, NEW j \in Job, Submit(j) PROVE IInv'
  BY DEF Submit, Upsert, IInv, JobsTypeOK, RunnerInv, TerminalInv, SucceededHasResult,
         NoSilentDeath, Rows, Absent, Fresh, Started, Record, Status, Terminal

LEMMA BeginKeeps == ASSUME IInv, NEW j \in Job, Begin(j) PROVE IInv'
<1> DEFINE rec == [record[j] EXCEPT !.status = "running"]
<1>0. task[j] = "created" /\ record' = [record EXCEPT ![j] = rec]
      /\ UNCHANGED <<saved, reports, restarts>>
      /\ \/ Upsert(j, rec) /\ task' = [task EXCEPT ![j] = "running"]
         \/ StoreRaises /\ task' = [task EXCEPT ![j] = "dead"]
  BY DEF Begin
<1>1. rec = Started
  <2>1. record[j] = Fresh
    BY <1>0 DEF IInv, RunnerInv
  <2>2. [Fresh EXCEPT !.status = "running"] = Started
    <3> DEFINE e == [Fresh EXCEPT !.status = "running"]
    <3>1. Fresh \in Record /\ Started \in Record /\ Fresh.ref = Started.ref
      BY DEF Fresh, Started, Record, Status
    <3>2. e \in Record /\ e.status = "running" /\ e.ref = Fresh.ref
      BY <3>1 DEF Record, Status
    <3>3. Started.status = "running"
      BY DEF Started
    <3> HIDE DEF e
    <3>4. e = Started
      BY <3>1, <3>2, <3>3 DEF Record
    <3> QED BY <3>4 DEF e
  <2> QED BY <2>1, <2>2
<1>2. Started \in Rows /\ Started.status = "running"
  BY DEF Started, Rows, Record, Status
<1> HIDE DEF rec
<1>3. CASE Upsert(j, rec) /\ task' = [task EXCEPT ![j] = "running"]
  BY <1>0, <1>1, <1>2, <1>3 DEF Upsert, IInv, JobsTypeOK, RunnerInv, TerminalInv,
     SucceededHasResult, NoSilentDeath, Terminal
<1>4. CASE StoreRaises /\ task' = [task EXCEPT ![j] = "dead"]
  BY <1>0, <1>1, <1>2, <1>4, JobsAssumption DEF StoreRaises, IInv, JobsTypeOK, RunnerInv,
     TerminalInv, SucceededHasResult, NoSilentDeath, Terminal
<1> QED BY <1>0, <1>3, <1>4

\* Both ways a runner ends: with the final record written, or refused.
LEMMA EndKeeps ==
    ASSUME IInv, NEW j \in Job, NEW rec \in Record, task[j] = "running",
           rec.status \in Terminal,
           rec.status = "succeeded" => rec.ref /\ j \in Inline \cup saved,
           End(j, rec)
    PROVE IInv'
<1>1. CASE Upsert(j, rec) /\ task' = [task EXCEPT ![j] = "ended"]
  BY <1>1 DEF End, Upsert, IInv, JobsTypeOK, RunnerInv, TerminalInv,
     SucceededHasResult, NoSilentDeath, Rows, Fresh, Started, Terminal
<1>2. CASE StoreRaises /\ task' = [task EXCEPT ![j] = "dead"]
  BY <1>2, JobsAssumption DEF End, StoreRaises, IInv, JobsTypeOK, RunnerInv, TerminalInv,
     SucceededHasResult, NoSilentDeath, Rows, Fresh, Started, Terminal
<1> QED BY <1>1, <1>2 DEF End

LEMMA FailKeeps == ASSUME IInv, NEW j \in Job, Fail(j) PROVE IInv'
<1> DEFINE rec == [record[j] EXCEPT !.status = "failed"]
<1>1. rec \in Record /\ rec.status = "failed"
  BY DEF Fail, IInv, JobsTypeOK, RunnerInv, Started, Rows, Record, Status, Absent
<1>2. End(j, rec) /\ task[j] = "running"
  BY DEF Fail
<1> HIDE DEF rec
<1> QED BY <1>1, <1>2, EndKeeps DEF Terminal

LEMMA SucceededRecord ==
    ASSUME NEW r \in Record
    PROVE  LET rec == [r EXCEPT !.status = "succeeded", !.ref = TRUE]
           IN  rec \in Record /\ rec.status = "succeeded" /\ rec.ref
<1> DEFINE mid == [r EXCEPT !.status = "succeeded"]
<1>1. mid \in Record /\ mid.status = "succeeded"
  BY DEF Record, Status
<1> HIDE DEF mid
<1>2. LET rec == [mid EXCEPT !.ref = TRUE]
      IN  rec \in Record /\ rec.status = "succeeded" /\ rec.ref
  BY <1>1 DEF Record
<1> QED BY <1>2 DEF mid

LEMMA SucceedKeeps == ASSUME IInv, NEW j \in Job, Succeed(j) PROVE IInv'
<1> DEFINE rec == [record[j] EXCEPT !.status = "succeeded", !.ref = TRUE]
<1>0. record[j] \in Record
  BY DEF Succeed, IInv, JobsTypeOK, RunnerInv, Started, Rows, Record, Status, Absent
<1>1. rec \in Record /\ rec.status = "succeeded" /\ rec.ref
  BY <1>0, SucceededRecord
<1>2. End(j, rec) /\ task[j] = "running" /\ j \in Inline \cup saved
  BY DEF Succeed
<1> HIDE DEF rec
<1> QED BY <1>1, <1>2, EndKeeps DEF Terminal

LEMMA ReportKeeps == ASSUME IInv, NEW j \in Job, Report(j) PROVE IInv'
<1>1. record[j] = row[j] /\ row[j] \in Rows
  BY DEF Report, IInv, RunnerInv, JobsTypeOK
<1>2. row' = row
  BY <1>1 DEF Report, Upsert, IInv, JobsTypeOK
<1> QED BY <1>2 DEF Report, Upsert, IInv, JobsTypeOK, RunnerInv, TerminalInv,
           SucceededHasResult, NoSilentDeath

LEMMA SaveResultKeeps == ASSUME IInv, NEW j \in Job, SaveResult(j) PROVE IInv'
  BY DEF SaveResult, IInv, JobsTypeOK, RunnerInv, TerminalInv, SucceededHasResult,
         NoSilentDeath, Terminal

LEMMA RestartKeeps == ASSUME IInv, Restart PROVE IInv'
<1>1. restarts' > 0
  BY DEF Restart, IInv, JobsTypeOK
<1>2. \A j \in Job : /\ task'[j] \in {"none", "ended", "dead"}
                     /\ task'[j] = "none" => task[j] = "none"
                     /\ task[j] = "ended" => task'[j] = "ended"
  BY DEF Restart, IInv, JobsTypeOK
<1> QED BY <1>1, <1>2 DEF Restart, IInv, JobsTypeOK, RunnerInv, TerminalInv,
           SucceededHasResult, NoSilentDeath, Terminal

LEMMA StepKeeps == ASSUME IInv, [JobsNext]_jobvars PROVE IInv'
<1>1. CASE UNCHANGED jobvars
  BY <1>1 DEF jobvars, IInv, JobsTypeOK, RunnerInv, TerminalInv, SucceededHasResult,
              NoSilentDeath
<1>2. CASE JobsNext
  BY <1>2, SubmitKeeps, BeginKeeps, FailKeeps, SucceedKeeps, ReportKeeps, SaveResultKeeps,
     RestartKeeps DEF JobsNext, RunnerStep
<1> QED BY <1>1, <1>2

LEMMA Inductive == JobsSpec => []IInv
<1>1. JobsInit => IInv
  BY InitHolds
<1>2. IInv /\ [JobsNext]_jobvars => IInv'
  BY StepKeeps
<1> QED BY <1>1, <1>2, PTL DEF JobsSpec

\* Every row and record the manager writes is a JobRecord with one of the four
\* statuses of schemas.py (lines 30-34).
THEOREM JobsTypeCorrect == JobsSpec => []JobsTypeOK
<1>1. IInv => JobsTypeOK
  BY DEF IInv
<1> QED BY <1>1, Inductive, PTL

\* A row that says succeeded points at a result that exists (jobs.py:24-28).
THEOREM SuccessIsBacked == JobsSpec => []SucceededHasResult
<1>1. IInv => SucceededHasResult
  BY DEF IInv
<1> QED BY <1>1, Inductive, PTL

\* Only a restart or a refused store write can strand a row (jobs.py:19-33).
THEOREM NothingStrandsSilently == JobsSpec => []NoSilentDeath
<1>1. IInv => NoSilentDeath
  BY DEF IInv
<1> QED BY <1>1, Inductive, PTL

\* The terminal answer a poll saw is the answer for ever (jobs.py:35).
THEOREM TerminalRowsAreFinal == JobsSpec => TerminalIsFinal
<1> DEFINE Final == \A j \in Job : row[j].status \in Terminal => row'[j] = row[j]
<1>1. ASSUME IInv, [JobsNext]_jobvars PROVE Final
  <2> SUFFICES ASSUME NEW j \in Job, row[j].status \in Terminal PROVE row'[j] = row[j]
    OBVIOUS
  <2>1. task[j] = "ended"
    BY <1>1 DEF IInv, TerminalInv
  <2>2. row[j].status # "absent"
    BY DEF Terminal
  <2>3. CASE UNCHANGED jobvars
    BY <2>3 DEF jobvars
  <2>4. CASE Restart
    BY <2>4 DEF Restart
  <2>5. ASSUME NEW k \in Job, Submit(k) \/ RunnerStep(k) PROVE row'[j] = row[j]
    <3>1. k # j
      BY <2>1, <2>2, <2>5 DEF Submit, RunnerStep, Begin, Report, SaveResult, Succeed, Fail
    <3>2. \/ UNCHANGED row
          \/ \E rec : row' = [row EXCEPT ![k] = rec]
      BY <2>5 DEF Submit, RunnerStep, Begin, Report, SaveResult, Succeed, Fail, End, Upsert,
                  StoreRaises
    <3> QED BY <3>1, <3>2, <1>1 DEF IInv, JobsTypeOK
  <2> QED BY <1>1, <2>3, <2>4, <2>5 DEF JobsNext
<1>2. IInv /\ [JobsNext]_jobvars => [Final]_jobvars
  BY <1>1
<1> QED BY <1>2, Inductive, PTL DEF JobsSpec, TerminalIsFinal

-----------------------------------------------------------------------------
\* The refinement: every step of the manager is a step of JobContract, or leaves
\* what a client can see as it was.
LEMMA SameView ==
    ASSUME UNCHANGED <<row, saved>>
    PROVE  UNCHANGED Contract!cvars
BY DEF Contract!cvars, Polled, Fetchable

\* What one written row changes for the client.
LEMMA WriteShows ==
    ASSUME IInv, NEW j \in Job, NEW rec \in Record, Upsert(j, rec), saved' = saved
    PROVE  /\ Polled' = [Polled EXCEPT ![j] = rec.status]
           /\ rec.ref = row[j].ref => Fetchable' = Fetchable
           /\ rec.ref /\ j \in Inline \cup saved => Fetchable' = Fetchable \cup {j}
<1>1. row' = [row EXCEPT ![j] = rec] /\ row \in [Job -> Rows]
  BY DEF Upsert, IInv, JobsTypeOK
<1>2. row'[j] = rec /\ \A k \in Job \ {j} : row'[k] = row[k]
  BY <1>1
<1>3. Polled' = [Polled EXCEPT ![j] = rec.status]
  BY <1>2 DEF Polled
<1>4. Inline \subseteq Job
  BY JobsAssumption
<1>5. ASSUME rec.ref = row[j].ref PROVE Fetchable' = Fetchable
  BY <1>2, <1>4, <1>5 DEF Fetchable
<1>6. ASSUME rec.ref, j \in Inline \cup saved PROVE Fetchable' = Fetchable \cup {j}
  BY <1>2, <1>4, <1>6 DEF Fetchable
<1> QED BY <1>3, <1>5, <1>6

LEMMA AcceptStep == ASSUME IInv, NEW j \in Job, Submit(j) PROVE Contract!Accept(j)
<1>1. Fresh \in Record /\ Fresh.status = "queued" /\ Fresh.ref = FALSE
  BY DEF Fresh, Record, Status
<1>2. Upsert(j, Fresh) /\ saved' = saved /\ row[j] = Absent
  BY DEF Submit, Fresh, IInv, RunnerInv
<1>3. row[j].status = "absent" /\ row[j].ref = FALSE
  BY <1>2 DEF Absent
<1> QED BY <1>1, <1>2, <1>3, WriteShows DEF Contract!Accept, Contract!Move, Polled

LEMMA StartStep ==
    ASSUME IInv, NEW j \in Job, Begin(j), ~UNCHANGED row
    PROVE  Contract!Start(j)
<1>1. task[j] = "created" /\ saved' = saved /\ record[j] = Fresh /\ row[j] = Fresh
  BY DEF Begin, IInv, RunnerInv
<1>2. Upsert(j, [record[j] EXCEPT !.status = "running"])
  BY DEF Begin, StoreRaises
<1>3. Fresh.status = "queued" /\ Fresh.ref = FALSE
  BY DEF Fresh
<1>4. \A rec \in Record : rec.status = "running" /\ rec.ref = FALSE /\ Upsert(j, rec)
                           => Contract!Start(j)
  BY <1>1, <1>3, WriteShows DEF Contract!Start, Contract!Move, Polled
<1>5. LET rec == [Fresh EXCEPT !.status = "running"]
      IN  rec \in Record /\ rec.status = "running" /\ rec.ref = FALSE
  <2>1. Fresh \in Record
    BY DEF Fresh, Record, Status
  <2> QED BY <2>1, <1>3 DEF Record, Status
<1> QED BY <1>1, <1>2, <1>4, <1>5

LEMMA FailStep ==
    ASSUME IInv, NEW j \in Job, Fail(j), ~UNCHANGED row
    PROVE  Contract!Fail(j)
<1>1. task[j] = "running" /\ record[j] = Started /\ row[j] = Started
  BY DEF Fail, IInv, RunnerInv
<1>2. Upsert(j, [Started EXCEPT !.status = "failed"]) /\ saved' = saved
  BY <1>1 DEF Fail, End, StoreRaises
<1>3. Started \in Record /\ Started.status = "running" /\ Started.ref = FALSE
  BY DEF Started, Record, Status
<1>4. LET rec == [Started EXCEPT !.status = "failed"]
      IN  rec \in Record /\ rec.status = "failed" /\ rec.ref = FALSE
  BY <1>3 DEF Record, Status
<1>5. \A rec \in Record : rec.status = "failed" /\ rec.ref = FALSE /\ Upsert(j, rec)
                           => Contract!Fail(j)
  BY <1>1, <1>2, <1>3, WriteShows DEF Contract!Fail, Contract!Move, Polled
<1> QED BY <1>2, <1>4, <1>5

LEMMA SucceedStep ==
    ASSUME IInv, NEW j \in Job, Succeed(j), ~UNCHANGED row
    PROVE  Contract!Succeed(j)
<1> DEFINE rec == [record[j] EXCEPT !.status = "succeeded", !.ref = TRUE]
<1>1. record[j] = Started /\ row[j] = Started /\ j \in Inline \cup saved
  BY DEF Succeed, IInv, RunnerInv
<1>2. Upsert(j, rec) /\ saved' = saved
  BY DEF Succeed, End, StoreRaises
<1>3. Started \in Record /\ Started.status = "running"
  BY DEF Started, Record, Status
<1>4. rec \in Record /\ rec.status = "succeeded" /\ rec.ref
  BY <1>1, <1>3, SucceededRecord
<1> HIDE DEF rec
<1> QED BY <1>1, <1>2, <1>3, <1>4, WriteShows DEF Contract!Succeed, Contract!Move, Polled

LEMMA PublishStep == ASSUME IInv, NEW j \in Job, SaveResult(j) PROVE Contract!Publish(j)
<1>1. row[j].status = "running"
  BY DEF SaveResult, IInv, RunnerInv, Started
<1>2. row' = row /\ saved' = saved \cup {j}
  BY DEF SaveResult
<1> QED BY <1>1, <1>2 DEF Contract!Publish, Polled, Fetchable

\* A report writes the row it finds, which is why it is not a step of the contract.
LEMMA ReportShowsNothing == ASSUME IInv, NEW j \in Job, Report(j) PROVE UNCHANGED <<row, saved>>
<1>1. record[j] = row[j]
  BY DEF Report, IInv, RunnerInv
<1> QED BY <1>1 DEF Report, Upsert, IInv, JobsTypeOK

LEMMA StepRefines == IInv /\ [JobsNext]_jobvars => [Contract!Next]_Contract!cvars
<1> SUFFICES ASSUME IInv, [JobsNext]_jobvars PROVE Contract!Next \/ UNCHANGED Contract!cvars
  OBVIOUS
<1>1. ASSUME NEW j \in Job, Submit(j) PROVE Contract!Next
  BY <1>1, AcceptStep DEF Contract!Next
<1>2. ASSUME NEW j \in Job, SaveResult(j) PROVE Contract!Next
  BY <1>2, PublishStep DEF Contract!Next
<1>3. ASSUME NEW j \in Job, Begin(j) \/ Succeed(j) \/ Fail(j), ~UNCHANGED row
      PROVE  Contract!Next
  BY <1>3, StartStep, SucceedStep, FailStep DEF Contract!Next
<1>4. ASSUME NEW j \in Job, Begin(j) \/ Succeed(j) \/ Fail(j), UNCHANGED row
      PROVE  UNCHANGED Contract!cvars
  <2>1. saved' = saved
    BY <1>4 DEF Begin, Succeed, Fail, End
  <2> QED BY <1>4, <2>1, SameView
<1>5. ASSUME NEW j \in Job, Report(j) PROVE UNCHANGED Contract!cvars
  BY <1>5, ReportShowsNothing, SameView
<1>6. CASE Restart \/ UNCHANGED jobvars
  <2>1. UNCHANGED <<row, saved>>
    BY <1>6 DEF Restart, jobvars
  <2> QED BY <2>1, SameView
<1> QED BY <1>1, <1>2, <1>3, <1>4, <1>5, <1>6 DEF JobsNext, RunnerStep

LEMMA InitRefines == JobsInit => Contract!Init
<1> SUFFICES ASSUME JobsInit PROVE Contract!Init
  OBVIOUS
<1>1. \A j \in Job : row[j].status = "absent" /\ row[j].ref = FALSE
  BY DEF JobsInit, Absent
<1>2. Fetchable = {}
  BY <1>1, JobsAssumption DEF JobsInit, Fetchable
<1> QED BY <1>1, <1>2 DEF Contract!Init, Polled

\* The manager implements the contract a polling client relies on (jobs.py:15-38,
\* api.py:787-792): queued, running, one final answer, and a result behind success.
THEOREM JobsImplementContract == JobsSpec => ImplementsJobContract
BY Inductive, InitRefines, StepRefines, PTL DEF JobsSpec, ImplementsJobContract, Contract!Spec
=============================================================================
