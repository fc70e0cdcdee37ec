---------------------------- MODULE JobContract ----------------------------
(***************************************************************************)
(* What a client that polls a job may rely on, independently of tasks,     *)
(* store errors and restarts: the status moves one way, an answer is final *)
(* and one that says succeeded has a result to fetch.                      *)
(***************************************************************************)
CONSTANT Job

VARIABLES status,     \* the status a poll of each job answers
          results     \* the jobs whose result can be fetched

cvars == <<status, results>>

Init == status = [j \in Job |-> "absent"] /\ results = {}

Move(j, from, to) == status[j] = from /\ status' = [status EXCEPT ![j] = to]

Accept(j) == Move(j, "absent", "queued") /\ UNCHANGED results
Start(j)  == Move(j, "queued", "running") /\ UNCHANGED results

\* The result may be there before the status says so.
Publish(j) ==
    /\ status[j] = "running"
    /\ results' = results \cup {j}
    /\ UNCHANGED status

\* Success makes the result available at the latest.
Succeed(j) == Move(j, "running", "succeeded") /\ results' = results \cup {j}
Fail(j)    == Move(j, "running", "failed") /\ UNCHANGED results

Next == \E j \in Job : Accept(j) \/ Start(j) \/ Publish(j) \/ Succeed(j) \/ Fail(j)

Spec == Init /\ [][Next]_cvars
=============================================================================
