---------------------------- MODULE JobLifecycle ----------------------------
(***************************************************************************)
(* What the job store promises about one analysis job, whatever the store, *)
(* the number of workers and the number of API threads: the four values of *)
(* JobStatus (packages/ax_jobs/models.py) and the moves between them that  *)
(* an owner of the job may see.  JobPipeline is shown to implement it.     *)
(***************************************************************************)
CONSTANT Jobs          \* the job ids (uuid4 strings in the code)

VARIABLE status        \* status[j]: "none" before the job's row is written

Statuses == {"none", "queued", "running", "completed", "failed"}

Init == status = [j \in Jobs |-> "none"]

Move(j, from, to) ==
    /\ status[j] \in from
    /\ status' = [status EXCEPT ![j] = to]

\* POST /analyses writes the row of a new job.
Submit(j) == Move(j, {"none"}, "queued")

\* A worker starts a job only if it waits in the queue.
Start(j) == Move(j, {"queued"}, "running")

\* Only the run in progress records a result.
Complete(j) == Move(j, {"running"}, "completed")

\* A run that raised is failed; so is a run whose result was recorded but
\* whose completion could not be announced.
Fail(j) == Move(j, {"running", "completed"}, "failed")

\* Only a failed job goes back to the queue.
Retry(j) == Move(j, {"failed"}, "queued")

Next == \E j \in Jobs :
            Submit(j) \/ Start(j) \/ Complete(j) \/ Fail(j) \/ Retry(j)

Spec == Init /\ [][Next]_status
=============================================================================
