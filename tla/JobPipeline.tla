----------------------------- MODULE JobPipeline -----------------------------
(***************************************************************************)
(* The life of analysis jobs in the Redis and Postgres deployments:        *)
(*                                                                         *)
(*   API threads   POST /analyses and POST /analyses/{id}/retry            *)
(*                 (apps/api/ax_api/routes/analyses.py)                    *)
(*   job rows      RedisJobStore / PostgresJobStore (packages/ax_jobs)     *)
(*   queue         the Redis list, RPUSH by the API, BLPOP by the workers  *)
(*   workers       run_consumer / process_job (apps/worker)                *)
(*                                                                         *)
(* Every call to the store is a step of its own, because API threads and   *)
(* worker processes interleave between any two of them.  update_job is     *)
(* two steps: both stores read the row and then write it.  The running of  *)
(* the analysis itself is one step with two outcomes.                      *)
(***************************************************************************)
EXTENDS Naturals, Sequences, FiniteSets

CONSTANTS
    Jobs,           \* job ids: each is used by at most one POST /analyses
    Workers,        \* worker processes
    Threads,        \* API request threads
    NoJob,          \* the actor works on no job
    Backend,        \* which store is deployed: "redis" or "postgres"
    SerialRetries,  \* TRUE: a client waits for the answer to a retry before
                    \* it sends another one for the same job
    MaxFaults       \* bound on the crashes and failed store calls explored

ASSUME JobPipelineAssumption ==
    /\ NoJob \notin Jobs
    /\ Workers \cap Threads = {}
    /\ Backend \in {"redis", "postgres"}
    /\ SerialRetries \in BOOLEAN
    /\ MaxFaults \in Nat

VARIABLES
    row,        \* row[j]: the stored record, status "none" when there is none
    queue,      \* the Redis list of job ids
    charged,    \* charged[j]: committed charges for j (Postgres with billing)
    pc,         \* pc[a]: the next store call of actor a
    job,        \* job[a]: the job a works on
    goal,       \* goal[a]: what that work is for
    snap,       \* snap[a]: the row as update_job read it
    faults      \* crashes and failed calls so far

vars == <<row, queue, charged, pc, job, goal, snap, faults>>
actorVars == <<pc, job, goal, snap>>

Actors == Workers \cup Threads

\* Stored errors, by what classify_job_error says of them.
Failures == {"retryable", "fatal"}
Statuses == {"none", "queued", "running", "completed", "failed"}
Row == [status : Statuses, error : {"none"} \cup Failures, report : BOOLEAN]
NoRow == [status |-> "none", error |-> "none", report |-> FALSE]
NewRow == [NoRow EXCEPT !.status = "queued"]

Steps == {"idle", "insert", "push", "commit",
          "fetch", "load", "store", "announce", "run", "upload"}
Goals == {"none", "create", "requeue", "running", "completed"} \cup Failures

Init ==
    /\ row = [j \in Jobs |-> NoRow]
    /\ queue = <<>>
    /\ charged = [j \in Jobs |-> 0]
    /\ pc = [a \in Actors |-> "idle"]
    /\ job = [a \in Actors |-> NoJob]
    /\ goal = [a \in Actors |-> "none"]
    /\ snap = [a \in Actors |-> NoRow]
    /\ faults = 0

-----------------------------------------------------------------------------
(* Moving an actor on                                                       *)

\* a takes up job j for goal g.
Begin(a, j, g, step) ==
    /\ pc' = [pc EXCEPT ![a] = step]
    /\ job' = [job EXCEPT ![a] = j]
    /\ goal' = [goal EXCEPT ![a] = g]
    /\ UNCHANGED snap

\* a goes on with its job.
GoTo(a, step) ==
    /\ pc' = [pc EXCEPT ![a] = step]
    /\ UNCHANGED <<job, goal, snap>>

\* a lets its job go: the request is answered, or process_job returned.
Release(a) ==
    /\ pc' = [pc EXCEPT ![a] = "idle"]
    /\ job' = [job EXCEPT ![a] = NoJob]
    /\ goal' = [goal EXCEPT ![a] = "none"]
    /\ snap' = [snap EXCEPT ![a] = NoRow]

-----------------------------------------------------------------------------
(* update_job, the one read-modify-write that API and workers share         *)

\* Mutants: a requeue that keeps the old error, or blanks it.
Changed_KeepsError(r, g) ==
    CASE g = "running"   -> [r EXCEPT !.status = "running"]
      [] g = "completed" -> [r EXCEPT !.status = "completed", !.report = TRUE]
      [] g = "requeue"   -> [r EXCEPT !.status = "queued"]
      [] g \in Failures  -> [r EXCEPT !.status = "failed", !.error = g]
      [] OTHER           -> r

Changed_BlanksError(r, g) ==
    IF g = "requeue" THEN [r EXCEPT !.status = "queued", !.error = ""]
    ELSE Changed_KeepsError(r, g)

\* The record after update_job set the fields of goal g on record r.
Changed(r, g) ==
    CASE g = "running"   -> [r EXCEPT !.status = "running"]
      [] g = "completed" -> [r EXCEPT !.status = "completed", !.report = TRUE]
      [] g = "requeue"   -> [r EXCEPT !.status = "queued", !.error = "none"]
      [] g \in Failures  -> [r EXCEPT !.status = "failed", !.error = g]
      [] OTHER           -> r

\* What the write leaves in the store when the row is now cur and was read as
\* old: Redis sets the whole record it read and changed; the ORM updates the
\* columns whose value it changed.
Written(cur, old, g) ==
    LET new == Changed(old, g)
        Column(n, o, c) == IF n = o THEN c ELSE n
    IN  IF Backend = "redis"
        THEN new
        ELSE [status |-> Column(new.status, old.status, cur.status),
              error  |-> Column(new.error, old.error, cur.error),
              report |-> Column(new.report, old.report, cur.report)]

LoadRow(a) ==
    /\ pc[a] = "load"
    /\ pc' = [pc EXCEPT ![a] = "store"]
    /\ snap' = [snap EXCEPT ![a] = row[job[a]]]
    /\ UNCHANGED <<row, queue, charged, job, goal, faults>>

\* Mutant: a requeue that forgets RPUSH.
StoreRow_NoPush(a) ==
    /\ pc[a] = "store"
    /\ row' = [row EXCEPT ![job[a]] = Written(@, snap[a], goal[a])]
    /\ pc' = [pc EXCEPT ![a] = "announce"]
    /\ snap' = [snap EXCEPT ![a] = NoRow]
    /\ UNCHANGED <<queue, charged, job, goal, faults>>

StoreRow(a) ==
    /\ pc[a] = "store"
    /\ row' = [row EXCEPT ![job[a]] = Written(@, snap[a], goal[a])]
    /\ pc' = [pc EXCEPT ![a] = IF goal[a] = "requeue" THEN "push" ELSE "announce"]
    /\ snap' = [snap EXCEPT ![a] = NoRow]
    /\ UNCHANGED <<queue, charged, job, goal, faults>>

-----------------------------------------------------------------------------
(* POST /analyses                                                           *)

\* Mutant: the id is pushed before its row is written.
CreateAnalysis_PushFirst(t, j) ==
    /\ pc[t] = "idle"
    /\ row[j].status = "none"
    /\ \A a \in Actors : job[a] # j
    /\ Begin(t, j, "create", "push")
    /\ UNCHANGED <<row, queue, charged, faults>>

\* The request passed its checks; with Postgres the charge is flushed in a
\* transaction that stays open until CommitCharge.
CreateAnalysis(t, j) ==
    /\ pc[t] = "idle"
    /\ row[j].status = "none"
    /\ \A a \in Actors : job[a] # j
    /\ Begin(t, j, "create", "insert")
    /\ UNCHANGED <<row, queue, charged, faults>>

InsertRow(t) ==
    /\ pc[t] = "insert"
    /\ row' = [row EXCEPT ![job[t]] = NewRow]
    /\ GoTo(t, "push")
    /\ UNCHANGED <<queue, charged, faults>>

\* Mutant: a retry is charged like a new job.
PushJob_ChargesRetry(t) ==
    /\ pc[t] = "push"
    /\ queue' = Append(queue, job[t])
    /\ GoTo(t, IF Backend = "postgres" THEN "commit" ELSE "announce")
    /\ UNCHANGED <<row, charged, faults>>

\* RPUSH, the last step of create_job and of requeue_job.
PushJob(t) ==
    /\ pc[t] = "push"
    /\ queue' = Append(queue, job[t])
    /\ GoTo(t, IF goal[t] = "create" /\ Backend = "postgres" THEN "commit" ELSE "announce")
    /\ UNCHANGED <<row, charged, faults>>

CommitCharge(t) ==
    /\ pc[t] = "commit"
    /\ charged' = [charged EXCEPT ![job[t]] = @ + 1]
    /\ GoTo(t, "announce")
    /\ UNCHANGED <<row, queue, faults>>

-----------------------------------------------------------------------------
(* POST /analyses/{id}/retry                                                *)

\* Mutant: no check of the status.
RetryAnalysis_AnyStatus(t, j) ==
    /\ pc[t] = "idle"
    /\ row[j].status # "none"
    /\ SerialRetries => ~ \E u \in Threads : job[u] = j /\ goal[u] = "requeue"
    /\ Begin(t, j, "requeue", "load")
    /\ UNCHANGED <<row, queue, charged, faults>>

\* The job exists, is failed and its error is retryable; any other request is
\* answered with an error and changes nothing.
RetryAnalysis(t, j) ==
    /\ pc[t] = "idle"
    /\ row[j].status = "failed"
    /\ row[j].error = "retryable"
    /\ SerialRetries => ~ \E u \in Threads : job[u] = j /\ goal[u] = "requeue"
    /\ Begin(t, j, "requeue", "load")
    /\ UNCHANGED <<row, queue, charged, faults>>

-----------------------------------------------------------------------------
(* The worker loop                                                          *)

\* Mutant: the id is read and left in the list.
Dequeue_Peek(w) ==
    /\ pc[w] = "idle"
    /\ queue # <<>>
    /\ Begin(w, Head(queue), "running", "fetch")
    /\ UNCHANGED <<row, queue, charged, faults>>

\* BLPOP: from here on the id is nowhere but in this process.
Dequeue(w) ==
    /\ pc[w] = "idle"
    /\ queue # <<>>
    /\ queue' = Tail(queue)
    /\ Begin(w, Head(queue), "running", "fetch")
    /\ UNCHANGED <<row, charged, faults>>

\* process_job reads the job, and skips an id that has none.  It does not look
\* at the status.
FetchJob(w) ==
    /\ pc[w] = "fetch"
    /\ IF row[job[w]].status = "none" THEN Release(w) ELSE GoTo(w, "load")
    /\ UNCHANGED <<row, queue, charged, faults>>

\* run_analysis_job returns.
EngineReturns(w) ==
    /\ pc[w] = "run"
    /\ GoTo(w, "upload")
    /\ UNCHANGED <<row, queue, charged, faults>>

\* upload_report_tree, or nothing with local storage.
UploadReport(w) ==
    /\ pc[w] = "upload"
    /\ Begin(w, job[w], "completed", "load")
    /\ UNCHANGED <<row, queue, charged, faults>>

\* Mutant: the try block starts before the update to "running".
InTry_Wide(w) == pc[w] \in {"load", "store", "announce", "run", "upload"}

\* The try block of process_job: the engine, the upload, the recording of the
\* result and its announcement.
InTry(w) ==
    \/ pc[w] \in {"run", "upload"}
    \/ goal[w] = "completed" /\ pc[w] \in {"load", "store", "announce"}

\* An exception in the try block, with an error of either class.
Raise(w) ==
    /\ InTry(w)
    /\ \E e \in Failures :
          /\ pc' = [pc EXCEPT ![w] = "load"]
          /\ goal' = [goal EXCEPT ![w] = e]
          /\ snap' = [snap EXCEPT ![w] = NoRow]
    /\ UNCHANGED <<row, queue, charged, job, faults>>

-----------------------------------------------------------------------------
(* Announcements, and what the environment may do                           *)

\* publish_event: "started" leads into the run, every other one ends the work.
Announce(a) ==
    /\ pc[a] = "announce"
    /\ IF goal[a] = "running" THEN GoTo(a, "run") ELSE Release(a)
    /\ UNCHANGED <<row, queue, charged, faults>>

\* The process dies, or a store call outside process_job's try block raises:
\* a worker leaves run_consumer, a request is answered with 500 and its open
\* transaction rolled back.  What was written stays.
Lose(a) ==
    /\ faults < MaxFaults
    /\ pc[a] # "idle"
    /\ faults' = faults + 1
    /\ Release(a)
    /\ UNCHANGED <<row, queue, charged>>

-----------------------------------------------------------------------------
UpdateJob(a) == LoadRow(a) \/ StoreRow(a)

WorkerStep(w) ==
    Dequeue(w) \/ FetchJob(w) \/ EngineReturns(w) \/ UploadReport(w)

ThreadStep(t) == InsertRow(t) \/ PushJob(t) \/ CommitCharge(t)

Request(t) == \E j \in Jobs : CreateAnalysis(t, j) \/ RetryAnalysis(t, j)

Next ==
    \/ \E a \in Actors : UpdateJob(a) \/ Announce(a) \/ Lose(a)
    \/ \E w \in Workers : WorkerStep(w) \/ Raise(w)
    \/ \E t \in Threads : ThreadStep(t) \/ Request(t)

Spec == Init /\ [][Next]_vars

\* Every process and every request thread keeps running, and the analysis
\* ends: the graph has a recursion limit.  Requests need not arrive, nothing
\* has to fail.
Fairness ==
    /\ \A w \in Workers : WF_vars(UpdateJob(w) \/ Announce(w) \/ WorkerStep(w))
    /\ \A t \in Threads : WF_vars(UpdateJob(t) \/ Announce(t) \/ ThreadStep(t))

FairSpec == Spec /\ Fairness

-----------------------------------------------------------------------------
(* Properties                                                               *)

\* The stored rows, the queue and the actors' local state keep their types.
TypeOK ==
    /\ row \in [Jobs -> Row]
    /\ queue \in Seq(Jobs)
    /\ charged \in [Jobs -> Nat]
    /\ pc \in [Actors -> Steps]
    /\ job \in [Actors -> Jobs \cup {NoJob}]
    /\ goal \in [Actors -> Goals]
    /\ snap \in [Actors -> Row]
    /\ faults \in Nat

\* a is the one who will decide what happens to its job next: a worker until
\* it recorded how the run ended, a request until it pushed the id.
Owns(a) ==
    \/ pc[a] \in {"insert", "push", "fetch", "load", "store", "run", "upload"}
    \/ pc[a] = "announce" /\ goal[a] \in {"running", "completed"}

Queued(j) == \E i \in 1..Len(queue) : queue[i] = j

\* A job is never in the queue twice, never in two hands, and never both
\* queued and in hand: no two workers run it, no retry races a run.  This is
\* what BLPOP, the status check of retry_analysis and the order of the store
\* calls have to add up to.
Exclusive ==
    /\ \A a, b \in Actors :
          Owns(a) /\ Owns(b) /\ job[a] = job[b] => a = b
    /\ \A a \in Actors : Owns(a) => ~ Queued(job[a])
    /\ \A i, k \in 1..Len(queue) : queue[i] = queue[k] => i = k

\* The read-modify-write of update_job is not atomic in either store, yet no
\* update is lost: a row is written only over the value that was read.
NoLostUpdate ==
    \A a \in Actors : pc[a] = "store" => snap[a] = row[job[a]]

\* An id in the queue always has a row, and so does a job that anybody works
\* on, except the request that is about to insert it: both create_job write
\* the row before RPUSH, so the "not found, skipping" branch of process_job
\* never drops a job.
NoGhostJobs ==
    /\ \A j \in Jobs : Queued(j) => row[j].status # "none"
    /\ \A a \in Actors : pc[a] \notin {"idle", "insert"} => row[job[a]].status # "none"

\* Without a crash or a failed store call a job that has not ended is in the
\* queue or in somebody's hands: no interleaving of the calls loses it.
NothingStranded ==
    faults = 0 =>
        \A j \in Jobs : row[j].status \in {"queued", "running"} =>
            Queued(j) \/ \E a \in Actors : Owns(a) /\ job[a] = j

\* What readers of the row rely on: a completed job has a report and no error
\* left over from an earlier attempt; an error means the job is failed, so
\* that the retry route can classify it.
OutcomeRecorded ==
    \A j \in Jobs :
        /\ row[j].status = "completed" => row[j].report
        /\ row[j].error # "none" <=> row[j].status = "failed"

\* A job is paid for at most once, however often it is retried, and never if
\* it has no row; once its request is answered without a fault it is paid for.
ChargedOnce ==
    \A j \in Jobs :
        /\ charged[j] <= 1
        /\ charged[j] = 1 => row[j].status # "none"
        /\ Backend = "postgres" /\ faults = 0 /\ row[j].status # "none" =>
              \/ charged[j] = 1
              \/ \E t \in Threads : job[t] = j /\ goal[t] = "create"

\* The steps and goals each kind of actor can be at.
WorkerAt(w) ==
    \/ pc[w] = "idle" /\ goal[w] = "none"
    \/ pc[w] \in {"fetch", "run", "upload"} /\ goal[w] = "running"
    \/ /\ pc[w] \in {"load", "store", "announce"}
       /\ goal[w] \in {"running", "completed"} \cup Failures

ThreadAt(t) ==
    \/ pc[t] = "idle" /\ goal[t] = "none"
    \/ pc[t] \in {"insert", "commit"} /\ goal[t] = "create"
    \/ pc[t] \in {"push", "announce"} /\ goal[t] \in {"create", "requeue"}
    \/ pc[t] \in {"load", "store"} /\ goal[t] = "requeue"

\* Status s of its row is the one that gives an owner at step p for goal g
\* its turn.
Turn(p, g, s) ==
    \/ p = "insert" /\ s = "none"
    \/ p = "push" /\ s = "queued"
    \/ p \in {"load", "store"} /\ g = "requeue" /\ s = "failed"
    \/ p \in {"fetch", "load", "store"} /\ g = "running" /\ s = "queued"
    \/ p \in {"announce", "run", "upload"} /\ g = "running" /\ s = "running"
    \/ p \in {"load", "store"} /\ g = "completed" /\ s = "running"
    \/ p = "announce" /\ g = "completed" /\ s = "completed"
    \/ p \in {"load", "store"} /\ g \in Failures /\ s \in {"running", "completed"}

\* An actor works on a job exactly while it is not idle.
ActorsAt ==
    /\ \A w \in Workers : WorkerAt(w)
    /\ \A t \in Threads : ThreadAt(t)
    /\ \A a \in Actors : pc[a] = "idle" <=> job[a] = NoJob

\* Why Exclusive is inductive: the status of a row tells whose turn it is.
TurnOf ==
    /\ \A a \in Actors : Owns(a) => Turn(pc[a], goal[a], row[job[a]].status)
    /\ \A j \in Jobs : Queued(j) => row[j].status = "queued"

\* A request that creates a job has it to itself, and pays for it last.
CreatorsApart ==
    /\ \A s, t \in Threads :
          goal[s] = "create" /\ goal[t] = "create" /\ job[s] = job[t] => s = t
    /\ \A t \in Threads : goal[t] = "create" =>
          /\ pc[t] \in {"insert", "push", "commit"} => charged[job[t]] = 0
          /\ pc[t] = "announce" /\ Backend = "postgres" => charged[job[t]] = 1

\* What holds even if clients send overlapping retries.
BaseInv ==
    /\ TypeOK
    /\ ActorsAt
    /\ NoGhostJobs
    /\ CreatorsApart
    /\ ChargedOnce

\* What needs the retries of a job to be serial.
OwnerInv ==
    /\ Exclusive
    /\ TurnOf
    /\ NoLostUpdate
    /\ NothingStranded
    /\ OutcomeRecorded

IInv == BaseInv /\ OwnerInv

\* The rows implement the abstract life cycle.
Lifecycle == INSTANCE JobLifecycle WITH status <- [j \in Jobs |-> row[j].status]
LifecycleSpec == Lifecycle!Spec

\* A job that has been recorded as completed is not run again: it can only
\* still become failed, when its completion could not be announced.
CompletedStays ==
    [][\A j \in Jobs : row[j].status = "completed" =>
          row'[j].status \in {"completed", "failed"}]_vars

\* Every accepted job ends, as long as the processes keep running: the queue
\* is served in order, and a run always reaches a recorded result.
EveryJobEnds ==
    \A j \in Jobs :
        row[j].status \in {"queued", "running"}
            ~> row[j].status \in {"completed", "failed"}

=============================================================================
