------------------------- MODULE JobPipeline_proofs -------------------------
(***************************************************************************)
(* Proofs about JobPipeline, for any sets of jobs, workers and threads,    *)
(* either store and any number of faults.                                  *)
(*                                                                         *)
(* BaseInv is inductive by itself and holds however the clients retry: one *)
(* lemma <Action>Base per action.  OwnerInv needs that the retries of one  *)
(* job do not overlap (SerialRetries), and BaseInv: one lemma <Action>Step *)
(* per action.  Exclusive alone is not inductive: a retry may only start   *)
(* because a failed row has no owner, and a worker may only write          *)
(* "running" because the row of a queued id is "queued".  TurnOf ties the  *)
(* status of a row to the step of its owner and carries the argument;      *)
(* NoLostUpdate then makes both stores write the same row.                 *)
(***************************************************************************)
EXTENDS JobPipeline, TLAPS

-----------------------------------------------------------------------------
(* Lemmas about the operators                                               *)

\* Changed gives a record of the store.
LEMMA ChangedType ==
    ASSUME NEW r \in Row, NEW g \in Goals
    PROVE  Changed(r, g) \in Row
  BY DEF Changed, Row, Goals, Failures, Statuses

\* An update that reads what it overwrites leaves the same row in both stores.
LEMMA WrittenSame ==
    ASSUME NEW r \in Row, NEW g \in Goals
    PROVE  Written(r, r, g) = Changed(r, g)
<1>1. Changed(r, g) \in Row
  BY ChangedType
<1>2. QED
  BY <1>1 DEF Written, Row, Statuses, Failures

\* The initial record is a record of the store.
LEMMA NoRowType == NoRow \in Row
  BY DEF NoRow, Row, Statuses

\* The id a worker takes off the queue was queued, and no other id moves.
LEMMA DequeueQueued ==
    ASSUME NEW w \in Workers, queue \in Seq(Jobs), Dequeue(w)
    PROVE  /\ Queued(Head(queue))
           /\ \A j \in Jobs : Queued(j)' => Queued(j)
           /\ \A j \in Jobs : Queued(j) => Queued(j)' \/ j = Head(queue)
<1> USE DEF Dequeue, Queued
<1>1. Queued(Head(queue))
  OBVIOUS
<1>2. ASSUME NEW j \in Jobs, Queued(j)'
      PROVE  Queued(j)
  <2>1. PICK i \in 1..Len(Tail(queue)) : Tail(queue)[i] = j
    BY <1>2
  <2>2. queue[i + 1] = j /\ i + 1 \in 1..Len(queue)
    BY <2>1
  <2>3. QED
    BY <2>2
<1>3. ASSUME NEW j \in Jobs, Queued(j), j # Head(queue)
      PROVE  Queued(j)'
  <2>1. PICK i \in 1..Len(queue) : queue[i] = j
    BY <1>3
  <2>2. i - 1 \in 1..Len(Tail(queue)) /\ Tail(queue)[i - 1] = j
    BY <1>3, <2>1
  <2>3. QED
    BY <2>2
<1>4. QED
  BY <1>1, <1>2, <1>3

\* RPUSH adds one id to the queue.
LEMMA PushQueued ==
    ASSUME NEW t \in Threads, queue \in Seq(Jobs), PushJob(t), job[t] \in Jobs
    PROVE  \A j \in Jobs : Queued(j)' <=> Queued(j) \/ j = job[t]
<1> USE DEF PushJob, Queued
<1>1. queue'[Len(queue) + 1] = job[t] /\ Len(queue') = Len(queue) + 1
  OBVIOUS
<1>2. \A i \in 1..Len(queue) : queue'[i] = queue[i]
  OBVIOUS
<1>3. QED
  BY <1>1, <1>2

\* Nothing is stranded by a step that keeps every owner and the queue, and
\* leaves no new job unfinished.
LEMMA NoneStranded ==
    ASSUME NothingStranded,
           faults' = faults,
           \A j \in Jobs : row'[j].status \in {"queued", "running"} =>
                               row[j].status \in {"queued", "running"},
           \A j \in Jobs : Queued(j) => Queued(j)',
           \A a \in Actors : Owns(a) => Owns(a)' /\ job'[a] = job[a]
    PROVE  NothingStranded'
  BY DEF NothingStranded

-----------------------------------------------------------------------------
(* BaseInv is inductive, whether or not retries overlap                     *)

\* Whatever update_job writes over a row, the row stays a record of the store
\* and does not vanish.
LEMMA WrittenKeepsRow ==
    ASSUME NEW c \in Row, NEW o \in Row, c.status # "none",
           NEW g \in {"running", "completed", "requeue"} \cup Failures
    PROVE  Written(c, o, g) \in Row /\ Written(c, o, g).status # "none"
<1>1. Changed(o, g) \in Row /\ Changed(o, g).status # "none"
  BY DEF Changed, Row, Failures, Statuses
<1>2. QED
  BY <1>1 DEF Written, Row, Statuses, Failures

LEMMA StoreRowBase ==
    ASSUME BaseInv, NEW a \in Actors, StoreRow(a)
    PROVE  BaseInv'
<1> USE JobPipelineAssumption DEF BaseInv, TypeOK, Actors
<1> DEFINE j == job[a]
<1>a. j \in Jobs /\ pc[a] = "store" /\ row[j].status # "none"
  BY DEF ActorsAt, StoreRow, NoGhostJobs
<1>b. goal[a] \in {"running", "completed", "requeue"} \cup Failures
  BY <1>a DEF ActorsAt, WorkerAt, ThreadAt
<1>c. /\ pc' = [pc EXCEPT ![a] = IF goal[a] = "requeue" THEN "push" ELSE "announce"]
      /\ snap' = [snap EXCEPT ![a] = NoRow]
      /\ UNCHANGED <<queue, charged, job, goal, faults>>
  BY DEF StoreRow
<1>d. /\ row' \in [Jobs -> Row]
      /\ \A k \in Jobs : row[k].status # "none" <=> row'[k].status # "none"
  BY <1>a, <1>b, WrittenKeepsRow DEF StoreRow
<1>1. TypeOK'
  BY <1>a, <1>c, <1>d, NoRowType DEF Steps
<1>2. ActorsAt'
  BY <1>a, <1>b, <1>c DEF ActorsAt, WorkerAt, ThreadAt, Failures
<1>3. NoGhostJobs'
  BY <1>a, <1>c, <1>d DEF NoGhostJobs, Queued, ActorsAt
<1>4. CreatorsApart'
  BY <1>a, <1>b, <1>c DEF CreatorsApart, Failures
<1>5. ChargedOnce'
  BY <1>c, <1>d DEF ChargedOnce
<1>6. QED
  BY <1>1, <1>2, <1>3, <1>4, <1>5

LEMMA LoadRowBase ==
    ASSUME BaseInv, NEW a \in Actors, LoadRow(a)
    PROVE  BaseInv'
<1> USE JobPipelineAssumption DEF BaseInv, TypeOK, Actors, LoadRow
<1>1. TypeOK'
  BY NoRowType DEF Steps, Goals, ActorsAt
<1>2. ActorsAt'
  BY DEF ActorsAt, WorkerAt, ThreadAt
<1>3. NoGhostJobs'
  BY DEF NoGhostJobs, Queued, ActorsAt
<1>4. CreatorsApart'
  BY DEF CreatorsApart, ActorsAt
<1>5. ChargedOnce'
  BY DEF ChargedOnce, CreatorsApart, ActorsAt, ThreadAt, WorkerAt
<1>6. QED
  BY <1>1, <1>2, <1>3, <1>4, <1>5

LEMMA AnnounceBase ==
    ASSUME BaseInv, NEW a \in Actors, Announce(a)
    PROVE  BaseInv'
<1> USE JobPipelineAssumption DEF BaseInv, TypeOK, Actors, Announce, GoTo, Release
<1>1. \A t \in Threads : goal'[t] = "create" =>
         goal[t] = "create" /\ job'[t] = job[t] /\ pc'[t] = pc[t]
  BY DEF ActorsAt, ThreadAt
<1>2. TypeOK'
  BY NoRowType, ZenonT(30) DEF Steps, Goals, ActorsAt
<1>3. ActorsAt'
  BY DEF ActorsAt, WorkerAt, ThreadAt
<1>4. NoGhostJobs'
  BY DEF NoGhostJobs, Queued, ActorsAt
<1>5. CreatorsApart'
  BY <1>1 DEF CreatorsApart
<1>6. ChargedOnce'
  BY DEF ChargedOnce, CreatorsApart, ActorsAt, ThreadAt, WorkerAt
<1>7. QED
  BY <1>2, <1>3, <1>4, <1>5, <1>6

LEMMA LoseBase ==
    ASSUME BaseInv, NEW a \in Actors, Lose(a)
    PROVE  BaseInv'
<1> USE JobPipelineAssumption DEF BaseInv, TypeOK, Actors, Lose, Release
<1>1. TypeOK'
  BY NoRowType DEF Steps, Goals, ActorsAt
<1>2. ActorsAt'
  BY DEF ActorsAt, WorkerAt, ThreadAt
<1>3. NoGhostJobs'
  BY DEF NoGhostJobs, Queued, ActorsAt
<1>4. CreatorsApart'
  BY DEF CreatorsApart, ActorsAt
<1>5. ChargedOnce'
  BY DEF ChargedOnce, CreatorsApart, ActorsAt, ThreadAt, WorkerAt
<1>6. QED
  BY <1>1, <1>2, <1>3, <1>4, <1>5

LEMMA DequeueBase ==
    ASSUME BaseInv, NEW w \in Workers, Dequeue(w)
    PROVE  BaseInv'
<1> USE JobPipelineAssumption DEF BaseInv, TypeOK, Actors, Dequeue, Begin
<1>1. TypeOK'
  BY NoRowType DEF Steps, Goals, ActorsAt
<1>2. ActorsAt'
  BY DEF ActorsAt, WorkerAt, ThreadAt
<1>3. NoGhostJobs'
  BY DEF NoGhostJobs, Queued, ActorsAt
<1>4. CreatorsApart'
  BY DEF CreatorsApart, ActorsAt
<1>5. ChargedOnce'
  BY DEF ChargedOnce, CreatorsApart, ActorsAt, ThreadAt, WorkerAt
<1>6. QED
  BY <1>1, <1>2, <1>3, <1>4, <1>5

LEMMA FetchJobBase ==
    ASSUME BaseInv, NEW w \in Workers, FetchJob(w)
    PROVE  BaseInv'
<1> USE JobPipelineAssumption DEF BaseInv, TypeOK, Actors, FetchJob, GoTo, Release
<1>1. \A t \in Threads : goal'[t] = goal[t] /\ job'[t] = job[t] /\ pc'[t] = pc[t]
  OBVIOUS
<1>2. TypeOK'
  <2>1. CASE row[job[w]].status = "none"
    BY <2>1, NoRowType, ZenonT(30) DEF Steps, Goals
  <2>2. CASE row[job[w]].status # "none"
    BY <2>2 DEF Steps
  <2>3. QED
    BY <2>1, <2>2
<1>3. ActorsAt'
  BY ZenonT(30) DEF ActorsAt, WorkerAt, ThreadAt
<1>4. NoGhostJobs'
  BY DEF NoGhostJobs, Queued, ActorsAt
<1>5. CreatorsApart'
  BY <1>1 DEF CreatorsApart
<1>6. ChargedOnce'
  BY DEF ChargedOnce, CreatorsApart, ActorsAt, ThreadAt, WorkerAt
<1>7. QED
  BY <1>2, <1>3, <1>4, <1>5, <1>6

LEMMA EngineReturnsBase ==
    ASSUME BaseInv, NEW w \in Workers, EngineReturns(w)
    PROVE  BaseInv'
<1> USE JobPipelineAssumption DEF BaseInv, TypeOK, Actors, EngineReturns, GoTo
<1>1. TypeOK'
  BY NoRowType DEF Steps, Goals, ActorsAt
<1>2. ActorsAt'
  BY DEF ActorsAt, WorkerAt, ThreadAt
<1>3. NoGhostJobs'
  BY DEF NoGhostJobs, Queued, ActorsAt
<1>4. CreatorsApart'
  BY DEF CreatorsApart, ActorsAt
<1>5. ChargedOnce'
  BY DEF ChargedOnce, CreatorsApart, ActorsAt, ThreadAt, WorkerAt
<1>6. QED
  BY <1>1, <1>2, <1>3, <1>4, <1>5

LEMMA UploadReportBase ==
    ASSUME BaseInv, NEW w \in Workers, UploadReport(w)
    PROVE  BaseInv'
<1> USE JobPipelineAssumption DEF BaseInv, TypeOK, Actors, UploadReport, Begin
<1>1. TypeOK'
  BY NoRowType DEF Steps, Goals, ActorsAt
<1>2. ActorsAt'
  BY DEF ActorsAt, WorkerAt, ThreadAt
<1>3. NoGhostJobs'
  BY DEF NoGhostJobs, Queued, ActorsAt
<1>4. CreatorsApart'
  BY DEF CreatorsApart, ActorsAt
<1>5. ChargedOnce'
  BY DEF ChargedOnce, CreatorsApart, ActorsAt, ThreadAt, WorkerAt
<1>6. QED
  BY <1>1, <1>2, <1>3, <1>4, <1>5

LEMMA RaiseBase ==
    ASSUME BaseInv, NEW w \in Workers, Raise(w)
    PROVE  BaseInv'
<1> USE JobPipelineAssumption DEF BaseInv, TypeOK, Actors
<1>1. PICK e \in Failures :
         /\ pc' = [pc EXCEPT ![w] = "load"]
         /\ goal' = [goal EXCEPT ![w] = e]
         /\ snap' = [snap EXCEPT ![w] = NoRow]
         /\ UNCHANGED <<row, queue, charged, job, faults>>
  BY DEF Raise
<1>a. pc[w] \notin {"idle", "insert"}
  BY DEF Raise, InTry
<1>2. TypeOK'
  BY <1>1, NoRowType DEF Steps, Goals
<1>3. ActorsAt'
  BY <1>1, <1>a DEF ActorsAt, WorkerAt, ThreadAt
<1>4. NoGhostJobs'
  BY <1>1, <1>a DEF NoGhostJobs, Queued
<1>5. CreatorsApart'
  BY <1>1 DEF CreatorsApart, Failures
<1>6. ChargedOnce'
  BY <1>1 DEF ChargedOnce
<1>7. QED
  BY <1>2, <1>3, <1>4, <1>5, <1>6

LEMMA InsertRowBase ==
    ASSUME BaseInv, NEW t \in Threads, InsertRow(t)
    PROVE  BaseInv'
<1> USE JobPipelineAssumption DEF BaseInv, TypeOK, Actors, InsertRow, GoTo
<1>1. /\ job[t] \in Jobs /\ goal[t] = "create"
      /\ NewRow \in Row /\ NewRow.status = "queued"
  BY DEF ActorsAt, ThreadAt, NewRow, NoRow, Row, Statuses
<1>a. \A j \in Jobs : row'[j] = IF j = job[t] THEN NewRow ELSE row[j]
  BY <1>1
<1>2. TypeOK'
  BY <1>1 DEF Steps
<1>3. ActorsAt'
  BY DEF ActorsAt, WorkerAt, ThreadAt
<1>4. NoGhostJobs'
  BY <1>1, <1>a DEF NoGhostJobs, Queued, ActorsAt
<1>5. CreatorsApart'
  BY DEF CreatorsApart, ActorsAt
<1>6. ChargedOnce'
  BY <1>1, <1>a DEF ChargedOnce
<1>7. QED
  BY <1>2, <1>3, <1>4, <1>5, <1>6

LEMMA PushJobBase ==
    ASSUME BaseInv, NEW t \in Threads, PushJob(t)
    PROVE  BaseInv'
<1>1. /\ job[t] \in Jobs /\ row[job[t]].status # "none"
      /\ \A j \in Jobs : Queued(j)' <=> Queued(j) \/ j = job[t]
  BY PushQueued DEF BaseInv, TypeOK, ActorsAt, Actors, PushJob, NoGhostJobs
<1> USE JobPipelineAssumption DEF BaseInv, TypeOK, Actors, PushJob, GoTo
<1>2. TypeOK'
  BY NoRowType DEF Steps, Goals, ActorsAt
<1>3. ActorsAt'
  BY DEF ActorsAt, WorkerAt, ThreadAt
<1>4. NoGhostJobs'
  BY <1>1 DEF NoGhostJobs
<1>5. CreatorsApart'
  BY DEF CreatorsApart, ActorsAt
<1>6. ChargedOnce'
  BY DEF ChargedOnce, CreatorsApart, ActorsAt, ThreadAt, WorkerAt
<1>7. QED
  BY <1>2, <1>3, <1>4, <1>5, <1>6

LEMMA CommitChargeBase ==
    ASSUME BaseInv, NEW t \in Threads, CommitCharge(t)
    PROVE  BaseInv'
<1> USE JobPipelineAssumption DEF BaseInv, TypeOK, Actors, CommitCharge, GoTo
<1>1. /\ job[t] \in Jobs /\ goal[t] = "create"
      /\ charged[job[t]] = 0 /\ row[job[t]].status # "none"
      /\ \A j \in Jobs : charged'[j] = IF j = job[t] THEN 1 ELSE charged[j]
  BY SMTT(20) DEF ActorsAt, ThreadAt, CreatorsApart, NoGhostJobs
<1>2. TypeOK'
  BY NoRowType DEF Steps, Goals, ActorsAt
<1>3. ActorsAt'
  BY DEF ActorsAt, WorkerAt, ThreadAt
<1>4. NoGhostJobs'
  BY DEF NoGhostJobs, Queued, ActorsAt
<1>5. CreatorsApart'
  BY <1>1 DEF CreatorsApart, ActorsAt
<1>6. ChargedOnce'
  BY <1>1 DEF ChargedOnce
<1>7. QED
  BY <1>2, <1>3, <1>4, <1>5, <1>6

LEMMA CreateAnalysisBase ==
    ASSUME BaseInv, NEW t \in Threads, NEW j \in Jobs, CreateAnalysis(t, j)
    PROVE  BaseInv'
<1> USE JobPipelineAssumption DEF BaseInv, TypeOK, Actors, CreateAnalysis, Begin
<1>1. charged[j] = 0
  BY DEF ChargedOnce
<1>2. TypeOK'
  BY NoRowType DEF Steps, Goals, ActorsAt
<1>3. ActorsAt'
  BY DEF ActorsAt, WorkerAt, ThreadAt
<1>4. NoGhostJobs'
  BY DEF NoGhostJobs, Queued, ActorsAt
<1>5. CreatorsApart'
  BY <1>1 DEF CreatorsApart, ActorsAt
<1>6. ChargedOnce'
  BY DEF ChargedOnce, CreatorsApart, ActorsAt, ThreadAt, WorkerAt
<1>7. QED
  BY <1>2, <1>3, <1>4, <1>5, <1>6

LEMMA RetryAnalysisBase ==
    ASSUME BaseInv, NEW t \in Threads, NEW j \in Jobs, RetryAnalysis(t, j)
    PROVE  BaseInv'
<1> USE JobPipelineAssumption DEF BaseInv, TypeOK, Actors, RetryAnalysis, Begin
<1>1. TypeOK'
  BY NoRowType DEF Steps, Goals, ActorsAt
<1>2. ActorsAt'
  BY DEF ActorsAt, WorkerAt, ThreadAt
<1>3. NoGhostJobs'
  BY DEF NoGhostJobs, Queued, ActorsAt
<1>4. CreatorsApart'
  BY DEF CreatorsApart, ActorsAt
<1>5. ChargedOnce'
  BY DEF ChargedOnce, CreatorsApart, ActorsAt, ThreadAt, WorkerAt
<1>6. QED
  BY <1>1, <1>2, <1>3, <1>4, <1>5

-----------------------------------------------------------------------------
(* One lemma per action                                                     *)

LEMMA LoadRowStep ==
    ASSUME IInv, NEW a \in Actors, LoadRow(a)
    PROVE  OwnerInv'
<1> USE JobPipelineAssumption DEF IInv, BaseInv, OwnerInv, TypeOK, Actors, LoadRow
<1>1. job[a] \in Jobs
  BY DEF ActorsAt
<1>2. Exclusive'
  BY DEF Exclusive, Owns, Queued
<1>3. TurnOf'
  BY DEF TurnOf, Owns, Queued, Turn
<1>4. NoLostUpdate'
  BY DEF NoLostUpdate
<1>5. NothingStranded'
  BY NoneStranded DEF Owns, Queued
<1>6. OutcomeRecorded'
  BY DEF OutcomeRecorded
<1>7. QED
  BY <1>2, <1>3, <1>4, <1>5, <1>6

LEMMA StoreRowStep ==
    ASSUME IInv, NEW a \in Actors, StoreRow(a)
    PROVE  OwnerInv'
<1> USE JobPipelineAssumption DEF IInv, BaseInv, OwnerInv, TypeOK, Actors
<1> DEFINE j == job[a]
           g == goal[a]
<1>a. j \in Jobs /\ Owns(a)
  BY DEF ActorsAt, StoreRow, Owns
<1>b. g \in {"running", "completed", "requeue"} \cup Failures
  BY DEF ActorsAt, WorkerAt, ThreadAt, StoreRow
<1>c. row' = [row EXCEPT ![j] = Changed(row[j], g)]
  BY <1>a, WrittenSame DEF StoreRow, NoLostUpdate
<1>d. Changed(row[j], g) \in Row
  BY <1>a, ChangedType
<1>e. /\ g \in {"running", "completed"} => row'[j].error = row[j].error
      /\ g \in {"running", "completed"} => row'[j].status = g
      /\ g = "completed" => row'[j].report
      /\ g = "requeue" => row'[j].status = "queued" /\ row'[j].error = "none"
      /\ g \in Failures => row'[j].status = "failed" /\ row'[j].error = g
  BY <1>a, <1>b, <1>c DEF Changed, Row, Failures
<1>f. Turn("store", g, row[j].status)
  BY <1>a DEF TurnOf, StoreRow
<1>g. \A k \in Jobs : k # j => row'[k] = row[k]
  BY <1>a, <1>c
<1>h. /\ pc' = [pc EXCEPT ![a] = IF g = "requeue" THEN "push" ELSE "announce"]
      /\ pc[a] = "store"
      /\ snap' = [snap EXCEPT ![a] = NoRow]
      /\ UNCHANGED <<queue, charged, job, goal, faults>>
  BY DEF StoreRow
<1>1. Exclusive'
  BY <1>a, <1>h DEF Exclusive, Owns, Queued
<1>2. TurnOf'
  <2>1. ASSUME NEW b \in Actors, Owns(b)'
        PROVE  Turn(pc[b], goal[b], row[job[b]].status)'
    <3>1. CASE b = a
      BY <1>b, <1>e, <1>h, <2>1, <3>1 DEF Turn, Owns, Failures
    <3>2. CASE b # a
      <4>1. Owns(b) /\ pc'[b] = pc[b] /\ goal'[b] = goal[b] /\ job'[b] = job[b]
        BY <1>h, <2>1, <3>2 DEF Owns
      <4>2. job[b] \in Jobs /\ job[b] # j
        BY <1>a, <3>2, <4>1 DEF Exclusive, ActorsAt, Owns
      <4>3. QED
        BY <1>g, <4>1, <4>2 DEF TurnOf
    <3>3. QED
      BY <3>1, <3>2
  <2>2. ASSUME NEW k \in Jobs, Queued(k)'
        PROVE  row'[k].status = "queued"
    <3>1. Queued(k)
      BY <1>h, <2>2 DEF Queued
    <3>2. k # j
      BY <1>a, <3>1 DEF Exclusive
    <3>3. QED
      BY <1>g, <3>1, <3>2 DEF TurnOf
  <2>3. QED
    BY <2>1, <2>2 DEF TurnOf
<1>3. NoLostUpdate'
  BY <1>a, <1>g, <1>h DEF NoLostUpdate, Exclusive, Owns, ActorsAt
<1>4. NothingStranded'
  BY <1>a, <1>b, <1>e, <1>g, <1>h DEF NothingStranded, Owns, Queued, Failures
<1>5. OutcomeRecorded'
  BY <1>a, <1>b, <1>e, <1>f, <1>g, <1>h, SMTT(20) DEF OutcomeRecorded, Turn, Failures
<1>6. QED
  BY <1>1, <1>2, <1>3, <1>4, <1>5

LEMMA AnnounceStep ==
    ASSUME IInv, NEW a \in Actors, Announce(a)
    PROVE  OwnerInv'
<1> USE JobPipelineAssumption DEF IInv, BaseInv, OwnerInv, TypeOK, Actors, Announce
<1>a. CASE goal[a] = "running"
  <2> USE <1>a DEF GoTo
  <2>1. Exclusive'
    BY SMTT(20) DEF Exclusive, Owns, Queued
  <2>2. TurnOf'
    <3>1. ASSUME NEW b \in Actors, Owns(b)'
          PROVE  Turn(pc[b], goal[b], row[job[b]].status)'
      <4>1. Owns(b) /\ job'[b] = job[b] /\ goal'[b] = goal[b]
        BY <3>1 DEF Owns
      <4>2. QED
        BY <4>1 DEF TurnOf, Turn
    <3>2. QED
      BY <3>1 DEF TurnOf, Queued
  <2>3. NoLostUpdate'
    BY DEF NoLostUpdate
  <2>4. NothingStranded'
    BY NoneStranded DEF Owns, Queued
  <2>5. OutcomeRecorded'
    BY DEF OutcomeRecorded
  <2>6. QED
    BY <2>1, <2>2, <2>3, <2>4, <2>5
<1>b. CASE goal[a] # "running"
  <2> USE <1>b DEF Release
  <2>1. \A b \in Actors : Owns(b)' =>
           /\ Owns(b)
           /\ job'[b] = job[b] /\ pc'[b] = pc[b] /\ goal'[b] = goal[b]
    BY DEF Owns
  <2>2. Exclusive'
    BY <2>1 DEF Exclusive, Queued
  <2>3. TurnOf'
    BY <2>1 DEF TurnOf, Queued, Failures
  <2>4. NoLostUpdate'
    BY DEF NoLostUpdate
  <2>5. NothingStranded'
    <3>1. Owns(a) => row[job[a]].status = "completed"
      BY DEF TurnOf, Turn, Owns
    <3>2. \A b \in Actors : b # a /\ Owns(b) => Owns(b)' /\ job'[b] = job[b]
      BY DEF Owns
    <3>3. QED
      BY <3>1, <3>2 DEF NothingStranded, Queued
  <2>6. OutcomeRecorded'
    BY DEF OutcomeRecorded
  <2>7. QED
    BY <2>2, <2>3, <2>4, <2>5, <2>6
<1>1. QED
  BY <1>a, <1>b

LEMMA LoseStep ==
    ASSUME IInv, NEW a \in Actors, Lose(a)
    PROVE  OwnerInv'
<1> USE JobPipelineAssumption DEF IInv, BaseInv, OwnerInv, TypeOK, Actors, Lose, Release
<1>1. \A b \in Actors : Owns(b)' =>
         /\ Owns(b)
         /\ job'[b] = job[b] /\ pc'[b] = pc[b] /\ goal'[b] = goal[b]
  BY DEF Owns
<1>2. Exclusive'
  BY <1>1 DEF Exclusive, Queued
<1>3. TurnOf'
  BY <1>1 DEF TurnOf, Queued, Failures
<1>4. NoLostUpdate'
  BY DEF NoLostUpdate
<1>5. NothingStranded'
  BY DEF NothingStranded
<1>6. OutcomeRecorded'
  BY DEF OutcomeRecorded
<1>7. QED
  BY <1>2, <1>3, <1>4, <1>5, <1>6

LEMMA DequeueStep ==
    ASSUME IInv, NEW w \in Workers, Dequeue(w)
    PROVE  OwnerInv'
<1>h. PICK h \in Jobs : h = Head(queue)
  BY DEF IInv, BaseInv, OwnerInv, TypeOK, Dequeue
<1>1. /\ Queued(h)
      /\ \A j \in Jobs : Queued(j)' => Queued(j)
      /\ \A j \in Jobs : Queued(j) => Queued(j)' \/ j = h
  BY <1>h, DequeueQueued DEF IInv, BaseInv, OwnerInv, TypeOK
<1>q. queue \in Seq(Jobs) /\ queue # <<>> /\ queue' = Tail(queue)
  BY DEF IInv, BaseInv, OwnerInv, TypeOK, Dequeue
<1>a. ASSUME Queued(h)' PROVE FALSE
  <2>1. PICK i \in 1..Len(Tail(queue)) : Tail(queue)[i] = h
    BY <1>q, <1>a DEF Queued
  <2>2. i + 1 \in 1..Len(queue) /\ queue[i + 1] = h /\ 1 \in 1..Len(queue) /\ queue[1] = h
    BY <1>h, <1>q, <2>1
  <2>3. i + 1 = 1
    BY <2>2 DEF IInv, OwnerInv, Exclusive
  <2>4. QED
    BY <2>3
<1> USE JobPipelineAssumption DEF IInv, BaseInv, OwnerInv, TypeOK, Actors, Dequeue, Begin
<1>b. /\ Owns(w)' /\ job'[w] = h
      /\ \A b \in Actors \ {w} : /\ Owns(b)' <=> Owns(b)
                                 /\ job'[b] = job[b]
                                 /\ pc'[b] = pc[b] /\ goal'[b] = goal[b]
  BY <1>h DEF Owns
<1>c. \A b \in Actors : Owns(b) => job[b] \in Jobs
  BY DEF Owns, ActorsAt
<1>2. Exclusive'
  <2>1. \A b \in Actors \ {w} : Owns(b) => job[b] # h
    BY <1>1 DEF Exclusive
  <2>2. \A a, b \in Actors : Owns(a)' /\ Owns(b)' /\ job'[a] = job'[b] => a = b
    BY <1>b, <2>1 DEF Exclusive
  <2>3. ASSUME NEW a \in Actors, Owns(a)', Queued(job[a])'
        PROVE  FALSE
    <3>1. job'[a] \in Jobs
      BY <1>b, <1>c, <1>q, <2>3
    <3>2. a # w
      BY <1>a, <1>b, <2>3 DEF Queued
    <3>3. Queued(job[a]) /\ Owns(a)
      BY <1>1, <1>b, <2>3, <3>1, <3>2 DEF Queued
    <3>4. QED
      BY <3>3 DEF Exclusive
  <2>4. \A i, k \in 1..Len(queue') : queue'[i] = queue'[k] => i = k
    BY DEF Exclusive
  <2>5. QED
    BY <2>2, <2>3, <2>4 DEF Exclusive
<1>3. TurnOf'
  <2>1. Turn("fetch", "running", row[h].status)
    BY <1>1 DEF TurnOf, Turn
  <2>2. \A b \in Actors : Owns(b)' => Turn(pc'[b], goal'[b], row'[job'[b]].status)
    BY <1>b, <2>1 DEF TurnOf
  <2>3. QED
    BY <1>1, <2>2 DEF TurnOf
<1>4. NoLostUpdate'
  BY DEF NoLostUpdate
<1>5. NothingStranded'
  <2>1. SUFFICES ASSUME faults = 0, NEW j \in Jobs, row[j].status \in {"queued", "running"}
                 PROVE  Queued(j)' \/ \E a \in Actors : Owns(a)' /\ job'[a] = j
    BY DEF NothingStranded
  <2>2. CASE j = h
    BY <1>b, <2>2
  <2>3. CASE j # h /\ Queued(j)
    BY <1>1, <2>3
  <2>4. CASE ~ Queued(j)
    <3>1. PICK a \in Actors : Owns(a) /\ job[a] = j
      BY <2>1, <2>4 DEF NothingStranded
    <3>2. a # w
      BY <3>1 DEF Owns
    <3>3. QED
      BY <1>b, <3>1, <3>2
  <2>5. QED
    BY <2>2, <2>3, <2>4
<1>6. OutcomeRecorded'
  BY DEF OutcomeRecorded
<1>7. QED
  BY <1>2, <1>3, <1>4, <1>5, <1>6

LEMMA FetchJobStep ==
    ASSUME IInv, NEW w \in Workers, FetchJob(w)
    PROVE  OwnerInv'
<1> USE JobPipelineAssumption DEF IInv, BaseInv, OwnerInv, TypeOK, Actors
<1>1. row[job[w]].status = "queued" /\ goal[w] = "running"
  BY DEF FetchJob, TurnOf, Turn, Owns, ActorsAt, WorkerAt
<1>a. /\ pc[w] = "fetch" /\ pc' = [pc EXCEPT ![w] = "load"]
      /\ UNCHANGED <<row, queue, charged, job, goal, snap, faults>>
  BY <1>1 DEF FetchJob, GoTo
<1>2. Exclusive'
  BY <1>a DEF Exclusive, Owns, Queued
<1>3. TurnOf'
  BY <1>1, <1>a DEF TurnOf, Owns, Queued, Turn
<1>4. NoLostUpdate'
  BY <1>a DEF NoLostUpdate
<1>5. NothingStranded'
  BY <1>a, NoneStranded DEF Owns, Queued
<1>6. OutcomeRecorded'
  BY <1>a DEF OutcomeRecorded
<1>7. QED
  BY <1>2, <1>3, <1>4, <1>5, <1>6

LEMMA EngineReturnsStep ==
    ASSUME IInv, NEW w \in Workers, EngineReturns(w)
    PROVE  OwnerInv'
<1> USE JobPipelineAssumption DEF IInv, BaseInv, OwnerInv, TypeOK, Actors, EngineReturns, GoTo
<1>1. Exclusive'
  BY DEF Exclusive, Owns, Queued
<1>2. TurnOf'
  BY DEF TurnOf, Owns, Queued, Turn
<1>3. NoLostUpdate'
  BY DEF NoLostUpdate
<1>4. NothingStranded'
  BY NoneStranded DEF Owns, Queued
<1>5. OutcomeRecorded'
  BY DEF OutcomeRecorded
<1>6. QED
  BY <1>1, <1>2, <1>3, <1>4, <1>5

LEMMA UploadReportStep ==
    ASSUME IInv, NEW w \in Workers, UploadReport(w)
    PROVE  OwnerInv'
<1> USE JobPipelineAssumption DEF IInv, BaseInv, OwnerInv, TypeOK, Actors, UploadReport, Begin
<1>1. job' = job
  OBVIOUS
<1>a. goal[w] = "running"
  BY DEF ActorsAt, WorkerAt
<1>2. Exclusive'
  BY <1>1 DEF Exclusive, Owns, Queued
<1>3. TurnOf'
  BY <1>1, <1>a DEF TurnOf, Owns, Queued, Turn
<1>4. NoLostUpdate'
  BY DEF NoLostUpdate
<1>5. NothingStranded'
  BY <1>1, NoneStranded DEF Owns, Queued
<1>6. OutcomeRecorded'
  BY DEF OutcomeRecorded
<1>7. QED
  BY <1>2, <1>3, <1>4, <1>5, <1>6

LEMMA RaiseStep ==
    ASSUME IInv, NEW w \in Workers, Raise(w)
    PROVE  OwnerInv'
<1> USE JobPipelineAssumption DEF IInv, BaseInv, OwnerInv, TypeOK, Actors
<1>1. PICK e \in Failures :
         /\ pc' = [pc EXCEPT ![w] = "load"]
         /\ goal' = [goal EXCEPT ![w] = e]
         /\ snap' = [snap EXCEPT ![w] = NoRow]
         /\ UNCHANGED <<row, queue, charged, job, faults>>
  BY DEF Raise
<1>a. /\ Owns(w) /\ job[w] \in Jobs
      /\ pc[w] \in {"run", "upload"} => goal[w] = "running"
  BY DEF Raise, InTry, Owns, ActorsAt, WorkerAt
<1>b. row[job[w]].status \in {"running", "completed"}
  BY <1>a DEF Raise, InTry, TurnOf, Turn, Failures
<1>c. \A b \in Actors : (Owns(b)' <=> Owns(b)) /\ job'[b] = job[b]
  BY <1>1, <1>a DEF Owns
<1>2. Exclusive'
  BY <1>1, <1>c DEF Exclusive, Queued
<1>3. TurnOf'
  <2>1. \A b \in Actors : Owns(b)' => Turn(pc'[b], goal'[b], row'[job'[b]].status)
    BY <1>1, <1>b, <1>c DEF TurnOf, Turn
  <2>2. QED
    BY <1>1, <2>1 DEF TurnOf, Queued
<1>4. NoLostUpdate'
  BY <1>1 DEF NoLostUpdate
<1>5. NothingStranded'
  BY <1>1, <1>c DEF NothingStranded, Queued
<1>6. OutcomeRecorded'
  BY <1>1 DEF OutcomeRecorded
<1>7. QED
  BY <1>2, <1>3, <1>4, <1>5, <1>6

LEMMA InsertRowStep ==
    ASSUME IInv, NEW t \in Threads, InsertRow(t)
    PROVE  OwnerInv'
<1> USE JobPipelineAssumption DEF IInv, BaseInv, OwnerInv, TypeOK, Actors, InsertRow, GoTo
<1>1. /\ job[t] \in Jobs /\ Owns(t) /\ goal[t] = "create"
      /\ row[job[t]].status = "none"
  BY DEF ActorsAt, ThreadAt, Owns, TurnOf, Turn
<1>a. /\ NewRow \in Row /\ NewRow.status = "queued" /\ NewRow.error = "none"
  BY DEF NewRow, NoRow, Row, Statuses
<1>b. /\ row'[job[t]] = NewRow
      /\ \A j \in Jobs : j # job[t] => row'[j] = row[j]
  BY <1>1
<1>c. \A b \in Actors : (Owns(b)' <=> Owns(b)) /\ job'[b] = job[b]
  BY DEF Owns
<1>2. Exclusive'
  BY <1>c DEF Exclusive, Queued
<1>3. TurnOf'
  <2>1. ASSUME NEW b \in Actors, Owns(b)'
        PROVE  Turn(pc'[b], goal'[b], row'[job'[b]].status)
    <3>1. CASE b = t
      BY <1>a, <1>b, <3>1 DEF Turn
    <3>2. CASE b # t
      <4>1. Owns(b) /\ pc'[b] = pc[b] /\ job[b] \in Jobs
        BY <1>c, <2>1, <3>2 DEF Owns, ActorsAt
      <4>2. row'[job[b]] = row[job[b]]
        BY <1>1, <1>b, <3>2, <4>1 DEF Exclusive
      <4>3. QED
        BY <4>1, <4>2 DEF TurnOf
    <3>3. QED
      BY <3>1, <3>2
  <2>2. \A j \in Jobs : Queued(j)' => row'[j].status = "queued"
    BY <1>a, <1>b DEF TurnOf, Queued
  <2>3. QED
    BY <2>1, <2>2 DEF TurnOf
<1>4. NoLostUpdate'
  BY <1>1, <1>b DEF NoLostUpdate, Exclusive, Owns, ActorsAt
<1>5. NothingStranded'
  BY <1>1, <1>b, <1>c DEF NothingStranded, Queued
<1>6. OutcomeRecorded'
  BY <1>a, <1>b DEF OutcomeRecorded
<1>7. QED
  BY <1>2, <1>3, <1>4, <1>5, <1>6

LEMMA PushJobStep ==
    ASSUME IInv, NEW t \in Threads, PushJob(t)
    PROVE  OwnerInv'
<1>q. job[t] \in Jobs
  BY DEF IInv, BaseInv, OwnerInv, TypeOK, ActorsAt, PushJob, Actors
<1>1. \A j \in Jobs : Queued(j)' <=> Queued(j) \/ j = job[t]
  BY <1>q, PushQueued DEF IInv, BaseInv, OwnerInv, TypeOK
<1> USE JobPipelineAssumption DEF IInv, BaseInv, OwnerInv, TypeOK, Actors, PushJob, GoTo
<1>a. /\ Owns(t) /\ goal[t] \in {"create", "requeue"}
      /\ row[job[t]].status = "queued"
  BY DEF Owns, ActorsAt, ThreadAt, TurnOf, Turn
<1>b. /\ ~ Owns(t)'
      /\ \A b \in Actors : /\ job'[b] = job[b] /\ goal'[b] = goal[b]
                           /\ b # t => (Owns(b)' <=> Owns(b)) /\ pc'[b] = pc[b]
  BY <1>a DEF Owns
<1>c. \A b \in Actors : Owns(b) => job[b] \in Jobs
  BY DEF Owns, ActorsAt
<1>2. Exclusive'
  <2>1. \A a, b \in Actors : Owns(a)' /\ Owns(b)' /\ job'[a] = job'[b] => a = b
    BY <1>b DEF Exclusive
  <2>2. ASSUME NEW b \in Actors, Owns(b)', Queued(job[b])'
        PROVE  FALSE
    <3>1. b # t /\ Owns(b) /\ job[b] \in Jobs /\ job'[b] = job[b]
      BY <1>b, <1>c, <2>2
    <3>2. job[b] # job[t] /\ ~ Queued(job[b])
      BY <1>a, <3>1 DEF Exclusive
    <3>3. QED
      BY <1>1, <2>2, <3>1, <3>2 DEF Queued
  <2>3. \A i, k \in 1..Len(queue') : queue'[i] = queue'[k] => i = k
    BY <1>a, <1>q DEF Exclusive, Queued
  <2>4. QED
    BY <2>1, <2>2, <2>3 DEF Exclusive
<1>3. TurnOf'
  <2>1. \A b \in Actors : Owns(b)' => Turn(pc'[b], goal'[b], row'[job'[b]].status)
    BY <1>b DEF TurnOf
  <2>2. \A j \in Jobs : Queued(j)' => row'[j].status = "queued"
    BY <1>1, <1>a DEF TurnOf
  <2>3. QED
    BY <2>1, <2>2 DEF TurnOf
<1>4. NoLostUpdate'
  BY DEF NoLostUpdate
<1>5. NothingStranded'
  BY <1>1, <1>b DEF NothingStranded
<1>6. OutcomeRecorded'
  BY DEF OutcomeRecorded
<1>7. QED
  BY <1>2, <1>3, <1>4, <1>5, <1>6

LEMMA CommitChargeStep ==
    ASSUME IInv, NEW t \in Threads, CommitCharge(t)
    PROVE  OwnerInv'
<1> USE JobPipelineAssumption DEF IInv, BaseInv, OwnerInv, TypeOK, Actors, CommitCharge, GoTo
<1>1. /\ job[t] \in Jobs /\ goal[t] = "create" /\ ~ Owns(t) /\ ~ Owns(t)'
      /\ charged[job[t]] = 0 /\ row[job[t]].status # "none"
  BY DEF ActorsAt, ThreadAt, Owns, CreatorsApart, NoGhostJobs
<1>a. \A b \in Actors : (Owns(b)' <=> Owns(b)) /\ job'[b] = job[b]
  BY <1>1 DEF Owns
<1>b. charged'[job[t]] = 1 /\ \A j \in Jobs : j # job[t] => charged'[j] = charged[j]
  BY <1>1
<1>2. Exclusive'
  BY <1>a DEF Exclusive, Queued
<1>3. TurnOf'
  BY <1>a DEF TurnOf, Owns, Queued
<1>4. NoLostUpdate'
  BY DEF NoLostUpdate
<1>5. NothingStranded'
  BY <1>a, NoneStranded DEF Queued
<1>6. OutcomeRecorded'
  BY DEF OutcomeRecorded
<1>7. QED
  BY <1>2, <1>3, <1>4, <1>5, <1>6

LEMMA CreateAnalysisStep ==
    ASSUME IInv, NEW t \in Threads, NEW j \in Jobs, CreateAnalysis(t, j)
    PROVE  OwnerInv'
<1> USE JobPipelineAssumption DEF IInv, BaseInv, OwnerInv, TypeOK, Actors, CreateAnalysis, Begin
<1>1. /\ ~ Queued(j)
      /\ job' = [job EXCEPT ![t] = j] /\ ~ Owns(t)
      /\ \A b \in Actors \ {t} : /\ Owns(b)' <=> Owns(b)
                                 /\ job'[b] = job[b] /\ job[b] # j
                                 /\ pc'[b] = pc[b] /\ goal'[b] = goal[b]
  BY DEF TurnOf, Owns
<1>2. Exclusive'
  <2>1. \A a, b \in Actors : Owns(a)' /\ Owns(b)' /\ job'[a] = job'[b] => a = b
    BY <1>1 DEF Exclusive
  <2>2. \A a \in Actors : Owns(a)' => ~ Queued(job'[a])
    BY <1>1 DEF Exclusive
  <2>3. QED
    BY <2>1, <2>2 DEF Exclusive, Queued
<1>3. TurnOf'
  BY <1>1 DEF TurnOf, Turn, Queued
<1>4. NoLostUpdate'
  BY <1>1 DEF NoLostUpdate
<1>5. NothingStranded'
  BY <1>1, NoneStranded DEF Queued
<1>6. OutcomeRecorded'
  BY DEF OutcomeRecorded
<1>7. QED
  BY <1>2, <1>3, <1>4, <1>5, <1>6

\* The one step that needs SerialRetries: a failed row has no owner but the
\* retry in progress.
LEMMA RetryAnalysisStep ==
    ASSUME IInv, SerialRetries, NEW t \in Threads, NEW j \in Jobs, RetryAnalysis(t, j)
    PROVE  OwnerInv'
<1> USE JobPipelineAssumption DEF IInv, BaseInv, OwnerInv, TypeOK, Actors, RetryAnalysis, Begin
<1>1. /\ ~ Queued(j)
      /\ job' = [job EXCEPT ![t] = j] /\ ~ Owns(t)
      /\ \A b \in Actors \ {t} : /\ Owns(b)' <=> Owns(b)
                                 /\ job'[b] = job[b]
                                 /\ pc'[b] = pc[b] /\ goal'[b] = goal[b]
  BY DEF TurnOf, Owns
<1>a. \A b \in Actors : Owns(b) => job[b] # j
  <2>1. SUFFICES ASSUME NEW b \in Actors, Owns(b), job[b] = j
                 PROVE  FALSE
    OBVIOUS
  <2>2. Turn(pc[b], goal[b], "failed")
    BY <2>1 DEF TurnOf
  <2>3. goal[b] = "requeue"
    BY <2>2 DEF Turn
  <2>4. b \in Threads
    BY <2>3 DEF ActorsAt, WorkerAt, Failures
  <2>5. QED
    BY <2>1, <2>3, <2>4
<1>2. Exclusive'
  <2>1. \A a, b \in Actors : Owns(a)' /\ Owns(b)' /\ job'[a] = job'[b] => a = b
    BY <1>1, <1>a DEF Exclusive
  <2>2. \A a \in Actors : Owns(a)' => ~ Queued(job'[a])
    BY <1>1 DEF Exclusive
  <2>3. QED
    BY <2>1, <2>2 DEF Exclusive, Queued
<1>3. TurnOf'
  BY <1>1 DEF TurnOf, Turn, Queued
<1>4. NoLostUpdate'
  BY <1>1 DEF NoLostUpdate
<1>5. NothingStranded'
  BY <1>1, NoneStranded DEF Queued
<1>6. OutcomeRecorded'
  BY DEF OutcomeRecorded
<1>7. QED
  BY <1>2, <1>3, <1>4, <1>5, <1>6

-----------------------------------------------------------------------------
(* The theorems                                                             *)

LEMMA InitInv == Init => IInv
<1> SUFFICES ASSUME Init PROVE IInv
  OBVIOUS
<1> USE JobPipelineAssumption DEF Init, Actors
<1>1. /\ \A a \in Actors : ~ Owns(a)
      /\ \A j \in Jobs : ~ Queued(j)
  BY DEF Owns, Queued
<1>2. TypeOK
  BY NoRowType DEF TypeOK, Steps, Goals
<1>3. ActorsAt
  BY DEF ActorsAt, WorkerAt, ThreadAt
<1>4. Exclusive
  BY <1>1 DEF Exclusive
<1>5. TurnOf /\ NoGhostJobs
  BY <1>1 DEF TurnOf, NoGhostJobs
<1>6. NoLostUpdate /\ NothingStranded /\ OutcomeRecorded /\ CreatorsApart
  BY DEF NoLostUpdate, NothingStranded, OutcomeRecorded, CreatorsApart, NoRow
<1>7. ChargedOnce
  BY DEF ChargedOnce, NoRow
<1>8. QED
  BY <1>2, <1>3, <1>4, <1>5, <1>6, <1>7 DEF IInv, BaseInv, OwnerInv

\* No step of the pipeline breaks BaseInv.
LEMMA BaseNext == BaseInv /\ [Next]_vars => BaseInv'
<1> SUFFICES ASSUME BaseInv, [Next]_vars
             PROVE  BaseInv'
  OBVIOUS
<1>1. ASSUME NEW a \in Actors, UpdateJob(a) \/ Announce(a) \/ Lose(a)
      PROVE  BaseInv'
  BY <1>1, LoadRowBase, StoreRowBase, AnnounceBase, LoseBase DEF UpdateJob
<1>2. ASSUME NEW w \in Workers, WorkerStep(w) \/ Raise(w)
      PROVE  BaseInv'
  BY <1>2, DequeueBase, FetchJobBase, EngineReturnsBase, UploadReportBase, RaiseBase
     DEF WorkerStep
<1>3. ASSUME NEW t \in Threads, ThreadStep(t) \/ Request(t)
      PROVE  BaseInv'
  BY <1>3, InsertRowBase, PushJobBase, CommitChargeBase,
     CreateAnalysisBase, RetryAnalysisBase DEF ThreadStep, Request
<1>4. CASE UNCHANGED vars
  BY <1>4 DEF vars, BaseInv, TypeOK, ActorsAt, WorkerAt, ThreadAt, NoGhostJobs,
     CreatorsApart, ChargedOnce, Queued
<1>5. QED
  BY <1>1, <1>2, <1>3, <1>4 DEF Next

\* With serial retries no step breaks OwnerInv either.
LEMMA OwnerNext == SerialRetries /\ IInv /\ [Next]_vars => OwnerInv'
<1> SUFFICES ASSUME SerialRetries, IInv, [Next]_vars
             PROVE  OwnerInv'
  OBVIOUS
<1>1. ASSUME NEW a \in Actors, UpdateJob(a) \/ Announce(a) \/ Lose(a)
      PROVE  OwnerInv'
  BY <1>1, LoadRowStep, StoreRowStep, AnnounceStep, LoseStep DEF UpdateJob
<1>2. ASSUME NEW w \in Workers, WorkerStep(w) \/ Raise(w)
      PROVE  OwnerInv'
  BY <1>2, DequeueStep, FetchJobStep, EngineReturnsStep, UploadReportStep, RaiseStep
     DEF WorkerStep
<1>3. ASSUME NEW t \in Threads, ThreadStep(t) \/ Request(t)
      PROVE  OwnerInv'
  BY <1>3, InsertRowStep, PushJobStep, CommitChargeStep,
     CreateAnalysisStep, RetryAnalysisStep DEF ThreadStep, Request
<1>4. CASE UNCHANGED vars
  BY <1>4 DEF vars, IInv, OwnerInv, Exclusive, TurnOf, NoLostUpdate, NothingStranded,
     OutcomeRecorded, Owns, Queued
<1>5. QED
  BY <1>1, <1>2, <1>3, <1>4 DEF Next

-----------------------------------------------------------------------------
(* What holds however the clients retry                                     *)

\* The part of the inductive invariant that no retry can break: types, the
\* shape of each actor's work, ids with rows, creators apart, charges.
THEOREM BaseInvariant == Spec => []BaseInv
<1>1. Init => BaseInv
  BY InitInv DEF IInv
<1>2. QED
  BY <1>1, BaseNext, PTL DEF Spec

\* The rows, the queue and the local state of the actors keep their types.
THEOREM TypeCorrect == Spec => []TypeOK
<1>1. BaseInv => TypeOK
  BY DEF BaseInv
<1>2. QED
  BY <1>1, BaseInvariant, PTL

\* Every id in the queue or at work has a row in the store.
THEOREM NoGhosts == Spec => []NoGhostJobs
<1>1. BaseInv => NoGhostJobs
  BY DEF BaseInv
<1>2. QED
  BY <1>1, BaseInvariant, PTL

\* A job is charged at most once, however often and however concurrently it
\* is retried, and exactly once if no call failed.
THEOREM JobsAreChargedOnce == Spec => []ChargedOnce
<1>1. BaseInv => ChargedOnce
  BY DEF BaseInv
<1>2. QED
  BY <1>1, BaseInvariant, PTL

-----------------------------------------------------------------------------
(* What holds if the retries of a job do not overlap                        *)

\* The inductive invariant.
THEOREM Invariant == SerialRetries => (Spec => []IInv)
<1>1. SUFFICES ASSUME SerialRetries PROVE Spec => []IInv
  OBVIOUS
<1>2. IInv /\ [Next]_vars => IInv'
  BY <1>1, BaseNext, OwnerNext DEF IInv
<1>3. QED
  BY <1>2, InitInv, PTL DEF Spec

\* No job is in two hands at once, nor in the queue twice.
THEOREM JobsAreExclusive == SerialRetries => (Spec => []Exclusive)
<1>1. IInv => Exclusive
  BY DEF IInv, OwnerInv
<1>2. QED
  BY <1>1, Invariant, PTL

\* update_job loses no update in either store.
THEOREM UpdatesAreKept == SerialRetries => (Spec => []NoLostUpdate)
<1>1. IInv => NoLostUpdate
  BY DEF IInv, OwnerInv
<1>2. QED
  BY <1>1, Invariant, PTL

\* Without faults no job is dropped between the queue, the workers and the API.
THEOREM JobsAreKept == SerialRetries => (Spec => []NothingStranded)
<1>1. IInv => NothingStranded
  BY DEF IInv, OwnerInv
<1>2. QED
  BY <1>1, Invariant, PTL

\* A completed job has its report and no error; a failed one has its error.
THEOREM OutcomesAreRecorded == SerialRetries => (Spec => []OutcomeRecorded)
<1>1. IInv => OutcomeRecorded
  BY DEF IInv, OwnerInv
<1>2. QED
  BY <1>1, Invariant, PTL

-----------------------------------------------------------------------------
(* The rows implement JobLifecycle                                          *)

\* What a write of update_job may do to the status of its row: exactly the
\* moves Start, Complete, Fail and Retry of the abstract life cycle.
LEMMA StoreRowMoves ==
    ASSUME IInv, NEW a \in Actors, StoreRow(a)
    PROVE  LET j == job[a]
               to == row'[j].status
           IN  /\ j \in Jobs
               /\ \A k \in Jobs : k # j => row'[k] = row[k]
               /\ \/ row[j].status = "queued" /\ to = "running"
                  \/ row[j].status = "running" /\ to = "completed"
                  \/ row[j].status \in {"running", "completed"} /\ to = "failed"
                  \/ row[j].status = "failed" /\ to = "queued"
<1> USE DEF IInv, BaseInv, OwnerInv, TypeOK
<1>1. job[a] \in Jobs /\ Owns(a) /\ pc[a] = "store"
  BY DEF ActorsAt, StoreRow, Owns
<1>2. goal[a] \in {"running", "completed", "requeue"} \cup Failures
  BY <1>1 DEF ActorsAt, WorkerAt, ThreadAt, Actors
<1>3. row' = [row EXCEPT ![job[a]] = Changed(row[job[a]], goal[a])]
  BY <1>1, WrittenSame DEF StoreRow, NoLostUpdate
<1>4. Turn("store", goal[a], row[job[a]].status)
  BY <1>1 DEF TurnOf
<1>5. /\ row'[job[a]] = Changed(row[job[a]], goal[a])
      /\ \A k \in Jobs : k # job[a] => row'[k] = row[k]
  BY <1>1, <1>3
<1>6. row[job[a]] \in Row
  BY <1>1
<1>7. QED
  BY <1>1, <1>2, <1>4, <1>5, <1>6 DEF Turn, Changed, Row, Failures

\* Every step of the pipeline is a step of the life cycle or leaves the
\* statuses alone.
LEMMA LifecycleStep ==
    ASSUME IInv, [Next]_vars
    PROVE  [Lifecycle!Next]_[j \in Jobs |-> row[j].status]
<1> DEFINE st == [j \in Jobs |-> row[j].status]
<1>1. ASSUME NEW a \in Actors, StoreRow(a)
      PROVE  Lifecycle!Next
  <2>1. PICK j \in Jobs :
           /\ \A k \in Jobs : k # j => row'[k].status = row[k].status
           /\ \/ row[j].status = "queued" /\ row'[j].status = "running"
              \/ row[j].status = "running" /\ row'[j].status = "completed"
              \/ row[j].status \in {"running", "completed"} /\ row'[j].status = "failed"
              \/ row[j].status = "failed" /\ row'[j].status = "queued"
    BY <1>1, StoreRowMoves
  <2>2. [k \in Jobs |-> row'[k].status] = [st EXCEPT ![j] = row'[j].status]
    BY <2>1
  <2>3. QED
    BY <2>1, <2>2 DEF Lifecycle!Next, Lifecycle!Move, Lifecycle!Start,
       Lifecycle!Complete, Lifecycle!Fail, Lifecycle!Retry
<1>2. ASSUME NEW t \in Threads, InsertRow(t)
      PROVE  Lifecycle!Next
  <2>1. job[t] \in Jobs /\ row[job[t]].status = "none"
    BY <1>2 DEF IInv, BaseInv, OwnerInv, TypeOK, ActorsAt, InsertRow, TurnOf,
       Turn, Owns, Actors
  <2>2. row' = [row EXCEPT ![job[t]] = NewRow] /\ NewRow.status = "queued"
    BY <1>2 DEF InsertRow, NewRow, NoRow
  <2>3. [k \in Jobs |-> row'[k].status] = [st EXCEPT ![job[t]] = "queued"]
    BY <2>1, <2>2 DEF IInv, BaseInv, TypeOK
  <2>4. QED
    BY <2>1, <2>3 DEF Lifecycle!Next, Lifecycle!Move, Lifecycle!Submit
<1>3. ASSUME row' = row
      PROVE  [k \in Jobs |-> row'[k].status] = st
  BY <1>3
<1>4. QED
  BY <1>1, <1>2, <1>3 DEF Next, vars, UpdateJob, LoadRow, Announce, Lose,
     WorkerStep, Dequeue, FetchJob, EngineReturns, UploadReport, Raise,
     ThreadStep, PushJob, CommitCharge, Request, CreateAnalysis, RetryAnalysis

\* The stored rows behave like the abstract life cycle: a job is started only
\* from the queue, completed only by its run, retried only once it failed.
THEOREM Refinement == SerialRetries => (Spec => LifecycleSpec)
<1>1. Init => Lifecycle!Init
  BY DEF Init, Lifecycle!Init, NoRow
<1>2. QED
  BY <1>1, LifecycleStep, Invariant, PTL DEF Spec, LifecycleSpec, Lifecycle!Spec

\* A completed job is never run again, if the retries of a job do not overlap.
THEOREM CompletedJobsStay == SerialRetries => (Spec => CompletedStays)
<1>1. IInv /\ [Next]_vars =>
         [\A j \in Jobs : row[j].status = "completed" =>
             row'[j].status \in {"completed", "failed"}]_vars
  <2> SUFFICES ASSUME IInv, [Next]_vars, NEW j \in Jobs, row[j].status = "completed"
               PROVE  row'[j].status \in {"completed", "failed"} \/ UNCHANGED vars
    OBVIOUS
  <2>1. ASSUME NEW a \in Actors, StoreRow(a)
        PROVE  row'[j].status \in {"completed", "failed"}
    BY <2>1, StoreRowMoves
  <2>2. ASSUME NEW t \in Threads, InsertRow(t)
        PROVE  row'[j].status = row[j].status
    BY <2>2 DEF IInv, BaseInv, OwnerInv, TypeOK, ActorsAt, InsertRow, TurnOf,
       Turn, Owns, Actors
  <2>3. QED
    BY <2>1, <2>2 DEF Next, vars, UpdateJob, LoadRow, Announce, Lose,
       WorkerStep, Dequeue, FetchJob, EngineReturns, UploadReport, Raise,
       ThreadStep, PushJob, CommitCharge, Request, CreateAnalysis, RetryAnalysis
<1>2. QED
  BY <1>1, Invariant, PTL DEF Spec, CompletedStays

=============================================================================
