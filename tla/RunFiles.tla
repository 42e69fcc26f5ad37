------------------------------ MODULE RunFiles ------------------------------
(***************************************************************************)
(* The files that the runs of one user leave: the memory log of            *)
(* DecisionLog and the report trees, written to a directory named after    *)
(* the ticker and the second (reporting.py), uploaded file by file if the  *)
(* backend is S3 (ax_storage) and read by key (ax_reports).  Several       *)
(* workers run the user's jobs; any step may raise, and a worker may die.  *)
(***************************************************************************)
EXTENDS DecisionLog

CONSTANTS
    Files,          \* the files a report tree may have
    TreeOf(_, _),   \* those for which an attempt at a job has something to say
    DeleteLocal,    \* AX_REPORT_DELETE_LOCAL_AFTER_UPLOAD
    MaxSecond,      \* bound on the seconds in which reports are saved
    MaxAttempts,    \* bound on the attempts at a job
    MaxRuns,        \* and on those at all jobs
    MaxFaults       \* bound on the steps that raise and the workers that die

\* A tree always has its complete_report.md.
ASSUME RunFilesAssumption ==
    /\ MaxSecond \in Nat /\ MaxAttempts \in Nat \ {0} /\ MaxRuns \in Nat /\ MaxFaults \in Nat
    /\ DeleteLocal \in BOOLEAN
    /\ \A j \in Jobs, n \in 1..MaxAttempts : TreeOf(j, n) \in (SUBSET Files) \ {{}}

VARIABLES
    backend,    \* AX_REPORT_STORAGE, set before the workers start
    status,     \* of each job, as the job store has it
    path,       \* report_path of each job: a directory, a storage key, or none
    second,     \* the second of the last report saved
    dirs,       \* the report directories: what each file holds
    saved,      \* the directory the worker has saved its report to
    todo,       \* the files of it that it has still to upload
    objects,    \* what the bucket holds under the key of each job
    faults,     \* steps that have raised, and deaths
    wrote,      \* history: the files of the last tree written for a job
    shared      \* history: two runs have saved to one directory

runVars == <<at, job, attempt, status>>
reportVars == <<backend, path, second, dirs, saved, todo, objects, faults, wrote, shared>>
vars == <<runVars, logVars, reportVars>>

Decisions == [job : Jobs, attempt : 1..MaxAttempts]
Absent == [job |-> "none", attempt |-> 0]
NoFiles == [s \in Files |-> Absent]
NoPath == <<"none">>
NoJob == "none"
StorageKey(j) == <<"reports", "user", j>>
Dirs == {TickerOf[j] : j \in Jobs} \X (0..MaxSecond)
Steps == {"idle", "resolve", "reflect", "update", "open", "write", "replace", "graph", "store",
          "append", "save", "upload", "complete", "publish"}

Init ==
    /\ at = [w \in Workers |-> "idle"]
    /\ job = [w \in Workers |-> NoJob]
    /\ attempt = [j \in Jobs |-> 0]
    /\ status = [j \in Jobs |-> "queued"]
    /\ log = <<>> /\ tmp = {}
    /\ fd = [w \in Workers |-> "gone"]
    /\ found = [w \in Workers |-> <<>>]
    /\ updates = [w \in Workers |-> <<>>]
    /\ text = [w \in Workers |-> <<>>]
    /\ stale = [w \in Workers |-> FALSE]
    /\ raced = FALSE /\ misread = FALSE /\ book = <<>> /\ settled = {}
    /\ backend \in {"local", "s3"}
    /\ path = [j \in Jobs |-> NoPath]
    /\ second = 0
    /\ dirs = [k \in Dirs |-> NoFiles]
    /\ saved = [w \in Workers |-> NoPath]
    /\ todo = [w \in Workers |-> {}]
    /\ objects = [j \in Jobs |-> NoFiles]
    /\ faults = 0
    /\ wrote = [j \in Jobs |-> {}]
    /\ shared = FALSE

\* Mutant: the attempts are not told apart.
Take_SameAttempt(w) ==
    \E j \in Jobs :
        /\ status[j] = "queued"
        /\ Goto(w, "idle", "resolve")
        /\ status' = [status EXCEPT ![j] = "running"]
        /\ job' = [job EXCEPT ![w] = j]
        /\ UNCHANGED <<attempt, logVars, reportVars>>

\* A worker takes a job; BLPOP gives a job to one of them.
Take(w) ==
    \E j \in Jobs :
        /\ status[j] = "queued"
        /\ Goto(w, "idle", "resolve")
        /\ status' = [status EXCEPT ![j] = "running"]
        /\ job' = [job EXCEPT ![w] = j]
        /\ attempt' = [attempt EXCEPT ![j] = @ + 1]
        /\ UNCHANGED <<logVars, reportVars>>

\* The graph runs (see AgentGraph); the decision it returns may be empty.
RunGraph(w) ==
    /\ \E decided \in BOOLEAN : Goto(w, "graph", IF decided THEN "store" ELSE "save")
    /\ UNCHANGED <<job, attempt, status, logVars, reportVars>>

\* save_reports, in this second or a later one.  A directory that is there is
\* written into; a file is written only if there is something to say.
SaveReports(w) ==
    \E s \in {second, second + 1} \cap 1..MaxSecond :
        LET dir == <<TickerOf[job[w]], s>>
            tree == TreeOf(job[w], attempt[job[w]])
        IN  /\ Goto(w, "save", IF backend = "s3" THEN "upload" ELSE "complete")
            /\ second' = s
            /\ dirs' = [dirs EXCEPT ![dir] =
                            [f \in Files |-> IF f \in tree THEN Decision(w) ELSE @[f]]]
            /\ saved' = [saved EXCEPT ![w] = dir]
            /\ todo' = [todo EXCEPT ![w] = {f \in Files : dirs'[dir][f] # Absent}]
            /\ wrote' = [wrote EXCEPT ![job[w]] = tree]
            /\ shared' = (shared \/ dirs[dir] # NoFiles)
            /\ UNCHANGED <<job, attempt, status, logVars, backend, path, objects, faults>>

\* The directory is deleted once it has been uploaded, if so configured.
DropLocal(dir) == IF DeleteLocal THEN [dirs EXCEPT ![dir] = NoFiles] ELSE dirs

\* Mutant: the key names the user and the ticker but not the job.
UploadTree_OneKey(w) ==
    /\ at[w] = "upload"
    /\ \E f \in todo[w] :
        /\ objects' = [j \in Jobs |-> IF TickerOf[j] = TickerOf[job[w]]
                                      THEN [objects[j] EXCEPT ![f] = Decision(w)] ELSE objects[j]]
        /\ todo' = [todo EXCEPT ![w] = @ \ {f}]
    /\ at' = IF todo'[w] = {} THEN [at EXCEPT ![w] = "complete"] ELSE at
    /\ UNCHANGED <<job, attempt, status, logVars, backend, path, second, dirs, saved, faults, wrote, shared>>

\* upload_tree, a file at a time, over what an earlier attempt has uploaded and
\* with nothing removed.
UploadTree(w) ==
    /\ at[w] = "upload"
    /\ \E f \in todo[w] :
        /\ dirs[saved[w]][f] # Absent
        /\ objects' = [objects EXCEPT ![job[w]][f] = dirs[saved[w]][f]]
        /\ todo' = [todo EXCEPT ![w] = @ \ {f}]
    /\ IF todo'[w] = {}
       THEN /\ at' = [at EXCEPT ![w] = "complete"]
            /\ dirs' = DropLocal(saved[w])
       ELSE UNCHANGED <<at, dirs>>
    /\ UNCHANGED <<job, attempt, status, logVars, backend, path, second, saved, faults, wrote, shared>>

\* The job is recorded as completed, with its report.
Complete(w) ==
    /\ Goto(w, "complete", "publish")
    /\ status' = [status EXCEPT ![job[w]] = "completed"]
    /\ path' = [path EXCEPT ![job[w]] = IF backend = "s3" THEN StorageKey(job[w]) ELSE saved[w]]
    /\ UNCHANGED <<job, attempt, logVars, backend, second, dirs, saved, todo, objects, faults, wrote, shared>>

\* The worker is done with the job, and the process with what it held.
Stop(w) ==
    /\ at[w] # "idle"
    /\ at' = [at EXCEPT ![w] = "idle"]
    /\ job' = [job EXCEPT ![w] = NoJob]
    /\ fd' = [fd EXCEPT ![w] = "gone"]
    /\ saved' = [saved EXCEPT ![w] = NoPath]
    /\ todo' = [todo EXCEPT ![w] = {}]
    /\ stale' = [stale EXCEPT ![w] = FALSE]
    /\ Forget(w)
    /\ UNCHANGED <<attempt, log, tmp, raced, misread, book, settled,
                   backend, path, second, dirs, objects, wrote, shared>>

\* The job has been recorded as completed and is announced.
Publish(w) ==
    /\ at[w] = "publish"
    /\ Stop(w)
    /\ UNCHANGED <<status, faults>>

Fault == faults < MaxFaults /\ faults' = faults + 1

\* A step raises: the job is recorded as failed, even one recorded as completed.
Fail(w) ==
    /\ Fault
    /\ Stop(w)
    /\ status' = [status EXCEPT ![job[w]] = "failed"]

\* The worker dies and is started again; its job stays as it is.
Crash(w) ==
    /\ Fault
    /\ Stop(w)
    /\ UNCHANGED status

\* The user retries a failed job.
Retry(j) ==
    /\ status[j] = "failed"
    /\ attempt[j] < MaxAttempts
    /\ Cardinality({d \in Decisions : d.attempt <= attempt[d.job]}) < MaxRuns
    /\ status' = [status EXCEPT ![j] = "queued"]
    /\ UNCHANGED <<at, job, attempt, logVars, reportVars>>

\* What the API reads: a section by its key in the bucket or its place in the
\* directory, and a list of those that are there, for a completed job.
ReadSection(j, f) == IF path[j] = StorageKey(j) THEN objects[j][f] ELSE dirs[path[j]][f]
CanList(j) == status[j] = "completed" /\ path[j] # NoPath
ListSections(j) == {f \in Files : ReadSection(j, f) # Absent}

LogStep(w) ==
    /\ \/ ReadPending(w) \/ Reflect(w) \/ ReadLog(w) \/ OpenTmp(w) \/ WriteTmp(w) \/ Replace(w)
       \/ FindPending(w) \/ AppendDecision(w)
    /\ UNCHANGED <<status, reportVars>>

Next ==
    \/ \E w \in Workers :
        \/ Take(w) \/ LogStep(w) \/ RunGraph(w)
        \/ SaveReports(w) \/ UploadTree(w) \/ Complete(w) \/ Publish(w)
        \/ Fail(w) \/ Crash(w)
    \/ \E j \in Jobs : Retry(j)

Spec == Init /\ [][Next]_vars

-----------------------------------------------------------------------------
(* Properties                                                               *)

Blocks == [decision : Decisions, pending : BOOLEAN, about : Decisions]
InLog == {log[i].decision : i \in DOMAIN log}

TypeOK ==
    /\ at \in [Workers -> Steps]
    /\ job \in [Workers -> Jobs \cup {NoJob}]
    /\ attempt \in [Jobs -> 0..MaxAttempts]
    /\ status \in [Jobs -> {"queued", "running", "completed", "failed"}]
    /\ log \in Seq(Blocks) /\ tmp \subseteq Seq(Blocks)
    /\ {found, updates, text} \subseteq [Workers -> Seq(Blocks)]
    /\ fd \in [Workers -> {"tmp", "log", "gone"}]
    /\ stale \in [Workers -> BOOLEAN] /\ raced \in BOOLEAN /\ misread \in BOOLEAN
    /\ book \in Seq(Decisions) /\ settled \subseteq Decisions
    /\ backend \in {"local", "s3"} /\ second \in 0..MaxSecond /\ shared \in BOOLEAN
    /\ path \in [Jobs -> {NoPath} \cup Dirs \cup {StorageKey(j) : j \in Jobs}]
    /\ saved \in [Workers -> {NoPath} \cup Dirs]
    /\ dirs \in [Dirs -> [Files -> Decisions \cup {Absent}]]
    /\ objects \in [Jobs -> [Files -> Decisions \cup {Absent}]]
    /\ todo \in [Workers -> SUBSET Files] /\ wrote \in [Jobs -> SUBSET Files]

\* Whatever fails, and whoever dies while it writes, the log keeps its
\* decisions in the order they were stored; what has gone was resolved, and was
\* older than the MaxEntries resolved ones that are there.  Only if a worker
\* writes what it has made of a log that has changed in the meantime, a
\* decision may be lost.
DecisionsKept ==
    ~ raced =>
        /\ \A i, k \in DOMAIN log : i < k =>
            \E m, n \in DOMAIN book :
                m < n /\ book[m] = log[i].decision /\ book[n] = log[k].decision
        /\ \A m \in DOMAIN book : book[m] \notin InLog =>
            /\ book[m] \in settled
            /\ Cardinality(Resolved(log)) = MaxEntries
            /\ \A n \in DOMAIN book :
                (\E i \in Resolved(log) : log[i].decision = book[n]) => m < n

\* The workers' readings and writings come down to one operation on the log at
\* a time: each step stores one decision, settles some, or leaves the log as it
\* is, until a write rests on a stale reading.
Entries == [i \in DOMAIN log |-> [decision |-> log[i].decision, pending |-> log[i].pending]]
Atomic == INSTANCE AtomicLog WITH
    entries <- Entries,
    KeyOf <- [d \in Decisions |-> <<DateOf[d.job], TickerOf[d.job]>>],
    Cap <- MaxEntries
WritesAreAtomic == [][raced' \/ log' = log \/ Atomic!Next]_vars

\* A reflection is about the decision it stands under, and no two decisions
\* of one ticker and date wait for their outcome, unless the log has
\* changed between a worker's reading it and its writing.
ReflectionMatches ==
    ~ raced /\ ~ misread =>
        /\ \A i, k \in DOMAIN log :
            log[i].pending /\ log[k].pending /\ Key(log[i]) = Key(log[k]) => i = k
        /\ \A i \in DOMAIN log : log[i].about = log[i].decision

\* What a run of a ticker is told of the past are the latest resolved decisions
\* of the ticker and the latest of other tickers, newest first: of the log as
\* it is, and of the log with all its decisions resolved.
Latest(blocks, places, n) ==
    [i \in 1..(IF Cardinality(places) < n THEN Cardinality(places) ELSE n) |->
        blocks[Nth(places, Cardinality(places) - i + 1)]]
ContextIsRecent ==
    \A blocks \in {log, Batch(log, log)}, ticker \in {TickerOf[j] : j \in Jobs} \cup {"another"} :
        LET same == {i \in Resolved(blocks) : Ticker(blocks[i]) = ticker}
        IN  PastContext(blocks, ticker) =
                [same |-> Latest(blocks, same, NSame),
                 cross |-> Latest(blocks, Resolved(blocks) \ same, NCross)]

\* The report of a completed job is the one its last attempt wrote, every
\* section of it.  The exceptions: two runs that have saved to one directory,
\* and sections of an earlier attempt that the last one had nothing to put in
\* the place of, which stay in the bucket.
ReportIsOwn ==
    \A j \in Jobs : CanList(j) /\ ~ shared =>
        /\ wrote[j] \subseteq ListSections(j)
        /\ \A f \in ListSections(j) :
            IF f \in wrote[j]
            THEN ReadSection(j, f) = [job |-> j, attempt |-> attempt[j]]
            ELSE backend = "s3" /\ ReadSection(j, f).job = j

=============================================================================
