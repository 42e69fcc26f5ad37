----------------------------- MODULE QuotaLedger -----------------------------
(***************************************************************************)
(* The quota row of one user in Postgres (packages/ax_db/repository.py),   *)
(* under READ COMMITTED, PostgreSQL's default, which the engine keeps:     *)
(*                                                                         *)
(*   threads   POST /analyses: charge_points reads the row, checks the     *)
(*             limit and flushes an absolute value; the job row is         *)
(*             committed by a transaction of its own; then the charge is   *)
(*             committed                                                   *)
(*   admins    PATCH /admin/users/{id}/quota: reset, plan, or set_quota    *)
(*                                                                         *)
(* A flush takes the row lock and holds it to the end of the transaction;  *)
(* it writes the columns whose value the session changed, computed from    *)
(* what it read before it waited for the lock.                             *)
(***************************************************************************)
EXTENDS Integers, FiniteSets

CONSTANTS
    Threads,        \* API request threads creating analyses
    Admins,         \* API request threads patching the quota
    NoOne,          \* holds the lock when nobody does
    Costs,          \* points of an analysis, counted in tenths
    Limits,         \* limits of the plans, and those an admin may set
    Settings,       \* values an admin may set points_used to
    FirstLimit,     \* limit of the plan a new user gets
    MaxOps,         \* bound: requests explored
    MaxFaults       \* bound: transactions that fail

ASSUME QuotaLedgerAssumption ==
    /\ Threads \cap Admins = {}
    /\ NoOne \notin Threads \cup Admins
    /\ Costs \subseteq Nat \ {0}
    /\ Limits \subseteq Nat
    /\ FirstLimit \in Limits
    /\ Settings \subseteq Nat
    /\ 0 \in Settings
    /\ MaxOps \in Nat
    /\ MaxFaults \in Nat

VARIABLES
    quota,      \* the committed row: used and limit
    lock,       \* who holds the row lock
    pc,         \* pc[a]: the next step of a's transaction
    snap,       \* snap[a]: the row as a's session read it
    goal,       \* goal[a]: the row as a's session changed it
    cost,       \* cost[t]: the points of the analysis t creates
    billed,     \* points_charged of all job rows, plus what admins set
    seen,       \* seen[a]: history, the limits in force since a read the row
    ceilings,   \* history: what the recorded usage may go up to
    ops,        \* requests so far
    faults      \* failed transactions so far

vars == <<quota, lock, pc, snap, goal, cost, billed, seen, ceilings, ops, faults>>

Actors == Threads \cup Admins
Quota == [used : Nat, limit : Limits]

Init ==
    /\ quota = [used |-> 0, limit |-> FirstLimit]
    /\ lock = NoOne
    /\ pc = [a \in Actors |-> "idle"]
    /\ snap = [a \in Actors |-> quota]
    /\ goal = [a \in Actors |-> quota]
    /\ cost = [t \in Threads |-> 0]
    /\ billed = 0
    /\ seen = [a \in Actors |-> {}]
    /\ ceilings = {FirstLimit}
    /\ ops = 0
    /\ faults = 0

GoTo(a, step) == pc' = [pc EXCEPT ![a] = step]

\* Transaction a has read the row and changed it to new.
Begin(a, new) ==
    /\ pc[a] = "idle"
    /\ ops < MaxOps
    /\ ops' = ops + 1
    /\ snap' = [snap EXCEPT ![a] = quota]
    /\ goal' = [goal EXCEPT ![a] = new]
    /\ seen' = [seen EXCEPT ![a] = {quota.limit}]
    /\ GoTo(a, "flush")
    /\ UNCHANGED <<quota, lock, billed, ceilings, faults>>

\* Mutant: the limit is the one the thread's session read the time before.
Charge_StaleLimit(t, c) ==
    /\ quota.used + c <= snap[t].limit
    /\ Begin(t, [quota EXCEPT !.used = @ + c])
    /\ cost' = [cost EXCEPT ![t] = c]

\* charge_points: a request above the limit is answered with 402 and changes
\* nothing.
Charge(t, c) ==
    /\ quota.used + c <= quota.limit
    /\ Begin(t, [quota EXCEPT !.used = @ + c])
    /\ cost' = [cost EXCEPT ![t] = c]

\* reset_usage (0), apply_plan (a limit), or set_quota (either or both).
Patch(a) ==
    /\ \E used \in Settings \cup {quota.used}, limit \in Limits :
          Begin(a, [used |-> used, limit |-> limit])
    /\ UNCHANGED cost

\* session.flush(): the UPDATE waits for the row lock, if there is one.
Flush(a) ==
    /\ pc[a] = "flush"
    /\ IF goal[a] = snap[a] THEN UNCHANGED lock ELSE lock = NoOne /\ lock' = a
    /\ GoTo(a, IF a \in Threads THEN "insert" ELSE "commit")
    /\ UNCHANGED <<quota, snap, goal, cost, billed, seen, ceilings, ops, faults>>

\* PostgresJobStore.create_job commits the job row, with its points_charged.
InsertJob(t) ==
    /\ pc[t] = "insert"
    /\ billed' = billed + cost[t]
    /\ GoTo(t, "commit")
    /\ UNCHANGED <<quota, lock, snap, goal, cost, seen, ceilings, ops, faults>>

Unlock(a) == lock' = IF lock = a THEN NoOne ELSE lock

\* Mutant: the UPDATE adds the difference to what the row holds by now.
Committed_Difference(a) ==
    [used  |-> quota.used + (goal[a].used - snap[a].used),
     limit |-> IF goal[a].limit = snap[a].limit THEN quota.limit ELSE goal[a].limit]

\* The columns that the session changed reach the row.
Committed(a) ==
    [used  |-> IF goal[a].used = snap[a].used THEN quota.used ELSE goal[a].used,
     limit |-> IF goal[a].limit = snap[a].limit THEN quota.limit ELSE goal[a].limit]

\* What an admin puts on the account.
Put(a) == IF a \in Admins /\ goal[a].used # snap[a].used THEN goal[a].used ELSE 0

\* History: a limit that a commit puts in force has been seen by whoever is
\* under way; a new usage may go up to the limits its charge has seen, or to
\* what the admin asked for.
Record(a) ==
    /\ seen' = [b \in Actors |-> seen[b] \cup {Committed(a).limit}]
    /\ ceilings' = IF goal[a].used = snap[a].used THEN ceilings
                   ELSE IF a \in Threads THEN seen[a] ELSE {goal[a].used}

\* Mutant: the UPDATE adds the new total instead of setting it.
Commit_Adds(a) ==
    /\ pc[a] = "commit"
    /\ quota' = [Committed(a) EXCEPT !.used = IF a \in Threads THEN quota.used + @ ELSE @]
    /\ billed' = billed + Put(a)
    /\ Record(a)
    /\ Unlock(a)
    /\ GoTo(a, "idle")
    /\ UNCHANGED <<snap, goal, cost, ops, faults>>

Commit(a) ==
    /\ pc[a] = "commit"
    /\ quota' = Committed(a)
    /\ billed' = billed + Put(a)
    /\ Record(a)
    /\ Unlock(a)
    /\ GoTo(a, "idle")
    /\ UNCHANGED <<snap, goal, cost, ops, faults>>

\* A step of the request raises, or its process dies: the transaction is
\* rolled back.  A job row that was committed stays.
Abort(a) ==
    /\ pc[a] # "idle"
    /\ faults < MaxFaults
    /\ faults' = faults + 1
    /\ Unlock(a)
    /\ GoTo(a, "idle")
    /\ UNCHANGED <<quota, snap, goal, cost, billed, seen, ceilings, ops>>

Next ==
    \/ \E t \in Threads : InsertJob(t) \/ \E c \in Costs : Charge(t, c)
    \/ \E a \in Admins : Patch(a)
    \/ \E a \in Actors : Flush(a) \/ Commit(a) \/ Abort(a)

Spec == Init /\ [][Next]_vars

-----------------------------------------------------------------------------
(* Properties                                                               *)

TypeOK ==
    /\ quota \in Quota
    /\ lock \in Actors \cup {NoOne}
    /\ pc \in [Actors -> {"idle", "flush", "insert", "commit"}]
    /\ snap \in [Actors -> Quota]
    /\ goal \in [Actors -> Quota]
    /\ cost \in [Threads -> Nat]
    /\ billed \in Nat
    /\ seen \in [Actors -> SUBSET Limits]
    /\ ceilings \subseteq Nat
    /\ ops \in Nat
    /\ faults \in Nat

\* Users never pay for more than the analyses that were started for them:
\* overlapping charges, resets and rolled back requests may lose a charge,
\* but never add one.
NeverOvercharged == quota.used <= billed

\* What is recorded as used is within a limit that was in force while the
\* charge that wrote it was under way, or is what an admin set it to: never
\* within a limit only that was replaced before the request came.
WithinLimits == \E l \in ceilings : quota.used <= l

\* Why NeverOvercharged is inductive: a transaction that has read the row
\* writes at most what has been billed by the time it commits.
Covered ==
    \A a \in Actors :
        /\ pc[a] # "idle" => snap[a].used <= billed
        /\ a \in Threads =>
              /\ pc[a] \in {"flush", "insert"} => goal[a].used <= billed + cost[a]
              /\ pc[a] = "commit" => goal[a].used <= billed

\* Why WithinLimits is inductive: a charge under way is within the limit its
\* session read, which is one of those it has seen.
Capped ==
    \A t \in Threads :
        pc[t] # "idle" => snap[t].limit \in seen[t] /\ goal[t].used <= snap[t].limit

LedgerInv ==
    /\ TypeOK
    /\ NeverOvercharged
    /\ Covered
    /\ WithinLimits
    /\ Capped

\* When no request is under way, and none has failed, every analysis started
\* has been deducted.  Without admins.
ChargesAddUp ==
    (\A a \in Actors : pc[a] = "idle") /\ faults = 0 => quota.used = billed

=============================================================================
