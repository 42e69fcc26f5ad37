------------------------- MODULE QuotaLedger_proofs -------------------------
(***************************************************************************)
(* Proofs about QuotaLedger, for any number of requests and admins, any    *)
(* costs, limits and settings.                                             *)
(*                                                                         *)
(* The row lock plays no part: a charge can be lost because the UPDATE     *)
(* writes a value computed before the lock was obtained, and for the same  *)
(* reason it can never write more than has been billed (Covered).          *)
(***************************************************************************)
EXTENDS QuotaLedger, TLAPS

\* Moving one transaction changes its own pc only.
LEMMA GoToFacts ==
    ASSUME TypeOK, NEW a \in Actors, NEW step, GoTo(a, step)
    PROVE  /\ pc'[a] = step
           /\ \A b \in Actors : b # a => pc'[b] = pc[b]
  BY DEF TypeOK, GoTo

\* A transaction that starts with the row new, bounded as LedgerInv demands,
\* keeps LedgerInv.
LEMMA BeginStep ==
    ASSUME LedgerInv, NEW a \in Actors, NEW new \in Quota, Begin(a, new),
           cost' \in [Threads -> Nat],
           \A t \in Threads : t # a => cost'[t] = cost[t],
           a \in Threads => new.used <= quota.used + cost'[a],
           a \in Threads => new.used <= quota.limit
    PROVE  LedgerInv'
<1>1. /\ quota' = quota /\ lock' = lock /\ billed' = billed /\ faults' = faults
      /\ ceilings' = ceilings /\ ops' = ops + 1
      /\ seen' = [seen EXCEPT ![a] = {quota.limit}]
      /\ snap' = [snap EXCEPT ![a] = quota]
      /\ goal' = [goal EXCEPT ![a] = new]
      /\ pc' = [pc EXCEPT ![a] = "flush"]
  BY DEF Begin, GoTo
<1>2. /\ snap'[a] = quota /\ goal'[a] = new /\ pc'[a] = "flush"
      /\ seen'[a] = {quota.limit}
      /\ \A b \in Actors : b # a =>
            /\ snap'[b] = snap[b] /\ goal'[b] = goal[b] /\ pc'[b] = pc[b]
            /\ seen'[b] = seen[b]
  BY <1>1 DEF LedgerInv, TypeOK
<1>3. TypeOK'
  BY <1>1 DEF LedgerInv, TypeOK, Quota
<1>4. NeverOvercharged' /\ WithinLimits'
  BY <1>1 DEF LedgerInv, NeverOvercharged, WithinLimits
<1>5. Capped'
  BY <1>2 DEF LedgerInv, Capped, Actors
<1>6. Covered'
  <2>1. ASSUME NEW b \in Actors, b # a
        PROVE  /\ pc'[b] # "idle" => snap'[b].used <= billed'
               /\ b \in Threads =>
                     /\ pc'[b] \in {"flush", "insert"} =>
                           goal'[b].used <= billed' + cost'[b]
                     /\ pc'[b] = "commit" => goal'[b].used <= billed'
    BY <1>1, <1>2, <2>1 DEF LedgerInv, Covered
  <2>2. snap'[a].used <= billed'
    BY <1>1, <1>2 DEF LedgerInv, NeverOvercharged
  <2>3. a \in Threads => goal'[a].used <= billed' + cost'[a]
    <3>1. SUFFICES ASSUME a \in Threads PROVE new.used <= billed + cost'[a]
      BY <1>1, <1>2
    <3>2. new.used \in Nat /\ quota.used \in Nat /\ billed \in Nat /\ cost'[a] \in Nat
      BY <3>1 DEF LedgerInv, TypeOK, Quota
    <3>3. new.used <= quota.used + cost'[a] /\ quota.used <= billed
      BY <3>1 DEF LedgerInv, NeverOvercharged
    <3>4. QED
      BY <3>2, <3>3
  <2>4. QED
    BY <1>2, <2>1, <2>2, <2>3 DEF Covered
<1>7. QED
  BY <1>3, <1>4, <1>5, <1>6 DEF LedgerInv

LEMMA ChargeStep ==
    ASSUME LedgerInv, NEW t \in Threads, NEW c \in Costs, Charge(t, c)
    PROVE  LedgerInv'
<1> DEFINE new == [quota EXCEPT !.used = @ + c]
<1>1. /\ c \in Nat /\ quota \in Quota /\ quota.used \in Nat /\ quota.limit \in Limits
      /\ t \in Actors
  BY QuotaLedgerAssumption DEF LedgerInv, TypeOK, Quota, Actors
<1>2. /\ Begin(t, new) /\ quota.used + c <= quota.limit
      /\ cost' = [cost EXCEPT ![t] = c]
  BY DEF Charge
<1>3. new \in Quota /\ new.used = quota.used + c
  BY <1>1 DEF Quota
<1>4. /\ cost' \in [Threads -> Nat] /\ cost'[t] = c
      /\ \A u \in Threads : u # t => cost'[u] = cost[u]
  BY <1>1, <1>2 DEF LedgerInv, TypeOK
<1>5. new.used <= quota.limit
  BY <1>2, <1>3
<1>6. new.used <= quota.used + cost'[t]
  BY <1>1, <1>3, <1>4
<1> HIDE DEF new
<1>7. QED
  BY <1>1, <1>2, <1>3, <1>4, <1>5, <1>6, BeginStep

LEMMA PatchStep ==
    ASSUME LedgerInv, NEW a \in Admins, Patch(a)
    PROVE  LedgerInv'
<1>1. PICK used \in Settings \cup {quota.used}, limit \in Limits :
         Begin(a, [used |-> used, limit |-> limit])
  BY DEF Patch
<1> DEFINE new == [used |-> used, limit |-> limit]
<1>2. new \in Quota /\ new.used = used
  BY QuotaLedgerAssumption DEF LedgerInv, TypeOK, Quota
<1>3. a \in Actors /\ a \notin Threads
  BY QuotaLedgerAssumption DEF Actors
<1>4. cost' = cost /\ cost \in [Threads -> Nat]
  BY DEF Patch, LedgerInv, TypeOK
<1> HIDE DEF new
<1>5. QED
  BY <1>1, <1>2, <1>3, <1>4, BeginStep DEF new

LEMMA FlushStep ==
    ASSUME LedgerInv, NEW a \in Actors, Flush(a)
    PROVE  LedgerInv'
<1>1. /\ pc[a] = "flush" /\ lock' \in {lock, a}
      /\ GoTo(a, IF a \in Threads THEN "insert" ELSE "commit")
      /\ UNCHANGED <<quota, snap, goal, cost, billed, seen, ceilings, ops, faults>>
  BY DEF Flush
<1>2. /\ pc'[a] = IF a \in Threads THEN "insert" ELSE "commit"
      /\ \A b \in Actors : b # a => pc'[b] = pc[b]
  BY <1>1, GoToFacts DEF LedgerInv
<1>3. TypeOK'
  BY <1>1 DEF LedgerInv, TypeOK, GoTo
<1>4. NeverOvercharged' /\ WithinLimits' /\ Capped'
  BY <1>1, <1>2 DEF LedgerInv, NeverOvercharged, WithinLimits, Capped, Actors
<1>5. Covered'
  BY <1>1, <1>2 DEF LedgerInv, Covered
<1>6. QED
  BY <1>3, <1>4, <1>5 DEF LedgerInv

LEMMA InsertJobStep ==
    ASSUME LedgerInv, NEW t \in Threads, InsertJob(t)
    PROVE  LedgerInv'
<1>1. /\ pc[t] = "insert" /\ billed' = billed + cost[t] /\ GoTo(t, "commit")
      /\ UNCHANGED <<quota, lock, snap, goal, cost, seen, ceilings, ops, faults>>
  BY DEF InsertJob
<1>2. t \in Actors
  BY DEF Actors
<1>3. pc'[t] = "commit" /\ \A b \in Actors : b # t => pc'[b] = pc[b]
  BY <1>1, <1>2, GoToFacts DEF LedgerInv
<1>4. billed \in Nat /\ cost[t] \in Nat /\ billed' \in Nat /\ quota.used \in Nat
  BY <1>1 DEF LedgerInv, TypeOK, Quota
<1>5. TypeOK'
  BY <1>1, <1>4 DEF LedgerInv, TypeOK, GoTo
<1>6. NeverOvercharged'
  BY <1>1, <1>4 DEF LedgerInv, NeverOvercharged
<1>7. WithinLimits' /\ Capped'
  BY <1>1, <1>3 DEF Actors, LedgerInv, WithinLimits, Capped
<1>8. Covered'
  <2>1. goal[t].used <= billed' /\ snap[t].used <= billed
    BY <1>1, <1>2 DEF LedgerInv, Covered
  <2>2. snap[t].used \in Nat
    BY <1>2 DEF LedgerInv, TypeOK, Quota
  <2>3. ASSUME NEW b \in Actors, b # t
        PROVE  /\ pc[b] # "idle" => snap[b].used <= billed'
               /\ b \in Threads =>
                     /\ pc[b] \in {"flush", "insert"} => goal[b].used <= billed' + cost[b]
                     /\ pc[b] = "commit" => goal[b].used <= billed'
    <3>1. snap[b].used \in Nat /\ goal[b].used \in Nat
      BY DEF LedgerInv, TypeOK, Quota
    <3>2. b \in Threads => cost[b] \in Nat
      BY DEF LedgerInv, TypeOK
    <3>3. /\ pc[b] # "idle" => snap[b].used <= billed
          /\ b \in Threads =>
                /\ pc[b] \in {"flush", "insert"} => goal[b].used <= billed + cost[b]
                /\ pc[b] = "commit" => goal[b].used <= billed
      BY DEF LedgerInv, Covered
    <3>4. QED
      BY <1>1, <1>4, <3>1, <3>2, <3>3
  <2>4. snap[t].used <= billed'
    BY <1>1, <1>4, <2>1, <2>2
  <2>5. QED
    BY <1>1, <1>3, <2>1, <2>3, <2>4 DEF Covered
<1>9. QED
  BY <1>5, <1>6, <1>7, <1>8 DEF LedgerInv

\* What a commit leaves in the row, and what it bills.
LEMMA CommitFacts ==
    ASSUME LedgerInv, NEW a \in Actors, Commit(a)
    PROVE  /\ quota' \in Quota
           /\ quota'.used \in {quota.used, goal[a].used}
           /\ billed' \in Nat /\ billed <= billed'
           /\ quota'.used <= billed'
<1>1. /\ pc[a] = "commit" /\ quota' = Committed(a) /\ billed' = billed + Put(a)
  BY DEF Commit
<1>2. /\ quota \in Quota /\ goal[a] \in Quota /\ snap[a] \in Quota /\ billed \in Nat
      /\ quota.used <= billed
  BY DEF LedgerInv, TypeOK, NeverOvercharged
<1>3. quota' \in Quota /\ quota'.used \in {quota.used, goal[a].used}
  BY <1>1, <1>2 DEF Committed, Quota
<1>4. Put(a) \in Nat /\ quota.used \in Nat /\ goal[a].used \in Nat
  BY <1>2 DEF Put, Quota
<1>5. billed' \in Nat /\ billed <= billed'
  BY <1>1, <1>2, <1>4
<1>6. quota'.used <= billed'
  <2>1. CASE quota'.used = quota.used
    BY <1>2, <1>4, <1>5, <2>1
  <2>2. CASE quota'.used # quota.used
    <3>1. quota'.used = goal[a].used /\ goal[a].used # snap[a].used
      BY <1>1, <1>3, <2>2 DEF Committed
    <3>2. CASE a \in Threads
      <4>1. goal[a].used <= billed
        BY <1>1, <3>2 DEF LedgerInv, Covered
      <4>2. QED
        BY <1>2, <1>4, <1>5, <3>1, <4>1
    <3>3. CASE a \in Admins
      <4>1. billed' = billed + goal[a].used
        BY <1>1, <3>1, <3>3 DEF Put
      <4>2. QED
        BY <1>2, <1>4, <3>1, <4>1
    <3>4. QED
      BY <3>2, <3>3 DEF Actors
  <2>3. QED
    BY <2>1, <2>2
<1>7. QED
  BY <1>3, <1>5, <1>6

\* A step that ends a's transaction and lowers nothing keeps Covered.
LEMMA EndKeepsCovered ==
    ASSUME LedgerInv, NEW a \in Actors, GoTo(a, "idle"),
           snap' = snap, goal' = goal, cost' = cost,
           billed' \in Nat, billed <= billed'
    PROVE  Covered'
<1>1. pc'[a] = "idle" /\ \A b \in Actors : b # a => pc'[b] = pc[b]
  BY GoToFacts DEF LedgerInv
<1>2. ASSUME NEW b \in Actors, b # a
      PROVE  /\ pc[b] # "idle" => snap[b].used <= billed'
             /\ b \in Threads =>
                   /\ pc[b] \in {"flush", "insert"} => goal[b].used <= billed' + cost[b]
                   /\ pc[b] = "commit" => goal[b].used <= billed'
  <2>1. snap[b].used \in Nat /\ goal[b].used \in Nat /\ billed \in Nat
    BY DEF LedgerInv, TypeOK, Quota
  <2>2. b \in Threads => cost[b] \in Nat
    BY DEF LedgerInv, TypeOK
  <2>3. /\ pc[b] # "idle" => snap[b].used <= billed
        /\ b \in Threads =>
              /\ pc[b] \in {"flush", "insert"} => goal[b].used <= billed + cost[b]
              /\ pc[b] = "commit" => goal[b].used <= billed
    BY DEF LedgerInv, Covered
  <2>4. QED
    BY <2>1, <2>2, <2>3
<1>3. QED
  BY <1>1, <1>2 DEF Covered

\* What a commit writes is within what it records as the ceilings.
LEMMA CommitWithin ==
    ASSUME LedgerInv, NEW a \in Actors, Commit(a)
    PROVE  WithinLimits'
<1>1. pc[a] = "commit" /\ quota' = Committed(a) /\ Record(a)
  BY DEF Commit
<1>2. CASE goal[a].used = snap[a].used
  BY <1>1, <1>2 DEF LedgerInv, WithinLimits, Committed, Record
<1>3. CASE goal[a].used # snap[a].used
  <2>1. quota'.used = goal[a].used
    BY <1>1, <1>3 DEF Committed
  <2>2. CASE a \in Threads
    <3>1. ceilings' = seen[a]
      BY <1>1, <1>3, <2>2 DEF Record
    <3>2. snap[a].limit \in seen[a] /\ goal[a].used <= snap[a].limit
      BY <1>1, <2>2 DEF LedgerInv, Capped
    <3>3. QED
      BY <2>1, <3>1, <3>2 DEF WithinLimits
  <2>3. CASE a \notin Threads
    <3>1. ceilings' = {goal[a].used}
      BY <1>1, <1>3, <2>3 DEF Record
    <3>2. goal[a].used \in Nat
      BY DEF LedgerInv, TypeOK, Quota
    <3>3. QED
      BY <2>1, <3>1, <3>2 DEF WithinLimits
  <2>4. QED
    BY <2>2, <2>3
<1>4. QED
  BY <1>2, <1>3

LEMMA CommitStep ==
    ASSUME LedgerInv, NEW a \in Actors, Commit(a)
    PROVE  LedgerInv'
<1>1. /\ Unlock(a) /\ GoTo(a, "idle") /\ Record(a) /\ quota' = Committed(a)
      /\ UNCHANGED <<snap, goal, cost, ops, faults>>
  BY DEF Commit
<1>2. /\ quota' \in Quota /\ quota'.used \in {quota.used, goal[a].used}
      /\ billed' \in Nat /\ billed <= billed' /\ quota'.used <= billed'
  BY CommitFacts
<1>3. /\ seen' \in [Actors -> SUBSET Limits] /\ ceilings' \subseteq Nat
      /\ \A b \in Actors : seen[b] \subseteq seen'[b]
  <2>1. Committed(a).limit \in Limits /\ goal[a].used \in Nat
    BY <1>1, <1>2 DEF LedgerInv, TypeOK, Quota
  <2>2. seen[a] \subseteq Nat
    BY QuotaLedgerAssumption DEF LedgerInv, TypeOK
  <2>3. QED
    BY <1>1, <2>1, <2>2 DEF Record, LedgerInv, TypeOK
<1>4. TypeOK'
  BY <1>1, <1>2, <1>3 DEF LedgerInv, TypeOK, Unlock, GoTo
<1>5. NeverOvercharged'
  BY <1>2 DEF NeverOvercharged
<1>6. Covered'
  BY <1>1, <1>2, EndKeepsCovered
<1>7. WithinLimits'
  BY CommitWithin
<1>8. Capped'
  <2>1. pc'[a] = "idle" /\ \A b \in Actors : b # a => pc'[b] = pc[b]
    BY <1>1, GoToFacts DEF LedgerInv
  <2>2. QED
    BY <1>1, <1>3, <2>1 DEF LedgerInv, Capped, Actors
<1>9. QED
  BY <1>4, <1>5, <1>6, <1>7, <1>8 DEF LedgerInv

LEMMA AbortStep ==
    ASSUME LedgerInv, NEW a \in Actors, Abort(a)
    PROVE  LedgerInv'
<1>1. /\ Unlock(a) /\ GoTo(a, "idle") /\ faults' = faults + 1
      /\ UNCHANGED <<quota, snap, goal, cost, billed, seen, ceilings, ops>>
  BY DEF Abort
<1>2. TypeOK'
  BY <1>1 DEF LedgerInv, TypeOK, Unlock, GoTo
<1>3. NeverOvercharged' /\ WithinLimits' /\ Capped'
  <2>1. pc'[a] = "idle" /\ \A b \in Actors : b # a => pc'[b] = pc[b]
    BY <1>1, GoToFacts DEF LedgerInv
  <2>2. QED
    BY <1>1, <2>1 DEF LedgerInv, NeverOvercharged, WithinLimits, Capped, Actors
<1>4. billed' \in Nat /\ billed <= billed'
  BY <1>1 DEF LedgerInv, TypeOK
<1>5. Covered'
  BY <1>1, <1>4, EndKeepsCovered
<1>6. QED
  BY <1>2, <1>3, <1>5 DEF LedgerInv

\* The inductive invariant of the ledger.
THEOREM Invariant == Spec => []LedgerInv
<1>1. Init => LedgerInv
  <2> SUFFICES ASSUME Init PROVE LedgerInv
    OBVIOUS
  <2>1. quota \in Quota /\ quota.used = 0 /\ billed = 0
    BY QuotaLedgerAssumption DEF Init, Quota
  <2>2. \A a \in Actors : snap[a] = quota /\ goal[a] = quota /\ pc[a] = "idle"
    BY DEF Init
  <2>3. TypeOK
    BY <2>1, QuotaLedgerAssumption DEF Init, TypeOK
  <2>4. NeverOvercharged
    BY <2>1 DEF NeverOvercharged
  <2>5. WithinLimits /\ Capped
    BY <2>1, <2>2, QuotaLedgerAssumption DEF Init, WithinLimits, Capped, Actors
  <2>6. Covered
    BY <2>2 DEF Covered
  <2>7. QED
    BY <2>3, <2>4, <2>5, <2>6 DEF LedgerInv
<1>2. LedgerInv /\ [Next]_vars => LedgerInv'
  <2> SUFFICES ASSUME LedgerInv, [Next]_vars PROVE LedgerInv'
    OBVIOUS
  <2>1. CASE UNCHANGED vars
    BY <2>1 DEF vars, LedgerInv, TypeOK, NeverOvercharged, Covered, WithinLimits, Capped
  <2>2. ASSUME NEW t \in Threads, InsertJob(t) \/ \E c \in Costs : Charge(t, c)
        PROVE  LedgerInv'
    BY <2>2, InsertJobStep, ChargeStep
  <2>3. ASSUME NEW a \in Admins, Patch(a)
        PROVE  LedgerInv'
    BY <2>3, PatchStep
  <2>4. ASSUME NEW a \in Actors, Flush(a) \/ Commit(a) \/ Abort(a)
        PROVE  LedgerInv'
    BY <2>4, FlushStep, CommitStep, AbortStep
  <2>5. QED
    BY <2>1, <2>2, <2>3, <2>4 DEF Next
<1>3. QED
  BY <1>1, <1>2, PTL DEF Spec

\* The row, the transactions and the tallies keep their types.
THEOREM TypeCorrect == Spec => []TypeOK
<1>1. LedgerInv => TypeOK
  BY DEF LedgerInv
<1>2. QED
  BY <1>1, Invariant, PTL

\* No interleaving of charges, admin changes and rolled back requests deducts
\* more than was billed.
THEOREM NobodyOvercharged == Spec => []NeverOvercharged
<1>1. LedgerInv => NeverOvercharged
  BY DEF LedgerInv
<1>2. QED
  BY <1>1, Invariant, PTL

\* The recorded usage is within a limit that was in force while the charge that
\* wrote it was under way, however the limit changes meanwhile, or is what an
\* admin set.
THEOREM LimitsHold == Spec => []WithinLimits
<1>1. LedgerInv => WithinLimits
  BY DEF LedgerInv
<1>2. QED
  BY <1>1, Invariant, PTL

-----------------------------------------------------------------------------
(* What is lost is lost to an overlap                                       *)

\* One request at a time has a transaction.
Serial == \A a, b \in Actors : pc[a] # "idle" /\ pc[b] # "idle" => a = b

\* What a charge knows that nobody else gets in the way of, and what the row
\* holds meanwhile.
AddsUp(t) ==
    /\ snap[t].used = quota.used /\ goal[t].used # snap[t].used
    /\ pc[t] \in {"flush", "insert"} => quota.used = billed /\ goal[t].used = billed + cost[t]
    /\ pc[t] = "commit" => goal[t].used = billed
SerialInv ==
    /\ TypeOK
    /\ faults = 0 => ChargesAddUp /\ \A t \in Threads : pc[t] # "idle" => AddsUp(t)

LEMMA SerialStep ==
    ASSUME Admins = {}, SerialInv, Serial, Serial', TypeOK', [Next]_vars
    PROVE  SerialInv'
<1>. SUFFICES ASSUME faults' = 0
              PROVE  ChargesAddUp' /\ \A t \in Threads : pc'[t] # "idle" => AddsUp(t)'
  BY DEF SerialInv
<1>. USE DEF SerialInv
<1>1. Actors = Threads
  BY DEF Actors
<1>2. CASE UNCHANGED vars
  BY <1>2 DEF vars, ChargesAddUp, AddsUp
<1>3. ASSUME NEW t \in Threads, NEW c \in Costs, Charge(t, c)
      PROVE  ChargesAddUp' /\ \A u \in Threads : pc'[u] # "idle" => AddsUp(u)'
  <2>1. /\ pc[t] = "idle" /\ faults = 0 /\ quota' = quota /\ billed' = billed
        /\ snap' = [snap EXCEPT ![t] = quota]
        /\ goal' = [goal EXCEPT ![t] = [quota EXCEPT !.used = @ + c]]
        /\ pc' = [pc EXCEPT ![t] = "flush"] /\ cost' = [cost EXCEPT ![t] = c]
    BY <1>3 DEF Charge, Begin, GoTo
  <2>2. pc'[t] = "flush" /\ snap'[t] = quota /\ cost'[t] = c /\ goal'[t].used = quota.used + c
    BY <1>1, <2>1 DEF TypeOK, Quota
  <2>3. \A u \in Threads : u # t => pc'[u] = "idle" /\ pc[u] = "idle"
    BY <1>1, <2>1, <2>2 DEF Serial, TypeOK
  <2>4. quota.used = billed
    BY <1>1, <2>1, <2>3 DEF ChargesAddUp
  <2>5. c \in Nat \ {0} /\ quota.used \in Nat
    BY QuotaLedgerAssumption DEF TypeOK, Quota
  <2>6. AddsUp(t)'
    BY <2>1, <2>2, <2>4, <2>5 DEF AddsUp
  <2>7. ChargesAddUp'
    BY <1>1, <2>2 DEF ChargesAddUp
  <2>8. QED
    BY <2>3, <2>6, <2>7
<1>4. ASSUME NEW t \in Threads, InsertJob(t)
      PROVE  ChargesAddUp' /\ \A u \in Threads : pc'[u] # "idle" => AddsUp(u)'
  <2>1. /\ pc[t] = "insert" /\ faults = 0 /\ billed' = billed + cost[t]
        /\ quota' = quota /\ snap' = snap /\ goal' = goal /\ cost' = cost
        /\ pc' = [pc EXCEPT ![t] = "commit"]
    BY <1>4 DEF InsertJob, GoTo
  <2>2. pc'[t] = "commit" /\ \A u \in Threads : u # t => pc'[u] = "idle"
    BY <1>1, <2>1 DEF Serial, TypeOK
  <2>3. AddsUp(t)
    BY <2>1
  <2>4. AddsUp(t)'
    BY <2>1, <2>2, <2>3 DEF AddsUp
  <2>5. ChargesAddUp'
    BY <1>1, <2>2 DEF ChargesAddUp
  <2>6. QED
    BY <2>2, <2>4, <2>5
<1>5. ASSUME NEW t \in Threads, Flush(t)
      PROVE  ChargesAddUp' /\ \A u \in Threads : pc'[u] # "idle" => AddsUp(u)'
  <2>1. /\ pc[t] = "flush" /\ faults = 0 /\ billed' = billed
        /\ quota' = quota /\ snap' = snap /\ goal' = goal /\ cost' = cost
        /\ pc' = [pc EXCEPT ![t] = "insert"]
    BY <1>5 DEF Flush, GoTo
  <2>2. pc'[t] = "insert" /\ \A u \in Threads : u # t => pc'[u] = "idle"
    BY <1>1, <2>1 DEF Serial, TypeOK
  <2>3. AddsUp(t)'
    BY <2>1, <2>2 DEF AddsUp
  <2>4. ChargesAddUp'
    BY <1>1, <2>2 DEF ChargesAddUp
  <2>5. QED
    BY <2>2, <2>3, <2>4
<1>6. ASSUME NEW t \in Threads, Commit(t)
      PROVE  ChargesAddUp' /\ \A u \in Threads : pc'[u] # "idle" => AddsUp(u)'
  <2>1. /\ pc[t] = "commit" /\ faults = 0 /\ quota' = Committed(t) /\ billed' = billed + Put(t)
        /\ pc' = [pc EXCEPT ![t] = "idle"]
    BY <1>6 DEF Commit, GoTo
  <2>2. \A u \in Threads : pc'[u] = "idle"
    BY <1>1, <2>1 DEF Serial, TypeOK
  <2>3. AddsUp(t) /\ Put(t) = 0
    BY <2>1 DEF Put
  <2>4. quota'.used = goal[t].used
    BY <2>1, <2>3 DEF Committed, AddsUp
  <2>5. billed' = billed /\ goal[t].used = billed
    BY <2>1, <2>3 DEF AddsUp, TypeOK
  <2>6. QED
    BY <2>2, <2>4, <2>5 DEF ChargesAddUp
<1>7. ASSUME NEW t \in Threads, Abort(t)
      PROVE  FALSE
  BY <1>7 DEF Abort, TypeOK
<1>8. QED
  BY <1>1, <1>2, <1>3, <1>4, <1>5, <1>6, <1>7 DEF Next

\* Requests of a user that do not overlap lose no charge: the property that
\* overlapping ones break holds of them, whatever they cost.
THEOREM SerialChargesAddUp == Admins = {} => (Spec /\ []Serial => []ChargesAddUp)
<1>. SUFFICES ASSUME Admins = {} PROVE Spec /\ []Serial => []ChargesAddUp
  OBVIOUS
<1>1. Init => SerialInv
  BY QuotaLedgerAssumption DEF Init, SerialInv, TypeOK, ChargesAddUp, Actors, Quota
<1>2. SerialInv /\ Serial /\ Serial' /\ TypeOK' /\ [Next]_vars => SerialInv'
  BY SerialStep
<1>3. SerialInv => ChargesAddUp
  BY DEF SerialInv, ChargesAddUp
<1>4. QED
  BY <1>1, <1>2, <1>3, TypeCorrect, PTL DEF Spec
=============================================================================
