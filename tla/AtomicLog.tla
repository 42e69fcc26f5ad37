------------------------------ MODULE AtomicLog ------------------------------
(***************************************************************************)
(* What the memory log of a user promises if every operation on it is one  *)
(* step (agents/utils/memory.py): a decision is stored unless one of its   *)
(* ticker and date still waits; decisions that wait get their outcomes,    *)
(* and the oldest resolved ones beyond the cap go.  In DecisionLog each    *)
(* takes several steps, and several workers take them; RunFiles is shown   *)
(* to implement this as long as no write rests on a stale reading.         *)
(***************************************************************************)
EXTENDS Integers, Sequences, FiniteSets

CONSTANTS
    Decisions,
    KeyOf,          \* the date and ticker of each decision
    Cap             \* how many resolved decisions are kept, 0 for all

VARIABLE entries    \* the log: decisions, and whether each waits for its outcome

Waiting == {i \in DOMAIN entries : entries[i].pending}

Init == entries = <<>>

\* store_decision
Store(d) ==
    /\ \A i \in Waiting : KeyOf[entries[i].decision] # KeyOf[d]
    /\ entries' = Append(entries, [decision |-> d, pending |-> TRUE])

\* batch_update_with_outcomes, for the entries whose outcome is known.
Settle(known) ==
    LET resolved == (DOMAIN entries \ Waiting) \cup known
        kept == {i \in DOMAIN entries :
                    i \in resolved /\ Cap # 0 => Cardinality({k \in resolved : k > i}) < Cap}
    IN  \E place \in [1..Cardinality(kept) -> kept] :
            /\ \A m, n \in DOMAIN place : m < n => place[m] < place[n]
            /\ entries' = [n \in DOMAIN place |->
                            [decision |-> entries[place[n]].decision,
                             pending |-> place[n] \notin resolved]]

Next ==
    \/ \E d \in Decisions : Store(d)
    \/ \E known \in SUBSET Waiting : Settle(known)

Spec == Init /\ [][Next]_entries
=============================================================================
