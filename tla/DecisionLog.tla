----------------------------- MODULE DecisionLog -----------------------------
(***************************************************************************)
(* The memory log of one user (agents/utils/memory.py): a file of          *)
(* decisions, appended when a run ends and rewritten when the next run of  *)
(* the ticker knows their outcome.  Every worker that runs a job of the    *)
(* user reads and writes the same file and the same temporary file, and    *)
(* nothing locks them.  The runs are those of RunFiles.                    *)
(***************************************************************************)
EXTENDS Integers, SequencesExt

CONSTANTS
    Workers,
    Jobs,           \* the user's analyses
    TickerOf,       \* request.ticker and analysis_date of each
    DateOf,
    MaxEntries,     \* memory_log_max_entries, 0 for None
    NSame, NCross   \* n_same (5) and n_cross (3) of get_past_context

ASSUME DecisionLogAssumption ==
    /\ MaxEntries \in Nat
    /\ NSame \in Nat /\ NCross \in Nat

VARIABLES
    at,         \* where the worker's run is
    job,        \* and which job it runs
    attempt,    \* attempts at a job so far
    log,        \* the blocks of the log
    tmp,        \* the temporary file: none, or one with these blocks
    fd,         \* which file the worker has open to write: "tmp", "log", or "gone"
    found,      \* the pending blocks the worker has seen
    updates,    \* of these, those with an outcome: the argument of the batch
    text,       \* what it is about to write
    stale,      \* history: the log has changed since the worker read it
    raced,      \* history: somebody wrote what rests on a stale reading
    misread,    \* history: somebody had reflected on what has changed since
    book,       \* history: the decisions in the order they were stored
    settled     \* history: those that have got an outcome

logVars == <<log, tmp, fd, found, updates, text, stale, raced, misread, book, settled>>

Decision(w) == [job |-> job[w], attempt |-> attempt[job[w]]]

\* A block of the log; "about" is the decision its reflection was written about.
Pending(d) == [decision |-> d, pending |-> TRUE, about |-> d]
Ticker(b) == TickerOf[b.decision.job]
Key(b) == <<DateOf[b.decision.job], Ticker(b)>>
OwnKey(w) == <<DateOf[job[w]], TickerOf[job[w]]>>

Resolved(blocks) == {i \in DOMAIN blocks : ~ blocks[i].pending}
Outcomes(blocks) == {blocks[i].decision : i \in Resolved(blocks)}

\* The place in I with n places of I up to it, and what a sequence has at the
\* places I, in their order.
Nth(I, n) == CHOOSE i \in I : Cardinality({k \in I : k <= i}) = n
Pick(s, I) == [n \in 1..Cardinality(I) |-> s[Nth(I, n)]]

Goto(w, from, to) == at[w] = from /\ at' = [at EXCEPT ![w] = to]

\* Whoever has read the log before holds a stale reading now.
Touched(w) == stale' = [v \in Workers |-> IF v = w THEN FALSE ELSE TRUE]

\* What the worker holds in memory for the update is not used again.
Forget(w) ==
    /\ found' = [found EXCEPT ![w] = <<>>]
    /\ updates' = [updates EXCEPT ![w] = <<>>]
    /\ text' = [text EXCEPT ![w] = <<>>]

-----------------------------------------------------------------------------
(* Reading                                                                  *)

\* Mutant: the oldest first.
PastContext_Oldest(blocks, ticker) ==
    LET done == SelectSeq(blocks, LAMBDA b : ~ b.pending)
        same == SelectSeq(done, LAMBDA b : Ticker(b) = ticker)
        cross == SelectSeq(done, LAMBDA b : Ticker(b) # ticker)
    IN  [same |-> SubSeq(same, 1, IF Len(same) < NSame THEN Len(same) ELSE NSame),
         cross |-> SubSeq(cross, 1, IF Len(cross) < NCross THEN Len(cross) ELSE NCross)]

\* What one block adds to the two lists: to that of its ticker, if it is not
\* full, and nothing as long as it is pending.
WithBlock(c, b, ticker) ==
    IF b.pending THEN c
    ELSE IF Ticker(b) = ticker
    THEN IF Len(c.same) < NSame THEN [c EXCEPT !.same = Append(@, b)] ELSE c
    ELSE IF Len(c.cross) < NCross THEN [c EXCEPT !.cross = Append(@, b)] ELSE c

\* get_past_context: one pass over the blocks, from the last to the first.  That
\* it stops when both lists are full makes no difference.
PastContext(blocks, ticker) ==
    LET pass[n \in 0..Len(blocks)] ==
            IF n = 0 THEN [same |-> <<>>, cross |-> <<>>]
            ELSE WithBlock(pass[n - 1], blocks[Len(blocks) - n + 1], ticker)
    IN  pass[Len(blocks)]

-----------------------------------------------------------------------------
(* Resolving what earlier runs have left                                    *)

\* get_pending_entries, of the ticker of this run.
ReadPending(w) ==
    LET mine == {i \in DOMAIN log : log[i].pending /\ Ticker(log[i]) = TickerOf[job[w]]}
    IN  /\ Goto(w, "resolve", IF mine = {} THEN "graph" ELSE "reflect")
        /\ found' = [found EXCEPT ![w] = Pick(log, mine)]
        /\ stale' = [stale EXCEPT ![w] = FALSE]
        /\ UNCHANGED <<job, attempt, log, tmp, fd, updates, text, raced, misread, book, settled>>

\* One entry after the other: its returns, if they are known by now, and a
\* reflection about its decision.  Returns depend on the key alone.
Reflect(w) ==
    \E keys \in SUBSET {Key(found[w][i]) : i \in DOMAIN found[w]} :
        /\ updates' = [updates EXCEPT ![w] =
                          Pick(found[w], {i \in DOMAIN found[w] : Key(found[w][i]) \in keys})]
        /\ found' = [found EXCEPT ![w] = <<>>]
        /\ Goto(w, "reflect", IF keys = {} THEN "graph" ELSE "update")
        /\ UNCHANGED <<job, attempt, log, tmp, fd, text, stale, raced, misread, book, settled>>

\* Mutant: a block is dropped only when more than the cap are newer.
Rotated_OneMore(blocks) ==
    {i \in DOMAIN blocks : \/ blocks[i].pending
                           \/ MaxEntries = 0
                           \/ Cardinality({k \in Resolved(blocks) : k > i}) <= MaxEntries}

\* _apply_rotation: beyond the cap the oldest resolved blocks go.
Rotated(blocks) ==
    {i \in DOMAIN blocks : \/ blocks[i].pending
                           \/ MaxEntries = 0
                           \/ Cardinality({k \in Resolved(blocks) : k > i}) < MaxEntries}
ApplyRotation(blocks) == Pick(blocks, Rotated(blocks))

\* The update of a key, the last one of the batch, is for the first pending
\* block that has the key.
Hits(blocks, ups) ==
    {i \in DOMAIN blocks :
        /\ blocks[i].pending
        /\ \E k \in DOMAIN ups : Key(ups[k]) = Key(blocks[i])
        /\ \A m \in DOMAIN blocks :
            m < i /\ blocks[m].pending => Key(blocks[m]) # Key(blocks[i])}
Update(ups, key) == ups[Max({k \in DOMAIN ups : Key(ups[k]) = key})]

\* batch_update_with_outcomes
Batch(blocks, ups) ==
    [i \in DOMAIN blocks |->
        IF i \in Hits(blocks, ups)
        THEN [decision |-> blocks[i].decision, pending |-> FALSE,
              about |-> Update(ups, Key(blocks[i])).decision]
        ELSE blocks[i]]

\* It is read once more: the update is made of what is there now.
ReadLog(w) ==
    /\ Goto(w, "update", "open")
    /\ text' = [text EXCEPT ![w] = ApplyRotation(Batch(log, updates[w]))]
    /\ misread' = (misread \/ stale[w])
    /\ stale' = [stale EXCEPT ![w] = FALSE]
    /\ UNCHANGED <<job, attempt, log, tmp, fd, found, updates, raced, book, settled>>

\* Mutant: the log is opened, not the temporary file.
OpenTmp_InPlace(w) ==
    /\ Goto(w, "open", "write")
    /\ log' = <<>>
    /\ fd' = [fd EXCEPT ![w] = "log"]
    /\ UNCHANGED <<job, attempt, tmp, found, updates, text, stale, raced, misread, book, settled>>

\* write_text opens the temporary file, which empties it, ...
OpenTmp(w) ==
    /\ Goto(w, "open", "write")
    /\ tmp' = {<<>>}
    /\ fd' = [fd EXCEPT ![w] = "tmp"]
    /\ UNCHANGED <<job, attempt, log, found, updates, text, stale, raced, misread, book, settled>>

\* ... and writes to the file it has opened, whatever its name is by now.  (Two
\* texts written to one file do not mix here: the later one stands.)
WriteTmp(w) ==
    /\ Goto(w, "write", "replace")
    /\ tmp' = IF fd[w] = "tmp" THEN {text[w]} ELSE tmp
    /\ log' = IF fd[w] = "log" THEN text[w] ELSE log
    /\ raced' = (raced \/ fd[w] = "log")
    /\ IF fd[w] = "log" THEN Touched(w) ELSE UNCHANGED stale
    /\ fd' = [fd EXCEPT ![w] = "gone"]
    /\ UNCHANGED <<job, attempt, found, updates, text, misread, book, settled>>

\* os.replace: who has the temporary file open has the log open now, and who
\* had the log open a file without a name.  Without a temporary file it raises.
Replace(w) ==
    /\ Goto(w, "replace", "graph")
    /\ \E blocks \in tmp : log' = blocks
    /\ tmp' = {}
    /\ fd' = [v \in Workers |-> IF fd[v] = "tmp" THEN "log" ELSE "gone"]
    /\ raced' = (raced \/ stale[w] \/ tmp # {text[w]})
    /\ Touched(w)
    /\ settled' = settled \cup Outcomes(Batch(log, updates[w]))
    /\ Forget(w)
    /\ UNCHANGED <<job, attempt, misread, book>>

-----------------------------------------------------------------------------
(* Storing the decision of this run                                         *)

\* Mutant: the scan is left out.
FindPending_Skip(w) ==
    /\ Goto(w, "store", "append")
    /\ stale' = [stale EXCEPT ![w] = FALSE]
    /\ UNCHANGED <<job, attempt, log, tmp, fd, found, updates, text, raced, misread, book, settled>>

\* The guard of store_decision: a pending block of this date and ticker stays.
FindPending(w) ==
    /\ Goto(w, "store", IF \E i \in DOMAIN log : log[i].pending /\ Key(log[i]) = OwnKey(w)
                        THEN "save" ELSE "append")
    /\ stale' = [stale EXCEPT ![w] = FALSE]
    /\ UNCHANGED <<job, attempt, log, tmp, fd, found, updates, text, raced, misread, book, settled>>

AppendDecision(w) ==
    /\ Goto(w, "append", "save")
    /\ log' = Append(log, Pending(Decision(w)))
    /\ book' = Append(book, Decision(w))
    /\ raced' = (raced \/ stale[w])
    /\ Touched(w)
    /\ UNCHANGED <<job, attempt, tmp, fd, found, updates, text, misread, settled>>

=============================================================================
