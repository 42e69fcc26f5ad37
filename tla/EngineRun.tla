------------------------------ MODULE EngineRun ------------------------------
(***************************************************************************)
(* run_analysis_job (ax_engine/runner.py): one analysis, from its request  *)
(* to the completed event, over AgentGraph and RunProgress.  The graph is  *)
(* a generator: it runs one superstep, yields the state, and runs the next *)
(* when the chunk has been processed.  Any call may raise, or the worker   *)
(* may die; what was asked for may then be asked again (a retry, or a new  *)
(* job of the user for the same ticker, date and shape), and a checkpoint  *)
(* of the thread is found again.                                           *)
(***************************************************************************)
EXTENDS AgentGraph, RunProgress

CONSTANT MaxAttempts        \* bound on the attempts

\* The analysts asked for run in their order, each once.
ASSUME EngineRunAssumption ==
    \A r \in Requests : \A i, j \in DOMAIN r.analysts : \A k, l \in DOMAIN ANALYST_ORDER :
        i < j /\ r.analysts[i] = ANALYST_ORDER[k] /\ r.analysts[j] = ANALYST_ORDER[l] => k < l

VARIABLES
    phase,      \* where the runner is
    attempt,    \* which attempt this is
    saved,      \* there is a checkpoint of the thread
    resumed,    \* history: there was one when this attempt began
    refused,    \* history: this attempt's clear_checkpoint met an error
    progress,   \* the RunProgress of this attempt
    spoke,      \* history: nodes that returned in this attempt
    log,        \* the entries of this ticker and date in the memory log
    written     \* the attempt that wrote the last report tree, or 0

runVars == <<phase, attempt, saved, resumed, refused, progress, spoke, log, written>>
vars == <<graphVars, runVars>>

Phases == {"start", "resolve", "begin", "chunk", "stream", "store", "save", "clear", "announce",
           "done", "failed"}
Ended == phase \in {"done", "failed"}

\* chunk: with stream mode "values", the whole state.
Chunk == [messages |-> messages, reports |-> reports, debate |-> debate,
          trader |-> trader, risk |-> risk, final |-> final]

Init ==
    /\ request \in Requests
    /\ node = "END" /\ turn = 1 /\ steps = 0 /\ rounds = 0 /\ made = 0
    /\ messages = <<>>
    /\ reports = [a \in Analysts |-> ""]
    /\ debate = NoDebate
    /\ trader = ""
    /\ risk = NoRisk
    /\ final = ""
    /\ phase = "start" /\ attempt = 1
    /\ saved = FALSE /\ resumed = FALSE /\ refused = FALSE
    /\ progress = NewProgress
    /\ spoke = {}
    /\ log = {} /\ written = 0

Goto(from, to) == phase = from /\ phase' = to

\* What is asked for as the run is configured: no fundamentals analyst for a
\* crypto asset, the others in their order, and for both debates the research
\* depth, unless the environment sets their rounds.
Unset == -1
Configured(asked, crypto, depth, env, checkpoint_) ==
    [analysts |-> SelectSeq(ANALYST_ORDER,
                    LAMBDA k : k \in asked /\ ~ (crypto /\ k = "fundamentals")),
     debate |-> IF env.debate = Unset THEN depth ELSE env.debate,
     risk |-> IF env.risk = Unset THEN depth ELSE env.risk,
     checkpoint |-> checkpoint_]

\* build_analyst_execution_plan refuses an empty selection.
RefuseSelection ==
    /\ Goto("start", "failed")
    /\ request.analysts = <<>>
    /\ UNCHANGED <<graphVars, attempt, saved, resumed, refused, progress, spoke, log, written>>

BuildGraph ==
    /\ Goto("start", "resolve")
    /\ request.analysts # <<>>
    /\ UNCHANGED <<graphVars, attempt, saved, resumed, refused, progress, spoke, log, written>>

\* A pending decision whose returns can be known by now gets its outcome, even
\* the one that an earlier attempt of this run has left.
ResolvePending ==
    /\ Goto("resolve", "begin")
    /\ \E known \in SUBSET {e \in log : e.pending} :
        log' = (log \ known) \cup {[e EXCEPT !.pending = FALSE] : e \in known}
    /\ UNCHANGED <<graphVars, attempt, saved, resumed, refused, progress, spoke, written>>

\* The input restarts the thread, even if a checkpoint was found.
Begin ==
    /\ Goto("begin", "chunk")
    /\ InitialState(saved)
    /\ saved' = (saved \/ request.checkpoint)
    /\ resumed' = saved
    /\ refused' = FALSE
    /\ progress' = [NewProgress EXCEPT !.status[request.analysts[1]] = "in_progress"]
    /\ spoke' = {}
    /\ UNCHANGED <<attempt, log, written>>

Process ==
    /\ Goto("chunk", "stream")
    /\ progress' = ProcessStreamChunk(progress, Chunk, request.analysts)
    /\ UNCHANGED <<graphVars, attempt, saved, resumed, refused, spoke, log, written>>

Advance ==
    /\ Goto("stream", "chunk")
    /\ GraphStep
    /\ spoke' = spoke \cup {IF node = "Analyst" THEN Who ELSE node}
    /\ UNCHANGED <<attempt, saved, resumed, refused, progress, log, written>>

\* The process is done with the job: what it held in memory is gone.  Of the
\* graph's state a checkpoint keeps what the next run's input does not reset.
Forget ==
    /\ IF saved THEN UNCHANGED <<messages, made, trader, final>>
       ELSE messages' = <<>> /\ made' = 0 /\ trader' = "" /\ final' = ""
    /\ node' = "END" /\ turn' = 1 /\ steps' = 0 /\ rounds' = 0
    /\ reports' = [a \in Analysts |-> ""]
    /\ debate' = NoDebate /\ risk' = NoRisk
    /\ progress' = NewProgress
    /\ spoke' = {}
    /\ UNCHANGED <<request, saved, resumed, refused, log, written>>

\* GraphRecursionError.  The engine looks at the limit before it looks whether
\* the graph has ended; a run of exactly that length may go either way.
OutOfSteps ==
    /\ Goto("stream", "failed")
    /\ steps >= RecursionLimit
    /\ Forget
    /\ UNCHANGED attempt

\* The stream has ended: every agent counts as completed.
Finish ==
    /\ Goto("stream", "store")
    /\ node = "END"
    /\ progress' = [progress EXCEPT !.status = Set(@, Agents, "completed")]
    /\ UNCHANGED <<graphVars, attempt, saved, resumed, refused, spoke, log, written>>

\* store_decision skips what is pending already: then the decision of an
\* earlier attempt stays.
StoreDecision ==
    /\ Goto("store", "save")
    /\ log' = IF final # "" /\ \A e \in log : ~ e.pending
              THEN log \cup {[by |-> attempt, pending |-> TRUE]} ELSE log
    /\ UNCHANGED <<graphVars, attempt, saved, resumed, refused, progress, spoke, written>>

SaveReports ==
    /\ Goto("save", "clear")
    /\ written' = attempt
    /\ UNCHANGED <<graphVars, attempt, saved, resumed, refused, progress, spoke, log>>

\* Mutant: the checkpoint is cleared under another thread's id.
ClearCheckpoint_OtherThread ==
    /\ Goto("clear", "announce")
    /\ UNCHANGED <<graphVars, attempt, saved, resumed, refused, progress, spoke, log, written>>

\* The database may refuse, locked by another run of the ticker: the error is
\* passed over, and the rows of the thread stay.
ClearCheckpoint ==
    /\ Goto("clear", "announce")
    /\ refused' \in IF request.checkpoint THEN BOOLEAN ELSE {FALSE}
    /\ saved' = (saved /\ (refused' \/ ~ request.checkpoint))
    /\ UNCHANGED <<graphVars, attempt, resumed, progress, spoke, log, written>>

Announce ==
    /\ Goto("announce", "done")
    /\ UNCHANGED <<graphVars, attempt, saved, resumed, refused, progress, spoke, log, written>>

\* Anything raises: a model, a tool, a published event, a file, the database.
Fail ==
    /\ ~ Ended
    /\ phase' = "failed"
    /\ Forget
    /\ UNCHANGED attempt

\* A retry, or a new job for the same thread.
AskAgain ==
    /\ Ended
    /\ phase' = "start"
    /\ attempt < MaxAttempts
    /\ attempt' = attempt + 1
    /\ Forget

Next ==
    \/ RefuseSelection \/ BuildGraph \/ ResolvePending \/ Begin \/ Process \/ Advance \/ OutOfSteps
    \/ Finish \/ StoreDecision \/ SaveReports \/ ClearCheckpoint \/ Announce
    \/ Fail \/ AskAgain

Spec == Init /\ [][Next]_vars

-----------------------------------------------------------------------------
(* Properties                                                               *)

TypeOK ==
    /\ request \in Requests
    /\ node \in Nodes
    /\ turn \in Nat /\ steps \in Nat /\ rounds \in Nat /\ made \in Nat
    /\ reports \in [Analysts -> Texts]
    /\ debate \in InvestDebateState
    /\ trader \in Texts
    /\ risk \in RiskDebateState
    /\ final \in Texts
    /\ phase \in Phases
    /\ attempt \in Nat
    /\ saved \in BOOLEAN /\ resumed \in BOOLEAN /\ refused \in BOOLEAN
    /\ log \in SUBSET [by : Nat, pending : BOOLEAN]
    /\ written \in Nat

\* The graph has been started and its state is this attempt's.
Started == phase \notin {"start", "resolve", "begin", "failed"}

\* Where the graph stands, in supersteps of the analysts' part.
AnalystSteps ==
    IF node = "Analyst" THEN 2 * (turn - 1)
    ELSE IF node \in {"tools", "MsgClear"} THEN 2 * (turn - 1) + 1
    ELSE 2 * Len(request.analysts)

LaterSteps ==
    IF node = "Trader" THEN 1
    ELSE IF node \in RiskNodes THEN 2
    ELSE IF node = "END" THEN 3
    ELSE 0

\* Every superstep is a round of tool calls (two), part of an analyst's turn,
\* a turn of a debate, or one of the three managers'.  Only tool calls can make
\* a run hit the recursion limit, and the limit leaves room for so many.
StepsAccounted ==
    Started => steps = 2 * rounds + AnalystSteps + debate.count + risk.count + LaterSteps

Turns(rounds_) == IF rounds_ = 0 THEN 1 ELSE rounds_

\* Whoever judges a debate has heard every side as often as was asked for
\* (with zero rounds, the first speaker alone).
FullDebates ==
    Started =>
        /\ node \in {"ResearchManager", "Trader", "END"} \cup RiskNodes =>
            /\ debate.bull = Turns(request.debate)
            /\ debate.bear = request.debate
        /\ node \in {"PortfolioManager", "END"} =>
            /\ risk.aggressive = Turns(request.risk)
            /\ risk.conservative = request.risk
            /\ risk.neutral = request.risk

\* A run of a thread that an earlier attempt left a checkpoint of.
Stale == resumed

\* Whose turn it is in the debates, and how often everybody has spoken.
InTurn ==
    /\ node \in {"Analyst", "tools", "MsgClear"} =>
        turn \in 1..Len(request.analysts) /\ debate = NoDebate
    /\ node \notin RiskNodes \cup {"END"} => risk = NoRisk
    /\ node \in DebateNodes => debate.count = debate.bull + debate.bear
    /\ node = "BullResearcher" =>
        /\ debate.bull = debate.bear
        /\ debate.count < 2 * request.debate \/ debate.count = 0
    /\ node = "BearResearcher" =>
        /\ debate.bull = debate.bear + 1
        /\ debate.count < 2 * request.debate
    /\ node \in RiskNodes => risk.count = risk.aggressive + risk.conservative + risk.neutral
    /\ node \in {"AggressiveAnalyst", "ConservativeAnalyst", "NeutralAnalyst"} =>
        /\ risk.aggressive = risk.neutral + (IF node = "AggressiveAnalyst" THEN 0 ELSE 1)
        /\ risk.conservative = risk.neutral + (IF node = "NeutralAnalyst" THEN 1 ELSE 0)
        /\ risk.count < 3 * request.risk \/ risk.count = 0

\* Inductive.
EngineInv ==
    /\ TypeOK
    /\ Started => request.analysts # <<>> /\ InTurn
    /\ phase \in {"resolve", "begin"} => request.analysts # <<>>
    /\ StepsAccounted
    /\ FullDebates

\* What an agent shown as completed must have done in this attempt.
Done(g) ==
    /\ g \in Analysts => g \in spoke /\ reports[g] # ""
    /\ g \in Team => Team \subseteq spoke \cup {"BearResearcher"} /\ debate.judge # ""
    /\ g = "Trader" => "Trader" \in spoke
    /\ g \in RiskTeam => "PortfolioManager" \in spoke /\ risk.judge # ""

\* While a run goes on the room shows an agent as completed only if it has done
\* its part in this attempt.  The exception: the trader of a thread that was
\* found again, whose plan of the earlier attempt is still in the state.
ShownIsDone ==
    phase \in {"chunk", "stream"} =>
        \A g \in Agents : progress.status[g] = "completed" =>
            Done(g) \/ (g = "Trader" /\ Stale)

\* Within an attempt no agent goes from completed back to work, although the
\* statuses are derived anew from every chunk.  The exception: a trader whose
\* plan of an earlier attempt is replaced by an empty one.
NoStepBack ==
    [][phase = "chunk" /\ phase' = "stream" =>
        \A g \in Agents : progress.status[g] = "completed" =>
            progress'.status[g] = "completed" \/ (g = "Trader" /\ Stale)]_vars

\* A tool call is put down to the analyst who made it, unless an analyst before
\* it has handed in an empty report and is still shown at work, or the call is
\* in the messages of an earlier attempt and told again.
ToolsAttributed ==
    \A t \in progress.tools :
        \/ t.shown = t.by
        \/ t.shown \in Analysts \cap spoke /\ reports[t.shown] = ""
        \/ Stale

\* Once there is a verdict the timeline shows it, and not the words of the
\* debate that stood in its place.
VerdictShown ==
    phase = "stream" /\ risk.judge # "" =>
        progress.entries["PortfolioManager"] = "PortfolioManager"

\* A run announced as completed has a decision in the log that waits for its
\* outcome and its reports written, and the next run of the thread starts
\* afresh, unless the database of the checkpoints refused to forget this one.
CompletedIsComplete ==
    phase = "done" =>
        /\ final # "" => \E e \in log : e.pending
        /\ written = attempt
        /\ saved => refused

=============================================================================
