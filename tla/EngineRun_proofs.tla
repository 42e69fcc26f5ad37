-------------------------- MODULE EngineRun_proofs --------------------------
(***************************************************************************)
(* Proofs about EngineRun, for any requests, recursion limit and attempts. *)
(*                                                                         *)
(* InTurn says whose turn it is in the debates and how often everybody has *)
(* spoken before it; with it every superstep can be accounted for, and     *)
(* whoever judges a debate has heard it out.  What the runner does besides *)
(* (chunks, checkpoints, failures) leaves the graph alone or starts it     *)
(* anew.  The books of a completed run are a second, separate invariant.   *)
(***************************************************************************)
EXTENDS EngineRun, TLAPS

\* What the steps of the graph leave to the runner.
RunnerKeeps ==
    /\ phase = "stream" /\ phase' = "chunk"
    /\ UNCHANGED <<attempt, saved, resumed, refused, log, written>>

-----------------------------------------------------------------------------
(* What the steps share                                                     *)

LEMMA LengthType ==
    ASSUME EngineInv
    PROVE  /\ Len(request.analysts) \in Nat
           /\ request.analysts # <<>> => Len(request.analysts) >= 1
<1>1. request \in Requests
  BY DEF EngineInv, TypeOK
<1>2. request.analysts \in Seq(Analysts)
  BY <1>1, AgentGraphAssumption
<1>3. QED
  BY <1>2

LEMMA RoundsType ==
    ASSUME EngineInv
    PROVE  request.debate \in Nat /\ request.risk \in Nat
<1>1. request \in Requests
  BY DEF EngineInv, TypeOK
<1>2. QED
  BY <1>1, AgentGraphAssumption

LEMMA StateType ==
    ASSUME EngineInv
    PROVE  /\ turn \in Nat /\ steps \in Nat /\ rounds \in Nat /\ made \in Nat
           /\ debate.bull \in Nat /\ debate.bear \in Nat /\ debate.count \in Nat
           /\ debate.judge \in Texts
           /\ risk.aggressive \in Nat /\ risk.conservative \in Nat /\ risk.neutral \in Nat
           /\ risk.count \in Nat
BY DEF EngineInv, TypeOK, InvestDebateState, RiskDebateState

\* While the graph runs the whole invariant holds of it.
LEMMA Running ==
    ASSUME EngineInv, Started
    PROVE  /\ TypeOK /\ InTurn /\ request.analysts # <<>>
           /\ steps = 2 * rounds + AnalystSteps + debate.count + risk.count + LaterSteps
BY DEF EngineInv, StepsAccounted

\* What a superstep has to show for the invariant.
LEMMA Stepped ==
    ASSUME EngineInv, RunnerKeeps, Started, UNCHANGED request,
           TypeOK', InTurn', FullDebates',
           steps' = 2 * rounds' + AnalystSteps' + debate'.count + risk'.count + LaterSteps'
    PROVE  EngineInv'
<1>1. request'.analysts # <<>>
  BY Running
<1>2. StepsAccounted'
  BY DEF StepsAccounted
<1>3. phase' \notin {"resolve", "begin"}
  BY DEF RunnerKeeps
<1>4. QED
  BY <1>1, <1>2, <1>3 DEF EngineInv

-----------------------------------------------------------------------------
(* The nodes of the graph                                                   *)

LEMMA ReportsStep ==
    ASSUME EngineInv, RunnerKeeps, NEW a \in Analysts, NEW text \in Texts,
           NEW calls \in BOOLEAN, Reports(a, text, calls)
    PROVE  EngineInv'
<1>1. /\ node = "Analyst" /\ node' \in {"tools", "MsgClear"}
      /\ steps' = steps + 1 /\ made' = made + 1
      /\ UNCHANGED <<request, turn, rounds, debate, trader, risk, final>>
      /\ phase = "stream" /\ phase' = "chunk"
      /\ UNCHANGED <<attempt, saved, resumed, refused, log, written>>
  BY DEF Reports, ShouldContinueAnalyst, Superstep, RunnerKeeps
<1>2. Started /\ Started'
  BY <1>1 DEF Started
<1>t. TypeOK /\ InTurn
  BY <1>2, Running
<1>d. reports' = [reports EXCEPT ![a] = IF calls THEN "" ELSE text]
  BY DEF Reports, ShouldContinueAnalyst, Superstep, RunnerKeeps
<1>3. TypeOK'
  <2>1. node' \in Nodes /\ phase' \in Phases
    BY <1>1 DEF Nodes, DebateNodes, RiskNodes, Phases
  <2>2. steps' \in Nat /\ made' \in Nat
    BY <1>1, StateType
  <2>3. reports' \in [Analysts -> Texts]
    BY <1>d, <1>t DEF TypeOK, Texts
  <2>9. QED
    BY <1>1, <1>t, <2>1, <2>2, <2>3 DEF TypeOK
<1>5. InTurn'
  BY <1>1, <1>t DEF InTurn, DebateNodes, RiskNodes
<1>6. steps' = 2 * rounds' + AnalystSteps' + debate'.count + risk'.count + LaterSteps'
  <2>1. steps = 2 * rounds + AnalystSteps + debate.count + risk.count + LaterSteps
    BY <1>2, Running
  <2>2. AnalystSteps = 2 * (turn - 1) /\ LaterSteps = 0
    BY <1>1 DEF AnalystSteps, LaterSteps, RiskNodes
  <2>3. AnalystSteps' = 2 * (turn - 1) + 1 /\ LaterSteps' = 0
    BY <1>1 DEF AnalystSteps, LaterSteps, RiskNodes
  <2>9. QED
    BY <1>1, <2>1, <2>2, <2>3, StateType
<1>7. FullDebates'
  BY <1>1 DEF FullDebates, RiskNodes
<1>8. QED
  BY <1>1, <1>2, <1>3, <1>5, <1>6, <1>7, Stepped

LEMMA ToolsStep ==
    ASSUME EngineInv, RunnerKeeps, Tools
    PROVE  EngineInv'
<1>1. /\ node = "tools" /\ node' = "Analyst"
      /\ steps' = steps + 1 /\ rounds' = rounds + 1 /\ made' = made + 1
      /\ UNCHANGED <<request, turn, reports, debate, trader, risk, final>>
      /\ phase = "stream" /\ phase' = "chunk"
      /\ UNCHANGED <<attempt, saved, resumed, refused, log, written>>
  BY DEF Tools, Superstep, RunnerKeeps
<1>2. Started /\ Started'
  BY <1>1 DEF Started
<1>t. TypeOK /\ InTurn
  BY <1>2, Running
<1>3. TypeOK'
  <2>1. node' \in Nodes /\ phase' \in Phases
    BY <1>1 DEF Nodes, DebateNodes, RiskNodes, Phases
  <2>2. steps' \in Nat /\ rounds' \in Nat /\ made' \in Nat
    BY <1>1, StateType
  <2>9. QED
    BY <1>1, <1>t, <2>1, <2>2 DEF TypeOK
<1>5. InTurn'
  BY <1>1, <1>t DEF InTurn, DebateNodes, RiskNodes
<1>6. steps' = 2 * rounds' + AnalystSteps' + debate'.count + risk'.count + LaterSteps'
  <2>1. steps = 2 * rounds + AnalystSteps + debate.count + risk.count + LaterSteps
    BY <1>2, Running
  <2>2. AnalystSteps = 2 * (turn - 1) + 1 /\ LaterSteps = 0
    BY <1>1 DEF AnalystSteps, LaterSteps, RiskNodes
  <2>3. AnalystSteps' = 2 * (turn - 1) /\ LaterSteps' = 0
    BY <1>1 DEF AnalystSteps, LaterSteps, RiskNodes
  <2>9. QED
    BY <1>1, <2>1, <2>2, <2>3, StateType
<1>7. FullDebates'
  BY <1>1 DEF FullDebates, RiskNodes
<1>8. QED
  BY <1>1, <1>2, <1>3, <1>5, <1>6, <1>7, Stepped

LEMMA MsgClearStep ==
    ASSUME EngineInv, RunnerKeeps, MsgClear
    PROVE  EngineInv'
<1>1. /\ node = "MsgClear" 
      /\ steps' = steps + 1 /\ made' = made + 1
      /\ UNCHANGED <<request, rounds, reports, debate, trader, risk, final>>
      /\ phase = "stream" /\ phase' = "chunk"
      /\ UNCHANGED <<attempt, saved, resumed, refused, log, written>>
  BY DEF MsgClear, Superstep, RunnerKeeps
<1>c. turn < Len(request.analysts) => turn' = turn + 1 /\ node' = "Analyst"
  BY DEF MsgClear, Superstep, AfterClear
<1>e. ~ (turn < Len(request.analysts)) => turn' = turn /\ node' = "BullResearcher"
  BY DEF MsgClear, Superstep, AfterClear
<1>2. Started /\ Started'
  BY <1>1 DEF Started
<1>t. TypeOK /\ InTurn
  BY <1>2, Running
<1>4. /\ turn \in 1..Len(request.analysts)
      /\ debate = NoDebate /\ risk = NoRisk
  BY <1>1, <1>t DEF InTurn, RiskNodes
<1>3. TypeOK'
  <2>1. node' \in Nodes /\ phase' \in Phases
    BY <1>1, <1>c, <1>e DEF Nodes, DebateNodes, Phases
  <2>2. steps' \in Nat /\ made' \in Nat
    BY <1>1, StateType
  <2>3. turn' \in Nat
    BY <1>c, <1>e, StateType
  <2>9. QED
    BY <1>1, <1>t, <2>1, <2>2, <2>3 DEF TypeOK
<1>5. InTurn'
  <2>1. CASE turn < Len(request.analysts)
    <3>1. node' = "Analyst" /\ turn' \in 1..Len(request.analysts)
      BY <1>c, <1>4, <2>1, StateType, LengthType, SMTT(20)
    <3>2. QED
      BY <1>1, <1>4, <3>1 DEF InTurn, DebateNodes, RiskNodes
  <2>2. CASE ~ (turn < Len(request.analysts))
    <3>1. node' = "BullResearcher"
      BY <1>e, <2>2
    <3>2. debate'.count = 0 /\ debate'.bull = 0 /\ debate'.bear = 0
      BY <1>1, <1>4 DEF NoDebate
    <3>3. QED
      BY <1>1, <1>4, <3>1, <3>2 DEF InTurn, DebateNodes, RiskNodes
  <2>3. QED
    BY <2>1, <2>2
<1>6. steps' = 2 * rounds' + AnalystSteps' + debate'.count + risk'.count + LaterSteps'
  <2>1. steps = 2 * rounds + AnalystSteps + debate.count + risk.count + LaterSteps
    BY <1>2, Running
  <2>2. AnalystSteps = 2 * (turn - 1) + 1 /\ LaterSteps = 0
    BY <1>1 DEF AnalystSteps, LaterSteps, RiskNodes
  <2>3. AnalystSteps' = 2 * turn /\ LaterSteps' = 0
    <3>1. CASE turn < Len(request.analysts)
      <4>1. node' = "Analyst" /\ turn' = turn + 1
        BY <1>c, <3>1
      <4>2. QED
        BY <4>1, StateType DEF AnalystSteps, LaterSteps, RiskNodes
    <3>2. CASE ~ (turn < Len(request.analysts))
      <4>1. node' = "BullResearcher" /\ turn = Len(request.analysts)
        BY <1>e, <1>4, <3>2, StateType, LengthType
      <4>2. QED
        BY <1>1, <4>1 DEF AnalystSteps, LaterSteps, RiskNodes
    <3>3. QED
      BY <3>1, <3>2
  <2>9. QED
    BY <1>1, <2>1, <2>2, <2>3, StateType
<1>7. FullDebates'
  BY <1>c, <1>e DEF FullDebates, RiskNodes
<1>8. QED
  BY <1>1, <1>2, <1>3, <1>5, <1>6, <1>7, Stepped

LEMMA BullStep ==
    ASSUME EngineInv, RunnerKeeps, BullResearcher
    PROVE  EngineInv'
<1>1. /\ node = "BullResearcher" /\ node' \in {"ResearchManager", "BearResearcher"}
      /\ steps' = steps + 1
      /\ UNCHANGED <<request, turn, rounds, made, reports, trader, risk, final>>
      /\ phase = "stream" /\ phase' = "chunk"
      /\ UNCHANGED <<attempt, saved, resumed, refused, log, written>>
  BY DEF BullResearcher, Argues, ShouldContinueDebate, Superstep, RunnerKeeps
<1>2. Started /\ Started'
  BY <1>1 DEF Started
<1>t. TypeOK /\ InTurn
  BY <1>2, Running
<1>d. debate' = [bull |-> debate.bull + 1, bear |-> debate.bear, current |-> "Bull",
                 judge |-> "", count |-> debate.count + 1]
  BY DEF BullResearcher, Argues, ShouldContinueDebate, Superstep, RunnerKeeps
<1>e. /\ debate'.bull = debate.bull + 1 /\ debate'.bear = debate.bear
      /\ debate'.count = debate.count + 1
  BY <1>d
<1>n. node' = "ResearchManager" <=> debate'.count >= 2 * request.debate
  BY DEF BullResearcher, Argues, ShouldContinueDebate, Superstep, RunnerKeeps
<1>3. TypeOK'
  <2>1. node' \in Nodes /\ phase' \in Phases
    BY <1>1 DEF Nodes, DebateNodes, RiskNodes, Phases
  <2>2. steps' \in Nat
    BY <1>1, StateType
  <2>3. debate' \in InvestDebateState
    <3>1. /\ debate.bull + 1 \in Nat /\ debate.bear + 1 \in Nat /\ debate.count + 1 \in Nat
          /\ debate.bull \in Nat /\ debate.bear \in Nat
      BY StateType
    <3>2. QED
      BY <1>d, <3>1 DEF InvestDebateState, Texts
  <2>9. QED
    BY <1>1, <1>t, <2>1, <2>2, <2>3 DEF TypeOK
<1>5. InTurn'
  <2>1. /\ debate.bull = debate.bear
        /\ debate.count < 2 * request.debate \/ debate.count = 0
        /\ debate.count = debate.bull + debate.bear
        /\ risk = NoRisk
    BY <1>1, <1>t DEF InTurn, DebateNodes, RiskNodes
  <2>2. debate'.count = debate'.bull + debate'.bear
    BY <1>e, <2>1, StateType
  <2>3. node' = "BearResearcher" => debate'.count < 2 * request.debate
    BY <1>1, <1>e, <1>n, StateType, RoundsType
  <2>4. node' = "BearResearcher" => debate'.bull = debate'.bear + 1
    BY <1>e, <2>1, StateType
  <2>9. QED
    BY <1>1, <2>1, <2>2, <2>3, <2>4 DEF InTurn, DebateNodes, RiskNodes
<1>6. steps' = 2 * rounds' + AnalystSteps' + debate'.count + risk'.count + LaterSteps'
  <2>1. steps = 2 * rounds + AnalystSteps + debate.count + risk.count + LaterSteps
    BY <1>2, Running
  <2>2. AnalystSteps' = AnalystSteps /\ AnalystSteps \in Nat
    BY <1>1, LengthType DEF AnalystSteps
  <2>3. LaterSteps = 0 /\ LaterSteps' = 0
    BY <1>1 DEF LaterSteps, RiskNodes
  <2>9. QED
    BY <1>1, <2>1, <2>2, <2>3, <1>e, StateType
<1>7. FullDebates'
  <2>1. CASE node' = "ResearchManager"
    <3>1. /\ debate.count = debate.bull + debate.bear
          /\ debate.bull = debate.bear
          /\ debate.count < 2 * request.debate \/ debate.count = 0
      BY <1>1, <1>t DEF InTurn, DebateNodes
    <3>2. debate.count + 1 >= 2 * request.debate
      BY <1>e, <1>n, <2>1
    <3>3. debate'.bull = debate.bull + 1 /\ debate'.bear = debate.bear
      BY <1>e
    <3>4. debate'.bull = Turns(request.debate) /\ debate'.bear = request.debate
      BY <3>1, <3>2, <3>3, StateType, RoundsType DEF Turns
    <3>5. QED
      BY <1>1, <2>1, <3>4 DEF FullDebates
  <2>2. CASE node' # "ResearchManager"
    BY <1>1, <2>2 DEF FullDebates, RiskNodes
  <2>3. QED
    BY <2>1, <2>2
<1>8. QED
  BY <1>1, <1>2, <1>3, <1>5, <1>6, <1>7, Stepped

LEMMA BearStep ==
    ASSUME EngineInv, RunnerKeeps, BearResearcher
    PROVE  EngineInv'
<1>1. /\ node = "BearResearcher" /\ node' \in {"ResearchManager", "BullResearcher"}
      /\ steps' = steps + 1
      /\ UNCHANGED <<request, turn, rounds, made, reports, trader, risk, final>>
      /\ phase = "stream" /\ phase' = "chunk"
      /\ UNCHANGED <<attempt, saved, resumed, refused, log, written>>
  BY DEF BearResearcher, Argues, ShouldContinueDebate, Superstep, RunnerKeeps
<1>2. Started /\ Started'
  BY <1>1 DEF Started
<1>t. TypeOK /\ InTurn
  BY <1>2, Running
<1>d. debate' = [bull |-> debate.bull, bear |-> debate.bear + 1, current |-> "Bear",
                 judge |-> "", count |-> debate.count + 1]
  BY DEF BearResearcher, Argues, ShouldContinueDebate, Superstep, RunnerKeeps
<1>e. /\ debate'.bull = debate.bull /\ debate'.bear = debate.bear + 1
      /\ debate'.count = debate.count + 1
  BY <1>d
<1>n. node' = "ResearchManager" <=> debate'.count >= 2 * request.debate
  BY DEF BearResearcher, Argues, ShouldContinueDebate, Superstep, RunnerKeeps
<1>3. TypeOK'
  <2>1. node' \in Nodes /\ phase' \in Phases
    BY <1>1 DEF Nodes, DebateNodes, RiskNodes, Phases
  <2>2. steps' \in Nat
    BY <1>1, StateType
  <2>3. debate' \in InvestDebateState
    <3>1. /\ debate.bull + 1 \in Nat /\ debate.bear + 1 \in Nat /\ debate.count + 1 \in Nat
          /\ debate.bull \in Nat /\ debate.bear \in Nat
      BY StateType
    <3>2. QED
      BY <1>d, <3>1 DEF InvestDebateState, Texts
  <2>9. QED
    BY <1>1, <1>t, <2>1, <2>2, <2>3 DEF TypeOK
<1>5. InTurn'
  <2>1. /\ debate.bull = debate.bear + 1
        /\ debate.count < 2 * request.debate
        /\ debate.count = debate.bull + debate.bear
        /\ risk = NoRisk
    BY <1>1, <1>t DEF InTurn, DebateNodes, RiskNodes
  <2>2. debate'.count = debate'.bull + debate'.bear
    BY <1>e, <2>1, StateType
  <2>3. node' = "BullResearcher" => debate'.count < 2 * request.debate
    BY <1>1, <1>e, <1>n, StateType, RoundsType
  <2>4. node' = "BullResearcher" => debate'.bull = debate'.bear
    BY <1>e, <2>1, StateType
  <2>9. QED
    BY <1>1, <2>1, <2>2, <2>3, <2>4 DEF InTurn, DebateNodes, RiskNodes
<1>6. steps' = 2 * rounds' + AnalystSteps' + debate'.count + risk'.count + LaterSteps'
  <2>1. steps = 2 * rounds + AnalystSteps + debate.count + risk.count + LaterSteps
    BY <1>2, Running
  <2>2. AnalystSteps' = AnalystSteps /\ AnalystSteps \in Nat
    BY <1>1, LengthType DEF AnalystSteps
  <2>3. LaterSteps = 0 /\ LaterSteps' = 0
    BY <1>1 DEF LaterSteps, RiskNodes
  <2>9. QED
    BY <1>1, <2>1, <2>2, <2>3, <1>e, StateType
<1>7. FullDebates'
  <2>1. CASE node' = "ResearchManager"
    <3>1. /\ debate.count = debate.bull + debate.bear
          /\ debate.bull = debate.bear + 1
          /\ debate.count < 2 * request.debate
      BY <1>1, <1>t DEF InTurn, DebateNodes
    <3>2. debate.count + 1 >= 2 * request.debate
      BY <1>e, <1>n, <2>1
    <3>3. debate'.bull = debate.bull /\ debate'.bear = debate.bear + 1
      BY <1>e
    <3>4. debate'.bull = Turns(request.debate) /\ debate'.bear = request.debate
      BY <3>1, <3>2, <3>3, StateType, RoundsType DEF Turns
    <3>5. QED
      BY <1>1, <2>1, <3>4 DEF FullDebates
  <2>2. CASE node' # "ResearchManager"
    BY <1>1, <2>2 DEF FullDebates, RiskNodes
  <2>3. QED
    BY <2>1, <2>2
<1>8. QED
  BY <1>1, <1>2, <1>3, <1>5, <1>6, <1>7, Stepped

LEMMA ManagerStep ==
    ASSUME EngineInv, RunnerKeeps, ResearchManager
    PROVE  EngineInv'
<1>1. /\ node = "ResearchManager" /\ node' = "Trader" /\ steps' = steps + 1
      /\ UNCHANGED <<request, turn, rounds, made, reports, trader, risk, final>>
      /\ phase = "stream" /\ phase' = "chunk"
      /\ UNCHANGED <<attempt, saved, resumed, refused, log, written>>
  BY DEF ResearchManager, StructuredOrFreeText, Texts, Superstep, RunnerKeeps
<1>2. Started /\ Started'
  BY <1>1 DEF Started
<1>t. TypeOK /\ InTurn
  BY <1>2, Running
<1>d. \E text \in Texts :
          debate' = [bull |-> debate.bull, bear |-> debate.bear, current |-> text,
                     judge |-> text, count |-> debate.count]
  BY DEF ResearchManager, StructuredOrFreeText, Texts, Superstep, RunnerKeeps
<1>e. /\ debate'.bull = debate.bull /\ debate'.bear = debate.bear
      /\ debate'.count = debate.count
  BY <1>d
<1>3. TypeOK'
  <2>1. node' \in Nodes /\ phase' \in Phases
    BY <1>1 DEF Nodes, DebateNodes, RiskNodes, Phases
  <2>2. steps' \in Nat
    BY <1>1, StateType
  <2>3. debate' \in InvestDebateState
    <3>1. PICK text \in Texts :
            debate' = [bull |-> debate.bull, bear |-> debate.bear, current |-> text,
                       judge |-> text, count |-> debate.count]
      BY <1>d
    <3>2. QED
      BY <3>1, StateType DEF InvestDebateState, Texts
  <2>9. QED
    BY <1>1, <1>t, <2>1, <2>2, <2>3 DEF TypeOK
<1>5. InTurn'
  BY <1>1, <1>t DEF InTurn, DebateNodes, RiskNodes
<1>6. steps' = 2 * rounds' + AnalystSteps' + debate'.count + risk'.count + LaterSteps'
  <2>1. steps = 2 * rounds + AnalystSteps + debate.count + risk.count + LaterSteps
    BY <1>2, Running
  <2>2. AnalystSteps' = AnalystSteps /\ AnalystSteps \in Nat
    BY <1>1, LengthType DEF AnalystSteps
  <2>3. LaterSteps = 0 /\ LaterSteps' = 1
    BY <1>1 DEF LaterSteps, RiskNodes
  <2>9. QED
    BY <1>1, <2>1, <2>2, <2>3, <1>e, StateType
<1>7. FullDebates'
  <2>1. debate'.bull = debate.bull /\ debate'.bear = debate.bear
    BY <1>e
  <2>2. debate.bull = Turns(request.debate) /\ debate.bear = request.debate
    BY <1>1, <1>2 DEF EngineInv, FullDebates, RiskNodes
  <2>9. QED
    BY <1>1, <2>1, <2>2 DEF FullDebates, RiskNodes
<1>8. QED
  BY <1>1, <1>2, <1>3, <1>5, <1>6, <1>7, Stepped

LEMMA TraderStep ==
    ASSUME EngineInv, RunnerKeeps, Trader
    PROVE  EngineInv'
<1>1. /\ node = "Trader" /\ node' = "AggressiveAnalyst"
      /\ steps' = steps + 1 /\ made' = made + 1
      /\ UNCHANGED <<request, turn, rounds, reports, debate, risk, final>>
      /\ phase = "stream" /\ phase' = "chunk"
      /\ UNCHANGED <<attempt, saved, resumed, refused, log, written>>
  BY DEF Trader, StructuredOrFreeText, Texts, Superstep, RunnerKeeps
<1>2. Started /\ Started'
  BY <1>1 DEF Started
<1>t. TypeOK /\ InTurn
  BY <1>2, Running
<1>d. trader' \in Texts
  BY DEF Trader, StructuredOrFreeText, Texts, Superstep, RunnerKeeps
<1>3. TypeOK'
  <2>1. node' \in Nodes /\ phase' \in Phases
    BY <1>1 DEF Nodes, DebateNodes, RiskNodes, Phases
  <2>2. steps' \in Nat /\ made' \in Nat
    BY <1>1, StateType
  <2>9. QED
    BY <1>1, <1>t, <2>1, <1>d, <2>2 DEF TypeOK
<1>5. InTurn'
  <2>1. risk = NoRisk
    BY <1>1, <1>t DEF InTurn, RiskNodes
  <2>2. /\ risk'.aggressive = 0 /\ risk'.conservative = 0 /\ risk'.neutral = 0
        /\ risk'.count = 0
    BY <1>1, <2>1 DEF NoRisk
  <2>9. QED
    BY <1>1, <2>2 DEF InTurn, DebateNodes, RiskNodes
<1>6. steps' = 2 * rounds' + AnalystSteps' + debate'.count + risk'.count + LaterSteps'
  <2>1. steps = 2 * rounds + AnalystSteps + debate.count + risk.count + LaterSteps
    BY <1>2, Running
  <2>2. AnalystSteps' = AnalystSteps /\ AnalystSteps \in Nat
    BY <1>1, LengthType DEF AnalystSteps
  <2>3. LaterSteps = 1 /\ LaterSteps' = 2
    BY <1>1 DEF LaterSteps, RiskNodes
  <2>9. QED
    BY <1>1, <2>1, <2>2, <2>3, StateType
<1>7. FullDebates'
  <2>1. debate'.bull = debate.bull /\ debate'.bear = debate.bear
    BY <1>1
  <2>2. debate.bull = Turns(request.debate) /\ debate.bear = request.debate
    BY <1>1, <1>2 DEF EngineInv, FullDebates, RiskNodes
  <2>9. QED
    BY <1>1, <2>1, <2>2 DEF FullDebates, RiskNodes
<1>8. QED
  BY <1>1, <1>2, <1>3, <1>5, <1>6, <1>7, Stepped

LEMMA AggressiveStep ==
    ASSUME EngineInv, RunnerKeeps, Aggressive
    PROVE  EngineInv'
<1>1. /\ node = "AggressiveAnalyst" /\ node' \in {"PortfolioManager", "ConservativeAnalyst"}
      /\ steps' = steps + 1
      /\ UNCHANGED <<request, turn, rounds, made, reports, debate, trader, final>>
      /\ phase = "stream" /\ phase' = "chunk"
      /\ UNCHANGED <<attempt, saved, resumed, refused, log, written>>
  BY DEF Aggressive, Weighs, Spoken, ShouldContinueRisk, Superstep, RunnerKeeps
<1>2. Started /\ Started'
  BY <1>1 DEF Started
<1>t. TypeOK /\ InTurn
  BY <1>2, Running
<1>d. risk' = [aggressive |-> risk.aggressive + 1, conservative |-> risk.conservative,
               neutral |-> risk.neutral, latest |-> "Aggressive", judge |-> "",
               count |-> risk.count + 1]
  <2>1. risk' = Spoken(1, 0, 0, "Aggressive")
    BY DEF Aggressive, Weighs
  <2>2. /\ risk.aggressive + 0 = risk.aggressive /\ risk.conservative + 0 = risk.conservative
        /\ risk.neutral + 0 = risk.neutral
    BY StateType
  <2>3. QED
    BY <2>1, <2>2 DEF Spoken
<1>e. /\ risk'.aggressive = risk.aggressive + 1 /\ risk'.conservative = risk.conservative
      /\ risk'.neutral = risk.neutral /\ risk'.count = risk.count + 1
  BY <1>d
<1>n. node' = "PortfolioManager" <=> risk'.count >= 3 * request.risk
  BY <1>d DEF Aggressive, Weighs, Spoken, ShouldContinueRisk, Superstep
<1>w. /\ risk.aggressive = risk.neutral /\ risk.conservative = risk.neutral
      /\ risk.count = risk.aggressive + risk.conservative + risk.neutral
      /\ risk.count < 3 * request.risk \/ risk.count = 0
  BY <1>1, <1>t, StateType DEF InTurn, RiskNodes
<1>3. TypeOK'
  <2>1. node' \in Nodes /\ phase' \in Phases
    BY <1>1 DEF Nodes, DebateNodes, RiskNodes, Phases
  <2>2. steps' \in Nat
    BY <1>1, StateType
  <2>3. risk' \in RiskDebateState
    <3>1. /\ risk.aggressive + 1 \in Nat /\ risk.conservative + 1 \in Nat
          /\ risk.neutral + 1 \in Nat /\ risk.count + 1 \in Nat
          /\ risk.aggressive \in Nat /\ risk.conservative \in Nat /\ risk.neutral \in Nat
      BY StateType
    <3>2. QED
      BY <1>d, <3>1 DEF RiskDebateState, Texts
  <2>9. QED
    BY <1>1, <1>t, <2>1, <2>2, <2>3 DEF TypeOK
<1>5. InTurn'
  <2>1. risk'.count = risk'.aggressive + risk'.conservative + risk'.neutral
    BY <1>w, <1>e, StateType
  <2>2. node' = "ConservativeAnalyst" => risk'.count < 3 * request.risk
    BY <1>1, <1>e, <1>n, StateType, RoundsType
  <2>3. risk'.aggressive = risk'.neutral + 1 /\ risk'.conservative = risk'.neutral
    BY <1>w, <1>e, StateType
  <2>4. risk'.neutral \in Nat
    BY <1>e, StateType
  <2>9. QED
    BY <1>1, <2>1, <2>2, <2>3, <2>4 DEF InTurn, DebateNodes, RiskNodes
<1>6. steps' = 2 * rounds' + AnalystSteps' + debate'.count + risk'.count + LaterSteps'
  <2>1. steps = 2 * rounds + AnalystSteps + debate.count + risk.count + LaterSteps
    BY <1>2, Running
  <2>2. AnalystSteps' = AnalystSteps /\ AnalystSteps \in Nat
    BY <1>1, LengthType DEF AnalystSteps
  <2>3. LaterSteps = 2 /\ LaterSteps' = 2
    BY <1>1 DEF LaterSteps, RiskNodes
  <2>9. QED
    BY <1>1, <2>1, <2>2, <2>3, <1>e, StateType
<1>7. FullDebates'
  <2>1. debate.bull = Turns(request.debate) /\ debate.bear = request.debate
    BY <1>1, <1>2 DEF EngineInv, FullDebates, RiskNodes
  <2>2. CASE node' = "PortfolioManager"
    <3>1. risk.count + 1 >= 3 * request.risk
      BY <1>e, <1>n, <2>2
    <3>2. /\ risk'.aggressive = Turns(request.risk) /\ risk'.conservative = request.risk
          /\ risk'.neutral = request.risk
      BY <1>w, <1>e, <3>1, StateType, RoundsType DEF Turns
    <3>3. QED
      BY <1>1, <2>1, <2>2, <3>2 DEF FullDebates
  <2>3. CASE node' # "PortfolioManager"
    BY <1>1, <2>1, <2>3 DEF FullDebates
  <2>4. QED
    BY <2>2, <2>3
<1>8. QED
  BY <1>1, <1>2, <1>3, <1>5, <1>6, <1>7, Stepped

LEMMA ConservativeStep ==
    ASSUME EngineInv, RunnerKeeps, Conservative
    PROVE  EngineInv'
<1>1. /\ node = "ConservativeAnalyst" /\ node' \in {"PortfolioManager", "NeutralAnalyst"}
      /\ steps' = steps + 1
      /\ UNCHANGED <<request, turn, rounds, made, reports, debate, trader, final>>
      /\ phase = "stream" /\ phase' = "chunk"
      /\ UNCHANGED <<attempt, saved, resumed, refused, log, written>>
  BY DEF Conservative, Weighs, Spoken, ShouldContinueRisk, Superstep, RunnerKeeps
<1>2. Started /\ Started'
  BY <1>1 DEF Started
<1>t. TypeOK /\ InTurn
  BY <1>2, Running
<1>d. risk' = [aggressive |-> risk.aggressive, conservative |-> risk.conservative + 1,
               neutral |-> risk.neutral, latest |-> "Conservative", judge |-> "",
               count |-> risk.count + 1]
  <2>1. risk' = Spoken(0, 1, 0, "Conservative")
    BY DEF Conservative, Weighs
  <2>2. /\ risk.aggressive + 0 = risk.aggressive /\ risk.conservative + 0 = risk.conservative
        /\ risk.neutral + 0 = risk.neutral
    BY StateType
  <2>3. QED
    BY <2>1, <2>2 DEF Spoken
<1>e. /\ risk'.aggressive = risk.aggressive /\ risk'.conservative = risk.conservative + 1
      /\ risk'.neutral = risk.neutral /\ risk'.count = risk.count + 1
  BY <1>d
<1>n. node' = "PortfolioManager" <=> risk'.count >= 3 * request.risk
  BY <1>d DEF Conservative, Weighs, Spoken, ShouldContinueRisk, Superstep
<1>w. /\ risk.aggressive = risk.neutral + 1 /\ risk.conservative = risk.neutral
      /\ risk.count = risk.aggressive + risk.conservative + risk.neutral
      /\ risk.count < 3 * request.risk \/ risk.count = 0
  BY <1>1, <1>t, StateType DEF InTurn, RiskNodes
<1>3. TypeOK'
  <2>1. node' \in Nodes /\ phase' \in Phases
    BY <1>1 DEF Nodes, DebateNodes, RiskNodes, Phases
  <2>2. steps' \in Nat
    BY <1>1, StateType
  <2>3. risk' \in RiskDebateState
    <3>1. /\ risk.aggressive + 1 \in Nat /\ risk.conservative + 1 \in Nat
          /\ risk.neutral + 1 \in Nat /\ risk.count + 1 \in Nat
          /\ risk.aggressive \in Nat /\ risk.conservative \in Nat /\ risk.neutral \in Nat
      BY StateType
    <3>2. QED
      BY <1>d, <3>1 DEF RiskDebateState, Texts
  <2>9. QED
    BY <1>1, <1>t, <2>1, <2>2, <2>3 DEF TypeOK
<1>5. InTurn'
  <2>1. risk'.count = risk'.aggressive + risk'.conservative + risk'.neutral
    BY <1>w, <1>e, StateType
  <2>2. node' = "NeutralAnalyst" => risk'.count < 3 * request.risk
    BY <1>1, <1>e, <1>n, StateType, RoundsType
  <2>3. risk'.aggressive = risk'.neutral + 1 /\ risk'.conservative = risk'.neutral + 1
    BY <1>w, <1>e, StateType
  <2>4. risk'.neutral \in Nat
    BY <1>e, StateType
  <2>9. QED
    BY <1>1, <2>1, <2>2, <2>3, <2>4 DEF InTurn, DebateNodes, RiskNodes
<1>6. steps' = 2 * rounds' + AnalystSteps' + debate'.count + risk'.count + LaterSteps'
  <2>1. steps = 2 * rounds + AnalystSteps + debate.count + risk.count + LaterSteps
    BY <1>2, Running
  <2>2. AnalystSteps' = AnalystSteps /\ AnalystSteps \in Nat
    BY <1>1, LengthType DEF AnalystSteps
  <2>3. LaterSteps = 2 /\ LaterSteps' = 2
    BY <1>1 DEF LaterSteps, RiskNodes
  <2>9. QED
    BY <1>1, <2>1, <2>2, <2>3, <1>e, StateType
<1>7. FullDebates'
  <2>1. debate.bull = Turns(request.debate) /\ debate.bear = request.debate
    BY <1>1, <1>2 DEF EngineInv, FullDebates, RiskNodes
  <2>2. CASE node' = "PortfolioManager"
    <3>1. risk.count + 1 >= 3 * request.risk
      BY <1>e, <1>n, <2>2
    <3>2. /\ risk'.aggressive = Turns(request.risk) /\ risk'.conservative = request.risk
          /\ risk'.neutral = request.risk
      BY <1>w, <1>e, <3>1, StateType, RoundsType DEF Turns
    <3>3. QED
      BY <1>1, <2>1, <2>2, <3>2 DEF FullDebates
  <2>3. CASE node' # "PortfolioManager"
    BY <1>1, <2>1, <2>3 DEF FullDebates
  <2>4. QED
    BY <2>2, <2>3
<1>8. QED
  BY <1>1, <1>2, <1>3, <1>5, <1>6, <1>7, Stepped

LEMMA NeutralStep ==
    ASSUME EngineInv, RunnerKeeps, Neutral
    PROVE  EngineInv'
<1>1. /\ node = "NeutralAnalyst" /\ node' \in {"PortfolioManager", "AggressiveAnalyst"}
      /\ steps' = steps + 1
      /\ UNCHANGED <<request, turn, rounds, made, reports, debate, trader, final>>
      /\ phase = "stream" /\ phase' = "chunk"
      /\ UNCHANGED <<attempt, saved, resumed, refused, log, written>>
  BY DEF Neutral, Weighs, Spoken, ShouldContinueRisk, Superstep, RunnerKeeps
<1>2. Started /\ Started'
  BY <1>1 DEF Started
<1>t. TypeOK /\ InTurn
  BY <1>2, Running
<1>d. risk' = [aggressive |-> risk.aggressive, conservative |-> risk.conservative,
               neutral |-> risk.neutral + 1, latest |-> "Neutral", judge |-> "",
               count |-> risk.count + 1]
  <2>1. risk' = Spoken(0, 0, 1, "Neutral")
    BY DEF Neutral, Weighs
  <2>2. /\ risk.aggressive + 0 = risk.aggressive /\ risk.conservative + 0 = risk.conservative
        /\ risk.neutral + 0 = risk.neutral
    BY StateType
  <2>3. QED
    BY <2>1, <2>2 DEF Spoken
<1>e. /\ risk'.aggressive = risk.aggressive /\ risk'.conservative = risk.conservative
      /\ risk'.neutral = risk.neutral + 1 /\ risk'.count = risk.count + 1
  BY <1>d
<1>n. node' = "PortfolioManager" <=> risk'.count >= 3 * request.risk
  BY <1>d DEF Neutral, Weighs, Spoken, ShouldContinueRisk, Superstep
<1>w. /\ risk.aggressive = risk.neutral + 1 /\ risk.conservative = risk.neutral + 1
      /\ risk.count = risk.aggressive + risk.conservative + risk.neutral
      /\ risk.count < 3 * request.risk \/ risk.count = 0
  BY <1>1, <1>t, StateType DEF InTurn, RiskNodes
<1>3. TypeOK'
  <2>1. node' \in Nodes /\ phase' \in Phases
    BY <1>1 DEF Nodes, DebateNodes, RiskNodes, Phases
  <2>2. steps' \in Nat
    BY <1>1, StateType
  <2>3. risk' \in RiskDebateState
    <3>1. /\ risk.aggressive + 1 \in Nat /\ risk.conservative + 1 \in Nat
          /\ risk.neutral + 1 \in Nat /\ risk.count + 1 \in Nat
          /\ risk.aggressive \in Nat /\ risk.conservative \in Nat /\ risk.neutral \in Nat
      BY StateType
    <3>2. QED
      BY <1>d, <3>1 DEF RiskDebateState, Texts
  <2>9. QED
    BY <1>1, <1>t, <2>1, <2>2, <2>3 DEF TypeOK
<1>5. InTurn'
  <2>1. risk'.count = risk'.aggressive + risk'.conservative + risk'.neutral
    BY <1>w, <1>e, StateType
  <2>2. node' = "AggressiveAnalyst" => risk'.count < 3 * request.risk
    BY <1>1, <1>e, <1>n, StateType, RoundsType
  <2>3. risk'.aggressive = risk'.neutral /\ risk'.conservative = risk'.neutral
    BY <1>w, <1>e, StateType
  <2>4. risk'.neutral \in Nat
    BY <1>e, StateType
  <2>9. QED
    BY <1>1, <2>1, <2>2, <2>3, <2>4 DEF InTurn, DebateNodes, RiskNodes
<1>6. steps' = 2 * rounds' + AnalystSteps' + debate'.count + risk'.count + LaterSteps'
  <2>1. steps = 2 * rounds + AnalystSteps + debate.count + risk.count + LaterSteps
    BY <1>2, Running
  <2>2. AnalystSteps' = AnalystSteps /\ AnalystSteps \in Nat
    BY <1>1, LengthType DEF AnalystSteps
  <2>3. LaterSteps = 2 /\ LaterSteps' = 2
    BY <1>1 DEF LaterSteps, RiskNodes
  <2>9. QED
    BY <1>1, <2>1, <2>2, <2>3, <1>e, StateType
<1>7. FullDebates'
  <2>1. debate.bull = Turns(request.debate) /\ debate.bear = request.debate
    BY <1>1, <1>2 DEF EngineInv, FullDebates, RiskNodes
  <2>2. CASE node' = "PortfolioManager"
    <3>1. risk.count + 1 >= 3 * request.risk
      BY <1>e, <1>n, <2>2
    <3>2. /\ risk'.aggressive = Turns(request.risk) /\ risk'.conservative = request.risk
          /\ risk'.neutral = request.risk
      BY <1>w, <1>e, <3>1, StateType, RoundsType DEF Turns
    <3>3. QED
      BY <1>1, <2>1, <2>2, <3>2 DEF FullDebates
  <2>3. CASE node' # "PortfolioManager"
    BY <1>1, <2>1, <2>3 DEF FullDebates
  <2>4. QED
    BY <2>2, <2>3
<1>8. QED
  BY <1>1, <1>2, <1>3, <1>5, <1>6, <1>7, Stepped

LEMMA PortfolioStep ==
    ASSUME EngineInv, RunnerKeeps, PortfolioManager
    PROVE  EngineInv'
<1>1. /\ node = "PortfolioManager" /\ node' = "END" /\ steps' = steps + 1
      /\ UNCHANGED <<request, turn, rounds, made, reports, debate, trader>>
      /\ phase = "stream" /\ phase' = "chunk"
      /\ UNCHANGED <<attempt, saved, resumed, refused, log, written>>
  BY DEF PortfolioManager, StructuredOrFreeText, Texts, Superstep, RunnerKeeps
<1>2. Started /\ Started'
  BY <1>1 DEF Started
<1>t. TypeOK /\ InTurn
  BY <1>2, Running
<1>c. final' \in Texts
  BY DEF PortfolioManager, StructuredOrFreeText, Texts, Superstep, RunnerKeeps
<1>d. \E text \in Texts :
          risk' = [aggressive |-> risk.aggressive, conservative |-> risk.conservative,
                   neutral |-> risk.neutral, latest |-> "Judge", judge |-> text,
                   count |-> risk.count]
  BY DEF PortfolioManager, StructuredOrFreeText, Texts, Superstep, RunnerKeeps
<1>e. /\ risk'.aggressive = risk.aggressive /\ risk'.conservative = risk.conservative
      /\ risk'.neutral = risk.neutral /\ risk'.count = risk.count
  BY <1>d
<1>3. TypeOK'
  <2>1. node' \in Nodes /\ phase' \in Phases
    BY <1>1 DEF Nodes, DebateNodes, RiskNodes, Phases
  <2>2. steps' \in Nat
    BY <1>1, StateType
  <2>3. risk' \in RiskDebateState
    <3>1. PICK text \in Texts :
            risk' = [aggressive |-> risk.aggressive, conservative |-> risk.conservative,
                     neutral |-> risk.neutral, latest |-> "Judge", judge |-> text,
                     count |-> risk.count]
      BY <1>d
    <3>2. QED
      BY <3>1, StateType DEF RiskDebateState, Texts
  <2>9. QED
    BY <1>1, <1>t, <2>1, <1>c, <2>2, <2>3 DEF TypeOK
<1>5. InTurn'
  BY <1>1, <1>t DEF InTurn, DebateNodes, RiskNodes
<1>6. steps' = 2 * rounds' + AnalystSteps' + debate'.count + risk'.count + LaterSteps'
  <2>1. steps = 2 * rounds + AnalystSteps + debate.count + risk.count + LaterSteps
    BY <1>2, Running
  <2>2. AnalystSteps' = AnalystSteps /\ AnalystSteps \in Nat
    BY <1>1, LengthType DEF AnalystSteps
  <2>3. LaterSteps = 2 /\ LaterSteps' = 3
    BY <1>1 DEF LaterSteps, RiskNodes
  <2>9. QED
    BY <1>1, <2>1, <2>2, <2>3, <1>e, StateType
<1>7. FullDebates'
  <2>1. /\ debate.bull = Turns(request.debate) /\ debate.bear = request.debate
        /\ risk.aggressive = Turns(request.risk) /\ risk.conservative = request.risk
        /\ risk.neutral = request.risk
    BY <1>1, <1>2 DEF EngineInv, FullDebates, RiskNodes
  <2>9. QED
    BY <1>1, <1>e, <2>1 DEF FullDebates
<1>8. QED
  BY <1>1, <1>2, <1>3, <1>5, <1>6, <1>7, Stepped

LEMMA AdvanceStep ==
    ASSUME EngineInv, Advance
    PROVE  EngineInv'
<1>1. RunnerKeeps /\ GraphStep
  BY DEF Advance, Goto, RunnerKeeps
<1>2. {"market", "social", "news", "fundamentals"} = Analysts /\ StructuredOrFreeText = Texts
  BY DEF Analysts, StructuredOrFreeText, Texts
<1>3. CASE MarketAnalyst
  BY <1>1, <1>2, <1>3, ReportsStep DEF MarketAnalyst
<1>4. CASE SentimentAnalyst
  BY <1>1, <1>2, <1>4, ReportsStep DEF SentimentAnalyst
<1>5. CASE NewsAnalyst
  BY <1>1, <1>2, <1>5, ReportsStep DEF NewsAnalyst
<1>6. CASE FundamentalsAnalyst
  BY <1>1, <1>2, <1>6, ReportsStep DEF FundamentalsAnalyst
<1>7. QED
  BY <1>1, <1>3, <1>4, <1>5, <1>6, ToolsStep, MsgClearStep, BullStep, BearStep, ManagerStep,
     TraderStep, AggressiveStep, ConservativeStep, NeutralStep, PortfolioStep DEF GraphStep

-----------------------------------------------------------------------------
(* The runner                                                               *)

\* A step that leaves a running graph alone.
LEMMA GraphKept ==
    ASSUME EngineInv, UNCHANGED graphVars, Started, Started', phase' \in Phases,
           attempt' \in Nat, written' \in Nat,
           saved' \in BOOLEAN, resumed' \in BOOLEAN, refused' \in BOOLEAN,
           log' \in SUBSET [by : Nat, pending : BOOLEAN]
    PROVE  EngineInv'
<1>1. TypeOK'
  BY DEF EngineInv, TypeOK, graphVars
<1>2. InTurn' /\ request'.analysts # <<>>
  BY Running DEF InTurn, graphVars
<1>3. StepsAccounted'
  BY DEF EngineInv, StepsAccounted, AnalystSteps, LaterSteps, graphVars
<1>4. FullDebates'
  BY DEF EngineInv, FullDebates, graphVars
<1>5. phase' \notin {"resolve", "begin"}
  BY DEF Started
<1>6. QED
  BY <1>1, <1>2, <1>3, <1>4, <1>5 DEF EngineInv

\* A step after which no graph runs.
LEMMA NothingRuns ==
    ASSUME TypeOK', ~ Started',
           phase' \in {"resolve", "begin"} => request'.analysts # <<>>
    PROVE  EngineInv'
BY DEF EngineInv, StepsAccounted, FullDebates

LEMMA PrepareStep ==
    ASSUME EngineInv, RefuseSelection \/ BuildGraph \/ ResolvePending
    PROVE  EngineInv'
<1>1. TypeOK
  BY DEF EngineInv
<1>2. UNCHANGED graphVars /\ UNCHANGED <<attempt, saved, resumed, refused, written>>
  BY DEF RefuseSelection, BuildGraph, ResolvePending
<1>3. log' \in SUBSET [by : Nat, pending : BOOLEAN]
  <2>1. CASE UNCHANGED log
    BY <1>1, <2>1 DEF TypeOK
  <2>2. CASE ResolvePending
    <3>1. PICK known \in SUBSET {e \in log : e.pending} :
            log' = (log \ known) \cup {[e EXCEPT !.pending = FALSE] : e \in known}
      BY <2>2 DEF ResolvePending
    <3>2. log \subseteq [by : Nat, pending : BOOLEAN]
      BY <1>1 DEF TypeOK
    <3>3. \A e \in known : [e EXCEPT !.pending = FALSE] \in [by : Nat, pending : BOOLEAN]
      BY <3>2
    <3>4. QED
      BY <3>1, <3>2, <3>3
  <2>3. QED
    BY <2>1, <2>2 DEF RefuseSelection, BuildGraph
<1>4. phase' \in {"start", "resolve", "begin", "failed"}
  BY DEF Goto, RefuseSelection, BuildGraph, ResolvePending
<1>5. phase' \in {"resolve", "begin"} => request.analysts # <<>>
  BY DEF EngineInv, Goto, RefuseSelection, BuildGraph, ResolvePending
<1>6. TypeOK'
  BY <1>1, <1>2, <1>3, <1>4 DEF TypeOK, Phases, graphVars
<1>7. QED
  BY <1>2, <1>4, <1>5, <1>6, NothingRuns DEF Started, graphVars

LEMMA BeginStep ==
    ASSUME EngineInv, Begin
    PROVE  EngineInv'
<1>1. TypeOK /\ phase = "begin" /\ phase' = "chunk"
  BY DEF EngineInv, Begin, Goto
<1>2. /\ node' = "Analyst" /\ turn' = 1 /\ steps' = 0 /\ rounds' = 0
      /\ reports' = [a \in Analysts |-> ""]
      /\ debate' = NoDebate /\ risk' = NoRisk
      /\ UNCHANGED <<request, attempt, log, written>>
  BY DEF Begin, InitialState
<1>3. /\ made' \in Nat /\ trader' \in Texts /\ final' \in Texts
      /\ saved' \in BOOLEAN /\ resumed' \in BOOLEAN /\ refused' \in BOOLEAN
  <2>1. request \in Requests /\ request.checkpoint \in BOOLEAN
    BY <1>1, AgentGraphAssumption DEF TypeOK
  <2>2. /\ saved' \in BOOLEAN /\ resumed' \in BOOLEAN /\ refused' \in BOOLEAN
        /\ InitialState(saved)
    BY <1>1, <2>1 DEF TypeOK, Begin
  <2>3. CASE saved
    <3>1. made' = made + 1 /\ UNCHANGED <<trader, final>>
      BY <2>2, <2>3 DEF InitialState
    <3>2. QED
      BY <1>1, <2>2, <3>1 DEF TypeOK
  <2>4. CASE ~ saved
    <3>1. made' = 1 /\ trader' = "" /\ final' = ""
      BY <2>2, <2>4 DEF InitialState
    <3>2. QED
      BY <2>2, <3>1 DEF Texts
  <2>5. QED
    BY <2>2, <2>3, <2>4
<1>4. debate' \in InvestDebateState /\ risk' \in RiskDebateState
  BY <1>2 DEF NoDebate, NoRisk, InvestDebateState, RiskDebateState, Texts
<1>5. TypeOK'
  BY <1>1, <1>2, <1>3, <1>4 DEF TypeOK, Nodes, Phases, Texts
<1>6. request.analysts # <<>> /\ 1 \in 1..Len(request.analysts)
  <2>1. request.analysts # <<>>
    BY <1>1 DEF EngineInv
  <2>2. QED
    BY <2>1, LengthType
<1>7. InTurn'
  BY <1>2, <1>6 DEF InTurn, DebateNodes, RiskNodes
<1>8. StepsAccounted'
  <2>1. AnalystSteps' = 2 * (1 - 1) /\ LaterSteps' = 0
    BY <1>2 DEF AnalystSteps, LaterSteps, RiskNodes
  <2>2. debate'.count = 0 /\ risk'.count = 0
    BY <1>2 DEF NoDebate, NoRisk
  <2>3. steps' = 2 * rounds' + AnalystSteps' + debate'.count + risk'.count + LaterSteps'
    <3>1. steps' = 0 /\ rounds' = 0
      BY <1>2
    <3>2. QED
      BY <3>1, <2>1, <2>2
  <2>4. QED
    BY <2>3 DEF StepsAccounted
<1>9. FullDebates'
  BY <1>2 DEF FullDebates, RiskNodes
<1>10. QED
  BY <1>1, <1>2, <1>5, <1>6, <1>7, <1>8, <1>9 DEF EngineInv

LEMMA StreamStep ==
    ASSUME EngineInv,
           Process \/ Finish \/ StoreDecision \/ SaveReports \/ ClearCheckpoint \/ Announce
    PROVE  EngineInv'
<1>1. TypeOK
  BY DEF EngineInv
<1>2. UNCHANGED graphVars /\ UNCHANGED attempt
  BY DEF Process, Finish, StoreDecision, SaveReports, ClearCheckpoint, Announce
<1>3. phase' \in Phases /\ Started /\ Started'
  BY DEF Process, Finish, StoreDecision, SaveReports, ClearCheckpoint, Announce, Goto,
         Phases, Started
<1>4. saved' \in BOOLEAN /\ resumed' \in BOOLEAN /\ refused' \in BOOLEAN
  BY <1>1 DEF TypeOK, Process, Finish, StoreDecision, SaveReports, ClearCheckpoint, Announce
<1>5. written' \in Nat
  BY <1>1 DEF TypeOK, Process, Finish, StoreDecision, SaveReports, ClearCheckpoint, Announce
<1>6. log' \in SUBSET [by : Nat, pending : BOOLEAN]
  <2>1. CASE StoreDecision
    <3>1. [by |-> attempt, pending |-> TRUE] \in [by : Nat, pending : BOOLEAN]
      BY <1>1 DEF TypeOK
    <3>2. log' \subseteq log \cup {[by |-> attempt, pending |-> TRUE]}
      BY <2>1 DEF StoreDecision
    <3>3. QED
      BY <1>1, <3>1, <3>2 DEF TypeOK
  <2>2. CASE UNCHANGED log
    BY <1>1, <2>2 DEF TypeOK
  <2>3. QED
    BY <2>1, <2>2 DEF Process, Finish, SaveReports, ClearCheckpoint, Announce
<1>7. attempt' \in Nat
  BY <1>1, <1>2 DEF TypeOK
<1>8. QED
  BY <1>2, <1>3, <1>4, <1>5, <1>6, <1>7, GraphKept

LEMMA EndStep ==
    ASSUME EngineInv, OutOfSteps \/ Fail \/ AskAgain
    PROVE  EngineInv'
<1>1. TypeOK
  BY DEF EngineInv
<1>2. phase' \in {"failed", "start"} /\ Forget /\ attempt' \in Nat
  BY <1>1 DEF OutOfSteps, Fail, AskAgain, Goto, TypeOK
<1>3. /\ node' = "END" /\ turn' = 1 /\ steps' = 0 /\ rounds' = 0
      /\ reports' = [a \in Analysts |-> ""]
      /\ debate' = NoDebate /\ risk' = NoRisk
      /\ UNCHANGED <<request, saved, resumed, refused, log, written>>
  BY <1>2 DEF Forget
<1>4. made' \in Nat /\ trader' \in Texts /\ final' \in Texts
  <2>1. CASE saved
    BY <1>1, <1>2, <2>1 DEF Forget, TypeOK
  <2>2. CASE ~ saved
    <3>1. made' = 0 /\ trader' = "" /\ final' = ""
      BY <1>2, <2>2 DEF Forget
    <3>2. QED
      BY <3>1 DEF Texts
  <2>3. QED
    BY <2>1, <2>2
<1>5. debate' \in InvestDebateState /\ risk' \in RiskDebateState
  BY <1>3 DEF NoDebate, NoRisk, InvestDebateState, RiskDebateState, Texts
<1>6. TypeOK'
  BY <1>1, <1>2, <1>3, <1>4, <1>5 DEF TypeOK, Nodes, Phases, Texts
<1>7. QED
  BY <1>2, <1>6, NothingRuns DEF Started

-----------------------------------------------------------------------------
(* The theorems                                                             *)

\* The inductive invariant.
THEOREM Invariant == Spec => []EngineInv
<1>1. Init => EngineInv
  <2> SUFFICES ASSUME Init PROVE EngineInv
    OBVIOUS
  <2>1. debate \in InvestDebateState /\ risk \in RiskDebateState
    BY DEF Init, NoDebate, NoRisk, InvestDebateState, RiskDebateState, Texts
  <2>2. TypeOK
    BY <2>1 DEF Init, TypeOK, Nodes, Phases, Texts
  <2>3. ~ Started /\ phase \notin {"resolve", "begin"}
    BY DEF Init, Started
  <2>4. QED
    BY <2>2, <2>3 DEF EngineInv, StepsAccounted, FullDebates
<1>2. EngineInv /\ [Next]_vars => EngineInv'
  <2> SUFFICES ASSUME EngineInv, [Next]_vars PROVE EngineInv'
    OBVIOUS
  <2>1. CASE UNCHANGED vars
    <3>1. UNCHANGED graphVars /\ UNCHANGED <<phase, attempt, saved, resumed, refused, log,
                                               written>>
      BY <2>1 DEF vars, runVars
    <3>2. CASE Started
      BY <3>1, <3>2, GraphKept DEF EngineInv, TypeOK, Started
    <3>3. CASE ~ Started
      <4>1. TypeOK'
        BY <3>1 DEF EngineInv, TypeOK, graphVars
      <4>2. QED
        BY <3>1, <3>3, <4>1, NothingRuns DEF EngineInv, Started, graphVars
    <3>4. QED
      BY <3>2, <3>3
  <2>2. QED
    BY <2>1, PrepareStep, BeginStep, StreamStep, AdvanceStep, EndStep DEF Next
<1>3. QED
  BY <1>1, <1>2, PTL DEF Spec

\* The state of the graph and of the runner keep their types.
THEOREM TypeCorrect == Spec => []TypeOK
<1>1. EngineInv => TypeOK
  BY DEF EngineInv
<1>2. QED
  BY <1>1, Invariant, PTL

\* However many analysts, rounds and tool calls: every superstep of a run is
\* accounted for, so only tool calls can exhaust a recursion limit that has room
\* for the analysts, the debates and the managers.
THEOREM StepsAreAccounted == Spec => []StepsAccounted
<1>1. EngineInv => StepsAccounted
  BY DEF EngineInv
<1>2. QED
  BY <1>1, Invariant, PTL

\* Whatever the number of rounds, a manager judges a debate that has been held
\* in full.
THEOREM DebatesAreFull == Spec => []FullDebates
<1>1. EngineInv => FullDebates
  BY DEF EngineInv
<1>2. QED
  BY <1>1, Invariant, PTL

\* The books of a run in its last phases; a checkpoint there is that of a run
\* with checkpoints.
Books ==
    /\ saved => request.checkpoint
    /\ phase \in {"save", "clear", "announce", "done"} /\ final # "" => \E e \in log : e.pending
    /\ phase \in {"clear", "announce", "done"} => written = attempt
    /\ phase \in {"announce", "done"} /\ saved => refused

LEMMA BooksKept ==
    ASSUME EngineInv, Books, Next
    PROVE  Books'
<1>1. request' = request
  BY DEF Next, RefuseSelection, BuildGraph, ResolvePending, Begin, InitialState, Process, Advance,
         OutOfSteps, Finish, StoreDecision, SaveReports, ClearCheckpoint, Announce, Fail, Forget,
         AskAgain, graphVars, GraphStep, MarketAnalyst, SentimentAnalyst, NewsAnalyst,
         FundamentalsAnalyst, Reports, Tools, MsgClear, BullResearcher, BearResearcher, Argues,
         ResearchManager, Trader, Aggressive, Conservative, Neutral, Weighs, PortfolioManager
<1>2. CASE RefuseSelection \/ BuildGraph \/ ResolvePending \/ Begin \/ Process \/ Advance \/ Finish
  <2>1. phase' \in {"failed", "resolve", "begin", "chunk", "stream", "store"}
    BY <1>2 DEF RefuseSelection, BuildGraph, ResolvePending, Begin, Process, Advance, Finish, Goto
  <2>2. saved' => saved \/ request.checkpoint
    BY <1>2 DEF RefuseSelection, BuildGraph, ResolvePending, Begin, Process, Advance, Finish
  <2>3. QED
    BY <1>1, <2>1, <2>2 DEF Books
<1>3. CASE OutOfSteps \/ Fail \/ AskAgain
  <2>1. phase' \in {"failed", "start"} /\ saved' = saved
    BY <1>3 DEF OutOfSteps, Fail, AskAgain, Goto, Forget
  <2>2. QED
    BY <1>1, <2>1 DEF Books
<1>4. CASE StoreDecision
  <2>1. phase' = "save" /\ UNCHANGED <<final, saved>>
    BY <1>4 DEF StoreDecision, Goto, graphVars
  <2>2. final # "" => \E e \in log' : e.pending
    <3>1. CASE \A e \in log : ~ e.pending
      <4>1. final # "" => [by |-> attempt, pending |-> TRUE] \in log'
        BY <1>4, <3>1 DEF StoreDecision
      <4>2. [by |-> attempt, pending |-> TRUE].pending
        OBVIOUS
      <4>3. QED
        BY <4>1, <4>2
    <3>2. CASE ~ \A e \in log : ~ e.pending
      BY <1>4, <3>2 DEF StoreDecision
    <3>3. QED
      BY <3>1, <3>2
  <2>3. QED
    BY <1>1, <2>1, <2>2 DEF Books
<1>5. CASE SaveReports
  BY <1>1, <1>5 DEF Books, SaveReports, Goto, graphVars
<1>6. CASE ClearCheckpoint
  BY <1>1, <1>6 DEF Books, ClearCheckpoint, Goto, graphVars
<1>7. CASE Announce
  BY <1>1, <1>7 DEF Books, Announce, Goto, graphVars
<1>8. QED
  BY <1>2, <1>3, <1>4, <1>5, <1>6, <1>7 DEF Next

\* A run announced as completed has its decision waiting in the log and its
\* reports written, and leaves no checkpoint that the thread's next run finds,
\* but when the database of the checkpoints refused to clear it.
THEOREM CompletedRunsAreComplete == Spec => []CompletedIsComplete
<1>1. Init => Books
  BY DEF Init, Books
<1>2. EngineInv /\ Books /\ [Next]_vars => Books'
  <2>1. ASSUME Books, UNCHANGED vars PROVE Books'
    BY <2>1 DEF Books, vars, runVars, graphVars
  <2>2. QED
    BY <2>1, BooksKept
<1>3. Books => CompletedIsComplete
  BY DEF Books, CompletedIsComplete
<1>4. QED
  BY <1>1, <1>2, <1>3, Invariant, PTL DEF Spec
=============================================================================
