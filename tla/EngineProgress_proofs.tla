------------------------- MODULE EngineProgress_proofs -------------------------
(***************************************************************************)
(* Proofs of what the analysis room is shown of a run, for any requests.   *)
(*                                                                         *)
(* The runner derives what it shows from the whole state of the graph,     *)
(* chunk by chunk.  The invariant relates the two: who has spoken by the   *)
(* time the graph stands at a node (Heard), which reports can be there    *)
(* and which of them the progress has (Reported), what the status of an    *)
(* agent says (Shown), and which tool calls are still to be told (Told).   *)
(***************************************************************************)
EXTENDS EngineRun_proofs, SequenceTheorems, NaturalsInduction, WellFoundedInduction

InStream == phase \in {"chunk", "stream"}
AnalystNodes == {"Analyst", "tools", "MsgClear"}
Chosen == Selected(request.analysts)

\* The analysts whose turn is over.
Past == IF node \in AnalystNodes THEN {request.analysts[i] : i \in 1..(turn - 1)} ELSE Chosen

Voices == Analysts \cup {"human", "tool", "Trader"}
Sections == Analysts \cup {"investment_plan", "trader_investment_plan", "final_trade_decision"}
MessageType == [id : Nat, by : Voices, text : Texts, calls : BOOLEAN]
ProgressType == [status : [Agents -> Statuses], sections : SUBSET Sections,
                 entries : [Agents -> Agents \cup {NoAgent}],
                 tools : SUBSET [id : Nat, by : Voices, shown : Agents \cup {NoAgent}],
                 seen : SUBSET Nat]

ProgressTyped == messages \in Seq(MessageType) /\ progress \in ProgressType

Heard ==
    /\ node \notin AnalystNodes \cup {"BullResearcher"} => "BullResearcher" \in spoke
    /\ node \in {"Trader", "END"} \cup RiskNodes => "ResearchManager" \in spoke
    /\ debate.judge # "" => node \in {"Trader", "END"} \cup RiskNodes
    /\ "Trader" \in spoke => node \in RiskNodes \cup {"END"}
    /\ trader # "" => "Trader" \in spoke \/ Stale
    /\ node = "END" => "PortfolioManager" \in spoke
    /\ risk.judge # "" => node = "END"

\* An analyst whose turn is not over has no report, unless it has just handed
\* it in.
Reported ==
    /\ Past \subseteq spoke
    /\ node \in {"tools", "MsgClear"} => Who \in spoke
    /\ \A a \in Analysts : reports[a] # "" =>
        a \in Past \/ (node = "MsgClear" /\ a = Who)

\* The progress has the reports that are there, but for the newest.
Written ==
    /\ \A a \in Analysts \cap progress.sections : reports[a] # ""
    /\ phase = "stream" \/ node # "MsgClear" =>
        \A a \in Analysts : reports[a] # "" => a \in progress.sections

Shown ==
    /\ \A a \in Analysts \ Chosen : progress.status[a] = "pending"
    /\ \A i \in DOMAIN request.analysts :
        LET a == request.analysts[i] IN
        /\ progress.status[a] = "completed" => a \in progress.sections
        /\ progress.status[a] = "in_progress" <=>
            /\ a \notin progress.sections
            /\ \A j \in 1..(i - 1) : request.analysts[j] \in progress.sections
    /\ \A g \in Team : progress.status[g] = "completed" => debate.judge # ""
    /\ progress.status["Trader"] = "completed" => trader # "" \/ Stale
    /\ \A g \in RiskTeam : progress.status[g] = "completed" =>
        phase = "stream" /\ node = "END" /\ risk.judge # ""

\* The tool calls on the timeline, and the one that is still to be told.
Attributed ==
    \A t \in progress.tools :
        t.shown = t.by \/ (t.shown \in Past /\ reports[t.shown] = "") \/ Stale
Untold ==
    Stale \/ \A i \in DOMAIN messages :
        messages[i].calls /\ messages[i].id \notin progress.seen =>
            phase = "chunk" /\ node = "tools" /\ messages[i].by = Who

\* Inductive, together with EngineInv.
ProgressInv ==
    /\ ProgressTyped
    /\ Started => Heard /\ Reported /\ Attributed
    /\ InStream => Written /\ Shown /\ Untold
    /\ ~ Started => progress.tools = {}

-----------------------------------------------------------------------------
(* What processing a chunk does to the statuses                             *)

LEMMA MinIs ==
    ASSUME NEW T \in SUBSET Int, NEW n \in T, \A x \in T : n <= x
    PROVE  Min(T) = n
<1>1. \A x \in T : (\A y \in T : x <= y) => x = n
  OBVIOUS
<1>2. QED
  BY <1>1 DEF Min

LEMMA TheAgents ==
    /\ Selectable = Analysts
    /\ Agents = Analysts \cup Team \cup {"Trader"} \cup RiskTeam
    /\ Team = {"BullResearcher", "BearResearcher", "ResearchManager"}
    /\ RiskTeam = RiskNodes
    /\ NoAgent \notin Agents
<1>1. Len(ANALYST_ORDER) = 4
  BY DEF ANALYST_ORDER
<1>2. Selectable = {ANALYST_ORDER[1], ANALYST_ORDER[2], ANALYST_ORDER[3], ANALYST_ORDER[4]}
  BY <1>1 DEF Selectable
<1>3. Selectable = Analysts
  BY <1>2 DEF ANALYST_ORDER, Analysts
<1>4. QED
  BY <1>3 DEF Agents, Team, RiskTeam, RiskNodes, NoAgent, Analysts

\* The parts of the update that follow the analysts' leave the analysts alone;
\* a team is done by its judge's words, the trader by its plan.
Follows(later, status, d, plan, r) ==
    /\ later \in [Agents -> Statuses]
    /\ \A a \in Analysts : later[a] = status[a]
    /\ \A g \in Team : later[g] = "completed" => d.judge # "" \/ status[g] = "completed"
    /\ \A g \in Team : d.judge # "" => later[g] = "completed"
    /\ later["Trader"] = "completed" => plan # "" \/ status["Trader"] = "completed"
    /\ plan # "" => later["Trader"] = "completed"
    /\ \A g \in RiskTeam : later[g] = "completed" => r.judge # "" \/ status[g] = "completed"

LEMMA LaterStatuses ==
    ASSUME NEW status \in [Agents -> Statuses], NEW d, NEW plan, NEW r, NEW later,
           later = RiskStatuses(TraderStatuses(ResearchStatuses(status, d), plan), r)
    PROVE  Follows(later, status, d, plan, r)
<1>1. /\ Agents = Analysts \cup Team \cup {"Trader"} \cup RiskTeam
      /\ Analysts \cap (Team \cup {"Trader"} \cup RiskTeam) = {}
      /\ Team \cap ({"Trader"} \cup RiskTeam) = {}
      /\ "Trader" \notin RiskTeam
  BY TheAgents DEF Analysts, Team, RiskTeam
<1>2. PICK s1 : s1 = ResearchStatuses(status, d)
  OBVIOUS
<1>3. /\ s1 \in [Agents -> Statuses]
      /\ \A a \in Analysts \cup RiskTeam : s1[a] = status[a]
      /\ \A g \in Team : s1[g] = "completed" => d.judge # "" \/ status[g] = "completed"
      /\ \A g \in Team : d.judge # "" => s1[g] = "completed"
      /\ s1["Trader"] = "completed" => status["Trader"] = "completed"
  BY <1>1, <1>2 DEF ResearchStatuses, Set, Statuses
<1>4. PICK s2 : s2 = TraderStatuses(s1, plan)
  OBVIOUS
<1>5. /\ s2 \in [Agents -> Statuses]
      /\ \A a \in Analysts \cup Team : s2[a] = s1[a]
      /\ s2["Trader"] = "completed" => plan # "" \/ s1["Trader"] = "completed"
      /\ plan # "" => s2["Trader"] = "completed"
      /\ \A g \in RiskTeam : s2[g] = "completed" => s1[g] = "completed"
  <2>1. "AggressiveAnalyst" \in RiskTeam
    BY DEF RiskTeam
  <2>2. QED
    BY <1>1, <1>3, <1>4, <2>1 DEF TraderStatuses, Set, Statuses
<1>6. /\ later \in [Agents -> Statuses]
      /\ \A a \in Analysts \cup Team \cup {"Trader"} : later[a] = s2[a]
      /\ \A g \in RiskTeam : later[g] = "completed" => r.judge # "" \/ s2[g] = "completed"
  BY <1>1, <1>2, <1>4, <1>5 DEF RiskStatuses, Set, Statuses
<1>7. \A a \in Analysts : later[a] = status[a]
  BY <1>3, <1>5, <1>6
<1>8. /\ \A g \in Team : later[g] = "completed" => d.judge # "" \/ status[g] = "completed"
      /\ \A g \in Team : d.judge # "" => later[g] = "completed"
  BY <1>3, <1>5, <1>6
<1>9. /\ later["Trader"] = "completed" => plan # "" \/ status["Trader"] = "completed"
      /\ plan # "" => later["Trader"] = "completed"
  BY <1>3, <1>5, <1>6
<1>10. \A g \in RiskTeam : later[g] = "completed" => r.judge # "" \/ status[g] = "completed"
  BY <1>3, <1>5, <1>6
<1>11. QED
  BY <1>6, <1>7, <1>8, <1>9, <1>10 DEF Follows

\* The analysts asked for, by their places in the order all of them have.
LEMMA TheChosen ==
    ASSUME EngineInv
    PROVE  /\ Len(request.analysts) \in Nat
           /\ DOMAIN request.analysts = 1..Len(request.analysts)
           /\ \A i \in 1..Len(request.analysts) : request.analysts[i] \in Analysts
           /\ Chosen = {request.analysts[i] : i \in 1..Len(request.analysts)}
           /\ Chosen \subseteq Analysts
           /\ \A i, j \in 1..Len(request.analysts) : \A k, l \in 1..4 :
                i < j /\ request.analysts[i] = ANALYST_ORDER[k]
                      /\ request.analysts[j] = ANALYST_ORDER[l] => k < l
<1>1. request \in Requests
  BY DEF EngineInv, TypeOK
<1>2. request.analysts \in Seq(Analysts)
  BY <1>1, AgentGraphAssumption
<1>3. /\ Len(request.analysts) \in Nat
      /\ DOMAIN request.analysts = 1..Len(request.analysts)
      /\ \A i \in 1..Len(request.analysts) : request.analysts[i] \in Analysts
  BY <1>2
<1>4. DOMAIN ANALYST_ORDER = 1..4
  BY DEF ANALYST_ORDER
<1>5. \A i, j \in 1..Len(request.analysts) : \A k, l \in 1..4 :
        i < j /\ request.analysts[i] = ANALYST_ORDER[k]
              /\ request.analysts[j] = ANALYST_ORDER[l] => k < l
  BY <1>1, <1>3, <1>4, EngineRunAssumption
<1>6. QED
  BY <1>3, <1>5 DEF Chosen, Selected

LEMMA Places ==
    /\ DOMAIN ANALYST_ORDER = 1..4
    /\ \A k \in 1..4 : ANALYST_ORDER[k] \in Analysts
    /\ \A k, l \in 1..4 : ANALYST_ORDER[k] = ANALYST_ORDER[l] => k = l
    /\ \A a \in Analysts : \E k \in 1..4 : ANALYST_ORDER[k] = a
BY DEF ANALYST_ORDER, Analysts

LEMMA ChosenOnce ==
    ASSUME EngineInv,
           NEW i \in 1..Len(request.analysts), NEW j \in 1..Len(request.analysts),
           request.analysts[i] = request.analysts[j]
    PROVE  i = j
<1>1. PICK k \in 1..4 : ANALYST_ORDER[k] = request.analysts[i]
  BY TheChosen, Places
<1>2. ~ (i < j) /\ ~ (j < i)
  BY <1>1, TheChosen
<1>3. QED
  BY <1>2, TheChosen

\* A set of numbers has a least one: numbers are well-founded.
LEMMA Least ==
    ASSUME NEW T \in SUBSET Nat, NEW x \in T
    PROVE  Min(T) \in T /\ \A y \in T : Min(T) <= y
<1>. DEFINE below == {pair \in Nat \X Nat : pair[1] < pair[2]}
<1>1. OpToRel(<, Nat) = below
  BY Zenon DEF OpToRel
<1>2. IsWellFoundedOn(below, Nat)
  BY <1>1, NatLessThanWellFounded, Zenon
<1>3. PICK n \in T : \A y \in T : ~ (<<y, n>> \in below)
  BY <1>2, WFMin, Zenon
<1>4. ASSUME NEW y \in T
      PROVE  n <= y
  <2>1. <<y, n>> \in Nat \X Nat
    OBVIOUS
  <2>2. y < n => <<y, n>> \in below
    BY <2>1
  <2>3. QED
    BY <1>3, <2>2
<1>5. Min(T) = n
  BY <1>4, MinIs
<1>6. QED
  BY <1>4, <1>5

\* The analysts without a section, by their places.
Open(sections) == {k \in DOMAIN ANALYST_ORDER :
                    ANALYST_ORDER[k] \in Chosen /\ ANALYST_ORDER[k] \notin sections}

\* The first in the order of all is the first in the order asked for.
LEMMA FirstOpen ==
    ASSUME EngineInv, NEW sections,
           NEW i \in 1..Len(request.analysts), request.analysts[i] \notin sections
    PROVE  request.analysts[i] = ANALYST_ORDER[Min(Open(sections))]
            <=> \A j \in 1..(i - 1) : request.analysts[j] \in sections
<1>. DEFINE T == Open(sections)
<1>1. T \in SUBSET (1..4)
  BY Places DEF Open
<1>2. PICK p \in 1..4 : ANALYST_ORDER[p] = request.analysts[i]
  BY TheChosen, Places
<1>3. p \in T
  BY <1>2, TheChosen, Places DEF Open
<1>4. \A j \in 1..(i - 1) : j \in 1..Len(request.analysts) /\ j < i
  BY TheChosen
<1>5. ASSUME \A j \in 1..(i - 1) : request.analysts[j] \in sections
      PROVE  Min(T) = p
  <2>1. ASSUME NEW q \in T
        PROVE  p <= q
    <3>1. PICK j \in 1..Len(request.analysts) : request.analysts[j] = ANALYST_ORDER[q]
      BY TheChosen DEF Open
    <3>2. request.analysts[j] \notin sections
      BY <3>1 DEF Open
    <3>3. j = i \/ i < j
      BY <1>5, <3>2, TheChosen
    <3>4. q \in 1..4
      BY <1>1
    <3>5. CASE j = i
      BY <1>2, <3>1, <3>4, <3>5, Places
    <3>6. CASE i < j
      BY <1>2, <3>1, <3>4, <3>6, TheChosen
    <3>7. QED
      BY <3>3, <3>5, <3>6
  <2>2. QED
    BY <1>1, <1>3, <2>1, MinIs
<1>6. ASSUME NEW j \in 1..(i - 1), request.analysts[j] \notin sections
      PROVE  ANALYST_ORDER[Min(T)] # request.analysts[i]
  <2>1. PICK q \in 1..4 : ANALYST_ORDER[q] = request.analysts[j]
    BY <1>4, TheChosen, Places
  <2>2. q \in T
    BY <1>4, <1>6, <2>1, TheChosen, Places DEF Open
  <2>3. q < p
    BY <1>2, <1>4, <2>1, TheChosen
  <2>4. Min(T) \in T /\ Min(T) <= q
    BY <1>1, <2>2, Least
  <2>5. Min(T) # p /\ Min(T) \in 1..4
    BY <1>1, <2>3, <2>4
  <2>6. QED
    BY <1>2, <2>5, Places
<1>7. QED
  BY <1>2, <1>5, <1>6

LEMMA AnalystStatuses ==
    ASSUME EngineInv, NEW status \in [Agents -> Statuses], NEW sections, NEW shown,
           shown = UpdateAnalystStatuses(status, sections, request.analysts)
    PROVE  /\ shown \in [Agents -> Statuses]
           /\ \A a \in Chosen : shown[a] = "completed" <=> a \in sections
           /\ \A i \in 1..Len(request.analysts) :
                shown[request.analysts[i]] = "in_progress" <=>
                    /\ request.analysts[i] \notin sections
                    /\ \A j \in 1..(i - 1) : request.analysts[j] \in sections
           /\ \A a \in Analysts \ Chosen : shown[a] = status[a]
           /\ \A g \in Agents \ Analysts : shown[g] = "completed" <=> status[g] = "completed"
<1>1. shown = [g \in Agents |->
            IF g \in Chosen
            THEN IF g \in sections THEN "completed"
                 ELSE IF g = ANALYST_ORDER[Min(Open(sections))] THEN "in_progress" ELSE "pending"
            ELSE IF g = "BullResearcher" /\ Open(sections) = {} /\ status[g] = "pending"
                 THEN "in_progress"
            ELSE status[g]]
  BY DEF UpdateAnalystStatuses, Open, Chosen
<1>2. /\ Chosen \subseteq Analysts /\ Analysts \subseteq Agents
      /\ "BullResearcher" \notin Analysts
  BY TheChosen, TheAgents DEF Analysts
<1>3. shown \in [Agents -> Statuses]
  BY <1>1 DEF Statuses
<1>4. \A a \in Chosen : shown[a] = "completed" <=> a \in sections
  BY <1>1, <1>2
<1>5. /\ \A a \in Analysts \ Chosen : shown[a] = status[a]
      /\ \A g \in Agents \ Analysts : shown[g] = "completed" <=> status[g] = "completed"
  BY <1>1, <1>2
<1>6. ASSUME NEW i \in 1..Len(request.analysts)
      PROVE  shown[request.analysts[i]] = "in_progress" <=>
                /\ request.analysts[i] \notin sections
                /\ \A j \in 1..(i - 1) : request.analysts[j] \in sections
  <2>1. request.analysts[i] \in Chosen /\ request.analysts[i] \in Agents
    BY <1>2, TheChosen
  <2>2. shown[request.analysts[i]] = "in_progress" <=>
            /\ request.analysts[i] \notin sections
            /\ request.analysts[i] = ANALYST_ORDER[Min(Open(sections))]
    BY <1>1, <2>1
  <2>3. QED
    BY <2>2, FirstOpen
<1>7. QED
  BY <1>3, <1>4, <1>5, <1>6

-----------------------------------------------------------------------------
(* Whom a tool call is put down to                                          *)

LEMMA AgentPlaces ==
    /\ DOMAIN AgentOrder = 1..12
    /\ \A k \in 1..12 : AgentOrder[k] \in Agents
    /\ \A k \in 1..4 : AgentOrder[k] = ANALYST_ORDER[k]
<1>. DEFINE others == <<"BullResearcher", "BearResearcher", "ResearchManager", "Trader",
                        "AggressiveAnalyst", "ConservativeAnalyst", "NeutralAnalyst",
                        "PortfolioManager">>
<1>1. ANALYST_ORDER \in Seq(Agents) /\ Len(ANALYST_ORDER) = 4
  BY TheAgents DEF ANALYST_ORDER, Analysts
<1>2. others \in Seq(Agents) /\ Len(others) = 8
  BY TheAgents DEF Team, RiskTeam
<1>3. AgentOrder = ANALYST_ORDER \o others
  BY DEF AgentOrder
<1>. HIDE DEF others
<1>4. /\ AgentOrder \in Seq(Agents)
      /\ Len(AgentOrder) = Len(ANALYST_ORDER) + Len(others)
      /\ \A k \in 1..(Len(ANALYST_ORDER) + Len(others)) :
            AgentOrder[k] = IF k <= Len(ANALYST_ORDER) THEN ANALYST_ORDER[k]
                            ELSE others[k - Len(ANALYST_ORDER)]
  BY <1>1, <1>2, <1>3, ConcatProperties, Zenon
<1>5. Len(AgentOrder) = 12 /\ \A k \in 1..4 : AgentOrder[k] = ANALYST_ORDER[k]
  BY <1>1, <1>2, <1>4
<1>6. DOMAIN AgentOrder = 1..Len(AgentOrder)
  BY <1>4, LenProperties, Zenon
<1>7. \A k \in 1..Len(AgentOrder) : AgentOrder[k] \in Agents
  BY <1>4, ElementOfSeq, Zenon
<1>8. QED
  BY <1>5, <1>6, <1>7

LEMMA AgentOrNone == AgentFromStatus(progress) \in Agents \cup {NoAgent}
<1>. DEFINE busy == {i \in DOMAIN AgentOrder : progress.status[AgentOrder[i]] = "in_progress"}
<1>1. busy \in SUBSET Nat /\ busy \subseteq 1..12
  BY AgentPlaces
<1>2. ASSUME busy # {}
      PROVE  Min(busy) \in 1..12
  BY <1>1, <1>2, Least
<1>3. QED
  BY <1>2, AgentPlaces DEF AgentFromStatus

\* If one analyst is at work, it is the agent at work.
LEMMA AgentAtWork ==
    ASSUME NEW a \in Analysts, progress.status[a] = "in_progress",
           \A b \in Analysts : progress.status[b] = "in_progress" => b = a
    PROVE  AgentFromStatus(progress) = a
<1>. DEFINE busy == {i \in DOMAIN AgentOrder : progress.status[AgentOrder[i]] = "in_progress"}
<1>1. PICK k \in 1..4 : ANALYST_ORDER[k] = a
  BY Places
<1>2. k \in busy
  BY <1>1, AgentPlaces
<1>3. busy \in SUBSET Int
  BY AgentPlaces
<1>4. ASSUME NEW i \in busy
      PROVE  k <= i
  <2>1. i \in 1..12
    BY AgentPlaces
  <2>2. CASE i \in 1..4
    BY <1>1, <2>2, AgentPlaces, Places
  <2>3. CASE i \notin 1..4
    BY <2>1, <2>3
  <2>4. QED
    BY <2>2, <2>3
<1>5. Min(busy) = k
  BY <1>2, <1>3, <1>4, MinIs
<1>6. QED
  BY <1>1, <1>2, <1>5, AgentPlaces DEF AgentFromStatus

-----------------------------------------------------------------------------
(* The steps of the graph                                                   *)

\* What Advance adds to a step of the graph.
RunnerFollows ==
    /\ phase = "stream" /\ phase' = "chunk"
    /\ UNCHANGED <<attempt, saved, resumed, refused, progress, log, written>>
    /\ spoke' = spoke \cup {IF node = "Analyst" THEN Who ELSE node}

LEMMA Followed ==
    ASSUME ProgressInv, RunnerFollows, UNCHANGED request,
           messages' \in Seq(MessageType), Heard', Reported', Attributed', Written', Shown', Untold'
    PROVE  ProgressInv'
<1>1. ProgressTyped'
  BY DEF ProgressInv, RunnerFollows, ProgressTyped
<1>2. Started' /\ InStream'
  BY DEF RunnerFollows, Started, InStream
<1>3. QED
  BY <1>1, <1>2 DEF ProgressInv

LEMMA WhileItRuns ==
    ASSUME ProgressInv, phase = "stream"
    PROVE  ProgressTyped /\ Heard /\ Reported /\ Attributed /\ Written /\ Shown /\ Untold
BY DEF ProgressInv, Started, InStream

LEMMA Appended ==
    ASSUME messages \in Seq(MessageType), NEW m \in MessageType
    PROVE  /\ Append(messages, m) \in Seq(MessageType)
           /\ \A i \in DOMAIN Append(messages, m) :
                \/ Append(messages, m)[i] = m
                \/ i \in DOMAIN messages /\ Append(messages, m)[i] = messages[i]
<1>1. /\ Append(messages, m) \in Seq(MessageType)
      /\ Append(messages, m)[Len(messages) + 1] = m
      /\ \A i \in 1..Len(messages) : Append(messages, m)[i] = messages[i]
      /\ DOMAIN Append(messages, m) = 1..(Len(messages) + 1)
  OBVIOUS
<1>2. PICK n \in Nat : n = Len(messages) /\ DOMAIN messages = 1..n
  OBVIOUS
<1>3. \A i \in 1..(n + 1) : i = n + 1 \/ i \in 1..n
  OBVIOUS
<1>4. QED
  BY <1>1, <1>2, <1>3

\* Beyond the analysts' part only a step's own channel changes.
LEMMA LaterStep ==
    ASSUME ProgressInv, RunnerFollows, UNCHANGED <<request, reports>>,
           node \notin AnalystNodes \cup {"END"}, node' \notin AnalystNodes,
           \/ UNCHANGED messages
           \/ \E m \in MessageType : ~ m.calls /\ messages' = Append(messages, m),
           Heard',
           debate.judge # "" => debate'.judge # "",
           trader # "" => trader' # "" \/ Stale
    PROVE  ProgressInv'
<1>1. ProgressTyped /\ Reported /\ Attributed /\ Written /\ Shown /\ Untold
  BY WhileItRuns DEF RunnerFollows
<1>2. Past = Chosen /\ Past' = Chosen /\ Chosen' = Chosen
  BY DEF Past, Chosen
<1>3. Stale' = Stale
  BY DEF Stale, RunnerFollows
<1>4. Reported'
  BY <1>1, <1>2 DEF Reported, RunnerFollows, AnalystNodes
<1>5. Attributed'
  BY <1>1, <1>2, <1>3 DEF Attributed, RunnerFollows
<1>6. Written'
  BY <1>1 DEF Written, RunnerFollows
<1>7. Shown'
  <2>1. /\ \A a \in Analysts \ Chosen : progress'.status[a] = "pending"
        /\ \A g \in Team : progress'.status[g] = "completed" => debate'.judge # ""
        /\ progress'.status["Trader"] = "completed" => trader' # "" \/ Stale
    BY <1>1 DEF Shown, RunnerFollows
  <2>2. \A g \in RiskTeam : progress'.status[g] # "completed"
    BY <1>1 DEF Shown, RunnerFollows
  <2>3. QED
    BY <1>1, <1>2, <1>3, <2>1, <2>2 DEF Shown, RunnerFollows
<1>8. messages' \in Seq(MessageType) /\ Untold'
  <2>1. CASE UNCHANGED messages
    BY <1>1, <1>3, <2>1 DEF ProgressTyped, Untold, RunnerFollows
  <2>2. ASSUME NEW m \in MessageType, ~ m.calls, messages' = Append(messages, m)
        PROVE  messages' \in Seq(MessageType) /\ Untold'
    <3>1. messages' \in Seq(MessageType)
      BY <1>1, <2>2, Appended DEF ProgressTyped
    <3>2. ASSUME NEW i \in DOMAIN messages', messages'[i].calls, ~ Stale
          PROVE  messages'[i].id \in progress.seen
      <4>1. messages'[i] # m
        BY <2>2, <3>2
      <4>2. i \in DOMAIN messages /\ messages'[i] = messages[i]
        BY <1>1, <2>2, <3>2, <4>1, Appended DEF ProgressTyped
      <4>3. QED
        BY <1>1, <3>2, <4>2 DEF Untold, RunnerFollows
    <3>3. QED
      BY <1>3, <3>1, <3>2 DEF Untold, RunnerFollows
  <2>3. QED
    BY <2>1, <2>2
<1>9. QED
  BY <1>4, <1>5, <1>6, <1>7, <1>8, Followed

LEMMA DebateSteps ==
    ASSUME ProgressInv, RunnerFollows, BullResearcher \/ BearResearcher \/ ResearchManager
    PROVE  ProgressInv'
<1>1. Heard /\ debate.judge = ""
  BY WhileItRuns DEF RunnerFollows, Heard, RiskNodes, BullResearcher, BearResearcher,
    ResearchManager
<1>2. UNCHANGED <<request, reports, messages, trader, risk>> /\ Stale' = Stale
  BY DEF BullResearcher, BearResearcher, ResearchManager, Argues, RunnerFollows, Stale
<1>3. /\ node \in DebateNodes
      /\ node' \in DebateNodes \cup {"Trader"}
      /\ node' = "Trader" <=> node = "ResearchManager"
      /\ node # "ResearchManager" => debate'.judge = ""
  <2>1. CASE BullResearcher
    BY <2>1 DEF BullResearcher, Argues, Superstep, ShouldContinueDebate, DebateNodes
  <2>2. CASE BearResearcher
    BY <2>2 DEF BearResearcher, Argues, Superstep, ShouldContinueDebate, DebateNodes
  <2>3. CASE ResearchManager
    BY <2>3 DEF ResearchManager, Superstep, DebateNodes
  <2>4. QED
    BY <2>1, <2>2, <2>3
<1>4. spoke' = spoke \cup {node}
  BY <1>3 DEF RunnerFollows, DebateNodes
<1>5. Heard'
  BY <1>1, <1>2, <1>3, <1>4 DEF Heard, RiskNodes, DebateNodes, AnalystNodes
<1>6. node \notin AnalystNodes \cup {"END"} /\ node' \notin AnalystNodes
  BY <1>3 DEF DebateNodes, AnalystNodes
<1>7. QED
  BY <1>1, <1>2, <1>5, <1>6, LaterStep

LEMMA TraderSpeaks ==
    ASSUME EngineInv, ProgressInv, RunnerFollows, Trader
    PROVE  ProgressInv'
<1>1. Heard /\ node = "Trader" /\ Stale' = Stale
  BY WhileItRuns DEF RunnerFollows, Trader, Stale
<1>2. UNCHANGED <<request, reports, risk, debate>> /\ node' = "AggressiveAnalyst"
  BY DEF Trader, Superstep
<1>3. PICK text \in Texts : messages' = Append(messages, Message("Trader", text, FALSE))
  BY DEF Trader, StructuredOrFreeText, Texts
<1>4. /\ Message("Trader", text, FALSE) \in MessageType
      /\ Message("Trader", text, FALSE).calls = FALSE
  BY StateType DEF Message, MessageType, Voices
<1>5. trader = "" \/ Stale
  BY <1>1 DEF Heard, RiskNodes
<1>6. spoke' = spoke \cup {"Trader"}
  BY <1>1 DEF RunnerFollows
<1>7. Heard'
  BY <1>1, <1>2, <1>6 DEF Heard, RiskNodes, AnalystNodes
<1>8. node \notin AnalystNodes \cup {"END"} /\ node' \notin AnalystNodes
  BY <1>1, <1>2 DEF AnalystNodes
<1>9. QED
  BY <1>2, <1>3, <1>4, <1>5, <1>7, <1>8, LaterStep

LEMMA RiskSteps ==
    ASSUME ProgressInv, RunnerFollows, Aggressive \/ Conservative \/ Neutral \/ PortfolioManager
    PROVE  ProgressInv'
<1>1. Heard
  BY WhileItRuns DEF RunnerFollows
<1>2. UNCHANGED <<request, reports, messages, trader, debate>> /\ Stale' = Stale
  BY DEF Aggressive, Conservative, Neutral, PortfolioManager, Weighs, RunnerFollows, Stale
<1>3. /\ node \in RiskNodes
      /\ node' \in RiskNodes \cup {"END"}
      /\ node' = "END" <=> node = "PortfolioManager"
      /\ node # "PortfolioManager" => risk'.judge = ""
  <2>1. CASE Aggressive
    BY <2>1 DEF Aggressive, Weighs, Spoken, Superstep, ShouldContinueRisk, RiskNodes
  <2>2. CASE Conservative
    BY <2>2 DEF Conservative, Weighs, Spoken, Superstep, ShouldContinueRisk, RiskNodes
  <2>3. CASE Neutral
    BY <2>3 DEF Neutral, Weighs, Spoken, Superstep, ShouldContinueRisk, RiskNodes
  <2>4. CASE PortfolioManager
    BY <2>4 DEF PortfolioManager, Superstep, RiskNodes
  <2>5. QED
    BY <2>1, <2>2, <2>3, <2>4
<1>4. spoke' = spoke \cup {node}
  BY <1>3 DEF RunnerFollows, RiskNodes
<1>5. Heard'
  BY <1>1, <1>2, <1>3, <1>4 DEF Heard, RiskNodes, AnalystNodes
<1>6. node \notin AnalystNodes \cup {"END"} /\ node' \notin AnalystNodes
  BY <1>3 DEF RiskNodes, AnalystNodes
<1>7. QED
  BY <1>2, <1>5, <1>6, LaterStep

\* In the analysts' part: whose turn it is, and that it has handed in nothing.
LEMMA AtWork ==
    ASSUME EngineInv, ProgressInv, Started, node \in AnalystNodes
    PROVE  /\ turn \in 1..Len(request.analysts)
           /\ Len(request.analysts) \in Nat
           /\ Past = {request.analysts[i] : i \in 1..(turn - 1)}
           /\ Past \subseteq Chosen
           /\ Who \in Chosen /\ Who \in Analysts
           /\ Who \notin Past
           /\ node # "MsgClear" => reports[Who] = ""
<1>1. turn \in 1..Len(request.analysts)
  BY Running DEF InTurn, AnalystNodes
<1>2. Past = {request.analysts[i] : i \in 1..(turn - 1)}
  BY DEF Past
<1>3. Len(request.analysts) \in Nat
  BY TheChosen
<1>4. \A i \in 1..(turn - 1) : i \in 1..Len(request.analysts) /\ i # turn
  BY <1>1, <1>3
<1>5. Past \subseteq Chosen /\ Who \in Chosen /\ Who \in Analysts
  BY <1>1, <1>2, <1>4, TheChosen DEF Who
<1>6. Who \notin Past
  BY <1>1, <1>2, <1>4, ChosenOnce DEF Who
<1>7. node # "MsgClear" => reports[Who] = ""
  BY <1>5, <1>6 DEF ProgressInv, Reported
<1>8. QED
  BY <1>1, <1>2, <1>3, <1>5, <1>6, <1>7

\* While the analysts are at work none of the others is done.
LEMMA NothingLater ==
    ASSUME EngineInv, ProgressInv, RunnerFollows, node \in AnalystNodes,
           node' \in AnalystNodes \cup {"BullResearcher"},
           UNCHANGED <<request, debate, trader, risk>>
    PROVE  /\ Heard' /\ Shown' /\ Stale' = Stale /\ Chosen' = Chosen
           /\ \A i \in DOMAIN messages : messages[i].calls =>
                messages[i].id \in progress'.seen \/ Stale
<1>1. Heard /\ Shown /\ Untold
  BY WhileItRuns DEF RunnerFollows
<1>2. Stale' = Stale /\ Chosen' = Chosen
  BY DEF Stale, RunnerFollows, Chosen
<1>3. /\ debate.judge = "" /\ risk.judge = ""
      /\ "Trader" \notin spoke
      /\ trader = "" \/ Stale
  BY <1>1 DEF Heard, AnalystNodes, RiskNodes
<1>4. "Trader" \notin spoke'
  <2>1. Who \in Analysts
    BY AtWork DEF Started, RunnerFollows
  <2>2. QED
    BY <1>3, <2>1 DEF RunnerFollows, AnalystNodes, Analysts
<1>5. Shown'
  <2>1. \A g \in RiskTeam : progress'.status[g] # "completed"
    BY <1>1 DEF Shown, RunnerFollows, AnalystNodes
  <2>2. QED
    BY <1>1, <1>2, <2>1 DEF Shown, RunnerFollows
<1>6. Heard'
  BY <1>2, <1>3, <1>4 DEF Heard, AnalystNodes, RiskNodes
<1>7. \A i \in DOMAIN messages : messages[i].calls =>
        messages[i].id \in progress'.seen \/ Stale
  BY <1>1 DEF Untold, RunnerFollows
<1>8. QED
  BY <1>2, <1>5, <1>6, <1>7

LEMMA ReportsFollowed ==
    ASSUME EngineInv, ProgressInv, RunnerFollows,
           NEW a \in Analysts, NEW text \in Texts, NEW calls \in BOOLEAN, Reports(a, text, calls)
    PROVE  ProgressInv'
<1>. DEFINE reply == Message(a, text, calls)
<1>1. /\ node = "Analyst" /\ Who = a
      /\ node' = IF calls THEN "tools" ELSE "MsgClear"
      /\ reports' = [reports EXCEPT ![a] = IF calls THEN "" ELSE text]
      /\ messages' = Append(messages, reply)
      /\ UNCHANGED <<request, turn, debate, trader, risk>>
      /\ Started
  BY DEF Reports, Superstep, ShouldContinueAnalyst, Message, RunnerFollows, Started
<1>2. ProgressTyped /\ Reported /\ Attributed /\ Written
  BY WhileItRuns DEF RunnerFollows
<1>3. /\ Past' = Past /\ Who' = Who /\ a \notin Past /\ a \notin progress.sections
      /\ reports[a] = ""
  BY <1>1, <1>2, AtWork DEF Past, Who, AnalystNodes, Written
<1>4. /\ Heard' /\ Shown' /\ Stale' = Stale
      /\ \A i \in DOMAIN messages : messages[i].calls =>
            messages[i].id \in progress'.seen \/ Stale
  BY <1>1, NothingLater DEF AnalystNodes
<1>5. /\ reports' \in [Analysts -> Texts]
      /\ \A b \in Analysts : b # a => reports'[b] = reports[b]
      /\ calls => reports'[a] = ""
  BY <1>1 DEF EngineInv, TypeOK, Texts
<1>6. spoke' = spoke \cup {a}
  BY <1>1 DEF RunnerFollows
<1>7. Reported'
  BY <1>1, <1>2, <1>3, <1>5, <1>6 DEF Reported
<1>8. Attributed'
  <2>1. Past \subseteq Analysts
    BY <1>1, AtWork, TheChosen DEF AnalystNodes
  <2>2. QED
    BY <1>2, <1>3, <1>4, <1>5, <2>1 DEF Attributed, RunnerFollows
<1>9. Written'
  BY <1>1, <1>2, <1>3, <1>5 DEF Written, RunnerFollows
<1>10. reply \in MessageType /\ reply.by = a /\ reply.calls = calls
  BY StateType DEF Message, MessageType, Voices
<1>11. messages' \in Seq(MessageType)
  BY <1>1, <1>2, <1>10, Appended DEF ProgressTyped
<1>. HIDE DEF reply
<1>12. \A i \in DOMAIN messages' :
        messages'[i] = reply \/ (i \in DOMAIN messages /\ messages'[i] = messages[i])
  <2>1. messages \in Seq(MessageType)
    BY <1>2 DEF ProgressTyped
  <2>2. \A i \in DOMAIN Append(messages, reply) :
            \/ Append(messages, reply)[i] = reply
            \/ i \in DOMAIN messages /\ Append(messages, reply)[i] = messages[i]
    BY <2>1, <1>10, Appended
  <2>3. QED
    BY <1>1, <2>2
<1>13. Untold'
  BY <1>1, <1>3, <1>4, <1>10, <1>12 DEF Untold, RunnerFollows
<1>14. QED
  BY <1>1, <1>4, <1>7, <1>8, <1>9, <1>11, <1>13, Followed

LEMMA ToolsFollowed ==
    ASSUME EngineInv, ProgressInv, RunnerFollows, Tools
    PROVE  ProgressInv'
<1>. DEFINE reply == Message("tool", "text", FALSE)
<1>1. /\ node = "tools" /\ node' = "Analyst"
      /\ messages' = Append(messages, reply)
      /\ UNCHANGED <<request, turn, reports, debate, trader, risk>>
      /\ Started
  BY DEF Tools, Superstep, RunnerFollows, Started
<1>2. ProgressTyped /\ Reported /\ Attributed /\ Written
  BY WhileItRuns DEF RunnerFollows
<1>3. Past' = Past /\ Who' = Who
  BY <1>1 DEF Past, Who, AnalystNodes
<1>4. /\ Heard' /\ Shown' /\ Stale' = Stale
      /\ \A i \in DOMAIN messages : messages[i].calls =>
            messages[i].id \in progress'.seen \/ Stale
  BY <1>1, NothingLater DEF AnalystNodes
<1>5. Reported' /\ Attributed' /\ Written'
  <2>1. Reported'
    BY <1>1, <1>2, <1>3, <1>4 DEF Reported, RunnerFollows
  <2>2. Attributed'
    BY <1>1, <1>2, <1>3, <1>4 DEF Attributed, RunnerFollows
  <2>3. Written'
    BY <1>1, <1>2, <1>3, <1>4 DEF Written, RunnerFollows
  <2>4. QED
    BY <2>1, <2>2, <2>3
<1>6. reply \in MessageType /\ reply.calls = FALSE
  <2>1. made + 1 \in Nat
    BY StateType
  <2>2. QED
    BY <2>1 DEF Message, MessageType, Voices, Texts
<1>7. messages' \in Seq(MessageType)
  BY <1>1, <1>2, <1>6, Appended DEF ProgressTyped
<1>. HIDE DEF reply
<1>8. \A i \in DOMAIN messages' :
        messages'[i] = reply \/ (i \in DOMAIN messages /\ messages'[i] = messages[i])
  <2>1. messages \in Seq(MessageType)
    BY <1>2 DEF ProgressTyped
  <2>2. \A i \in DOMAIN Append(messages, reply) :
            \/ Append(messages, reply)[i] = reply
            \/ i \in DOMAIN messages /\ Append(messages, reply)[i] = messages[i]
    BY <2>1, <1>6, Appended
  <2>3. QED
    BY <1>1, <2>2
<1>9. Untold'
  BY <1>4, <1>6, <1>8 DEF Untold, RunnerFollows
<1>10. QED
  BY <1>1, <1>4, <1>5, <1>7, <1>9, Followed

LEMMA MsgClearFollowed ==
    ASSUME EngineInv, ProgressInv, RunnerFollows, MsgClear
    PROVE  ProgressInv'
<1>. DEFINE placeholder == Message("human", "text", FALSE)
<1>1. /\ node = "MsgClear" /\ node' = AfterClear
      /\ messages' = <<placeholder>>
      /\ turn' = IF turn < Len(request.analysts) THEN turn + 1 ELSE turn
      /\ UNCHANGED <<request, reports, debate, trader, risk>>
      /\ Started
  BY DEF MsgClear, Superstep, RunnerFollows, Started
<1>2. ProgressTyped /\ Reported /\ Attributed /\ Written
  BY WhileItRuns DEF RunnerFollows
<1>3. node' \in {"Analyst", "BullResearcher"}
  BY <1>1 DEF AfterClear
<1>4. /\ Heard' /\ Shown' /\ Stale' = Stale /\ Chosen' = Chosen
      /\ \A i \in DOMAIN messages : messages[i].calls =>
            messages[i].id \in progress'.seen \/ Stale
  BY <1>1, <1>3, NothingLater DEF AnalystNodes
<1>5. /\ turn \in 1..Len(request.analysts) /\ Len(request.analysts) \in Nat
      /\ Past = {request.analysts[i] : i \in 1..(turn - 1)}
  BY <1>1, AtWork DEF AnalystNodes
<1>6. Past' = Past \cup {Who}
  <2>1. CASE turn < Len(request.analysts)
    <3>1. Past' = {request.analysts[i] : i \in 1..(turn' - 1)}
      BY <1>1, <2>1 DEF Past, AfterClear, AnalystNodes
    <3>2. 1..(turn' - 1) = 1..(turn - 1) \cup {turn}
      BY <1>1, <1>5, <2>1
    <3>3. QED
      BY <1>5, <3>1, <3>2 DEF Who
  <2>2. CASE ~ (turn < Len(request.analysts))
    <3>1. Past' = Chosen'
      BY <1>1, <2>2 DEF Past, AfterClear, AnalystNodes
    <3>2. Chosen = {request.analysts[i] : i \in 1..Len(request.analysts)}
      BY TheChosen
    <3>3. 1..Len(request.analysts) = 1..(turn - 1) \cup {turn}
      BY <1>5, <2>2
    <3>4. QED
      BY <1>4, <1>5, <3>1, <3>2, <3>3 DEF Who
  <2>3. QED
    BY <2>1, <2>2
<1>7. Reported' /\ Attributed' /\ Written'
  <2>1. Reported'
    BY <1>1, <1>2, <1>3, <1>4, <1>6 DEF Reported, RunnerFollows
  <2>2. Attributed'
    BY <1>1, <1>2, <1>3, <1>4, <1>6 DEF Attributed, RunnerFollows
  <2>3. Written'
    BY <1>1, <1>2, <1>3, <1>4, <1>6 DEF Written, RunnerFollows
  <2>4. QED
    BY <2>1, <2>2, <2>3
<1>8. placeholder \in MessageType /\ placeholder.calls = FALSE
  <2>1. made + 1 \in Nat
    BY StateType
  <2>2. QED
    BY <2>1 DEF Message, MessageType, Voices, Texts
<1>. HIDE DEF placeholder
<1>9. messages' \in Seq(MessageType) /\ \A i \in DOMAIN messages' : messages'[i] = placeholder
  BY <1>1, <1>8
<1>10. Untold'
  BY <1>8, <1>9 DEF Untold
<1>11. QED
  BY <1>1, <1>4, <1>7, <1>9, <1>10, Followed

LEMMA AdvanceFollowed ==
    ASSUME EngineInv, ProgressInv, Advance
    PROVE  ProgressInv'
<1>1. RunnerFollows /\ GraphStep
  BY DEF Advance, Goto, RunnerFollows
<1>2. CASE MarketAnalyst \/ NewsAnalyst \/ FundamentalsAnalyst \/ SentimentAnalyst
  <2>1. PICK a \in Analysts, text \in Texts, calls \in BOOLEAN : Reports(a, text, calls)
    BY <1>2 DEF MarketAnalyst, NewsAnalyst, FundamentalsAnalyst, SentimentAnalyst, Analysts,
      StructuredOrFreeText, Texts
  <2>2. QED
    BY <1>1, <2>1, ReportsFollowed
<1>3. QED
  BY <1>1, <1>2, ToolsFollowed, MsgClearFollowed, DebateSteps, TraderSpeaks, RiskSteps
    DEF GraphStep

-----------------------------------------------------------------------------
(* The steps of the runner                                                  *)

\* What a chunk does to the progress.
LEMMA Processed ==
    ASSUME EngineInv, ProgressTyped, phase = "chunk", Process
    PROVE  /\ progress' \in ProgressType
           /\ \A a \in Analysts : a \in progress'.sections <=>
                a \in progress.sections \/ (a \in Chosen /\ reports[a] # "")
           /\ \A a \in Analysts \ Chosen : progress'.status[a] = progress.status[a]
           /\ \A a \in Chosen : progress'.status[a] = "completed" <=> a \in progress'.sections
           /\ \A i \in 1..Len(request.analysts) :
                progress'.status[request.analysts[i]] = "in_progress" <=>
                    /\ request.analysts[i] \notin progress'.sections
                    /\ \A j \in 1..(i - 1) : request.analysts[j] \in progress'.sections
           /\ \A g \in Team : progress'.status[g] = "completed" =>
                debate.judge # "" \/ progress.status[g] = "completed"
           /\ \A g \in Team : debate.judge # "" => progress'.status[g] = "completed"
           /\ progress'.status["Trader"] = "completed" =>
                trader # "" \/ progress.status["Trader"] = "completed"
           /\ trader # "" => progress'.status["Trader"] = "completed"
           /\ \A g \in RiskTeam : progress'.status[g] = "completed" =>
                risk.judge # "" \/ progress.status[g] = "completed"
           /\ progress'.tools = TellMessages(progress, Chunk)
           /\ \A i \in DOMAIN messages : messages[i].id \in progress'.seen
           /\ risk.judge # "" => progress'.entries["PortfolioManager"] = "PortfolioManager"
<1>. DEFINE sections == WriteReports(progress.sections, Chunk, request.analysts)
            shown == UpdateAnalystStatuses(progress.status, sections, request.analysts)
            later == RiskStatuses(
                        TraderStatuses(ResearchStatuses(shown, debate), trader), risk)
            all == WriteSections(sections, Chunk)
<1>1. /\ Chunk.messages = messages /\ Chunk.reports = reports /\ Chunk.debate = debate
      /\ Chunk.trader = trader /\ Chunk.risk = risk /\ Chunk.final = final
  BY DEF Chunk
<1>2. progress' = [status |-> later, sections |-> all,
                   entries |-> SyncDebateTimeline(progress.entries, all, Chunk, request.analysts),
                   tools |-> TellMessages(progress, Chunk),
                   seen |-> progress.seen
                        \cup {messages[i].id : i \in Unseen(progress, Chunk)}]
  BY <1>1 DEF Process, ProcessStreamChunk
<1>3. progress.status \in [Agents -> Statuses] /\ progress.sections \in SUBSET Sections
      /\ progress.entries \in [Agents -> Agents \cup {NoAgent}]
      /\ progress.seen \in SUBSET Nat
      /\ progress.tools \in SUBSET [id : Nat, by : Voices, shown : Agents \cup {NoAgent}]
      /\ messages \in Seq(MessageType)
  BY DEF ProgressTyped, ProgressType
<1>4. Chosen \subseteq Analysts /\ Analysts \subseteq Sections /\ Analysts \subseteq Agents
  BY TheChosen, TheAgents DEF Sections
<1>5. sections = progress.sections \cup {a \in Chosen : reports[a] # ""}
  BY <1>1 DEF WriteReports, Chosen
<1>. HIDE DEF sections
<1>6. /\ all \in SUBSET Sections
      /\ \A a \in Analysts : a \in all <=> a \in sections
  <2>1. all \subseteq sections
            \cup {"investment_plan", "trader_investment_plan", "final_trade_decision"}
    BY DEF WriteSections
  <2>2. sections \subseteq all
    BY DEF WriteSections
  <2>3. sections \subseteq Sections
    BY <1>3, <1>4, <1>5
  <2>4. QED
    BY <2>1, <2>2, <2>3 DEF Sections, Analysts
<1>7. /\ shown \in [Agents -> Statuses]
      /\ \A a \in Chosen : shown[a] = "completed" <=> a \in sections
      /\ \A i \in 1..Len(request.analysts) :
            shown[request.analysts[i]] = "in_progress" <=>
                /\ request.analysts[i] \notin sections
                /\ \A j \in 1..(i - 1) : request.analysts[j] \in sections
      /\ \A a \in Analysts \ Chosen : shown[a] = progress.status[a]
      /\ \A g \in Agents \ Analysts : shown[g] = "completed" <=> progress.status[g] = "completed"
  BY <1>3, AnalystStatuses
<1>. HIDE DEF shown
<1>8. later = RiskStatuses(TraderStatuses(ResearchStatuses(shown, debate), trader), risk)
  OBVIOUS
<1>. HIDE DEF later
<1>9. /\ later \in [Agents -> Statuses]
      /\ \A a \in Analysts : later[a] = shown[a]
      /\ \A g \in Team : later[g] = "completed" => debate.judge # "" \/ shown[g] = "completed"
      /\ \A g \in Team : debate.judge # "" => later[g] = "completed"
      /\ later["Trader"] = "completed" => trader # "" \/ shown["Trader"] = "completed"
      /\ trader # "" => later["Trader"] = "completed"
      /\ \A g \in RiskTeam : later[g] = "completed" => risk.judge # "" \/ shown[g] = "completed"
  <2>1. shown \in [Agents -> Statuses]
    BY <1>7
  <2>2. Follows(later, shown, debate, trader, risk)
    BY <1>8, <2>1, LaterStatuses, Zenon
  <2>3. QED
    BY <2>2 DEF Follows
<1>. HIDE DEF all
<1>10. /\ progress'.status = later /\ progress'.sections = all
      /\ progress'.tools = TellMessages(progress, Chunk)
      /\ progress'.seen = progress.seen \cup {messages[i].id : i \in Unseen(progress, Chunk)}
      /\ progress'.entries = SyncDebateTimeline(progress.entries, all, Chunk, request.analysts)
  BY <1>2
<1>11. \A i \in DOMAIN messages : messages[i].id \in Nat /\ messages[i].by \in Voices
  <2>1. messages \in Seq(MessageType)
    BY <1>3
  <2>2. \A i \in DOMAIN messages : messages[i] \in MessageType
    BY <2>1
  <2>3. QED
    BY <2>2 DEF MessageType
<1>12. \A i \in DOMAIN messages : messages[i].id \in progress'.seen
  BY <1>1, <1>10 DEF Unseen
<1>13. progress'.seen \in SUBSET Nat
  BY <1>1, <1>3, <1>10, <1>11 DEF Unseen
<1>14. progress'.tools \in SUBSET [id : Nat, by : Voices, shown : Agents \cup {NoAgent}]
  BY <1>1, <1>3, <1>10, <1>11, AgentOrNone DEF TellMessages, Unseen
<1>15. /\ progress'.entries \in [Agents -> Agents \cup {NoAgent}]
       /\ risk.judge # "" => progress'.entries["PortfolioManager"] = "PortfolioManager"
  <2>1. "PortfolioManager" \in Agents /\ "AggressiveAnalyst" \in Agents
    BY TheAgents DEF RiskTeam
  <2>2. \A g \in Agents : Author(g, Chunk) \in Agents
    BY <2>1 DEF Author
  <2>3. risk.judge # "" =>
            /\ "PortfolioManager" \in Speakers(all, Chunk, request.analysts)
            /\ Author("PortfolioManager", Chunk) = "PortfolioManager"
    BY <1>1 DEF Author, Speakers
  <2>4. progress'.entries = [g \in Agents |->
            IF g \in Speakers(all, Chunk, request.analysts) THEN Author(g, Chunk)
            ELSE progress.entries[g]]
    BY <1>10 DEF SyncDebateTimeline
  <2>5. progress'.entries \in [Agents -> Agents \cup {NoAgent}]
    BY <1>3, <2>2, <2>4
  <2>6. QED
    BY <2>1, <2>3, <2>4, <2>5
<1>16. progress' \in ProgressType
  <2>1. progress' = [status |-> progress'.status, sections |-> progress'.sections,
                     entries |-> progress'.entries, tools |-> progress'.tools,
                     seen |-> progress'.seen]
    BY <1>2
  <2>2. QED
    BY <1>6, <1>9, <1>10, <1>13, <1>14, <1>15, <2>1 DEF ProgressType
<1>17. ASSUME NEW i \in 1..Len(request.analysts)
       PROVE  progress'.status[request.analysts[i]] = "in_progress" <=>
                /\ request.analysts[i] \notin progress'.sections
                /\ \A j \in 1..(i - 1) : request.analysts[j] \in progress'.sections
  <2>1. \A j \in 1..(i - 1) : request.analysts[j] \in Analysts
    BY TheChosen
  <2>2. request.analysts[i] \in Analysts
    BY TheChosen
  <2>3. progress'.status[request.analysts[i]] = shown[request.analysts[i]]
    BY <1>9, <1>10, <2>2
  <2>4. QED
    BY <1>6, <1>7, <1>10, <2>1, <2>2, <2>3
<1>18. /\ \A a \in Analysts : a \in progress'.sections <=>
            a \in progress.sections \/ (a \in Chosen /\ reports[a] # "")
       /\ \A a \in Analysts \ Chosen : progress'.status[a] = progress.status[a]
       /\ \A a \in Chosen : progress'.status[a] = "completed" <=> a \in progress'.sections
  <2>1. \A a \in Analysts : a \in progress'.sections <=>
            a \in progress.sections \/ (a \in Chosen /\ reports[a] # "")
    BY <1>5, <1>6, <1>10
  <2>2. \A a \in Analysts \ Chosen : progress'.status[a] = progress.status[a]
    BY <1>7, <1>9, <1>10
  <2>3. ASSUME NEW a \in Chosen
        PROVE  progress'.status[a] = "completed" <=> a \in progress'.sections
    <3>1. a \in Analysts /\ progress'.status[a] = shown[a]
      BY <1>4, <1>9, <1>10
    <3>2. QED
      BY <1>6, <1>7, <1>10, <3>1
  <2>4. QED
    BY <2>1, <2>2, <2>3
<1>19. /\ \A g \in Team : progress'.status[g] = "completed" =>
            debate.judge # "" \/ progress.status[g] = "completed"
       /\ progress'.status["Trader"] = "completed" =>
            trader # "" \/ progress.status["Trader"] = "completed"
       /\ \A g \in RiskTeam : progress'.status[g] = "completed" =>
            risk.judge # "" \/ progress.status[g] = "completed"
  <2>1. Team \cup {"Trader"} \cup RiskTeam \subseteq Agents \ Analysts
    BY TheAgents DEF Team, RiskTeam, RiskNodes, Analysts
  <2>2. QED
    BY <1>7, <1>9, <1>10, <2>1
<1>20. QED
  BY <1>9, <1>10, <1>12, <1>15, <1>16, <1>17, <1>18, <1>19

\* A call that is told now was made by the analyst at work; the agent shown at
\* work is the first one without a section, which is that analyst, or one whose
\* turn is over and whose report is empty.
LEMMA CallTold ==
    ASSUME EngineInv, ProgressInv, phase = "chunk", ~ Stale,
           NEW i \in DOMAIN messages, messages[i].calls, messages[i].id \notin progress.seen
    PROVE  \/ AgentFromStatus(progress) = messages[i].by
           \/ AgentFromStatus(progress) \in Past /\ reports[AgentFromStatus(progress)] = ""
<1>. DEFINE missing == {k \in 1..Len(request.analysts) :
                            request.analysts[k] \notin progress.sections}
            first == request.analysts[Min(missing)]
<1>1. Started /\ InStream
  BY DEF Started, InStream
<1>2. Reported /\ Written /\ Shown /\ Untold
  BY <1>1 DEF ProgressInv
<1>3. node = "tools" /\ messages[i].by = Who
  BY <1>2 DEF Untold
<1>4. /\ turn \in 1..Len(request.analysts) /\ Len(request.analysts) \in Nat
      /\ Past = {request.analysts[k] : k \in 1..(turn - 1)}
      /\ Who \in Analysts /\ reports[Who] = ""
  BY <1>1, <1>3, AtWork DEF AnalystNodes
<1>5. turn \in missing
  BY <1>2, <1>4 DEF Written, Who
<1>6. missing \in SUBSET Nat
  OBVIOUS
<1>7. Min(missing) \in missing /\ \A k \in missing : Min(missing) <= k
  BY <1>5, <1>6, Least
<1>8. PICK n \in 1..Len(request.analysts) : n = Min(missing)
  BY <1>7
<1>9. PICK top \in Nat : top = Len(request.analysts)
  BY <1>4
<1>10. turn \in 1..top /\ n \in 1..top
  BY <1>4, <1>9
<1>11. /\ request.analysts[n] \notin progress.sections
      /\ \A k \in 1..(n - 1) : request.analysts[k] \in progress.sections
  <2>1. \A k \in 1..(n - 1) : k \in 1..top /\ ~ (n <= k)
    BY <1>10
  <2>2. QED
    BY <1>5, <1>7, <1>8, <1>9, <2>1
<1>12. DOMAIN request.analysts = 1..Len(request.analysts) /\ request.analysts[n] \in Analysts
  BY TheChosen
<1>13. progress.status[request.analysts[n]] = "in_progress"
  BY <1>2, <1>11, <1>12 DEF Shown
<1>14. ASSUME NEW b \in Analysts, progress.status[b] = "in_progress"
       PROVE  b = request.analysts[n]
  <2>1. PICK k \in 1..Len(request.analysts) : b = request.analysts[k]
    <3>1. b \in Chosen
      BY <1>2, <1>14 DEF Shown
    <3>2. QED
      BY <3>1, TheChosen
  <2>2. /\ request.analysts[k] \notin progress.sections
        /\ \A j \in 1..(k - 1) : request.analysts[j] \in progress.sections
    BY <1>2, <1>12, <1>14, <2>1 DEF Shown
  <2>3. k \in 1..top
    BY <1>9
  <2>4. n < k => n \in 1..(k - 1)
    BY <1>10, <2>3
  <2>5. k < n => k \in 1..(n - 1)
    BY <1>10, <2>3
  <2>6. ~ (n < k) /\ ~ (k < n)
    BY <1>11, <2>2, <2>4, <2>5
  <2>7. k = n
    BY <1>10, <2>3, <2>6
  <2>8. QED
    BY <2>1, <2>7
<1>15. AgentFromStatus(progress) = request.analysts[n]
  BY <1>12, <1>13, <1>14, AgentAtWork
<1>16. CASE n = turn
  BY <1>3, <1>15, <1>16 DEF Who
<1>17. CASE n # turn
  <2>1. n \in 1..(turn - 1)
    <3>1. n <= turn
      BY <1>5, <1>7, <1>8
    <3>2. QED
      BY <1>17, <1>10, <3>1
  <2>2. request.analysts[n] \in Past
    BY <1>4, <2>1
  <2>3. reports[request.analysts[n]] = ""
    BY <1>2, <1>3, <1>11, <1>12 DEF Written
  <2>4. QED
    BY <1>15, <2>2, <2>3
<1>18. QED
  BY <1>16, <1>17

LEMMA ProcessFollowed ==
    ASSUME EngineInv, ProgressInv, Process
    PROVE  ProgressInv'
<1>1. /\ phase = "chunk" /\ phase' = "stream"
      /\ UNCHANGED <<graphVars, attempt, resumed, spoke>>
      /\ Started /\ InStream /\ Started' /\ InStream'
  BY DEF Process, Goto, Started, InStream
<1>2. /\ ProgressTyped /\ Heard /\ Reported /\ Attributed /\ Written /\ Shown
      /\ Untold
  BY <1>1 DEF ProgressInv
<1>3. /\ Stale' = Stale /\ Chosen' = Chosen /\ Past' = Past /\ Who' = Who
  BY <1>1 DEF graphVars, Stale, Chosen, Past, Who
<1>4. ProgressTyped'
  BY <1>1, <1>2, Processed DEF ProgressTyped, graphVars
<1>5. Heard' /\ Reported'
  BY <1>1, <1>2, <1>3 DEF Heard, Reported, graphVars
<1>6. Written'
  <2>1. \A a \in Analysts : a \in progress'.sections <=>
            a \in progress.sections \/ (a \in Chosen /\ reports[a] # "")
    BY <1>1, <1>2, Processed
  <2>2. \A a \in Analysts : reports[a] # "" => a \in Chosen
    <3>1. Past \subseteq Chosen
      BY <1>1, AtWork DEF Past
    <3>2. node = "MsgClear" => Who \in Chosen
      BY <1>1, AtWork DEF AnalystNodes
    <3>3. QED
      BY <1>2, <3>1, <3>2 DEF Reported
  <2>3. QED
    BY <1>1, <1>2, <2>1, <2>2 DEF Written, graphVars
<1>7. Shown'
  <2>1. DOMAIN request.analysts = 1..Len(request.analysts)
    BY TheChosen
  <2>2. \A k \in 1..Len(request.analysts) : request.analysts[k] \in Chosen
    BY TheChosen
  <2>3. /\ \A a \in Analysts \ Chosen : progress'.status[a] = "pending"
        /\ \A k \in 1..Len(request.analysts) :
            /\ progress'.status[request.analysts[k]] = "completed" =>
                request.analysts[k] \in progress'.sections
            /\ progress'.status[request.analysts[k]] = "in_progress" <=>
                /\ request.analysts[k] \notin progress'.sections
                /\ \A j \in 1..(k - 1) : request.analysts[j] \in progress'.sections
    <3>1. ProgressTyped /\ \A a \in Analysts \ Chosen : progress.status[a] = "pending"
      BY <1>2 DEF Shown
    <3>2. /\ \A a \in Analysts \ Chosen : progress'.status[a] = progress.status[a]
          /\ \A a \in Chosen : progress'.status[a] = "completed" <=> a \in progress'.sections
          /\ \A k \in 1..Len(request.analysts) :
                progress'.status[request.analysts[k]] = "in_progress" <=>
                    /\ request.analysts[k] \notin progress'.sections
                    /\ \A j \in 1..(k - 1) : request.analysts[j] \in progress'.sections
      BY <1>1, <3>1, Processed
    <3>3. \A k \in 1..Len(request.analysts) :
            progress'.status[request.analysts[k]] = "completed" =>
                request.analysts[k] \in progress'.sections
      BY <2>2, <3>2
    <3>4. QED
      BY <3>1, <3>2, <3>3
  <2>4. /\ \A g \in Team : progress'.status[g] = "completed" => debate.judge # ""
        /\ progress'.status["Trader"] = "completed" => trader # "" \/ Stale
        /\ \A g \in RiskTeam : progress'.status[g] = "completed" => risk.judge # ""
    BY <1>1, <1>2, Processed DEF Shown
  <2>5. risk.judge # "" => node = "END"
    BY <1>2 DEF Heard
  <2>6. UNCHANGED <<request, debate, trader, risk, node>>
    BY <1>1 DEF graphVars
  <2>7. QED
    BY <1>1, <1>3, <2>1, <2>3, <2>4, <2>5, <2>6 DEF Shown
<1>8. Attributed'
  <2>1. progress'.tools = TellMessages(progress, Chunk) /\ Chunk.messages = messages
    BY <1>1, <1>2, Processed DEF Chunk
  <2>2. ASSUME NEW t \in progress'.tools, ~ Stale
        PROVE  t.shown = t.by \/ (t.shown \in Past /\ reports[t.shown] = "")
    <3>1. CASE t \in progress.tools
      BY <1>2, <2>2, <3>1 DEF Attributed
    <3>2. CASE t \notin progress.tools
      <4>1. PICK i \in DOMAIN messages :
                /\ messages[i].id \notin progress.seen /\ messages[i].calls
                /\ t = [id |-> messages[i].id, by |-> messages[i].by,
                        shown |-> AgentFromStatus(progress)]
        BY <2>1, <3>2 DEF TellMessages, Unseen
      <4>2. QED
        BY <1>1, <2>2, <4>1, CallTold
    <3>3. QED
      BY <3>1, <3>2
  <2>3. QED
    BY <1>1, <1>3, <2>2 DEF Attributed, graphVars
<1>9. Untold'
  <2>1. \A i \in DOMAIN messages : messages[i].id \in progress'.seen
    BY <1>1, <1>2, Processed
  <2>2. QED
    BY <1>1, <2>1 DEF Untold, graphVars
<1>10. QED
  BY <1>1, <1>4, <1>5, <1>6, <1>7, <1>8, <1>9 DEF ProgressInv

LEMMA BeginFollowed ==
    ASSUME EngineInv, EngineInv', ProgressInv, Begin
    PROVE  ProgressInv'
<1>1. /\ phase = "begin" /\ phase' = "chunk" /\ UNCHANGED <<request, attempt>>
      /\ InitialState(saved)
      /\ resumed' = saved
      /\ progress' = [NewProgress EXCEPT !.status[request.analysts[1]] = "in_progress"]
      /\ spoke' = {}
      /\ ~ Started /\ Started' /\ InStream'
  BY DEF Begin, Goto, InitialState, Started, InStream
<1>2. /\ node' = "Analyst" /\ turn' = 1
      /\ reports' = [a \in Analysts |-> ""]
      /\ debate'.judge = "" /\ risk'.judge = ""
  BY <1>1 DEF InitialState, NoDebate, NoRisk
<1>3. request.analysts # <<>>
  BY <1>1 DEF EngineInv
<1>4. Len(request.analysts) \in Nat /\ Len(request.analysts) >= 1
  BY <1>3, LengthType
<1>5. request.analysts[1] \in Chosen /\ request.analysts[1] \in Analysts
  BY <1>4, TheChosen
<1>6. /\ Analysts \subseteq Agents /\ Team \subseteq Agents \ Analysts
      /\ RiskTeam \subseteq Agents \ Analysts /\ "Trader" \in Agents \ Analysts
      /\ "PortfolioManager" \in Agents
  BY TheAgents DEF Analysts, Team, RiskTeam, RiskNodes
<1>7. /\ progress'.status = [g \in Agents |->
            IF g = request.analysts[1] THEN "in_progress" ELSE "pending"]
      /\ progress'.sections = {} /\ progress'.tools = {} /\ progress'.seen = {}
      /\ progress' \in ProgressType
  <2>1. NewProgress.status = [g \in Agents |-> "pending"]
    BY DEF NewProgress
  <2>2. progress' = [status |-> [NewProgress.status EXCEPT ![request.analysts[1]] = "in_progress"],
                     sections |-> {}, entries |-> [g \in Agents |-> NoAgent],
                     tools |-> {}, seen |-> {}]
    BY <1>1 DEF NewProgress
  <2>3. [NewProgress.status EXCEPT ![request.analysts[1]] = "in_progress"] =
            [g \in Agents |-> IF g = request.analysts[1] THEN "in_progress" ELSE "pending"]
    BY <1>5, <1>6, <2>1
  <2>4. QED
    BY <2>2, <2>3 DEF ProgressType, Statuses
<1>8. messages' \in Seq(MessageType) /\
        (~ saved => \A i \in DOMAIN messages' : messages'[i].calls = FALSE)
  <2>1. CASE saved
    <3>1. messages' = Append(messages, Message("human", "text", FALSE))
      BY <1>1, <2>1 DEF InitialState
    <3>2. made + 1 \in Nat
      BY StateType
    <3>3. Message("human", "text", FALSE) \in MessageType
      BY <3>2 DEF Message, MessageType, Voices, Texts
    <3>4. messages \in Seq(MessageType)
      BY DEF ProgressInv, ProgressTyped
    <3>5. QED
      BY <2>1, <3>1, <3>3, <3>4, Appended
  <2>2. CASE ~ saved
    <3>1. PICK m : m = [id |-> 1, by |-> "human", text |-> "text", calls |-> FALSE]
      OBVIOUS
    <3>2. m \in MessageType /\ m.calls = FALSE
      BY <3>1 DEF MessageType, Voices, Texts
    <3>3. messages' = <<m>>
      BY <1>1, <2>2, <3>1 DEF InitialState
    <3>4. QED
      BY <3>2, <3>3
  <2>3. QED
    BY <2>1, <2>2
<1>9. saved => Stale'
  BY <1>1 DEF Stale
<1>10. trader' = "" \/ saved
  BY <1>1 DEF InitialState
<1>11. Past' = {}
  <2>1. \A i \in 1..(turn' - 1) : FALSE
    <3>1. turn' = 1
      BY <1>2
    <3>2. QED
      BY <3>1
  <2>2. Past' = {request'.analysts[i] : i \in 1..(turn' - 1)}
    BY <1>2 DEF Past, AnalystNodes
  <2>3. QED
    BY <2>1, <2>2
<1>12. Heard' /\ Reported' /\ Attributed' /\ Written'
  BY <1>1, <1>2, <1>7, <1>9, <1>10, <1>11
    DEF Heard, Reported, Attributed, Written, AnalystNodes, RiskNodes
<1>13. Shown'
  <2>1. ASSUME NEW i \in 1..Len(request.analysts)
        PROVE  progress'.status[request.analysts[i]] = "in_progress" <=>
                \A j \in 1..(i - 1) : request.analysts[j] \in progress'.sections
    <3>1. request.analysts[i] \in Agents
      BY <1>6, TheChosen
    <3>2. request.analysts[i] = request.analysts[1] => i = 1
      BY <1>4, ChosenOnce
    <3>3. i # 1 => 1 \in 1..(i - 1)
      OBVIOUS
    <3>4. i = 1 => 1..(i - 1) = {}
      OBVIOUS
    <3>5. QED
      BY <1>7, <3>1, <3>2, <3>3, <3>4
  <2>2. \A g \in Agents : progress'.status[g] # "completed"
    BY <1>7
  <2>3. \A a \in Analysts \ Chosen : progress'.status[a] = "pending"
    BY <1>5, <1>6, <1>7
  <2>4. DOMAIN request.analysts = 1..Len(request.analysts)
        /\ \A i \in 1..Len(request.analysts) : request.analysts[i] \in Agents
    BY <1>6, TheChosen
  <2>5. QED
    BY <1>1, <1>6, <1>7, <2>1, <2>2, <2>3, <2>4 DEF Shown, Chosen
<1>14. Untold'
  BY <1>8, <1>9 DEF Untold
<1>15. QED
  BY <1>1, <1>7, <1>8, <1>12, <1>13, <1>14 DEF ProgressInv, ProgressTyped

\* Before a run starts and after it has failed nothing is shown of it.
LEMMA StoppedFollowed ==
    ASSUME EngineInv, ProgressInv,
           RefuseSelection \/ BuildGraph \/ ResolvePending \/ OutOfSteps \/ Fail \/ AskAgain
    PROVE  ProgressInv'
<1>1. ~ Started' /\ ~ InStream'
  BY DEF RefuseSelection, BuildGraph, ResolvePending, OutOfSteps, Fail, AskAgain, Goto, Started,
    InStream
<1>2. CASE OutOfSteps \/ Fail \/ AskAgain
  <2>1. progress' = NewProgress /\ (messages' = messages \/ messages' = <<>>)
    BY <1>2 DEF OutOfSteps, Fail, AskAgain, Forget
  <2>2. NewProgress \in ProgressType /\ NewProgress.tools = {}
    BY DEF NewProgress, ProgressType, Statuses
  <2>3. messages' \in Seq(MessageType)
    <3>1. messages \in Seq(MessageType) /\ <<>> \in Seq(MessageType)
      BY DEF ProgressInv, ProgressTyped
    <3>2. QED
      BY <2>1, <3>1
  <2>4. QED
    BY <1>1, <2>1, <2>2, <2>3 DEF ProgressInv, ProgressTyped
<1>3. CASE RefuseSelection \/ BuildGraph \/ ResolvePending
  <2>1. UNCHANGED <<messages, progress>> /\ ~ Started
    BY <1>3 DEF RefuseSelection, BuildGraph, ResolvePending, Goto, Started, graphVars
  <2>2. QED
    BY <1>1, <2>1 DEF ProgressInv, ProgressTyped
<1>4. QED
  BY <1>2, <1>3

\* When the stream has ended, nothing more is told.
LEMMA EndingFollowed ==
    ASSUME EngineInv, ProgressInv,
           Finish \/ StoreDecision \/ SaveReports \/ ClearCheckpoint \/ Announce
    PROVE  ProgressInv'
<1>1. /\ Started /\ Started' /\ ~ InStream'
      /\ UNCHANGED <<graphVars, resumed, spoke>>
  BY DEF Finish, StoreDecision, SaveReports, ClearCheckpoint, Announce, Goto, Started, InStream
<1>2. progress' \in ProgressType /\ progress'.tools = progress.tools
  <2>1. progress \in ProgressType
    BY DEF ProgressInv, ProgressTyped
  <2>2. CASE Finish
    <3>1. progress' = [progress EXCEPT !.status = Set(progress.status, Agents, "completed")]
      BY <2>2 DEF Finish
    <3>2. Set(progress.status, Agents, "completed") \in [Agents -> Statuses]
      BY DEF Set, Statuses
    <3>3. QED
      BY <2>1, <3>1, <3>2 DEF ProgressType
  <2>3. CASE StoreDecision \/ SaveReports \/ ClearCheckpoint \/ Announce
    BY <2>1, <2>3 DEF StoreDecision, SaveReports, ClearCheckpoint, Announce
  <2>4. QED
    BY <2>2, <2>3
<1>3. /\ Stale' = Stale /\ Past' = Past /\ Who' = Who
  BY <1>1 DEF graphVars, Stale, Chosen, Past, Who
<1>4. ProgressTyped'
  BY <1>1, <1>2 DEF ProgressInv, ProgressTyped, graphVars
<1>5. Heard' /\ Reported' /\ Attributed'
  BY <1>1, <1>2, <1>3 DEF ProgressInv, Heard, Reported, Attributed, graphVars
<1>6. QED
  BY <1>1, <1>4, <1>5 DEF ProgressInv

-----------------------------------------------------------------------------
(* The theorems                                                             *)

\* The invariant of what is shown of a run.
THEOREM ProgressInvariant == Spec => []ProgressInv
<1>1. Init => ProgressInv
  <2>1. SUFFICES ASSUME Init PROVE ProgressInv
    OBVIOUS
  <2>2. ~ Started /\ ~ InStream /\ progress = NewProgress /\ messages = <<>>
    BY <2>1 DEF Init, Started, InStream
  <2>3. NewProgress \in ProgressType /\ NewProgress.tools = {}
    BY DEF NewProgress, ProgressType, Statuses
  <2>4. <<>> \in Seq(MessageType)
    OBVIOUS
  <2>5. QED
    BY <2>2, <2>3, <2>4 DEF ProgressInv, ProgressTyped
<1>2. EngineInv /\ EngineInv' /\ ProgressInv /\ [Next]_vars => ProgressInv'
  <2>1. SUFFICES ASSUME EngineInv, EngineInv', ProgressInv, [Next]_vars
                 PROVE  ProgressInv'
    OBVIOUS
  <2>2. CASE Next
    BY <2>1, <2>2, BeginFollowed, ProcessFollowed, AdvanceFollowed, StoppedFollowed,
      EndingFollowed DEF Next
  <2>3. CASE UNCHANGED vars
    <3>1. UNCHANGED <<request, node, turn, messages, reports, debate, trader, risk,
                      phase, resumed, progress, spoke>>
      BY <2>3 DEF vars, graphVars, runVars
    <3>2. /\ Past' = Past /\ Who' = Who /\ Chosen' = Chosen /\ Stale' = Stale
          /\ Started' = Started /\ InStream' = InStream
      BY <3>1 DEF Past, Who, Chosen, Stale, Started, InStream
    <3>3. /\ ProgressTyped' = ProgressTyped /\ Heard' = Heard
          /\ Reported' = Reported
      BY <3>1, <3>2 DEF ProgressTyped, Heard, Reported
    <3>4. /\ Attributed' = Attributed /\ Written' = Written /\ Shown' = Shown
          /\ Untold' = Untold
      BY <3>1, <3>2 DEF Attributed, Written, Shown, Untold
    <3>5. QED
      BY <2>1, <3>1, <3>2, <3>3, <3>4 DEF ProgressInv
  <2>4. QED
    BY <2>1, <2>2, <2>3
<1>3. QED
  BY <1>1, <1>2, Invariant, PTL DEF Spec

\* An agent shown as completed while a run goes on has done its part in this
\* attempt.
THEOREM ShownAgentsAreDone == Spec => []ShownIsDone
<1>1. EngineInv /\ ProgressInv => ShownIsDone
  <2>1. SUFFICES ASSUME EngineInv, ProgressInv, phase \in {"chunk", "stream"},
                        NEW g \in Agents, progress.status[g] = "completed"
                 PROVE  Done(g) \/ (g = "Trader" /\ Stale)
    BY DEF ShownIsDone
  <2>2. Started /\ InStream
    BY <2>1 DEF Started, InStream
  <2>3. Heard /\ Reported /\ Written /\ Shown
    BY <2>1, <2>2 DEF ProgressInv
  <2>4. /\ g \in Analysts \/ g \in Team \/ g = "Trader" \/ g \in RiskTeam
        /\ Analysts \cap (Team \cup {"Trader"} \cup RiskTeam) = {}
        /\ Team \cap ({"Trader"} \cup RiskTeam) = {} /\ "Trader" \notin RiskTeam
    BY TheAgents DEF Analysts, Team, RiskTeam, RiskNodes
  <2>5. CASE g \in Analysts
    <3>1. g \in Chosen
      BY <2>1, <2>3, <2>5 DEF Shown
    <3>2. PICK i \in DOMAIN request.analysts : g = request.analysts[i]
      BY <2>1, <3>1, TheChosen
    <3>3. reports[g] # ""
      BY <2>1, <2>3, <2>5, <3>2 DEF Shown, Written
    <3>4. g \in spoke
      BY <2>3, <2>5, <3>3 DEF Reported
    <3>5. QED
      BY <2>4, <2>5, <3>3, <3>4 DEF Done
  <2>6. CASE g \in Team
    <3>1. debate.judge # ""
      BY <2>1, <2>3, <2>6 DEF Shown
    <3>2. node \in {"Trader", "END"} \cup RiskNodes
      BY <2>3, <3>1 DEF Heard
    <3>3. "BullResearcher" \in spoke /\ "ResearchManager" \in spoke
      BY <2>3, <3>2 DEF Heard, AnalystNodes, RiskNodes
    <3>4. QED
      BY <2>4, <2>6, <3>1, <3>3 DEF Done, Team
  <2>7. CASE g = "Trader"
    BY <2>1, <2>3, <2>4, <2>7 DEF Shown, Heard, Done
  <2>8. CASE g \in RiskTeam
    BY <2>1, <2>3, <2>4, <2>8 DEF Shown, Heard, Done
  <2>9. QED
    BY <2>4, <2>5, <2>6, <2>7, <2>8
<1>2. QED
  BY <1>1, Invariant, ProgressInvariant, PTL

\* No agent goes from completed back to work within an attempt, although every
\* chunk derives the statuses anew.
THEOREM NoAgentStepsBack == Spec => NoStepBack
<1>1. EngineInv /\ ProgressInv /\ [Next]_vars =>
        [phase = "chunk" /\ phase' = "stream" =>
            \A g \in Agents : progress.status[g] = "completed" =>
                progress'.status[g] = "completed" \/ (g = "Trader" /\ Stale)]_vars
  <2>1. SUFFICES ASSUME EngineInv, ProgressInv, Next, phase = "chunk", phase' = "stream",
                        NEW g \in Agents, progress.status[g] = "completed"
                 PROVE  progress'.status[g] = "completed" \/ (g = "Trader" /\ Stale)
    BY DEF vars
  <2>2. Process
    BY <2>1 DEF Next, RefuseSelection, BuildGraph, ResolvePending, Begin, Advance, OutOfSteps,
      Finish, StoreDecision, SaveReports, ClearCheckpoint, Announce, Fail, AskAgain, Goto
  <2>3. InStream /\ ProgressTyped /\ Shown
    BY <2>1 DEF ProgressInv, InStream
  <2>4. g \in Analysts \/ g \in Team \/ g = "Trader" \/ g \in RiskTeam
    BY TheAgents
  <2>5. CASE g \in Analysts
    <3>1. g \in Chosen
      BY <2>1, <2>3, <2>5 DEF Shown
    <3>2. PICK i \in DOMAIN request.analysts : g = request.analysts[i]
      BY <2>1, <3>1, TheChosen
    <3>3. g \in progress.sections
      BY <2>1, <2>3, <3>2 DEF Shown
    <3>4. g \in progress'.sections
      BY <2>1, <2>2, <2>3, <2>5, <3>3, Processed
    <3>5. QED
      BY <2>1, <2>2, <2>3, <3>1, <3>4, Processed
  <2>6. CASE g \in Team
    BY <2>1, <2>2, <2>3, <2>6, Processed DEF Shown
  <2>7. CASE g = "Trader"
    BY <2>1, <2>2, <2>3, <2>7, Processed DEF Shown
  <2>8. CASE g \in RiskTeam
    BY <2>1, <2>3, <2>8 DEF Shown
  <2>9. QED
    BY <2>4, <2>5, <2>6, <2>7, <2>8
<1>2. QED
  BY <1>1, Invariant, ProgressInvariant, PTL DEF Spec, NoStepBack

\* A tool call is put down to the analyst who made it, or to one before it
\* whose report is empty.
THEOREM ToolCallsAreAttributed == Spec => []ToolsAttributed
<1>1. EngineInv /\ ProgressInv => ToolsAttributed
  <2>1. SUFFICES ASSUME EngineInv, ProgressInv, NEW t \in progress.tools, ~ Stale,
                        t.shown # t.by
                 PROVE  t.shown \in Analysts \cap spoke /\ reports[t.shown] = ""
    BY DEF ToolsAttributed
  <2>2. Started /\ Reported /\ Attributed
    BY <2>1 DEF ProgressInv
  <2>3. Past \subseteq Analysts
    BY <2>1, <2>2, AtWork, TheChosen DEF Past
  <2>4. QED
    BY <2>1, <2>2, <2>3 DEF Attributed, Reported
<1>2. QED
  BY <1>1, Invariant, ProgressInvariant, PTL

\* The verdict takes the place of the debate in the manager's entry.
THEOREM VerdictIsShown == Spec => []VerdictShown
<1>1. Init => VerdictShown
  BY DEF Init, VerdictShown
<1>2. EngineInv /\ ProgressInv /\ VerdictShown /\ [Next]_vars => VerdictShown'
  <2>1. SUFFICES ASSUME EngineInv, ProgressInv, VerdictShown, [Next]_vars, phase' = "stream",
                        risk'.judge # ""
                 PROVE  progress'.entries["PortfolioManager"] = "PortfolioManager"
    BY DEF VerdictShown
  <2>2. CASE Process
    <3>1. phase = "chunk" /\ risk' = risk
      BY <2>2 DEF Process, Goto, graphVars
    <3>2. QED
      BY <2>1, <2>2, <3>1, Processed DEF ProgressInv
  <2>3. CASE UNCHANGED vars
    BY <2>1, <2>3 DEF VerdictShown, vars, graphVars, runVars
  <2>4. QED
    BY <2>1, <2>2, <2>3 DEF Next, RefuseSelection, BuildGraph, ResolvePending, Begin, Advance,
      OutOfSteps, Finish, StoreDecision, SaveReports, ClearCheckpoint, Announce, Fail, AskAgain,
      Goto
<1>3. QED
  BY <1>1, <1>2, Invariant, ProgressInvariant, PTL DEF Spec
=============================================================================
