---------------------------- MODULE RunProgress ----------------------------
(***************************************************************************)
(* What the analysis room is told about a run (ax_engine/progress.py):     *)
(* from every chunk of the stream, the whole state of the graph, the       *)
(* runner derives the statuses of the agents, the sections of the report   *)
(* and a timeline.  p is a RunProgress, c a chunk, sel the analysts        *)
(* selected, in the order they run.                                        *)
(***************************************************************************)
EXTENDS Integers, Sequences, FiniteSetsExt

ANALYST_ORDER == <<"market", "social", "news", "fundamentals">>
Team == {"BullResearcher", "BearResearcher", "ResearchManager"}
RiskTeam == {"AggressiveAnalyst", "ConservativeAnalyst", "NeutralAnalyst",
             "PortfolioManager"}
Selectable == {ANALYST_ORDER[i] : i \in 1..Len(ANALYST_ORDER)}
Agents == Selectable \cup Team \cup {"Trader"} \cup RiskTeam
AgentOrder == ANALYST_ORDER \o
    <<"BullResearcher", "BearResearcher", "ResearchManager", "Trader",
      "AggressiveAnalyst", "ConservativeAnalyst", "NeutralAnalyst", "PortfolioManager">>
Statuses == {"pending", "in_progress", "completed"}
NoAgent == "Agent"

\* entries[g] says whose words stand in the entry of agent g on the timeline.
NewProgress ==
    [status |-> [g \in Agents |-> "pending"],
     sections |-> {},
     entries |-> [g \in Agents |-> NoAgent],
     tools |-> {},
     seen |-> {}]

\* status with every agent of G set to s
Set(status, G, s) == [g \in Agents |-> IF g \in G THEN s ELSE status[g]]

\* Mutant: the first agent that is not done.
AgentFromStatus_NotDone(p) ==
    LET left == {i \in DOMAIN AgentOrder : p.status[AgentOrder[i]] # "completed"}
    IN  IF left = {} THEN NoAgent ELSE AgentOrder[Min(left)]

\* The first agent shown at work: whom a tool call is put down to.
AgentFromStatus(p) ==
    LET busy == {i \in DOMAIN AgentOrder : p.status[AgentOrder[i]] = "in_progress"}
    IN  IF busy = {} THEN NoAgent ELSE AgentOrder[Min(busy)]

\* Messages are told once, by their id.
Unseen(p, c) == {i \in DOMAIN c.messages : c.messages[i].id \notin p.seen}

\* Of a reply with tool calls each call goes on the timeline.
TellMessages(p, c) ==
    p.tools \cup {[id |-> c.messages[i].id, by |-> c.messages[i].by,
                   shown |-> AgentFromStatus(p)] :
                  i \in {j \in Unseen(p, c) : c.messages[j].calls}}

Selected(sel) == {sel[k] : k \in DOMAIN sel}

\* The sections once the reports of the chunk are written into them.
WriteReports(sections, c, sel) == sections \cup {a \in Selected(sel) : c.reports[a] # ""}

\* The first of the analysts, in their order, that has no report yet is at work.
UpdateAnalystStatuses(status, written, sel) ==
    LET open == {i \in DOMAIN ANALYST_ORDER :
                    ANALYST_ORDER[i] \in Selected(sel) /\ ANALYST_ORDER[i] \notin written}
    IN  [g \in Agents |->
            IF g \in Selected(sel)
            THEN IF g \in written THEN "completed"
                 ELSE IF g = ANALYST_ORDER[Min(open)] THEN "in_progress" ELSE "pending"
            ELSE IF g = "BullResearcher" /\ open = {} /\ status[g] = "pending"
                 THEN "in_progress"
            ELSE status[g]]

ResearchStatuses(status, d) ==
    IF d.judge # ""
    THEN Set(Set(status, Team, "completed"), {"Trader"}, "in_progress")
    ELSE IF d.bull + d.bear > 0 THEN Set(status, Team, "in_progress")
    ELSE status

\* Mutant: the trader is marked only as long as its successor waits.
TraderStatuses_Once(status, plan) ==
    IF plan # "" /\ status["AggressiveAnalyst"] = "pending"
    THEN Set(Set(status, {"Trader"}, "completed"), {"AggressiveAnalyst"}, "in_progress")
    ELSE status

TraderStatuses(status, plan) ==
    IF plan # "" /\ status["Trader"] # "completed"
    THEN Set(Set(status, {"Trader"}, "completed"), {"AggressiveAnalyst"}, "in_progress")
    ELSE status

\* Mutant: the risk team is done when its last member has spoken.
RiskStatuses_Early(status, r) ==
    IF r.neutral > 0
    THEN Set(status, RiskTeam, "completed")
    ELSE status

RiskStatuses(status, r) ==
    LET spoken == {g \in RiskTeam :
                    \/ g = "AggressiveAnalyst" /\ r.aggressive > 0
                    \/ g = "ConservativeAnalyst" /\ r.conservative > 0
                    \/ g = "NeutralAnalyst" /\ r.neutral > 0}
    IN  IF r.judge # "" /\ status["PortfolioManager"] # "completed"
        THEN Set(status, RiskTeam, "completed")
        ELSE Set(status, {g \in spoken : status[g] # "completed"}, "in_progress")

\* update_report_section, for the sections that are not an analyst's: the risk
\* team's arguments go into the section of the final decision.
WriteSections(sections, c) ==
    sections
        \cup {s \in {"investment_plan"} : c.debate.bull + c.debate.bear > 0 \/ c.debate.judge # ""}
        \cup {s \in {"trader_investment_plan"} : c.trader # ""}
        \cup {s \in {"final_trade_decision"} : c.risk.count > 0 \/ c.risk.judge # ""}

\* The agents whose entry a chunk writes anew.
Speakers(sections, c, sel) ==
    (Selected(sel) \cap sections)
        \cup {g \in {"BullResearcher"} : c.debate.bull > 0}
        \cup {g \in {"BearResearcher"} : c.debate.bear > 0}
        \cup {g \in {"ResearchManager"} : c.debate.judge # ""}
        \cup {g \in {"Trader"} : c.trader # "" \/ "trader_investment_plan" \in sections}
        \cup {g \in {"AggressiveAnalyst"} : c.risk.aggressive > 0}
        \cup {g \in {"ConservativeAnalyst"} : c.risk.conservative > 0}
        \cup {g \in {"NeutralAnalyst"} : c.risk.neutral > 0}
        \cup {g \in {"PortfolioManager"} : \/ c.risk.judge # ""
                                           \/ c.final # ""
                                           \/ "final_trade_decision" \in sections}

\* As long as there is no verdict, the portfolio manager's entry takes the
\* section of the final decision, which begins with the words of the first risk
\* analyst.
Author(g, c) ==
    IF g = "PortfolioManager" /\ c.risk.judge = "" /\ c.final = ""
    THEN "AggressiveAnalyst" ELSE g

\* Mutant: an entry that is there is not replaced.
SyncDebateTimeline_KeepsFirst(entries, sections, c, sel) ==
    [g \in Agents |->
        IF g \in Speakers(sections, c, sel) /\ entries[g] = NoAgent
        THEN Author(g, c) ELSE entries[g]]

SyncDebateTimeline(entries, sections, c, sel) ==
    [g \in Agents |-> IF g \in Speakers(sections, c, sel) THEN Author(g, c) ELSE entries[g]]

ProcessStreamChunk(p, c, sel) ==
    LET written == WriteReports(p.sections, c, sel)
        status == UpdateAnalystStatuses(p.status, written, sel)
        sections == WriteSections(written, c)
    IN  [status |-> RiskStatuses(
                        TraderStatuses(ResearchStatuses(status, c.debate), c.trader), c.risk),
         sections |-> sections,
         entries |-> SyncDebateTimeline(p.entries, sections, c, sel),
         tools |-> TellMessages(p, c),
         seen |-> p.seen \cup {c.messages[i].id : i \in Unseen(p, c)}]

=============================================================================
