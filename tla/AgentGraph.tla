----------------------------- MODULE AgentGraph -----------------------------
(***************************************************************************)
(* The graph of agents that one analysis runs through                      *)
(* (services/ai_server/tradingagents/graph and agents): the analysts in    *)
(* turn, each with its tools, the research debate, the trader, the risk    *)
(* debate and the portfolio manager.  A reply of a language model is       *)
(* "text" or empty; of a debater's history only the number of turns is     *)
(* kept.  The engine (LangGraph) runs one node per superstep and merges    *)
(* what the node returns into the state.  The runner of EngineRun drives   *)
(* these actions; a model or tool that raises is an action there.          *)
(***************************************************************************)
EXTENDS Integers, Sequences

CONSTANTS
    Requests,       \* the runs that may be asked for
    RecursionLimit  \* max_recur_limit (100)

Analysts == {"market", "social", "news", "fundamentals"}

ASSUME AgentGraphAssumption ==
    /\ RecursionLimit \in Nat
    /\ \A r \in Requests :
        /\ r.analysts \in Seq(Analysts)
        /\ r.debate \in Nat
        /\ r.risk \in Nat
        /\ r.checkpoint \in BOOLEAN

VARIABLES
    request,    \* analysts, rounds of the two debates, checkpoint_enabled
    node,       \* the node of the next superstep
    turn,       \* which of request.analysts it belongs to
    steps,      \* supersteps of this run
    rounds,     \* history: rounds of tool calls of this run
    made,       \* messages of this thread so far, for their ids
    messages,   \* state["messages"]
    reports,    \* state["market_report"] and the other three
    debate,     \* state["investment_debate_state"]
    trader,     \* state["trader_investment_plan"]
    risk,       \* state["risk_debate_state"]
    final       \* state["final_trade_decision"]

graphVars == <<request, node, turn, steps, rounds, made, messages, reports,
               debate, trader, risk, final>>

Texts == {"", "text"}
\* The nodes, named as the graph names them but without blanks.
DebateNodes == {"BullResearcher", "BearResearcher", "ResearchManager"}
RiskNodes == {"AggressiveAnalyst", "ConservativeAnalyst", "NeutralAnalyst",
              "PortfolioManager"}
Nodes == {"Analyst", "tools", "MsgClear", "Trader", "END"} \cup DebateNodes \cup RiskNodes

InvestDebateState == [bull : Nat, bear : Nat, current : {"", "Bull", "Bear", "text"},
                      judge : Texts, count : Nat]
RiskDebateState == [aggressive : Nat, conservative : Nat, neutral : Nat,
                    latest : {"", "Aggressive", "Conservative", "Neutral", "Judge"},
                    judge : Texts, count : Nat]
NoDebate == [bull |-> 0, bear |-> 0, current |-> "", judge |-> "", count |-> 0]
NoRisk == [aggressive |-> 0, conservative |-> 0, neutral |-> 0,
           latest |-> "", judge |-> "", count |-> 0]

Message(by, text, calls) == [id |-> made + 1, by |-> by, text |-> text, calls |-> calls]
Who == request.analysts[turn]

\* The state a run begins with.  With a checkpointer the thread's channels are
\* still there: messages are added to, what the input does not name stays.
InitialState(kept) ==
    /\ node' = "Analyst" /\ turn' = 1 /\ steps' = 0 /\ rounds' = 0
    /\ reports' = [a \in Analysts |-> ""]
    /\ debate' = NoDebate
    /\ risk' = NoRisk
    /\ IF kept
       THEN /\ messages' = Append(messages, Message("human", "text", FALSE))
            /\ made' = made + 1
            /\ UNCHANGED <<trader, final>>
       ELSE /\ messages' = <<[id |-> 1, by |-> "human", text |-> "text", calls |-> FALSE]>>
            /\ made' = 1
            /\ trader' = ""
            /\ final' = ""
    /\ UNCHANGED request

-----------------------------------------------------------------------------
(* Routing                                                                  *)

ShouldContinueAnalyst(last) == IF last.calls THEN "tools" ELSE "MsgClear"

\* Mutant: the edge to the next analyst is forgotten.
AfterClear_Last == "BullResearcher"

AfterClear == IF turn < Len(request.analysts) THEN "Analyst" ELSE "BullResearcher"

\* Mutant: one turn too few when the rounds are compared.
ShouldContinueDebate_Short(d) ==
    IF d.count + 1 >= 2 * request.debate THEN "ResearchManager"
    ELSE IF d.current = "Bull" THEN "BearResearcher" ELSE "BullResearcher"

ShouldContinueDebate(d) ==
    IF d.count >= 2 * request.debate THEN "ResearchManager"
    ELSE IF d.current = "Bull" THEN "BearResearcher" ELSE "BullResearcher"

ShouldContinueRisk(r) ==
    IF r.count >= 3 * request.risk THEN "PortfolioManager"
    ELSE IF r.latest = "Aggressive" THEN "ConservativeAnalyst"
    ELSE IF r.latest = "Conservative" THEN "NeutralAnalyst"
    ELSE "AggressiveAnalyst"

\* One superstep of the engine, which leads to node n.
Superstep(n) ==
    /\ steps < RecursionLimit
    /\ steps' = steps + 1
    /\ node' = n

-----------------------------------------------------------------------------
(* The nodes                                                                *)

\* invoke_structured_or_freetext: a structured result is rendered, anything
\* else is asked for once more as free text, which may be empty.
StructuredOrFreeText == {"text"} \cup Texts

\* An analyst's turn: a reply with tool calls leaves the report empty, one
\* without is the report.
Reports(a, text, calls) ==
    LET reply == Message(a, text, calls) IN
    /\ node = "Analyst"
    /\ Who = a
    /\ messages' = Append(messages, reply)
    /\ made' = made + 1
    /\ reports' = [reports EXCEPT ![a] = IF calls THEN "" ELSE text]
    /\ Superstep(ShouldContinueAnalyst(reply))
    /\ UNCHANGED <<request, turn, rounds, debate, trader, risk, final>>

MarketAnalyst == \E text \in Texts, calls \in BOOLEAN : Reports("market", text, calls)
NewsAnalyst == \E text \in Texts, calls \in BOOLEAN : Reports("news", text, calls)
FundamentalsAnalyst == \E text \in Texts, calls \in BOOLEAN : Reports("fundamentals", text, calls)

\* Its data is fetched beforehand, it has no tools to call.
SentimentAnalyst == \E text \in StructuredOrFreeText : Reports("social", text, FALSE)

\* ToolNode answers the calls of the last message.
Tools ==
    /\ node = "tools"
    /\ messages' = Append(messages, Message("tool", "text", FALSE))
    /\ made' = made + 1
    /\ rounds' = rounds + 1
    /\ Superstep("Analyst")
    /\ UNCHANGED <<request, turn, reports, debate, trader, risk, final>>

\* create_msg_delete: every message goes, a placeholder takes their place.
MsgClear ==
    /\ node = "MsgClear"
    /\ messages' = <<Message("human", "text", FALSE)>>
    /\ made' = made + 1
    /\ turn' = IF turn < Len(request.analysts) THEN turn + 1 ELSE turn
    /\ Superstep(AfterClear)
    /\ UNCHANGED <<request, rounds, reports, debate, trader, risk, final>>

Argues(d) ==
    /\ debate' = d
    /\ Superstep(ShouldContinueDebate(d))
    /\ UNCHANGED <<request, turn, rounds, made, messages, reports, trader, risk, final>>

BullResearcher ==
    /\ node = "BullResearcher"
    /\ Argues([bull |-> debate.bull + 1, bear |-> debate.bear, current |-> "Bull",
               judge |-> "", count |-> debate.count + 1])

BearResearcher ==
    /\ node = "BearResearcher"
    /\ Argues([bull |-> debate.bull, bear |-> debate.bear + 1, current |-> "Bear",
               judge |-> "", count |-> debate.count + 1])

ResearchManager ==
    /\ node = "ResearchManager"
    /\ \E text \in StructuredOrFreeText :
        debate' = [bull |-> debate.bull, bear |-> debate.bear, current |-> text,
                   judge |-> text, count |-> debate.count]
    /\ Superstep("Trader")
    /\ UNCHANGED <<request, turn, rounds, made, messages, reports, trader, risk, final>>

Trader ==
    /\ node = "Trader"
    /\ \E text \in StructuredOrFreeText :
        /\ trader' = text
        /\ messages' = Append(messages, Message("Trader", text, FALSE))
    /\ made' = made + 1
    /\ Superstep("AggressiveAnalyst")
    /\ UNCHANGED <<request, turn, rounds, reports, debate, risk, final>>

\* The risk debate after one more argument; the judge's field is dropped.
Spoken(a, c, n, label) ==
    [aggressive |-> risk.aggressive + a, conservative |-> risk.conservative + c,
     neutral |-> risk.neutral + n, latest |-> label, judge |-> "", count |-> risk.count + 1]

Weighs(r) ==
    /\ risk' = r
    /\ Superstep(ShouldContinueRisk(r))
    /\ UNCHANGED <<request, turn, rounds, made, messages, reports, debate, trader, final>>

Aggressive ==
    /\ node = "AggressiveAnalyst"
    /\ Weighs(Spoken(1, 0, 0, "Aggressive"))

Conservative ==
    /\ node = "ConservativeAnalyst"
    /\ Weighs(Spoken(0, 1, 0, "Conservative"))

\* Mutant: the label of the speaker has drifted.
Neutral_LongLabel ==
    /\ node = "NeutralAnalyst"
    /\ Weighs(Spoken(0, 0, 1, "NeutralAnalyst"))

Neutral ==
    /\ node = "NeutralAnalyst"
    /\ Weighs(Spoken(0, 0, 1, "Neutral"))

PortfolioManager ==
    /\ node = "PortfolioManager"
    /\ \E text \in StructuredOrFreeText :
        /\ final' = text
        /\ risk' = [aggressive |-> risk.aggressive, conservative |-> risk.conservative,
                     neutral |-> risk.neutral, latest |-> "Judge", judge |-> text,
                     count |-> risk.count]
    /\ Superstep("END")
    /\ UNCHANGED <<request, turn, rounds, made, messages, reports, debate, trader>>

GraphStep ==
    \/ MarketAnalyst \/ SentimentAnalyst \/ NewsAnalyst \/ FundamentalsAnalyst
    \/ Tools \/ MsgClear
    \/ BullResearcher \/ BearResearcher \/ ResearchManager
    \/ Trader
    \/ Aggressive \/ Conservative \/ Neutral \/ PortfolioManager

=============================================================================
