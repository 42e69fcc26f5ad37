-------------------------- MODULE MarketData_proofs --------------------------
(***************************************************************************)
(* Proofs about MarketData: what the router says was earned by the vendors *)
(* of the run, what is shown is not of the future, and prices are current. *)
(***************************************************************************)
EXTENDS MarketData, TLAPS

Files == [rows : SUBSET Days, at : 0..MaxTick, mtime : 0..MaxTick, whole : BOOLEAN,
          opener : Threads \cup {"nobody"}]

\* The values of the variables, but for the configuration's and the answer's.
Typed ==
    /\ now \in 0..MaxTick /\ calls \in 0..MaxCalls /\ share \in BOOLEAN
    /\ deployed \in Deployments
    /\ file \in [Days -> Files]
    /\ call \in [Threads -> Loads \cup {Idle}]

\* The process's configuration is the one of its run.
Settled == config = RunConfig(share)

\* A file with rows was written on its day or later.
Written == \A d \in Days : file[d].rows # {} => d * DayTicks <= file[d].at

\* A call that loads stays before the day asked for, in bulk at it; its file is
\* not of a day to come; its frame is not older than that day, and one that has
\* just been downloaded not older than the question.
Sane(c) ==
    /\ c.day <= c.date /\ (c.bulk => c.day = c.date) /\ \A r \in c.got : r <= c.date
    /\ c.key * DayTicks <= now
    /\ c.pc \in {"age", "write", "close"} => c.key * DayTicks <= c.frame.at /\ c.asked <= now
    /\ c.pc \in {"write", "close"} => c.asked <= c.frame.mtime /\ c.key * DayTicks <= file[c.key].at
Loaded == \A p \in Threads : Loading(p) => Sane(call[p])

IInv == Typed /\ Settled /\ Written /\ Loaded

(* --------------------------- days and methods -------------------------- *)

\* The clock's day begins no later than the clock stands, and is one of Days.
LEMMA Clock ==
    ASSUME now \in 0..MaxTick
    PROVE  /\ Today \in Days /\ Today \in Nat /\ Today * DayTicks <= now
           /\ 0..Today \subseteq Days
<1>1. now \in Nat /\ MaxTick \in Nat /\ DayTicks \in Nat /\ DayTicks > 0 /\ now <= MaxTick
  BY MarketAssumption
<1>2. Today \in Nat /\ Today * DayTicks <= now
  BY <1>1 DEF Today
<1>3. Today <= MaxTick \div DayTicks /\ MaxTick \div DayTicks \in Nat
  BY <1>1 DEF Today
<1>4. QED
  BY <1>2, <1>3 DEF Days

LEMMA DaysAreNumbers == Days \subseteq Nat /\ \A d \in Days : 0..d \subseteq Days
<1>1. MaxTick \div DayTicks \in Nat
  BY MarketAssumption
<1>2. QED
  BY <1>1 DEF Days

\* A bar of a day before another is final when that other day begins.
LEMMA FinalBars ==
    ASSUME NEW r \in Nat, NEW d \in Nat, r < d
    PROVE  d * DayTicks >= r * DayTicks + CloseTick
  BY MarketAssumption

LEMMA MethodsAre ==
    Methods = {"get_stock_data", "get_indicators", "get_fundamentals", "get_balance_sheet",
               "get_cashflow", "get_income_statement", "get_news", "get_global_news",
               "get_insider_transactions", "get_macro_indicators", "get_prediction_markets"}
<1>1. /\ ToolsOf("core_stock_apis") = {"get_stock_data"}
      /\ ToolsOf("technical_indicators") = {"get_indicators"}
      /\ ToolsOf("fundamental_data") = {"get_fundamentals"} \cup Statements
      /\ ToolsOf("news_data") = {"get_news", "get_global_news", "get_insider_transactions"}
      /\ ToolsOf("macro_data") = {"get_macro_indicators"}
      /\ ToolsOf("prediction_markets") = {"get_prediction_markets"}
  BY Zenon DEF ToolsOf
<1>2. Categories = {"core_stock_apis", "technical_indicators", "fundamental_data", "news_data",
                    "macro_data", "prediction_markets"}
  BY DEF Categories, AShareCategories, OptionalCategories
<1>3. Methods = UNION {ToolsOf("core_stock_apis"), ToolsOf("technical_indicators"),
                       ToolsOf("fundamental_data"), ToolsOf("news_data"),
                       ToolsOf("macro_data"), ToolsOf("prediction_markets")}
  BY <1>2 DEF Methods
<1>4. QED
  BY <1>1, <1>3 DEF Statements

\* A method's category is one that has it; the optional ones have one method each.
LEMMA Category ==
    ASSUME NEW m \in Methods
    PROVE  /\ CategoryOf(m) \in Categories
           /\ CategoryOf(m) \in OptionalCategories <=>
                 m \in {"get_macro_indicators", "get_prediction_markets"}
<1>1. \E c \in Categories : m \in ToolsOf(c)
  BY Zenon DEF Methods
<1>2. CategoryOf(m) \in Categories /\ m \in ToolsOf(CategoryOf(m))
  BY <1>1, Zenon DEF CategoryOf
<1>3. /\ ToolsOf("core_stock_apis") = {"get_stock_data"}
      /\ ToolsOf("technical_indicators") = {"get_indicators"}
      /\ ToolsOf("fundamental_data") = {"get_fundamentals"} \cup Statements
      /\ ToolsOf("news_data") = {"get_news", "get_global_news", "get_insider_transactions"}
      /\ ToolsOf("macro_data") = {"get_macro_indicators"}
      /\ ToolsOf("prediction_markets") = {"get_prediction_markets"}
  BY Zenon DEF ToolsOf
<1>4. QED
  BY <1>2, <1>3 DEF Categories, AShareCategories, OptionalCategories, Statements

\* The vendors that have a method.
LEMMA HavingIt ==
    ASSUME NEW m \in Methods
    PROVE  /\ VendorsOf(m) \in Seq(Vendors)
           /\ m = "get_macro_indicators" => ToSet(VendorsOf(m)) = {"fred"}
           /\ m = "get_prediction_markets" => ToSet(VendorsOf(m)) = {"polymarket"}
           /\ m \notin {"get_macro_indicators", "get_prediction_markets"} =>
                 ToSet(VendorsOf(m)) \subseteq {"alpha_vantage", "yfinance", "akshare"}
<1>. DEFINE base == CASE m = "get_macro_indicators" -> <<"fred">>
                      [] m = "get_prediction_markets" -> <<"polymarket">>
                      [] m = "get_global_news" -> <<"yfinance", "alpha_vantage">>
                      [] OTHER -> <<"alpha_vantage", "yfinance">>
<1>1. /\ m = "get_macro_indicators" => base = <<"fred">>
      /\ m = "get_prediction_markets" => base = <<"polymarket">>
      /\ m = "get_global_news" => base = <<"yfinance", "alpha_vantage">>
      /\ m \notin {"get_macro_indicators", "get_prediction_markets", "get_global_news"} =>
            base = <<"alpha_vantage", "yfinance">>
  BY Zenon
<1>2. VendorsOf(m) = RegisterVendors(m, base)
  BY Zenon DEF VendorsOf
<1>. HIDE DEF base
<1>3. CategoryOf(m) \in AShareCategories <=> m \notin {"get_macro_indicators", "get_prediction_markets"}
  <2>1. CategoryOf(m) \in Categories
    BY Category, Zenon
  <2>2. CategoryOf(m) \in OptionalCategories <=> m \in {"get_macro_indicators", "get_prediction_markets"}
    BY Category, Zenon
  <2>3. CategoryOf(m) \in AShareCategories <=> CategoryOf(m) \notin OptionalCategories
    BY <2>1 DEF Categories, AShareCategories, OptionalCategories
  <2>4. QED
    BY <2>2, <2>3, Zenon
<1>4. CASE m = "get_macro_indicators"
  <2>1. VendorsOf(m) = <<"fred">>
    BY <1>1, <1>2, <1>3, <1>4 DEF RegisterVendors
  <2>2. "fred" \in Vendors
    BY DEF Vendors
  <2>3. VendorsOf(m) \in Seq(Vendors)
    BY <2>1, <2>2
  <2>4. ToSet(VendorsOf(m)) = {"fred"}
    BY <2>1 DEF ToSet
  <2>5. QED
    BY <1>4, <2>3, <2>4
<1>5. CASE m = "get_prediction_markets"
  <2>1. VendorsOf(m) = <<"polymarket">>
    BY <1>1, <1>2, <1>3, <1>5 DEF RegisterVendors
  <2>2. "polymarket" \in Vendors
    BY DEF Vendors
  <2>3. VendorsOf(m) \in Seq(Vendors)
    BY <2>1, <2>2
  <2>4. ToSet(VendorsOf(m)) = {"polymarket"}
    BY <2>1 DEF ToSet
  <2>5. QED
    BY <1>5, <2>3, <2>4
<1>6. CASE m \notin {"get_macro_indicators", "get_prediction_markets"}
  <2>1. base = <<"yfinance", "alpha_vantage">> \/ base = <<"alpha_vantage", "yfinance">>
    BY <1>1, <1>6
  <2>2. VendorsOf(m) = base \/ VendorsOf(m) = Append(base, "akshare")
    BY <1>2 DEF RegisterVendors
  <2>3. VendorsOf(m) \in Seq({"alpha_vantage", "yfinance", "akshare"})
    <3>. DEFINE S == {"alpha_vantage", "yfinance", "akshare"}
    <3>. /\ "alpha_vantage" \in S /\ "yfinance" \in S /\ "akshare" \in S
      OBVIOUS
    <3>. HIDE DEF S
    <3>1. base \in Seq(S) /\ "akshare" \in S
      <4>1. <<"yfinance", "alpha_vantage">> \in Seq(S) /\ <<"alpha_vantage", "yfinance">> \in Seq(S)
        OBVIOUS
      <4>2. QED
        BY <2>1, <4>1, Zenon
    <3>2. Append(base, "akshare") \in Seq(S)
      BY <3>1
    <3>3. QED
      BY <2>2, <3>1, <3>2, Zenon DEF S
  <2>4. QED
    BY <1>6, <2>3 DEF ToSet, Vendors
<1>7. QED
  BY <1>4, <1>5, <1>6

(* ---------------------------- configurations --------------------------- *)

\* A run's configuration has the parts a deployment's has.
LEMMA RunConfigs ==
    ASSUME deployed \in Deployments, NEW s \in BOOLEAN
    PROVE  /\ RunConfig(s) = [data |-> RunConfig(s).data, tools |-> deployed.tools]
           /\ RunConfig(s).data = [c \in Categories |-> RunConfig(s).data[c]]
           /\ \A c \in Categories : \/ RunConfig(s).data[c] = deployed.data[c]
                                    \/ RunConfig(s).data[c] = <<"akshare", "yfinance">>
           /\ deployed.tools = [m \in DOMAIN deployed.tools |-> deployed.tools[m]]
<1>1. /\ deployed = [data |-> deployed.data, tools |-> deployed.tools]
      /\ deployed.data = [c \in Categories |-> deployed.data[c]]
      /\ deployed.tools = [m \in DOMAIN deployed.tools |-> deployed.tools[m]]
  BY DeploymentsAssumption
<1>2. CASE ~s
  <2>1. RunConfig(s) = deployed
    BY <1>2 DEF RunConfig
  <2>2. QED
    BY <1>1, <2>1, Zenon
<1>3. CASE s
  <2>. DEFINE new == [c \in Categories |-> IF c \in AShareCategories THEN <<"akshare", "yfinance">>
                                           ELSE deployed.data[c]]
  <2>1. RunConfig(s) = [deployed EXCEPT !.data = new]
    BY <1>3, Zenon DEF RunConfig
  <2>2. \A c \in Categories : new[c] = deployed.data[c] \/ new[c] = <<"akshare", "yfinance">>
    BY Zenon
  <2>3. new = [c \in Categories |-> new[c]]
    BY Zenon
  <2>. HIDE DEF new
  <2>4. RunConfig(s) = [data |-> new, tools |-> deployed.tools]
    BY <1>1, <2>1
  <2>5. RunConfig(s).data = new /\ RunConfig(s).tools = deployed.tools
    BY <2>4
  <2>6. QED
    BY <1>1, <2>2, <2>3, <2>4, <2>5, Zenon
<1>4. QED
  BY <1>2, <1>3, Zenon

\* What one run has set, the next sets anew.
LEMMA SetAgain ==
    ASSUME deployed \in Deployments, NEW s \in BOOLEAN, NEW t \in BOOLEAN
    PROVE  SetConfig(RunConfig(s), RunConfig(t)) = RunConfig(t)
<1>. DEFINE old == RunConfig(s)
            new == RunConfig(t)
<1>1. /\ old = [data |-> old.data, tools |-> deployed.tools]
      /\ old.data = [c \in Categories |-> old.data[c]]
      /\ new = [data |-> new.data, tools |-> deployed.tools]
      /\ new.data = [c \in Categories |-> new.data[c]]
      /\ deployed.tools = [m \in DOMAIN deployed.tools |-> deployed.tools[m]]
  BY RunConfigs, Zenon
<1>. HIDE DEF old, new
<1>2. /\ DOMAIN old.data = Categories /\ DOMAIN new.data = Categories
      /\ old.tools = deployed.tools /\ new.tools = deployed.tools
  BY <1>1
<1>3. [k \in DOMAIN old.data \cup DOMAIN new.data |->
          IF k \in DOMAIN new.data THEN new.data[k] ELSE old.data[k]] = new.data
  BY <1>1, <1>2
<1>4. [k \in DOMAIN old.tools \cup DOMAIN new.tools |->
          IF k \in DOMAIN new.tools THEN new.tools[k] ELSE old.tools[k]] = deployed.tools
  BY <1>1, <1>2
<1>5. SetConfig(old, new) = [data |-> new.data, tools |-> deployed.tools]
  BY <1>3, <1>4, Zenon DEF SetConfig
<1>6. QED
  BY <1>1, <1>5, Zenon DEF old, new

\* The chain of a run: places of a list, each of a vendor that has the method.
LEMMA Chains ==
    ASSUME deployed \in Deployments, NEW s \in BOOLEAN, NEW m \in Methods
    PROVE  /\ Chain(RunConfig(s), m) \subseteq Int
           /\ \A i \in Chain(RunConfig(s), m) : Listed(RunConfig(s), m)[i] \in ToSet(VendorsOf(m))
<1>. DEFINE own == RunConfig(s)
            c == CategoryOf(m)
<1>1. c \in Categories
  BY Category, Zenon
<1>2. own.tools = deployed.tools
  <2>1. own = [data |-> own.data, tools |-> deployed.tools]
    BY RunConfigs, Zenon
  <2>. HIDE DEF own
  <2>2. QED
    BY <2>1
<1>3. own.data[c] = deployed.data[c] \/ own.data[c] = <<"akshare", "yfinance">>
  BY <1>1, RunConfigs, Zenon
<1>. HIDE DEF own, c
<1>4. m \in DOMAIN own.tools => DOMAIN own.tools[m] \subseteq Int
  <2>1. m \in DOMAIN own.tools => own.tools[m] \in Seq(STRING)
    BY <1>2, DeploymentsAssumption
  <2>2. QED
    BY <2>1
<1>5. DOMAIN own.data[c] \subseteq Int
  <2>1. deployed.data[c] \in Seq(STRING)
    BY <1>1, DeploymentsAssumption
  <2>2. DOMAIN deployed.data[c] \subseteq Int
    BY <2>1
  <2>3. DOMAIN <<"akshare", "yfinance">> \subseteq Int
    OBVIOUS
  <2>4. QED
    BY <1>3, <2>2, <2>3, Zenon
<1>6. DOMAIN VendorsOf(m) \subseteq Int
  <2>1. VendorsOf(m) \in Seq(Vendors)
    BY HavingIt, Zenon
  <2>2. QED
    BY <2>1
<1>7. DOMAIN Listed(own, m) \subseteq Int
  BY <1>4, <1>5, <1>6, Zenon DEF Listed, Configured, c
<1>8. QED
  BY <1>7, Zenon DEF Chain, own

(* ------------------------------- the router ---------------------------- *)

\* What is left of a way down the chain: its vendors are asked in order, each
\* may come to what it came to, and all of them fail but for the last if it
\* answers.
Walked(chain, list, outs, route) ==
    /\ DOMAIN route \subseteq chain
    /\ \A i \in DOMAIN route : route[i] \in outs[list[i]]
    /\ \A i \in DOMAIN route : \A j \in chain : j < i => j \in DOMAIN route /\ route[j].kind \in Errors
    /\ \/ DOMAIN route = chain /\ \A i \in DOMAIN route : route[i].kind \in Errors
       \/ \E n \in DOMAIN route : Answers(route[n]) /\ \A j \in DOMAIN route : j <= n

LEMMA ErrorsFail == \A out : out.kind \in Errors => ~ Answers(out)
  BY DEF Errors, Answers

LEMMA Failed ==
    ASSUME NEW places, NEW list, NEW outs, NEW given \in Failing(places, list, outs)
    PROVE  /\ DOMAIN given = places
           /\ \A i \in places : given[i].kind \in Errors /\ given[i] \in outs[list[i]]
<1>1. /\ given \in [places -> {Raised(e) : e \in Errors}]
      /\ \A i \in places : given[i] \in outs[list[i]]
  BY Zenon DEF Failing
<1>2. \A e \in Errors : Raised(e).kind = e
  BY DEF Raised, Outcome
<1>3. ASSUME NEW i \in places PROVE given[i].kind \in Errors
  <2>1. given[i] \in {Raised(e) : e \in Errors}
    BY <1>1, Zenon
  <2>2. PICK e \in Errors : given[i] = Raised(e)
    BY <2>1, Zenon
  <2>3. QED
    BY <1>2, <2>2, Zenon
<1>4. QED
  BY <1>1, <1>3, Zenon

LEMMA Answered ==
    ASSUME NEW chain, NEW list, NEW outs, NEW n \in chain, chain \subseteq Int,
           NEW route \in Answering(n, chain, list, outs)
    PROVE  Walked(chain, list, outs, route)
<1>. DEFINE before == {i \in chain : i < n}
            answers == {o \in outs[list[n]] : Answers(o)}
            Way(given, out) == [i \in before \cup {n} |-> IF i = n THEN out ELSE given[i]]
            fails == Failing(before, list, outs)
<1>1. route \in {Way(given, out) : given \in fails, out \in answers}
  BY DEF Answering
<1>2. \A i : i \in before <=> i \in chain /\ i < n
  BY Zenon
<1>3. \A o \in answers : o \in outs[list[n]] /\ Answers(o)
  BY Zenon
<1>. HIDE DEF before, answers, Way, fails
<1>4. /\ n \in Int /\ n \notin before
      /\ \A j \in before \cup {n} : j <= n
      /\ \A i \in before \cup {n} : \A j \in chain : j < i => j \in before
  <2>1. n \in Int /\ \A i \in before : i \in Int /\ i < n
    BY <1>2, Zenon
  <2>2. n \notin before /\ n <= n
    BY <1>2, <2>1
  <2>3. \A i \in before : i <= n
    BY <2>1
  <2>4. \A i \in before \cup {n} : \A j \in chain : j < i => j < n
    BY <2>1
  <2>5. QED
    BY <1>2, <2>1, <2>2, <2>3, <2>4, Zenon
<1>5. PICK given \in fails, out \in answers : route = Way(given, out)
  BY <1>1
<1>6. /\ DOMAIN given = before
      /\ \A i \in before : given[i].kind \in Errors /\ given[i] \in outs[list[i]]
  BY Failed, Zenon DEF fails
<1>7. /\ DOMAIN route = before \cup {n} /\ route[n] = out
      /\ \A i \in before : route[i] = given[i]
  BY <1>4, <1>5, Zenon DEF Way
<1>8. /\ DOMAIN route \subseteq chain
      /\ \A i \in DOMAIN route : route[i] \in outs[list[i]]
  BY <1>2, <1>3, <1>6, <1>7, Zenon
<1>9. \A i \in DOMAIN route : \A j \in chain : j < i => j \in DOMAIN route /\ route[j].kind \in Errors
  BY <1>4, <1>6, <1>7, Zenon
<1>10. n \in DOMAIN route /\ Answers(route[n]) /\ \A j \in DOMAIN route : j <= n
  BY <1>3, <1>4, <1>7, Zenon
<1>11. QED
  BY <1>8, <1>9, <1>10, Zenon DEF Walked

LEMMA Walks ==
    ASSUME NEW m, NEW outs, NEW route \in Routes(m, outs), Chain(config, m) \subseteq Int
    PROVE  Walked(Chain(config, m), Listed(config, m), outs, route)
<1>. DEFINE list == Listed(config, m)
            chain == Chain(config, m)
<1>1. route \in Failing(chain, list, outs) \/ \E n \in chain : route \in Answering(n, chain, list, outs)
  BY Zenon DEF Routes
<1>2. chain \subseteq Int
  OBVIOUS
<1>. HIDE DEF list, chain
<1>3. CASE route \in Failing(chain, list, outs)
  <2>1. /\ DOMAIN route = chain
        /\ \A i \in chain : route[i].kind \in Errors /\ route[i] \in outs[list[i]]
    BY <1>3, Failed, Zenon
  <2>2. Walked(chain, list, outs, route)
    BY <2>1, Zenon DEF Walked
  <2>3. QED
    BY <2>2, Zenon DEF list, chain
<1>4. CASE \E n \in chain : route \in Answering(n, chain, list, outs)
  BY <1>2, <1>4, Answered, Zenon DEF list, chain
<1>5. QED
  BY <1>1, <1>3, <1>4, Zenon

\* What the caller is told is the last vendor's answer, or what is left when
\* all of them have failed.
Earned(chain, m, route, out) ==
    \/ \E n \in DOMAIN route :
          out = route[n] /\ Answers(out) /\ \A j \in DOMAIN route : j <= n
    \/ /\ DOMAIN route = chain /\ Kinds(route) \subseteq Errors /\ out.rows = {}
       /\ \/ out.kind = "NO_DATA_AVAILABLE" /\ "nodata" \in Kinds(route)
          \/ /\ out.kind = "DATA_UNAVAILABLE" /\ "nodata" \notin Kinds(route)
             /\ CategoryOf(m) \in OptionalCategories
          \/ /\ out.kind = "raised" /\ "nodata" \notin Kinds(route)
             /\ CategoryOf(m) \in OptionalCategories => Kinds(route) \cap {"unconfigured", "error"} = {}
          \/ out = Said /\ m = "get_indicators"

LEMMA Verdict ==
    ASSUME NEW m, NEW chain, NEW list, NEW outs, NEW route, Walked(chain, list, outs, route),
           chain \subseteq Int, NEW out \in Told(m, route)
    PROVE  Earned(chain, m, route, out)
<1>1. out \in Verdicts(m, route) \/ (out = Said /\ m = "get_indicators" /\ Raised("raised") \in Verdicts(m, route))
  BY Zenon DEF Told
<1>2. /\ DOMAIN route \subseteq chain
      /\ \A i \in DOMAIN route : \A j \in chain : j < i => j \in DOMAIN route /\ route[j].kind \in Errors
      /\ \/ DOMAIN route = chain /\ \A i \in DOMAIN route : route[i].kind \in Errors
         \/ \E n \in DOMAIN route : Answers(route[n]) /\ \A j \in DOMAIN route : j <= n
  BY Zenon DEF Walked
<1>. DEFINE answers == {i \in DOMAIN route : Answers(route[i])}
<1>3. CASE answers = {}
  <2>1. DOMAIN route = chain /\ Kinds(route) \subseteq Errors
    BY <1>2, <1>3, Zenon DEF Kinds
  <2>2. ASSUME NEW o \in Verdicts(m, route)
        PROVE  \/ o = Outcome("NO_DATA_AVAILABLE", {}) /\ "nodata" \in Kinds(route)
               \/ /\ o = Outcome("DATA_UNAVAILABLE", {}) /\ "nodata" \notin Kinds(route)
                  /\ CategoryOf(m) \in OptionalCategories
               \/ /\ o = Outcome("raised", {}) /\ "nodata" \notin Kinds(route)
                  /\ CategoryOf(m) \in OptionalCategories => Kinds(route) \cap {"unconfigured", "error"} = {}
    BY <1>3, <2>2, Zenon DEF Verdicts, Raised
  <2>3. \A k : Outcome(k, {}).kind = k /\ Outcome(k, {}).rows = {}
    BY DEF Outcome
  <2>4. Said.rows = {}
    BY <2>3, Zenon DEF Said
  <2>5. CASE out \in Verdicts(m, route)
    BY <2>1, <2>2, <2>3, <2>5, Zenon DEF Earned
  <2>6. CASE out = Said /\ m = "get_indicators"
    BY <2>1, <2>4, <2>6, Zenon DEF Earned
  <2>7. QED
    BY <1>1, <2>5, <2>6, Zenon
<1>4. CASE answers # {}
  <2>1. Verdicts(m, route) = {route[i] : i \in answers}
    BY <1>4, Zenon DEF Verdicts
  <2>2. \A i \in answers : \A j \in DOMAIN route : j <= i
    <3>1. ASSUME NEW i \in answers, NEW j \in DOMAIN route PROVE ~ (i < j)
      BY <1>2, <3>1, ErrorsFail, Zenon
    <3>2. \A i, j \in Int : ~ (i < j) => j <= i
      OBVIOUS
    <3>3. DOMAIN route \subseteq Int
      BY <1>2, Zenon
    <3>4. QED
      BY <3>1, <3>2, <3>3, Zenon
  <2>3. Raised("raised") \notin Verdicts(m, route)
    <3>1. ~ Answers(Raised("raised"))
      BY DEF Answers, Raised, Outcome
    <3>2. QED
      BY <2>1, <3>1, Zenon
  <2>4. PICK n \in answers : out = route[n]
    BY <1>1, <2>1, <2>3, Zenon
  <2>5. QED
    BY <2>2, <2>4, Zenon DEF Earned
<1>5. QED
  BY <1>3, <1>4, Zenon

(* ------------------------------- clients ------------------------------- *)

LEMMA Pieces ==
    /\ \A e : Raised(e).rows = {} /\ Raised(e).kind = e
    /\ Said.rows = {} /\ Said.kind = "text"
    /\ \A s : Shown(s).rows = s /\ Shown(s).kind \in {"data", "text"} /\ (Shown(s).kind = "data" => s # {})
  BY DEF Raised, Said, Shown, Outcome

LEMMA Body ==
    \A s : AsItCame(s).rows = s /\ (AsItCame(s).kind = "raw" \/ s = {})
  BY DEF AsItCame, Outcome

LEMMA Cuts ==
    /\ \A s, d : \A r \in Upto(s, d) : r \in s /\ r <= d
    /\ \A d \in Int : \A r \in Window(d) : r <= d
<1>1. \A d \in Int : \A r \in Window(d) : r <= d
  BY ClientAssumption DEF Window
<1>2. QED
  BY <1>1, Zenon DEF Upto

LEMMA Replied ==
    ASSUME NEW today \in Days
    PROVE  /\ \A r \in Replies(today) : r.rows \subseteq 0..today
           /\ \A rows \in AShareFrames[today] : rows \subseteq 0..today
           /\ \A r \in Prices[today] : r.rows \subseteq 0..today
<1>1. \A r \in Replies(today) : r.rows \subseteq 0..today
  BY DEF Replies
<1>2. \A r \in Prices[today] : r \in Replies(today)
  BY Zenon DEF Prices
<1>3. \A r \in Prices[today] : r.rows \subseteq 0..today
  BY <1>1, <1>2, Zenon
<1>4. AShareFrames[today] = {FetchAShare(t, e) : t \in Prices[today], e \in Prices[today]}
  BY DEF AShareFrames
<1>5. \A t, e \in Prices[today] : FetchAShare(t, e) \subseteq 0..today
  <2>1. TAKE t, e \in Prices[today]
  <2>2. FetchAShare(t, e) \in {t.rows, e.rows, {}}
    BY DEF FetchAShare
  <2>3. QED
    BY <1>3, <2>2, Zenon
<1>6. \A rows \in AShareFrames[today] : rows \subseteq 0..today
  BY <1>4, <1>5
<1>7. QED
  BY <1>1, <1>3, <1>6, Zenon

\* Rows of a client's outcome: none after the day of the call; for a source that
\* takes account of the day asked for, none after that day either.
Past(date, o) == \A r \in o.rows : r <= date

Recent(date, o) == o.kind = "data" => \E r \in o.rows : date - r <= MaxStale

LEMMA NotStale ==
    ASSUME NEW date \in Int, NEW s \in SUBSET Int, ~ Stale(s, date)
    PROVE  Recent(date, Shown(s))
<1>1. s # {} => \E r \in s : ~ (date - r > MaxStale)
  BY Zenon DEF Stale
<1>2. s # {} => \E r \in s : date - r <= MaxStale
  BY <1>1, ClientAssumption
<1>3. QED
  BY <1>2, Pieces, Zenon DEF Recent

\* No day was asked for, or a body came with days that cannot be read.
Undated(v, m, date, o) ==
    \/ m \in Statements /\ date = NoDate
    \/ /\ o.kind = "raw"
       /\ \/ v = "akshare" /\ m \in Statements
          \/ v = "alpha_vantage" /\ m \in Statements \cup {"get_stock_data"}

\* What is to be shown of every outcome of a vendor's function.
Fits(v, m, date, today, o) ==
    /\ o.rows \subseteq 0..today
    /\ m \notin OfToday =>
          \A r \in o.rows :
             \/ r <= date \/ Undated(v, m, date, o)
             \/ /\ v = "akshare"
                /\ (m \in Statements /\ o.rows = {r}) \/ (m = "get_news" /\ r = date + 1)
    /\ m = "get_stock_data" /\ v # "alpha_vantage" => Recent(date, o)

LEMMA PastFits ==
    ASSUME NEW v, NEW m, m # "get_stock_data" \/ v = "alpha_vantage", NEW date, NEW today,
           NEW o, o.rows \subseteq 0..today, Past(date, o)
    PROVE  Fits(v, m, date, today, o)
  BY Zenon DEF Fits, Past

LEMMA UndatedFits ==
    ASSUME NEW v, NEW m, m # "get_stock_data" \/ v = "alpha_vantage", NEW date, NEW today,
           NEW o, o.rows \subseteq 0..today, Undated(v, m, date, o)
    PROVE  Fits(v, m, date, today, o)
  BY Zenon DEF Fits

\* Only a statement's date may be left out.
LEMMA DatesAre ==
    ASSUME NEW m, NEW date \in Dates(m)
    PROVE  date \in Days \/ (m \in Statements /\ date = NoDate)
  BY Zenon DEF Dates

LEMMA TodayFits ==
    ASSUME NEW v, NEW m \in OfToday, NEW date, NEW today, NEW o, o.rows \subseteq 0..today
    PROVE  Fits(v, m, date, today, o)
<1>1. m # "get_stock_data"
  BY DEF OfToday
<1>2. QED
  BY <1>1, Zenon DEF Fits

\* Yahoo.
LEMMA YfTable ==
    ASSUME NEW date, NEW today
    PROVE  /\ YfClient("get_stock_data", date, today) = {YfStock(r, date) : r \in Replies(today)}
           /\ YfClient("get_fundamentals", date, today) = {YfFundamentals(r) : r \in Replies(today)}
           /\ \A m \in Statements : YfClient(m, date, today) = {YfStatement(r, date) : r \in Replies(today)}
           /\ YfClient("get_news", date, today) = {YfNews(r, date, today) : r \in Replies(today)}
           /\ YfClient("get_global_news", date, today) = {YfGlobalNews(r, date, today) : r \in Replies(today)}
           /\ YfClient("get_insider_transactions", date, today) = {YfInsider(r) : r \in Replies(today)}
           /\ YfClient("get_indicators", date, today) = {Raised("error")}
           /\ \A m \in {"get_macro_indicators", "get_prediction_markets"} :
                 YfClient(m, date, today) = {}
  BY Zenon DEF YfClient, Statements

\* An exception shows nothing.
LEMMA RaisedFits ==
    ASSUME NEW v, NEW m, NEW date, NEW today, NEW e \in Errors \cup {"raised"}
    PROVE  Fits(v, m, date, today, Raised(e))
<1>1. Raised(e).rows = {} /\ Raised(e).kind = e /\ e # "data"
  BY Pieces DEF Errors
<1>2. Recent(date, Raised(e))
  BY <1>1, Zenon DEF Recent
<1>3. QED
  BY <1>1, <1>2, Zenon DEF Fits

LEMMA YfFits ==
    ASSUME NEW today \in Days, NEW m \in Methods, NEW date \in Dates(m),
           NEW o \in YfClient(m, date, today)
    PROVE  Fits("yfinance", m, date, today, o)
<1>. DEFINE R == Replies(today)
<1>1. date \in Int /\ 0..today \subseteq Int
  <2>1. NoDate \in Int /\ Days \subseteq Int /\ 0..today \subseteq Int
    BY DaysAreNumbers DEF NoDate
  <2>2. QED
    BY <2>1, DatesAre, Zenon
<1>2. \A r \in R : r.rows \subseteq 0..today
  BY Replied, Zenon
<1>. HIDE DEF R
<1>3. CASE m = "get_stock_data"
  <2>1. YfClient(m, date, today) = {YfStock(r, date) : r \in R}
    BY <1>3, YfTable, Zenon DEF R
  <2>2. PICK r \in R : o = YfStock(r, date)
    BY <2>1, Zenon
  <2>. DEFINE s == Upto(r.rows, date)
  <2>3. s \subseteq 0..today /\ \A k \in s : k <= date
    BY <1>2, Cuts, Zenon
  <2>4. o = Raised("error") \/ o = Raised("nodata") \/ (o = Shown(s) /\ ~ Stale(s, date))
    BY <2>2, Zenon DEF YfStock
  <2>. HIDE DEF s
  <2>5. CASE o = Shown(s) /\ ~ Stale(s, date)
    <3>1. s \in SUBSET Int
      BY <1>1, <2>3, Zenon
    <3>2. o.rows = s
      BY <2>5, Pieces, Zenon
    <3>3. Recent(date, o)
      BY <1>1, <2>5, <3>1, NotStale, Zenon
    <3>4. QED
      BY <2>3, <3>2, <3>3, Zenon DEF Fits
  <2>6. CASE o = Raised("error") \/ o = Raised("nodata")
    <3>1. o.rows = {} /\ o.kind \in {"error", "nodata"}
      BY <2>6, Pieces, Zenon
    <3>2. Recent(date, o)
      BY <3>1 DEF Recent
    <3>3. QED
      BY <3>1, <3>2, Zenon DEF Fits
  <2>7. QED
    BY <2>4, <2>5, <2>6, Zenon
<1>4. CASE m = "get_fundamentals"
  <2>1. YfClient(m, date, today) = {YfFundamentals(r) : r \in R}
    BY <1>4, YfTable, Zenon DEF R
  <2>2. PICK r \in R : o = YfFundamentals(r)
    BY <2>1, Zenon
  <2>3. o.rows = {} \/ o.rows = r.rows
    BY <2>2, Pieces, Zenon DEF YfFundamentals
  <2>4. o.rows \subseteq 0..today /\ m \in OfToday
    BY <1>2, <1>4, <2>3 DEF OfToday
  <2>5. QED
    BY <2>4, TodayFits, Zenon
<1>5. CASE m \in Statements
  <2>1. YfClient(m, date, today) = {YfStatement(r, date) : r \in R}
    BY <1>5, YfTable, Zenon DEF R
  <2>2. PICK r \in R : o = YfStatement(r, date)
    BY <2>1, Zenon
  <2>3. m # "get_stock_data"
    BY <1>5 DEF Statements
  <2>4. o.rows = {} \/ o.rows = FilterFinancials(r, date)
    BY <2>2, Pieces, Zenon DEF YfStatement
  <2>5. CASE date = NoDate
    <3>1. o.rows \subseteq 0..today
      BY <1>2, <2>4, <2>5, Zenon DEF FilterFinancials
    <3>2. QED
      BY <1>5, <2>3, <2>5, <3>1, UndatedFits, Zenon DEF Undated
  <2>6. CASE date # NoDate
    <3>1. o.rows = {} \/ o.rows = Upto(r.rows, date)
      BY <2>4, <2>6, Zenon DEF FilterFinancials
    <3>2. Upto(r.rows, date) \subseteq 0..today /\ \A k \in Upto(r.rows, date) : k <= date
      BY <1>2, Cuts, Zenon
    <3>3. o.rows \subseteq 0..today /\ Past(date, o)
      BY <3>1, <3>2, Zenon DEF Past
    <3>4. QED
      BY <2>3, <3>3, PastFits, Zenon
  <2>7. QED
    BY <2>5, <2>6, Zenon
<1>6. CASE m \in {"get_news", "get_global_news"}
  <2>1. YfClient(m, date, today) \in {{YfNews(r, date, today) : r \in R}, {YfGlobalNews(r, date, today) : r \in R}}
    BY <1>6, YfTable, ZenonT(40) DEF R
  <2>2. PICK r \in R : o = YfNews(r, date, today) \/ o = YfGlobalNews(r, date, today)
    BY <2>1, Zenon
  <2>3. o.rows = {} \/ o.rows = InNewsWindow(r, date, today)
    BY <2>2, Pieces, Zenon DEF YfNews, YfGlobalNews
  <2>4. /\ InNewsWindow(r, date, today) \subseteq 0..today
        /\ \A k \in InNewsWindow(r, date, today) : k <= date
    <3>1. CASE r.stamp = "none" /\ date >= today
      <4>1. InNewsWindow(r, date, today) = r.rows
        BY <3>1 DEF InNewsWindow
      <4>2. \A k \in 0..today : k <= date
        BY <1>1, <3>1, DaysAreNumbers
      <4>3. QED
        BY <1>2, <4>1, <4>2, Zenon
    <3>2. CASE ~ (r.stamp = "none" /\ date >= today)
      <4>1. InNewsWindow(r, date, today) \subseteq r.rows \cap Window(date)
        BY <3>2 DEF InNewsWindow
      <4>2. QED
        BY <1>1, <1>2, <4>1, Cuts, Zenon
    <3>3. QED
      BY <3>1, <3>2, Zenon
  <2>5. o.rows \subseteq 0..today /\ Past(date, o)
    BY <2>3, <2>4, Zenon DEF Past
  <2>6. QED
    BY <1>6, <2>5, PastFits, Zenon
<1>7. CASE m = "get_insider_transactions"
  <2>1. YfClient(m, date, today) = {YfInsider(r) : r \in R}
    BY <1>7, YfTable, Zenon DEF R
  <2>2. PICK r \in R : o = YfInsider(r)
    BY <2>1, Zenon
  <2>3. o.rows = {} \/ o.rows = r.rows
    BY <2>2, Pieces, Zenon DEF YfInsider
  <2>4. o.rows \subseteq 0..today /\ m \in OfToday
    BY <1>2, <1>7, <2>3 DEF OfToday
  <2>5. QED
    BY <2>4, TodayFits, Zenon
<1>8. CASE m = "get_indicators"
  <2>1. o = Raised("error") /\ "error" \in Errors
    BY <1>8, YfTable DEF Errors
  <2>2. QED
    BY <2>1, RaisedFits, Zenon
<1>9. CASE m \in {"get_macro_indicators", "get_prediction_markets"}
  BY <1>9, YfTable, Zenon
<1>10. QED
  BY <1>3, <1>4, <1>5, <1>6, <1>7, <1>8, <1>9, MethodsAre, Zenon DEF Statements

\* Alpha Vantage.
LEMMA AvTable ==
    ASSUME NEW date, NEW today
    PROVE  /\ AvClient("get_stock_data", date, today) = {AvStock(r, date) : r \in Replies(today)}
           /\ AvClient("get_indicators", date, today) = AvIndicatorClient(date, today)
           /\ AvClient("get_fundamentals", date, today) = {AvFundamentals(r) : r \in Replies(today)}
           /\ \A m \in Statements : AvClient(m, date, today) = {AvStatement(r, date) : r \in Replies(today)}
           /\ \A m \in {"get_news", "get_global_news"} :
                 AvClient(m, date, today) = {AvNews(r, date) : r \in Replies(today)}
           /\ AvClient("get_insider_transactions", date, today) = {AvInsider(r) : r \in Replies(today)}
           /\ \A m \in {"get_macro_indicators", "get_prediction_markets"} : AvClient(m, date, today) = {}
  BY Zenon DEF AvClient, Statements

LEMMA AvRows ==
    /\ \A r, out : AvBody(r, out).rows = {} \/ AvBody(r, out) = out
    /\ \A known, r, d : AvIndicator(known, r, d).rows \in {{}, r.rows \cap Window(d)}
  BY Pieces, Zenon DEF AvBody, AvIndicator

\* A body is cut at the day asked for, or passed on as it came.
LEMMA AvDated ==
    ASSUME NEW today \in Days, NEW m \in Statements \cup {"get_stock_data"}, NEW date,
           NEW r \in Replies(today), NEW o, o.rows = {} \/ o = FilterBody(r, date)
    PROVE  Fits("alpha_vantage", m, date, today, o)
<1>1. r.rows \subseteq 0..today
  BY Replied, Zenon
<1>2. CASE o.rows = {} \/ o = Shown(Upto(r.rows, date))
  <2>1. o.rows = {} \/ o.rows = Upto(r.rows, date)
    BY <1>2, Pieces, Zenon
  <2>2. Upto(r.rows, date) \subseteq 0..today /\ \A k \in Upto(r.rows, date) : k <= date
    BY <1>1, Cuts, Zenon
  <2>3. o.rows \subseteq 0..today /\ Past(date, o)
    BY <2>1, <2>2, Zenon DEF Past
  <2>4. QED
    BY <2>3, PastFits, Zenon
<1>3. CASE o.rows # {} /\ o = AsItCame(r.rows)
  <2>1. o.rows = r.rows /\ o.kind = "raw"
    BY <1>3, Body, Zenon
  <2>2. QED
    BY <1>1, <2>1, UndatedFits, Zenon DEF Undated
<1>4. QED
  BY <1>2, <1>3, Zenon DEF FilterBody

LEMMA AvFits ==
    ASSUME NEW today \in Days, NEW m \in Methods, NEW date \in Dates(m),
           NEW o \in AvClient(m, date, today)
    PROVE  Fits("alpha_vantage", m, date, today, o)
<1>. DEFINE R == Replies(today)
<1>1. date \in Int
  <2>1. NoDate \in Int /\ Days \subseteq Int
    BY DaysAreNumbers DEF NoDate
  <2>2. QED
    BY <2>1, DatesAre, Zenon
<1>2. \A r \in R : r.rows \subseteq 0..today
  BY Replied, Zenon
<1>. HIDE DEF R
<1>3. CASE m = "get_stock_data"
  <2>1. AvClient(m, date, today) = {AvStock(r, date) : r \in R}
    BY <1>3, AvTable, Zenon DEF R
  <2>2. PICK r \in R : o = AvStock(r, date)
    BY <2>1, Zenon
  <2>3. o.rows = {} \/ o = FilterBody(r, date)
    BY <2>2, AvRows, Zenon DEF AvStock
  <2>4. QED
    BY <1>3, <2>3, AvDated, Zenon DEF R
<1>4. CASE m \in Statements
  <2>1. AvClient(m, date, today) = {AvStatement(r, date) : r \in R}
    BY <1>4, AvTable, Zenon DEF R
  <2>2. PICK r \in R : o = AvStatement(r, date)
    BY <2>1, Zenon
  <2>3. CASE date = NoDate
    <3>1. o.rows = {} \/ o = Shown(r.rows)
      BY <2>2, <2>3, AvRows, Zenon DEF AvStatement
    <3>2. o.rows \subseteq 0..today
      BY <1>2, <3>1, Pieces, Zenon
    <3>3. QED
      BY <1>4, <2>3, <3>2, UndatedFits, Zenon DEF Undated
  <2>4. CASE date # NoDate
    <3>1. o.rows = {} \/ o = FilterBody(r, date)
      BY <2>2, <2>4, AvRows, Zenon DEF AvStatement
    <3>2. QED
      BY <1>4, <3>1, AvDated, Zenon DEF R
  <2>5. QED
    BY <2>3, <2>4, Zenon
<1>5. CASE m \in {"get_news", "get_global_news", "get_indicators"}
  <2>1. \E r \in R : (\E known \in BOOLEAN : o = AvIndicator(known, r, date)) \/ o = AvNews(r, date)
    <3>1. CASE m = "get_indicators"
      <4>1. o \in AvIndicatorClient(date, today)
        BY <3>1, AvTable, Zenon
      <4>2. PICK known \in BOOLEAN, r \in R : o = AvIndicator(known, r, date)
        BY <4>1 DEF AvIndicatorClient, R
      <4>3. QED
        BY <4>2, Zenon
    <3>2. CASE m \in {"get_news", "get_global_news"}
      <4>1. AvClient(m, date, today) = {AvNews(r, date) : r \in R}
        BY <3>2, AvTable, ZenonT(40) DEF R
      <4>2. QED
        BY <4>1, Zenon
    <3>3. QED
      BY <1>5, <3>1, <3>2, Zenon
  <2>2. PICK r \in R : (\E known \in BOOLEAN : o = AvIndicator(known, r, date)) \/ o = AvNews(r, date)
    BY <2>1
  <2>3. \/ o.rows = {} \/ o.rows = r.rows \cap Window(date)
        \/ o.rows = (r.rows \cap Window(date)) \ {date}
    <3>1. CASE o = AvNews(r, date)
      BY <3>1, AvRows, Pieces, Zenon DEF AvNews
    <3>2. CASE \E known \in BOOLEAN : o = AvIndicator(known, r, date)
      <4>1. PICK known \in BOOLEAN : o = AvIndicator(known, r, date)
        BY <3>2, Zenon
      <4>2. o.rows \in {{}, r.rows \cap Window(date)}
        BY <4>1, AvRows, Zenon
      <4>3. QED
        BY <4>2, Zenon
    <3>3. QED
      BY <2>2, <3>1, <3>2, Zenon
  <2>4. o.rows \subseteq 0..today /\ Past(date, o)
    BY <1>1, <1>2, <2>3, Cuts, Zenon DEF Past
  <2>5. QED
    BY <2>4, PastFits, Zenon
<1>6. CASE m \in {"get_fundamentals", "get_insider_transactions"}
  <2>1. \E r \in R : o = AvFundamentals(r) \/ o = AvInsider(r)
    <3>1. \/ AvClient(m, date, today) = {AvFundamentals(r) : r \in R}
          \/ AvClient(m, date, today) = {AvInsider(r) : r \in R}
      BY <1>6, AvTable, ZenonT(40) DEF R
    <3>2. QED
      BY <3>1, Zenon
  <2>2. PICK r \in R : o = AvFundamentals(r) \/ o = AvInsider(r)
    BY <2>1
  <2>3. o.rows = {} \/ o.rows = r.rows
    <3>1. o = AvBody(r, Shown(r.rows))
      BY <2>2, Zenon DEF AvFundamentals, AvInsider
    <3>2. QED
      BY <3>1, AvRows, Pieces, Zenon
  <2>4. o.rows \subseteq 0..today
    BY <1>2, <2>3, Zenon
  <2>5. m \in OfToday
    BY <1>6 DEF OfToday
  <2>6. QED
    BY <2>4, <2>5, TodayFits, Zenon
<1>7. CASE m \in {"get_macro_indicators", "get_prediction_markets"}
  BY <1>7, AvTable, Zenon
<1>8. QED
  BY <1>3, <1>4, <1>5, <1>6, <1>7, MethodsAre, Zenon DEF Statements

\* FRED and Polymarket, each for its own method.
LEMMA OptionalFits ==
    ASSUME NEW today \in Days, NEW date \in Days
    PROVE  /\ \A known \in BOOLEAN, r \in Replies(today) :
                 /\ Fits("fred", "get_macro_indicators", date, today, FredMacro(known, r, date))
                 /\ FredMacro(known, r, date).kind # "limited"
           /\ \A r \in Replies(today) :
                 /\ Fits("polymarket", "get_prediction_markets", date, today, Polymarket(r))
                 /\ Polymarket(r).kind # "limited"
<1>1. \A r \in Replies(today) : r.rows \subseteq 0..today
  BY Replied, Zenon
<1>2. ASSUME NEW known \in BOOLEAN, NEW r \in Replies(today)
      PROVE  /\ Fits("fred", "get_macro_indicators", date, today, FredMacro(known, r, date))
             /\ FredMacro(known, r, date).kind # "limited"
  <2>. DEFINE o == FredMacro(known, r, date)
  <2>1. o \in {Said, Raised("unconfigured"), Raised("error"), Shown(r.rows \cap Window(date))}
    BY DEF FredMacro
  <2>2. date \in Int
    BY DaysAreNumbers
  <2>. HIDE DEF o
  <2>3. o.rows = {} \/ o.rows = r.rows \cap Window(date)
    BY <2>1, Pieces, Zenon
  <2>4. o.kind \in {"text", "unconfigured", "error", "data"}
    BY <2>1, Pieces, Zenon
  <2>5. o.rows \subseteq 0..today /\ Past(date, o)
    BY <1>1, <2>2, <2>3, Cuts, Zenon DEF Past
  <2>6. Fits("fred", "get_macro_indicators", date, today, o)
    BY <2>5, PastFits, Zenon
  <2>7. QED
    BY <2>4, <2>6 DEF o
<1>3. ASSUME NEW r \in Replies(today)
      PROVE  /\ Fits("polymarket", "get_prediction_markets", date, today, Polymarket(r))
             /\ Polymarket(r).kind # "limited"
  <2>. DEFINE o == Polymarket(r)
  <2>1. o \in {Said, Shown(r.rows)}
    BY DEF Polymarket
  <2>. HIDE DEF o
  <2>2. (o.rows = {} \/ o.rows = r.rows) /\ o.kind \in {"text", "data"}
    BY <2>1, Pieces, Zenon
  <2>3. o.rows \subseteq 0..today
    BY <1>1, <2>2, Zenon
  <2>4. "get_prediction_markets" \in OfToday
    BY DEF OfToday
  <2>5. Fits("polymarket", "get_prediction_markets", date, today, o)
    BY <2>3, <2>4, TodayFits, Zenon
  <2>6. QED
    BY <2>2, <2>5 DEF o
<1>4. QED
  BY <1>2, <1>3, Zenon

\* AKShare.
LEMMA AkTable ==
    ASSUME NEW date, NEW today
    PROVE  /\ AkClient("get_stock_data", date, today) = {AkStock(rows, date) : rows \in AShareFrames[today]}
           /\ AkClient("get_indicators", date, today) = AkIndicatorClient(date, today)
           /\ AkClient("get_fundamentals", date, today) = {AkFundamentals(r) : r \in Replies(today)}
           /\ \A m \in Statements : AkClient(m, date, today) = {AkStatement(r, date) : r \in Replies(today)}
           /\ AkClient("get_news", date, today) = {AkNews(r, date, today) : r \in Replies(today)}
           /\ AkClient("get_global_news", date, today) = {AkGlobalNews(r, date) : r \in Replies(today)}
           /\ \A m \in {"get_insider_transactions", "get_macro_indicators", "get_prediction_markets"} :
                 AkClient(m, date, today) = {}
  BY Zenon DEF AkClient, Statements

LEMMA AkPrices ==
    ASSUME NEW today \in Days, NEW date \in Days, NEW rows \in AShareFrames[today], NEW known \in BOOLEAN
    PROVE  /\ Fits("akshare", "get_stock_data", date, today, AkStock(rows, date))
           /\ Fits("akshare", "get_indicators", date, today, AkIndicators(known, rows, date))
<1>1. date \in Int /\ 0..today \subseteq Int
  BY DaysAreNumbers
<1>2. rows \subseteq 0..today
  BY Replied, Zenon
<1>. DEFINE o == AkStock(rows, date)
            i == AkIndicators(known, rows, date)
            s == Upto(rows, date)
            w == rows \cap Window(date)
<1>3. s \subseteq 0..today /\ (\A k \in s : k <= date) /\ w \subseteq 0..today /\ (\A k \in w : k <= date)
  BY <1>1, <1>2, Cuts, Zenon
<1>4. o = Raised("nodata") \/ (o = Shown(s) /\ ~ Stale(s, date))
  BY Zenon DEF AkStock
<1>5. i = Raised("error") \/ i = Raised("nodata") \/ i = Shown(w)
  BY Zenon DEF AkIndicators
<1>. HIDE DEF o, i, s, w
<1>6. Fits("akshare", "get_stock_data", date, today, o)
  <2>1. CASE o = Shown(s) /\ ~ Stale(s, date)
    <3>1. s \in SUBSET Int
      BY <1>1, <1>3, Zenon
    <3>2. o.rows = s
      BY <2>1, Pieces, Zenon
    <3>3. Recent(date, o)
      BY <1>1, <2>1, <3>1, NotStale, Zenon
    <3>4. QED
      BY <1>3, <3>2, <3>3, Zenon DEF Fits
  <2>2. CASE o = Raised("nodata")
    <3>1. o.rows = {} /\ o.kind = "nodata"
      BY <2>2, Pieces, Zenon
    <3>2. Recent(date, o)
      BY <3>1 DEF Recent
    <3>3. QED
      BY <3>1, <3>2, Zenon DEF Fits
  <2>3. QED
    BY <1>4, <2>1, <2>2, Zenon
<1>7. i.rows \subseteq 0..today /\ Past(date, i)
  <2>1. i.rows = {} \/ i.rows = w
    BY <1>5, Pieces, Zenon
  <2>2. QED
    BY <1>3, <2>1, Zenon DEF Past
<1>8. Fits("akshare", "get_indicators", date, today, i)
  BY <1>7, PastFits, Zenon
<1>9. QED
  BY <1>6, <1>8, Zenon DEF o, i

\* With no report by the day asked for, the newest report is the only one shown;
\* without a day, or a column of dates, all are.
LEMMA AkReports ==
    ASSUME NEW today \in Days, NEW m \in Statements, NEW date \in Dates(m), NEW r \in Replies(today)
    PROVE  Fits("akshare", m, date, today, AkStatement(r, date))
<1>. DEFINE o == AkStatement(r, date)
            s == r.rows
<1>1. s \subseteq 0..today /\ 0..today \subseteq Int
  BY Replied, DaysAreNumbers
<1>2. m # "get_stock_data"
  BY DEF Statements
<1>3. \/ o.rows = {} \/ o = FilterReports(r, date)
  BY Pieces, Zenon DEF AkStatement
<1>4. \/ o.rows = {}
      \/ date = NoDate /\ o = Shown(s)
      \/ o = AsItCame(s)
      \/ o = Shown(Upto(s, date)) \/ o = Shown(Newest(s))
  BY <1>3, Zenon DEF FilterReports
<1>. HIDE DEF o, s
<1>5. Upto(s, date) \subseteq 0..today /\ \A k \in Upto(s, date) : k <= date
  BY <1>1, Cuts, Zenon
<1>6. \A k \in Newest(s) : Newest(s) = {k} /\ k \in s
  <2>1. \A j, k \in Newest(s) : j \in s /\ k \in s /\ j <= k /\ k <= j
    BY Zenon DEF Newest
  <2>2. \A j, k \in Newest(s) : j = k
    <3>1. \A j, k \in Int : j <= k /\ k <= j => j = k
      OBVIOUS
    <3>2. QED
      BY <1>1, <2>1, <3>1, Zenon
  <2>3. QED
    BY <2>1, <2>2, Zenon
<1>7. CASE o.rows = {} \/ o = Shown(Upto(s, date)) \/ o = Shown(Newest(s))
  <2>1. o.rows = {} \/ o.rows = Upto(s, date) \/ o.rows = Newest(s)
    BY <1>7, Pieces, Zenon
  <2>2. o.rows \subseteq 0..today
    BY <1>1, <1>5, <1>6, <2>1, Zenon
  <2>3. \A k \in o.rows : k <= date \/ o.rows = {k}
    BY <1>5, <1>6, <2>1, Zenon
  <2>4. \A k \in o.rows : \/ k <= date \/ Undated("akshare", m, date, o)
                         \/ /\ "akshare" = "akshare"
                            /\ (m \in Statements /\ o.rows = {k}) \/ (m = "get_news" /\ k = date + 1)
    BY <2>3, Zenon
  <2>5. QED
    BY <1>2, <2>2, <2>4, Zenon DEF Fits, o
<1>8. CASE o.rows # {} /\ ((date = NoDate /\ o = Shown(s)) \/ o = AsItCame(s))
  <2>1. CASE date = NoDate /\ o = Shown(s)
    <3>1. o.rows = s
      BY <2>1, Pieces, Zenon
    <3>2. Undated("akshare", m, date, o)
      BY <2>1, Zenon DEF Undated
    <3>3. QED
      BY <1>1, <1>2, <3>1, <3>2, UndatedFits, Zenon DEF o
  <2>2. CASE o = AsItCame(s)
    <3>1. o.rows = s /\ o.kind = "raw"
      BY <1>8, <2>2, Body, Zenon
    <3>2. Undated("akshare", m, date, o)
      BY <3>1, Zenon DEF Undated
    <3>3. QED
      BY <1>1, <1>2, <3>1, <3>2, UndatedFits, Zenon DEF o
  <2>3. QED
    BY <1>8, <2>1, <2>2, Zenon
<1>9. QED
  BY <1>4, <1>7, <1>8, Zenon DEF o

\* News are shown up to the day after the one asked for.
LEMMA AkArticles ==
    ASSUME NEW today \in Days, NEW date \in Days, NEW r \in Replies(today)
    PROVE  /\ Fits("akshare", "get_news", date, today, AkNews(r, date, today))
           /\ Fits("akshare", "get_global_news", date, today, AkGlobalNews(r, date))
<1>. DEFINE o == AkNews(r, date, today)
            g == AkGlobalNews(r, date)
            s == r.rows
            w == AkInWindow(r, date, today)
<1>1. date \in Int /\ today \in Int /\ s \subseteq 0..today /\ \A k \in 0..today : k \in Int /\ k <= today
  BY Replied, DaysAreNumbers
<1>2. o.rows = {} \/ o.rows = w
  BY Pieces, Zenon DEF AkNews
<1>3. g.rows = {} \/ g.rows = s \cap Window(date)
  BY Pieces, Zenon DEF AkGlobalNews
<1>4. (w = s /\ date >= today - 1) \/ w = {} \/ w = s \cap (Window(date) \cup {date + 1}) \/ w = s \cap Window(date)
  BY DEF AkInWindow
<1>. HIDE DEF o, g, s, w
<1>5. \A k \in Window(date) : k <= date
  BY <1>1, Cuts, Zenon
<1>6. w \subseteq 0..today /\ \A k \in w : k <= date \/ k = date + 1
  <2>1. CASE w = s /\ date >= today - 1
    <3>1. \A k \in 0..today : k <= date \/ k = date + 1
      BY <1>1, <2>1
    <3>2. QED
      BY <1>1, <2>1, <3>1, Zenon
  <2>2. CASE w = {}
    BY <2>2, Zenon
  <2>3. CASE w = s \cap (Window(date) \cup {date + 1}) \/ w = s \cap Window(date)
    BY <1>1, <1>5, <2>3, Zenon
  <2>4. QED
    BY <1>4, <2>1, <2>2, <2>3, Zenon
<1>7. Fits("akshare", "get_news", date, today, o)
  BY <1>2, <1>6, Zenon DEF Fits
<1>8. g.rows \subseteq 0..today /\ Past(date, g)
  BY <1>1, <1>3, <1>5, Zenon DEF Past
<1>9. Fits("akshare", "get_global_news", date, today, g)
  BY <1>8, PastFits, Zenon
<1>10. QED
  BY <1>7, <1>9, Zenon DEF o, g

LEMMA AkFits ==
    ASSUME NEW today \in Days, NEW m \in Methods, NEW date \in Dates(m),
           NEW o \in AkClient(m, date, today)
    PROVE  Fits("akshare", m, date, today, o)
<1>. DEFINE R == Replies(today)
            A == AShareFrames[today]
<1>0. m \in {"get_stock_data", "get_indicators", "get_news", "get_global_news"} => date \in Days
  BY DatesAre DEF Statements
<1>1. CASE m = "get_stock_data"
  <2>1. AkClient(m, date, today) = {AkStock(rows, date) : rows \in A}
    BY <1>1, AkTable, Zenon
  <2>2. QED
    BY <1>0, <1>1, <2>1, AkPrices, Zenon
<1>2. CASE m = "get_indicators"
  <2>1. o \in AkIndicatorClient(date, today)
    BY <1>2, AkTable, Zenon
  <2>2. QED
    <3>1. PICK known \in BOOLEAN, rows \in A : o = AkIndicators(known, rows, date)
      BY <2>1 DEF AkIndicatorClient
    <3>2. QED
      BY <1>0, <1>2, <3>1, AkPrices, Zenon
<1>3. CASE m = "get_fundamentals"
  <2>1. AkClient(m, date, today) = {AkFundamentals(r) : r \in R}
    BY <1>3, AkTable, Zenon
  <2>2. PICK r \in R : o = AkFundamentals(r)
    BY <2>1, Zenon
  <2>3. o.rows = {} \/ o.rows = r.rows
    BY <2>2, Pieces, Zenon DEF AkFundamentals
  <2>4. o.rows \subseteq 0..today
    BY <2>3, Replied, Zenon
  <2>5. m \in OfToday
    BY <1>3 DEF OfToday
  <2>6. QED
    BY <2>4, <2>5, TodayFits, Zenon
<1>4. CASE m \in Statements
  <2>1. AkClient(m, date, today) = {AkStatement(r, date) : r \in R}
    BY <1>4, AkTable, Zenon
  <2>2. QED
    BY <1>4, <2>1, AkReports, Zenon
<1>5. CASE m = "get_news"
  <2>1. AkClient(m, date, today) = {AkNews(r, date, today) : r \in R}
    BY <1>5, AkTable, Zenon
  <2>2. QED
    BY <1>0, <1>5, <2>1, AkArticles, Zenon
<1>6. CASE m = "get_global_news"
  <2>1. AkClient(m, date, today) = {AkGlobalNews(r, date) : r \in R}
    BY <1>6, AkTable, Zenon
  <2>2. QED
    BY <1>0, <1>6, <2>1, AkArticles, Zenon
<1>7. CASE m \in {"get_insider_transactions", "get_macro_indicators", "get_prediction_markets"}
  BY <1>7, AkTable, Zenon
<1>8. QED
  BY <1>1, <1>2, <1>3, <1>4, <1>5, <1>6, <1>7, MethodsAre, Zenon DEF Statements

\* What a vendor that has the method may come to.
LEMMA ClientFits ==
    ASSUME NEW m \in Methods, NEW date \in Dates(m), now \in 0..MaxTick,
           NEW v \in ToSet(VendorsOf(m)), NEW o \in Outcomes(m, date)[v]
    PROVE  /\ Fits(v, m, date, Today, o)
           /\ CategoryOf(m) \in OptionalCategories => o.kind # "limited"
<1>1. Today \in Days
  BY Clock, Zenon
<1>2. v \in Vendors
  BY HavingIt DEF ToSet
<1>3. ClientTable[Today][m][date] = [u \in Vendors |-> ClientOf(u, m, date, Today)]
  BY <1>1, Zenon DEF ClientTable
<1>4. \/ v = "akshare" /\ o = Raised("error")
      \/ o \in ClientOf(v, m, date, Today)
  <2>1. v = "akshare" => Outcomes(m, date)[v] =
            {Raised("error")} \cup IF share \/ m = "get_global_news" THEN ClientOf(v, m, date, Today) ELSE {}
    BY <1>2, <1>3 DEF Outcomes
  <2>2. v # "akshare" => Outcomes(m, date)[v] = ClientOf(v, m, date, Today)
    BY <1>2, <1>3 DEF Outcomes
  <2>3. QED
    BY <2>1, <2>2
<1>5. CategoryOf(m) \in OptionalCategories => m \in {"get_macro_indicators", "get_prediction_markets"}
  BY Category, Zenon
<1>6. /\ m = "get_macro_indicators" => v = "fred"
      /\ m = "get_prediction_markets" => v = "polymarket"
      /\ m \notin {"get_macro_indicators", "get_prediction_markets"} => v \in {"alpha_vantage", "yfinance", "akshare"}
  BY HavingIt, ZenonT(40)
<1>7. /\ ClientOf("yfinance", m, date, Today) = YfClient(m, date, Today)
      /\ ClientOf("alpha_vantage", m, date, Today) = AvClient(m, date, Today)
      /\ ClientOf("akshare", m, date, Today) = AkClient(m, date, Today)
      /\ ClientOf("fred", m, date, Today) = FredClient(date, Today)
      /\ ClientOf("polymarket", m, date, Today) = {Polymarket(r) : r \in Replies(Today)}
  BY Zenon DEF ClientOf
<1>8. CASE v = "akshare" /\ o = Raised("error")
  <2>1. "error" \in Errors
    BY DEF Errors
  <2>2. Fits(v, m, date, Today, o)
    BY <1>8, <2>1, RaisedFits, Zenon
  <2>3. m \notin {"get_macro_indicators", "get_prediction_markets"}
    BY <1>6, <1>8
  <2>4. QED
    BY <1>5, <2>2, <2>3, Zenon
<1>9. CASE o \in ClientOf(v, m, date, Today) /\ m = "get_macro_indicators"
  <2>1. o \in FredClient(date, Today)
    BY <1>6, <1>7, <1>9, Zenon
  <2>2. PICK known \in BOOLEAN, r \in Replies(Today) : o = FredMacro(known, r, date)
    BY <2>1 DEF FredClient
  <2>3. QED
    <3>1. date \in Days
      BY <1>9, DatesAre DEF Statements
    <3>2. QED
      BY <1>1, <1>6, <1>9, <2>2, <3>1, OptionalFits, Zenon
<1>10. CASE o \in ClientOf(v, m, date, Today) /\ m = "get_prediction_markets"
  <2>1. o \in {Polymarket(r) : r \in Replies(Today)}
    BY <1>6, <1>7, <1>10, Zenon
  <2>2. QED
    <3>1. date \in Days
      BY <1>10, DatesAre DEF Statements
    <3>2. QED
      BY <1>1, <1>6, <1>10, <2>1, <3>1, OptionalFits, Zenon
<1>11. CASE o \in ClientOf(v, m, date, Today) /\ m \notin {"get_macro_indicators", "get_prediction_markets"}
  <2>1. o \in ClientOf(v, m, date, Today)
    BY <1>11, Zenon
  <2>2. ASSUME v = "yfinance" PROVE Fits(v, m, date, Today, o)
    <3>1. o \in YfClient(m, date, Today)
      BY <1>7, <2>1, <2>2, Zenon
    <3>2. Fits("yfinance", m, date, Today, o)
      BY <1>1, <3>1, YfFits, Zenon
    <3>3. QED
      BY <2>2, <3>2, Zenon
  <2>3. ASSUME v = "alpha_vantage" PROVE Fits(v, m, date, Today, o)
    <3>1. o \in AvClient(m, date, Today)
      BY <1>7, <2>1, <2>3, Zenon
    <3>2. Fits("alpha_vantage", m, date, Today, o)
      BY <1>1, <3>1, AvFits, Zenon
    <3>3. QED
      BY <2>3, <3>2, Zenon
  <2>4. ASSUME v = "akshare" PROVE Fits(v, m, date, Today, o)
    <3>1. o \in AkClient(m, date, Today)
      BY <1>7, <2>1, <2>4, Zenon
    <3>2. Fits("akshare", m, date, Today, o)
      BY <1>1, <3>1, AkFits, Zenon
    <3>3. QED
      BY <2>4, <3>2, Zenon
  <2>5. Fits(v, m, date, Today, o)
    BY <1>6, <1>11, <2>2, <2>3, <2>4, Zenon
  <2>6. QED
    BY <1>5, <1>11, <2>5, Zenon
<1>12. QED
  BY <1>4, <1>8, <1>9, <1>10, <1>11, Zenon

(* ------------------------------- answers ------------------------------- *)

\* What a vendor may come to, as far as the answer's properties need it.
Suits(v, m, date, o) ==
    /\ o.rows \subseteq Days
    /\ m \notin OfToday =>
          \A r \in o.rows :
             \/ r <= date \/ Undated(v, m, date, o)
             \/ /\ v = "akshare"
                /\ (m \in Statements /\ o.rows = {r}) \/ (m = "get_news" /\ r = date + 1)
    /\ m = "get_stock_data" /\ v # "alpha_vantage" => Recent(date, o)
    /\ CategoryOf(m) \in OptionalCategories => o.kind # "limited"

LEMMA ClientSuits ==
    ASSUME NEW m \in Methods, NEW date \in Dates(m), now \in 0..MaxTick,
           NEW v \in ToSet(VendorsOf(m)), NEW o \in Outcomes(m, date)[v]
    PROVE  Suits(v, m, date, o)
<1>1. Fits(v, m, date, Today, o) /\ (CategoryOf(m) \in OptionalCategories => o.kind # "limited")
  BY ClientFits, Zenon
<1>2. 0..Today \subseteq Days
  BY Clock, Zenon
<1>3. QED
  BY <1>1, <1>2, Zenon DEF Fits, Suits

\* VerdictIsEarned, of an answer about to be given.
Fair(m, out, tried) ==
    LET own == RunConfig(share)
        chain == Chain(own, m)
        kinds == {tried[i].kind : i \in DOMAIN tried}
        exhausted == DOMAIN tried = chain /\ kinds \subseteq Errors
        optional == CategoryOf(m) \in OptionalCategories
    IN  /\ DOMAIN tried \subseteq chain
        /\ \A i \in DOMAIN tried :
              /\ tried[i].vendor = Listed(own, m)[i]
              /\ \A j \in chain : j < i => j \in DOMAIN tried /\ tried[j].kind \in Errors
        /\ CASE out.kind = "NO_DATA_AVAILABLE" -> exhausted /\ "nodata" \in kinds
             [] out.kind = "DATA_UNAVAILABLE" -> exhausted /\ "nodata" \notin kinds /\ optional
             [] out.kind = "raised" ->
                    exhausted /\ "nodata" \notin kinds /\ (optional => chain = {})
             [] OTHER -> ~exhausted \/ (m = "get_indicators" /\ out = Said)

KindsOf(tried) == {tried[i].kind : i \in DOMAIN tried}

LEMMA TriedIs ==
    ASSUME NEW m, NEW route
    PROVE  /\ DOMAIN Tried(m, route) = DOMAIN route
           /\ \A i \in DOMAIN route : /\ Tried(m, route)[i].vendor = Listed(config, m)[i]
                                      /\ Tried(m, route)[i].kind = route[i].kind
           /\ KindsOf(Tried(m, route)) = Kinds(route)
<1>1. DOMAIN Tried(m, route) = DOMAIN route
  BY DEF Tried
<1>2. \A i \in DOMAIN route : /\ Tried(m, route)[i].vendor = Listed(config, m)[i]
                              /\ Tried(m, route)[i].kind = route[i].kind
  BY DEF Tried
<1>3. QED
  BY <1>1, <1>2, Zenon DEF Kinds, KindsOf

\* The router's answer is fair, not of the future, and recent if it is of prices.
LEMMA RoutedFair ==
    ASSUME deployed \in Deployments, share \in BOOLEAN, Settled, NEW m \in Methods, NEW date, NEW outs,
           \A v \in ToSet(VendorsOf(m)) : \A o \in outs[v] : Suits(v, m, date, o),
           NEW route \in Routes(m, outs), NEW out \in Told(m, route)
    PROVE  Fair(m, out, Tried(m, route))
<1>. DEFINE list == Listed(config, m)
            chain == Chain(config, m)
            tried == Tried(m, route)
            kinds == KindsOf(tried)
            exhausted == DOMAIN tried = chain /\ kinds \subseteq Errors
            optional == CategoryOf(m) \in OptionalCategories
            earned == CASE out.kind = "NO_DATA_AVAILABLE" -> exhausted /\ "nodata" \in kinds
                        [] out.kind = "DATA_UNAVAILABLE" -> exhausted /\ "nodata" \notin kinds /\ optional
                        [] out.kind = "raised" ->
                               exhausted /\ "nodata" \notin kinds /\ (optional => chain = {})
                        [] OTHER -> ~exhausted \/ (m = "get_indicators" /\ out = Said)
<1>1. chain \subseteq Int /\ \A i \in chain : list[i] \in ToSet(VendorsOf(m))
  BY Chains, Zenon DEF Settled
<1>2. Walked(chain, list, outs, route)
  BY <1>1, Walks, Zenon
<1>3. Earned(chain, m, route, out)
  BY <1>1, <1>2, Verdict, Zenon
<1>4. /\ DOMAIN tried = DOMAIN route /\ kinds = Kinds(route)
      /\ \A i \in DOMAIN route : tried[i].vendor = list[i] /\ tried[i].kind = route[i].kind
  <2>1. DOMAIN tried = DOMAIN route
    BY TriedIs, Zenon
  <2>2. kinds = Kinds(route)
    BY TriedIs, Zenon
  <2>3. ASSUME NEW i \in DOMAIN route PROVE tried[i].vendor = list[i] /\ tried[i].kind = route[i].kind
    BY DEF Tried
  <2>4. QED
    BY <2>1, <2>2, <2>3, Zenon
<1>5. /\ DOMAIN route \subseteq chain
      /\ \A i \in DOMAIN route : route[i] \in outs[list[i]]
      /\ \A i \in DOMAIN route : \A j \in chain : j < i => j \in DOMAIN route /\ route[j].kind \in Errors
  BY <1>2, Zenon DEF Walked
<1>. HIDE DEF list, chain, tried, kinds
<1>6. optional => \A k \in Kinds(route) : k # "limited"
  BY <1>1, <1>5, Zenon DEF Suits, Kinds
<1>7. earned
  <2>1. ASSUME NEW n \in DOMAIN route, out = route[n], Answers(out)
        PROVE  out.kind \in {"data", "raw", "text"} /\ ~ exhausted
    <3>1. out.kind \in {"data", "raw", "text"} /\ out.kind \notin Errors
      BY <2>1 DEF Answers, Errors
    <3>2. out.kind \in kinds
      BY <1>4, <2>1, Zenon DEF Kinds
    <3>3. QED
      BY <3>1, <3>2, Zenon
  <2>2. CASE \E n \in DOMAIN route : out = route[n] /\ Answers(out)
    <3>1. out.kind \in {"data", "raw", "text"} /\ ~ exhausted
      BY <2>1, <2>2, Zenon
    <3>2. out.kind \notin {"NO_DATA_AVAILABLE", "DATA_UNAVAILABLE", "raised"}
      BY <3>1
    <3>3. QED
      BY <3>1, <3>2, Zenon
  <2>3. CASE exhausted /\ out.kind = "NO_DATA_AVAILABLE" /\ "nodata" \in Kinds(route)
    BY <1>4, <2>3, Zenon
  <2>4. CASE exhausted /\ out.kind = "DATA_UNAVAILABLE" /\ "nodata" \notin Kinds(route) /\ optional
    BY <1>4, <2>4, Zenon
  <2>5. CASE /\ exhausted /\ out.kind = "raised" /\ "nodata" \notin Kinds(route)
             /\ optional => Kinds(route) \cap {"unconfigured", "error"} = {}
    <3>1. optional => chain = {}
      <4>1. ASSUME optional, NEW i \in chain PROVE FALSE
        <5>1. route[i].kind \in Kinds(route) /\ route[i].kind \in Errors
          BY <1>4, <2>5, <4>1, Zenon DEF Kinds
        <5>2. route[i].kind \in {"unconfigured", "error"}
          BY <1>6, <2>5, <4>1, <5>1 DEF Errors
        <5>3. QED
          BY <2>5, <4>1, <5>1, <5>2, Zenon
      <4>2. QED
        BY <4>1, Zenon
    <3>2. QED
      BY <1>4, <2>5, <3>1, Zenon
  <2>6. CASE out = Said /\ m = "get_indicators"
    <3>1. out.kind = "text"
      BY <2>6, Pieces, Zenon
    <3>2. out.kind \notin {"NO_DATA_AVAILABLE", "DATA_UNAVAILABLE", "raised"}
      BY <3>1
    <3>3. QED
      BY <2>6, <3>2, Zenon
  <2>7. QED
    BY <1>3, <1>4, <2>2, <2>3, <2>4, <2>5, <2>6, Zenon DEF Earned
<1>8. RunConfig(share) = config
  BY Zenon DEF Settled
<1>9. DOMAIN tried \subseteq chain
  BY <1>4, <1>5, Zenon
<1>10. \A i \in DOMAIN tried : tried[i].vendor = list[i]
  BY <1>4, Zenon
<1>11. \A i \in DOMAIN tried : \A j \in chain : j < i => j \in DOMAIN tried /\ tried[j].kind \in Errors
  BY <1>4, <1>5, Zenon
<1>12. QED
  BY <1>7, <1>8, <1>9, <1>10, <1>11, Zenon DEF Fair, list, chain, tried, kinds, KindsOf

\* NoLookAhead, and what PricesAreCurrent says of routed prices.
Timely(m, date, out, tried) ==
    /\ out.rows \subseteq Days
    /\ m \notin OfToday =>
          \A r \in out.rows :
             \/ r <= date
             \/ \E v : AskedLast(tried, v) /\ Undated(v, m, date, out)
             \/ /\ AskedLast(tried, "akshare")
                /\ (m \in Statements /\ out.rows = {r}) \/ (m = "get_news" /\ r = date + 1)
    /\ m = "get_stock_data" /\ ~ AskedLast(tried, "alpha_vantage") => Recent(date, out)

LEMMA RoutedTimely ==
    ASSUME deployed \in Deployments, share \in BOOLEAN, Settled, NEW m \in Methods, NEW date, NEW outs,
           \A v \in ToSet(VendorsOf(m)) : \A o \in outs[v] : Suits(v, m, date, o),
           NEW route \in Routes(m, outs), NEW out \in Told(m, route)
    PROVE  Timely(m, date, out, Tried(m, route))
<1>. DEFINE list == Listed(config, m)
            chain == Chain(config, m)
            tried == Tried(m, route)
<1>1. chain \subseteq Int /\ \A i \in chain : list[i] \in ToSet(VendorsOf(m))
  BY Chains, Zenon DEF Settled
<1>2. Walked(chain, list, outs, route)
  BY <1>1, Walks, Zenon
<1>3. Earned(chain, m, route, out)
  BY <1>1, <1>2, Verdict, Zenon
<1>4. DOMAIN tried = DOMAIN route /\ \A i \in DOMAIN route : tried[i].vendor = list[i]
  BY DEF Tried
<1>5. /\ DOMAIN route \subseteq chain
      /\ \A i \in DOMAIN route : route[i] \in outs[list[i]]
  BY <1>2, Zenon DEF Walked
<1>. HIDE DEF list, chain, tried
<1>6. CASE \E n \in DOMAIN route : out = route[n] /\ Answers(out) /\ \A j \in DOMAIN route : j <= n
  <2>1. PICK n \in DOMAIN route : out = route[n] /\ \A j \in DOMAIN route : j <= n
    BY <1>6, Zenon
  <2>2. Suits(list[n], m, date, out)
    BY <1>1, <1>5, <2>1, Zenon
  <2>3. \A v : list[n] = v => AskedLast(tried, v)
    BY <1>4, <2>1, Zenon DEF AskedLast
  <2>4. QED
    BY <2>2, <2>3, Zenon DEF Suits, Timely, tried
<1>7. CASE out.rows = {} /\ out.kind \in {"NO_DATA_AVAILABLE", "DATA_UNAVAILABLE", "raised", "text"}
  <2>1. Recent(date, out)
    BY <1>7 DEF Recent
  <2>2. QED
    BY <1>7, <2>1, Zenon DEF Timely
<1>8. Said.kind = "text"
  BY Pieces, Zenon
<1>9. QED
  BY <1>3, <1>6, <1>7, <1>8, Zenon DEF Earned

\* If one of the vendors asked answers, that is what is told.
LEMMA AnswerIsTold ==
    ASSUME deployed \in Deployments, share \in BOOLEAN, Settled, NEW m \in Methods, NEW outs,
           NEW route \in Routes(m, outs), NEW out \in Told(m, route),
           NEW i \in DOMAIN route, Answers(route[i])
    PROVE  out = route[i]
<1>. DEFINE list == Listed(config, m)
            chain == Chain(config, m)
<1>1. chain \subseteq Int
  BY Chains, Zenon DEF Settled
<1>2. Walked(chain, list, outs, route)
  BY <1>1, Walks, Zenon
<1>3. Earned(chain, m, route, out)
  BY <1>1, <1>2, Verdict, Zenon
<1>4. /\ DOMAIN route \subseteq chain
      /\ \A k \in DOMAIN route : \A j \in chain : j < k => route[j].kind \in Errors
  BY <1>2, Zenon DEF Walked
<1>. HIDE DEF list, chain
<1>5. i \in chain
  BY <1>4, Zenon
<1>6. \A k \in DOMAIN route : ~ (i < k)
  BY <1>4, <1>5, ErrorsFail, Zenon
<1>7. route[i].kind \in Kinds(route) /\ route[i].kind \notin Errors
  BY ErrorsFail, Zenon DEF Kinds
<1>8. PICK n \in DOMAIN route : out = route[n] /\ \A j \in DOMAIN route : j <= n
  BY <1>3, <1>7, Zenon DEF Earned
<1>9. i <= n /\ ~ (i < n) /\ i \in Int /\ n \in Int
  BY <1>1, <1>4, <1>6, <1>8, Zenon
<1>10. i = n
  BY <1>9
<1>11. QED
  BY <1>8, <1>10, Zenon

(* ------------------------------- a load -------------------------------- *)

\* What a load may come to: rows up to the day asked for, in bulk only recent
\* ones, of a frame that was young enough.
Good(c, out) ==
    /\ out.rows \subseteq Days /\ Past(c.date, out)
    /\ out.kind = "data" /\ c.bulk =>
          /\ Recent(c.date, out)
          /\ c.key * DayTicks <= c.frame.at
          /\ c.date >= c.key => c.asked <= c.frame.mtime + TTL

\* A load goes on with another day, or day by day.
Asks(k) ==
    /\ k \in Loads /\ k.pc = "look" /\ k.key = 0
    /\ k.day <= k.date /\ ~ k.bulk /\ \A r \in k.got : r <= k.date

Moves(p, c) ==
    \/ \E k : Asks(k) /\ Goto(p, k)
    \/ \E out : Good(c, out) /\ Finish(p, c, out)

LEMMA RaisedGood ==
    ASSUME NEW c, NEW e \in Errors
    PROVE  Good(c, Raised(e))
<1>1. Raised(e).rows = {} /\ Raised(e).kind = e /\ e # "data"
  BY Pieces DEF Errors
<1>2. QED
  BY <1>1, Zenon DEF Good, Past

LEMMA LookAsks ==
    ASSUME NEW c \in Loads, NEW day \in Days, day <= c.date, NEW got \in SUBSET Days,
           \A r \in got : r <= c.date
    PROVE  Asks(Look(c.to, c.date, day, FALSE, got))
<1>1. NoFrame \in Frame /\ 0 \in Days /\ 0 \in 0..MaxTick
  BY MarketAssumption DEF NoFrame, Frame, Days
<1>2. c.to \in Cached /\ c.date \in Days
  BY DEF Loads
<1>3. QED
  BY <1>1, <1>2 DEF Asks, Look, Loads

LEMMA NextDayMoves ==
    ASSUME NEW p, NEW c \in Loads, c.day <= c.date, ~ c.bulk, NEW got \in SUBSET Days,
           \A r \in got : r <= c.date, NextDay(p, c, got)
    PROVE  Moves(p, c)
<1>1. c.day \in Nat /\ c.date \in Nat /\ c.day \in Days /\ 0..c.day \subseteq Days
  BY DaysAreNumbers DEF Loads
<1>2. CASE c.day > 0 /\ Goto(p, Look(c.to, c.date, c.day - 1, FALSE, got))
  <2>1. c.day - 1 \in Days /\ c.day - 1 <= c.date
    BY <1>1, <1>2
  <2>2. Asks(Look(c.to, c.date, c.day - 1, FALSE, got))
    BY <2>1, LookAsks, Zenon
  <2>3. QED
    BY <1>2, <2>2, Zenon DEF Moves
<1>3. CASE Finish(p, c, Shown(got))
  <2>1. Shown(got).rows = got
    BY Pieces, Zenon
  <2>2. Good(c, Shown(got))
    BY <2>1, Zenon DEF Good, Past
  <2>3. QED
    BY <1>3, <2>2, Zenon DEF Moves
<1>4. QED
  BY <1>2, <1>3, Zenon DEF NextDay

LEMMA FailMoves ==
    ASSUME NEW p, NEW c \in Loads, c.day <= c.date, \A r \in c.got : r <= c.date, LoadFails(p, c)
    PROVE  Moves(p, c)
<1>1. c.day \in Days /\ c.got \in SUBSET Days
  BY DEF Loads
<1>2. CASE Finish(p, c, Raised("error"))
  <2>1. "error" \in Errors
    BY DEF Errors
  <2>2. QED
    BY <1>2, <2>1, RaisedGood, Zenon DEF Moves
<1>3. CASE Goto(p, Look(c.to, c.date, c.day, FALSE, c.got))
  BY <1>1, <1>3, LookAsks, Zenon DEF Moves
<1>4. CASE ~ c.bulk /\ NextDay(p, c, c.got)
  BY <1>1, <1>4, NextDayMoves, Zenon
<1>5. QED
  BY <1>2, <1>3, <1>4, Zenon DEF LoadFails

\* A frame that was young enough may be used.
LEMMA UseMoves ==
    ASSUME NEW p, NEW c \in Loads, c.day <= c.date, c.bulk => c.day = c.date,
           \A r \in c.got : r <= c.date, c.key * DayTicks <= c.frame.at,
           c.bulk /\ c.date >= c.key => c.asked <= c.frame.mtime + TTL,
           UseFrame(p, c)
    PROVE  Moves(p, c)
<1>. DEFINE s == RowsFor(c)
            w == {r \in s : r >= c.date - LookBack}
            got == c.got \cup (s \cap {c.day})
<1>1. /\ c.day \in Int /\ c.date \in Int /\ c.got \in SUBSET Days /\ c.frame.rows \subseteq Days
      /\ Days \subseteq Int
  <2>1. c.day \in Days /\ c.date \in Days /\ c.got \in SUBSET Days /\ c.frame \in Frame
    BY DEF Loads
  <2>2. c.frame.rows \subseteq Days
    BY <2>1 DEF Frame
  <2>3. Days \subseteq Int
    BY DaysAreNumbers
  <2>4. QED
    BY <2>1, <2>2, <2>3, Zenon
<1>2. s \subseteq Days /\ \A r \in s : r <= c.day
  BY <1>1, Cuts, Zenon DEF RowsFor
<1>3. \A r \in s : r <= c.date
  <2>1. \A r \in Int : r <= c.day => r <= c.date
    BY <1>1
  <2>2. QED
    BY <1>1, <1>2, <2>1, Zenon
<1>4. w \subseteq s
  BY Zenon
<1>5. \A x \in {s, w} : Shown(x).rows = x /\ x \subseteq Days /\ \A r \in x : r <= c.date
  BY <1>2, <1>3, <1>4, Pieces, Zenon
<1>6. ~ Stale(s, c.day) /\ c.bulk => Recent(c.date, Shown(s)) /\ Recent(c.date, Shown(w))
  <2>1. ASSUME ~ Stale(s, c.day), c.bulk
        PROVE  Recent(c.date, Shown(s)) /\ Recent(c.date, Shown(w))
    <3>1. s \in SUBSET Int /\ ~ Stale(s, c.date)
      BY <1>1, <1>2, <2>1, Zenon
    <3>2. Recent(c.date, Shown(s))
      BY <1>1, <3>1, NotStale, Zenon
    <3>3. ~ Stale(w, c.date)
      <4>1. \A r \in s : r \in Int /\ (r >= c.date - LookBack <=> r \in w)
        BY <1>1, <1>2, Zenon
      <4>2. s # {} => \E r \in s : ~ (c.date - r > MaxStale)
        BY <3>1, Zenon DEF Stale
      <4>. HIDE DEF s, w
      <4>3. ASSUME NEW q \in w PROVE \E r \in w : ~ (c.date - r > MaxStale)
        <5>1. q \in s
          BY <1>4, Zenon DEF s, w
        <5>2. PICK r \in s : ~ (c.date - r > MaxStale)
          BY <4>2, <5>1, Zenon
        <5>3. CASE r \in w
          BY <5>2, <5>3, Zenon
        <5>4. CASE r \notin w
          <6>1. ~ (r >= c.date - LookBack) /\ q >= c.date - LookBack /\ r \in Int /\ q \in Int
            BY <4>1, <5>1, <5>4, Zenon
          <6>2. ~ (c.date - q > MaxStale)
            BY <1>1, <5>2, <6>1, ClientAssumption
          <6>3. QED
            BY <6>2, Zenon
        <5>5. QED
          BY <5>3, <5>4, Zenon
      <4>4. QED
        BY <4>3, Zenon DEF Stale
    <3>4. w \in SUBSET Int
      BY <1>4, <3>1, Zenon
    <3>5. Recent(c.date, Shown(w))
      BY <1>1, <3>3, <3>4, NotStale, Zenon
    <3>6. QED
      BY <3>2, <3>5, Zenon
  <2>2. QED
    BY <2>1, Zenon
<1>7. \A x \in {s, w} : ~ Stale(s, c.day) => Good(c, Shown(x))
  BY <1>5, <1>6, Zenon DEF Good, Past
<1>8. got \in SUBSET Days /\ \A r \in got : r <= c.date
  BY <1>1, <1>2, <1>3, Zenon
<1>9. \/ Finish(p, c, Raised("nodata"))
      \/ ~ Stale(s, c.day) /\ Finish(p, c, Shown(s))
      \/ ~ Stale(s, c.day) /\ Finish(p, c, Shown(w))
      \/ ~ c.bulk /\ NextDay(p, c, got)
  BY Zenon DEF UseFrame
<1>. HIDE DEF s, w, got
<1>10. CASE Finish(p, c, Raised("nodata"))
  <2>1. "nodata" \in Errors
    BY DEF Errors
  <2>2. QED
    BY <1>10, <2>1, RaisedGood, Zenon DEF Moves
<1>11. CASE ~ Stale(s, c.day) /\ Finish(p, c, Shown(s))
  BY <1>7, <1>11, Zenon DEF Moves
<1>12. CASE ~ Stale(s, c.day) /\ Finish(p, c, Shown(w))
  BY <1>7, <1>12, Zenon DEF Moves
<1>13. CASE ~ c.bulk /\ NextDay(p, c, got)
  BY <1>8, <1>13, NextDayMoves, Zenon
<1>14. QED
  BY <1>9, <1>10, <1>11, <1>12, <1>13, Zenon

(* -------------------------- what is answered --------------------------- *)

\* The properties of an answer, all together.
AnswerGood ==
    /\ answer = NoAnswer \/ answer.out.rows \subseteq Days
    /\ NoLookAhead /\ PricesAreCurrent /\ VerdictIsEarned

LEMMA NoAnswerGood ==
    ASSUME answer = NoAnswer
    PROVE  AnswerGood
  BY Zenon DEF AnswerGood, NoLookAhead, PricesAreCurrent, VerdictIsEarned

\* The configuration of a run stays the same while the run lasts.
LEMMA SameRun ==
    ASSUME share' = share, deployed' = deployed
    PROVE  RunConfig(share)' = RunConfig(share)
  BY DEF RunConfig

\* A step that gives an answer for which the predicates above hold keeps the
\* properties.
Answer(m, date, out, tried, priced) ==
    [to |-> m, date |-> date, out |-> out, tried |-> tried, priced |-> priced]

LEMMA FairAnswers ==
    ASSUME NEW m, NEW date, NEW out, NEW tried, NEW priced,
           answer' = Answer(m, date, out, tried, priced), share' = share, deployed' = deployed,
           Timely(m, date, out, tried),
           m \in Methods => Fair(m, out, tried),
           priced = Idle \/ (Good(priced, out) /\ priced \in Loads /\ priced.date = date)
    PROVE  AnswerGood'
<1>1. /\ answer'.to = m /\ answer'.date = date /\ answer'.out = out /\ answer'.tried = tried
      /\ answer'.priced = priced
  BY DEF Answer
<1>2. NoLookAhead'
  <2>1. ASSUME m \notin OfToday, NEW r \in out.rows
        PROVE  \/ r <= date
               \/ m \in Statements /\ date = NoDate
               \/ /\ out.kind = "raw"
                  /\ \/ m \in Statements /\ AskedLast(tried, "akshare")
                     \/ /\ m \in Statements \cup {"get_stock_data"}
                        /\ AskedLast(tried, "alpha_vantage")
               \/ /\ AskedLast(tried, "akshare")
                  /\ (m \in Statements /\ out.rows = {r}) \/ (m = "get_news" /\ r = date + 1)
    BY <2>1, Zenon DEF Timely, Undated
  <2>2. QED
    BY <1>1, <2>1, Zenon DEF NoLookAhead
<1>3. VerdictIsEarned'
  BY <1>1, SameRun, Zenon DEF VerdictIsEarned, Fair
<1>4. PricesAreCurrent'
  <2>1. CASE priced = Idle
    BY <1>1, <2>1, Zenon DEF PricesAreCurrent, Timely, Recent
  <2>2. CASE priced # Idle
    <3>1. ASSUME out.kind = "data", priced.bulk
          PROVE  /\ \E r \in out.rows : date - r <= MaxStale
                 /\ \A r \in out.rows : r < priced.key => priced.frame.at >= r * DayTicks + CloseTick
                 /\ date >= priced.key => priced.frame.mtime + TTL >= priced.asked
      <4>1. /\ Recent(date, out) /\ priced.key * DayTicks <= priced.frame.at
            /\ date >= priced.key => priced.asked <= priced.frame.mtime + TTL
        BY <2>2, <3>1, Zenon DEF Good
      <4>2. /\ priced.key \in Nat /\ priced.frame.at \in Int /\ priced.frame.mtime \in Int
            /\ priced.asked \in Int /\ out.rows \subseteq Nat
        <5>1. /\ priced.key \in Days /\ priced.frame \in Frame /\ priced.asked \in 0..MaxTick
              /\ out.rows \subseteq Days
          BY <2>2 DEF Good, Loads
        <5>2. priced.frame.at \in Int /\ priced.frame.mtime \in Int /\ priced.asked \in Int
          BY <5>1 DEF Frame
        <5>3. QED
          BY <5>1, <5>2, DaysAreNumbers, Zenon
      <4>3. ASSUME NEW r \in out.rows, r < priced.key
            PROVE  priced.frame.at >= r * DayTicks + CloseTick
        <5>1. priced.key * DayTicks >= r * DayTicks + CloseTick
          BY <4>2, <4>3, FinalBars, Zenon
        <5>2. priced.key * DayTicks \in Int /\ r * DayTicks + CloseTick \in Int
          BY <4>2, MarketAssumption
        <5>3. QED
          BY <4>1, <4>2, <5>1, <5>2
      <4>4. date >= priced.key => priced.frame.mtime + TTL >= priced.asked
        BY <4>1, <4>2, MarketAssumption
      <4>5. QED
        BY <3>1, <4>1, <4>3, <4>4, Zenon DEF Recent
    <3>2. QED
      BY <1>1, <3>1, Zenon DEF PricesAreCurrent, Timely, Recent
  <2>3. QED
    BY <2>1, <2>2, Zenon
<1>5. QED
  BY <1>1, <1>2, <1>3, <1>4, Zenon DEF AnswerGood, Timely

\* What the vendors may come to, with what Yahoo came to in its place.
LEMMA AllSuit ==
    ASSUME NEW m \in Methods, NEW date \in Dates(m), now \in 0..MaxTick, NEW known,
           \A o \in known : Suits("yfinance", m, date, o)
    PROVE  \A v \in ToSet(VendorsOf(m)) : \A o \in [Outcomes(m, date) EXCEPT !["yfinance"] = known][v] :
               Suits(v, m, date, o)
<1>. DEFINE outs == [Outcomes(m, date) EXCEPT !["yfinance"] = known]
<1>1. DOMAIN Outcomes(m, date) = Vendors
  <2>1. Today \in Days
    BY Clock, Zenon
  <2>2. DOMAIN ClientTable[Today][m][date] = Vendors
    BY <2>1, Zenon DEF ClientTable
  <2>3. QED
    BY <2>2, Zenon DEF Outcomes
<1>2. ToSet(VendorsOf(m)) \subseteq Vendors
  <2>1. VendorsOf(m) \in Seq(Vendors)
    BY HavingIt, Zenon
  <2>2. QED
    BY <2>1 DEF ToSet
<1>3. ASSUME NEW v \in Vendors PROVE outs[v] = IF v = "yfinance" THEN known ELSE Outcomes(m, date)[v]
  BY <1>1
<1>4. ASSUME NEW v \in ToSet(VendorsOf(m)), NEW o \in outs[v]
      PROVE  Suits(v, m, date, o)
  <2>1. v \in Vendors
    BY <1>2, <1>4, Zenon
  <2>2. CASE v = "yfinance"
    BY <1>3, <1>4, <2>1, <2>2, Zenon
  <2>3. CASE v # "yfinance"
    <3>1. o \in Outcomes(m, date)[v]
      BY <1>3, <1>4, <2>1, <2>3, Zenon
    <3>2. QED
      BY <1>4, <3>1, ClientSuits, Zenon
  <2>4. QED
    BY <2>2, <2>3, Zenon
<1>5. QED
  BY <1>4, Zenon

\* A load that is answered well keeps the properties of answers.
LEMMA FinishAnswers ==
    ASSUME Typed, Settled, NEW p, NEW c \in Loads, NEW out, Good(c, out), Finish(p, c, out),
           share' = share, deployed' = deployed
    PROVE  AnswerGood'
<1>1. /\ now \in 0..MaxTick /\ share \in BOOLEAN /\ deployed \in Deployments
      /\ c.date \in Days /\ c.to \in Cached
  BY DEF Typed, Loads
<1>2. CASE c.to = "get_indicators"
  <2>. DEFINE m == "get_indicators"
              outs == [Outcomes(m, c.date) EXCEPT !["yfinance"] = {out}]
  <2>1. m \in Methods
    BY MethodsAre
  <2>2. CategoryOf(m) \notin OptionalCategories
    <3>1. m \notin {"get_macro_indicators", "get_prediction_markets"}
      OBVIOUS
    <3>2. QED
      BY <2>1, <3>1, Category, Zenon
  <2>3. Suits("yfinance", m, c.date, out)
    <3>1. m # "get_stock_data"
      OBVIOUS
    <3>2. QED
      BY <2>2, <3>1, Zenon DEF Suits, Good, Past
  <2>4. \A v \in ToSet(VendorsOf(m)) : \A o \in outs[v] : Suits(v, m, c.date, o)
    <3>1. c.date \in Dates(m)
      BY <1>1, Zenon DEF Dates
    <3>2. QED
      BY <1>1, <2>1, <2>3, <3>1, AllSuit, Zenon
  <2>5. PICK route \in Routes(m, outs) :
           /\ \E i \in DOMAIN route : Listed(config, m)[i] = "yfinance"
           /\ \E told \in Told(m, route) :
                 answer' = Answer(m, c.date, told, Tried(m, route), IF Answers(out) THEN c ELSE Idle)
    <3>1. \E route \in Routes(c.to, [Outcomes(c.to, c.date) EXCEPT !["yfinance"] = {out}]) :
              /\ \E i \in DOMAIN route : Listed(config, c.to)[i] = "yfinance"
              /\ \E told \in Told(c.to, route) :
                    answer' = [to |-> c.to, date |-> c.date, out |-> told, tried |-> Tried(c.to, route),
                               priced |-> IF Answers(out) THEN c ELSE Idle]
      BY <1>2, Zenon DEF Finish
    <3>2. QED
      BY <1>2, <3>1 DEF Answer
  <2>6. PICK told \in Told(m, route) :
           answer' = Answer(m, c.date, told, Tried(m, route), IF Answers(out) THEN c ELSE Idle)
    BY <2>5, Zenon
  <2>7. PICK i \in DOMAIN route : Listed(config, m)[i] = "yfinance"
    BY <2>5, Zenon
  <2>. HIDE DEF m
  <2>8. route[i] = out
    <3>1. Chain(config, m) \subseteq Int /\ \A k \in Chain(config, m) : Listed(config, m)[k] \in ToSet(VendorsOf(m))
      BY <1>1, <2>1, Chains, Zenon DEF Settled
    <3>2. Walked(Chain(config, m), Listed(config, m), outs, route)
      BY <3>1, Walks, Zenon
    <3>3. route[i] \in outs["yfinance"]
      BY <2>7, <3>2, Zenon DEF Walked
    <3>4. DOMAIN Outcomes(m, c.date) = Vendors /\ "yfinance" \in Vendors
      <4>1. Today \in Days
        BY <1>1, Clock, Zenon
      <4>2. DOMAIN ClientTable[Today][m][c.date] = Vendors
        <5>1. c.date \in Dates(m)
          BY <1>1, Zenon DEF Dates
        <5>2. QED
          BY <2>1, <4>1, <5>1, Zenon DEF ClientTable
      <4>3. "yfinance" \in Vendors
        BY DEF Vendors
      <4>4. QED
        BY <4>2, <4>3, Zenon DEF Outcomes
    <3>5. QED
      BY <3>3, <3>4
  <2>9. Answers(out) => told = out
    BY <1>1, <2>1, <2>6, <2>7, <2>8, AnswerIsTold, Zenon
  <2>10. Timely(m, c.date, told, Tried(m, route))
    BY <1>1, <2>1, <2>4, <2>6, RoutedTimely, Zenon
  <2>11. Fair(m, told, Tried(m, route))
    BY <1>1, <2>1, <2>4, <2>6, RoutedFair, Zenon
  <2>12. CASE Answers(out)
    <3>1. answer' = Answer(m, c.date, told, Tried(m, route), c)
      BY <2>6, <2>12, Zenon
    <3>2. QED
      BY <2>9, <2>10, <2>11, <2>12, <3>1, FairAnswers, Zenon
  <2>13. CASE ~ Answers(out)
    <3>1. answer' = Answer(m, c.date, told, Tried(m, route), Idle)
      BY <2>6, <2>13, Zenon
    <3>2. QED
      BY <2>10, <2>11, <3>1, FairAnswers, Zenon
  <2>14. QED
    BY <2>12, <2>13, Zenon
<1>3. CASE c.to # "get_indicators"
  <2>. DEFINE told == IF out.kind = "data" THEN out ELSE Raised("raised")
  <2>1. answer' = Answer(c.to, c.date, told, <<>>, c)
    BY <1>3 DEF Finish, Answer
  <2>2. c.to \notin Methods /\ c.to # "get_stock_data"
    BY <1>1, <1>3, MethodsAre DEF Cached
  <2>3. Raised("raised").rows = {} /\ Raised("raised").kind # "data"
    BY Pieces, Zenon
  <2>4. Good(c, told)
    BY <2>3, Zenon DEF Good, Past
  <2>5. Timely(c.to, c.date, told, <<>>)
    BY <2>2, <2>4, Zenon DEF Timely, Good, Past
  <2>. HIDE DEF told
  <2>6. QED
    BY <2>1, <2>2, <2>4, <2>5, FairAnswers, Zenon
<1>4. QED
  BY <1>2, <1>3, Zenon

LEMMA RouteCallAnswers ==
    ASSUME Typed, Settled, RouteCall
    PROVE  AnswerGood'
<1>1. PICK m \in Methods : \E date \in Dates(m) : \E route \in Routes(m, Outcomes(m, date)) :
         \E out \in Told(m, route) : answer' = Answer(m, date, out, Tried(m, route), Idle)
  BY Zenon DEF RouteCall, Answer
<1>2. PICK date \in Dates(m) : \E route \in Routes(m, Outcomes(m, date)) :
         \E out \in Told(m, route) : answer' = Answer(m, date, out, Tried(m, route), Idle)
  BY <1>1, Zenon
<1>. DEFINE outs == Outcomes(m, date)
<1>3. PICK route \in Routes(m, outs) :
         \E out \in Told(m, route) : answer' = Answer(m, date, out, Tried(m, route), Idle)
  BY <1>2, Zenon
<1>4. PICK out \in Told(m, route) : answer' = Answer(m, date, out, Tried(m, route), Idle)
  BY <1>3, Zenon
<1>5. /\ now \in 0..MaxTick /\ share \in BOOLEAN /\ deployed \in Deployments
      /\ share' = share /\ deployed' = deployed
  BY Zenon DEF Typed, RouteCall
<1>6. \A v \in ToSet(VendorsOf(m)) : \A o \in outs[v] : Suits(v, m, date, o)
  BY <1>1, <1>2, <1>5, ClientSuits, Zenon
<1>. HIDE DEF outs
<1>7. Timely(m, date, out, Tried(m, route))
  BY <1>1, <1>2, <1>3, <1>4, <1>5, <1>6, RoutedTimely, Zenon
<1>8. Fair(m, out, Tried(m, route))
  BY <1>1, <1>2, <1>3, <1>4, <1>5, <1>6, RoutedFair, Zenon
<1>9. QED
  BY <1>4, <1>5, <1>7, <1>8, FairAnswers, Zenon

LEMMA PrefetchAnswers ==
    ASSUME Typed, PrefetchSentiment
    PROVE  AnswerGood'
<1>1. PICK date \in 0..Today, source \in {"stocktwits", "reddit"} :
         \E out \in Posts[Today][source] : answer' = Answer(source, date, out, <<>>, Idle)
  BY Zenon DEF PrefetchSentiment, Answer
<1>2. PICK out \in Posts[Today][source] : answer' = Answer(source, date, out, <<>>, Idle)
  BY <1>1, Zenon
<1>3. Today \in Days /\ 0..Today \subseteq Days
  BY Clock, Zenon DEF Typed
<1>4. \E r \in Replies(Today) : out \in {RedditPosts(r), StockTwits(r)}
  <2>1. Posts[Today][source] = {IF source = "reddit" THEN RedditPosts(r) ELSE StockTwits(r) : r \in Replies(Today)}
    BY <1>1, <1>3 DEF Posts
  <2>2. QED
    BY <1>2, <2>1
<1>5. out.rows \subseteq Days
  <2>1. PICK r \in Replies(Today) : out \in {RedditPosts(r), StockTwits(r)}
    BY <1>4, Zenon
  <2>2. r.rows \subseteq Days
    BY <1>3, <2>1, Replied, Zenon
  <2>3. out = Shown({}) \/ out = Shown(r.rows)
    BY <2>1 DEF RedditPosts, StockTwits
  <2>4. Shown({}).rows = {} /\ Shown(r.rows).rows = r.rows
    BY Pieces, Zenon
  <2>5. QED
    BY <2>2, <2>3, <2>4
<1>6. source \in OfToday /\ source \notin Methods /\ source # "get_stock_data"
  BY <1>1, MethodsAre DEF OfToday
<1>7. Timely(source, date, out, <<>>)
  BY <1>5, <1>6, Zenon DEF Timely
<1>8. share' = share /\ deployed' = deployed
  BY Zenon DEF PrefetchSentiment
<1>9. QED
  BY <1>2, <1>6, <1>7, <1>8, FairAnswers, Zenon

(* ------------------------ the inductive invariant ---------------------- *)

LEMMA StillNoAnswer ==
    ASSUME answer' = NoAnswer
    PROVE  AnswerGood'
  BY Zenon DEF AnswerGood, NoLookAhead, PricesAreCurrent, VerdictIsEarned

LEMMA StillSettled ==
    ASSUME Settled, share' = share, deployed' = deployed, config' = config
    PROVE  Settled'
  BY SameRun, Zenon DEF Settled

\* The call of a thread that is in a step of a load.
LEMMA InLoad ==
    ASSUME Typed, Loaded, NEW p \in Threads, call[p].pc # "idle"
    PROVE  call[p] \in Loads /\ Sane(call[p])
<1>1. call[p] \in Loads \/ call[p] = Idle
  BY Zenon DEF Typed
<1>2. Idle.pc = "idle"
  BY DEF Idle
<1>3. QED
  BY <1>1, <1>2, Zenon DEF Loaded, Loading

\* A step of one call leaves the others as they were, if it leaves no file older
\* than its day.
FilesKeep == \A d \in Days : d * DayTicks <= now /\ d * DayTicks <= file[d].at => d * DayTicks <= file'[d].at

LEMMA OneCall ==
    ASSUME Typed, Loaded, FilesKeep, now' = now, NEW p \in Threads, NEW k \in Loads \cup {Idle},
           Set(p, k), k = Idle \/ Sane(k)'
    PROVE  call' \in [Threads -> Loads \cup {Idle}] /\ Loaded'
<1>1. call' = [call EXCEPT ![p] = k] /\ call \in [Threads -> Loads \cup {Idle}]
  BY Zenon DEF Set, Typed
<1>2. call' \in [Threads -> Loads \cup {Idle}]
  BY <1>1
<1>3. ASSUME NEW q \in Threads, Loading(q)'
      PROVE  Sane(call[q])'
  <2>1. CASE q = p
    <3>1. call'[q] = k
      BY <1>1, <2>1
    <3>2. Idle.pc = "idle"
      BY DEF Idle
    <3>3. QED
      BY <1>3, <3>1, <3>2 DEF Loading
  <2>2. CASE q # p
    <3>1. call'[q] = call[q]
      BY <1>1, <2>2
    <3>2. call[q] \in Loads /\ Sane(call[q])
      BY <1>3, <3>1, InLoad, Zenon DEF Loading
    <3>3. call[q].key \in Days
      BY <3>2 DEF Loads
    <3>4. QED
      BY <3>1, <3>2, <3>3, Zenon DEF Sane, FilesKeep
  <2>3. QED
    BY <2>1, <2>2, Zenon
<1>4. QED
  BY <1>2, <1>3, Zenon DEF Loaded

LEMMA Moved ==
    ASSUME Typed, Settled, Loaded, FilesKeep, now' = now, share' = share, deployed' = deployed,
           answer = NoAnswer, NEW p \in Threads, NEW c \in Loads, Moves(p, c)
    PROVE  call' \in [Threads -> Loads \cup {Idle}] /\ Loaded' /\ AnswerGood'
<1>1. ASSUME NEW k, Asks(k), Goto(p, k)
      PROVE  call' \in [Threads -> Loads \cup {Idle}] /\ Loaded' /\ AnswerGood'
  <2>1. 0 * DayTicks <= now
    BY MarketAssumption DEF Typed
  <2>2. Sane(k)'
    <3>1. k.pc \notin {"age", "write", "close"}
      BY <1>1 DEF Asks
    <3>2. k.pc \notin {"write", "close"}
      BY <3>1
    <3>3. QED
      BY <1>1, <2>1, <3>1, <3>2, Zenon DEF Asks, Sane
  <2>3. k \in Loads \cup {Idle}
    BY <1>1, Zenon DEF Asks
  <2>4. call' \in [Threads -> Loads \cup {Idle}] /\ Loaded'
    BY <1>1, <2>2, <2>3, OneCall, Zenon DEF Goto
  <2>5. QED
    BY <1>1, <2>4, StillNoAnswer, Zenon DEF Goto
<1>2. ASSUME NEW out, Good(c, out), Finish(p, c, out)
      PROVE  call' \in [Threads -> Loads \cup {Idle}] /\ Loaded' /\ AnswerGood'
  <2>1. Idle \in Loads \cup {Idle}
    BY Zenon
  <2>2. call' \in [Threads -> Loads \cup {Idle}] /\ Loaded'
    BY <1>2, <2>1, OneCall, Zenon DEF Finish
  <2>3. QED
    BY <1>2, <2>2, FinishAnswers, Zenon
<1>3. QED
  BY <1>1, <1>2, Zenon DEF Moves

\* The invariant, and the properties of the answer, after a step.
Whole == IInv /\ AnswerGood

\* A step of a load that changes no file.
LEMMA SameFiles ==
    ASSUME Typed, file' = file
    PROVE  FilesKeep
  BY Zenon DEF FilesKeep

\* A call that goes on with a load that is sane, or with none.
LEMMA GoesOn ==
    ASSUME Typed, Loaded, FilesKeep, now' = now, NEW p \in Threads, NEW k \in Loads, Sane(k)',
           Goto(p, k), answer = NoAnswer
    PROVE  call' \in [Threads -> Loads \cup {Idle}] /\ Loaded' /\ AnswerGood'
<1>1. k \in Loads \cup {Idle}
  BY Zenon
<1>2. call' \in [Threads -> Loads \cup {Idle}] /\ Loaded'
  BY <1>1, OneCall, Zenon DEF Goto
<1>3. QED
  BY <1>2, StillNoAnswer, Zenon DEF Goto

LEMMA ReadCacheKeeps ==
    ASSUME IInv, answer = NoAnswer, NEW p \in Threads, ReadCache(p)
    PROVE  Whole'
<1>1. PICK c : c = call[p]
  OBVIOUS
<1>2. PICK f : f = file[Today]
  OBVIOUS
<1>3. /\ c.pc = "look"
      /\ now' = now /\ file' = file /\ calls' = calls /\ deployed' = deployed
      /\ config' = config /\ share' = share
  BY <1>1, Zenon DEF ReadCache
<1>4. c \in Loads /\ Sane(c)
  <2>1. c.pc # "idle"
    BY <1>3
  <2>2. QED
    BY <1>1, <2>1, InLoad, Zenon DEF IInv
<1>5. Today \in Days /\ Today * DayTicks <= now /\ now \in 0..MaxTick
  BY Clock, Zenon DEF IInv, Typed
<1>6. f \in Files /\ (f.rows # {} => Today * DayTicks <= f.at)
  BY <1>2, <1>5, Zenon DEF IInv, Typed, Written
<1>7. FilesKeep
  BY <1>3, SameFiles, Zenon DEF IInv
<1>8. NoFrame \in Frame /\ 0 \in 0..MaxTick /\ now <= now
  BY <1>5, MarketAssumption DEF NoFrame, Frame
<1>9. call' \in [Threads -> Loads \cup {Idle}] /\ Loaded' /\ AnswerGood'
  <2>1. CASE Goto(p, At(c, "download", Today, 0, NoFrame))
    <3>1. PICK k : k = At(c, "download", Today, 0, NoFrame)
      OBVIOUS
    <3>2. k \in Loads
      BY <1>4, <1>5, <1>8, <3>1 DEF At, Loads
    <3>3. /\ k.pc = "download" /\ k.key = Today /\ k.day = c.day /\ k.date = c.date
          /\ k.bulk = c.bulk /\ k.got = c.got
      BY <3>1 DEF At
    <3>4. k.pc \notin {"age", "write", "close"} /\ k.pc \notin {"write", "close"}
      BY <3>3
    <3>5. Sane(k)'
      BY <1>3, <1>4, <1>5, <3>3, <3>4, Zenon DEF Sane
    <3>6. QED
      BY <1>3, <1>7, <2>1, <3>1, <3>2, <3>5, GoesOn, Zenon DEF IInv
  <2>2. CASE LoadFails(p, c)
    <3>1. Moves(p, c)
      BY <1>4, <2>2, FailMoves, Zenon DEF Sane
    <3>2. QED
      BY <1>3, <1>4, <1>7, <3>1, Moved, Zenon DEF IInv
  <2>3. CASE /\ f.rows # {}
             /\ Goto(p, At(c, "age", Today, now,
                           [rows |-> f.rows, at |-> f.at, mtime |-> 0, sound |-> f.whole]))
    <3>1. PICK g : g = [rows |-> f.rows, at |-> f.at, mtime |-> 0, sound |-> f.whole]
      OBVIOUS
    <3>2. PICK k : k = At(c, "age", Today, now, g)
      OBVIOUS
    <3>3. g \in Frame /\ g.at = f.at
      BY <1>6, <1>8, <3>1 DEF Files, Frame
    <3>4. k \in Loads
      BY <1>4, <1>5, <3>2, <3>3 DEF At, Loads
    <3>5. /\ k.pc = "age" /\ k.key = Today /\ k.day = c.day /\ k.date = c.date
          /\ k.bulk = c.bulk /\ k.got = c.got /\ k.asked = now /\ k.frame = g
      BY <3>2 DEF At
    <3>6. k.pc \notin {"write", "close"}
      BY <3>5
    <3>7. Sane(k)'
      BY <1>3, <1>4, <1>5, <1>6, <1>8, <2>3, <3>3, <3>5, <3>6, Zenon DEF Sane
    <3>8. QED
      BY <1>3, <1>7, <2>3, <3>1, <3>2, <3>4, <3>7, GoesOn, Zenon DEF IInv
  <2>4. QED
    BY <1>1, <1>2, <2>1, <2>2, <2>3, Zenon DEF ReadCache
<1>10. Settled'
  BY <1>3, StillSettled, Zenon DEF IInv
<1>11. QED
  BY <1>3, <1>9, <1>10, Zenon DEF Whole, IInv, Typed, Written

LEMMA CheckAgeKeeps ==
    ASSUME IInv, answer = NoAnswer, NEW p \in Threads, CheckAge(p)
    PROVE  Whole'
<1>1. PICK c : c = call[p]
  OBVIOUS
<1>2. PICK f : f = file[c.key]
  OBVIOUS
<1>3. /\ c.pc = "age"
      /\ now' = now /\ file' = file /\ calls' = calls /\ deployed' = deployed
      /\ config' = config /\ share' = share
  BY <1>1, Zenon DEF CheckAge
<1>4. c \in Loads /\ Sane(c)
  <2>1. c.pc # "idle"
    BY <1>3
  <2>2. QED
    BY <1>1, <2>1, InLoad, Zenon DEF IInv
<1>5. c.key \in Days /\ c.frame \in Frame /\ c.asked \in 0..MaxTick /\ now \in 0..MaxTick
  BY <1>4, Zenon DEF Loads, IInv, Typed
<1>6. f \in Files
  BY <1>2, <1>5, Zenon DEF IInv, Typed
<1>7. FilesKeep
  BY <1>3, SameFiles, Zenon DEF IInv
<1>8. NoFrame \in Frame /\ 0 \in 0..MaxTick
  BY MarketAssumption DEF NoFrame, Frame
<1>9. c.key * DayTicks <= now /\ c.key * DayTicks <= c.frame.at /\ c.asked <= now
  <2>1. c.pc \in {"age", "write", "close"}
    BY <1>3
  <2>2. QED
    BY <1>4, <2>1, Zenon DEF Sane
<1>10. call' \in [Threads -> Loads \cup {Idle}] /\ Loaded' /\ AnswerGood'
  <2>1. CASE Goto(p, At(c, "download", c.key, 0, NoFrame))
    <3>1. PICK k : k = At(c, "download", c.key, 0, NoFrame)
      OBVIOUS
    <3>2. k \in Loads
      BY <1>4, <1>5, <1>8, <3>1 DEF At, Loads
    <3>3. /\ k.pc = "download" /\ k.key = c.key /\ k.day = c.day /\ k.date = c.date
          /\ k.bulk = c.bulk /\ k.got = c.got
      BY <3>1 DEF At
    <3>4. k.pc \notin {"age", "write", "close"} /\ k.pc \notin {"write", "close"}
      BY <3>3
    <3>5. Sane(k)'
      BY <1>3, <1>4, <1>9, <3>3, <3>4, Zenon DEF Sane
    <3>6. QED
      BY <1>3, <1>7, <2>1, <3>1, <3>2, <3>5, GoesOn, Zenon DEF IInv
  <2>2. CASE /\ ~ NeedsSameDayRefresh(c)
             /\ UseFrame(p, At(c, "age", c.key, c.asked,
                   [rows |-> c.frame.rows, at |-> c.frame.at, mtime |-> f.mtime,
                    sound |-> c.frame.sound /\ f.whole /\ f.at = c.frame.at]))
    <3>1. PICK sound \in BOOLEAN : sound = (c.frame.sound /\ f.whole /\ f.at = c.frame.at)
      OBVIOUS
    <3>2. PICK g : g = [rows |-> c.frame.rows, at |-> c.frame.at, mtime |-> f.mtime, sound |-> sound]
      OBVIOUS
    <3>3. PICK k : k = At(c, "age", c.key, c.asked, g)
      OBVIOUS
    <3>4. g \in Frame /\ g.at = c.frame.at /\ g.mtime = f.mtime
      BY <1>5, <1>6, <3>2 DEF Files, Frame
    <3>5. k \in Loads
      BY <1>4, <1>5, <3>3, <3>4 DEF At, Loads
    <3>6. /\ k.key = c.key /\ k.day = c.day /\ k.date = c.date
          /\ k.bulk = c.bulk /\ k.got = c.got /\ k.asked = c.asked /\ k.frame = g
      BY <3>3 DEF At
    <3>7. ASSUME k.bulk, k.date >= k.key
          PROVE  k.asked <= k.frame.mtime + TTL
      <4>1. c.day >= c.key
        BY <1>4, <3>6, <3>7, Zenon DEF Sane
      <4>2. ~ (now - f.mtime > TTL)
        BY <1>2, <2>2, <4>1, Zenon DEF NeedsSameDayRefresh
      <4>3. f.mtime \in Int
        BY <1>6 DEF Files
      <4>4. c.asked <= f.mtime + TTL
        BY <1>5, <1>9, <4>2, <4>3, MarketAssumption
      <4>5. QED
        BY <3>4, <3>6, <4>4, Zenon
    <3>8. UseFrame(p, k)
      BY <2>2, <3>1, <3>2, <3>3, Zenon
    <3>9. /\ k.day <= k.date /\ (k.bulk => k.day = k.date) /\ \A r \in k.got : r <= k.date
          /\ k.key * DayTicks <= k.frame.at
      BY <1>4, <1>9, <3>4, <3>6, Zenon DEF Sane
    <3>10. Moves(p, k)
      BY <3>5, <3>7, <3>8, <3>9, UseMoves, Zenon
    <3>11. QED
      BY <1>3, <1>7, <3>5, <3>10, Moved, Zenon DEF IInv
  <2>3. QED
    BY <1>1, <1>2, <2>1, <2>2, Zenon DEF CheckAge
<1>11. Settled'
  BY <1>3, StillSettled, Zenon DEF IInv
<1>12. QED
  BY <1>3, <1>10, <1>11, Zenon DEF Whole, IInv, Typed, Written

\* A step that writes one file, on its day or later.
LEMMA OneFile ==
    ASSUME Typed, Written, NEW d \in Days, NEW g \in Files, d * DayTicks <= g.at,
           file' = [file EXCEPT ![d] = g]
    PROVE  file' \in [Days -> Files] /\ Written' /\ FilesKeep /\ file'[d] = g
<1>1. file \in [Days -> Files]
  BY Zenon DEF Typed
<1>2. file' \in [Days -> Files] /\ file'[d] = g /\ \A e \in Days : e # d => file'[e] = file[e]
  BY <1>1
<1>3. \A e \in Days : file'[e] = g \/ file'[e] = file[e]
  BY <1>2, Zenon
<1>4. ASSUME NEW e \in Days, file'[e].rows # {}
      PROVE  e * DayTicks <= file'[e].at
  <2>1. CASE e = d
    BY <1>2, <2>1, Zenon
  <2>2. CASE e # d
    BY <1>2, <1>4, <2>2, Zenon DEF Written
  <2>3. QED
    BY <2>1, <2>2, Zenon
<1>5. ASSUME NEW e \in Days, e * DayTicks <= file[e].at
      PROVE  e * DayTicks <= file'[e].at
  <2>1. CASE e = d
    BY <1>2, <2>1, Zenon
  <2>2. CASE e # d
    BY <1>2, <1>5, <2>2, Zenon
  <2>3. QED
    BY <2>1, <2>2, Zenon
<1>6. QED
  BY <1>2, <1>4, <1>5, Zenon DEF Written, FilesKeep

LEMMA DownloadKeeps ==
    ASSUME IInv, answer = NoAnswer, NEW p \in Threads, Download(p)
    PROVE  Whole'
<1>1. PICK c : c = call[p]
  OBVIOUS
<1>2. /\ c.pc = "download"
      /\ now' = now /\ calls' = calls /\ deployed' = deployed
      /\ config' = config /\ share' = share
  BY <1>1, Zenon DEF Download
<1>3. c \in Loads /\ Sane(c)
  <2>1. c.pc # "idle"
    BY <1>2
  <2>2. QED
    BY <1>1, <2>1, InLoad, Zenon DEF IInv
<1>4. c.key \in Days /\ now \in 0..MaxTick /\ c.key * DayTicks <= now /\ now <= now
  <2>1. c.key \in Days /\ now \in 0..MaxTick
    BY <1>3, Zenon DEF Loads, IInv, Typed
  <2>2. now <= now
    BY <2>1
  <2>3. QED
    BY <1>3, <2>1, <2>2, Zenon DEF Sane
<1>5. Today \in Days /\ 0..Today \subseteq Days
  BY <1>4, Clock, Zenon
<1>6. PICK cn \in IF share THEN AShareFrames[Today] ELSE {{}} :
         \/ LoadFails(p, c) /\ UNCHANGED file
         \/ \E rows \in IF cn # {} THEN {cn} ELSE {r.rows : r \in Prices[Today]} :
               \/ Finish(p, c, Raised("nodata")) /\ UNCHANGED file
               \/ /\ Goto(p, At(c, "write", c.key, now,
                               [rows |-> rows, at |-> now, mtime |-> now, sound |-> TRUE]))
                  /\ file' = [file EXCEPT ![c.key] = [rows |-> {}, at |-> now, mtime |-> now,
                                                      whole |-> FALSE, opener |-> p]]
  BY <1>1, Zenon DEF Download
<1>7. \A rows \in IF cn # {} THEN {cn} ELSE {r.rows : r \in Prices[Today]} : rows \subseteq Days
  <2>1. cn \subseteq 0..Today /\ \A r \in Prices[Today] : r.rows \subseteq 0..Today
    BY <1>5, <1>6, Replied, Zenon
  <2>2. TAKE rows \in IF cn # {} THEN {cn} ELSE {r.rows : r \in Prices[Today]}
  <2>3. rows = cn \/ \E r \in Prices[Today] : rows = r.rows
    BY <2>2, Zenon
  <2>4. QED
    BY <1>5, <2>1, <2>3, Zenon
<1>8. Settled'
  BY <1>2, StillSettled, Zenon DEF IInv
<1>9. CASE Moves(p, c) /\ file' = file
  <2>1. FilesKeep
    BY <1>9, SameFiles, Zenon DEF IInv
  <2>2. call' \in [Threads -> Loads \cup {Idle}] /\ Loaded' /\ AnswerGood'
    BY <1>2, <1>3, <1>9, <2>1, Moved, Zenon DEF IInv
  <2>3. QED
    BY <1>2, <1>8, <1>9, <2>2, Zenon DEF Whole, IInv, Typed, Written
<1>10. CASE LoadFails(p, c) /\ file' = file
  <2>1. Moves(p, c)
    BY <1>3, <1>10, FailMoves, Zenon DEF Sane
  <2>2. QED
    BY <1>9, <1>10, <2>1, Zenon
<1>11. CASE Finish(p, c, Raised("nodata")) /\ file' = file
  <2>1. "nodata" \in Errors
    BY DEF Errors
  <2>2. Moves(p, c)
    BY <1>11, <2>1, RaisedGood, Zenon DEF Moves
  <2>3. QED
    BY <1>9, <1>11, <2>2, Zenon
<1>12. ASSUME NEW rows \in SUBSET Days,
              Goto(p, At(c, "write", c.key, now,
                         [rows |-> rows, at |-> now, mtime |-> now, sound |-> TRUE])),
              file' = [file EXCEPT ![c.key] = [rows |-> {}, at |-> now, mtime |-> now,
                                               whole |-> FALSE, opener |-> p]]
       PROVE  Whole'
  <2>1. PICK g : g = [rows |-> {}, at |-> now, mtime |-> now, whole |-> FALSE, opener |-> p]
    OBVIOUS
  <2>2. PICK h : h = [rows |-> rows, at |-> now, mtime |-> now, sound |-> TRUE]
    OBVIOUS
  <2>3. PICK k : k = At(c, "write", c.key, now, h)
    OBVIOUS
  <2>4. g \in Files /\ g.at = now
    BY <1>4, <2>1 DEF Files
  <2>5. h \in Frame /\ h.at = now /\ h.mtime = now
    BY <1>4, <2>2 DEF Frame
  <2>6. k \in Loads
    BY <1>3, <1>4, <2>3, <2>5 DEF At, Loads
  <2>7. /\ k.pc = "write" /\ k.key = c.key /\ k.day = c.day /\ k.date = c.date
        /\ k.bulk = c.bulk /\ k.got = c.got /\ k.asked = now /\ k.frame = h
    BY <2>3 DEF At
  <2>8. file' \in [Days -> Files] /\ Written' /\ FilesKeep /\ file'[c.key] = g
    BY <1>4, <1>12, <2>1, <2>4, OneFile, Zenon DEF IInv
  <2>9. Sane(k)'
    BY <1>2, <1>3, <1>4, <2>4, <2>5, <2>7, <2>8, Zenon DEF Sane
  <2>10. call' \in [Threads -> Loads \cup {Idle}] /\ Loaded' /\ AnswerGood'
    BY <1>2, <1>12, <2>2, <2>3, <2>6, <2>8, <2>9, GoesOn, Zenon DEF IInv
  <2>11. QED
    BY <1>2, <1>8, <2>8, <2>10, Zenon DEF Whole, IInv, Typed
<1>13. QED
  BY <1>6, <1>7, <1>10, <1>11, <1>12, Zenon

LEMMA WriteSomeKeeps ==
    ASSUME IInv, answer = NoAnswer, NEW p \in Threads, WriteSome(p)
    PROVE  Whole'
<1>1. PICK c : c = call[p]
  OBVIOUS
<1>2. PICK f : f = file[c.key]
  OBVIOUS
<1>3. /\ c.pc = "write"
      /\ now' = now /\ calls' = calls /\ deployed' = deployed
      /\ config' = config /\ share' = share
  BY <1>1, Zenon DEF WriteSome
<1>4. c \in Loads /\ Sane(c)
  <2>1. c.pc # "idle"
    BY <1>3
  <2>2. QED
    BY <1>1, <2>1, InLoad, Zenon DEF IInv
<1>5. c.key \in Days /\ now \in 0..MaxTick /\ c.frame \in Frame /\ c.asked \in 0..MaxTick
  BY <1>4, Zenon DEF Loads, IInv, Typed
<1>6. f \in Files
  BY <1>2, <1>5, Zenon DEF IInv, Typed
<1>7. /\ c.key * DayTicks <= now /\ c.key * DayTicks <= c.frame.at /\ c.asked <= now
      /\ c.asked <= c.frame.mtime /\ c.key * DayTicks <= f.at
  <2>1. c.pc \in {"age", "write", "close"} /\ c.pc \in {"write", "close"}
    BY <1>3
  <2>2. QED
    BY <1>2, <1>4, <2>1, Zenon DEF Sane
<1>8. PICK d \in c.frame.rows :
         file' = [file EXCEPT ![c.key] = [rows |-> 0..d, at |-> f.at, mtime |-> now,
                                          whole |-> FALSE, opener |-> f.opener]]
  BY <1>1, <1>2, Zenon DEF WriteSome
<1>9. Goto(p, At(c, "close", c.key, c.asked, c.frame))
  BY <1>1, Zenon DEF WriteSome
<1>10. PICK g : g = [rows |-> 0..d, at |-> f.at, mtime |-> now, whole |-> FALSE, opener |-> f.opener]
  OBVIOUS
<1>11. 0..d \subseteq Days
  <2>1. d \in Days
    BY <1>5 DEF Frame
  <2>2. QED
    BY <2>1, DaysAreNumbers, Zenon
<1>12. g \in Files /\ g.at = f.at
  BY <1>5, <1>6, <1>10, <1>11 DEF Files
<1>13. file' \in [Days -> Files] /\ Written' /\ FilesKeep /\ file'[c.key] = g
  BY <1>5, <1>7, <1>8, <1>10, <1>12, OneFile, Zenon DEF IInv
<1>14. PICK k : k = At(c, "close", c.key, c.asked, c.frame)
  OBVIOUS
<1>15. k \in Loads
  BY <1>4, <1>5, <1>14 DEF At, Loads
<1>16. /\ k.pc = "close" /\ k.key = c.key /\ k.day = c.day /\ k.date = c.date
       /\ k.bulk = c.bulk /\ k.got = c.got /\ k.asked = c.asked /\ k.frame = c.frame
  BY <1>14 DEF At
<1>17. Sane(k)'
  BY <1>3, <1>4, <1>7, <1>12, <1>13, <1>16, Zenon DEF Sane
<1>18. call' \in [Threads -> Loads \cup {Idle}] /\ Loaded' /\ AnswerGood'
  BY <1>3, <1>9, <1>13, <1>14, <1>15, <1>17, GoesOn, Zenon DEF IInv
<1>19. Settled'
  BY <1>3, StillSettled, Zenon DEF IInv
<1>20. QED
  BY <1>3, <1>13, <1>18, <1>19, Zenon DEF Whole, IInv, Typed

LEMMA CloseFileKeeps ==
    ASSUME IInv, answer = NoAnswer, NEW p \in Threads, CloseFile(p)
    PROVE  Whole'
<1>1. PICK c : c = call[p]
  OBVIOUS
<1>2. PICK f : f = file[c.key]
  OBVIOUS
<1>3. /\ c.pc \in {"write", "close"} /\ UseFrame(p, c)
      /\ now' = now /\ calls' = calls /\ deployed' = deployed
      /\ config' = config /\ share' = share
  BY <1>1, Zenon DEF CloseFile
<1>4. c \in Loads /\ Sane(c)
  <2>1. c.pc # "idle"
    BY <1>3
  <2>2. QED
    BY <1>1, <2>1, InLoad, Zenon DEF IInv
<1>5. c.key \in Days /\ now \in 0..MaxTick /\ c.frame \in Frame /\ c.asked \in 0..MaxTick
  BY <1>4, Zenon DEF Loads, IInv, Typed
<1>6. f \in Files
  BY <1>2, <1>5, Zenon DEF IInv, Typed
<1>7. c.key * DayTicks <= c.frame.at /\ c.asked <= c.frame.mtime
  <2>1. c.pc \in {"age", "write", "close"}
    BY <1>3
  <2>2. QED
    BY <1>3, <1>4, <2>1, Zenon DEF Sane
<1>8. PICK whole \in BOOLEAN, d \in c.frame.rows :
         file' = [file EXCEPT ![c.key] = [rows |-> 0..d, at |-> c.frame.at, mtime |-> now,
                                          whole |-> whole, opener |-> f.opener]]
  BY <1>1, <1>2, Zenon DEF CloseFile
<1>9. PICK g : g = [rows |-> 0..d, at |-> c.frame.at, mtime |-> now, whole |-> whole, opener |-> f.opener]
  OBVIOUS
<1>10. 0..d \subseteq Days
  <2>1. d \in Days
    BY <1>5 DEF Frame
  <2>2. QED
    BY <2>1, DaysAreNumbers, Zenon
<1>11. g \in Files /\ g.at = c.frame.at
  BY <1>5, <1>6, <1>9, <1>10 DEF Files, Frame
<1>12. file' \in [Days -> Files] /\ Written' /\ FilesKeep
  BY <1>5, <1>7, <1>8, <1>9, <1>11, OneFile, Zenon DEF IInv
<1>13. c.asked <= c.frame.mtime + TTL
  <2>1. c.frame.mtime \in Int
    BY <1>5 DEF Frame
  <2>2. QED
    BY <1>5, <1>7, <2>1, MarketAssumption
<1>14. Moves(p, c)
  <2>1. /\ c.day <= c.date /\ (c.bulk => c.day = c.date) /\ \A r \in c.got : r <= c.date
    BY <1>4, Zenon DEF Sane
  <2>2. QED
    BY <1>3, <1>4, <1>7, <1>13, <2>1, UseMoves, Zenon
<1>15. call' \in [Threads -> Loads \cup {Idle}] /\ Loaded' /\ AnswerGood'
  BY <1>3, <1>4, <1>12, <1>14, Moved, Zenon DEF IInv
<1>16. Settled'
  BY <1>3, StillSettled, Zenon DEF IInv
<1>17. QED
  BY <1>3, <1>12, <1>15, <1>16, Zenon DEF Whole, IInv, Typed

LEMMA BeginCallKeeps ==
    ASSUME IInv, answer = NoAnswer, NEW p \in Threads, BeginCall(p)
    PROVE  Whole'
<1>1. PICK m \in Cached, date \in 0..Today :
         /\ calls < MaxCalls /\ Set(p, Look(m, date, date, TRUE, {})) /\ calls' = calls + 1
         /\ now' = now /\ file' = file /\ deployed' = deployed /\ config' = config /\ share' = share
         /\ answer' = answer
  BY Zenon DEF BeginCall
<1>2. PICK k : k = Look(m, date, date, TRUE, {})
  OBVIOUS
<1>3. now \in 0..MaxTick /\ calls \in 0..MaxCalls
  BY Zenon DEF IInv, Typed
<1>4. date \in Days /\ date <= date
  <2>1. date \in Days
    BY <1>1, <1>3, Clock, Zenon
  <2>2. QED
    BY <2>1, DaysAreNumbers
<1>5. k \in Loads
  <2>1. NoFrame \in Frame /\ 0 \in Days /\ 0 \in 0..MaxTick
    BY MarketAssumption DEF NoFrame, Frame, Days
  <2>2. QED
    BY <1>1, <1>2, <1>4, <2>1 DEF Look, Loads
<1>6. Sane(k)'
  <2>1. k.pc = "look" /\ k.key = 0 /\ k.day = date /\ k.date = date /\ k.got = {}
    BY <1>2 DEF Look
  <2>2. k.pc \notin {"age", "write", "close"} /\ k.pc \notin {"write", "close"}
    BY <2>1
  <2>3. 0 * DayTicks <= now
    BY <1>3, MarketAssumption
  <2>4. QED
    BY <1>1, <1>4, <2>1, <2>2, <2>3, Zenon DEF Sane
<1>7. FilesKeep
  BY <1>1, SameFiles, Zenon DEF IInv
<1>8. call' \in [Threads -> Loads \cup {Idle}] /\ Loaded' /\ AnswerGood'
  BY <1>1, <1>2, <1>5, <1>6, <1>7, GoesOn, Zenon DEF IInv, Goto
<1>9. calls' \in 0..MaxCalls
  BY <1>1, <1>3, MarketAssumption
<1>10. Settled'
  BY <1>1, StillSettled, Zenon DEF IInv
<1>11. QED
  BY <1>1, <1>8, <1>9, <1>10, Zenon DEF Whole, IInv, Typed, Written

\* A step that touches neither the clock nor the files nor the calls.
LEMMA LoadsStay ==
    ASSUME Loaded, now' = now, file' = file, call' = call
    PROVE  Loaded'
  BY Zenon DEF Loaded, Loading, Sane

LEMMA StartRunKeeps ==
    ASSUME IInv, answer = NoAnswer, StartRun
    PROVE  Whole'
<1>1. /\ share' \in BOOLEAN /\ config' = SetConfig(config, RunConfig(share'))
      /\ now' = now /\ file' = file /\ call' = call /\ calls' = calls /\ deployed' = deployed
      /\ answer' = answer
  BY Zenon DEF StartRun
<1>2. /\ deployed \in Deployments /\ share \in BOOLEAN /\ config = RunConfig(share)
  BY Zenon DEF IInv, Typed, Settled
<1>3. config' = RunConfig(share')
  BY <1>1, <1>2, SetAgain, Zenon
<1>4. RunConfig(share)' = RunConfig(share')
  BY <1>1 DEF RunConfig
<1>5. Settled'
  BY <1>3, <1>4, Zenon DEF Settled
<1>6. Loaded'
  BY <1>1, LoadsStay, Zenon DEF IInv
<1>7. AnswerGood'
  BY <1>1, StillNoAnswer, Zenon
<1>8. QED
  BY <1>1, <1>5, <1>6, <1>7, Zenon DEF Whole, IInv, Typed, Written

\* A step that only answers, or takes the answer away.
LEMMA OnlyAnswers ==
    ASSUME IInv, UNCHANGED <<now, file, call, calls, deployed, config, share>>, AnswerGood'
    PROVE  Whole'
<1>1. Settled'
  BY StillSettled, Zenon DEF IInv
<1>2. Loaded'
  BY LoadsStay, Zenon DEF IInv
<1>3. QED
  BY <1>1, <1>2, Zenon DEF Whole, IInv, Typed, Written

LEMMA CrashKeeps ==
    ASSUME IInv, answer = NoAnswer, Crash
    PROVE  Whole'
<1>1. /\ call' = [q \in Threads |-> Idle] /\ config' = SetConfig(deployed, RunConfig(share))
      /\ now' = now /\ file' = file /\ calls' = calls /\ deployed' = deployed /\ share' = share
      /\ answer' = answer
  BY Zenon DEF Crash
<1>2. deployed \in Deployments /\ share \in BOOLEAN
  BY Zenon DEF IInv, Typed
<1>3. config' = RunConfig(share)
  <2>1. RunConfig(FALSE) = deployed
    BY Zenon DEF RunConfig
  <2>2. SetConfig(RunConfig(FALSE), RunConfig(share)) = RunConfig(share)
    BY <1>2, SetAgain, Zenon
  <2>3. QED
    BY <1>1, <2>1, <2>2, Zenon
<1>4. Settled'
  BY <1>1, <1>3, SameRun, Zenon DEF Settled
<1>5. call' \in [Threads -> Loads \cup {Idle}]
  BY <1>1, Zenon
<1>6. Loaded'
  <2>1. \A q \in Threads : call'[q] = Idle
    BY <1>1, Zenon
  <2>2. Idle.pc = "idle"
    BY DEF Idle
  <2>3. QED
    BY <2>1, <2>2, Zenon DEF Loaded, Loading
<1>7. AnswerGood'
  BY <1>1, StillNoAnswer, Zenon
<1>8. QED
  BY <1>1, <1>4, <1>5, <1>6, <1>7, Zenon DEF Whole, IInv, Typed, Written

LEMMA TickKeeps ==
    ASSUME IInv, answer = NoAnswer, Tick
    PROVE  Whole'
<1>1. /\ now < MaxTick /\ now' = now + 1
      /\ call' = call /\ calls' = calls /\ deployed' = deployed /\ config' = config /\ share' = share
      /\ answer' = answer
  BY Zenon DEF Tick
<1>2. PICK old : old = now' \div DayTicks
  OBVIOUS
<1>3. file' = [d \in Days |-> IF d < old /\ \A q \in Threads : Loading(q) => call[q].key # d
                              THEN NoFile ELSE file[d]]
  BY <1>2, Zenon DEF Tick
<1>4. now \in 0..MaxTick /\ file \in [Days -> Files]
  BY Zenon DEF IInv, Typed
<1>5. now' \in 0..MaxTick /\ now <= now' /\ \A t \in Int : t <= now => t <= now'
  BY <1>1, <1>4, MarketAssumption
<1>6. NoFile \in Files /\ NoFile.rows = {}
  BY MarketAssumption DEF NoFile, Files
<1>7. \A d \in Days : file'[d] = NoFile \/ file'[d] = file[d]
  BY <1>3, Zenon
<1>8. file' \in [Days -> Files]
  BY <1>3, <1>4, <1>6, Zenon
<1>9. Written'
  BY <1>6, <1>7, Zenon DEF IInv, Written
<1>10. \A d \in Days : \A q \in Threads : Loading(q) /\ call[q].key = d => file'[d] = file[d]
  BY <1>3, Zenon
<1>11. ASSUME NEW q \in Threads, Loading(q)'
       PROVE  Sane(call[q])'
  <2>1. PICK c : c = call[q]
    OBVIOUS
  <2>2. Loading(q) /\ call'[q] = c
    BY <1>1, <1>11, <2>1, Zenon DEF Loading
  <2>3. c \in Loads /\ Sane(c)
    BY <2>1, <2>2, InLoad, Zenon DEF Loading, IInv
  <2>4. c.key \in Days /\ c.asked \in Int /\ c.key * DayTicks \in Int
    <3>1. c.key \in Days /\ c.asked \in 0..MaxTick
      BY <2>3 DEF Loads
    <3>2. c.key \in Nat
      BY <3>1, DaysAreNumbers, Zenon
    <3>3. QED
      BY <3>1, <3>2, MarketAssumption
  <2>5. file'[c.key] = file[c.key]
    BY <1>10, <2>1, <2>2, <2>4, Zenon
  <2>6. Sane(c)'
    BY <1>5, <2>3, <2>4, <2>5, Zenon DEF Sane
  <2>7. QED
    BY <2>2, <2>6, Zenon DEF Sane
<1>12. Loaded'
  BY <1>11, Zenon DEF Loaded
<1>13. Settled'
  BY <1>1, StillSettled, Zenon DEF IInv
<1>14. AnswerGood'
  BY <1>1, StillNoAnswer, Zenon
<1>15. QED
  BY <1>1, <1>5, <1>8, <1>9, <1>12, <1>13, <1>14, Zenon DEF Whole, IInv, Typed

LEMMA InitWhole ==
    ASSUME Init
    PROVE  Whole
<1>1. /\ now = DayTicks /\ file = [d \in Days |-> NoFile] /\ call = [p \in Threads |-> Idle]
      /\ calls = 0 /\ deployed \in Deployments /\ config = deployed /\ share = FALSE
      /\ answer = NoAnswer
  BY Zenon DEF Init
<1>2. now \in 0..MaxTick /\ calls \in 0..MaxCalls
  BY <1>1, MarketAssumption
<1>3. NoFile \in Files /\ NoFile.rows = {}
  BY MarketAssumption DEF NoFile, Files
<1>4. \A d \in Days : file[d] = NoFile
  BY <1>1, Zenon
<1>5. file \in [Days -> Files]
  BY <1>1, <1>3, Zenon
<1>6. Written
  BY <1>3, <1>4, Zenon DEF Written
<1>7. call \in [Threads -> Loads \cup {Idle}] /\ \A p \in Threads : call[p] = Idle
  BY <1>1, Zenon
<1>8. Loaded
  <2>1. Idle.pc = "idle"
    BY DEF Idle
  <2>2. QED
    BY <1>7, <2>1, Zenon DEF Loaded, Loading
<1>9. Settled
  BY <1>1, Zenon DEF Settled, RunConfig
<1>10. AnswerGood
  BY <1>1, NoAnswerGood, Zenon
<1>11. QED
  BY <1>1, <1>2, <1>5, <1>6, <1>7, <1>8, <1>9, <1>10, Zenon DEF Whole, IInv, Typed

LEMMA NextWhole ==
    ASSUME Whole, [Next]_vars
    PROVE  Whole'
<1>1. IInv
  BY Zenon DEF Whole
<1>2. CASE Deliver
  <2>1. answer' = NoAnswer /\ UNCHANGED <<now, file, call, calls, deployed, config, share>>
    BY <1>2, Zenon DEF Deliver
  <2>2. QED
    BY <1>1, <2>1, StillNoAnswer, OnlyAnswers, Zenon
<1>3. CASE answer = NoAnswer /\ StartRun
  BY <1>1, <1>3, StartRunKeeps, Zenon
<1>4. CASE answer = NoAnswer /\ RouteCall
  <2>1. AnswerGood'
    BY <1>1, <1>4, RouteCallAnswers, Zenon DEF IInv
  <2>2. UNCHANGED <<now, file, call, calls, deployed, config, share>>
    BY <1>4, Zenon DEF RouteCall
  <2>3. QED
    BY <1>1, <2>1, <2>2, OnlyAnswers, Zenon
<1>5. CASE answer = NoAnswer /\ PrefetchSentiment
  <2>1. AnswerGood'
    BY <1>1, <1>5, PrefetchAnswers, Zenon DEF IInv
  <2>2. UNCHANGED <<now, file, call, calls, deployed, config, share>>
    BY <1>5, Zenon DEF PrefetchSentiment
  <2>3. QED
    BY <1>1, <2>1, <2>2, OnlyAnswers, Zenon
<1>6. CASE answer = NoAnswer /\ Crash
  BY <1>1, <1>6, CrashKeeps, Zenon
<1>7. CASE answer = NoAnswer /\ Tick
  BY <1>1, <1>7, TickKeeps, Zenon
<1>8. ASSUME NEW p \in Threads, answer = NoAnswer,
             \/ BeginCall(p) \/ ReadCache(p) \/ CheckAge(p) \/ Download(p)
             \/ WriteSome(p) \/ CloseFile(p)
      PROVE  Whole'
  BY <1>1, <1>8, BeginCallKeeps, ReadCacheKeeps, CheckAgeKeeps, DownloadKeeps, WriteSomeKeeps,
     CloseFileKeeps, Zenon
<1>9. CASE UNCHANGED vars
  BY <1>9, Zenon DEF vars, Whole, IInv, Typed, Settled, RunConfig, Written, Loaded, Loading, Sane,
     AnswerGood, NoLookAhead, PricesAreCurrent, VerdictIsEarned
<1>10. QED
  BY <1>2, <1>3, <1>4, <1>5, <1>6, <1>7, <1>8, <1>9, Zenon DEF Next

(* ------------------------------- theorems ------------------------------ *)

\* Every state has the inductive invariant, and every answer the properties:
\* whatever the vendors reply, however the calls of a message interleave over the
\* file of prices, and wherever the worker dies.
THEOREM Invariant == Spec => []Whole
<1>1. Init => Whole
  BY InitWhole
<1>2. Whole /\ [Next]_vars => Whole'
  BY NextWhole
<1>3. QED
  BY <1>1, <1>2, PTL DEF Spec

\* The variables have the values the code gives them: files, calls in progress and
\* the merged configuration of vendors (load_ohlcv, set_config).
THEOREM TypeCorrect == Spec => []TypeOK
<1>1. Whole => TypeOK
  <2>. SUFFICES ASSUME Whole PROVE TypeOK
    OBVIOUS
  <2>1. /\ now \in 0..MaxTick /\ calls \in 0..MaxCalls /\ share \in BOOLEAN
        /\ deployed \in Deployments /\ file \in [Days -> Files]
        /\ call \in [Threads -> Loads \cup {Idle}] /\ config = RunConfig(share)
        /\ answer = NoAnswer \/ answer.out.rows \subseteq Days
    BY Zenon DEF Whole, IInv, Typed, Settled, AnswerGood
  <2>2. ASSUME NEW d \in Days
        PROVE  /\ file[d].rows \subseteq Days /\ {file[d].at, file[d].mtime} \subseteq 0..MaxTick
               /\ file[d].whole \in BOOLEAN /\ file[d].opener \in Threads \cup {"nobody"}
    <3>1. file[d] \in Files
      BY <2>1, Zenon
    <3>2. QED
      BY <3>1 DEF Files
  <2>3. \A p \in Threads : call[p] = Idle \/ call[p] \in Loads
    BY <2>1, Zenon
  <2>4. DOMAIN config.data = Categories
    <3>1. RunConfig(share).data = [c \in Categories |-> RunConfig(share).data[c]]
      BY <2>1, RunConfigs, Zenon
    <3>2. QED
      BY <2>1, <3>1, Zenon
  <2>5. QED
    BY <2>1, <2>2, <2>3, <2>4, Zenon DEF TypeOK
<1>2. QED
  BY <1>1, Invariant, PTL

\* No answer holds a row later than the day asked for, but for the exceptions the
\* property names (load_ohlcv, filter_financials_by_date, the news windows).
THEOREM NothingOfTheFuture == Spec => []NoLookAhead
<1>1. Whole => NoLookAhead
  BY Zenon DEF Whole, AnswerGood
<1>2. QED
  BY <1>1, Invariant, PTL

\* Prices shown are recent, final for earlier days and young enough for the current
\* one (_assert_ohlcv_not_stale, _needs_same_day_refresh).
THEOREM ShownPricesAreCurrent == Spec => []PricesAreCurrent
<1>1. Whole => PricesAreCurrent
  BY Zenon DEF Whole, AnswerGood
<1>2. QED
  BY <1>1, Invariant, PTL

\* The router asks the run's vendors in order and says only what they earned, for
\* every configuration of vendors (route_to_vendor, set_config).
THEOREM VerdictsAreEarned == Spec => []VerdictIsEarned
<1>1. Whole => VerdictIsEarned
  BY Zenon DEF Whole, AnswerGood
<1>2. QED
  BY <1>1, Invariant, PTL
=============================================================================
