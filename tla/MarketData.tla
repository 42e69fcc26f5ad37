----------------------------- MODULE MarketData -----------------------------
(***************************************************************************)
(* The market data tools of a run: route_to_vendor with its chain of       *)
(* vendors (interface.py), and load_ohlcv with its file of prices per      *)
(* symbol and day (stockstats_utils.py), for one symbol.  LangGraph runs   *)
(* the tool calls of one message in threads, so several calls read and     *)
(* write that file at once; the worker may die while one writes.           *)
(***************************************************************************)
EXTENDS VendorClients, SequencesExt

CONSTANTS
    Threads,
    Deployments,    \* data_vendors and tool_vendors a deployment may configure
    DayTicks,       \* ticks of the clock in a day
    CloseTick,      \* the tick of a day at which its bar is final
    TTL,            \* OHLCV_CACHE_TTL_SECONDS, in ticks
    MaxTick,        \* bound on the clock
    MaxCalls        \* bound on the calls that reach the file of prices

\* The bar of a day is final before the worker's day ends.
ASSUME MarketAssumption ==
    /\ {DayTicks, CloseTick, TTL, MaxTick, MaxCalls} \subseteq Nat
    /\ 0 < DayTicks /\ DayTicks <= MaxTick /\ CloseTick <= DayTicks

VARIABLES
    now,        \* the clock
    file,       \* the cache file of each day
    call,       \* what each thread is doing
    calls,      \* the calls that have reached the file
    deployed,   \* the vendors the deployment configures
    config,     \* the vendors the process has configured, global to it
    share,      \* whether the run's ticker is an A share
    answer      \* what the last step answered, if it answered

vars == <<now, file, call, calls, deployed, config, share, answer>>

Today == now \div DayTicks
Days == 0..(MaxTick \div DayTicks)
Vendors == {"yfinance", "alpha_vantage", "akshare", "fred", "polymarket"}
Statements == {"get_balance_sheet", "get_cashflow", "get_income_statement"}

\* TOOLS_CATEGORIES, and the categories a run can do without.
ToolsOf(category) ==
    CASE category = "core_stock_apis" -> {"get_stock_data"}
      [] category = "technical_indicators" -> {"get_indicators"}
      [] category = "fundamental_data" -> {"get_fundamentals"} \cup Statements
      [] category = "news_data" -> {"get_news", "get_global_news", "get_insider_transactions"}
      [] category = "macro_data" -> {"get_macro_indicators"}
      [] category = "prediction_markets" -> {"get_prediction_markets"}
AShareCategories == {"core_stock_apis", "technical_indicators", "fundamental_data", "news_data"}
OptionalCategories == {"macro_data", "prediction_markets"}
Categories == AShareCategories \cup OptionalCategories
Methods == UNION {ToolsOf(c) : c \in Categories}
CategoryOf(m) == CHOOSE c \in Categories : m \in ToolsOf(c)

\* A deployment lists vendors for each category, and for some of the tools.
ASSUME DeploymentsAssumption ==
    \A d \in Deployments :
        /\ d = [data |-> d.data, tools |-> d.tools]
        /\ d.data \in [Categories -> Seq(STRING)]
        /\ d.tools \in [DOMAIN d.tools -> Seq(STRING)]

\* VENDOR_METHODS in its order, AKShare registered last (register.py).
RegisterVendors(m, vendors) ==
    IF CategoryOf(m) \in AShareCategories /\ m # "get_insider_transactions"
    THEN Append(vendors, "akshare") ELSE vendors
VendorsOf(m) ==
    RegisterVendors(m, CASE m = "get_macro_indicators" -> <<"fred">>
                         [] m = "get_prediction_markets" -> <<"polymarket">>
                         [] m = "get_global_news" -> <<"yfinance", "alpha_vantage">>
                         [] OTHER -> <<"alpha_vantage", "yfinance">>)

(* ------------------------------ the clients ---------------------------- *)

\* A service of prices has a row for every day up to its last.
Prices == [today \in Days |->
    {r \in Replies(today) : r.stamp = "time" /\ r.rows \in {{}} \cup {0..d : d \in 0..today}}]
AShareFrames == [today \in Days |->
    {FetchAShare(t, e) : t \in Prices[today], e \in Prices[today]}]

\* The days a call may ask for; the date of a statement may be left out.
Dates(m) == IF m \in Statements THEN Days \cup {NoDate} ELSE Days

\* VENDOR_METHODS: what the function of each vendor may come to, for a method
\* and a day asked for, on the day of the call.  Yahoo takes an indicator that
\* it knows to the file of prices: BeginCall.
YfClient(m, date, today) ==
    LET R == Replies(today)
    IN CASE m = "get_stock_data" -> {YfStock(r, date) : r \in R}
         [] m = "get_indicators" -> {Raised("error")}
         [] m = "get_fundamentals" -> {YfFundamentals(r) : r \in R}
         [] m \in Statements -> {YfStatement(r, date) : r \in R}
         [] m = "get_news" -> {YfNews(r, date, today) : r \in R}
         [] m = "get_global_news" -> {YfGlobalNews(r, date, today) : r \in R}
         [] m = "get_insider_transactions" -> {YfInsider(r) : r \in R}
         [] OTHER -> {}
AvIndicatorClient(date, today) ==
    {AvIndicator(known, r, date) : known \in BOOLEAN, r \in Replies(today)}
AvClient(m, date, today) ==
    LET R == Replies(today)
    IN CASE m = "get_stock_data" -> {AvStock(r, date) : r \in R}
         [] m = "get_indicators" -> AvIndicatorClient(date, today)
         [] m = "get_fundamentals" -> {AvFundamentals(r) : r \in R}
         [] m \in Statements -> {AvStatement(r, date) : r \in R}
         [] m \in {"get_news", "get_global_news"} -> {AvNews(r, date) : r \in R}
         [] m = "get_insider_transactions" -> {AvInsider(r) : r \in R}
         [] OTHER -> {}
AkIndicatorClient(date, today) ==
    {AkIndicators(known, rows, date) : known \in BOOLEAN, rows \in AShareFrames[today]}
AkClient(m, date, today) ==
    LET R == Replies(today)
        A == AShareFrames[today]
    IN CASE m = "get_stock_data" -> {AkStock(rows, date) : rows \in A}
         [] m = "get_indicators" -> AkIndicatorClient(date, today)
         [] m = "get_fundamentals" -> {AkFundamentals(r) : r \in R}
         [] m \in Statements -> {AkStatement(r, date) : r \in R}
         [] m = "get_news" -> {AkNews(r, date, today) : r \in R}
         [] m = "get_global_news" -> {AkGlobalNews(r, date) : r \in R}
         [] OTHER -> {}
FredClient(date, today) == {FredMacro(known, r, date) : known \in BOOLEAN, r \in Replies(today)}
ClientOf(v, m, date, today) ==
    CASE v = "yfinance" -> YfClient(m, date, today)
      [] v = "alpha_vantage" -> AvClient(m, date, today)
      [] v = "akshare" -> AkClient(m, date, today)
      [] v = "fred" -> FredClient(date, today)
      [] v = "polymarket" -> {Polymarket(r) : r \in Replies(today)}
ClientTable == [today \in Days |-> [m \in Methods |-> [date \in Dates(m) |->
    [v \in Vendors |-> ClientOf(v, m, date, today)]]]]

\* What each vendor may come to now.  AKShare may not be installed, and has no
\* code for a ticker that is not an A share; its bulletins need none.
Outcomes(m, date) ==
    [ClientTable[Today][m][date] EXCEPT !["akshare"] =
        {Raised("error")} \cup IF share \/ m = "get_global_news" THEN @ ELSE {}]

(* ------------------------------- the router ---------------------------- *)

\* The vendors configured for a method; "default", here the empty list, stands
\* for all that have it.
Configured(cfg, m) == IF m \in DOMAIN cfg.tools THEN cfg.tools[m] ELSE cfg.data[CategoryOf(m)]
Listed(cfg, m) == IF Configured(cfg, m) = <<>> THEN VendorsOf(m) ELSE Configured(cfg, m)

\* The chain: the places of the list whose vendors have the method.
Chain(cfg, m) ==
    LET list == Listed(cfg, m)
        having == ToSet(VendorsOf(m))
    IN {i \in DOMAIN list : list[i] \in having}

Answers(out) == out.kind \in {"data", "raw", "text"}

\* What the vendors at these places raise, when none of them answers.
Failing(places, list, outs) ==
    {given \in [places -> {Raised(e) : e \in Errors}] : \A i \in places : given[i] \in outs[list[i]]}

\* The vendor at place n answers, those before it have failed.
Answering(n, chain, list, outs) ==
    LET before == {i \in chain : i < n}
    IN {[i \in before \cup {n} |-> IF i = n THEN out ELSE given[i]] :
          given \in Failing(before, list, outs), out \in {o \in outs[list[n]] : Answers(o)}}

\* Every way down the chain, given what each vendor may come to.
Routes(m, outs) ==
    LET list == Listed(config, m)
        chain == Chain(config, m)
    IN Failing(chain, list, outs) \cup UNION {Answering(n, chain, list, outs) : n \in chain}

Tried(m, route) ==
    [i \in DOMAIN route |-> [vendor |-> Listed(config, m)[i], kind |-> route[i].kind]]

\* What comes of it: the answer, that there is no data, that an optional
\* source is unavailable, or an exception that ends the run.  A rate limit
\* leaves no trace; "no data" and errors are remembered.
Kinds(route) == {route[i].kind : i \in DOMAIN route}
Verdicts(m, route) ==
    LET answers == {i \in DOMAIN route : Answers(route[i])}
    IN IF answers # {} THEN {route[i] : i \in answers}
       ELSE IF "nodata" \in Kinds(route) THEN {Outcome("NO_DATA_AVAILABLE", {})}
       ELSE IF CategoryOf(m) \in OptionalCategories /\ Kinds(route) \cap {"unconfigured", "error"} # {}
       THEN {Outcome("DATA_UNAVAILABLE", {})}
       ELSE {Raised("raised")}

\* get_indicators shows a ValueError as words; a missing key is one, an indicator
\* nobody knows, and a chain without vendors.
Told(m, route) ==
    IF m = "get_indicators" /\ Raised("raised") \in Verdicts(m, route) /\ Kinds(route) # {"limited"}
    THEN Verdicts(m, route) \cup {Said} ELSE Verdicts(m, route)

(* -------------------------- the run and its tools ---------------------- *)

NoAnswer == [to |-> "none"]
NoFile == [rows |-> {}, at |-> 0, mtime |-> 0, whole |-> FALSE, opener |-> "nobody"]
NoFrame == [rows |-> {}, at |-> 0, mtime |-> 0, sound |-> FALSE]
Idle == [pc |-> "idle"]
Loading(p) == call[p].pc # "idle"
AllIdle == \A p \in Threads : ~Loading(p)
Cached == {"get_indicators", "get_verified_market_snapshot"}

\* The configuration of a run: an A share prefers AKShare, Yahoo after it.
RunConfig(s) ==
    IF s THEN [deployed EXCEPT !.data = [c \in Categories |->
                   IF c \in AShareCategories THEN <<"akshare", "yfinance">> ELSE deployed.data[c]]]
    ELSE deployed

\* Mutant: keys that the process has already are kept.
SetConfig_Setdefault(c, new) ==
    [data |-> [k \in DOMAIN c.data \cup DOMAIN new.data |->
                   IF k \in DOMAIN c.data THEN c.data[k] ELSE new.data[k]],
     tools |-> [k \in DOMAIN c.tools \cup DOMAIN new.tools |->
                   IF k \in DOMAIN c.tools THEN c.tools[k] ELSE new.tools[k]]]

\* The process's configuration is merged one level deep, never replaced.
SetConfig(c, new) ==
    [data |-> [k \in DOMAIN c.data \cup DOMAIN new.data |->
                   IF k \in DOMAIN new.data THEN new.data[k] ELSE c.data[k]],
     tools |-> [k \in DOMAIN c.tools \cup DOMAIN new.tools |->
                   IF k \in DOMAIN new.tools THEN new.tools[k] ELSE c.tools[k]]]

Init ==
    /\ now = DayTicks
    /\ file = [d \in Days |-> NoFile]
    /\ call = [p \in Threads |-> Idle]
    /\ calls = 0
    /\ deployed \in Deployments
    /\ config = deployed
    /\ share = FALSE
    /\ answer = NoAnswer

\* The process takes its next run.
StartRun ==
    /\ AllIdle
    /\ share' \in BOOLEAN
    /\ config' = SetConfig(config, RunConfig(share'))
    /\ UNCHANGED <<now, file, call, calls, deployed, answer>>

\* A call that needs no file of prices is one step.  It shares nothing with the
\* calls that do, so TLC takes it only before the first of those.
RouteCall ==
    /\ calls = 0
    /\ \E m \in Methods : \E date \in {d \in Dates(m) : d <= Today} :
        \E route \in Routes(m, Outcomes(m, date)) :
            \E out \in Told(m, route) :
                answer' = [to |-> m, date |-> date, out |-> out, tried |-> Tried(m, route),
                           priced |-> Idle]
    /\ UNCHANGED <<now, file, call, calls, deployed, config, share>>

Posts == [today \in Days |-> [source \in {"stocktwits", "reddit"} |->
    {IF source = "reddit" THEN RedditPosts(r) ELSE StockTwits(r) : r \in Replies(today)}]]

\* What the sentiment analyst fetches beside the news: never an exception,
\* never the day of the analysis.
PrefetchSentiment ==
    \E date \in 0..Today, source \in {"stocktwits", "reddit"} :
        /\ calls = 0
        /\ \E out \in Posts[Today][source] :
              answer' = [to |-> source, date |-> date, tried |-> <<>>, priced |-> Idle, out |-> out]
        /\ UNCHANGED <<now, file, call, calls, deployed, config, share>>

(* --------------------------- the file of prices ------------------------ *)

Set(p, c) == call' = [call EXCEPT ![p] = c]

\* A call before load_ohlcv for a day, and inside it.
Look(to, date, day, bulk, got) ==
    [pc |-> "look", to |-> to, date |-> date, day |-> day, bulk |-> bulk,
     key |-> 0, asked |-> 0, frame |-> NoFrame, got |-> got]
At(c, pc, key, asked, frame) ==
    [pc |-> pc, to |-> c.to, date |-> c.date, day |-> c.day, bulk |-> c.bulk,
     key |-> key, asked |-> asked, frame |-> frame, got |-> c.got]

\* A thread begins a call that reaches the file: an indicator from Yahoo, in
\* bulk for the whole window first, or the snapshot that is not routed.
BeginCall(p) ==
    \E m \in Cached, date \in 0..Today :
        /\ ~Loading(p) /\ calls < MaxCalls
        /\ m = "get_indicators" => \E i \in Chain(config, m) : Listed(config, m)[i] = "yfinance"
        /\ Set(p, Look(m, date, date, TRUE, {}))
        /\ calls' = calls + 1
        /\ UNCHANGED <<now, file, deployed, config, share, answer>>

\* The call is answered: the snapshot's outcome as it is, the indicator's by
\* the router, whose other vendors have not answered before Yahoo.
Finish(p, c, out) ==
    /\ Set(p, Idle)
    /\ IF c.to = "get_indicators"
       THEN \E route \in Routes(c.to, [Outcomes(c.to, c.date) EXCEPT !["yfinance"] = {out}]) :
              /\ \E i \in DOMAIN route : Listed(config, c.to)[i] = "yfinance"
              /\ \E told \in Told(c.to, route) :
                    answer' = [to |-> c.to, date |-> c.date, out |-> told, tried |-> Tried(c.to, route),
                               priced |-> IF Answers(out) THEN c ELSE Idle]
       ELSE answer' = [to |-> c.to, date |-> c.date, tried |-> <<>>, priced |-> c,
                       out |-> IF out.kind = "data" THEN out ELSE Raised("raised")]

Goto(p, c) == Set(p, c) /\ UNCHANGED answer

\* The fallback goes back one day, as far as the window.
NextDay(p, c, got) ==
    IF c.day > 0 /\ c.day > c.date - LookBack
    THEN Goto(p, Look(c.to, c.date, c.day - 1, FALSE, got))
    ELSE Finish(p, c, Shown(got))

\* load_ohlcv has raised what is not "no data": the snapshot fails, the bulk
\* gives way to one load per day, and such a day stays blank.
LoadFails(p, c) ==
    IF c.to # "get_indicators" THEN Finish(p, c, Raised("error"))
    ELSE IF c.bulk THEN Goto(p, Look(c.to, c.date, c.day, FALSE, c.got))
    ELSE NextDay(p, c, c.got)

\* Mutant: the rows after the requested day are kept.
RowsFor_All(c) == c.frame.rows

\* Mutant: days without a bar are filled in.
RowsFor_Filled(c) == Upto(c.frame.rows, c.day) \cup Window(c.day)

\* What is left of the frame for the requested day.
RowsFor(c) == Upto(c.frame.rows, c.day)

\* The frame is filtered and rejected if it is stale; the indicator shows the
\* days of the window in bulk, or the one day it is at.
UseFrame(p, c) ==
    IF Stale(RowsFor(c), c.day) THEN Finish(p, c, Raised("nodata"))
    ELSE IF c.to # "get_indicators" THEN Finish(p, c, Shown(RowsFor(c)))
    ELSE IF c.bulk THEN Finish(p, c, Shown({r \in RowsFor(c) : r >= c.date - LookBack}))
    ELSE NextDay(p, c, c.got \cup (RowsFor(c) \cap {c.day}))

\* The file of today is read if there is one.  One that a writer has emptied
\* has no columns to parse, which raises; with its header it is a miss.
ReadCache(p) ==
    LET f == file[Today]
        c == call[p]
    IN /\ c.pc = "look"
       /\ \/ f.rows = {} /\ Goto(p, At(c, "download", Today, 0, NoFrame))
          \/ f.rows = {} /\ f.opener # "nobody" /\ LoadFails(p, c)
          \/ /\ f.rows # {}
             /\ Goto(p, At(c, "age", Today, now,
                           [rows |-> f.rows, at |-> f.at, mtime |-> 0, sound |-> f.whole]))
       /\ UNCHANGED <<now, file, calls, deployed, config, share>>

\* Mutant: what is cached for the day serves it until the day is over.
NeedsSameDayRefresh_Never(c) == FALSE

\* A cached frame is reused for an earlier day; for the current day only as
\* long as the file is young.
NeedsSameDayRefresh(c) == c.day >= c.key /\ now - file[c.key].mtime > TTL

\* The age looked at is that of the file as it is by now.
CheckAge(p) ==
    LET c == call[p]
        f == file[c.key]
    IN /\ c.pc = "age"
       /\ IF NeedsSameDayRefresh(c)
          THEN Goto(p, At(c, "download", c.key, 0, NoFrame))
          ELSE UseFrame(p, At(c, "age", c.key, c.asked,
                   [rows |-> c.frame.rows, at |-> c.frame.at, mtime |-> f.mtime,
                    sound |-> c.frame.sound /\ f.whole /\ f.at = c.frame.at]))
       /\ UNCHANGED <<now, file, calls, deployed, config, share>>

\* Five years of prices: for an A share Tencent and East Money first, then
\* Yahoo, whose failure is the load's.  What has rows goes to the file, which
\* to_csv empties and fills; it is not replaced in one step.
Download(p) ==
    LET c == call[p]
    IN /\ c.pc = "download"
       /\ \E cn \in IF share THEN AShareFrames[Today] ELSE {{}} :
             \/ /\ cn = {}
                /\ \E r \in Prices[Today] : YfFails(r)
                /\ LoadFails(p, c) /\ UNCHANGED file
             \/ \E rows \in IF cn # {} THEN {cn} ELSE {r.rows : r \in Prices[Today]} :
                   IF rows = {} THEN Finish(p, c, Raised("nodata")) /\ UNCHANGED file
                   ELSE /\ Goto(p, At(c, "write", c.key, now,
                                     [rows |-> rows, at |-> now, mtime |-> now, sound |-> TRUE]))
                        /\ file' = [file EXCEPT ![c.key] = [rows |-> {}, at |-> now, mtime |-> now,
                                                            whole |-> FALSE, opener |-> p]]
       /\ UNCHANGED <<now, calls, deployed, config, share>>

WriteSome(p) ==
    LET c == call[p]
        f == file[c.key]
    IN /\ c.pc = "write"
       /\ \E d \in c.frame.rows :
             /\ \E r \in c.frame.rows : r > d
             /\ file' = [file EXCEPT ![c.key] = [rows |-> 0..d, at |-> f.at, mtime |-> now,
                                                 whole |-> FALSE, opener |-> f.opener]]
       /\ Goto(p, At(c, "close", c.key, c.asked, c.frame))
       /\ UNCHANGED <<now, calls, deployed, config, share>>

\* The last bytes are written, and the frame is used.  If another thread has
\* opened the file meanwhile, it may hold anything the two have written.
CloseFile(p) ==
    LET c == call[p]
        f == file[c.key]
        alone == /\ f.opener = p
                 /\ \A q \in Threads \ {p} : call[q].pc \in {"write", "close"} => call[q].key # c.key
    IN /\ c.pc \in {"write", "close"}
       /\ \E whole \in IF alone THEN {TRUE} ELSE BOOLEAN, d \in c.frame.rows :
             /\ whole => \A r \in c.frame.rows : r <= d
             /\ file' = [file EXCEPT ![c.key] = [rows |-> 0..d, at |-> c.frame.at, mtime |-> now,
                                                 whole |-> whole, opener |-> f.opener]]
       /\ UseFrame(p, c)
       /\ UNCHANGED <<now, calls, deployed, config, share>>

\* The worker dies; the file stays as it is, the process starts anew.
Crash ==
    /\ ~AllIdle
    /\ call' = [p \in Threads |-> Idle]
    /\ config' = SetConfig(deployed, RunConfig(share))
    /\ UNCHANGED <<now, file, calls, deployed, share, answer>>

\* The file's name holds the day: nobody looks for an earlier day's again.
Tick ==
    /\ now < MaxTick
    /\ now' = now + 1
    /\ file' = [d \in Days |->
                  IF d < now' \div DayTicks /\ \A p \in Threads : Loading(p) => call[p].key # d
                  THEN NoFile ELSE file[d]]
    /\ UNCHANGED <<call, calls, deployed, config, share, answer>>

\* The model reads what it was answered.  No step waits for another's answer
\* to be read: answer only shows the last step's.
Deliver ==
    /\ answer # NoAnswer /\ answer' = NoAnswer
    /\ UNCHANGED <<now, file, call, calls, deployed, config, share>>

Next ==
    \/ Deliver
    \/ /\ answer = NoAnswer
       /\ \/ StartRun \/ RouteCall \/ PrefetchSentiment \/ Crash \/ Tick
          \/ \E p \in Threads :
                \/ BeginCall(p) \/ ReadCache(p) \/ CheckAge(p) \/ Download(p)
                \/ WriteSome(p) \/ CloseFile(p)

Spec == Init /\ [][Next]_vars

(* ------------------------------ properties ----------------------------- *)

Frame == [rows : SUBSET Days, at : 0..MaxTick, mtime : 0..MaxTick, sound : BOOLEAN]
Loads == [pc : {"look", "age", "download", "write", "close"}, to : Cached,
          date : Days, day : Days, bulk : BOOLEAN, key : Days, asked : 0..MaxTick,
          frame : Frame, got : SUBSET Days]

\* The variables have the values the code gives them.
TypeOK ==
    /\ now \in 0..MaxTick /\ calls \in 0..MaxCalls /\ share \in BOOLEAN
    /\ \A d \in Days :
          /\ file[d].rows \subseteq Days /\ {file[d].at, file[d].mtime} \subseteq 0..MaxTick
          /\ file[d].whole \in BOOLEAN /\ file[d].opener \in Threads \cup {"nobody"}
    /\ \A p \in Threads : call[p] = Idle \/ call[p] \in Loads
    /\ deployed \in Deployments
    /\ DOMAIN config.data = Categories
    /\ answer = NoAnswer \/ answer.out.rows \subseteq Days

AskedLast(tried, v) == \E i \in DOMAIN tried : tried[i].vendor = v /\ \A j \in DOMAIN tried : j <= i

\* Sources that take no account of the day of the analysis.
OfToday == {"get_fundamentals", "get_insider_transactions", "get_prediction_markets",
            "stocktwits", "reddit"}

\* Look-ahead: no answer holds a row later than the day asked for, but for the
\* sources of today, a statement asked for without a date, what Alpha Vantage
\* (prices, statements) or AKShare (statements) passes on because it cannot read
\* the dates, an A share's statements when none is old enough, and its news by a
\* day (load_ohlcv, filter_financials_by_date, the news windows).
NoLookAhead ==
    answer # NoAnswer /\ answer.to \notin OfToday =>
        \A r \in answer.out.rows :
            \/ r <= answer.date
            \/ answer.to \in Statements /\ answer.date = NoDate
            \/ /\ answer.out.kind = "raw"
               /\ \/ answer.to \in Statements /\ AskedLast(answer.tried, "akshare")
                  \/ /\ answer.to \in Statements \cup {"get_stock_data"}
                     /\ AskedLast(answer.tried, "alpha_vantage")
            \/ /\ AskedLast(answer.tried, "akshare")
               /\ \/ answer.to \in Statements /\ answer.out.rows = {r}
                  \/ answer.to = "get_news" /\ r = answer.date + 1

\* Prices shown are recent for the day asked for; those of earlier days are
\* final, and for the current day the file was at most TTL old - unless the
\* file was read half written, or rewritten before its age was looked at
\* (_assert_ohlcv_not_stale, _needs_same_day_refresh).  Alpha Vantage, and the
\* day by day fallback, give no such promise.
PricesAreCurrent ==
    LET shown == answer.out.rows
        load == answer.priced
        loaded == load # Idle /\ load.bulk
    IN answer # NoAnswer /\ answer.out.kind = "data" =>
        /\ loaded \/ (answer.to = "get_stock_data" /\ ~AskedLast(answer.tried, "alpha_vantage")) =>
              \E r \in shown : answer.date - r <= MaxStale
        /\ loaded /\ load.frame.sound =>
              /\ \A r \in shown : r < load.key => load.frame.at >= r * DayTicks + CloseTick
              /\ answer.date >= load.key => load.frame.mtime + TTL >= load.asked

\* The router asks the vendors configured for this run's ticker, whatever runs
\* the process had before, in order, up to the first that answers.  It says
\* that there is no data only if a vendor said so and none answered; a run ends
\* with an exception only if none said even that, for an optional source only
\* if no vendor that has it is configured (route_to_vendor).
VerdictIsEarned ==
    LET tried == answer.tried
        own == RunConfig(share)
        chain == Chain(own, answer.to)
        kinds == {tried[i].kind : i \in DOMAIN tried}
        exhausted == DOMAIN tried = chain /\ kinds \subseteq Errors
        optional == CategoryOf(answer.to) \in OptionalCategories
    IN answer # NoAnswer /\ answer.to \in Methods =>
        /\ DOMAIN tried \subseteq chain
        /\ \A i \in DOMAIN tried :
              /\ tried[i].vendor = Listed(own, answer.to)[i]
              /\ \A j \in chain : j < i => j \in DOMAIN tried /\ tried[j].kind \in Errors
        /\ CASE answer.out.kind = "NO_DATA_AVAILABLE" -> exhausted /\ "nodata" \in kinds
             [] answer.out.kind = "DATA_UNAVAILABLE" -> exhausted /\ "nodata" \notin kinds /\ optional
             [] answer.out.kind = "raised" ->
                    exhausted /\ "nodata" \notin kinds /\ (optional => chain = {})
             [] OTHER -> ~exhausted \/ (answer.to = "get_indicators" /\ answer.out = Said)
=============================================================================
