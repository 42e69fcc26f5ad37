--------------------------- MODULE VendorClients ---------------------------
(***************************************************************************)
(* The clients of the market data services (tradingagents/dataflows and    *)
(* ax_dataflows/vendors).  Each takes what its service replies and makes   *)
(* of it what the router sees: a table with rows, a body passed on as it   *)
(* came, words without data, or an exception of the taxonomy in errors.py. *)
(* A reply is a kind, the days it has rows for, how these are dated, and   *)
(* how often the service refused the request for its rate before it        *)
(* answered.                                                               *)
(***************************************************************************)
EXTENDS Integers

CONSTANTS
    MaxStale,   \* MAX_OHLCV_STALE_DAYS
    LookBack,   \* the days a call looks back
    MaxRetries  \* of yf_retry

ASSUME ClientAssumption == {MaxStale, LookBack, MaxRetries} \subseteq Nat

\* What a service may reply on a day: rows up to that day, dated to the minute,
\* by the day, or not so that the client can tell; nothing, a refused key, or no
\* answer that can be read.
Replies(today) ==
    [kind : {"rows"}, rows : (SUBSET (0..today)) \ {{}}, stamp : {"time", "day", "none"},
     refused : {0, 1, MaxRetries + 1}]
    \cup [kind : {"empty", "nokey", "down"}, rows : {{}}, stamp : {"time"}, refused : {0}]

Outcome(k, rows) == [kind |-> k, rows |-> rows]
Shown(rows) == Outcome(IF rows = {} THEN "text" ELSE "data", rows)
AsItCame(rows) == Outcome(IF rows = {} THEN "text" ELSE "raw", rows)
Said == Outcome("text", {})
Raised(e) == Outcome(e, {})
Errors == {"nodata", "limited", "unconfigured", "error"}

\* curr_date may be left out of a request for a statement.
NoDate == -1

Upto(rows, date) == {r \in rows : r <= date}
Window(date) == (date - LookBack)..date

\* Rows of which even the last is too far before the requested day; no rows pass.
Stale(rows, date) == rows # {} /\ \A r \in rows : date - r > MaxStale

(* ------------------------------- Yahoo --------------------------------- *)

\* Refusals are waited out; one too many is an error like any other, since
\* yfinance's exception is none of errors.py.
Yf(reply) == IF reply.refused > MaxRetries THEN [reply EXCEPT !.kind = "down"] ELSE reply
YfFails(reply) == Yf(reply).kind \in {"nokey", "down"}

YfStock(reply, date) ==
    IF YfFails(reply) THEN Raised("error")
    ELSE IF Upto(reply.rows, date) = {} \/ Stale(Upto(reply.rows, date), date) THEN Raised("nodata")
    ELSE Shown(Upto(reply.rows, date))

\* Without a date all periods stay; with one, those whose date cannot be read go.
FilterFinancials(reply, date) ==
    IF date = NoDate THEN reply.rows
    ELSE IF reply.stamp = "none" THEN {} ELSE Upto(reply.rows, date)

\* An error becomes words, which end the search for another vendor.
YfStatement(reply, date) ==
    IF YfFails(reply) THEN Said
    ELSE IF FilterFinancials(reply, date) = {} THEN Raised("nodata")
    ELSE Shown(FilterFinancials(reply, date))

\* The overview is today's, whatever the day asked for.
YfFundamentals(reply) ==
    IF YfFails(reply) THEN Said
    ELSE IF reply.rows = {} THEN Raised("nodata")
    ELSE Shown(reply.rows)

YfInsider(reply) == IF YfFails(reply) THEN Said ELSE Shown(reply.rows)

\* Articles without a date belong to a window that reaches the present.
InNewsWindow(reply, date, today) ==
    IF reply.stamp = "none" THEN IF date >= today THEN reply.rows ELSE {}
    ELSE reply.rows \cap Window(date)

YfNews(reply, date, today) == IF YfFails(reply) THEN Said ELSE Shown(InNewsWindow(reply, date, today))

YfGlobalNews(reply, date, today) ==
    IF YfFails(reply) THEN Said ELSE Shown(InNewsWindow(reply, date, today))

(* --------------------------- Alpha Vantage ----------------------------- *)

\* What the request itself raises; "" if it returns a body.
AvRaises(reply) ==
    IF reply.kind = "nokey" THEN "unconfigured"
    ELSE IF reply.refused > 0 THEN "limited"
    ELSE IF reply.kind = "down" THEN "error" ELSE ""

AvBody(reply, out) == IF AvRaises(reply) # "" THEN Raised(AvRaises(reply)) ELSE out

\* A body that does not parse is passed on unfiltered.
FilterBody(reply, date) ==
    IF reply.stamp = "none" THEN AsItCame(reply.rows) ELSE Shown(Upto(reply.rows, date))

AvStock(reply, date) == AvBody(reply, FilterBody(reply, date))
AvStatement(reply, date) ==
    AvBody(reply, IF date = NoDate THEN Shown(reply.rows) ELSE FilterBody(reply, date))
AvFundamentals(reply) == AvBody(reply, Shown(reply.rows))
\* time_to is the midnight at which the requested day begins.
AvNews(reply, date) == AvBody(reply, Shown((reply.rows \cap Window(date)) \ {date}))
AvInsider(reply) == AvBody(reply, Shown(reply.rows))

\* An indicator it does not know is an error; then only a missing key leaves the
\* function: a rate limit becomes words, and so does a body without dates.
AvIndicator(known, reply, date) ==
    IF ~known THEN Raised("error")
    ELSE IF AvRaises(reply) = "unconfigured" THEN Raised("unconfigured")
    ELSE IF AvRaises(reply) # "" \/ reply.stamp = "none" THEN Said
    ELSE Shown(reply.rows \cap Window(date))

(* ------------------------------- AKShare ------------------------------- *)

Fails(reply) == reply.kind \in {"nokey", "down"} \/ reply.refused > 0

\* Tencent first, then East Money: the rows of the first that has any.
FetchAShare(tencent, eastmoney) ==
    IF ~Fails(tencent) /\ tencent.rows # {} THEN tencent.rows
    ELSE IF Fails(eastmoney) THEN {} ELSE eastmoney.rows

AkStock(rows, date) ==
    IF Upto(rows, date) = {} \/ Stale(Upto(rows, date), date) THEN Raised("nodata")
    ELSE Shown(Upto(rows, date))

AkIndicators(known, rows, date) ==
    IF ~known THEN Raised("error")
    ELSE IF rows \cap Window(date) = {} \/ Stale(rows \cap Window(date), date) THEN Raised("nodata")
    ELSE Shown(rows \cap Window(date))

\* Both sources of the overview may fail; what is left of them is shown.
AkFundamentals(reply) == IF Fails(reply) \/ reply.rows = {} THEN Raised("nodata") ELSE Shown(reply.rows)

\* With no report by the requested day, the newest one is shown; without a date,
\* or a column of dates, all of them.
Newest(rows) == {r \in rows : \A q \in rows : q <= r}
FilterReports(reply, date) ==
    IF date = NoDate THEN Shown(reply.rows)
    ELSE IF reply.stamp = "none" THEN AsItCame(reply.rows)
    ELSE Shown(IF Upto(reply.rows, date) = {} THEN Newest(reply.rows) ELSE Upto(reply.rows, date))

AkStatement(reply, date) ==
    IF Fails(reply) THEN Raised("error")
    ELSE IF reply.rows = {} THEN Raised("nodata")
    ELSE FilterReports(reply, date)

\* Both ends count, so an article dated by the day alone is in the window of
\* the day before; one without a date is in yesterday's.
AkInWindow(reply, date, today) ==
    IF reply.stamp = "none" THEN IF date >= today - 1 THEN reply.rows ELSE {}
    ELSE reply.rows \cap (IF reply.stamp = "day" THEN Window(date) \cup {date + 1} ELSE Window(date))

AkNews(reply, date, today) == IF Fails(reply) THEN Raised("error") ELSE Shown(AkInWindow(reply, date, today))

\* The bulletins of each day of the window; a day that fails is left out.
AkGlobalNews(reply, date) == Shown(IF Fails(reply) THEN {} ELSE reply.rows \cap Window(date))

(* ---------------------------- other sources ---------------------------- *)

\* Alias or series id: known, or a phrase that is neither.
FredMacro(known, reply, date) ==
    IF ~known THEN Said
    ELSE IF reply.kind = "nokey" THEN Raised("unconfigured")
    ELSE IF reply.kind = "down" \/ reply.refused > 0 THEN Raised("error")
    ELSE Shown(reply.rows \cap Window(date))

\* Open markets as they are priced now, whatever the day of the analysis.
Polymarket(reply) == IF Fails(reply) THEN Said ELSE Shown(reply.rows)

\* A 429 is waited out once; whatever else fails is an empty subreddit.
RedditPosts(reply) ==
    Shown(IF reply.refused > 1 THEN {} ELSE reply.rows)

StockTwits(reply) == Shown(IF Fails(reply) THEN {} ELSE reply.rows)
=============================================================================
