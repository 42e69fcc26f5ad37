# AX Analysis: specification and proofs

AX Analysis lets a user order a stock analysis, runs it with a team of
language model agents (a vendored copy of TradingAgents), and shows its progress
and its report. This directory holds TLA+ modules of the program's own logic,
the TLC configurations that check them, and proofs that tlapm checks. Paths
below are relative to the repository.

1. [The system](#1-the-system)
2. [Modules](#2-modules)
3. [Runs](#3-runs)
4. [Proofs](#4-proofs)
5. [Where code and documents disagree](#5-where-code-and-documents-disagree)
6. [What is not modelled](#6-what-is-not-modelled)
7. [Plan](#7-plan)
8. [Running it](#8-running-it)

## 1. The system

```
 browser ── Next.js (apps/web) ── FastAPI (apps/api) ──┬── Postgres: users, quotas, jobs
                 SSE proxy            RateLimitMiddleware ├── Redis: queue, pub/sub, progress
                                                          │         (jobs too, without Postgres)
                           worker (apps/worker) ──────────┘
                              └─ ax_engine ─ TradingAgents graph ─ LLMs, data vendors
                              └─ ax_storage: report tree, local or S3
```

| Component | State | Operations | What makes it correct |
|---|---|---|---|
| Job queue and stores (`packages/ax_jobs`) | a record per job; a Redis list of ids | create, get, update (read, then write), requeue, dequeue, publish | a job is run by one worker at a time, keeps every update, is never lost, ends |
| Worker (`apps/worker`) | the job in hand | take, run, upload, record, announce | records the outcome of every run it starts |
| Analyses API (`routes/analyses.py`) | the request under way | create with charge, retry, get, stream | charges once; retries only what failed |
| Event stream and room (`analyses.py`, `redis_store.py`, `web/.../api.ts`, `page.tsx`) | subscription, response, connection, status on the page | publish, subscribe, poll, send, reconnect, fetch | streams end; the page comes to show the outcome |
| Quota ledger (`ax_db/repository.py`, `routes/admin.py`) | one row per user | charge, reset, plan, set | deducts what was billed, within the limit |
| Rate limiter (`middleware/rate_limit.py`) | a deque of times per client and bucket | accept, refuse | never more than the limit in any window; no wrongful refusal |
| In-memory store (`ax_jobs/store/memory.py`) | records, queue, event lists, one lock | as the stores above | nobody waits for ever |
| Engine runner (`ax_engine/runner.py`) | where the run is, its checkpoint | find the checkpoint, stream the graph, store, save, clear, announce | what it announces as completed is complete |
| Progress (`ax_engine/progress.py`) | statuses of agents, report sections, timeline | one update per chunk of the graph | what the room is shown of an agent is what it has done; statuses move forward |
| Agent graph and agents (`tradingagents/graph`, `agents`) | messages, reports, debate states | analysts with tool loops, two debates, judges | the debates take the configured number of rounds, within the recursion limit |
| Decision memory log (`agents/utils/memory.py`) | one file per user | append, resolve, rotate, read for the next run | no decision lost or doubled; a reflection stands under its decision |
| Report storage and library (`ax_storage`, `ax_reports`, `reporting.py`) | a tree of files per job | write, upload, delete, read, export | the report of a job is its own |
| Vendor routing (`dataflows/interface.py`, `ax_dataflows`) | configuration, global to the process | call with fallback | the verdict is the one that the vendors of this run have earned |
| Vendor clients, price cache (`dataflows/*`, `ax_dataflows/vendors`) | a file of prices per symbol and day | fetch, filter by date, cache | nothing later than the day analysed, nothing stale |
| Plans, presets, authentication, LLM adapters, web pages | constants, tokens | look up, sign, render | — |

How they interact: the API writes a job row and pushes its id (a call to
Postgres, a call to Redis); a worker pops the id and from then on holds the
only copy; row and events are two channels with no order between them; the
stream joins them again for the browser. What is hard is therefore the gap
between any two calls: API threads and worker processes run in all of them,
and a process may die there. Inside a run the same is true one level down: the
graph yields its whole state after every superstep, and the runner derives
what the room is told anew from each; the tools of one message run in threads
over one cache file; and runs of the same user, on several workers, share the
decision log and the directory of reports without a lock. `PROJECT.json` lists the hazards, each at its
line, with the properties that cover it or the reason why none does.

## 2. Modules

| Module | Models | State and actions in the code |
|---|---|---|
| `JobLifecycle` | what the store promises about one job | `status[j]`; the moves between the values of `JobStatus` |
| `JobPipeline` | both Redis based stores, creation and retry, the worker loop | `row` is the record or table row, `queue` the Redis list, `pc`/`job`/`goal` where a request or `process_job` is, `snap` what `update_job` has read. One action per call to a store; the engine's run is one step |
| `EventStream` | publishers, `_sse_stream`, the room | `inbox` is the socket of the subscription, `wire` the response body, `shown` the status on the page, `asked`/`answers` the fetches under way |
| `QuotaLedger` | the quota row under READ COMMITTED | `snap` is the row as the session read it, `goal` as it changed it; `lock` is the row lock that the flush takes |
| `RateLimiter` | `RateLimitMiddleware` | `hits` is `self._hits`; `log` remembers what the deque forgets |
| `AgentGraph` | `setup.py`, `conditional_logic.py`, `propagation.py`, the agents | `node` is the node of the next superstep, `debate`/`risk` the debate states, of a debater's history the number of turns. One action per node |
| `RunProgress` | `progress.py`, as operators | a record with the statuses, sections, timeline and tools of `RunProgress`, from one chunk to the next |
| `EngineRun` | `run_analysis_job`, extends the two | `phase` is where the runner is; each superstep is followed by the chunk; `saved` is the checkpoint; any call may raise, a run may be asked for again |
| `DecisionLog` | the memory log, `store_decision`, `batch_update_with_outcomes`, rotation, `get_past_context` | `log` and `tmp` are the two files, `fd` what a worker has open; reading, writing and renaming are separate steps |
| `AtomicLog` | what the log promises if every operation on it is one step | `entries`, the decisions and whether each waits; `Store` is `store_decision`, `Settle` is `batch_update_with_outcomes` with its rotation |
| `RunFiles` | the runs of one user on several workers, over `DecisionLog`, and the report trees | `dirs` are the local directories, `objects` what the bucket holds under each key, `path` the `report_path` of the row; the upload is file by file |
| `VendorClients` | each data client, as an operator from a reply to an outcome | rows are days; an outcome is a table, words, or one of the exceptions of `errors.py` |
| `MarketData` | `route_to_vendor`, the configuration, `load_ohlcv` with its cache, called by threads | `file[d]` is the cache file of day `d`, possibly torn; `config` is global to the process; `answer` is what the last call answered and whom it had asked; a chain is the set of places of the configured list whose vendors have the method, a route what came of those that were asked |
| `MC*` | the requests, deployments, report trees and symmetry sets that TLC uses | |
| `*_proofs` | theorems and proofs; those about what the room is shown of a run are in `EngineProgress_proofs` | |

`JobPipeline` and `JobLifecycle` compose: the first implements the second
under the map `status[j] = row[j].status`. `EventStream` and `RunFiles` take the
life of the row in short form (in `EventStream` retries are serial and nothing
crashes; the steps in which the row changes and in which events are published
are kept apart, which is all its properties depend on); both are proved to move
it only as `JobLifecycle` allows (`RowFollowsLifecycle`, `RowsFollowLifecycle`).
`RunFiles` implements `AtomicLog`, under the map `Entries`, up to the first
write that rests on a stale reading. `QuotaLedger` looks into the transaction
that is one step, `CommitCharge`, in `JobPipeline`. `EngineRun` is the one step
"the engine runs" of `JobPipeline`, in full: `AgentGraph` moves, `RunProgress`
reads. `RunFiles` looks at the same run from the disk: the graph is one step
there, and several runs overlap. `MarketData` is what happens inside a round of
tool calls, which is one superstep in `AgentGraph`.

Abstractions. Tickers, parameters, reports, times of update and texts are left
out. An error is what `classify_job_error` makes of it, retryable or not.
Ids come from `uuid4` and are fresh. In `JobPipeline` the engine may return or
raise, nothing else. A reply of a model is empty or not, and whose it is; it
asks for tools or not. Nodes and agents have the names of the code without
their blanks. `MarketData` has one symbol and counts time in ticks; it assumes
that the market of that symbol closes before the worker's day ends
(`CloseTick <= DayTicks`), as the comment at `stockstats_utils.py:142` does. It
is so for containers, whose clock is UTC, and both markets; on a host in Asia an
American bar of yesterday may still change. Money is counted in tenths, as
`compute_consumption_points` rounds.
`Mutant:` marks operators that no specification uses: each is a plausible bug,
kept beside the definition it stands for to show which property would notice.

## 3. Runs

| Run | Bounds | Shows |
|---|---|---|
| `pipeline` | Postgres, 2 jobs, 2 workers, 2 requests, 1 fault | type correctness; `Exclusive`, `NoLostUpdate`, `NoGhostJobs`, `NothingStranded`, `OutcomeRecorded`, `ChargedOnce`; the refinement `LifecycleSpec` |
| `pipeline_live` | Redis, the same, no faults, fair | `EveryJobEnds`; `CompletedStays` for the store that overwrites whole records |
| `pipeline_double_retry` | 1 job, overlapping retries | `CompletedStays` does not hold: see section 5 |
| `stream` | 2 workers, 2 attempts, 2 payloads on the wire | `FailureIsRecorded`, `OutcomeHappened` |
| `stream_live` | 1 attempt, 1 broken connection, fair | `StreamsEnd`, `RoomFollows` |
| `stream_outcome` | 1 attempt | `StreamsEndWithOutcome` does not hold: see section 5 |
| `quota` | 2 requests, 2 admins, 4 transactions, 1 rolled back | `NeverOvercharged`, `WithinLimits` |
| `quota_race` | 2 requests, no admin | `ChargesAddUp` does not hold: see section 5 |
| `rate` | 1 client, 2 buckets, limits 2 and 3, window 2, clock to 7 | `WindowHolds`, `CountIsExact`, `DequeIsBounded` |
| `analysis` | 5 kinds of run (one or two analysts, with and without tools; debates of 0, 1 and 2 rounds; one with a checkpoint), 2 attempts, recursion limit 14 | the graph and the runner: `StepsAccounted`, `FullDebates`, `CompletedIsComplete`; what the room is told: `ShownIsDone`, `NoStepBack`, `ToolsAttributed`, `VerdictShown` |
| `decisions` | 2 workers, 2 analyses of one ticker, 2 attempts, 3 runs, 1 failure or death, 3 seconds; local and S3 | the log: `DecisionsKept`, `ReflectionMatches`, `ContextIsRecent`, the refinement `WritesAreAtomic`; the reports: `ReportIsOwn` |
| `market` | 2 threads, 2 calls that reach the cache, 2 days and the start of a third, every method; two deployments: one with an ordered fallback, a tool with vendors of its own and one with none that has the method; one that leaves the order to the code and misnames the vendor of an optional source | `NoLookAhead`, `PricesAreCurrent`, `VerdictIsEarned` |

Why the bounds are enough. Two workers, two requests and two jobs give every
pair of actors on the same and on different jobs; a third actor would only
meet one of the two. In `pipeline` a job can be retried any number of times (no
counter grows with the attempts), so the run is unbounded in length. One
fault is one crash or failed call at any step; the proofs cover any number.
Four transactions let a charge overlap a charge, a reset and a change of plan.
A clock of three windows lets a deque fill, expire and fill again. A recursion limit of 14 is below what a run with two analysts, tool calls and
longer debates needs and above what a short one does, so runs end both ways.
Five kinds of run give every combination that the code tells apart: an
analyst first, between and last; a debate of no, one and several turns; a state
left by an earlier attempt or none. Two workers and two analyses of one ticker
are the least with which the log is shared; with `MaxEntries = 1` the second
resolved decision rotates the first out. Two days and a part of the third have
a day that is over, the current one, and one in which the file of the day
before is still there. `MaxWire`
makes sending wait, as a full socket does. `SerialRetries` is an assumption
about clients, not a bound: the interface disables its retry button while a
request is under way, the API does not enforce it.

Deadlock is not checked where the system may rightly stop: no requests arrive
and the workers wait for the queue (`pipeline*`), the room has stopped
(`stream*`), the bound on transactions, runs or time is reached (`quota*`,
`decisions`, `market`), or the run has ended (`analysis`). `rate` checks it.

Fairness. `JobPipeline` and `EventStream` assume weak fairness for each
worker, each request that has begun, the API's answers, and the browser: these
are processes and event loops that the deployment keeps running, each with a
next call that nobody else can block for ever (BLPOP, a row lock, a socket).
The end of a run is among them because the graph has a recursion limit. There
is no fairness for requests, exceptions, lost connections, crashes, or a
user's retry. `stream_live` needs no fairness of delivery: lost events are
part of the model, and the poll of the row makes up for them.

## 4. Proofs

All theorems hold for every value of the constants that satisfies the named
assumption of the module.

`JobPipeline_proofs`. `BaseInv` (types, which steps go with which goal,
`NoGhostJobs`, creators apart, `ChargedOnce`) is inductive by itself.
`Exclusive` is not: a retry must find that nobody else has the job because its
status is failed, and a worker must know that the id it popped belongs to a
queued row. `TurnOf` says this: the status of a row determines the step
its owner is at, and an id in the queue has a queued row. With it and the
assumption that the retries of one job are serial, `IInv = BaseInv /\
OwnerInv` is inductive, for both stores and any number of faults. From it
follow `JobsAreExclusive`, `UpdatesAreKept`, `JobsAreKept`,
`OutcomesAreRecorded`; `Refinement` (every step is a step of
`JobLifecycle` or leaves the statuses alone); and `CompletedJobsStay`, the very
property that overlapping retries break. `TypeCorrect`, `NoGhosts` and
`JobsAreChargedOnce` do without the assumption.

`QuotaLedger_proofs`. `NeverOvercharged` compares the row with what has been
billed; a transaction in between knows an old row. `Covered` bounds what it is
going to write by what will have been billed when it commits. `WithinLimits`
asks for a limit that was in force, so two variables keep the history: `seen`,
the limits in force since an actor read the row, and `ceilings`, what the usage
recorded last may go up to (the limits its charge has seen, or what an admin
set). `Capped` says that a charge under way is within the limit its session
read, and that this is one of those it has seen; a limit that was replaced
before the request came is not. `LedgerInv` is inductive; `NobodyOvercharged`,
`LimitsHold` and `TypeCorrect` follow. The row lock is not used in the argument.
A reset lowers `used`, never `billed`: what `NeverOvercharged` does not tell is
whether a charge that overlaps a reset brings back usage the admin has cleared
(it may: the write is absolute).
`SerialChargesAddUp` is the other half of the run `quota_race`: if no two
requests of the user overlap (`[]Serial`, without admins), `ChargesAddUp` holds,
so it is the overlap and nothing else that loses a charge.

`RateLimiter_proofs`. `WindowHolds` is about the log, the code looks at the
deque only. `DequeIsRecentLog` says that the deque is the end of the log and
that what it dropped has expired, which stays true as the clock never goes
back. A request is let through when fewer than the limit are in the deque, so
the one that many places before it has expired. `WindowIsHeld` and
`DequeIsFaithful` hold for any limits (negative ones refuse everything),
window and length of run; `TypeCorrect` with them, and `DequeStaysBounded`.
`DecisionsAreExact` is the other half: what the middleware compares with the
limit, at any moment, is the number of requests of that client let through in
the last window, so a refusal is never wrongful (`CountIsExact`). It needs that
the log is in the order of time (`LogInOrder`): no request of the window is then
left behind the front of the deque.

`EventStream_proofs`. `FailureIsRecorded` is about events on their way to a
stream. It rests on `RowTurn`: a worker that has the job in hand runs the
attempt of the row, alone, and one that is about to announce a failure has
recorded it, or a retry has taken the row to a later attempt since. What the
stream and the room do only drops events. `StreamInv = TypeOK /\ RowTurn /\
FailureIsRecorded` is inductive, for any number of workers, attempts, payloads
in flight and broken connections. `ShownOutcomesHappened` is about what reaches
the browser: although the engine announces an outcome before it is recorded, the
page shows only one that has come about, unless the job has failed since or is
in a later attempt (`OutcomeHappened`). Its invariant, `Outcomes`, says so of
every place that leads to the page: the wire, the answers and the page itself. `RowFollowsLifecycle` says that every step moves the
row as `JobLifecycle` allows, or not at all.

`EngineRun_proofs`. Neither `StepsAccounted` nor `FullDebates` says whose turn
it is in a debate, and the count alone does not tell who has spoken. `InTurn`
does: before the bull speaks both sides have spoken equally often, before the
bear he is one behind, and the same for the three of the risk team.
`EngineInv` (types, `InTurn`, the two properties, and that a run which got past
its plan has an analyst) is inductive, for any requests, recursion limit and
attempts; from it `StepsAreAccounted`, `DebatesAreFull` and `TypeCorrect`.
`CompletedRunsAreComplete` has an invariant of its own, of the books of the
runner: what the log, the reports and the checkpoint hold in each phase. It does
not say that the checkpoint is gone: `clear_checkpoint` swallows
`sqlite3.OperationalError` (`checkpointer.py:95-96`; the database of a ticker may
be locked by another run), and the run is announced as completed all the same.
`ClearCheckpoint` may therefore be refused, and a completed run leaves its
checkpoint only then. `AskAgain` starts from a completed run as well as from a
failed one, so that the next run of the thread may find what was left.

`EngineProgress_proofs` is about what the room is shown, over `EngineInv`. The
runner derives it anew from the whole state of the graph with every chunk, so
the invariant relates three things: who has spoken by the time the graph stands
at a node (`Heard`), which reports can be there and which of them the progress
has taken in (`Reported`, `Written`: all but the newest, until its chunk has
been processed), and what the status of each agent says of them (`Shown`: the
analyst shown at work is the first of the plan without a section). For tool
calls `Untold` says that only the newest message can hold one that the timeline
has not yet got, so the first agent at work is its author or one before it with
an empty report. `ProgressInv` is inductive; `ShownAgentsAreDone`,
`ToolCallsAreAttributed`, `VerdictIsShown` and the action property
`NoAgentStepsBack` follow, for any requests whose analysts stand in the order of
`ANALYST_ORDER` (`EngineRunAssumption`): `ticker.py:49` puts the analysts of a
request in that order, whichever was asked for, before the graph is built.

`RunFiles_proofs`, for any workers, jobs, files, attempts, seconds, cap and
faults. Of the reports, `Hands` says that a job is in the hands of one worker
and how far it is; `Trees` follows the files of its attempt from the directory
to the bucket (those not in `todo` are there) to the row. Of the log, `Kept`
says that as long as no write rested on a stale reading the log is in the order
of the book, and what it has dropped was resolved, is older than all that is
still resolved in it, and was dropped when the cap was full; and that the text
a worker is about to write is made of the log as it is, unless the worker knows
a stale one. `Matches` says the same of reflections: what a worker has found, or
is about to update, are blocks that still wait in the log. Rotation and the batch
are sets of places picked in order (`Pick`), so the lemmas about them are about
cardinalities and least elements rather than recursion. `DecisionsAreKept`,
`ReflectionsMatch`, `ReportsAreOwn` and `TypeCorrect` follow.
`RunFilesAssumption` asks that a tree is never empty, which it is not:
`complete_report.md` is always written (`reporting.py:138`). The properties
of the log are about the time before a write rested on a stale reading;
`OneWorkerIsUndisturbed` shows that with one worker, which may fail and die at
any step, there is never such a write.

`LogIsAtomic` is the refinement: a step before that write leaves the log alone,
stores one decision, or settles a set of those that wait. It needs `Searched`: a
worker about to append has seen no decision of its ticker and date waiting, and
there is still none unless the worker's reading is stale; and `BatchSettles`,
which finds the set of waiting decisions that `batch_update_with_outcomes` and
its rotation settle, seen as one step. `UnracedLogIsAtomic` states it of behaviours (those in which no
write ever rests on a stale reading satisfy `Atomic!Spec`), and
`OneWorkerIsAtomic` gives a deployment in which all do. `ContextsAreRecent` is
about the pass of `get_past_context`, which walks the log from its end and
gathers five resolved decisions of the ticker and three of others (`NSame` and
`NCross`, any numbers in the proof). The model has it as a
recursive function, `pass`. That there is such a function at all is shown first,
with the least place at which there would be none; then `PassKeeps` says what it
has gathered at each place, and `Newest` that those are the last of their kind.
`RowsFollowLifecycle` is as above.

`MarketData_proofs`, for any deployment, replies, number of threads and calls,
clock, TTL and windows. The proof has three layers. Client by client, `Fits`
says which days the rows of an outcome may be of (`Undated` is where a client
does not filter), `Suits` what the properties need of it (`ClientSuits`). Of the router, `Walked` says that on every way down
the chain the vendors before the last have failed, and `Earned` what may then be
told; so what is told is fair (`RoutedFair`), timely (`RoutedTimely`), and the
outcome of Yahoo's load when that is what answered (`AnswerIsTold`). The
inductive invariant `IInv` is about the rest: the process's configuration is
that of its run, whatever ran before (`Settled`: merging is idempotent between
configurations that have the same keys); a file of prices is of its day or later
(`Written`); a load stays before the day asked for, its frame is not older than
the day of its file, and one just downloaded not older than the question
(`Sane`). From it every answer of a load is `Good`, and `NothingOfTheFuture`,
`ShownPricesAreCurrent`, `VerdictsAreEarned` and `TypeCorrect` follow.
`DeploymentsAssumption` is the shape of `default_config.py` (a list of vendors
for every category, and for some tools), `MarketAssumption` the order of the
ticks of a day. AKShare may fail whatever it is asked for: it may not be
installed (`_akshare.py:9`), and its functions need the code of an A share, but
for the bulletins of `get_global_news`, which take no ticker.

Only model-checked: liveness (`EveryJobEnds`, `StreamsEnd`, `RoomFollows`),
because tlapm proves neither fairness arguments nor ENABLED. No module here
declares a recursive operator; the one recursion is the function `pass`.

## 5. Where code and documents disagree

* **Overlapping retries** (`pipeline_double_retry`). `retry_analysis` checks
  the status and requeues in separate calls. Two requests that overlap both
  pass and push the id twice; the worker that pops the second copy sets a
  completed job back to running and runs it again. `docs/deployment.md:276`
  says that the retry API has checked the status.
* **Early completion** (`stream_outcome`). The engine publishes `completed`
  before the report is uploaded and the row updated. The stream ends on that
  event, and the status it sends last may be `running`; the room takes the
  event for the end and follows no further. `docs/deployment.md:316` expects
  the room's stream to lead to completed. `RoomFollows` holds for rooms that
  go on following, and this is why it has to except the others.
* **Lost charge** (`quota_race`). `charge_points` reads the row without a
  lock and writes an absolute value. Of two overlapping creations one is not
  deducted. `docs/deployment.md:318` expects the points to decrease.
  `NeverOvercharged` says that the error is never in the other direction.

Further behaviours met while modelling. The properties that bear on them name
them as exceptions in their statements, where a model reaches them; the others
are facts of the code that the models follow.

* **Resuming** (`EngineRun`). `trading_graph.py:369` says that a crashed run
  resumes from its last successful node, `runner.py:70` logs that it does. The
  runner always passes a new input, so the graph starts over, in a thread that
  still holds the channels of the earlier attempt: messages are appended to, and
  the trader's old plan is shown as the work of a trader who has yet to speak
  (the exception `Stale` of `ShownIsDone`, `NoStepBack` and `ToolsAttributed`).
  The earlier attempt need not have failed: a completed run whose checkpoint the
  database refused to clear leaves the next one of the same ticker, date and
  settings in the same place, with nothing said about it but in the code
  (`checkpointer.py:95`).
* **Attribution** (`RunProgress`). A tool call is put down to the first agent
  shown at work before the chunk is taken in; after an analyst with an empty
  report that is the wrong one (`ToolsAttributed`). Before there is a verdict the
  timeline entry of the portfolio manager may hold words of the debate
  (`progress.py:243`); `VerdictShown` says that they give way to it.
* **Nothing to analyse.** For a crypto asset the fundamentals analyst is removed
  (`ticker.py:42`). If it was the only one, the plan is empty and the run fails
  (`analyst_execution.py:66`), after the charge.
* **Shared decision log** (`RunFiles`). `docs/deployment.md:111` runs several
  workers. Two of one user that rewrite the log lose what one of them stored, or
  write one temporary file together (`memory.py:214`), and a reflection may come
  to stand under another decision. `DecisionsKept`, `ReflectionMatches` and
  `WritesAreAtomic` hold up to the first write that rests on an outdated reading. An outcome may rest
  on fewer than the five days it is meant for (`trading_graph.py:278`), and the
  context of a back-dated analysis includes later decisions (`memory.py:70`).
* **Reports** (`RunFiles`). Sections of an earlier attempt stay in the bucket
  (`s3.py:47`), and two runs of one ticker that save in the same second share a
  directory (`trading_graph.py:411`): the exceptions of `ReportIsOwn`.
* **Price cache** (`MarketData`). `to_csv` writes in place, so a thread may read
  a torn file, and a file rewritten between its reading and the look at its age
  passes for fresh (the exception `sound` of `PricesAreCurrent`). A file of no
  bytes, left by a worker that died, makes `read_csv` raise for the rest of the
  day, although the comment at `stockstats_utils.py:203` wants an empty cache
  fetched again.
* **Fallback** (`VendorClients`). The Yahoo clients turn errors into words, and
  so do Alpha Vantage's indicators at their rate limit; to the router words are
  an answer, and the next vendor is not asked. "No news found" ends the chain as
  well. If every vendor is rate limited the run ends with an exception.
* **Dates** (`VendorClients`). Fundamentals, insider transactions, prediction
  markets and the two social sources take no account of the day of the analysis;
  an A share's statements show the next one when none is old enough, its news
  one day more than asked for. `curr_date` of the three statement tools may be
  left out by the model that calls them (`fundamental_data_tools.py:29,48,67`),
  and then every vendor returns all reports. A body that cannot be read is passed
  on as it came: prices of Alpha Vantage if filtering raises
  (`alpha_vantage_common.py:148-151`), its statements if they are no JSON object
  (`alpha_vantage_fundamentals.py:13-20`), AKShare's statements without a
  `REPORT_DATE` (`vendors/fundamentals.py:80-81`). These, one by one, are the
  exceptions of `NoLookAhead`; the model has all of them (`NoDate`, `AsItCame`).

## 6. What is not modelled

Language model clients, prompts, the wording of replies, web pages other than
the room, authentication, routes that only read, and packaging: calls to third
parties, text and rendering. The in-memory store, which serves tests and local
runs. A worker that dies after BLPOP leaves its job queued or running for ever;
the code has no recovery to model, and `NothingStranded` is stated for runs
without faults for that reason. Several API processes (the rate limiter keeps
its windows per process). Postgres itself beyond row locks and READ COMMITTED.
Progress, message and tool events on their way to the room. Of the engine, token
statistics and the signal processor; of the data clients, indicators,
formatting and the normalisation of symbols; of the reports, export. The
command-line path through `propagate()` runs the same graph and log and is not
driven.

## 7. Plan

1. `MemoryStore`: the in-memory store with its lock and condition, and
   `_sse_stream` on top of it. `iter_events` yields while it holds the lock:
   does every caller get it again?
2. The rooms that `RoomFollows` excepts, over a retry.
3. Progress events in `EventStream`, with the copy that the store keeps of the
   last one; prices and plan gates as pure operators.

## 8. Running it

```
tlc -workers 2 -config pipeline.cfg MCJobPipeline
tlapm JobPipeline_proofs.tla
```

`PROJECT.json` names the module and configuration of each run, the mutant that
each property detects, the source lines of each definition, and the theorems.
