----------------------------- MODULE EventStream -----------------------------
(***************************************************************************)
(* How the analysis room follows one job (Redis and Postgres stores):      *)
(*                                                                         *)
(*   publishers   the worker, the engine inside it and the API publish     *)
(*                events on the job's Redis channel                        *)
(*   stream       _sse_stream over RedisJobStore.iter_events: one GET      *)
(*                /analyses/{id}/events                                    *)
(*   room         subscribeAnalysisEvents (apps/web/src/lib/api.ts) and    *)
(*                the page that shows the job's status                     *)
(*                                                                         *)
(* A published event reaches only those subscribed at that moment.  The    *)
(* life of the row is JobPipeline's, with serial retries and no crashes;   *)
(* here each of its writes and each announcement is one step.  Progress,   *)
(* message and tool events are left out: they carry no status, and the     *)
(* stream and the room pass them over.                                     *)
(***************************************************************************)
EXTENDS Naturals, Sequences

CONSTANTS
    Workers,        \* worker processes
    MaxAttempts,    \* bound: runs of the job, retries included
    MaxWire,        \* bound: payloads in flight, sending waits when it is reached
    MaxDrops        \* bound: connections lost between the API and the browser

ASSUME EventStreamAssumption ==
    /\ MaxAttempts \in Nat \ {0}
    /\ MaxWire \in Nat \ {0, 1}
    /\ MaxDrops \in Nat

VARIABLES
    row,        \* the stored status, and which attempt it belongs to
    queued,     \* the job's id is in the queue
    worker,     \* worker[w]: what w does with the job, and in which attempt
    pending,    \* requests that queued the job and have yet to announce it
    stream,     \* where _sse_stream is
    inbox,      \* events delivered to the subscription and not yet read
    wire,       \* payloads sent to the browser and not yet read
    conn,       \* "idle" between connections, "reading", or "stopped"
    terminal,   \* this connection carried a completed or failed event
    shown,      \* the status on the page
    asked,      \* requests GET /analyses/{id} that have yet to read the row
    answers,    \* answers[s]: answers with status s that have yet to arrive
    drops       \* connections lost so far

vars == <<row, queued, worker, pending, stream, inbox, wire, conn, terminal,
          shown, asked, answers, drops>>
jobVars == <<row, queued, worker, pending>>
roomVars == <<conn, terminal, shown, asked, answers, drops>>

Attempts == 1..MaxAttempts
Ended == {"completed", "failed"}
Statuses == {"queued", "running"} \cup Ended
EventTypes == {"queued", "started"} \cup Ended
Event == [type : EventTypes, attempt : Attempts]
Payload == [type : EventTypes \cup {"status"}, status : Statuses]
           \cup {[type |-> "eof", status |-> "none"]}

Idle == [pc |-> "idle", attempt |-> 1]

Init ==
    /\ row = [status |-> "queued", attempt |-> 1]
    /\ queued = TRUE
    /\ worker = [w \in Workers |-> Idle]
    /\ pending = {[attempt |-> 1, here |-> FALSE]}
    /\ stream = "closed"
    /\ inbox = <<>>
    /\ wire = <<>>
    /\ conn = "idle"
    /\ terminal = FALSE
    /\ shown = "loading"
    /\ asked = 1
    /\ answers = [s \in Statuses |-> 0]
    /\ drops = 0

-----------------------------------------------------------------------------
(* Publishing                                                               *)

Subscribed == stream \in {"poll", "resolve", "final"}

\* publish_event, for an event of attempt n.
Publish(type, n) ==
    inbox' = IF Subscribed
             THEN Append(inbox, [type |-> type, attempt |-> n])
             ELSE inbox

\* Worker w goes on to step pc.
At(w, pc) == worker' = [worker EXCEPT ![w] = [pc |-> pc, attempt |-> worker[w].attempt]]

\* BLPOP and the update to "running".
StartRun(w) ==
    /\ worker[w].pc = "idle"
    /\ queued
    /\ queued' = FALSE
    /\ row' = [row EXCEPT !.status = "running"]
    /\ worker' = [worker EXCEPT ![w] = [pc |-> "announce", attempt |-> row.attempt]]
    /\ UNCHANGED <<pending, inbox>>

PublishStarted(w) ==
    /\ worker[w].pc = "announce"
    /\ Publish("started", worker[w].attempt)
    /\ At(w, "run")
    /\ UNCHANGED <<row, queued, pending>>

\* run_analysis_job publishes its own "completed" event before it returns.
EngineCompletes(w) ==
    /\ worker[w].pc = "run"
    /\ Publish("completed", worker[w].attempt)
    /\ At(w, "record")
    /\ UNCHANGED <<row, queued, pending>>

\* The upload succeeded; update_job records the result.
RecordCompleted(w) ==
    /\ worker[w].pc = "record"
    /\ row' = [row EXCEPT !.status = "completed"]
    /\ At(w, "completed")
    /\ UNCHANGED <<queued, pending, inbox>>

\* Mutant: the failure is announced but not recorded.
RecordFailed_Announces(w) ==
    /\ worker[w].pc \in {"run", "record", "completed"}
    /\ Publish("failed", worker[w].attempt)
    /\ At(w, "failed")
    /\ UNCHANGED <<row, queued, pending>>

\* An exception in the run, the upload or a call to the store.
RecordFailed(w) ==
    /\ worker[w].pc \in {"run", "record", "completed"}
    /\ row' = [row EXCEPT !.status = "failed"]
    /\ At(w, "failed")
    /\ UNCHANGED <<queued, pending, inbox>>

PublishEnd(w) ==
    /\ worker[w].pc \in Ended
    /\ Publish(worker[w].pc, worker[w].attempt)
    /\ worker' = [worker EXCEPT ![w] = Idle]
    /\ UNCHANGED <<row, queued, pending>>

Work(w) ==
    /\ \/ StartRun(w) \/ PublishStarted(w)
       \/ EngineCompletes(w) \/ RecordCompleted(w) \/ RecordFailed(w)
       \/ PublishEnd(w)
    /\ UNCHANGED <<stream, wire, roomVars>>

-----------------------------------------------------------------------------
(* The API requests besides the stream                                      *)

\* retry_analysis finds the job failed and requeues it: from the failed panel
\* of this room (here), or from another one.
Retry(here) ==
    /\ here => shown = "failed"
    /\ row.status = "failed"
    /\ row.attempt < MaxAttempts
    /\ row' = [status |-> "queued", attempt |-> row.attempt + 1]
    /\ queued' = TRUE
    /\ pending' = pending \cup {[attempt |-> row.attempt + 1, here |-> here]}
    /\ UNCHANGED <<worker, stream, inbox, wire, roomVars>>

\* POST /analyses and the retry publish "queued" after the id is in the queue.
\* The answer to a retry of this room makes it fetch the job.
PublishQueued(p) ==
    /\ p \in pending
    /\ pending' = pending \ {p}
    /\ Publish("queued", p.attempt)
    /\ asked' = IF p.here THEN asked + 1 ELSE asked
    /\ UNCHANGED <<row, queued, worker, stream, wire, conn, terminal,
                   shown, answers, drops>>

\* GET /analyses/{id} reads the row.
AnswerFetch ==
    /\ asked > 0
    /\ asked' = asked - 1
    /\ answers' = [answers EXCEPT ![row.status] = @ + 1]
    /\ UNCHANGED <<jobVars, stream, inbox, wire, conn, terminal, shown, drops>>

-----------------------------------------------------------------------------
(* _sse_stream                                                              *)

Status == [type |-> "status", status |-> row.status]
Eof == [type |-> "eof", status |-> "none"]

Send(payloads) ==
    /\ Len(wire) + Len(payloads) <= MaxWire
    /\ wire' = wire \o payloads

\* An event as the browser sees it.
Sent(e) ==
    [type |-> e.type, status |-> IF e.type = "started" THEN "running" ELSE e.type]

SendStatus ==
    /\ stream = "open"
    /\ Send(<<Status>>)
    /\ stream' = "subscribe"
    /\ UNCHANGED inbox

Subscribe ==
    /\ stream = "subscribe"
    /\ inbox' = <<>>
    /\ stream' = "poll"
    /\ UNCHANGED wire

\* get_message returns an event: it is sent on, and a completed or failed one
\* ends the loop.
ForwardEvent ==
    /\ stream = "poll"
    /\ inbox # <<>>
    /\ inbox' = Tail(inbox)
    /\ Send(<<Sent(Head(inbox))>>)
    /\ stream' = IF Head(inbox).type \in Ended THEN "final" ELSE "poll"

\* get_message returns nothing for a second.
PollTimesOut ==
    /\ stream = "poll"
    /\ inbox = <<>>
    /\ stream' = "resolve"
    /\ UNCHANGED <<inbox, wire>>

\* Mutant: only an event ends the loop.
ResolveJob_NeverEnds ==
    /\ stream = "resolve"
    /\ stream' = "poll"
    /\ UNCHANGED <<inbox, wire>>

\* The row then decides whether to go on.
ResolveJob ==
    /\ stream = "resolve"
    /\ stream' = IF row.status \in Ended THEN "final" ELSE "poll"
    /\ UNCHANGED <<inbox, wire>>

\* The status once more, then the end of the response.
SendFinal ==
    /\ stream = "final"
    /\ Send(<<Status, Eof>>)
    /\ stream' = "closed"
    /\ inbox' = <<>>

Stream ==
    /\ \/ SendStatus \/ Subscribe \/ ForwardEvent
       \/ PollTimesOut \/ ResolveJob \/ SendFinal
    /\ UNCHANGED <<jobVars, roomVars>>

-----------------------------------------------------------------------------
(* The room                                                                 *)

Connect ==
    /\ conn = "idle"
    /\ conn' = "reading"
    /\ stream' = "open"
    /\ UNCHANGED <<jobVars, inbox, wire, terminal, shown, asked, answers, drops>>

\* Mutant: the page takes the type of the event for its status.
HandlePayload_TypeAsStatus ==
    LET p == Head(wire) IN
    /\ wire # <<>>
    /\ p.type # "eof"
    /\ wire' = Tail(wire)
    /\ shown' = IF p.type \in {"status", "queued", "started"} /\ shown # "loading"
                THEN p.type ELSE shown
    /\ terminal' = (terminal \/ p.type \in Ended)
    /\ asked' = IF p.type \in Ended THEN asked + 1 ELSE asked
    /\ UNCHANGED <<jobVars, stream, inbox, conn, answers, drops>>

\* Mutant: the status that closes a stream is not passed on to the page.
HandlePayload_IgnoresStatus ==
    LET p == Head(wire) IN
    /\ wire # <<>>
    /\ p.type # "eof"
    /\ wire' = Tail(wire)
    /\ shown' = IF p.type \in {"queued", "started"} /\ shown # "loading"
                THEN p.status ELSE shown
    /\ terminal' = (terminal \/ p.type \in Ended)
    /\ asked' = IF p.type \in Ended THEN asked + 1 ELSE asked
    /\ UNCHANGED <<jobVars, stream, inbox, conn, answers, drops>>

\* Mutant: the page takes the status from every event.
HandlePayload_AnyEvent ==
    LET p == Head(wire) IN
    /\ wire # <<>>
    /\ p.type # "eof"
    /\ wire' = Tail(wire)
    /\ shown' = IF shown # "loading" THEN p.status ELSE shown
    /\ terminal' = (terminal \/ p.type \in Ended)
    /\ asked' = IF p.type \in Ended THEN asked + 1 ELSE asked
    /\ UNCHANGED <<jobVars, stream, inbox, conn, answers, drops>>

\* The page takes the status from status, queued and started payloads, once it
\* has a job to put it in, and fetches the job when an event says it ended.
HandlePayload ==
    LET p == Head(wire) IN
    /\ wire # <<>>
    /\ p.type # "eof"
    /\ wire' = Tail(wire)
    /\ shown' = IF p.type \in {"status", "queued", "started"} /\ shown # "loading"
                THEN p.status ELSE shown
    /\ terminal' = (terminal \/ p.type \in Ended)
    /\ asked' = IF p.type \in Ended THEN asked + 1 ELSE asked
    /\ UNCHANGED <<jobVars, stream, inbox, conn, answers, drops>>

\* At the end of a response the room connects again, unless an event said that
\* the job ended.
HandleEof ==
    /\ wire # <<>>
    /\ Head(wire) = Eof
    /\ wire' = Tail(wire)
    /\ conn' = IF terminal THEN "stopped" ELSE "idle"
    /\ terminal' = FALSE
    /\ UNCHANGED <<jobVars, stream, inbox, shown, asked, answers, drops>>

\* An answer to a fetch sets the whole job.  Answers may overtake each other.
ShowFetched ==
    /\ \E s \in Statuses :
          /\ answers[s] > 0
          /\ shown' = s
          /\ answers' = [answers EXCEPT ![s] = @ - 1]
    /\ UNCHANGED <<jobVars, stream, inbox, wire, conn, terminal, asked, drops>>

\* The connection breaks: the room retries after an error, whatever it read.
Drop ==
    /\ conn = "reading"
    /\ drops < MaxDrops
    /\ drops' = drops + 1
    /\ conn' = "idle"
    /\ stream' = "closed"
    /\ inbox' = <<>>
    /\ wire' = <<>>
    /\ terminal' = FALSE
    /\ UNCHANGED <<jobVars, shown, asked, answers>>

-----------------------------------------------------------------------------
Room == Connect \/ HandlePayload \/ HandleEof \/ ShowFetched

Next ==
    \/ \E w \in Workers : Work(w)
    \/ \E p \in pending : PublishQueued(p)
    \/ \E here \in BOOLEAN : Retry(here)
    \/ AnswerFetch
    \/ Stream \/ Room \/ Drop

Spec == Init /\ [][Next]_vars

\* The processes, the API and the browser keep running; nobody has to retry,
\* no connection has to break.
Fairness ==
    /\ \A w \in Workers : WF_vars(Work(w))
    /\ WF_vars(\E p \in pending : PublishQueued(p))
    /\ WF_vars(AnswerFetch)
    /\ WF_vars(Stream)
    /\ WF_vars(Connect)
    /\ WF_vars(HandlePayload \/ HandleEof)
    /\ WF_vars(ShowFetched)

FairSpec == Spec /\ Fairness

-----------------------------------------------------------------------------
(* Properties                                                               *)

TypeOK ==
    /\ row \in [status : Statuses, attempt : Attempts]
    /\ queued \in BOOLEAN
    /\ worker \in [Workers -> [pc : {"idle", "announce", "run", "record"} \cup Ended,
                               attempt : Attempts]]
    /\ pending \subseteq [attempt : Attempts, here : BOOLEAN]
    /\ stream \in {"closed", "open", "subscribe", "poll", "resolve", "final"}
    /\ inbox \in Seq(Event)
    /\ wire \in Seq(Payload)
    /\ conn \in {"idle", "reading", "stopped"}
    /\ terminal \in BOOLEAN
    /\ shown \in Statuses \cup {"loading"}
    /\ asked \in Nat
    /\ answers \in [Statuses -> Nat]
    /\ drops \in 0..MaxDrops

\* Whoever sees a "failed" event and then reads the row finds the failure, or
\* a later attempt: process_job records the failure before it announces it.
FailureIsRecorded ==
    \A i \in DOMAIN inbox :
        inbox[i].type = "failed" =>
            \/ row.status = "failed" /\ row.attempt = inbox[i].attempt
            \/ row.attempt > inbox[i].attempt

\* The page never shows an outcome that has not come about, although the engine
\* announces one before it is recorded and answers come late: the row says what
\* the page shows, unless it has failed since or is in a later attempt.
Happened(s) ==
    \/ row.attempt > 1
    \/ row.status = "failed"
    \/ row.status = "completed" /\ s = "completed"
OutcomeHappened == shown \in Ended => Happened(shown)

\* A stream ends once its job has ended, even if it subscribed after the last
\* event was published: the poll of the row makes up for lost events.
StreamsEnd ==
    stream # "closed" /\ row.status \in Ended
        ~> stream = "closed" \/ row.status \notin Ended

\* A room that still follows the job comes to show how it ended, whatever
\* events it missed and however its fetches are delayed.
RoomFollows ==
    \A s \in Ended :
        row.status = s /\ conn # "stopped"
            ~> shown = s \/ row.status # s \/ conn = "stopped"

\* A stream closes with the outcome of the job: the status it sends last is
\* that of a job that has ended.
StreamsEndWithOutcome ==
    \A i \in 2..Len(wire) : wire[i] = Eof => wire[i - 1].status \in Ended

=============================================================================
