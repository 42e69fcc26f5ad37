-------------------------- MODULE EventStream_proofs --------------------------
(***************************************************************************)
(* Proofs about EventStream, for any workers, attempts, length of the wire *)
(* and number of broken connections.                                       *)
(*                                                                         *)
(* FailureIsRecorded is about events on their way to a stream.  RowTurn    *)
(* says what it rests on: a worker that has the job in hand runs the       *)
(* attempt of the row, alone, and one that is about to announce a failure  *)
(* has recorded it.  What the stream and the room do only drops events.    *)
(***************************************************************************)
EXTENDS EventStream, TLAPS

Active(w) == worker[w].pc \in {"announce", "run", "record", "completed"}

\* The failure of attempt n is in the row, or a later attempt has taken it over.
Recorded(n) ==
    \/ row.status = "failed" /\ row.attempt = n
    \/ row.attempt > n

RowTurn ==
    /\ queued => row.status = "queued"
    /\ \A w \in Workers : Active(w) =>
        /\ ~ queued
        /\ row.attempt = worker[w].attempt
        /\ row.status = (IF worker[w].pc = "completed" THEN "completed" ELSE "running")
    /\ \A v, w \in Workers : Active(v) /\ Active(w) => v = w
    /\ \A w \in Workers : worker[w].pc = "failed" => Recorded(worker[w].attempt)

\* Inductive.
StreamInv ==
    /\ TypeOK
    /\ RowTurn
    /\ FailureIsRecorded

-----------------------------------------------------------------------------
(* What the steps share                                                     *)

\* What a worker, the row and the events are made of.
LEMMA Shapes ==
    ASSUME TypeOK
    PROVE  /\ row.status \in Statuses /\ row.attempt \in Attempts
           /\ row = [status |-> row.status, attempt |-> row.attempt]
           /\ \A w \in Workers : worker[w].attempt \in Attempts
           /\ MaxAttempts \in Nat /\ Attempts \subseteq Nat
BY EventStreamAssumption DEF TypeOK, Attempts

\* What is left of a queue when its head is read.
LEMMA Read ==
    ASSUME NEW S, NEW s \in Seq(S), s # <<>>
    PROVE  Head(s) \in S /\ Tail(s) \in Seq(S)
OBVIOUS

\* Events that are published keep the type of the inbox, and failures recorded.
LEMMA Published ==
    ASSUME TypeOK, FailureIsRecorded, UNCHANGED row,
           NEW type \in EventTypes, NEW n \in Attempts,
           type = "failed" => Recorded(n),
           Publish(type, n)
    PROVE  inbox' \in Seq(Event) /\ FailureIsRecorded'
<1>1. inbox \in Seq(Event)
  BY DEF TypeOK
<1>2. CASE inbox' = inbox
  BY <1>1, <1>2 DEF FailureIsRecorded
<1>3. CASE inbox' = Append(inbox, [type |-> type, attempt |-> n])
  <2>1. [type |-> type, attempt |-> n] \in Event
    BY DEF Event
  <2>2. ASSUME NEW i \in DOMAIN inbox', inbox'[i].type = "failed"
        PROVE  Recorded(inbox'[i].attempt)
    <3>1. CASE i \in DOMAIN inbox
      <4>1. inbox'[i] = inbox[i]
        BY <1>1, <1>3, <2>1, <3>1
      <4>2. QED
        BY <2>2, <3>1, <4>1 DEF FailureIsRecorded, Recorded
    <3>2. CASE i \notin DOMAIN inbox
      <4>1. inbox'[i] = [type |-> type, attempt |-> n]
        BY <1>1, <1>3, <2>1, <3>2
      <4>2. QED
        BY <2>2, <4>1
    <3>3. QED
      BY <3>1, <3>2
  <2>3. FailureIsRecorded'
    BY <2>2 DEF FailureIsRecorded, Recorded
  <2>4. QED
    BY <1>1, <1>3, <2>1, <2>3
<1>4. QED
  BY <1>2, <1>3 DEF Publish

\* Steps that leave the job alone and at most drop events.
LEMMA JobKept ==
    ASSUME StreamInv, UNCHANGED jobVars, TypeOK',
           \/ inbox' = inbox
           \/ inbox' = <<>>
           \/ inbox # <<>> /\ inbox' = Tail(inbox)
    PROVE  StreamInv'
<1>1. RowTurn'
  BY DEF StreamInv, RowTurn, Active, Recorded, jobVars
<1>2. row' = row
  BY DEF jobVars
<1>3. FailureIsRecorded'
  <2>1. CASE inbox' = inbox
    BY <1>2, <2>1 DEF StreamInv, FailureIsRecorded
  <2>2. CASE inbox' = <<>>
    BY <2>2 DEF FailureIsRecorded
  <2>3. CASE inbox # <<>> /\ inbox' = Tail(inbox)
    <3>1. inbox \in Seq(Event)
      BY DEF StreamInv, TypeOK
    <3>2. \A i \in DOMAIN inbox' : i + 1 \in DOMAIN inbox /\ inbox'[i] = inbox[i + 1]
      BY <2>3, <3>1
    <3>3. QED
      BY <1>2, <3>2 DEF StreamInv, FailureIsRecorded
  <2>4. QED
    BY <2>1, <2>2, <2>3
<1>4. QED
  BY <1>1, <1>3 DEF StreamInv

\* Row and events stay and worker w goes on: what has to be shown.
LEMMA WorkerGoesOn ==
    ASSUME StreamInv, TypeOK', FailureIsRecorded', NEW w \in Workers,
           UNCHANGED <<row, queued>>, NEW pc, At(w, pc),
           pc \in {"run", "record"} /\ worker[w].pc \in {"announce", "run", "record"}
    PROVE  StreamInv'
<1>1. /\ \A v \in Workers \ {w} : worker'[v] = worker[v]
      /\ worker'[w].pc = pc /\ worker'[w].attempt = worker[w].attempt
  BY DEF At, StreamInv, TypeOK
<1>2. \A v \in Workers : Active(v)' => Active(v)
  BY <1>1 DEF Active
<1>3. RowTurn'
  BY <1>1, <1>2 DEF StreamInv, RowTurn, Active, Recorded
<1>4. QED
  BY <1>3 DEF StreamInv

-----------------------------------------------------------------------------
(* The worker                                                               *)

LEMMA StartRunStep ==
    ASSUME StreamInv, NEW w \in Workers, StartRun(w),
           UNCHANGED <<stream, wire, roomVars>>
    PROVE  StreamInv'
<1>1. /\ TypeOK /\ RowTurn /\ queued /\ row.status = "queued"
      /\ row.attempt \in Attempts /\ Attempts \subseteq Nat
  BY Shapes DEF StreamInv, RowTurn, StartRun
<1>2. /\ row'.status = "running" /\ row'.attempt = row.attempt
      /\ row' \in [status : Statuses, attempt : Attempts]
  BY <1>1, Shapes DEF StartRun, Statuses
<1>3. /\ queued' = FALSE /\ UNCHANGED <<pending, inbox>>
      /\ worker' = [worker EXCEPT ![w] = [pc |-> "announce", attempt |-> row.attempt]]
  BY DEF StartRun
<1>4. /\ \A v \in Workers \ {w} : worker'[v] = worker[v]
      /\ worker'[w].pc = "announce" /\ worker'[w].attempt = row.attempt
  BY <1>1, <1>3 DEF TypeOK
<1>5. TypeOK'
  BY <1>1, <1>2, <1>3 DEF TypeOK, roomVars
<1>6. RowTurn'
  <2>1. \A v \in Workers : ~ Active(v)
    BY <1>1 DEF RowTurn
  <2>2. \A v \in Workers : Active(v)' => v = w
    BY <1>4, <2>1 DEF Active
  <2>3. \A v \in Workers : worker'[v].pc = "failed" =>
            \/ row'.status = "failed" /\ row'.attempt = worker'[v].attempt
            \/ row'.attempt > worker'[v].attempt
    <3>1. ASSUME NEW v \in Workers \ {w}, worker[v].pc = "failed"
          PROVE  row.attempt > worker[v].attempt
      BY <1>1, <3>1 DEF RowTurn, Recorded
    <3>2. QED
      BY <1>2, <1>4, <3>1
  <2>4. QED
    BY <1>2, <1>3, <1>4, <2>2, <2>3 DEF RowTurn, Recorded
<1>7. FailureIsRecorded'
  BY <1>1, <1>2, <1>3 DEF StreamInv, FailureIsRecorded
<1>8. QED
  BY <1>5, <1>6, <1>7 DEF StreamInv

LEMMA PublishStartedStep ==
    ASSUME StreamInv, NEW w \in Workers, PublishStarted(w),
           UNCHANGED <<stream, wire, roomVars>>
    PROVE  StreamInv'
<1>1. TypeOK /\ FailureIsRecorded /\ worker[w].attempt \in Attempts
  BY Shapes DEF StreamInv
<1>2. /\ worker[w].pc = "announce" /\ At(w, "run")
      /\ UNCHANGED <<row, queued, pending>>
      /\ Publish("started", worker[w].attempt)
  BY DEF PublishStarted
<1>3. inbox' \in Seq(Event) /\ FailureIsRecorded'
  BY <1>1, <1>2, Published DEF EventTypes
<1>4. TypeOK'
  BY <1>1, <1>2, <1>3 DEF TypeOK, At, roomVars
<1>5. QED
  BY <1>2, <1>3, <1>4, WorkerGoesOn

LEMMA EngineCompletesStep ==
    ASSUME StreamInv, NEW w \in Workers, EngineCompletes(w),
           UNCHANGED <<stream, wire, roomVars>>
    PROVE  StreamInv'
<1>1. TypeOK /\ FailureIsRecorded /\ worker[w].attempt \in Attempts
  BY Shapes DEF StreamInv
<1>2. /\ worker[w].pc = "run" /\ At(w, "record")
      /\ UNCHANGED <<row, queued, pending>>
      /\ Publish("completed", worker[w].attempt)
  BY DEF EngineCompletes
<1>3. inbox' \in Seq(Event) /\ FailureIsRecorded'
  BY <1>1, <1>2, Published DEF EventTypes, Ended
<1>4. TypeOK'
  BY <1>1, <1>2, <1>3 DEF TypeOK, At, roomVars
<1>5. QED
  BY <1>2, <1>3, <1>4, WorkerGoesOn

LEMMA RecordStep ==
    ASSUME StreamInv, NEW w \in Workers, NEW end \in Ended,
           IF end = "completed" THEN RecordCompleted(w) ELSE RecordFailed(w),
           UNCHANGED <<stream, wire, roomVars>>
    PROVE  StreamInv'
<1>1. /\ TypeOK /\ RowTurn
      /\ row.attempt \in Attempts /\ Attempts \subseteq Nat
  BY Shapes DEF StreamInv
<1>2. /\ worker[w].pc \in {"run", "record", "completed"} /\ At(w, end)
      /\ end = "completed" => worker[w].pc = "record"
      /\ row' = [row EXCEPT !.status = end]
      /\ UNCHANGED <<queued, pending, inbox>>
  BY DEF RecordCompleted, RecordFailed, Ended
<1>3. /\ row'.status = end /\ row'.attempt = row.attempt
      /\ row' \in [status : Statuses, attempt : Attempts]
  BY <1>1, <1>2, Shapes DEF Statuses
<1>4. /\ \A v \in Workers \ {w} : worker'[v] = worker[v]
      /\ worker'[w].pc = end /\ worker'[w].attempt = worker[w].attempt
  BY <1>1, <1>2 DEF TypeOK, At
<1>5. Active(w) /\ ~ queued /\ row.attempt = worker[w].attempt /\ row.status # "failed"
  <2>1. Active(w)
    BY <1>2 DEF Active
  <2>2. QED
    BY <1>1, <2>1 DEF RowTurn
<1>6. TypeOK'
  BY <1>1, <1>2, <1>3 DEF TypeOK, At, roomVars
<1>7. RowTurn'
  <2>1. \A v \in Workers : Active(v)' => v = w
    BY <1>1, <1>4, <1>5 DEF RowTurn, Active
  <2>2. end = "completed" \/ end = "failed"
    BY DEF Ended
  <2>3. \A v \in Workers : worker'[v].pc = "failed" =>
            \/ row'.status = "failed" /\ row'.attempt = worker'[v].attempt
            \/ row'.attempt > worker'[v].attempt
    <3>1. ASSUME NEW v \in Workers \ {w}, worker[v].pc = "failed"
          PROVE  row.attempt > worker[v].attempt
      BY <1>1, <1>5, <3>1 DEF RowTurn, Recorded
    <3>2. QED
      BY <1>3, <1>4, <1>5, <2>2, <3>1
  <2>4. \A v \in Workers : Active(v)' =>
            /\ ~ queued'
            /\ row'.attempt = worker'[v].attempt
            /\ row'.status = (IF worker'[v].pc = "completed" THEN "completed" ELSE "running")
    BY <1>2, <1>3, <1>4, <1>5, <2>1, <2>2 DEF Active
  <2>5. QED
    BY <1>2, <1>5, <2>1, <2>3, <2>4 DEF RowTurn, Recorded
<1>8. FailureIsRecorded'
  BY <1>2, <1>3, <1>5 DEF StreamInv, FailureIsRecorded
<1>9. QED
  BY <1>6, <1>7, <1>8 DEF StreamInv

LEMMA PublishEndStep ==
    ASSUME StreamInv, NEW w \in Workers, PublishEnd(w),
           UNCHANGED <<stream, wire, roomVars>>
    PROVE  StreamInv'
<1>1. TypeOK /\ RowTurn /\ FailureIsRecorded /\ worker[w].attempt \in Attempts
  BY Shapes DEF StreamInv
<1>2. /\ worker[w].pc \in Ended /\ worker' = [worker EXCEPT ![w] = Idle]
      /\ UNCHANGED <<row, queued, pending>>
      /\ Publish(worker[w].pc, worker[w].attempt)
  BY DEF PublishEnd
<1>3. worker[w].pc = "failed" => Recorded(worker[w].attempt)
  BY <1>1 DEF RowTurn
<1>4. inbox' \in Seq(Event) /\ FailureIsRecorded'
  BY <1>1, <1>2, <1>3, Published DEF EventTypes, Ended
<1>5. Idle.pc = "idle" /\ Idle.attempt = 1 /\ 1 \in Attempts
  BY EventStreamAssumption DEF Idle, Attempts
<1>6. TypeOK'
  BY <1>1, <1>2, <1>4, <1>5, EventStreamAssumption DEF TypeOK, Idle, roomVars
<1>7. /\ \A v \in Workers \ {w} : worker'[v] = worker[v]
      /\ worker'[w].pc = "idle"
  BY <1>1, <1>2, <1>5 DEF TypeOK
<1>8. RowTurn'
  <2>1. \A v \in Workers : Active(v)' => v # w /\ Active(v)
    BY <1>7 DEF Active
  <2>2. \A v \in Workers : worker'[v].pc = "failed" => v # w
    BY <1>7
  <2>3. QED
    BY <1>1, <1>2, <1>7, <2>1, <2>2 DEF RowTurn, Recorded
<1>9. QED
  BY <1>4, <1>6, <1>8 DEF StreamInv

-----------------------------------------------------------------------------
(* The API                                                                  *)

LEMMA RetryStep ==
    ASSUME StreamInv, NEW here \in BOOLEAN, Retry(here)
    PROVE  StreamInv'
<1>1. /\ TypeOK /\ RowTurn /\ row.status = "failed" /\ row.attempt < MaxAttempts
      /\ row.attempt \in Attempts /\ Attempts \subseteq Nat /\ MaxAttempts \in Nat
  BY Shapes DEF StreamInv, Retry
<1>2. row.attempt + 1 \in Attempts
  BY <1>1 DEF Attempts
<1>3. /\ row' = [status |-> "queued", attempt |-> row.attempt + 1] /\ queued' = TRUE
      /\ pending' = pending \cup {[attempt |-> row.attempt + 1, here |-> here]}
      /\ UNCHANGED <<worker, stream, inbox, wire, roomVars>>
  BY DEF Retry
<1>4. row'.status = "queued" /\ row'.attempt = row.attempt + 1
  BY <1>3
<1>5. TypeOK'
  <2>1. row' \in [status : Statuses, attempt : Attempts]
    BY <1>2, <1>3 DEF Statuses
  <2>2. pending' \subseteq [attempt : Attempts, here : BOOLEAN]
    BY <1>1, <1>2, <1>3 DEF TypeOK
  <2>3. QED
    BY <1>1, <1>3, <2>1, <2>2 DEF TypeOK, roomVars
<1>6. RowTurn'
  <2>1. \A w \in Workers : ~ Active(w)
    BY <1>1 DEF RowTurn
  <2>2. \A w \in Workers : ~ Active(w)'
    BY <1>3, <2>1 DEF Active
  <2>3. \A w \in Workers : worker'[w].pc = "failed" => row'.attempt > worker'[w].attempt
    <3>1. ASSUME NEW w \in Workers, worker[w].pc = "failed"
          PROVE  row.attempt + 1 > worker[w].attempt
      <4>1. worker[w].attempt \in Nat /\ row.attempt \in Nat
        BY <1>1, Shapes
      <4>2. QED
        BY <1>1, <3>1, <4>1 DEF RowTurn, Recorded
    <3>2. QED
      BY <1>3, <1>4, <3>1
  <2>4. QED
    BY <1>4, <2>2, <2>3 DEF RowTurn, Recorded
<1>7. FailureIsRecorded'
  <2>1. ASSUME NEW i \in DOMAIN inbox, inbox[i].type = "failed"
        PROVE  row.attempt + 1 > inbox[i].attempt
    <3>1. inbox \in Seq(Event)
      BY <1>1 DEF TypeOK
    <3>2. inbox[i] \in Event
      BY <3>1
    <3>3. inbox[i].attempt \in Nat /\ row.attempt \in Nat
      BY <1>1, <3>2 DEF Event
    <3>4. row.attempt = inbox[i].attempt \/ row.attempt > inbox[i].attempt
      BY <2>1 DEF StreamInv, FailureIsRecorded
    <3>5. QED
      BY <3>3, <3>4
  <2>2. QED
    BY <1>3, <1>4, <2>1 DEF FailureIsRecorded
<1>8. QED
  BY <1>5, <1>6, <1>7 DEF StreamInv

LEMMA PublishQueuedStep ==
    ASSUME StreamInv, NEW p, PublishQueued(p)
    PROVE  StreamInv'
<1>1. TypeOK /\ FailureIsRecorded
  BY DEF StreamInv
<1>2. /\ p \in pending /\ pending' = pending \ {p} /\ Publish("queued", p.attempt)
      /\ UNCHANGED <<row, queued, worker, stream, wire, conn, terminal, shown, answers, drops>>
  BY DEF PublishQueued
<1>3. p.attempt \in Attempts
  BY <1>1, <1>2 DEF TypeOK
<1>4. inbox' \in Seq(Event) /\ FailureIsRecorded'
  BY <1>1, <1>2, <1>3, Published DEF EventTypes
<1>5. asked' \in Nat
  BY <1>1 DEF PublishQueued, TypeOK
<1>6. TypeOK'
  BY <1>1, <1>2, <1>4, <1>5 DEF TypeOK
<1>7. RowTurn'
  BY <1>2 DEF StreamInv, RowTurn, Active, Recorded
<1>8. QED
  BY <1>4, <1>6, <1>7 DEF StreamInv

-----------------------------------------------------------------------------
(* The stream and the room                                                  *)

LEMMA StreamStep ==
    ASSUME StreamInv, Stream
    PROVE  StreamInv'
<1>1. TypeOK /\ inbox \in Seq(Event) /\ wire \in Seq(Payload) /\ row.status \in Statuses
  BY Shapes DEF StreamInv, TypeOK
<1>2. UNCHANGED jobVars /\ UNCHANGED roomVars
  BY DEF Stream
<1>3. Status \in Payload /\ Eof \in Payload
  BY <1>1 DEF Status, Eof, Payload
<1>4. \A e \in Event : Sent(e) \in Payload
  BY DEF Sent, Event, Payload, EventTypes, Statuses, Ended
<1>5. wire' \in Seq(Payload)
  <2>1. CASE UNCHANGED wire
    BY <1>1, <2>1
  <2>2. CASE SendStatus
    BY <1>1, <1>3, <2>2 DEF SendStatus, Send
  <2>3. CASE ForwardEvent
    <3>1. inbox # <<>> /\ wire' = wire \o <<Sent(Head(inbox))>>
      BY <2>3 DEF ForwardEvent, Send
    <3>2. Head(inbox) \in Event
      BY <1>1, <3>1
    <3>3. QED
      BY <1>1, <1>4, <3>1, <3>2
  <2>4. CASE SendFinal
    BY <1>1, <1>3, <2>4 DEF SendFinal, Send
  <2>5. QED
    BY <2>1, <2>2, <2>3, <2>4 DEF Stream, Subscribe, PollTimesOut, ResolveJob
<1>6. stream' \in {"closed", "open", "subscribe", "poll", "resolve", "final"}
  BY DEF Stream, SendStatus, Subscribe, ForwardEvent, PollTimesOut, ResolveJob, SendFinal
<1>7. \/ inbox' = inbox
      \/ inbox' = <<>>
      \/ inbox # <<>> /\ inbox' = Tail(inbox)
  BY DEF Stream, SendStatus, Subscribe, ForwardEvent, PollTimesOut, ResolveJob, SendFinal
<1>8. inbox' \in Seq(Event)
  <2>1. <<>> \in Seq(Event)
    OBVIOUS
  <2>2. QED
    BY <1>1, <1>7, <2>1, Read
<1>9. TypeOK'
  BY <1>1, <1>2, <1>5, <1>6, <1>8 DEF TypeOK, jobVars, roomVars
<1>10. QED
  BY <1>2, <1>7, <1>9, JobKept

LEMMA RoomStep ==
    ASSUME StreamInv, Room \/ Drop \/ AnswerFetch
    PROVE  StreamInv'
<1>1. TypeOK /\ wire \in Seq(Payload) /\ asked \in Nat /\ answers \in [Statuses -> Nat]
  BY DEF StreamInv, TypeOK
<1>2. UNCHANGED jobVars
  BY DEF Room, Connect, HandlePayload, HandleEof, ShowFetched, Drop, AnswerFetch
<1>3. inbox' = inbox \/ inbox' = <<>>
  BY DEF Room, Connect, HandlePayload, HandleEof, ShowFetched, Drop, AnswerFetch
<1>4. wire' \in Seq(Payload)
  <2>1. wire' = wire \/ wire' = <<>> \/ (wire # <<>> /\ wire' = Tail(wire))
    BY DEF Room, Connect, HandlePayload, HandleEof, ShowFetched, Drop, AnswerFetch
  <2>2. <<>> \in Seq(Payload)
    OBVIOUS
  <2>3. QED
    BY <1>1, <2>1, <2>2, Read
<1>5. /\ stream' \in {"closed", "open", "subscribe", "poll", "resolve", "final"}
      /\ conn' \in {"idle", "reading", "stopped"}
      /\ terminal' \in BOOLEAN
      /\ drops' \in 0..MaxDrops
  <2>1. CASE Drop
    <3>1. drops \in 0..MaxDrops /\ drops < MaxDrops /\ drops' = drops + 1 /\ MaxDrops \in Nat
      BY <1>1, <2>1, EventStreamAssumption DEF TypeOK, Drop
    <3>2. drops' \in 0..MaxDrops
      BY <3>1
    <3>3. stream' = "closed" /\ conn' = "idle" /\ terminal' = FALSE
      BY <2>1 DEF Drop
    <3>4. QED
      BY <3>2, <3>3
  <2>2. CASE HandlePayload
    BY <1>1, <2>2 DEF TypeOK, HandlePayload
  <2>3. CASE Connect \/ HandleEof \/ ShowFetched \/ AnswerFetch
    BY <1>1, <2>3 DEF TypeOK, Connect, HandleEof, ShowFetched, AnswerFetch
  <2>4. QED
    BY <2>1, <2>2, <2>3 DEF Room
<1>6. asked' \in Nat
  <2>1. asked' = asked \/ asked' = asked + 1 \/ (asked > 0 /\ asked' = asked - 1)
    BY DEF Room, Connect, HandlePayload, HandleEof, ShowFetched, Drop, AnswerFetch
  <2>2. QED
    BY <1>1, <2>1
<1>7. answers' \in [Statuses -> Nat]
  <2>1. CASE AnswerFetch
    <3>1. row.status \in Statuses
      BY <1>1, Shapes
    <3>2. answers[row.status] + 1 \in Nat
      BY <1>1, <3>1
    <3>3. answers' = [answers EXCEPT ![row.status] = answers[row.status] + 1]
      BY <2>1 DEF AnswerFetch
    <3>4. QED
      BY <1>1, <3>1, <3>2, <3>3
  <2>2. CASE ShowFetched
    <3>1. PICK s \in Statuses : answers[s] > 0 /\ answers' = [answers EXCEPT ![s] = @ - 1]
      BY <2>2 DEF ShowFetched
    <3>2. answers[s] - 1 \in Nat
      BY <1>1, <3>1
    <3>3. QED
      BY <1>1, <3>1, <3>2
  <2>3. CASE UNCHANGED answers
    BY <1>1, <2>3
  <2>4. QED
    BY <2>1, <2>2, <2>3 DEF Room, Connect, HandlePayload, HandleEof, Drop
<1>8. shown' \in Statuses \cup {"loading"}
  <2>1. CASE HandlePayload
    <3>1. wire # <<>> /\ Head(wire) \in Payload
      BY <1>1, <2>1, Read DEF HandlePayload
    <3>2. Head(wire).type # "eof"
      BY <2>1 DEF HandlePayload
    <3>3. Head(wire).status \in Statuses
      BY <3>1, <3>2 DEF Payload
    <3>4. shown' = shown \/ shown' = Head(wire).status
      BY <2>1 DEF HandlePayload
    <3>5. QED
      BY <1>1, <3>3, <3>4 DEF TypeOK
  <2>2. CASE ShowFetched
    BY <2>2 DEF ShowFetched
  <2>3. CASE UNCHANGED shown
    BY <1>1, <2>3 DEF TypeOK
  <2>4. QED
    BY <2>1, <2>2, <2>3 DEF Room, Connect, HandleEof, Drop, AnswerFetch
<1>9. TypeOK'
  <2>1. inbox' \in Seq(Event)
    <3>1. inbox \in Seq(Event) /\ <<>> \in Seq(Event)
      BY <1>1 DEF TypeOK
    <3>2. QED
      BY <1>3, <3>1
  <2>2. QED
    BY <1>1, <1>2, <1>4, <1>5, <1>6, <1>7, <1>8, <2>1 DEF TypeOK, jobVars
<1>10. QED
  BY <1>2, <1>3, <1>9, JobKept

-----------------------------------------------------------------------------
(* The theorems                                                             *)

\* The inductive invariant.
THEOREM Invariant == Spec => []StreamInv
<1>1. Init => StreamInv
  <2> SUFFICES ASSUME Init PROVE StreamInv
    OBVIOUS
  <2>1. 1 \in Attempts
    BY EventStreamAssumption DEF Attempts
  <2>2. TypeOK
    <3>1. row \in [status : Statuses, attempt : Attempts]
      BY <2>1 DEF Init, Statuses
    <3>2. worker \in [Workers -> [pc : {"idle", "announce", "run", "record"} \cup Ended,
                                  attempt : Attempts]]
      BY <2>1 DEF Init, Idle
    <3>3. pending \subseteq [attempt : Attempts, here : BOOLEAN]
      BY <2>1 DEF Init
    <3>4. <<>> \in Seq(Event) /\ <<>> \in Seq(Payload)
      OBVIOUS
    <3>5. drops \in 0..MaxDrops /\ asked \in Nat /\ answers \in [Statuses -> Nat]
      BY EventStreamAssumption DEF Init
    <3>6. QED
      BY <3>1, <3>2, <3>3, <3>4, <3>5 DEF Init, TypeOK
  <2>3. RowTurn /\ FailureIsRecorded
    BY DEF Init, RowTurn, FailureIsRecorded, Active, Idle
  <2>4. QED
    BY <2>2, <2>3 DEF StreamInv
<1>2. StreamInv /\ [Next]_vars => StreamInv'
  <2> SUFFICES ASSUME StreamInv, [Next]_vars PROVE StreamInv'
    OBVIOUS
  <2>1. CASE UNCHANGED vars
    <3>1. TypeOK'
      BY <2>1 DEF vars, StreamInv, TypeOK
    <3>2. QED
      BY <2>1, <3>1, JobKept DEF vars, jobVars
  <2>2. ASSUME NEW w \in Workers, Work(w) PROVE StreamInv'
    <3>1. CASE RecordCompleted(w)
      BY <2>2, <3>1, RecordStep DEF Work, Ended
    <3>2. CASE RecordFailed(w)
      BY <2>2, <3>2, RecordStep DEF Work, Ended
    <3>3. QED
      BY <2>2, <3>1, <3>2, StartRunStep, PublishStartedStep, EngineCompletesStep, PublishEndStep
         DEF Work
  <2>3. QED
    BY <2>1, <2>2, RetryStep, PublishQueuedStep, StreamStep, RoomStep DEF Next
<1>3. QED
  BY <1>1, <1>2, PTL DEF Spec

\* The row, the channel, the stream and the room keep their types.
THEOREM TypeCorrect == Spec => []TypeOK
<1>1. StreamInv => TypeOK
  BY DEF StreamInv
<1>2. QED
  BY <1>1, Invariant, PTL

\* Whoever reads the row after a "failed" event finds the failure or a later
\* attempt, whatever the number of workers and retries.
THEOREM FailuresAreRecorded == Spec => []FailureIsRecorded
<1>1. StreamInv => FailureIsRecorded
  BY DEF StreamInv
<1>2. QED
  BY <1>1, Invariant, PTL

-----------------------------------------------------------------------------
(* The row of the job                                                       *)

\* The life that JobLifecycle gives a job, of the one job that is followed
\* here, whose row is there from the start.
Followed == {"job"}
Lifecycle == INSTANCE JobLifecycle WITH
    Jobs <- Followed, status <- [j \in Followed |-> row.status]

LEMMA Moved ==
    ASSUME NEW from, NEW to, row.status \in from, row'.status = to
    PROVE  Lifecycle!Move("job", from, to)
BY DEF Lifecycle!Move, Followed

\* What the worker, the engine and a retry write to the row (update_job,
\* requeue_job) are the moves of JobLifecycle: the row that the stream polls
\* and the room fetches lives as the rows of JobPipeline do.
THEOREM RowFollowsLifecycle == Spec => [][Lifecycle!Next]_(row.status)
<1>1. StreamInv /\ [Next]_vars => [Lifecycle!Next]_(row.status)
  <2>1. SUFFICES ASSUME StreamInv, [Next]_vars, row'.status # row.status
                 PROVE  Lifecycle!Next
    OBVIOUS
  <2>2. RowTurn /\ TypeOK /\ row.status \in Statuses /\ row \in [status : Statuses, attempt : Attempts]
    BY <2>1, Shapes DEF StreamInv, TypeOK
  <2>3. "job" \in Followed
    BY DEF Followed
  <2>4. ASSUME NEW w \in Workers, StartRun(w)
        PROVE  Lifecycle!Next
    <3>1. row.status = "queued" /\ row'.status = "running"
      BY <2>2, <2>4 DEF StartRun, RowTurn
    <3>2. Lifecycle!Start("job")
      BY <3>1, Moved DEF Lifecycle!Start
    <3>3. QED
      BY <2>3, <3>2 DEF Lifecycle!Next
  <2>5. ASSUME NEW w \in Workers, RecordCompleted(w)
        PROVE  Lifecycle!Next
    <3>1. row.status = "running" /\ row'.status = "completed"
      BY <2>2, <2>5 DEF RecordCompleted, RowTurn, Active
    <3>2. Lifecycle!Complete("job")
      BY <3>1, Moved DEF Lifecycle!Complete
    <3>3. QED
      BY <2>3, <3>2 DEF Lifecycle!Next
  <2>6. ASSUME NEW w \in Workers, RecordFailed(w)
        PROVE  Lifecycle!Next
    <3>1. row.status \in {"running", "completed"} /\ row'.status = "failed"
      BY <2>2, <2>6 DEF RecordFailed, RowTurn, Active
    <3>2. Lifecycle!Fail("job")
      BY <3>1, Moved DEF Lifecycle!Fail
    <3>3. QED
      BY <2>3, <3>2 DEF Lifecycle!Next
  <2>7. ASSUME NEW here \in BOOLEAN, Retry(here)
        PROVE  Lifecycle!Next
    <3>1. row.status = "failed" /\ row'.status = "queued"
      BY <2>7 DEF Retry
    <3>2. Lifecycle!Retry("job")
      BY <3>1, Moved DEF Lifecycle!Retry
    <3>3. QED
      BY <2>3, <3>2 DEF Lifecycle!Next
  <2>8. ASSUME NEW w \in Workers, PublishStarted(w) \/ EngineCompletes(w) \/ PublishEnd(w)
        PROVE  row' = row
    BY <2>8 DEF PublishStarted, EngineCompletes, PublishEnd
  <2>9. ASSUME NEW p \in pending, PublishQueued(p)
        PROVE  row' = row
    BY <2>9 DEF PublishQueued
  <2>10. CASE AnswerFetch \/ Stream \/ Room \/ Drop \/ UNCHANGED vars
    BY <2>1, <2>10 DEF AnswerFetch, Stream, Room, Connect, HandlePayload, HandleEof, ShowFetched, Drop,
       vars, jobVars
  <2>11. QED
    BY <2>1, <2>4, <2>5, <2>6, <2>7, <2>8, <2>9, <2>10 DEF Next, Work
<1>2. QED
  BY <1>1, Invariant, PTL DEF Spec

-----------------------------------------------------------------------------
(* What the page shows                                                      *)

\* The payloads from which the page takes how the job ended.
Tells(p) == p.type \notin Ended /\ p.status \in Ended
Outcomes ==
    /\ OutcomeHappened
    /\ \A s \in Ended : answers[s] > 0 => Happened(s)
    /\ \A i \in DOMAIN wire : Tells(wire[i]) => Happened(wire[i].status)

\* After the step, with the payload of before it.
StillHappened(s) ==
    \/ row'.attempt > 1
    \/ row'.status = "failed"
    \/ row'.status = "completed" /\ s = "completed"

\* What has come about stays so: a row that has ended only fails or is retried.
LEMMA StaysHappened ==
    ASSUME StreamInv, [Next]_vars, NEW s \in Ended, Happened(s)
    PROVE  StillHappened(s)
<1>1. /\ RowTurn /\ row.attempt \in Nat /\ row.attempt >= 1
      /\ row \in [status : Statuses, attempt : Attempts]
  BY Shapes DEF StreamInv, TypeOK, Attempts
<1>2. CASE row' = row
  BY <1>2 DEF Happened, StillHappened
<1>3. ASSUME NEW w \in Workers, StartRun(w) \/ RecordCompleted(w)
      PROVE  StillHappened(s)
  <2>1. row.status \in {"queued", "running"} /\ row'.attempt = row.attempt
    BY <1>1, <1>3 DEF StartRun, RecordCompleted, RowTurn, Active
  <2>2. row.attempt > 1
    BY <2>1 DEF Happened, StillHappened
  <2>3. QED
    BY <2>1, <2>2 DEF Happened, StillHappened
<1>4. ASSUME NEW w \in Workers, RecordFailed(w)
      PROVE  StillHappened(s)
  <2>1. row'.status = "failed"
    BY <1>1, <1>4 DEF RecordFailed
  <2>2. QED
    BY <2>1 DEF Happened, StillHappened
<1>5. ASSUME NEW here \in BOOLEAN, Retry(here)
      PROVE  StillHappened(s)
  <2>1. row'.attempt = row.attempt + 1
    BY <1>5 DEF Retry
  <2>2. row'.attempt > 1
    BY <1>1, <2>1
  <2>3. QED
    BY <2>2 DEF Happened, StillHappened
<1>6. ASSUME NEW w \in Workers, PublishStarted(w) \/ EngineCompletes(w) \/ PublishEnd(w)
      PROVE  row' = row
  BY <1>6 DEF PublishStarted, EngineCompletes, PublishEnd
<1>7. ASSUME NEW p \in pending, PublishQueued(p)
      PROVE  row' = row
  BY <1>7 DEF PublishQueued
<1>8. ASSUME AnswerFetch \/ Stream \/ Room \/ Drop \/ UNCHANGED vars
      PROVE  row' = row
  BY <1>8 DEF AnswerFetch, Stream, Room, Connect, HandlePayload, HandleEof, ShowFetched, Drop,
     vars, jobVars
<1>9. QED
  BY <1>2, <1>3, <1>4, <1>5, <1>6, <1>7, <1>8 DEF Next, Work

\* What is sent to the browser about the job's end the row says.
LEMMA Sending ==
    ASSUME StreamInv, [Next]_vars
    PROVE  \/ wire' = wire \/ wire' = <<>> \/ (wire # <<>> /\ wire' = Tail(wire))
           \/ \E ps \in Seq(Payload) :
                /\ wire' = wire \o ps
                /\ \A m \in DOMAIN ps : Tells(ps[m]) => Happened(ps[m].status)
<1>1. inbox \in Seq(Event) /\ row.status \in Statuses
  BY Shapes DEF StreamInv, TypeOK
<1>2. Status \in Payload /\ Eof \in Payload /\ \A e \in Event : Sent(e) \in Payload
  BY <1>1 DEF Status, Eof, Sent, Payload, Event, EventTypes, Statuses, Ended
<1>3. Tells(Status) => Happened(Status.status)
  BY DEF Tells, Status, Happened, Ended
<1>4. ~ Tells(Eof) /\ \A e \in Event : ~ Tells(Sent(e))
  BY DEF Tells, Eof, Sent, Event, EventTypes, Ended
<1>5. CASE SendStatus
  <2>1. wire' = wire \o <<Status>> /\ <<Status>> \in Seq(Payload)
    BY <1>2, <1>5 DEF SendStatus, Send
  <2>2. \A m \in DOMAIN <<Status>> : <<Status>>[m] = Status
    OBVIOUS
  <2>3. QED
    BY <1>3, <2>1, <2>2, Zenon
<1>6. CASE ForwardEvent
  <2>. DEFINE p == Sent(Head(inbox))
  <2>1. wire' = wire \o <<p>> /\ Head(inbox) \in Event
    BY <1>1, <1>6, Read DEF ForwardEvent, Send
  <2>2. p \in Payload /\ ~ Tells(p)
    BY <1>2, <1>4, <2>1
  <2>. HIDE DEF p
  <2>3. <<p>> \in Seq(Payload) /\ \A m \in DOMAIN <<p>> : <<p>>[m] = p
    BY <2>2
  <2>4. QED
    BY <2>1, <2>2, <2>3, Zenon
<1>7. CASE SendFinal
  <2>1. wire' = wire \o <<Status, Eof>> /\ <<Status, Eof>> \in Seq(Payload)
    BY <1>2, <1>7 DEF SendFinal, Send
  <2>2. \A m \in DOMAIN <<Status, Eof>> : <<Status, Eof>>[m] \in {Status, Eof}
    OBVIOUS
  <2>3. \A m \in DOMAIN <<Status, Eof>> :
            <<Status, Eof>>[m] = Status \/ <<Status, Eof>>[m] = Eof
    BY <2>2
  <2>4. QED
    BY <1>3, <1>4, <2>1, <2>3, Zenon
<1>8. ASSUME Room \/ Drop \/ AnswerFetch \/ UNCHANGED vars
      PROVE  wire' = wire \/ wire' = <<>> \/ (wire # <<>> /\ wire' = Tail(wire))
  BY <1>8 DEF Room, Connect, HandlePayload, HandleEof, ShowFetched, Drop, AnswerFetch, vars
<1>9. ASSUME NEW w \in Workers, Work(w)
      PROVE  wire' = wire
  BY <1>9 DEF Work
<1>10. ASSUME NEW p \in pending, PublishQueued(p)
       PROVE  wire' = wire
  BY <1>10 DEF PublishQueued
<1>11. ASSUME NEW here \in BOOLEAN, Retry(here)
       PROVE  wire' = wire
  BY <1>11 DEF Retry
<1>12. ASSUME Subscribe \/ PollTimesOut \/ ResolveJob
       PROVE  wire' = wire
  BY <1>12 DEF Subscribe, PollTimesOut, ResolveJob
<1>13. QED
  BY <1>5, <1>6, <1>7, <1>8, <1>9, <1>10, <1>11, <1>12, Zenon DEF Next, Stream

LEMMA OutcomesStep ==
    ASSUME StreamInv, Outcomes, [Next]_vars
    PROVE  Outcomes'
<1>1. /\ wire \in Seq(Payload) /\ answers \in [Statuses -> Nat] /\ row.status \in Statuses
      /\ Ended \subseteq Statuses
  BY Shapes DEF StreamInv, TypeOK, Statuses
<1>2. \A s \in Ended : Happened(s) => StillHappened(s)
  BY StaysHappened
<1>3. \A i \in DOMAIN wire : Tells(wire[i]) => StillHappened(wire[i].status)
  BY <1>2 DEF Outcomes, Tells
<1>4. ASSUME NEW i \in DOMAIN wire', Tells(wire'[i])
      PROVE  StillHappened(wire'[i].status)
  <2>1. CASE wire' = wire
    BY <1>3, <1>4, <2>1
  <2>2. CASE wire' = <<>>
    BY <1>4, <2>2
  <2>3. CASE wire # <<>> /\ wire' = Tail(wire)
    <3>1. i + 1 \in DOMAIN wire /\ wire'[i] = wire[i + 1]
      BY <1>1, <1>4, <2>3
    <3>2. QED
      BY <1>3, <1>4, <3>1
  <2>4. ASSUME NEW ps \in Seq(Payload), wire' = wire \o ps,
               \A m \in DOMAIN ps : Tells(ps[m]) => Happened(ps[m].status)
        PROVE  StillHappened(wire'[i].status)
    <3>1. CASE i \in DOMAIN wire
      <4>1. wire'[i] = wire[i]
        BY <1>1, <2>4, <3>1
      <4>2. QED
        BY <1>3, <1>4, <3>1, <4>1
    <3>2. CASE i \notin DOMAIN wire
      <4>1. PICK m \in DOMAIN ps : wire'[i] = ps[m]
        <5>1. i - Len(wire) \in DOMAIN ps /\ wire'[i] = ps[i - Len(wire)]
          BY <1>1, <1>4, <2>4, <3>2
        <5>2. QED
          BY <5>1
      <4>2. Happened(wire'[i].status) /\ wire'[i].status \in Ended
        BY <1>4, <2>4, <4>1 DEF Tells
      <4>3. QED
        BY <1>2, <4>2
    <3>3. QED
      BY <3>1, <3>2
  <2>5. QED
    BY <2>1, <2>2, <2>3, <2>4, Sending
<1>5. ASSUME NEW s \in Ended, answers'[s] > 0
      PROVE  StillHappened(s)
  <2>1. CASE answers[s] > 0
    BY <1>2, <2>1 DEF Outcomes
  <2>2. CASE ~ (answers[s] > 0)
    <3>1. answers'[s] # answers[s]
      BY <1>5, <2>2
    <3>2. AnswerFetch \/ ShowFetched
      BY <3>1 DEF Next, Work, PublishQueued, Retry, Stream, Room, Connect, HandlePayload, HandleEof, Drop,
         roomVars, vars
    <3>3. ~ ShowFetched
      <4>1. SUFFICES ASSUME NEW x \in Statuses, answers[x] > 0, answers' = [answers EXCEPT ![x] = @ - 1]
                     PROVE  FALSE
        BY DEF ShowFetched
      <4>2. x # s
        BY <2>2, <4>1
      <4>3. answers'[s] = answers[s]
        BY <1>1, <4>1, <4>2
      <4>4. QED
        BY <3>1, <4>3
    <3>4. row.status = s /\ row' = row
      <4>1. answers' = [answers EXCEPT ![row.status] = @ + 1] /\ row' = row
        BY <3>2, <3>3 DEF AnswerFetch, jobVars
      <4>2. QED
        BY <1>1, <3>1, <4>1
    <3>5. QED
      BY <3>4 DEF StillHappened, Ended
  <2>3. QED
    BY <2>1, <2>2
<1>6. ASSUME shown' \in Ended
      PROVE  StillHappened(shown')
  <2>1. CASE shown' = shown
    BY <1>2, <1>6, <2>1 DEF Outcomes, OutcomeHappened
  <2>2. CASE shown' # shown
    <3>1. HandlePayload \/ ShowFetched
      BY <2>2 DEF Next, Work, PublishQueued, Retry, Stream, Room, Connect, HandleEof, Drop, AnswerFetch,
         roomVars, vars
    <3>2. CASE HandlePayload
      <4>1. wire # <<>> /\ Head(wire).type \in {"status", "queued", "started"} /\ shown' = Head(wire).status
        BY <2>2, <3>2 DEF HandlePayload
      <4>2. 1 \in DOMAIN wire /\ Head(wire) = wire[1]
        BY <1>1, <4>1
      <4>3. Tells(wire[1])
        BY <1>6, <4>1, <4>2 DEF Tells, Ended
      <4>4. QED
        BY <1>3, <4>1, <4>2, <4>3
    <3>3. CASE ShowFetched
      <4>1. answers[shown'] > 0
        BY <3>3 DEF ShowFetched
      <4>2. QED
        BY <1>2, <1>6, <4>1 DEF Outcomes
    <3>4. QED
      BY <3>1, <3>2, <3>3
  <2>3. QED
    BY <2>1, <2>2
<1>7. OutcomeHappened'
  BY <1>6 DEF OutcomeHappened, Happened, StillHappened
<1>8. QED
  BY <1>4, <1>5, <1>7 DEF Outcomes, Happened, StillHappened, Tells

\* The page of the analysis room shows no outcome that the row has not had: it
\* takes one from a status payload or a fetch, and both read the row.
THEOREM ShownOutcomesHappened == Spec => []OutcomeHappened
<1>1. Init => Outcomes
  <2>1. SUFFICES ASSUME Init PROVE Outcomes
    OBVIOUS
  <2>2. DOMAIN wire = {} /\ shown \notin Ended /\ \A s \in Ended : answers[s] = 0
    BY <2>1 DEF Init, Ended, Statuses
  <2>3. QED
    BY <2>2 DEF Outcomes, OutcomeHappened
<1>2. StreamInv /\ Outcomes /\ [Next]_vars => Outcomes'
  BY OutcomesStep
<1>3. Outcomes => OutcomeHappened
  BY DEF Outcomes
<1>4. QED
  BY <1>1, <1>2, <1>3, Invariant, PTL DEF Spec

=============================================================================
