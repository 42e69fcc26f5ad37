----------------------------- MODULE RateLimiter -----------------------------
(***************************************************************************)
(* RateLimitMiddleware (apps/api/ax_api/middleware/rate_limit.py): one     *)
(* sliding window per client and bucket.  The middleware decides about a   *)
(* request without an await, so a decision is one step of the event loop.  *)
(* log records what the deque forgets: every request that was let through. *)
(***************************************************************************)
EXTENDS Integers, Sequences, FiniteSets

CONSTANTS
    Clients,        \* client addresses
    Rpm,            \* AX_API_RATE_LIMIT_RPM
    CreateFloor,    \* the least limit of the bucket for new analyses (5)
    Window,         \* length of the window (60 s)
    MaxTime         \* bound on the clock

ASSUME RateLimiterAssumption ==
    /\ Rpm \in Int
    /\ CreateFloor \in Nat
    /\ Window \in Nat
    /\ MaxTime \in Nat

VARIABLES
    now,        \* time.monotonic()
    hits,       \* hits[k]: the deque of key k
    log         \* log[k]: when each request of k was let through

vars == <<now, hits, log>>

Buckets == {"default", "analyses_create"}
Keys == Clients \X Buckets

\* POST /analyses gets a sixth of the limit, but not less than the floor.
Limit(k) ==
    LET share == IF Rpm \div 6 > CreateFloor THEN Rpm \div 6 ELSE CreateFloor
    IN  IF k[2] = "analyses_create" THEN share ELSE Rpm

Init ==
    /\ now = 0
    /\ hits = [k \in Keys |-> <<>>]
    /\ log = [k \in Keys |-> <<>>]

\* Mutant: a clock that can be set back, as time.time().
Tick_WallClock ==
    /\ now < MaxTime
    /\ now' \in {now - 1, now + 1}
    /\ UNCHANGED <<hits, log>>

Tick ==
    /\ now < MaxTime
    /\ now' = now + 1
    /\ UNCHANGED <<hits, log>>

\* Mutant: the window is open where it should be closed.
Expired_Open(t) == now - t >= Window

Expired(t) == now - t > Window

\* The while loop pops n hits of q from the left.
Pops(q, n) ==
    /\ n \in 0..Len(q)
    /\ \A i \in 1..n : Expired(q[i])
    /\ n < Len(q) => ~ Expired(q[n + 1])

After(q, n) == SubSeq(q, n + 1, Len(q))

\* Mutant: one request too many.
Accept_OneMore(k) ==
    \E n \in 0..Len(hits[k]) :
        /\ Pops(hits[k], n)
        /\ Len(After(hits[k], n)) <= Limit(k)
        /\ hits' = [hits EXCEPT ![k] = Append(After(@, n), now)]
        /\ log' = [log EXCEPT ![k] = Append(@, now)]
        /\ UNCHANGED now

\* Mutant: the hit that was let through last is forgotten.
Accept_Forgets(k) ==
    \E n \in 0..Len(hits[k]) :
        /\ Pops(hits[k], n)
        /\ Len(After(hits[k], n)) < Limit(k)
        /\ hits' = [hits EXCEPT ![k] = After(@, n)]
        /\ log' = [log EXCEPT ![k] = Append(@, now)]
        /\ UNCHANGED now

Accept(k) ==
    \E n \in 0..Len(hits[k]) :
        /\ Pops(hits[k], n)
        /\ Len(After(hits[k], n)) < Limit(k)
        /\ hits' = [hits EXCEPT ![k] = Append(After(@, n), now)]
        /\ log' = [log EXCEPT ![k] = Append(@, now)]
        /\ UNCHANGED now

\* 429
Refuse(k) ==
    \E n \in 0..Len(hits[k]) :
        /\ Pops(hits[k], n)
        /\ Len(After(hits[k], n)) >= Limit(k)
        /\ hits' = [hits EXCEPT ![k] = After(@, n)]
        /\ UNCHANGED <<now, log>>

Next == Tick \/ \E k \in Keys : Accept(k) \/ Refuse(k)

Spec == Init /\ [][Next]_vars

-----------------------------------------------------------------------------
(* Properties                                                               *)

TypeOK ==
    /\ now \in Nat
    /\ hits \in [Keys -> Seq(Nat)]
    /\ log \in [Keys -> Seq(Nat)]

\* No window of Window seconds, wherever it starts, holds more than Limit(k)
\* requests that were let through: what a sliding window promises and fixed
\* windows do not.
WindowHolds ==
    \A k \in Keys : \A i \in 1..Len(log[k]) :
        i + Limit(k) <= Len(log[k]) =>
            log[k][i + Limit(k)] - log[k][i] > Window

\* The number of requests that the deque has forgotten.
Gone(k) == Len(log[k]) - Len(hits[k])

\* The deque is the end of the log, from the first request that may still
\* count: nobody is refused for a request that is too old or that was itself
\* refused, and no recent request is forgotten.
DequeIsRecentLog ==
    \A k \in Keys :
        /\ Gone(k) >= 0
        /\ \A i \in 1..Len(hits[k]) : hits[k][i] = log[k][Gone(k) + i]
        /\ \A i \in 1..Gone(k) : Expired(log[k][i])

\* What the middleware compares with the limit is the number of requests of the
\* key that were let through in the last Window seconds: with fewer than the
\* limit the next one is let through, with as many it is refused.
Recent(k) == {i \in DOMAIN log[k] : ~ Expired(log[k][i])}
CountIsExact ==
    \A k \in Keys : \A n \in 0..Len(hits[k]) :
        Pops(hits[k], n) => Len(After(hits[k], n)) = Cardinality(Recent(k))

\* A key keeps at most Limit(k) times, however many requests arrive.
DequeIsBounded == \A k \in Keys : Len(hits[k]) <= Limit(k) \/ hits[k] = <<>>

\* Inductive: a request is let through only if the Limit(k)-th request before
\* it has left the deque, and whatever has left the deque has expired.
RateInv ==
    /\ TypeOK
    /\ DequeIsRecentLog
    /\ DequeIsBounded
    /\ WindowHolds

=============================================================================
