------------------------- MODULE RateLimiter_proofs -------------------------
(***************************************************************************)
(* Proofs about RateLimiter, for any clients, limits and window, and a     *)
(* clock without bound on how far it may run.                              *)
(*                                                                         *)
(* WindowHolds speaks about the log, the code decides by the deque.        *)
(* DequeIsRecentLog ties the two together: whatever the deque has dropped  *)
(* has expired, and stays so because the clock does not run backwards.     *)
(***************************************************************************)
EXTENDS RateLimiter, TLAPS, FiniteSetTheorems

\* What is left of the deque after n hits are popped.
LEMMA AfterPops ==
    ASSUME NEW q \in Seq(Nat), NEW n \in 0..Len(q)
    PROVE  /\ After(q, n) \in Seq(Nat)
           /\ Len(After(q, n)) = Len(q) - n
           /\ \A i \in 1..Len(After(q, n)) : After(q, n)[i] = q[n + i]
  BY DEF After

\* What Append does to a sequence of times.
LEMMA AppendTime ==
    ASSUME NEW s \in Seq(Nat), NEW t \in Nat
    PROVE  /\ Len(Append(s, t)) = Len(s) + 1
           /\ \A i \in 1..Len(s) : Append(s, t)[i] = s[i]
           /\ Append(s, t)[Len(s) + 1] = t
  OBVIOUS

\* The limit of a key is an integer, negative if the setting is.
LEMMA LimitType ==
    ASSUME NEW k \in Keys
    PROVE  Limit(k) \in Int
<1>1. Rpm \div 6 \in Int /\ CreateFloor \in Int
  BY RateLimiterAssumption
<1>2. QED
  BY <1>1, RateLimiterAssumption DEF Limit

\* Popping the expired hits keeps the deque the end of the log.
LEMMA PopsKeepSuffix ==
    ASSUME RateInv, NEW k \in Keys, NEW n \in 0..Len(hits[k]), Pops(hits[k], n)
    PROVE  /\ \A i \in 1..Len(After(hits[k], n)) :
                 After(hits[k], n)[i] = log[k][Gone(k) + n + i]
           /\ \A i \in 1..(Gone(k) + n) : Expired(log[k][i])
           /\ Gone(k) \in Nat
<1> USE DEF RateInv, TypeOK
<1>1. hits[k] \in Seq(Nat) /\ log[k] \in Seq(Nat) /\ Gone(k) \in Nat
  BY DEF DequeIsRecentLog, Gone
<1>2. \A i \in 1..Len(After(hits[k], n)) :
         After(hits[k], n)[i] = log[k][Gone(k) + n + i]
  <2>1. TAKE i \in 1..Len(After(hits[k], n))
  <2>2. n + i \in 1..Len(hits[k]) /\ After(hits[k], n)[i] = hits[k][n + i]
    BY <1>1, AfterPops
  <2>3. hits[k][n + i] = log[k][Gone(k) + (n + i)]
    BY <2>2 DEF DequeIsRecentLog
  <2>4. QED
    BY <1>1, <2>2, <2>3
<1>3. \A i \in 1..(Gone(k) + n) : Expired(log[k][i])
  <2>1. SUFFICES ASSUME NEW i \in 1..(Gone(k) + n) PROVE Expired(log[k][i])
    OBVIOUS
  <2>2. CASE i <= Gone(k)
    BY <1>1, <2>2 DEF DequeIsRecentLog
  <2>3. CASE i > Gone(k)
    <3>1. i - Gone(k) \in 1..n /\ i - Gone(k) \in 1..Len(hits[k])
      BY <1>1, <2>3
    <3>2. hits[k][i - Gone(k)] = log[k][Gone(k) + (i - Gone(k))]
      BY <3>1 DEF DequeIsRecentLog
    <3>3. Gone(k) + (i - Gone(k)) = i
      BY <1>1
    <3>4. QED
      BY <3>1, <3>2, <3>3 DEF Pops
  <2>4. QED
    BY <1>1, <2>2, <2>3
<1>4. QED
  BY <1>1, <1>2, <1>3

LEMMA AcceptStep ==
    ASSUME RateInv, NEW k \in Keys, Accept(k)
    PROVE  RateInv'
<1>1. PICK n \in 0..Len(hits[k]) :
         /\ Pops(hits[k], n)
         /\ Len(After(hits[k], n)) < Limit(k)
         /\ hits' = [hits EXCEPT ![k] = Append(After(@, n), now)]
         /\ log' = [log EXCEPT ![k] = Append(@, now)]
         /\ now' = now
  BY DEF Accept
<1> DEFINE live == After(hits[k], n)
<1>2. /\ hits[k] \in Seq(Nat) /\ log[k] \in Seq(Nat) /\ now \in Nat
      /\ live \in Seq(Nat) /\ Len(live) = Len(hits[k]) - n
      /\ Limit(k) \in Int
  BY AfterPops, LimitType DEF RateInv, TypeOK
<1>3. /\ \A i \in 1..Len(live) : live[i] = log[k][Gone(k) + n + i]
      /\ \A i \in 1..(Gone(k) + n) : Expired(log[k][i])
      /\ Gone(k) \in Nat
  BY <1>1, PopsKeepSuffix
<1> HIDE DEF live
<1>4. /\ hits'[k] = Append(live, now)
      /\ log'[k] = Append(log[k], now)
      /\ \A j \in Keys : j # k => hits'[j] = hits[j] /\ log'[j] = log[j]
  BY <1>1 DEF live, RateInv, TypeOK
<1>5. TypeOK'
  BY <1>1, <1>2 DEF live, RateInv, TypeOK
<1>6. PICK m \in Nat, g \in Nat, end \in Nat :
         m = Len(live) /\ g = Gone(k) + n /\ end = Len(log[k])
  <2>1. Len(live) \in Nat /\ Len(log[k]) \in Nat /\ n \in Nat
    BY <1>2
  <2>2. Gone(k) + n \in Nat
    BY <1>3, <2>1
  <2>3. QED
    BY <2>1, <2>2
<1>7. /\ Len(hits'[k]) = m + 1
      /\ Len(log'[k]) = end + 1
      /\ \A i \in 1..m : hits'[k][i] = live[i]
      /\ \A i \in 1..end : log'[k][i] = log[k][i]
      /\ hits'[k][m + 1] = now
      /\ log'[k][end + 1] = now
  <2>1. /\ Len(Append(live, now)) = m + 1
        /\ \A i \in 1..m : Append(live, now)[i] = live[i]
        /\ Append(live, now)[m + 1] = now
    BY <1>2, <1>6, AppendTime
  <2>2. /\ Len(Append(log[k], now)) = end + 1
        /\ \A i \in 1..end : Append(log[k], now)[i] = log[k][i]
        /\ Append(log[k], now)[end + 1] = now
    BY <1>2, <1>6, AppendTime
  <2>3. QED
    BY <1>4, <2>1, <2>2
<1>7a. Gone(k)' = g /\ g + m = end
  <2>1. Gone(k)' = end + 1 - (m + 1)
    BY <1>7 DEF Gone
  <2>2. g + m = end
    BY <1>2, <1>6 DEF Gone
  <2>3. QED
    BY <2>1, <2>2
<1>8. ASSUME NEW j \in Keys, j # k
      PROVE  /\ Gone(j)' >= 0
             /\ \A i \in 1..Len(hits'[j]) : hits'[j][i] = log'[j][Gone(j)' + i]
             /\ \A i \in 1..Gone(j)' : Expired(log[j][i])'
             /\ Len(hits'[j]) <= Limit(j) \/ hits'[j] = <<>>
             /\ \A i \in 1..Len(log'[j]) : i + Limit(j) <= Len(log'[j]) =>
                   log'[j][i + Limit(j)] - log'[j][i] > Window
  <2>1. hits'[j] = hits[j] /\ log'[j] = log[j] /\ Gone(j)' = Gone(j)
    BY <1>4, <1>8 DEF Gone
  <2>2. \A i \in 1..Gone(j)' : Expired(log[j][i])'
    BY <1>1, <2>1 DEF RateInv, DequeIsRecentLog, Expired
  <2>3. \A i \in 1..Len(hits'[j]) : hits'[j][i] = log'[j][Gone(j)' + i]
    BY <2>1 DEF RateInv, DequeIsRecentLog
  <2>4. Gone(j)' >= 0
    BY <2>1 DEF RateInv, DequeIsRecentLog
  <2>5. Len(hits'[j]) <= Limit(j) \/ hits'[j] = <<>>
    BY <2>1 DEF RateInv, DequeIsBounded
  <2>6. \A i \in 1..Len(log'[j]) : i + Limit(j) <= Len(log'[j]) =>
            log'[j][i + Limit(j)] - log'[j][i] > Window
    BY <2>1 DEF RateInv, WindowHolds
  <2>7. QED
    BY <2>2, <2>3, <2>4, <2>5, <2>6
<1>9. DequeIsRecentLog'
  <2>1. Gone(k)' >= 0
    BY <1>6, <1>7a
  <2>2. ASSUME NEW i \in 1..Len(hits'[k])
        PROVE  hits'[k][i] = log'[k][Gone(k)' + i]
    <3>1. CASE i = m + 1
      <4>1. g + i = end + 1
        BY <1>6, <1>7a, <3>1, SMTT(20)
      <4>2. QED
        BY <1>7, <1>7a, <3>1, <4>1
    <3>2. CASE i \in 1..m
      <4>1. g + i \in 1..end
        BY <1>6, <1>7a, <3>2
      <4>2. live[i] = log[k][g + i]
        BY <1>3, <1>6, <3>2
      <4>3. QED
        BY <1>7, <1>7a, <3>2, <4>1, <4>2
    <3>3. QED
      BY <1>6, <1>7, <3>1, <3>2
  <2>3. ASSUME NEW i \in 1..Gone(k)'
        PROVE  Expired(log[k][i])'
    <3>1. i \in 1..g /\ i \in 1..end
      BY <1>6, <1>7a
    <3>2. Expired(log[k][i]) /\ log'[k][i] = log[k][i]
      BY <1>3, <1>6, <1>7, <3>1
    <3>3. QED
      BY <1>1, <3>2 DEF Expired
  <2>4. ASSUME NEW j \in Keys
        PROVE  /\ Gone(j)' >= 0
               /\ \A i \in 1..Len(hits'[j]) : hits'[j][i] = log'[j][Gone(j)' + i]
               /\ \A i \in 1..Gone(j)' : Expired(log[j][i])'
    BY <1>8, <2>1, <2>2, <2>3
  <2>5. QED
    BY <2>4 DEF RateInv, DequeIsRecentLog
<1>10. DequeIsBounded'
  <2>1. Len(hits'[k]) <= Limit(k)
    BY <1>1, <1>2, <1>6, <1>7 DEF live
  <2>2. QED
    BY <1>8, <2>1 DEF DequeIsBounded, Limit
<1>11. WindowHolds'
  <2>1. ASSUME NEW i \in 1..Len(log'[k]), i + Limit(k) <= Len(log'[k])
        PROVE  log'[k][i + Limit(k)] - log'[k][i] > Window
    <3>1. PICK lim \in Nat : lim = Limit(k) /\ m + 1 <= lim
      BY <1>1, <1>2, <1>6 DEF live
    <3>2. i \in Nat /\ 1 <= i /\ i + lim <= end + 1
      BY <1>7, <2>1, <3>1
    <3>3. CASE i + lim <= end
      <4>1. i \in 1..end /\ i + lim \in 1..end
        BY <1>6, <3>1, <3>2, <3>3
      <4>2. log[k][i + lim] - log[k][i] > Window
        BY <1>6, <3>1, <3>3, <4>1 DEF RateInv, WindowHolds
      <4>3. QED
        BY <1>7, <3>1, <4>1, <4>2
    <3>4. CASE i + lim = end + 1
      <4>1. i \in 1..g /\ i \in 1..end
        BY <1>6, <1>7a, <3>1, <3>2, <3>4, SMTT(20)
      <4>2. now - log[k][i] > Window
        BY <1>3, <1>6, <4>1 DEF Expired
      <4>3. QED
        BY <1>7, <3>1, <3>4, <4>1, <4>2
    <3>5. i + lim <= end \/ i + lim = end + 1
      BY <3>2
    <3>6. QED
      BY <3>3, <3>4, <3>5
  <2>2. QED
    BY <1>8, <2>1 DEF RateInv, WindowHolds, Limit
<1>12. QED
  BY <1>5, <1>9, <1>10, <1>11 DEF RateInv

LEMMA RefuseStep ==
    ASSUME RateInv, NEW k \in Keys, Refuse(k)
    PROVE  RateInv'
<1>1. PICK n \in 0..Len(hits[k]) :
         /\ Pops(hits[k], n)
         /\ hits' = [hits EXCEPT ![k] = After(@, n)]
         /\ now' = now /\ log' = log
  BY DEF Refuse
<1> DEFINE live == After(hits[k], n)
<1>2. /\ hits[k] \in Seq(Nat) /\ log[k] \in Seq(Nat)
      /\ live \in Seq(Nat) /\ Len(live) = Len(hits[k]) - n
      /\ Limit(k) \in Int
  BY AfterPops, LimitType DEF RateInv, TypeOK
<1>3. /\ \A i \in 1..Len(live) : live[i] = log[k][Gone(k) + n + i]
      /\ \A i \in 1..(Gone(k) + n) : Expired(log[k][i])
      /\ Gone(k) \in Nat
  BY <1>1, PopsKeepSuffix
<1> HIDE DEF live
<1>4. hits'[k] = live /\ \A j \in Keys : j # k => hits'[j] = hits[j]
  BY <1>1 DEF live, RateInv, TypeOK
<1>5. TypeOK'
  BY <1>1, <1>2 DEF live, RateInv, TypeOK
<1>6. Gone(k)' = Gone(k) + n
  <2>1. Gone(k)' = Len(log[k]) - Len(live)
    BY <1>1, <1>4 DEF Gone
  <2>2. Len(log[k]) \in Nat /\ Len(hits[k]) \in Nat /\ n \in Nat
    BY <1>2
  <2>3. Len(log[k]) - Len(live) = Len(log[k]) - Len(hits[k]) + n
    BY <1>2, <2>2
  <2>4. QED
    BY <2>1, <2>3 DEF Gone
<1>7. \A j \in Keys : j # k => hits'[j] = hits[j] /\ Gone(j)' = Gone(j)
  BY <1>1, <1>4 DEF Gone
<1>8. DequeIsRecentLog'
  <2>1. ASSUME NEW j \in Keys, j # k
        PROVE  /\ Gone(j)' >= 0
               /\ \A i \in 1..Len(hits'[j]) : hits'[j][i] = log'[j][Gone(j)' + i]
               /\ \A i \in 1..Gone(j)' : Expired(log[j][i])'
    <3>1. hits'[j] = hits[j] /\ log'[j] = log[j] /\ Gone(j)' = Gone(j) /\ now' = now
      BY <1>1, <1>7, <2>1
    <3>2. Gone(j)' >= 0
      BY <3>1 DEF RateInv, DequeIsRecentLog
    <3>3. \A i \in 1..Len(hits'[j]) : hits'[j][i] = log'[j][Gone(j)' + i]
      BY <3>1 DEF RateInv, DequeIsRecentLog
    <3>4. \A i \in 1..Gone(j)' : Expired(log[j][i])'
      BY <3>1 DEF RateInv, DequeIsRecentLog, Expired
    <3>5. QED
      BY <3>2, <3>3, <3>4
  <2>2. Gone(k)' >= 0
    BY <1>3, <1>6
  <2>3. ASSUME NEW i \in 1..Len(hits'[k])
        PROVE  hits'[k][i] = log'[k][Gone(k)' + i]
    <3>1. i \in 1..Len(live) /\ hits'[k][i] = live[i] /\ log'[k] = log[k]
      BY <1>1, <1>4
    <3>2. QED
      BY <1>3, <1>6, <3>1
  <2>4. ASSUME NEW i \in 1..Gone(k)'
        PROVE  Expired(log[k][i])'
    <3>1. Expired(log[k][i])
      BY <1>3, <1>6
    <3>2. QED
      BY <1>1, <3>1 DEF Expired
  <2>5. ASSUME NEW j \in Keys
        PROVE  /\ Gone(j)' >= 0
               /\ \A i \in 1..Len(hits'[j]) : hits'[j][i] = log'[j][Gone(j)' + i]
               /\ \A i \in 1..Gone(j)' : Expired(log[j][i])'
    BY <2>1, <2>2, <2>3, <2>4
  <2>6. QED
    BY <2>5 DEF RateInv, DequeIsRecentLog
<1>9. DequeIsBounded'
  <2>1. Len(live) <= Limit(k) \/ live = <<>>
    BY <1>2 DEF RateInv, DequeIsBounded
  <2>2. QED
    BY <1>4, <2>1 DEF RateInv, DequeIsBounded, Limit
<1>10. WindowHolds'
  BY <1>1 DEF RateInv, WindowHolds, Limit
<1>11. QED
  BY <1>5, <1>8, <1>9, <1>10 DEF RateInv

LEMMA TickStep ==
    ASSUME RateInv, Tick
    PROVE  RateInv'
<1> USE DEF RateInv, TypeOK, Tick
<1>1. TypeOK'
  OBVIOUS
<1>2. \A k \in Keys : Gone(k)' = Gone(k) /\ Gone(k) <= Len(log[k])
  BY DEF Gone
<1>3. \A k \in Keys : \A i \in 1..Gone(k) : Expired(log[k][i])'
  <2>1. SUFFICES ASSUME NEW k \in Keys, NEW i \in 1..Gone(k)
                 PROVE  Expired(log[k][i])'
    OBVIOUS
  <2>2. log[k][i] \in Nat
    BY <1>2 DEF Gone
  <2>3. now - log[k][i] > Window
    BY DEF DequeIsRecentLog, Expired
  <2>4. QED
    BY <2>2, <2>3, RateLimiterAssumption DEF Expired
<1>4. DequeIsRecentLog'
  BY <1>2, <1>3 DEF DequeIsRecentLog
<1>5. DequeIsBounded' /\ WindowHolds'
  BY DEF DequeIsBounded, WindowHolds, Limit
<1>6. QED
  BY <1>1, <1>4, <1>5

\* The inductive invariant.
THEOREM Invariant == Spec => []RateInv
<1>1. Init => RateInv
  BY DEF Init, RateInv, TypeOK, DequeIsRecentLog, DequeIsBounded, WindowHolds, Gone
<1>2. RateInv /\ [Next]_vars => RateInv'
  <2> SUFFICES ASSUME RateInv, [Next]_vars PROVE RateInv'
    OBVIOUS
  <2>1. CASE UNCHANGED vars
    BY <2>1 DEF vars, RateInv, TypeOK, DequeIsRecentLog, DequeIsBounded, WindowHolds,
       Gone, Expired, Limit
  <2>2. QED
    BY <2>1, TickStep, AcceptStep, RefuseStep DEF Next
<1>3. QED
  BY <1>1, <1>2, PTL DEF Spec

\* The clock, the deques and the log keep their types.
THEOREM TypeCorrect == Spec => []TypeOK
<1>1. RateInv => TypeOK
  BY DEF RateInv
<1>2. QED
  BY <1>1, Invariant, PTL

\* No stretch of Window seconds contains more than Limit(k) accepted requests.
THEOREM WindowIsHeld == Spec => []WindowHolds
<1>1. RateInv => WindowHolds
  BY DEF RateInv
<1>2. QED
  BY <1>1, Invariant, PTL

\* Requests are refused on account of recent accepted requests only.
THEOREM DequeIsFaithful == Spec => []DequeIsRecentLog
<1>1. RateInv => DequeIsRecentLog
  BY DEF RateInv
<1>2. QED
  BY <1>1, Invariant, PTL

\* However many requests arrive, a key keeps at most Limit(k) times.
THEOREM DequeStaysBounded == Spec => []DequeIsBounded
<1>1. RateInv => DequeIsBounded
  BY DEF RateInv
<1>2. QED
  BY <1>1, Invariant, PTL

-----------------------------------------------------------------------------
(* What is counted                                                          *)

\* The clock does not run backwards, so the log is in the order of time.
LogInOrder ==
    \A k \in Keys : \A i \in 1..Len(log[k]) :
        /\ log[k][i] <= now
        /\ \A j \in 1..Len(log[k]) : i <= j => log[k][i] <= log[k][j]

LEMMA OrderKept ==
    ASSUME TypeOK, LogInOrder, [Next]_vars
    PROVE  LogInOrder'
<1>1. now \in Nat /\ \A k \in Keys : log[k] \in Seq(Nat)
  BY DEF TypeOK
<1>2. CASE Tick
  <2>1. now' = now + 1 /\ log' = log
    BY <1>2 DEF Tick
  <2>2. ASSUME NEW k \in Keys, NEW i \in 1..Len(log[k])
        PROVE  log[k][i] <= now + 1
    <3>1. log[k][i] <= now /\ log[k][i] \in Nat
      BY <1>1 DEF LogInOrder
    <3>2. QED
      BY <1>1, <3>1
  <2>3. QED
    BY <2>1, <2>2 DEF LogInOrder
<1>3. ASSUME NEW k \in Keys, Accept(k)
      PROVE  LogInOrder'
  <2>1. now' = now /\ log' = [log EXCEPT ![k] = Append(@, now)]
    BY <1>3 DEF Accept
  <2>2. log'[k] = Append(log[k], now) /\ \A j \in Keys : j # k => log'[j] = log[j]
    BY <2>1 DEF TypeOK
  <2>3. PICK end \in Nat : end = Len(log[k])
    BY <1>1
  <2>4. /\ Len(log'[k]) = end + 1
        /\ \A i \in 1..end : log'[k][i] = log[k][i]
        /\ log'[k][end + 1] = now
    BY <1>1, <2>2, <2>3, AppendTime
  <2>5. ASSUME NEW i \in 1..end
        PROVE  log'[k][i] <= now
    <3>1. log[k][i] <= now
      BY <2>3, <2>5 DEF LogInOrder
    <3>2. QED
      BY <2>4, <3>1
  <2>6. ASSUME NEW i \in 1..(end + 1)
        PROVE  /\ log'[k][i] <= now
               /\ \A j \in 1..(end + 1) : i <= j => log'[k][i] <= log'[k][j]
    <3>1. log'[k][i] <= now
      BY <1>1, <2>3, <2>4, <2>5
    <3>2. ASSUME NEW j \in 1..(end + 1), i <= j
          PROVE  log'[k][i] <= log'[k][j]
      <4>1. CASE j = end + 1
        BY <2>4, <3>1, <4>1
      <4>2. CASE j # end + 1
        <5>1. i \in 1..end /\ j \in 1..end
          BY <2>3, <3>2, <4>2
        <5>2. log[k][i] <= log[k][j]
          BY <2>3, <3>2, <5>1 DEF LogInOrder
        <5>3. QED
          BY <2>4, <5>1, <5>2
      <4>3. QED
        BY <4>1, <4>2
    <3>3. QED
      BY <3>1, <3>2
  <2>7. ASSUME NEW l \in Keys, NEW i \in 1..Len(log'[l])
        PROVE  /\ log'[l][i] <= now'
               /\ \A j \in 1..Len(log'[l]) : i <= j => log'[l][i] <= log'[l][j]
    <3>1. CASE l = k
      BY <2>1, <2>4, <2>6, <3>1
    <3>2. CASE l # k
      BY <2>1, <2>2, <3>2 DEF LogInOrder
    <3>3. QED
      BY <3>1, <3>2
  <2>8. QED
    BY <2>7 DEF LogInOrder
<1>4. ASSUME NEW k \in Keys, Refuse(k)
      PROVE  LogInOrder'
  BY <1>4 DEF Refuse, LogInOrder
<1>5. CASE UNCHANGED vars
  BY <1>5 DEF vars, LogInOrder
<1>6. QED
  BY <1>2, <1>3, <1>4, <1>5 DEF Next

\* The middleware decides by the number of requests let through in the last
\* Window seconds, which it never sees as a whole (RateLimitMiddleware.__call__).
THEOREM DecisionsAreExact == Spec => []CountIsExact
<1>1. Init => LogInOrder
  BY DEF Init, LogInOrder
<1>2. Spec => []LogInOrder
  BY <1>1, OrderKept, TypeCorrect, PTL DEF Spec
<1>3. RateInv /\ LogInOrder => CountIsExact
  <2>1. SUFFICES ASSUME RateInv, LogInOrder, NEW k \in Keys, NEW n \in 0..Len(hits[k]), Pops(hits[k], n)
                 PROVE  Len(After(hits[k], n)) = Cardinality(Recent(k))
    BY DEF CountIsExact
  <2>2. /\ hits[k] \in Seq(Nat) /\ log[k] \in Seq(Nat) /\ now \in Nat
        /\ Len(After(hits[k], n)) = Len(hits[k]) - n
    BY <2>1, AfterPops DEF RateInv, TypeOK
  <2>3. /\ \A i \in 1..(Gone(k) + n) : Expired(log[k][i])
        /\ Gone(k) \in Nat
    BY <2>1, PopsKeepSuffix
  <2>4. PICK g \in Nat, end \in Nat :
            g = Gone(k) + n /\ end = Len(log[k]) /\ end - g = Len(After(hits[k], n)) /\ g <= end
    <3>1. Len(log[k]) \in Nat /\ Len(hits[k]) \in Nat /\ n \in Nat
      BY <2>2
    <3>2. /\ Gone(k) + n \in Nat
          /\ Len(log[k]) - (Gone(k) + n) = Len(hits[k]) - n
          /\ Gone(k) + n <= Len(log[k])
      BY <2>3, <3>1 DEF Gone
    <3>3. QED
      BY <2>2, <3>1, <3>2
  <2>5. ASSUME NEW i \in (g + 1)..end
        PROVE  ~ Expired(log[k][i])
    <3>1. n < Len(hits[k]) /\ n + 1 \in 1..Len(hits[k])
      <4>1. Len(hits[k]) \in Nat /\ n \in Nat
        BY <2>2
      <4>2. end - g >= 1 /\ end - g = Len(hits[k]) - n
        BY <2>2, <2>4, <2>5
      <4>3. QED
        BY <2>4, <4>1, <4>2
    <3>2. ~ Expired(hits[k][n + 1])
      BY <2>1, <3>1 DEF Pops
    <3>3. hits[k][n + 1] = log[k][g + 1]
      <4>1. hits[k][n + 1] = log[k][Gone(k) + (n + 1)]
        BY <2>1, <3>1 DEF RateInv, DequeIsRecentLog
      <4>2. Gone(k) + (n + 1) = g + 1
        BY <2>3, <2>4
      <4>3. QED
        BY <4>1, <4>2
    <3>4. g + 1 \in 1..end /\ i \in 1..end /\ g + 1 <= i
      BY <2>4, <2>5
    <3>5. log[k][g + 1] <= log[k][i]
      BY <2>1, <2>4, <3>4 DEF LogInOrder
    <3>6. log[k][g + 1] \in Nat /\ log[k][i] \in Nat
      <4>1. \A j \in 1..Len(log[k]) : log[k][j] \in Nat
        BY <2>2, SMTT(20)
      <4>2. QED
        BY <2>4, <3>4, <4>1
    <3>7. \A s, t \in Nat : s <= t /\ ~ Expired(s) => ~ Expired(t)
      BY <2>2, RateLimiterAssumption DEF Expired
    <3>8. QED
      BY <3>2, <3>3, <3>5, <3>6, <3>7
  <2>6. Recent(k) = (g + 1)..end
    <3>1. DOMAIN log[k] = 1..end
      BY <2>2, <2>4
    <3>2. ASSUME NEW i \in 1..end
          PROVE  ~ Expired(log[k][i]) <=> i \in (g + 1)..end
      <4>1. i \in 1..g \/ i \in (g + 1)..end
        BY <2>4, <3>2
      <4>2. ~ (i \in 1..g /\ i \in (g + 1)..end)
        BY <2>4, <3>2
      <4>3. QED
        BY <2>3, <2>4, <2>5, <4>1, <4>2
    <3>3. (g + 1)..end \subseteq 1..end
      BY <2>4
    <3>4. QED
      BY <3>1, <3>2, <3>3 DEF Recent
  <2>7. Cardinality((g + 1)..end) = end - g
    <3>1. g + 1 \in Int /\ end \in Int
      BY <2>4
    <3>2. Cardinality((g + 1)..end) = IF g + 1 > end THEN 0 ELSE end - (g + 1) + 1
      BY <3>1, FS_Interval
    <3>3. QED
      BY <2>4, <3>2
  <2>8. QED
    BY <2>4, <2>6, <2>7
<1>4. QED
  BY <1>2, <1>3, Invariant, PTL

=============================================================================
