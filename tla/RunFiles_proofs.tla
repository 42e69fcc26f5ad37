--------------------------- MODULE RunFiles_proofs ---------------------------
(***************************************************************************)
(* Proofs about RunFiles, for any jobs, workers, files, attempts, seconds  *)
(* and faults: the report that a completed job shows is its own, the       *)
(* memory log loses no decision, and a reflection stands under the         *)
(* decision it is about.                                                   *)
(***************************************************************************)
EXTENDS RunFiles, TLAPS, FiniteSetTheorems, SequenceTheorems

-----------------------------------------------------------------------------
(* The inductive invariant                                                  *)

\* A job is in the hands of one worker at a time, and its row says how far it
\* is; a row that can be taken has an attempt left.
Hands ==
    /\ \A w \in Workers : at[w] # "idle" =>
        /\ job[w] \in Jobs /\ attempt[job[w]] # 0
        /\ status[job[w]] = (IF at[w] = "publish" THEN "completed" ELSE "running")
    /\ \A v, w \in Workers :
        at[v] # "idle" /\ at[w] # "idle" /\ job[v] = job[w] => v = w
    /\ \A j \in Jobs : status[j] = "queued" => attempt[j] < MaxAttempts
    /\ \A j \in Jobs : status[j] = "completed" => attempt[j] # 0

\* What the files of a report hold, and which of a set of files are of an attempt.
Version(j, n) == [job |-> j, attempt |-> n]
Content(j, n, tree) == [f \in Files |-> IF f \in tree THEN Version(j, n) ELSE Absent]
Has(files, tree, j, n) == \A f \in tree : files[f] = Version(j, n)

\* A worker that uploads has saved its report, and the backend is the bucket.
Saved ==
    \A w \in Workers :
        /\ at[w] \in {"upload", "complete"} => saved[w] \in Dirs
        /\ at[w] = "upload" => backend = "s3"

\* As long as no directory is shared, the report of a job can be followed from
\* the directory to the bucket to the row.
WorkerTree(w) ==
    LET j == job[w]
    IN  /\ at[w] = "upload" \/ (at[w] = "complete" /\ backend = "local") =>
            wrote[j] # {} /\ dirs[saved[w]] = Content(j, attempt[j], wrote[j])
        /\ at[w] = "upload" =>
            todo[w] \subseteq wrote[j] /\ Has(objects[j], wrote[j] \ todo[w], j, attempt[j])
        /\ at[w] = "complete" /\ backend = "s3" => Has(objects[j], wrote[j], j, attempt[j])
JobTree(j) ==
    /\ \A f \in Files : objects[j][f] = Absent \/ objects[j][f].job = j
    /\ status[j] = "completed" =>
        IF backend = "s3"
        THEN path[j] = StorageKey(j) /\ Has(objects[j], wrote[j], j, attempt[j])
        ELSE /\ path[j] \in Dirs
             /\ wrote[j] # {} /\ dirs[path[j]] = Content(j, attempt[j], wrote[j])
Trees ==
    ~ shared => (\A w \in Workers : WorkerTree(w)) /\ (\A j \in Jobs : JobTree(j))

\* A decision is stored once.
Running == {"resolve", "reflect", "update", "open", "write", "replace", "graph", "store", "append"}
Book ==
    /\ \A m, n \in DOMAIN book : book[m] = book[n] => m = n
    /\ \A m \in DOMAIN book : book[m].attempt <= attempt[book[m].job]
    /\ \A w \in Workers : at[w] \in Running => \A m \in DOMAIN book : book[m] # Decision(w)

\* What a text has of the book, in the order of the book; and what it has not.
Ordered(s) ==
    /\ \A i \in DOMAIN s : \E m \in DOMAIN book : book[m] = s[i].decision
    /\ \A i, k \in DOMAIN s : \A m, n \in DOMAIN book :
        i < k /\ book[m] = s[i].decision /\ book[n] = s[k].decision => m < n
Dropped(s) == {m \in DOMAIN book : \A i \in DOMAIN s : s[i].decision # book[m]}
Whole(s, done) ==
    \A m \in Dropped(s) :
        /\ MaxEntries # 0
        /\ book[m] \in done
        /\ Cardinality(Resolved(s)) = MaxEntries
        /\ \A i \in Resolved(s) : \A n \in DOMAIN book : book[n] = s[i].decision => m < n

Rewrites == {"open", "write", "replace"}
KeptBy(w) ==
    at[w] \in Rewrites /\ ~ stale[w] => text[w] = ApplyRotation(Batch(log, updates[w]))
Kept ==
    ~ raced => Ordered(log) /\ Whole(log, settled) /\ \A w \in Workers : KeptBy(w)

\* Each reflection in its place, and one block at most to wait for an outcome.
Clean(s) ==
    /\ \A i, k \in DOMAIN s : s[i].pending /\ s[k].pending /\ Key(s[i]) = Key(s[k]) => i = k
    /\ \A i \in DOMAIN s : s[i].about = s[i].decision
Waiting(s, t) == \A k \in DOMAIN s : \E i \in DOMAIN t : t[i].pending /\ s[k] = t[i]
MatchesBy(w) ==
    /\ at[w] \in Rewrites => Clean(text[w])
    /\ at[w] = "reflect" /\ ~ stale[w] => Waiting(found[w], log)
    /\ at[w] = "update" /\ ~ stale[w] => Waiting(updates[w], log)
    /\ at[w] = "append" /\ ~ stale[w] =>
        \A i \in DOMAIN log : log[i].pending => Key(log[i]) # OwnKey(w)
Matches ==
    ~ raced /\ ~ misread => Clean(log) /\ \A w \in Workers : MatchesBy(w)

IInv == TypeOK /\ Hands /\ Saved /\ Trees /\ Book /\ Kept /\ Matches

-----------------------------------------------------------------------------
(* The places that Pick takes                                               *)

\* The natural numbers are well-founded: a set of them has a least element.
LEMMA Least ==
    ASSUME NEW T \in SUBSET Nat, NEW x \in T
    PROVE  \E n \in T : \A y \in T : n <= y
<1>. DEFINE below == {pair \in Nat \X Nat : pair[1] < pair[2]}
<1>1. OpToRel(<, Nat) = below
  BY Zenon DEF OpToRel
<1>2. IsWellFoundedOn(below, Nat)
  BY <1>1, NatLessThanWellFounded, Zenon
<1>3. PICK n \in T : \A y \in T : ~ (<<y, n>> \in below)
  BY <1>2, WFMin, Zenon
<1>4. ASSUME NEW y \in T
      PROVE  n <= y
  <2>1. <<y, n>> \in Nat \X Nat
    OBVIOUS
  <2>2. y < n => <<y, n>> \in below
    BY <2>1
  <2>3. QED
    BY <1>3, <2>2
<1>5. QED
  BY <1>4

\* A bounded set of natural numbers has a greatest element, which Max gives.
LEMMA Greatest ==
    ASSUME NEW n \in Nat, NEW T \in SUBSET (1..n), NEW x \in T
    PROVE  Max(T) \in T /\ \A y \in T : y <= Max(T)
<1>. DEFINE up == {n - y : y \in T}
<1>1. up \in SUBSET Nat /\ n - x \in up
  OBVIOUS
<1>. HIDE DEF up
<1>2. PICK u \in up : \A v \in up : u <= v
  BY <1>1, Least
<1>3. PICK y \in T : u = n - y
  BY DEF up
<1>4. ASSUME NEW z \in T
      PROVE  z <= y
  <2>1. n - z \in up
    BY DEF up
  <2>2. u <= n - z
    BY <1>2, <2>1
  <2>3. QED
    BY <1>3, <2>2
<1>5. \E m \in T : \A z \in T : m >= z
  BY <1>4
<1>6. Max(T) \in T /\ \A z \in T : Max(T) >= z
  BY <1>5, Zenon DEF Max
<1>7. ASSUME NEW z \in T
      PROVE  z <= Max(T)
  <2>1. Max(T) >= z /\ Max(T) \in 1..n /\ z \in 1..n
    BY <1>6, Zenon
  <2>2. QED
    BY <2>1
<1>8. QED
  BY <1>6, <1>7

Rank(I, n) == Cardinality({k \in I : k <= n})

\* How many places there are up to n grows by one at each of them.
LEMMA Ranks ==
    ASSUME NEW N \in Nat, NEW I \in SUBSET (1..N)
    PROVE  /\ IsFiniteSet(I) /\ Cardinality(I) \in Nat
           /\ \A n \in Nat : Rank(I, n) \in Nat
           /\ Rank(I, 0) = 0 /\ Rank(I, N) = Cardinality(I)
           /\ \A n \in 1..N : Rank(I, n) = (IF n \in I THEN Rank(I, n - 1) + 1 ELSE Rank(I, n - 1))
           /\ \A m, n \in Nat : m <= n => Rank(I, m) <= Rank(I, n)
<1>0. \A k \in I : k \in Int /\ 1 <= k /\ k <= N
  <2>1. \A k \in I : k \in 1..N
    BY Zenon
  <2>2. QED
    BY <2>1
<1>1. IsFiniteSet(1..N)
  BY FS_Interval
<1>2. IsFiniteSet(I) /\ Cardinality(I) \in Nat
  BY <1>1, FS_Subset, FS_CardinalityType, Zenon
<1>3. ASSUME NEW n \in Nat
      PROVE  IsFiniteSet({k \in I : k <= n}) /\ Rank(I, n) \in Nat
  <2>1. {k \in I : k <= n} \in SUBSET I
    OBVIOUS
  <2>2. QED
    BY <1>2, <2>1, FS_Subset, FS_CardinalityType, Zenon DEF Rank
<1>4. Rank(I, 0) = 0
  <2>1. \A k \in I : ~ (k <= 0)
    BY <1>0
  <2>2. {k \in I : k <= 0} = {}
    BY <2>1, Zenon
  <2>3. QED
    BY <2>2, FS_EmptySet, Zenon DEF Rank
<1>5. Rank(I, N) = Cardinality(I)
  <2>1. {k \in I : k <= N} = I
    BY <1>0
  <2>2. QED
    BY <2>1, Zenon DEF Rank
<1>6. ASSUME NEW n \in 1..N
      PROVE  Rank(I, n) = (IF n \in I THEN Rank(I, n - 1) + 1 ELSE Rank(I, n - 1))
  <2>. DEFINE before == {k \in I : k <= n - 1}
  <2>1. n - 1 \in Nat
    OBVIOUS
  <2>2. IsFiniteSet(before) /\ Rank(I, n - 1) = Cardinality(before)
    BY <1>3, <2>1, Zenon DEF Rank
  <2>3. n \notin before
    OBVIOUS
  <2>4. CASE n \in I
    <3>1. \A k \in I : k <= n <=> k <= n - 1 \/ k = n
      BY <1>0
    <3>2. {k \in I : k <= n} = before \cup {n}
      BY <2>4, <3>1, Zenon
    <3>3. Rank(I, n) = Cardinality(before \cup {n})
      BY <3>2, Zenon DEF Rank
    <3>. HIDE DEF before
    <3>4. Cardinality(before \cup {n}) = Cardinality(before) + 1
      BY <2>2, <2>3, FS_AddElement, Zenon
    <3>5. QED
      BY <2>2, <2>4, <3>3, <3>4, Zenon
  <2>5. CASE n \notin I
    <3>1. \A k \in I : k <= n <=> k <= n - 1 \/ k = n
      BY <1>0
    <3>2. {k \in I : k <= n} = before
      BY <2>5, <3>1, Zenon
    <3>3. QED
      BY <2>2, <2>5, <3>2, Zenon DEF Rank
  <2>6. QED
    BY <2>4, <2>5
<1>7. ASSUME NEW m \in Nat, NEW n \in Nat, m <= n
      PROVE  Rank(I, m) <= Rank(I, n)
  <2>1. \A k \in I : k <= m => k <= n
    BY <1>0, <1>7
  <2>2. {k \in I : k <= m} \in SUBSET {k \in I : k <= n}
    BY <2>1, Zenon
  <2>3. QED
    BY <1>3, <2>2, FS_Subset, Zenon DEF Rank
<1>8. QED
  BY <1>2, <1>3, <1>4, <1>5, <1>6, <1>7

\* The n-th place is there, and is the n-th.
LEMMA NthIs ==
    ASSUME NEW N \in Nat, NEW I \in SUBSET (1..N), NEW n \in 1..Cardinality(I)
    PROVE  Nth(I, n) \in I /\ Rank(I, Nth(I, n)) = n
<1>. DEFINE reached == {m \in Nat : n <= Rank(I, m)}
<1>1. Cardinality(I) \in Nat /\ Rank(I, N) = Cardinality(I) /\ Rank(I, 0) = 0
  BY Ranks
<1>2. reached \in SUBSET Nat /\ N \in reached
  BY <1>1
<1>3. PICK i \in reached : \A m \in reached : i <= m
  BY <1>2, Least, Zenon
<1>4. i \in 1..N
  <2>1. i <= N /\ i \in Nat /\ n <= Rank(I, i)
    BY <1>2, <1>3
  <2>2. i # 0
    BY <1>1, <2>1
  <2>3. QED
    BY <2>1, <2>2
<1>5. Rank(I, i) \in Nat /\ Rank(I, i - 1) \in Nat
      /\ Rank(I, i) = (IF i \in I THEN Rank(I, i - 1) + 1 ELSE Rank(I, i - 1))
  <2>1. i \in Nat /\ i - 1 \in Nat
    BY <1>4
  <2>2. QED
    BY <1>4, <2>1, Ranks
<1>6. Rank(I, i - 1) < n
  <2>1. i - 1 \in Nat /\ ~ (i <= i - 1)
    BY <1>4
  <2>2. i - 1 \notin reached
    BY <1>3, <2>1, Zenon
  <2>3. QED
    BY <1>5, <2>1, <2>2
<1>7. n <= Rank(I, i)
  OBVIOUS
<1>8. i \in I /\ Rank(I, i) = n
  BY <1>5, <1>6, <1>7
<1>9. \E j \in I : Cardinality({k \in I : k <= j}) = n
  BY <1>8, Zenon DEF Rank
<1>10. QED
  BY <1>9, Zenon DEF Nth, Rank

\* The places are in their order, and each has its number.
LEMMA Places ==
    ASSUME NEW N \in Nat, NEW I \in SUBSET (1..N)
    PROVE  /\ IsFiniteSet(I) /\ Cardinality(I) \in Nat
           /\ \A n \in 1..Cardinality(I) : Nth(I, n) \in I
           /\ \A m, n \in 1..Cardinality(I) : m < n <=> Nth(I, m) < Nth(I, n)
           /\ \A m, n \in 1..Cardinality(I) : Nth(I, m) = Nth(I, n) => m = n
           /\ \A i \in I : \E n \in 1..Cardinality(I) : Nth(I, n) = i
<1>1. /\ IsFiniteSet(I) /\ Cardinality(I) \in Nat
      /\ \A n \in Nat : Rank(I, n) \in Nat
      /\ Rank(I, 0) = 0 /\ Rank(I, N) = Cardinality(I)
      /\ \A n \in 1..N : Rank(I, n) = (IF n \in I THEN Rank(I, n - 1) + 1 ELSE Rank(I, n - 1))
      /\ \A m, n \in Nat : m <= n => Rank(I, m) <= Rank(I, n)
  BY Ranks
<1>2. \A n \in 1..Cardinality(I) : Nth(I, n) \in I /\ Rank(I, Nth(I, n)) = n
  BY NthIs, Zenon
<1>3. \A i \in I : i \in 1..N
  BY Zenon
<1>4. ASSUME NEW i \in I, NEW j \in I, i < j
      PROVE  Rank(I, i) < Rank(I, j)
  <2>1. i \in Nat /\ j \in 1..N /\ j - 1 \in Nat /\ i <= j - 1
    BY <1>3, <1>4
  <2>2. Rank(I, i) <= Rank(I, j - 1)
    BY <1>1, <2>1, Zenon
  <2>3. Rank(I, j) = Rank(I, j - 1) + 1
    BY <1>1, <2>1, Zenon
  <2>4. Rank(I, i) \in Nat /\ Rank(I, j - 1) \in Nat
    BY <1>1, <2>1, Zenon
  <2>5. QED
    BY <2>2, <2>3, <2>4
<1>5. ASSUME NEW m \in 1..Cardinality(I), NEW n \in 1..Cardinality(I)
      PROVE  (m < n <=> Nth(I, m) < Nth(I, n)) /\ (Nth(I, m) = Nth(I, n) => m = n)
  <2>1. Nth(I, m) \in I /\ Nth(I, n) \in I /\ Rank(I, Nth(I, m)) = m /\ Rank(I, Nth(I, n)) = n
    BY <1>2, Zenon
  <2>2. Nth(I, m) \in 1..N /\ Nth(I, n) \in 1..N
    BY <1>3, <2>1, Zenon
  <2>3. Nth(I, m) < Nth(I, n) => m < n
    BY <1>4, <2>1, Zenon
  <2>4. Nth(I, n) < Nth(I, m) => n < m
    BY <1>4, <2>1, Zenon
  <2>5. Nth(I, m) = Nth(I, n) => m = n
    BY <2>1, Zenon
  <2>6. QED
    BY <2>2, <2>3, <2>4, <2>5
<1>6. ASSUME NEW i \in I
      PROVE  \E n \in 1..Cardinality(I) : Nth(I, n) = i
  <2>1. i \in 1..N /\ i \in Nat /\ N \in Nat /\ i <= N
    BY <1>3
  <2>2. Rank(I, i) \in Nat /\ Rank(I, i) <= Cardinality(I)
    BY <1>1, <2>1, Zenon
  <2>3. Rank(I, i) = Rank(I, i - 1) + 1
    BY <1>1, <2>1, Zenon
  <2>4. Rank(I, i - 1) \in Nat
    <3>1. i - 1 \in Nat
      BY <2>1
    <3>2. QED
      BY <1>1, <3>1, Zenon
  <2>5. Rank(I, i) \in 1..Cardinality(I)
    BY <1>1, <2>2, <2>3, <2>4
  <2>6. Nth(I, Rank(I, i)) \in I /\ Rank(I, Nth(I, Rank(I, i))) = Rank(I, i)
    BY <1>2, <2>5, Zenon
  <2>7. Nth(I, Rank(I, i)) \in 1..N
    BY <1>3, <2>6, Zenon
  <2>8. ~ (Nth(I, Rank(I, i)) < i) /\ ~ (i < Nth(I, Rank(I, i)))
    <3>1. ~ (Rank(I, i) < Rank(I, i))
      BY <2>2
    <3>2. QED
      BY <1>4, <2>6, <3>1, Zenon
  <2>9. Nth(I, Rank(I, i)) = i
    BY <2>1, <2>7, <2>8
  <2>10. QED
    BY <2>5, <2>9, Zenon
<1>7. QED
  BY <1>1, <1>2, <1>5, <1>6

\* p is what s has at the places I, in their order.
Takes(p, s, I) ==
    /\ \A n \in DOMAIN p : Nth(I, n) \in I /\ p[n] = s[Nth(I, n)]
    /\ \A m, n \in DOMAIN p : m < n <=> Nth(I, m) < Nth(I, n)
    /\ \A m, n \in DOMAIN p : Nth(I, m) = Nth(I, n) => m = n
    /\ \A i \in I : \E n \in DOMAIN p : Nth(I, n) = i /\ p[n] = s[i]

\* Pick gives a sequence of what was there, in its order.
LEMMA Picked ==
    ASSUME NEW T, NEW s \in Seq(T), NEW I \in SUBSET (DOMAIN s)
    PROVE  /\ Pick(s, I) \in Seq(T) /\ DOMAIN Pick(s, I) = 1..Cardinality(I)
           /\ Cardinality(I) \in Nat
           /\ Takes(Pick(s, I), s, I)
<1>1. PICK N \in Nat : DOMAIN s = 1..N
  BY LenProperties, Zenon
<1>2. I \in SUBSET (1..N)
  BY <1>1, Zenon
<1>3. /\ Cardinality(I) \in Nat
      /\ \A n \in 1..Cardinality(I) : Nth(I, n) \in I
      /\ \A m, n \in 1..Cardinality(I) : m < n <=> Nth(I, m) < Nth(I, n)
      /\ \A m, n \in 1..Cardinality(I) : Nth(I, m) = Nth(I, n) => m = n
      /\ \A i \in I : \E n \in 1..Cardinality(I) : Nth(I, n) = i
  BY <1>2, Places, Zenon
<1>4. DOMAIN Pick(s, I) = 1..Cardinality(I) /\ \A n \in 1..Cardinality(I) : Pick(s, I)[n] = s[Nth(I, n)]
  BY Zenon DEF Pick
<1>5. \A n \in 1..Cardinality(I) : s[Nth(I, n)] \in T
  <2>1. \A i \in DOMAIN s : s[i] \in T
    BY <1>1, ElementOfSeq, LenProperties
  <2>2. QED
    BY <1>3, <2>1, Zenon
<1>6. Pick(s, I) \in Seq(T)
  <2>1. Pick(s, I) \in [1..Cardinality(I) -> T]
    BY <1>5, Zenon DEF Pick
  <2>2. QED
    BY <1>3, <2>1, SeqDef
<1>. DEFINE p == Pick(s, I)
<1>7. \A i \in I : \E n \in DOMAIN p : Nth(I, n) = i /\ p[n] = s[i]
  BY <1>3, <1>4, Zenon
<1>. HIDE DEF p
<1>8. Takes(p, s, I)
  BY <1>3, <1>4, <1>7, Zenon DEF Takes, p
<1>9. QED
  BY <1>3, <1>4, <1>6, <1>8, Zenon DEF p

-----------------------------------------------------------------------------
(* What the update makes of the log                                         *)

LEMMA BlockFields ==
    ASSUME NEW s \in Seq(Blocks), NEW i \in DOMAIN s
    PROVE  /\ s[i] \in Blocks
           /\ s[i].decision \in Decisions /\ s[i].pending \in BOOLEAN /\ s[i].about \in Decisions
           /\ s[i] = [decision |-> s[i].decision, pending |-> s[i].pending, about |-> s[i].about]
<1>1. s[i] \in Blocks
  BY ElementOfSeq, LenProperties
<1>2. QED
  BY <1>1 DEF Blocks

\* Batch changes nothing but the blocks that are hit, which are resolved with
\* the update of their key.
LEMMA Batched ==
    ASSUME NEW s \in Seq(Blocks), NEW ups \in Seq(Blocks)
    PROVE  /\ Batch(s, ups) \in Seq(Blocks) /\ DOMAIN Batch(s, ups) = DOMAIN s
           /\ \A i \in DOMAIN s :
                /\ Batch(s, ups)[i].decision = s[i].decision
                /\ i \notin Hits(s, ups) => Batch(s, ups)[i] = s[i]
                /\ i \in Hits(s, ups) =>
                    /\ s[i].pending /\ ~ Batch(s, ups)[i].pending
                    /\ \E k \in DOMAIN ups : /\ Key(ups[k]) = Key(s[i])
                                             /\ Batch(s, ups)[i].about = ups[k].decision
<1>. DEFINE new(i) == [decision |-> s[i].decision, pending |-> FALSE,
                       about |-> Update(ups, Key(s[i])).decision]
            Good(i) == /\ Batch(s, ups)[i] \in Blocks
                       /\ Batch(s, ups)[i].decision = s[i].decision
                       /\ i \notin Hits(s, ups) => Batch(s, ups)[i] = s[i]
                       /\ i \in Hits(s, ups) =>
                           /\ s[i].pending /\ ~ Batch(s, ups)[i].pending
                           /\ \E k \in DOMAIN ups : /\ Key(ups[k]) = Key(s[i])
                                                    /\ Batch(s, ups)[i].about = ups[k].decision
<1>1. /\ DOMAIN Batch(s, ups) = DOMAIN s
      /\ \A i \in DOMAIN s :
            Batch(s, ups)[i] = (IF i \in Hits(s, ups) THEN new(i) ELSE s[i])
  BY Zenon DEF Batch
<1>2. ASSUME NEW i \in DOMAIN s
      PROVE  Good(i)
  <2>1. s[i] \in Blocks /\ s[i].decision \in Decisions
    BY BlockFields, Zenon
  <2>2. CASE i \in Hits(s, ups)
    <3>. DEFINE same == {k \in DOMAIN ups : Key(ups[k]) = Key(s[i])}
    <3>1. s[i].pending /\ \E k \in DOMAIN ups : Key(ups[k]) = Key(s[i])
      BY <2>2, Zenon DEF Hits
    <3>2. PICK n \in Nat : DOMAIN ups = 1..n
      BY LenProperties, Zenon
    <3>3. PICK x \in same : TRUE
      BY <3>1, Zenon
    <3>4. same \in SUBSET (1..n)
      BY <3>2, Zenon
    <3>5. Max(same) \in same
      BY <3>2, <3>3, <3>4, Greatest, Zenon
    <3>6. PICK k \in DOMAIN ups : k = Max(same) /\ Key(ups[k]) = Key(s[i])
      BY <3>5, Zenon
    <3>7. Update(ups, Key(s[i])) = ups[k]
      BY <3>6, Zenon DEF Update
    <3>8. ups[k].decision \in Decisions
      BY BlockFields, Zenon
    <3>9. Batch(s, ups)[i] = new(i) /\ new(i).about = ups[k].decision
      BY <1>1, <2>2, <3>7
    <3>10. /\ new(i) \in Blocks
           /\ new(i).decision = s[i].decision /\ ~ new(i).pending
      BY <2>1, <3>7, <3>8 DEF Blocks
    <3>. HIDE DEF new
    <3>11. QED
      BY <2>2, <3>1, <3>6, <3>9, <3>10, Zenon
  <2>3. CASE i \notin Hits(s, ups)
    BY <1>1, <2>1, <2>3, Zenon
  <2>4. QED
    BY <2>2, <2>3, Zenon
<1>3. Batch(s, ups) \in Seq(Blocks)
  <2>1. PICK n \in Nat : DOMAIN s = 1..n
    BY LenProperties, Zenon
  <2>2. \A i \in 1..n : Batch(s, ups)[i] \in Blocks
    BY <1>2, <2>1, Zenon
  <2>3. Batch(s, ups) \in [1..n -> Blocks]
    BY <2>1, <2>2, Zenon DEF Batch
  <2>4. QED
    BY <2>3, SeqDef
<1>. HIDE DEF new
<1>4. QED
  BY <1>1, <1>2, <1>3, Zenon

LEMMA RotationFacts ==
    ASSUME NEW s \in Seq(Blocks)
    PROVE  Rotated(s) \in SUBSET (DOMAIN s) /\ ApplyRotation(s) \in Seq(Blocks)
<1>1. Rotated(s) \in SUBSET (DOMAIN s)
  BY Zenon DEF Rotated
<1>2. QED
  BY <1>1, Picked, Zenon DEF ApplyRotation

LEMMA BatchRotation ==
    ASSUME NEW s \in Seq(Blocks), NEW ups \in Seq(Blocks)
    PROVE  ApplyRotation(Batch(s, ups)) \in Seq(Blocks)
BY Batched, RotationFacts, Zenon

\* Picking blocks keeps each reflection in its place and pending keys unique.
LEMMA CleanPick ==
    ASSUME NEW s \in Seq(Blocks), NEW I \in SUBSET (DOMAIN s), Clean(s)
    PROVE  Clean(Pick(s, I))
<1>. DEFINE p == Pick(s, I)
<1>0. Takes(p, s, I)
  BY Picked, Zenon
<1>. HIDE DEF p
<1>1. /\ \A n \in DOMAIN p : Nth(I, n) \in I /\ p[n] = s[Nth(I, n)]
      /\ \A m, n \in DOMAIN p : Nth(I, m) = Nth(I, n) => m = n
  BY <1>0, Zenon DEF Takes
<1>2. \A n \in DOMAIN p : Nth(I, n) \in DOMAIN s
  BY <1>1, Zenon
<1>3. Clean(p)
  BY <1>1, <1>2, Zenon DEF Clean
<1>4. QED
  BY <1>3 DEF p

\* If the updates are about blocks that wait, each reflection finds its own.
LEMMA CleanBatch ==
    ASSUME NEW s \in Seq(Blocks), NEW ups \in Seq(Blocks), Clean(s), Waiting(ups, s)
    PROVE  Clean(Batch(s, ups))
<1>. DEFINE b == Batch(s, ups)
<1>1. /\ DOMAIN b = DOMAIN s
      /\ \A i \in DOMAIN s :
            /\ b[i].decision = s[i].decision
            /\ i \notin Hits(s, ups) => b[i] = s[i]
            /\ i \in Hits(s, ups) =>
                /\ s[i].pending /\ ~ b[i].pending
                /\ \E k \in DOMAIN ups : Key(ups[k]) = Key(s[i]) /\ b[i].about = ups[k].decision
  BY Batched, Zenon
<1>. HIDE DEF b
<1>2. ASSUME NEW i \in DOMAIN b, NEW k \in DOMAIN b,
             b[i].pending, b[k].pending, Key(b[i]) = Key(b[k])
      PROVE  i = k
  <2>1. b[i] = s[i] /\ b[k] = s[k]
    BY <1>1, <1>2, Zenon
  <2>2. QED
    BY <1>1, <1>2, <2>1, Zenon DEF Clean
<1>3. ASSUME NEW i \in DOMAIN b
      PROVE  b[i].about = b[i].decision
  <2>1. CASE i \in Hits(s, ups)
    <3>1. PICK k \in DOMAIN ups : Key(ups[k]) = Key(s[i]) /\ b[i].about = ups[k].decision
      BY <1>1, <2>1, Zenon
    <3>2. PICK m \in DOMAIN s : s[m].pending /\ ups[k] = s[m]
      BY Zenon DEF Waiting
    <3>3. m = i
      BY <1>1, <2>1, <3>1, <3>2, Zenon DEF Clean
    <3>4. QED
      BY <1>1, <3>1, <3>2, <3>3, Zenon
  <2>2. CASE i \notin Hits(s, ups)
    BY <1>1, <2>2, Zenon DEF Clean
  <2>3. QED
    BY <2>1, <2>2, Zenon
<1>4. Clean(b)
  BY <1>2, <1>3, Zenon DEF Clean
<1>5. QED
  BY <1>4 DEF b

\* What is picked from blocks that wait are blocks that wait.
LEMMA WaitingPick ==
    ASSUME NEW s \in Seq(Blocks), NEW t, NEW I \in SUBSET (DOMAIN s), Waiting(s, t)
    PROVE  Waiting(Pick(s, I), t)
<1>. DEFINE p == Pick(s, I)
<1>0. Takes(p, s, I)
  BY Picked, Zenon
<1>. HIDE DEF p
<1>1. \A n \in DOMAIN p : Nth(I, n) \in I /\ p[n] = s[Nth(I, n)]
  BY <1>0, Zenon DEF Takes
<1>2. \A n \in DOMAIN p : Nth(I, n) \in DOMAIN s
  BY <1>1, Zenon
<1>3. Waiting(p, t)
  BY <1>1, <1>2, Zenon DEF Waiting
<1>4. QED
  BY <1>3 DEF p

-----------------------------------------------------------------------------
(* What the rotation keeps                                                  *)

Above(R, i) == {k \in R : k > i}

\* The places above i are those that are not up to i.
LEMMA AboveCount ==
    ASSUME NEW N \in Nat, NEW R \in SUBSET (1..N), NEW i \in Nat
    PROVE  IsFiniteSet(Above(R, i)) /\ Cardinality(Above(R, i)) = Cardinality(R) - Rank(R, i)
<1>. DEFINE low == {k \in R : k <= i}
<1>1. IsFiniteSet(R) /\ Cardinality(R) \in Nat /\ Rank(R, i) \in Nat
  BY Ranks, Zenon
<1>2. \A k \in R : k \in 1..N
  BY Zenon
<1>3. \A k \in R : k <= i <=> ~ (k > i)
  BY <1>2
<1>4. low \cap Above(R, i) = {} /\ low \cup Above(R, i) = R
  BY <1>3, Zenon DEF Above
<1>5. low \in SUBSET R /\ Above(R, i) \in SUBSET R
  BY Zenon DEF Above
<1>6. Cardinality(low) = Rank(R, i)
  BY Zenon DEF Rank
<1>. HIDE DEF low
<1>7. /\ IsFiniteSet(low) /\ IsFiniteSet(Above(R, i))
      /\ Cardinality(low) \in Nat /\ Cardinality(Above(R, i)) \in Nat
  BY <1>1, <1>5, FS_Subset, FS_CardinalityType, Zenon
<1>8. /\ Cardinality(low \cup Above(R, i)) =
            Cardinality(low) + Cardinality(Above(R, i)) - Cardinality(low \cap Above(R, i))
      /\ Cardinality(low \cap Above(R, i)) = 0
  BY <1>4, <1>7, FS_Union, FS_EmptySet, Zenon
<1>9. Cardinality(R) = Cardinality(low) + Cardinality(Above(R, i)) - 0
  BY <1>4, <1>8, Zenon
<1>10. QED
  BY <1>6, <1>7, <1>9

\* Of M places or more, M have less than M above them.
LEMMA Topmost ==
    ASSUME NEW N \in Nat, NEW R \in SUBSET (1..N), NEW M \in Nat, M <= Cardinality(R)
    PROVE  Cardinality({i \in R : Cardinality(Above(R, i)) < M}) = M
<1>. DEFINE c == Cardinality(R)
            top == {i \in R : Cardinality(Above(R, i)) < M}
            f == [n \in (c - M + 1)..c |-> Nth(R, n)]
<1>1. c \in Nat
  BY Ranks, Zenon
<1>2. /\ \A n \in 1..c : Nth(R, n) \in R
      /\ \A m, n \in 1..c : Nth(R, m) = Nth(R, n) => m = n
      /\ \A i \in R : \E n \in 1..c : Nth(R, n) = i
  BY Places, Zenon
<1>3. ASSUME NEW n \in 1..c
      PROVE  Nth(R, n) \in top <=> n \in (c - M + 1)..c
  <2>1. Nth(R, n) \in R /\ Rank(R, Nth(R, n)) = n
    BY NthIs, Zenon
  <2>2. Nth(R, n) \in Nat
    <3>1. Nth(R, n) \in 1..N
      BY <2>1, Zenon
    <3>2. QED
      BY <3>1
  <2>3. Cardinality(Above(R, Nth(R, n))) = c - n
    BY <2>1, <2>2, AboveCount, Zenon
  <2>4. c - n < M <=> n \in (c - M + 1)..c
    BY <1>1
  <2>5. QED
    BY <2>1, <2>3, <2>4, Zenon
<1>4. (c - M + 1)..c \in SUBSET (1..c)
  BY <1>1
<1>. HIDE DEF c, top
<1>5. /\ DOMAIN f = (c - M + 1)..c
      /\ \A n \in (c - M + 1)..c : f[n] = Nth(R, n) /\ f[n] \in top
  BY <1>3, <1>4, Zenon
<1>6. \A m, n \in (c - M + 1)..c : f[m] = f[n] => m = n
  BY <1>2, <1>4, <1>5, Zenon
<1>7. \A i \in top : \E n \in (c - M + 1)..c : f[n] = i
  <2>1. top \in SUBSET R
    BY Zenon DEF top
  <2>2. QED
    BY <1>2, <1>3, <1>5, <2>1, Zenon
<1>8. f \in [(c - M + 1)..c -> top]
  BY <1>5, Zenon
<1>. HIDE DEF f
<1>9. f \in Bijection((c - M + 1)..c, top)
  <2>1. f \in Injection((c - M + 1)..c, top)
    BY <1>6, <1>8, Zenon DEF Injection, IsInjective
  <2>2. f \in Surjection((c - M + 1)..c, top)
    BY <1>7, <1>8, Zenon DEF Surjection
  <2>3. QED
    BY <2>1, <2>2, Zenon DEF Bijection
<1>10. IsFiniteSet((c - M + 1)..c) /\ Cardinality((c - M + 1)..c) = M
  <2>1. c - M + 1 \in Int /\ c \in Int
    BY <1>1
  <2>2. /\ IsFiniteSet((c - M + 1)..c)
        /\ Cardinality((c - M + 1)..c) = (IF c - M + 1 > c THEN 0 ELSE c - (c - M + 1) + 1)
    BY <2>1, FS_Interval, Zenon
  <2>3. QED
    BY <1>1, <2>2
<1>11. Cardinality(top) = M
  BY <1>9, <1>10, FS_Bijection, Zenon DEF ExistsBijection
<1>12. QED
  BY <1>11, Zenon DEF top

\* As many resolved blocks are picked as there are at the places picked.
LEMMA PickedResolved ==
    ASSUME NEW s \in Seq(Blocks), NEW I \in SUBSET (DOMAIN s)
    PROVE  Cardinality(Resolved(Pick(s, I))) = Cardinality(Resolved(s) \cap I)
<1>. DEFINE p == Pick(s, I)
            f == [n \in Resolved(p) |-> Nth(I, n)]
<1>0. DOMAIN p = 1..Cardinality(I) /\ Cardinality(I) \in Nat /\ Takes(p, s, I)
  BY Picked, Zenon
<1>. HIDE DEF p
<1>1. /\ \A n \in DOMAIN p : Nth(I, n) \in I /\ p[n] = s[Nth(I, n)]
      /\ \A m, n \in DOMAIN p : Nth(I, m) = Nth(I, n) => m = n
      /\ \A i \in I : \E n \in DOMAIN p : Nth(I, n) = i /\ p[n] = s[i]
  BY <1>0, Zenon DEF Takes
<1>2. Resolved(p) \in SUBSET (DOMAIN p)
  BY Zenon DEF Resolved
<1>3. \A n \in Resolved(p) : f[n] \in Resolved(s) \cap I
  BY <1>1, Zenon DEF Resolved
<1>4. \A m, n \in Resolved(p) : f[m] = f[n] => m = n
  BY <1>1, <1>2, Zenon
<1>5. \A i \in Resolved(s) \cap I : \E n \in Resolved(p) : f[n] = i
  BY <1>1, Zenon DEF Resolved
<1>6. f \in [Resolved(p) -> Resolved(s) \cap I]
  BY <1>3, Zenon
<1>. HIDE DEF f
<1>7. f \in Bijection(Resolved(p), Resolved(s) \cap I)
  <2>1. f \in Injection(Resolved(p), Resolved(s) \cap I)
    BY <1>4, <1>6, Zenon DEF Injection, IsInjective
  <2>2. f \in Surjection(Resolved(p), Resolved(s) \cap I)
    BY <1>5, <1>6, Zenon DEF Surjection
  <2>3. QED
    BY <2>1, <2>2, Zenon DEF Bijection
<1>8. IsFiniteSet(Resolved(p))
  <2>1. IsFiniteSet(DOMAIN p)
    BY <1>0, FS_Interval
  <2>2. QED
    BY <1>2, <2>1, FS_Subset, Zenon
<1>9. Cardinality(Resolved(p)) = Cardinality(Resolved(s) \cap I)
  BY <1>7, <1>8, FS_Bijection, Zenon DEF ExistsBijection
<1>10. QED
  BY <1>9 DEF p

\* What a rotation drops is resolved and older than all that stay resolved, as
\* was what had been dropped before: when a block older than those is resolved
\* after all, it is the next to go.
LEMMA RotationKeeps ==
    ASSUME NEW s \in Seq(Blocks), NEW done, MaxEntries \in Nat, book \in Seq(Decisions),
           \A m, n \in DOMAIN book : book[m] = book[n] => m = n,
           Ordered(s), Outcomes(s) \subseteq done,
           NEW Q \in SUBSET Resolved(s),
           \A m \in Dropped(s) :
                /\ MaxEntries # 0 /\ book[m] \in done /\ Cardinality(Q) = MaxEntries
                /\ \A i \in Q : \A n \in DOMAIN book : book[n] = s[i].decision => m < n
    PROVE  Ordered(ApplyRotation(s)) /\ Whole(ApplyRotation(s), done)
<1>. DEFINE I == Rotated(s)
            R == Resolved(s)
            p == ApplyRotation(s)
            top == {i \in R : Cardinality(Above(R, i)) < MaxEntries}
<1>1. PICK N \in Nat : DOMAIN s = 1..N
  BY LenProperties, Zenon
<1>2. PICK B \in Nat : DOMAIN book = 1..B
  BY LenProperties, Zenon
<1>3. I \in SUBSET (DOMAIN s) /\ R \in SUBSET (DOMAIN s) /\ p = Pick(s, I)
  BY Zenon DEF Rotated, Resolved, ApplyRotation
<1>4. /\ MaxEntries # 0 => I \cap R = top
      /\ \A i \in DOMAIN s : i \notin I =>
            i \in R /\ MaxEntries # 0 /\ ~ (Cardinality(Above(R, i)) < MaxEntries)
  BY Zenon DEF Rotated, Resolved, Above
<1>5. Cardinality(Resolved(p)) = Cardinality(R \cap I)
  BY <1>3, PickedResolved, Zenon
<1>. HIDE DEF I, R
<1>. HIDE DEF p
<1>6. /\ \A n \in DOMAIN p : Nth(I, n) \in I /\ p[n] = s[Nth(I, n)]
      /\ \A m, n \in DOMAIN p : m < n <=> Nth(I, m) < Nth(I, n)
      /\ \A i \in I : \E n \in DOMAIN p : p[n] = s[i]
  <2>1. Takes(p, s, I)
    BY <1>3, Picked, Zenon
  <2>2. QED
    BY <2>1, Zenon DEF Takes
<1>7. \A n \in DOMAIN p : Nth(I, n) \in DOMAIN s
  BY <1>3, <1>6, Zenon
<1>8. Ordered(p)
  <2>1. ASSUME NEW i \in DOMAIN p
        PROVE  \E m \in DOMAIN book : book[m] = p[i].decision
    <3>1. PICK m \in DOMAIN book : book[m] = s[Nth(I, i)].decision
      BY <1>7, Zenon DEF Ordered
    <3>2. QED
      BY <1>6, <3>1, Zenon
  <2>2. ASSUME NEW i \in DOMAIN p, NEW k \in DOMAIN p, NEW m \in DOMAIN book, NEW n \in DOMAIN book,
               i < k, book[m] = p[i].decision, book[n] = p[k].decision
        PROVE  m < n
    <3>1. Nth(I, i) < Nth(I, k) /\ book[m] = s[Nth(I, i)].decision /\ book[n] = s[Nth(I, k)].decision
      BY <1>6, <2>2, Zenon
    <3>2. Nth(I, i) \in DOMAIN s /\ Nth(I, k) \in DOMAIN s
      BY <1>7, Zenon
    <3>3. \A x, y \in DOMAIN s :
            x < y /\ book[m] = s[x].decision /\ book[n] = s[y].decision => m < n
      BY Zenon DEF Ordered
    <3>4. QED
      BY <3>1, <3>2, <3>3, Zenon
  <2>3. QED
    BY <2>1, <2>2, Zenon DEF Ordered
<1>9. R \in SUBSET (1..N) /\ IsFiniteSet(R) /\ Cardinality(R) \in Nat
  BY <1>1, <1>3, Ranks, Zenon
<1>10. \A i \in R : i \in Nat /\ i \in 1..N
  BY <1>9
<1>11. \A i \in R : IsFiniteSet(Above(R, i)) /\ Cardinality(Above(R, i)) \in Nat
  BY <1>9, <1>10, AboveCount, FS_CardinalityType, Zenon
<1>12. ASSUME MaxEntries # 0, MaxEntries <= Cardinality(R)
       PROVE  Cardinality(Resolved(p)) = MaxEntries
  <2>1. Cardinality(top) = MaxEntries
    BY <1>9, <1>12, Topmost, Zenon
  <2>2. R \cap I = top
    BY <1>4, <1>12, Zenon
  <2>3. QED
    BY <1>5, <2>1, <2>2, Zenon
<1>13. ASSUME MaxEntries # 0, NEW i \in Resolved(p)
       PROVE  /\ Nth(I, i) \in R /\ Nth(I, i) \in DOMAIN s /\ p[i] = s[Nth(I, i)]
              /\ Cardinality(Above(R, Nth(I, i))) < MaxEntries
  <2>1. i \in DOMAIN p /\ ~ p[i].pending
    BY Zenon DEF Resolved
  <2>2. Nth(I, i) \in I /\ Nth(I, i) \in DOMAIN s /\ p[i] = s[Nth(I, i)]
    BY <1>6, <1>7, <2>1, Zenon
  <2>3. Nth(I, i) \in R
    BY <2>1, <2>2, Zenon DEF R, Resolved
  <2>4. Nth(I, i) \in top
    BY <1>4, <1>13, <2>2, <2>3, Zenon
  <2>5. QED
    BY <2>2, <2>3, <2>4, Zenon
<1>. HIDE DEF top
<1>14. ASSUME NEW m \in Dropped(p), m \in Dropped(s)
       PROVE  /\ MaxEntries # 0 /\ book[m] \in done
              /\ Cardinality(Resolved(p)) = MaxEntries
              /\ \A i \in Resolved(p) : \A n \in DOMAIN book : book[n] = p[i].decision => m < n
  <2>1. /\ MaxEntries # 0 /\ book[m] \in done /\ Cardinality(Q) = MaxEntries
        /\ \A i \in Q : \A n \in DOMAIN book : book[n] = s[i].decision => m < n
    BY <1>14, Zenon
  <2>2. Q \in SUBSET R
    BY Zenon DEF R
  <2>3. MaxEntries <= Cardinality(R)
    BY <1>9, <2>1, <2>2, FS_Subset, Zenon
  <2>4. m \in DOMAIN book
    BY Zenon DEF Dropped
  <2>5. ASSUME NEW i \in Resolved(p), NEW n \in DOMAIN book, book[n] = p[i].decision
        PROVE  m < n
    <3>. DEFINE x == Nth(I, i)
    <3>1. /\ x \in R /\ x \in DOMAIN s /\ p[i] = s[x]
          /\ Cardinality(Above(R, x)) < MaxEntries
      BY <1>13, <2>1, Zenon
    <3>. HIDE DEF x
    <3>2. SUFFICES ASSUME ~ (m < n)
                   PROVE  FALSE
      OBVIOUS
    <3>3. ASSUME NEW q \in Q
          PROVE  q > x
      <4>1. q \in R /\ q \in DOMAIN s
        BY <1>3, <2>2, Zenon
      <4>2. PICK u \in DOMAIN book : book[u] = s[q].decision
        BY <4>1, Zenon DEF Ordered
      <4>3. m < u
        BY <2>1, <4>2, Zenon
      <4>4. u # n /\ ~ (u < n)
        BY <1>2, <2>4, <3>2, <4>3
      <4>5. q # x
        BY <2>5, <3>1, <4>2, <4>4, Zenon
      <4>6. ~ (q < x)
        BY <2>5, <3>1, <4>1, <4>2, <4>4, Zenon DEF Ordered
      <4>7. QED
        BY <1>10, <3>1, <4>1, <4>5, <4>6
    <3>4. Q \in SUBSET Above(R, x)
      BY <2>2, <3>3, Zenon DEF Above
    <3>5. IsFiniteSet(Above(R, x)) /\ Cardinality(Above(R, x)) \in Nat
      BY <1>11, <3>1, Zenon
    <3>6. Cardinality(Q) <= Cardinality(Above(R, x))
      BY <3>4, <3>5, FS_Subset, Zenon
    <3>7. QED
      BY <2>1, <3>1, <3>5, <3>6
  <2>6. QED
    BY <1>12, <2>1, <2>3, <2>5, Zenon
<1>15. ASSUME NEW m \in Dropped(p), m \notin Dropped(s)
       PROVE  /\ MaxEntries # 0 /\ book[m] \in done
              /\ Cardinality(Resolved(p)) = MaxEntries
              /\ \A i \in Resolved(p) : \A n \in DOMAIN book : book[n] = p[i].decision => m < n
  <2>1. m \in DOMAIN book
    BY Zenon DEF Dropped
  <2>2. PICK y \in DOMAIN s : s[y].decision = book[m]
    BY <1>15, <2>1, Zenon DEF Dropped
  <2>3. y \notin I
    BY <1>6, <2>2, Zenon DEF Dropped
  <2>4. y \in R /\ MaxEntries # 0 /\ ~ (Cardinality(Above(R, y)) < MaxEntries)
    BY <1>4, <2>3, Zenon
  <2>5. book[m] \in done
    <3>1. s[y].decision \in Outcomes(s)
      BY <2>4, Zenon DEF R, Outcomes
    <3>2. QED
      BY <2>2, <3>1, Zenon
  <2>6. MaxEntries <= Cardinality(R)
    <3>1. Above(R, y) \in SUBSET R
      BY Zenon DEF Above
    <3>2. Cardinality(Above(R, y)) <= Cardinality(R) /\ Cardinality(Above(R, y)) \in Nat
      BY <1>9, <1>11, <2>4, <3>1, FS_Subset, Zenon
    <3>3. QED
      BY <1>9, <2>4, <3>2
  <2>7. ASSUME NEW i \in Resolved(p), NEW n \in DOMAIN book, book[n] = p[i].decision
        PROVE  m < n
    <3>. DEFINE x == Nth(I, i)
    <3>1. /\ x \in R /\ x \in DOMAIN s /\ p[i] = s[x]
          /\ Cardinality(Above(R, x)) < MaxEntries
      BY <1>13, <2>4, Zenon
    <3>. HIDE DEF x
    <3>2. ~ (x < y)
      <4>1. SUFFICES ASSUME x < y
                     PROVE  FALSE
        OBVIOUS
      <4>2. \A k \in R : k > y => k > x
        BY <1>10, <2>4, <3>1, <4>1
      <4>3. Above(R, y) \in SUBSET Above(R, x)
        BY <4>2, Zenon DEF Above
      <4>4. IsFiniteSet(Above(R, x)) /\ Cardinality(Above(R, x)) \in Nat /\ Cardinality(Above(R, y)) \in Nat
        BY <1>11, <2>4, <3>1, Zenon
      <4>5. Cardinality(Above(R, y)) <= Cardinality(Above(R, x))
        BY <4>3, <4>4, FS_Subset, Zenon
      <4>6. QED
        BY <2>4, <3>1, <4>4, <4>5
    <3>3. x # y
      BY <2>4, <3>1, Zenon
    <3>4. y < x
      BY <1>10, <2>4, <3>1, <3>2, <3>3
    <3>5. QED
      BY <2>1, <2>2, <2>7, <3>1, <3>4, Zenon DEF Ordered
  <2>8. QED
    BY <1>12, <2>4, <2>5, <2>6, <2>7, Zenon
<1>16. Whole(p, done)
  BY <1>14, <1>15, Zenon DEF Whole
<1>17. QED
  BY <1>8, <1>16, Zenon DEF p

\* What the update makes of the log is whole again, with the outcomes it writes.
LEMMA UpdateKeeps ==
    ASSUME MaxEntries \in Nat, book \in Seq(Decisions),
           \A m, n \in DOMAIN book : book[m] = book[n] => m = n,
           NEW s \in Seq(Blocks), NEW ups \in Seq(Blocks), NEW done,
           Ordered(s), Whole(s, done)
    PROVE  /\ Ordered(ApplyRotation(Batch(s, ups)))
           /\ Whole(ApplyRotation(Batch(s, ups)), done \cup Outcomes(Batch(s, ups)))
<1>. DEFINE b == Batch(s, ups)
            all == done \cup Outcomes(b)
<1>1. /\ b \in Seq(Blocks) /\ DOMAIN b = DOMAIN s
      /\ \A i \in DOMAIN s :
            /\ b[i].decision = s[i].decision
            /\ i \notin Hits(s, ups) => b[i] = s[i]
            /\ i \in Hits(s, ups) => ~ b[i].pending
  BY Batched, ZenonT(40)
<1>2. Outcomes(b) \subseteq all
  BY Zenon
<1>. HIDE DEF b
<1>3. Ordered(b)
  BY <1>1, ZenonT(40) DEF Ordered
<1>4. Resolved(s) \in SUBSET Resolved(b)
  BY <1>1, Zenon DEF Resolved
<1>5. Dropped(b) = Dropped(s)
  BY <1>1, ZenonT(40) DEF Dropped
<1>6. \A i \in Resolved(s) : b[i].decision = s[i].decision
  BY <1>1, Zenon DEF Resolved
<1>7. \A m \in Dropped(b) :
        /\ MaxEntries # 0 /\ book[m] \in all /\ Cardinality(Resolved(s)) = MaxEntries
        /\ \A i \in Resolved(s) : \A n \in DOMAIN book : book[n] = b[i].decision => m < n
  BY <1>5, <1>6, Zenon DEF Whole
<1>. HIDE DEF all
<1>8. Ordered(ApplyRotation(b)) /\ Whole(ApplyRotation(b), all)
  BY <1>1, <1>2, <1>3, <1>4, <1>7, RotationKeeps, Zenon
<1>9. QED
  BY <1>8, Zenon DEF all, b

-----------------------------------------------------------------------------
(* Whose job it is                                                          *)

RunTyped ==
    /\ at \in [Workers -> Steps]
    /\ job \in [Workers -> Jobs \cup {NoJob}]
    /\ attempt \in [Jobs -> 0..MaxAttempts]
    /\ status \in [Jobs -> {"queued", "running", "completed", "failed"}]

\* The worker goes on with the job it has in hand.
Ends == {"idle", "publish"}
Moves(w) ==
    /\ at[w] \notin Ends
    /\ \E to \in Steps \ Ends : at' = [at EXCEPT ![w] = to]
    /\ UNCHANGED <<job, attempt, status>>

LEMMA StepNames ==
    /\ \A x \in Running \cup {"save", "upload", "complete"} : x \in Steps \ Ends
    /\ "idle" \in Steps /\ "publish" \in Steps /\ "resolve" \in Steps
    /\ "resolve" \notin Ends /\ "complete" \notin Ends
BY DEF Steps, Ends, Running

LEMMA Movers ==
    ASSUME RunTyped, NEW w \in Workers,
           LogStep(w) \/ RunGraph(w) \/ SaveReports(w) \/ UploadTree(w)
    PROVE  Moves(w)
<1>1. CASE LogStep(w)
  <2>1. UNCHANGED <<job, attempt, status>>
    BY <1>1 DEF LogStep, ReadPending, Reflect, ReadLog, OpenTmp, WriteTmp, Replace, FindPending, AppendDecision
  <2>2. \E from, to \in Running \cup {"save"} : at[w] = from /\ at' = [at EXCEPT ![w] = to]
    <3>1. ReadPending(w) \/ Reflect(w) \/ ReadLog(w) \/ OpenTmp(w) \/ WriteTmp(w) \/ Replace(w)
          \/ FindPending(w) \/ AppendDecision(w)
      BY <1>1, Zenon DEF LogStep
    <3>2. ReadPending(w) => at[w] = "resolve" /\ (\/ at' = [at EXCEPT ![w] = "graph"]
                                                  \/ at' = [at EXCEPT ![w] = "reflect"])
      BY DEF ReadPending, Goto
    <3>3. Reflect(w) => at[w] = "reflect" /\ (\/ at' = [at EXCEPT ![w] = "graph"]
                                              \/ at' = [at EXCEPT ![w] = "update"])
      BY DEF Reflect, Goto
    <3>4. ReadLog(w) => at[w] = "update" /\ at' = [at EXCEPT ![w] = "open"]
      BY DEF ReadLog, Goto
    <3>5. OpenTmp(w) => at[w] = "open" /\ at' = [at EXCEPT ![w] = "write"]
      BY DEF OpenTmp, Goto
    <3>6. WriteTmp(w) => at[w] = "write" /\ at' = [at EXCEPT ![w] = "replace"]
      BY DEF WriteTmp, Goto
    <3>7. Replace(w) => at[w] = "replace" /\ at' = [at EXCEPT ![w] = "graph"]
      BY DEF Replace, Goto
    <3>8. FindPending(w) => at[w] = "store" /\ (\/ at' = [at EXCEPT ![w] = "save"]
                                                \/ at' = [at EXCEPT ![w] = "append"])
      BY DEF FindPending, Goto
    <3>9. AppendDecision(w) => at[w] = "append" /\ at' = [at EXCEPT ![w] = "save"]
      BY DEF AppendDecision, Goto
    <3>10. {"resolve", "reflect", "update", "open", "write", "replace", "graph", "store", "append", "save"}
                \subseteq Running \cup {"save"}
      BY DEF Running
    <3>11. QED
      BY <3>1, <3>2, <3>3, <3>4, <3>5, <3>6, <3>7, <3>8, <3>9, <3>10, Zenon
  <2>3. QED
    BY <2>1, <2>2, StepNames, Zenon DEF Moves
<1>2. CASE RunGraph(w)
  <2>1. UNCHANGED <<job, attempt, status>>
    BY <1>2 DEF RunGraph
  <2>2. at[w] = "graph" /\ (at' = [at EXCEPT ![w] = "store"] \/ at' = [at EXCEPT ![w] = "save"])
    BY <1>2 DEF RunGraph, Goto
  <2>3. "graph" \in Running /\ "store" \in Running
    BY DEF Running
  <2>4. QED
    BY <2>1, <2>2, <2>3, StepNames, Zenon DEF Moves
<1>3. CASE SaveReports(w)
  <2>1. UNCHANGED <<job, attempt, status>>
    BY <1>3 DEF SaveReports
  <2>2. at[w] = "save" /\ (at' = [at EXCEPT ![w] = "upload"] \/ at' = [at EXCEPT ![w] = "complete"])
    BY <1>3 DEF SaveReports, Goto
  <2>3. QED
    BY <2>1, <2>2, StepNames, Zenon DEF Moves
<1>4. CASE UploadTree(w)
  <2>1. UNCHANGED <<job, attempt, status>>
    BY <1>4 DEF UploadTree
  <2>2. at[w] = "upload" /\ (at' = [at EXCEPT ![w] = "complete"] \/ at' = at)
    BY <1>4 DEF UploadTree
  <2>3. at = [at EXCEPT ![w] = at[w]]
    BY DEF RunTyped
  <2>4. QED
    BY <2>1, <2>2, <2>3, StepNames, Zenon DEF Moves
<1>5. QED
  BY <1>1, <1>2, <1>3, <1>4

\* The worker lets its job go.
Leaves(w) ==
    /\ at[w] # "idle"
    /\ at' = [at EXCEPT ![w] = "idle"]
    /\ job' = [job EXCEPT ![w] = NoJob]
    /\ UNCHANGED attempt
    /\ status' = status \/ status' = [status EXCEPT ![job[w]] = "failed"]

LEMMA Leavers ==
    ASSUME NEW w \in Workers, Publish(w) \/ Fail(w) \/ Crash(w)
    PROVE  Leaves(w) /\ Stop(w)
<1>1. Stop(w)
  BY DEF Publish, Fail, Crash
<1>2. status' = status \/ status' = [status EXCEPT ![job[w]] = "failed"]
  BY DEF Publish, Fail, Crash
<1>3. QED
  BY <1>1, <1>2 DEF Leaves, Stop

\* Every step is one of these.
LEMMA StepCases ==
    ASSUME RunTyped, [Next]_vars
    PROVE  \/ \E w \in Workers :
                \/ LogStep(w) /\ Moves(w)
                \/ RunGraph(w) /\ Moves(w)
                \/ SaveReports(w) /\ Moves(w)
                \/ UploadTree(w) /\ Moves(w)
                \/ Take(w) \/ Complete(w)
                \/ Leaves(w) /\ Stop(w)
           \/ \E j \in Jobs : Retry(j)
           \/ UNCHANGED vars
<1>1. CASE Next
  <2>1. ASSUME NEW w \in Workers,
               \/ Take(w) \/ LogStep(w) \/ RunGraph(w)
               \/ SaveReports(w) \/ UploadTree(w) \/ Complete(w) \/ Publish(w)
               \/ Fail(w) \/ Crash(w)
        PROVE  \/ LogStep(w) /\ Moves(w)
               \/ RunGraph(w) /\ Moves(w)
               \/ SaveReports(w) /\ Moves(w)
               \/ UploadTree(w) /\ Moves(w)
               \/ Take(w) \/ Complete(w)
               \/ Leaves(w) /\ Stop(w)
    BY <2>1, Movers, Leavers, Zenon
  <2>2. QED
    BY <1>1, <2>1, Zenon DEF Next
<1>2. CASE UNCHANGED vars
  BY <1>2
<1>3. QED
  BY <1>1, <1>2

LEMMA MoveRuns ==
    ASSUME RunTyped, Hands, NEW w \in Workers, Moves(w)
    PROVE  RunTyped' /\ Hands'
<1>1. PICK to \in Steps \ Ends : at' = [at EXCEPT ![w] = to]
  BY Zenon DEF Moves
<1>2. /\ at' \in [Workers -> Steps] /\ to # "idle" /\ to # "publish"
      /\ at[w] # "idle" /\ at[w] # "publish"
      /\ \A v \in Workers : at'[v] = (IF v = w THEN to ELSE at[v])
      /\ job' = job /\ attempt' = attempt /\ status' = status
  BY <1>1 DEF RunTyped, Moves, Ends
<1>3. RunTyped'
  BY <1>2 DEF RunTyped
<1>4. ASSUME NEW v \in Workers
      PROVE  (at'[v] = "idle" <=> at[v] = "idle") /\ (at'[v] = "publish" <=> at[v] = "publish")
  BY <1>2, Zenon
<1>5. Hands'
  BY <1>2, <1>4, Zenon DEF Hands
<1>6. QED
  BY <1>3, <1>5

LEMMA TakeRuns ==
    ASSUME RunTyped, Hands, NEW w \in Workers, Take(w)
    PROVE  RunTyped' /\ Hands'
<1>1. PICK j \in Jobs :
        /\ status[j] = "queued" /\ at[w] = "idle"
        /\ at' = [at EXCEPT ![w] = "resolve"]
        /\ status' = [status EXCEPT ![j] = "running"]
        /\ job' = [job EXCEPT ![w] = j]
        /\ attempt' = [attempt EXCEPT ![j] = @ + 1]
  BY Zenon DEF Take, Goto
<1>2. attempt[j] \in Nat /\ attempt[j] < MaxAttempts /\ MaxAttempts \in Nat
  BY <1>1, RunFilesAssumption DEF RunTyped, Hands
<1>3. attempt[j] + 1 \in 0..MaxAttempts /\ attempt[j] + 1 # 0
  BY <1>2
<1>4. /\ \A v \in Workers : at'[v] = (IF v = w THEN "resolve" ELSE at[v])
      /\ \A v \in Workers : job'[v] = (IF v = w THEN j ELSE job[v])
      /\ \A i \in Jobs : attempt'[i] = (IF i = j THEN attempt[j] + 1 ELSE attempt[i])
      /\ \A i \in Jobs : status'[i] = (IF i = j THEN "running" ELSE status[i])
  BY <1>1 DEF RunTyped
<1>5. RunTyped'
  BY <1>1, <1>3, StepNames DEF RunTyped
<1>6. ASSUME NEW v \in Workers, at'[v] # "idle"
      PROVE  /\ job'[v] \in Jobs /\ attempt'[job'[v]] # 0
             /\ status'[job'[v]] = (IF at'[v] = "publish" THEN "completed" ELSE "running")
             /\ v # w => at[v] # "idle" /\ job[v] # j
  <2>1. CASE v = w
    BY <1>3, <1>4, <2>1
  <2>2. CASE v # w
    <3>1. at'[v] = at[v] /\ job'[v] = job[v]
      BY <1>4, <2>2, Zenon
    <3>2. /\ job[v] \in Jobs /\ attempt[job[v]] # 0
          /\ status[job[v]] = (IF at[v] = "publish" THEN "completed" ELSE "running")
      BY <1>6, <3>1, Zenon DEF Hands
    <3>3. job[v] # j
      BY <1>1, <3>2
    <3>4. QED
      BY <1>4, <1>6, <3>1, <3>2, <3>3, Zenon
  <2>3. QED
    BY <2>1, <2>2
<1>7. ASSUME NEW u \in Workers, NEW v \in Workers,
             at'[u] # "idle", at'[v] # "idle", job'[u] = job'[v], u # v
      PROVE  FALSE
  <2>1. CASE u = w
    BY <1>4, <1>6, <1>7, <2>1, Zenon
  <2>2. CASE v = w
    BY <1>4, <1>6, <1>7, <2>2, Zenon
  <2>3. CASE u # w /\ v # w
    <3>1. at[u] # "idle" /\ at[v] # "idle" /\ job[u] = job[v]
      BY <1>4, <1>6, <1>7, <2>3, Zenon
    <3>2. QED
      BY <1>7, <3>1, Zenon DEF Hands
  <2>4. QED
    BY <2>1, <2>2, <2>3
<1>8. \A i \in Jobs : status'[i] = "queued" => attempt'[i] < MaxAttempts
  BY <1>4 DEF Hands
<1>9. \A i \in Jobs : status'[i] = "completed" => attempt'[i] # 0
  BY <1>4 DEF Hands
<1>10. QED
  BY <1>5, <1>6, <1>7, <1>8, <1>9, Zenon DEF Hands

LEMMA CompleteRuns ==
    ASSUME RunTyped, Hands, NEW w \in Workers, Complete(w)
    PROVE  RunTyped' /\ Hands'
<1>1. /\ at[w] = "complete" /\ at' = [at EXCEPT ![w] = "publish"]
      /\ status' = [status EXCEPT ![job[w]] = "completed"]
      /\ job' = job /\ attempt' = attempt
  BY DEF Complete, Goto
<1>2. job[w] \in Jobs /\ attempt[job[w]] # 0
  BY <1>1 DEF Hands
<1>3. /\ \A v \in Workers : at'[v] = (IF v = w THEN "publish" ELSE at[v])
      /\ \A i \in Jobs : status'[i] = (IF i = job[w] THEN "completed" ELSE status[i])
  BY <1>1, <1>2 DEF RunTyped
<1>4. RunTyped'
  BY <1>1, StepNames DEF RunTyped
<1>5. ASSUME NEW v \in Workers, at'[v] # "idle"
      PROVE  /\ job'[v] \in Jobs /\ attempt'[job'[v]] # 0
             /\ status'[job'[v]] = (IF at'[v] = "publish" THEN "completed" ELSE "running")
             /\ at[v] # "idle"
  <2>1. CASE v = w
    BY <1>1, <1>2, <1>3, <2>1
  <2>2. CASE v # w
    <3>1. at'[v] = at[v] /\ at[v] # "idle" /\ at[w] # "idle"
      BY <1>1, <1>3, <1>5, <2>2
    <3>2. job[v] \in Jobs /\ job[v] # job[w]
      BY <2>2, <3>1, Zenon DEF Hands
    <3>3. attempt[job[v]] # 0 /\ status[job[v]] = (IF at[v] = "publish" THEN "completed" ELSE "running")
      BY <3>1, Zenon DEF Hands
    <3>4. job'[v] = job[v] /\ attempt'[job[v]] = attempt[job[v]] /\ status'[job[v]] = status[job[v]]
      BY <1>1, <1>3, <3>2, Zenon
    <3>5. QED
      BY <3>1, <3>2, <3>3, <3>4, Zenon
  <2>3. QED
    BY <2>1, <2>2
<1>6. \A u, v \in Workers : at'[u] # "idle" /\ at'[v] # "idle" /\ job'[u] = job'[v] => u = v
  BY <1>1, <1>5, Zenon DEF Hands
<1>7. \A i \in Jobs : status'[i] = "queued" => attempt'[i] < MaxAttempts
  BY <1>1, <1>3 DEF Hands
<1>8. \A i \in Jobs : status'[i] = "completed" => attempt'[i] # 0
  BY <1>1, <1>2, <1>3 DEF Hands
<1>9. QED
  BY <1>4, <1>5, <1>6, <1>7, <1>8, Zenon DEF Hands

LEMMA LeaveRuns ==
    ASSUME RunTyped, Hands, NEW w \in Workers, Leaves(w)
    PROVE  RunTyped' /\ Hands'
<1>1. /\ at[w] # "idle" /\ at' = [at EXCEPT ![w] = "idle"]
      /\ job' = [job EXCEPT ![w] = NoJob] /\ attempt' = attempt
      /\ status' = status \/ status' = [status EXCEPT ![job[w]] = "failed"]
  BY DEF Leaves
<1>2. job[w] \in Jobs
  BY <1>1 DEF Hands
<1>3. /\ \A v \in Workers : at'[v] = (IF v = w THEN "idle" ELSE at[v])
      /\ \A v \in Workers : v # w => job'[v] = job[v]
      /\ \A i \in Jobs : i # job[w] => status'[i] = status[i]
      /\ status'[job[w]] = status[job[w]] \/ status'[job[w]] = "failed"
  BY <1>1, <1>2 DEF RunTyped
<1>4. RunTyped'
  <2>1. at' \in [Workers -> Steps]
    BY <1>1, StepNames DEF RunTyped
  <2>2. job' \in [Workers -> Jobs \cup {NoJob}]
    BY <1>1 DEF RunTyped
  <2>3. status' \in [Jobs -> {"queued", "running", "completed", "failed"}]
    BY <1>1 DEF RunTyped
  <2>4. QED
    BY <1>1, <2>1, <2>2, <2>3 DEF RunTyped
<1>5. ASSUME NEW v \in Workers, at'[v] # "idle"
      PROVE  v # w /\ at'[v] = at[v] /\ job'[v] = job[v] /\ job[v] # job[w] /\ job[v] \in Jobs
  <2>1. v # w
    BY <1>3, <1>5, Zenon
  <2>2. at'[v] = at[v] /\ job'[v] = job[v] /\ at[v] # "idle"
    BY <1>3, <1>5, <2>1, Zenon
  <2>3. QED
    BY <1>1, <2>1, <2>2, Zenon DEF Hands
<1>6. ASSUME NEW v \in Workers, at'[v] # "idle"
      PROVE  /\ job'[v] \in Jobs /\ attempt'[job'[v]] # 0
             /\ status'[job'[v]] = (IF at'[v] = "publish" THEN "completed" ELSE "running")
  <2>1. /\ at'[v] = at[v] /\ job'[v] = job[v] /\ at[v] # "idle"
        /\ job[v] \in Jobs /\ attempt'[job[v]] = attempt[job[v]] /\ status'[job[v]] = status[job[v]]
    BY <1>1, <1>3, <1>5, <1>6, Zenon
  <2>2. attempt[job[v]] # 0 /\ status[job[v]] = (IF at[v] = "publish" THEN "completed" ELSE "running")
    BY <2>1, Zenon DEF Hands
  <2>3. QED
    BY <2>1, <2>2, Zenon
<1>7. ASSUME NEW u \in Workers, NEW v \in Workers,
             at'[u] # "idle", at'[v] # "idle", job'[u] = job'[v]
      PROVE  u = v
  <2>1. at[u] # "idle" /\ at[v] # "idle" /\ job[u] = job[v]
    BY <1>5, <1>7, Zenon
  <2>2. QED
    BY <2>1, Zenon DEF Hands
<1>8. \A i \in Jobs : status'[i] # "failed" => status'[i] = status[i]
  BY <1>3, Zenon
<1>9. /\ \A i \in Jobs : status'[i] = "queued" => attempt'[i] < MaxAttempts
      /\ \A i \in Jobs : status'[i] = "completed" => attempt'[i] # 0
  BY <1>1, <1>8 DEF Hands
<1>10. QED
  BY <1>4, <1>6, <1>7, <1>9, Zenon DEF Hands

LEMMA RetryRuns ==
    ASSUME RunTyped, Hands, NEW j \in Jobs, Retry(j)
    PROVE  RunTyped' /\ Hands'
<1>1. /\ status[j] = "failed" /\ attempt[j] < MaxAttempts
      /\ status' = [status EXCEPT ![j] = "queued"]
      /\ at' = at /\ job' = job /\ attempt' = attempt
  BY DEF Retry
<1>2. \A i \in Jobs : status'[i] = (IF i = j THEN "queued" ELSE status[i])
  BY <1>1 DEF RunTyped
<1>3. RunTyped'
  BY <1>1 DEF RunTyped
<1>4. ASSUME NEW v \in Workers, at[v] # "idle"
      PROVE  job[v] \in Jobs /\ job[v] # j
  BY <1>1, <1>4 DEF Hands
<1>5. /\ \A v \in Workers : at'[v] # "idle" =>
            /\ job'[v] \in Jobs /\ attempt'[job'[v]] # 0
            /\ status'[job'[v]] = (IF at'[v] = "publish" THEN "completed" ELSE "running")
      /\ \A u, v \in Workers : at'[u] # "idle" /\ at'[v] # "idle" /\ job'[u] = job'[v] => u = v
  BY <1>1, <1>2, <1>4, ZenonT(40) DEF Hands
<1>6. /\ \A i \in Jobs : status'[i] = "queued" => attempt'[i] < MaxAttempts
      /\ \A i \in Jobs : status'[i] = "completed" => attempt'[i] # 0
  BY <1>1, <1>2 DEF Hands
<1>7. QED
  BY <1>3, <1>5, <1>6, Zenon DEF Hands

LEMMA RunsKept ==
    ASSUME RunTyped, Hands, [Next]_vars
    PROVE  RunTyped' /\ Hands'
<1>1. CASE UNCHANGED vars
  BY <1>1 DEF vars, runVars, RunTyped, Hands
<1>2. QED
  BY <1>1, StepCases, MoveRuns, TakeRuns, CompleteRuns, LeaveRuns, RetryRuns, Zenon

-----------------------------------------------------------------------------
(* The types of the log                                                     *)

LogTyped ==
    /\ log \in Seq(Blocks) /\ tmp \subseteq Seq(Blocks)
    /\ found \in [Workers -> Seq(Blocks)]
    /\ updates \in [Workers -> Seq(Blocks)]
    /\ text \in [Workers -> Seq(Blocks)]
    /\ fd \in [Workers -> {"tmp", "log", "gone"}]
    /\ stale \in [Workers -> BOOLEAN] /\ raced \in BOOLEAN /\ misread \in BOOLEAN
    /\ book \in Seq(Decisions) /\ settled \subseteq Decisions

LEMMA NoBlocks == <<>> \in Seq(Blocks)
BY EmptySeq, Zenon

\* What the worker holds in memory is of the right type, whatever becomes of it.
LEMMA HeldTyped ==
    ASSUME LogTyped, NEW w \in Workers, NEW s \in Seq(Blocks)
    PROVE  /\ [found EXCEPT ![w] = s] \in [Workers -> Seq(Blocks)]
           /\ [updates EXCEPT ![w] = s] \in [Workers -> Seq(Blocks)]
           /\ [text EXCEPT ![w] = s] \in [Workers -> Seq(Blocks)]
           /\ [stale EXCEPT ![w] = FALSE] \in [Workers -> BOOLEAN]
           /\ found[w] \in Seq(Blocks) /\ updates[w] \in Seq(Blocks) /\ text[w] \in Seq(Blocks)
           /\ [fd EXCEPT ![w] = "tmp"] \in [Workers -> {"tmp", "log", "gone"}]
           /\ [fd EXCEPT ![w] = "gone"] \in [Workers -> {"tmp", "log", "gone"}]
<1>1. /\ found \in [Workers -> Seq(Blocks)]
      /\ updates \in [Workers -> Seq(Blocks)]
      /\ text \in [Workers -> Seq(Blocks)]
      /\ stale \in [Workers -> BOOLEAN]
      /\ fd \in [Workers -> {"tmp", "log", "gone"}]
  BY Zenon DEF LogTyped
<1>. DEFINE S == Seq(Blocks)
<1>2. found \in [Workers -> S] /\ updates \in [Workers -> S] /\ text \in [Workers -> S] /\ s \in S
  BY <1>1
<1>. HIDE DEF S
<1>3. /\ [found EXCEPT ![w] = s] \in [Workers -> S]
      /\ [updates EXCEPT ![w] = s] \in [Workers -> S]
      /\ [text EXCEPT ![w] = s] \in [Workers -> S]
      /\ found[w] \in S /\ updates[w] \in S /\ text[w] \in S
  BY <1>2
<1>4. /\ [stale EXCEPT ![w] = FALSE] \in [Workers -> BOOLEAN]
      /\ [fd EXCEPT ![w] = "tmp"] \in [Workers -> {"tmp", "log", "gone"}]
      /\ [fd EXCEPT ![w] = "gone"] \in [Workers -> {"tmp", "log", "gone"}]
  BY <1>1
<1>5. QED
  BY <1>3, <1>4, Zenon DEF S

LEMMA ForgetTyped ==
    ASSUME LogTyped, NEW w \in Workers, Forget(w)
    PROVE  /\ found' \in [Workers -> Seq(Blocks)]
           /\ updates' \in [Workers -> Seq(Blocks)]
           /\ text' \in [Workers -> Seq(Blocks)]
<1>1. /\ found' = [found EXCEPT ![w] = <<>>]
      /\ updates' = [updates EXCEPT ![w] = <<>>]
      /\ text' = [text EXCEPT ![w] = <<>>]
  BY DEF Forget
<1>2. QED
  BY <1>1, NoBlocks, HeldTyped

LEMMA TouchedTyped ==
    ASSUME NEW w \in Workers, Touched(w)
    PROVE  /\ stale' \in [Workers -> BOOLEAN]
           /\ \A v \in Workers : stale'[v] <=> v # w
BY Zenon DEF Touched

\* The decision of the attempt in hand.
LEMMA DecisionTyped ==
    ASSUME RunTyped, Hands, NEW w \in Workers, at[w] # "idle"
    PROVE  Decision(w) \in Decisions /\ Pending(Decision(w)) \in Blocks
<1>1. job[w] \in Jobs /\ attempt[job[w]] # 0
  BY DEF Hands
<1>2. attempt[job[w]] \in 1..MaxAttempts
  BY <1>1, RunFilesAssumption DEF RunTyped
<1>3. Decision(w) \in Decisions
  BY <1>1, <1>2 DEF Decision, Decisions
<1>4. Pending(Decision(w)) \in Blocks
  BY <1>3, Zenon DEF Pending, Blocks
<1>5. QED
  BY <1>3, <1>4

LEMMA LogStepTyped ==
    ASSUME RunTyped, Hands, LogTyped, NEW w \in Workers, LogStep(w)
    PROVE  LogTyped'
<1>0. /\ log \in Seq(Blocks) /\ tmp \subseteq Seq(Blocks)
      /\ found \in [Workers -> Seq(Blocks)]
      /\ updates \in [Workers -> Seq(Blocks)]
      /\ text \in [Workers -> Seq(Blocks)]
      /\ fd \in [Workers -> {"tmp", "log", "gone"}]
      /\ stale \in [Workers -> BOOLEAN] /\ raced \in BOOLEAN /\ misread \in BOOLEAN
      /\ book \in Seq(Decisions) /\ settled \subseteq Decisions
      /\ found[w] \in Seq(Blocks) /\ updates[w] \in Seq(Blocks) /\ text[w] \in Seq(Blocks)
      /\ [stale EXCEPT ![w] = FALSE] \in [Workers -> BOOLEAN]
  BY HeldTyped, NoBlocks, Zenon DEF LogTyped
<1>1. CASE ReadPending(w)
  <2>. DEFINE mine == {i \in DOMAIN log : log[i].pending /\ Ticker(log[i]) = TickerOf[job[w]]}
  <2>1. /\ found' = [found EXCEPT ![w] = Pick(log, mine)]
        /\ stale' = [stale EXCEPT ![w] = FALSE]
        /\ UNCHANGED <<log, tmp, fd, updates, text, raced, misread, book, settled>>
    BY <1>1 DEF ReadPending
  <2>2. mine \in SUBSET (DOMAIN log)
    BY Zenon
  <2>. HIDE DEF mine
  <2>3. Pick(log, mine) \in Seq(Blocks)
    BY <1>0, <2>2, Picked, Zenon
  <2>4. found' \in [Workers -> Seq(Blocks)]
    BY <2>1, <2>3, HeldTyped, Zenon
  <2>5. QED
    BY <1>0, <2>1, <2>4, Zenon DEF LogTyped
<1>2. CASE Reflect(w)
  <2>1. PICK keys \in SUBSET {Key(found[w][i]) : i \in DOMAIN found[w]} :
            /\ updates' = [updates EXCEPT ![w] =
                              Pick(found[w], {i \in DOMAIN found[w] : Key(found[w][i]) \in keys})]
            /\ found' = [found EXCEPT ![w] = <<>>]
    BY <1>2, Zenon DEF Reflect
  <2>2. UNCHANGED <<log, tmp, fd, text, stale, raced, misread, book, settled>>
    BY <1>2 DEF Reflect
  <2>. DEFINE known == {i \in DOMAIN found[w] : Key(found[w][i]) \in keys}
  <2>3. known \in SUBSET (DOMAIN found[w])
    BY Zenon
  <2>4. updates' = [updates EXCEPT ![w] = Pick(found[w], known)]
    BY <2>1
  <2>. HIDE DEF known
  <2>5. Pick(found[w], known) \in Seq(Blocks)
    BY <1>0, <2>3, Picked, Zenon
  <2>6. updates' \in [Workers -> Seq(Blocks)]
    BY <2>4, <2>5, HeldTyped, Zenon
  <2>7. found' \in [Workers -> Seq(Blocks)]
    BY <2>1, HeldTyped, NoBlocks, Zenon
  <2>8. QED
    BY <1>0, <2>2, <2>6, <2>7, Zenon DEF LogTyped
<1>3. CASE ReadLog(w)
  <2>1. /\ text' = [text EXCEPT ![w] = ApplyRotation(Batch(log, updates[w]))]
        /\ misread' = (misread \/ stale[w])
        /\ stale' = [stale EXCEPT ![w] = FALSE]
        /\ UNCHANGED <<log, tmp, fd, found, updates, raced, book, settled>>
    BY <1>3 DEF ReadLog
  <2>2. text' \in [Workers -> Seq(Blocks)]
    BY <1>0, <2>1, BatchRotation, HeldTyped, Zenon
  <2>3. misread' \in BOOLEAN
    BY <2>1, Zenon
  <2>4. QED
    BY <1>0, <2>1, <2>2, <2>3, Zenon DEF LogTyped
<1>4. CASE OpenTmp(w)
  <2>1. /\ tmp' = {<<>>} /\ fd' = [fd EXCEPT ![w] = "tmp"]
        /\ UNCHANGED <<log, found, updates, text, stale, raced, misread, book, settled>>
    BY <1>4 DEF OpenTmp
  <2>2. tmp' \subseteq Seq(Blocks)
    BY <2>1, NoBlocks, Zenon
  <2>3. fd' \in [Workers -> {"tmp", "log", "gone"}]
    BY <2>1, HeldTyped, NoBlocks, Zenon
  <2>4. QED
    BY <1>0, <2>1, <2>2, <2>3, Zenon DEF LogTyped
<1>5. CASE WriteTmp(w)
  <2>1. /\ tmp' = (IF fd[w] = "tmp" THEN {text[w]} ELSE tmp)
        /\ log' = (IF fd[w] = "log" THEN text[w] ELSE log)
        /\ raced' = (raced \/ fd[w] = "log")
        /\ IF fd[w] = "log" THEN Touched(w) ELSE UNCHANGED stale
        /\ fd' = [fd EXCEPT ![w] = "gone"]
        /\ UNCHANGED <<found, updates, text, misread, book, settled>>
    BY <1>5 DEF WriteTmp
  <2>2. tmp' \subseteq Seq(Blocks) /\ log' \in Seq(Blocks)
    BY <1>0, <2>1, Zenon
  <2>3. stale' \in [Workers -> BOOLEAN] /\ raced' \in BOOLEAN
    BY <1>0, <2>1, TouchedTyped, Zenon
  <2>4. fd' \in [Workers -> {"tmp", "log", "gone"}]
    BY <2>1, HeldTyped, NoBlocks, Zenon
  <2>5. QED
    BY <1>0, <2>1, <2>2, <2>3, <2>4, Zenon DEF LogTyped
<1>6. CASE Replace(w)
  <2>1. /\ \E blocks \in tmp : log' = blocks
        /\ tmp' = {}
        /\ fd' = [v \in Workers |-> IF fd[v] = "tmp" THEN "log" ELSE "gone"]
        /\ raced' = (raced \/ stale[w] \/ tmp # {text[w]})
        /\ Touched(w) /\ Forget(w)
        /\ settled' = settled \cup Outcomes(Batch(log, updates[w]))
        /\ UNCHANGED <<misread, book>>
    BY <1>6 DEF Replace
  <2>2. log' \in Seq(Blocks) /\ tmp' \subseteq Seq(Blocks)
    BY <1>0, <2>1, Zenon
  <2>3. fd' \in [Workers -> {"tmp", "log", "gone"}]
    BY <2>1
  <2>4. stale' \in [Workers -> BOOLEAN] /\ raced' \in BOOLEAN
    BY <2>1, TouchedTyped, Zenon
  <2>5. /\ found' \in [Workers -> Seq(Blocks)]
        /\ updates' \in [Workers -> Seq(Blocks)]
        /\ text' \in [Workers -> Seq(Blocks)]
    BY <2>1, ForgetTyped, Zenon
  <2>. DEFINE b == Batch(log, updates[w])
  <2>6. b \in Seq(Blocks)
    BY <1>0, Batched, Zenon
  <2>. HIDE DEF b
  <2>7. Outcomes(b) \subseteq Decisions
    <3>1. \A i \in DOMAIN b : b[i].decision \in Decisions
      BY <2>6, BlockFields, Zenon
    <3>2. QED
      BY <3>1, Zenon DEF Outcomes, Resolved
  <2>8. settled' \subseteq Decisions
    BY <1>0, <2>1, <2>7, Zenon DEF b
  <2>9. QED
    BY <1>0, <2>1, <2>2, <2>3, <2>4, <2>5, <2>8, Zenon DEF LogTyped
<1>7. CASE FindPending(w)
  <2>1. /\ stale' = [stale EXCEPT ![w] = FALSE]
        /\ UNCHANGED <<log, tmp, fd, found, updates, text, raced, misread, book, settled>>
    BY <1>7 DEF FindPending
  <2>2. QED
    BY <1>0, <2>1, Zenon DEF LogTyped
<1>8. CASE AppendDecision(w)
  <2>1. /\ log' = Append(log, Pending(Decision(w)))
        /\ book' = Append(book, Decision(w))
        /\ raced' = (raced \/ stale[w]) /\ Touched(w)
        /\ UNCHANGED <<tmp, fd, found, updates, text, misread, settled>>
        /\ at[w] = "append"
    BY <1>8 DEF AppendDecision, Goto
  <2>2. at[w] # "idle"
    BY <2>1
  <2>3. Decision(w) \in Decisions /\ Pending(Decision(w)) \in Blocks
    BY <2>2, DecisionTyped, Zenon
  <2>4. log' \in Seq(Blocks) /\ book' \in Seq(Decisions)
    BY <1>0, <2>1, <2>3, AppendProperties, Zenon
  <2>5. stale' \in [Workers -> BOOLEAN] /\ raced' \in BOOLEAN
    BY <2>1, TouchedTyped, Zenon
  <2>6. QED
    BY <1>0, <2>1, <2>4, <2>5, Zenon DEF LogTyped
<1>9. QED
  BY <1>1, <1>2, <1>3, <1>4, <1>5, <1>6, <1>7, <1>8, Zenon DEF LogStep

LEMMA StopLogTyped ==
    ASSUME LogTyped, NEW w \in Workers, Stop(w)
    PROVE  LogTyped'
<1>1. /\ fd' = [fd EXCEPT ![w] = "gone"]
      /\ stale' = [stale EXCEPT ![w] = FALSE]
      /\ Forget(w)
      /\ UNCHANGED <<log, tmp, raced, misread, book, settled>>
  BY DEF Stop
<1>2. /\ found' \in [Workers -> Seq(Blocks)]
      /\ updates' \in [Workers -> Seq(Blocks)]
      /\ text' \in [Workers -> Seq(Blocks)]
  BY <1>1, ForgetTyped, Zenon
<1>3. stale' \in [Workers -> BOOLEAN] /\ fd' \in [Workers -> {"tmp", "log", "gone"}]
  BY <1>1, HeldTyped, NoBlocks, Zenon
<1>4. QED
  BY <1>1, <1>2, <1>3, Zenon DEF LogTyped

LEMMA LogKeepsType ==
    ASSUME RunTyped, Hands, LogTyped, [Next]_vars
    PROVE  LogTyped'
<1>1. ASSUME UNCHANGED logVars
      PROVE  LogTyped'
  <2>1. UNCHANGED <<log, tmp, fd, found, updates, text, stale, raced, misread, book, settled>>
    BY <1>1 DEF logVars
  <2>2. QED
    BY <2>1, Zenon DEF LogTyped
<1>2. ASSUME NEW w \in Workers, RunGraph(w) \/ SaveReports(w) \/ UploadTree(w) \/ Take(w) \/ Complete(w)
      PROVE  UNCHANGED logVars
  BY <1>2, Zenon DEF RunGraph, SaveReports, UploadTree, Take, Complete
<1>3. ASSUME NEW j \in Jobs, Retry(j)
      PROVE  UNCHANGED logVars
  BY <1>3, Zenon DEF Retry
<1>4. CASE UNCHANGED vars
  BY <1>1, <1>4 DEF vars
<1>5. QED
  BY <1>1, <1>2, <1>3, <1>4, StepCases, LogStepTyped, StopLogTyped, Zenon

-----------------------------------------------------------------------------
(* The types of the report trees                                            *)

ReportTyped ==
    /\ backend \in {"local", "s3"} /\ second \in 0..MaxSecond /\ shared \in BOOLEAN
    /\ path \in [Jobs -> {NoPath} \cup Dirs \cup {StorageKey(j) : j \in Jobs}]
    /\ saved \in [Workers -> {NoPath} \cup Dirs]
    /\ dirs \in [Dirs -> [Files -> Decisions \cup {Absent}]]
    /\ objects \in [Jobs -> [Files -> Decisions \cup {Absent}]]
    /\ todo \in [Workers -> SUBSET Files] /\ wrote \in [Jobs -> SUBSET Files]

LEMMA TypeParts == TypeOK <=> RunTyped /\ LogTyped /\ ReportTyped
BY Zenon DEF TypeOK, RunTyped, LogTyped, ReportTyped

\* The job in hand, its attempt and the tree that this attempt writes.
LEMMA InHand ==
    ASSUME RunTyped, Hands, NEW w \in Workers, at[w] # "idle"
    PROVE  /\ job[w] \in Jobs /\ attempt[job[w]] \in 1..MaxAttempts
           /\ TreeOf(job[w], attempt[job[w]]) \in SUBSET Files
           /\ TreeOf(job[w], attempt[job[w]]) # {}
           /\ Decision(w) = Version(job[w], attempt[job[w]])
           /\ Decision(w) \in Decisions
<1>1. job[w] \in Jobs /\ attempt[job[w]] # 0
  BY DEF Hands
<1>2. attempt[job[w]] \in 1..MaxAttempts
  BY <1>1, RunFilesAssumption DEF RunTyped
<1>3. /\ TreeOf(job[w], attempt[job[w]]) \in SUBSET Files
      /\ TreeOf(job[w], attempt[job[w]]) # {}
  BY <1>1, <1>2, RunFilesAssumption, Zenon
<1>4. Decision(w) = Version(job[w], attempt[job[w]])
  BY Zenon DEF Decision, Version
<1>5. QED
  BY <1>1, <1>2, <1>3, <1>4, DecisionTyped, Zenon

\* The directory a report is saved to, and what is there then.
Filed(w, s, dir, tree) ==
    /\ at[w] = "save" /\ at' = [at EXCEPT ![w] = IF backend = "s3" THEN "upload" ELSE "complete"]
    /\ s \in 1..MaxSecond /\ second' = s
    /\ dir \in Dirs /\ tree \in SUBSET Files /\ tree # {}
    /\ tree = TreeOf(job[w], attempt[job[w]])
    /\ dirs'[dir] = [f \in Files |-> IF f \in tree THEN Decision(w) ELSE dirs[dir][f]]
    /\ dirs' \in [Dirs -> [Files -> Decisions \cup {Absent}]]
    /\ \A d \in Dirs : d # dir => dirs'[d] = dirs[d]
    /\ saved' = [saved EXCEPT ![w] = dir]
    /\ todo' = [todo EXCEPT ![w] = {f \in Files : dirs'[dir][f] # Absent}]
    /\ wrote' = [wrote EXCEPT ![job[w]] = tree]
    /\ shared' = (shared \/ dirs[dir] # NoFiles)
    /\ UNCHANGED <<job, attempt, status, backend, path, objects>>

LEMMA Filing ==
    ASSUME RunTyped, Hands, ReportTyped, NEW w \in Workers, SaveReports(w)
    PROVE  \E s, dir, tree : Filed(w, s, dir, tree)
<1>. DEFINE tree == TreeOf(job[w], attempt[job[w]])
<1>1. PICK s \in {second, second + 1} \cap 1..MaxSecond :
        /\ Goto(w, "save", IF backend = "s3" THEN "upload" ELSE "complete")
        /\ second' = s
        /\ dirs' = [dirs EXCEPT ![<<TickerOf[job[w]], s>>] =
                        [f \in Files |-> IF f \in tree THEN Decision(w) ELSE @[f]]]
        /\ saved' = [saved EXCEPT ![w] = <<TickerOf[job[w]], s>>]
        /\ todo' = [todo EXCEPT ![w] = {f \in Files : dirs'[<<TickerOf[job[w]], s>>][f] # Absent}]
        /\ wrote' = [wrote EXCEPT ![job[w]] = tree]
        /\ shared' = (shared \/ dirs[<<TickerOf[job[w]], s>>] # NoFiles)
        /\ UNCHANGED <<job, attempt, status, backend, path, objects>>
  BY Zenon DEF SaveReports
<1>. DEFINE dir == <<TickerOf[job[w]], s>>
<1>2. at[w] = "save" /\ at' = [at EXCEPT ![w] = IF backend = "s3" THEN "upload" ELSE "complete"]
  BY <1>1, Zenon DEF Goto
<1>3. at[w] # "idle"
  BY <1>2
<1>4. job[w] \in Jobs /\ Decision(w) \in Decisions /\ tree \in SUBSET Files /\ tree # {}
  BY <1>3, InHand, Zenon
<1>5. s \in 1..MaxSecond /\ s \in 0..MaxSecond
  BY RunFilesAssumption
<1>6. dir \in Dirs
  BY <1>4, <1>5, Zenon DEF Dirs
<1>. HIDE DEF tree
<1>. DEFINE new == [f \in Files |-> IF f \in tree THEN Decision(w) ELSE dirs[dir][f]]
<1>7. dirs' = [dirs EXCEPT ![dir] = new]
  BY <1>1, Zenon
<1>. DEFINE Trees0 == [Files -> Decisions \cup {Absent}]
<1>8. new \in Trees0 /\ dirs \in [Dirs -> Trees0]
  BY <1>4, <1>6 DEF ReportTyped
<1>. HIDE DEF new, dir, Trees0
<1>9. /\ dirs'[dir] = new /\ dirs' \in [Dirs -> Trees0]
      /\ \A d \in Dirs : d # dir => dirs'[d] = dirs[d]
  BY <1>6, <1>7, <1>8
<1>10. Filed(w, s, dir, tree)
  BY <1>1, <1>2, <1>4, <1>5, <1>6, <1>9, Zenon DEF Filed, new, dir, Trees0, tree
<1>11. QED
  BY <1>10, Zenon

\* The file that is uploaded.
Sent(w, f, s3) ==
    /\ at[w] = "upload" /\ f \in todo[w] /\ f \in Files
    /\ objects' = [objects EXCEPT ![job[w]] = s3]
    /\ s3 = [objects[job[w]] EXCEPT ![f] = dirs[saved[w]][f]]
    /\ todo' = [todo EXCEPT ![w] = todo[w] \ {f}]
    /\ \/ /\ todo[w] \ {f} = {}
          /\ at' = [at EXCEPT ![w] = "complete"]
          /\ dirs' = dirs \/ dirs' = [dirs EXCEPT ![saved[w]] = NoFiles]
       \/ at' = at /\ dirs' = dirs
    /\ UNCHANGED <<job, attempt, status, backend, path, second, saved, wrote, shared>>

LEMMA Sending ==
    ASSUME RunTyped, Hands, ReportTyped, NEW w \in Workers, UploadTree(w)
    PROVE  \E f, s3 : Sent(w, f, s3)
<1>1. /\ at[w] = "upload"
      /\ UNCHANGED <<job, attempt, status, backend, path, second, saved, wrote, shared>>
  BY DEF UploadTree
<1>2. PICK f \in todo[w] :
        /\ objects' = [objects EXCEPT ![job[w]][f] = dirs[saved[w]][f]]
        /\ todo' = [todo EXCEPT ![w] = @ \ {f}]
  BY Zenon DEF UploadTree
<1>. DEFINE s3 == [objects[job[w]] EXCEPT ![f] = dirs[saved[w]][f]]
<1>3. objects' = [objects EXCEPT ![job[w]] = s3]
  BY <1>2, Zenon
<1>4. todo' = [todo EXCEPT ![w] = todo[w] \ {f}] /\ f \in Files /\ todo'[w] = todo[w] \ {f}
  BY <1>2 DEF ReportTyped
<1>5. \/ /\ todo'[w] = {}
         /\ at' = [at EXCEPT ![w] = "complete"]
         /\ dirs' = dirs \/ dirs' = [dirs EXCEPT ![saved[w]] = NoFiles]
      \/ at' = at /\ dirs' = dirs
  BY Zenon DEF UploadTree, DropLocal
<1>. HIDE DEF s3
<1>6. Sent(w, f, s3)
  BY <1>1, <1>3, <1>4, <1>5, Zenon DEF Sent, s3
<1>7. QED
  BY <1>6, Zenon

\* Before its report is saved a worker leaves the reports alone.
LEMMA Onward ==
    ASSUME RunTyped, NEW w \in Workers, LogStep(w) \/ RunGraph(w) \/ Take(w)
    PROVE  /\ UNCHANGED reportVars
           /\ \A v \in Workers : at'[v] \in {"upload", "complete"} => v # w /\ at'[v] = at[v]
<1>1. UNCHANGED reportVars
  BY Zenon DEF LogStep, RunGraph, Take
<1>2. \E to \in Running \cup {"save"} : at' = [at EXCEPT ![w] = to]
  <2>1. {"resolve", "reflect", "update", "open", "write", "replace", "graph", "store", "append"}
          \subseteq Running
    BY DEF Running
  <2>2. CASE LogStep(w)
    BY <2>1, <2>2, Zenon DEF LogStep, ReadPending, Reflect, ReadLog, OpenTmp, WriteTmp, Replace,
                             FindPending, AppendDecision, Goto
  <2>3. CASE RunGraph(w) \/ Take(w)
    BY <2>1, <2>3, Zenon DEF RunGraph, Take, Goto
  <2>4. QED
    BY <2>2, <2>3
<1>3. PICK to \in Running \cup {"save"} : at' = [at EXCEPT ![w] = to]
  BY <1>2
<1>4. to # "upload" /\ to # "complete"
  BY DEF Running
<1>5. \A v \in Workers : at'[v] \in {"upload", "complete"} => v # w /\ at'[v] = at[v]
  BY <1>3, <1>4 DEF RunTyped
<1>6. QED
  BY <1>1, <1>5

LEMMA ReportKeepsType ==
    ASSUME RunTyped, Hands, ReportTyped, Saved, [Next]_vars
    PROVE  ReportTyped' /\ Saved'
<1>1. ASSUME UNCHANGED reportVars,
             \A v \in Workers : at'[v] \in {"upload", "complete"} => at'[v] = at[v]
      PROVE  ReportTyped' /\ Saved'
  <2>1. UNCHANGED <<backend, path, second, dirs, saved, todo, objects, wrote, shared>>
    BY <1>1 DEF reportVars
  <2>2. ReportTyped'
    BY <2>1, Zenon DEF ReportTyped
  <2>3. ASSUME NEW v \in Workers
        PROVE  /\ at'[v] \in {"upload", "complete"} => saved'[v] \in Dirs
               /\ at'[v] = "upload" => backend' = "s3"
    <3>1. at'[v] = "upload" => at'[v] \in {"upload", "complete"}
      OBVIOUS
    <3>2. QED
      BY <1>1, <2>1, <3>1, Zenon DEF Saved
  <2>4. QED
    BY <2>2, <2>3, Zenon DEF Saved
<1>2. ASSUME NEW w \in Workers, LogStep(w) \/ RunGraph(w) \/ Take(w)
      PROVE  ReportTyped' /\ Saved'
  BY <1>1, <1>2, Onward, Zenon
<1>3. ASSUME NEW w \in Workers, SaveReports(w)
      PROVE  ReportTyped' /\ Saved'
  <2>1. PICK s, dir, tree : Filed(w, s, dir, tree)
    BY <1>3, Filing, Zenon
  <2>2. /\ second' \in 0..MaxSecond /\ shared' \in BOOLEAN /\ dir \in Dirs
        /\ dirs' \in [Dirs -> [Files -> Decisions \cup {Absent}]]
        /\ UNCHANGED <<backend, path, objects>>
    <3>1. /\ s \in 1..MaxSecond /\ second' = s
          /\ shared' = (shared \/ dirs[dir] # NoFiles) /\ dir \in Dirs
          /\ dirs' \in [Dirs -> [Files -> Decisions \cup {Absent}]]
          /\ UNCHANGED <<backend, path, objects>>
      BY <2>1, Zenon DEF Filed
    <3>2. s \in 0..MaxSecond
      BY <3>1, RunFilesAssumption
    <3>3. QED
      BY <3>1, <3>2, Zenon
  <2>3. saved' \in [Workers -> {NoPath} \cup Dirs]
        /\ \A v \in Workers : saved'[v] = (IF v = w THEN dir ELSE saved[v])
    BY <2>1, <2>2 DEF Filed, ReportTyped
  <2>4. todo' \in [Workers -> SUBSET Files] /\ wrote' \in [Jobs -> SUBSET Files]
    <3>1. todo' = [todo EXCEPT ![w] = {f \in Files : dirs'[dir][f] # Absent}]
          /\ wrote' = [wrote EXCEPT ![job[w]] = tree] /\ tree \in SUBSET Files
      BY <2>1, Zenon DEF Filed
    <3>2. {f \in Files : dirs'[dir][f] # Absent} \in SUBSET Files
      OBVIOUS
    <3>3. QED
      BY <3>1, <3>2 DEF ReportTyped
  <2>5. /\ \A v \in Workers : v # w => at'[v] = at[v]
        /\ at'[w] = "upload" => backend = "s3"
    BY <2>1 DEF Filed, RunTyped
  <2>6. ReportTyped'
    BY <2>2, <2>3, <2>4, Zenon DEF ReportTyped
  <2>7. Saved'
    BY <2>2, <2>3, <2>5, Zenon DEF Saved
  <2>8. QED
    BY <2>6, <2>7
<1>4. ASSUME NEW w \in Workers, UploadTree(w)
      PROVE  ReportTyped' /\ Saved'
  <2>1. PICK f, s3 : Sent(w, f, s3)
    BY <1>4, Sending, Zenon
  <2>2. at[w] = "upload" /\ at[w] # "idle" /\ at[w] \in {"upload", "complete"}
    BY <2>1 DEF Sent
  <2>3. saved[w] \in Dirs /\ job[w] \in Jobs
    BY <2>2, InHand, Zenon DEF Saved
  <2>. DEFINE T == Decisions \cup {Absent}
              F == [Files -> T]
  <2>4. dirs \in [Dirs -> F] /\ objects \in [Jobs -> F] /\ NoFiles \in F /\ f \in Files
    BY <2>1, Zenon DEF ReportTyped, Sent, NoFiles
  <2>. HIDE DEF T
  <2>5. dirs[saved[w]][f] \in T /\ objects[job[w]] \in F
    BY <2>3, <2>4
  <2>6. s3 \in F
    <3>1. s3 = [objects[job[w]] EXCEPT ![f] = dirs[saved[w]][f]]
      BY <2>1, Zenon DEF Sent
    <3>2. QED
      BY <2>5, <3>1
  <2>. HIDE DEF F
  <2>7. objects' \in [Jobs -> F]
    <3>1. objects' = [objects EXCEPT ![job[w]] = s3]
      BY <2>1, Zenon DEF Sent
    <3>2. QED
      BY <2>4, <2>6, <3>1
  <2>8. dirs' \in [Dirs -> F]
    <3>1. dirs' = dirs \/ dirs' = [dirs EXCEPT ![saved[w]] = NoFiles]
      BY <2>1, Zenon DEF Sent
    <3>2. QED
      BY <2>4, <3>1
  <2>9. todo' \in [Workers -> SUBSET Files]
    <3>1. todo' = [todo EXCEPT ![w] = todo[w] \ {f}]
      BY <2>1, Zenon DEF Sent
    <3>2. QED
      BY <3>1 DEF ReportTyped
  <2>10. UNCHANGED <<backend, path, second, saved, wrote, shared>>
    BY <2>1, Zenon DEF Sent
  <2>11. ReportTyped'
    BY <2>7, <2>8, <2>9, <2>10, Zenon DEF ReportTyped, F, T
  <2>12. \A v \in Workers : at'[v] \in {"upload", "complete"} =>
            at[v] \in {"upload", "complete"} /\ (at'[v] = "upload" => at[v] = "upload")
    BY <2>1, <2>2 DEF Sent, RunTyped
  <2>13. ASSUME NEW v \in Workers
         PROVE  /\ at'[v] \in {"upload", "complete"} => saved'[v] \in Dirs
                /\ at'[v] = "upload" => backend' = "s3"
    <3>1. at'[v] = "upload" => at'[v] \in {"upload", "complete"}
      OBVIOUS
    <3>2. QED
      BY <2>10, <2>12, <3>1, Zenon DEF Saved
  <2>14. Saved'
    BY <2>13, Zenon DEF Saved
  <2>15. QED
    BY <2>11, <2>14
<1>5. ASSUME NEW w \in Workers, Complete(w)
      PROVE  ReportTyped' /\ Saved'
  <2>1. /\ at[w] = "complete" /\ at' = [at EXCEPT ![w] = "publish"]
        /\ path' = [path EXCEPT ![job[w]] = IF backend = "s3" THEN StorageKey(job[w]) ELSE saved[w]]
        /\ UNCHANGED <<job, attempt, backend, second, dirs, saved, todo, objects, wrote, shared>>
    BY <1>5, Zenon DEF Complete, Goto
  <2>2. job[w] \in Jobs
    <3>1. at[w] # "idle"
      BY <2>1
    <3>2. QED
      BY <3>1, InHand, Zenon
  <2>. DEFINE P == {NoPath} \cup Dirs \cup {StorageKey(j) : j \in Jobs}
  <2>3. StorageKey(job[w]) \in P /\ saved[w] \in P
    BY <2>2, Zenon DEF ReportTyped
  <2>4. path \in [Jobs -> P]
    BY Zenon DEF ReportTyped
  <2>. HIDE DEF P
  <2>5. path' \in [Jobs -> P]
    BY <2>1, <2>3, <2>4
  <2>6. ReportTyped'
    BY <2>1, <2>5, Zenon DEF ReportTyped, P
  <2>7. \A v \in Workers : at'[v] \in {"upload", "complete"} => at'[v] = at[v]
    BY <2>1 DEF RunTyped
  <2>8. ASSUME NEW v \in Workers
        PROVE  /\ at'[v] \in {"upload", "complete"} => saved'[v] \in Dirs
               /\ at'[v] = "upload" => backend' = "s3"
    <3>1. at'[v] = "upload" => at'[v] \in {"upload", "complete"}
      OBVIOUS
    <3>2. QED
      BY <2>1, <2>7, <3>1, Zenon DEF Saved
  <2>9. QED
    BY <2>6, <2>8, Zenon DEF Saved
<1>6. ASSUME NEW w \in Workers, Leaves(w), Stop(w)
      PROVE  ReportTyped' /\ Saved'
  <2>1. /\ at' = [at EXCEPT ![w] = "idle"]
        /\ saved' = [saved EXCEPT ![w] = NoPath]
        /\ todo' = [todo EXCEPT ![w] = {}]
        /\ UNCHANGED <<backend, path, second, dirs, objects, wrote, shared>>
    BY <1>6, Zenon DEF Stop
  <2>2. /\ saved' \in [Workers -> {NoPath} \cup Dirs] /\ todo' \in [Workers -> SUBSET Files]
        /\ \A v \in Workers : v # w => saved'[v] = saved[v]
    BY <2>1 DEF ReportTyped
  <2>3. ReportTyped'
    BY <2>1, <2>2, Zenon DEF ReportTyped
  <2>4. \A v \in Workers : at'[v] # "idle" => v # w /\ at'[v] = at[v]
    BY <2>1 DEF RunTyped
  <2>5. ASSUME NEW v \in Workers
        PROVE  /\ at'[v] \in {"upload", "complete"} => saved'[v] \in Dirs
               /\ at'[v] = "upload" => backend' = "s3"
    <3>1. /\ at'[v] = "upload" => at'[v] \in {"upload", "complete"}
          /\ at'[v] \in {"upload", "complete"} => at'[v] # "idle"
      OBVIOUS
    <3>2. QED
      BY <2>1, <2>2, <2>4, <3>1, Zenon DEF Saved
  <2>6. QED
    BY <2>3, <2>5, Zenon DEF Saved
<1>7. ASSUME NEW j \in Jobs, Retry(j)
      PROVE  ReportTyped' /\ Saved'
  BY <1>1, <1>7, Zenon DEF Retry
<1>8. CASE UNCHANGED vars
  BY <1>1, <1>8 DEF vars, runVars
<1>9. QED
  BY <1>2, <1>3, <1>4, <1>5, <1>6, <1>7, <1>8, StepCases, Zenon

-----------------------------------------------------------------------------
(* The report of a job, from the directory to the bucket to the row         *)

\* What an attempt writes is told from an empty directory and from what the
\* other jobs write.
Tells(files, j, tree) ==
    /\ files # NoFiles
    /\ {f \in Files : files[f] # Absent} = tree
    /\ \A i, m, other : files = Content(i, m, other) => i = j

LEMMA ContentFacts ==
    ASSUME NEW j, NEW n \in Nat \ {0}, NEW tree \in SUBSET Files, tree # {}
    PROVE  Tells(Content(j, n, tree), j, tree)
<1>1. /\ \A f \in tree : f \in Files /\ Content(j, n, tree)[f] = Version(j, n)
      /\ \A f \in Files \ tree : Content(j, n, tree)[f] = Absent
  BY Zenon DEF Content
<1>2. Version(j, n) # Absent
  BY DEF Version, Absent
<1>3. PICK g \in tree : TRUE
  OBVIOUS
<1>4. NoFiles[g] = Absent
  BY <1>1, Zenon DEF NoFiles
<1>5. ASSUME NEW i, NEW m, NEW other, Content(j, n, tree) = Content(i, m, other)
      PROVE  i = j
  <2>1. Content(i, m, other)[g] = Version(i, m) \/ Content(i, m, other)[g] = Absent
    BY <1>1, Zenon DEF Content
  <2>2. Version(i, m) = Version(j, n)
    BY <1>1, <1>2, <1>5, <2>1, Zenon
  <2>3. QED
    BY <2>2 DEF Version
<1>6. {f \in Files : Content(j, n, tree)[f] # Absent} = tree
  BY <1>1, <1>2, Zenon
<1>7. QED
  BY <1>1, <1>2, <1>4, <1>5, <1>6, Zenon DEF Tells

\* Nothing of a report is touched.
Still ==
    /\ UNCHANGED <<backend, path, dirs, objects, wrote, shared>>
    /\ \A v \in Workers : at'[v] = "upload" \/ at'[v] = "complete" =>
        /\ at'[v] = at[v] /\ job'[v] = job[v] /\ saved'[v] = saved[v] /\ todo'[v] = todo[v]
        /\ attempt'[job[v]] = attempt[job[v]]
    /\ \A j \in Jobs : status'[j] = "completed" => status[j] = "completed" /\ attempt'[j] = attempt[j]

LEMMA StillTrees ==
    ASSUME Trees, Still
    PROVE  Trees'
<1>1. UNCHANGED <<backend, path, dirs, objects, wrote, shared>>
  BY Zenon DEF Still
<1>2. SUFFICES ASSUME ~ shared
               PROVE  (\A w \in Workers : WorkerTree(w)') /\ (\A j \in Jobs : JobTree(j)')
  BY <1>1, Zenon DEF Trees
<1>3. ASSUME NEW w \in Workers
      PROVE  WorkerTree(w)'
  <2>1. WorkerTree(w)
    BY <1>2, Zenon DEF Trees
  <2>2. CASE at'[w] = "upload" \/ at'[w] = "complete"
    <3>1. /\ at'[w] = at[w] /\ job'[w] = job[w] /\ saved'[w] = saved[w] /\ todo'[w] = todo[w]
          /\ attempt'[job[w]] = attempt[job[w]]
      BY <2>2, Zenon DEF Still
    <3>2. QED
      BY <1>1, <2>1, <3>1, Zenon DEF WorkerTree
  <2>3. CASE ~ (at'[w] = "upload" \/ at'[w] = "complete")
    BY <2>3, Zenon DEF WorkerTree
  <2>4. QED
    BY <2>2, <2>3, Zenon
<1>4. ASSUME NEW j \in Jobs
      PROVE  JobTree(j)'
  <2>1. JobTree(j)
    BY <1>2, Zenon DEF Trees
  <2>2. status'[j] = "completed" => status[j] = "completed" /\ attempt'[j] = attempt[j]
    BY Zenon DEF Still
  <2>3. QED
    BY <1>1, <2>1, <2>2, Zenon DEF JobTree
<1>5. QED
  BY <1>3, <1>4

LEMMA SaveTrees ==
    ASSUME RunTyped, Hands, ReportTyped, Saved, Trees, NEW w \in Workers, SaveReports(w)
    PROVE  Trees'
<1>1. PICK s, dir, tree : Filed(w, s, dir, tree)
  BY Filing, Zenon
<1>. DEFINE j == job[w]
            n == attempt[job[w]]
<1>2. /\ at[w] = "save" /\ at' = [at EXCEPT ![w] = IF backend = "s3" THEN "upload" ELSE "complete"]
      /\ dir \in Dirs /\ tree \in SUBSET Files /\ tree # {}
      /\ dirs'[dir] = [f \in Files |-> IF f \in tree THEN Decision(w) ELSE dirs[dir][f]]
      /\ \A d \in Dirs : d # dir => dirs'[d] = dirs[d]
      /\ saved' = [saved EXCEPT ![w] = dir]
      /\ todo' = [todo EXCEPT ![w] = {f \in Files : dirs'[dir][f] # Absent}]
      /\ wrote' = [wrote EXCEPT ![job[w]] = tree]
      /\ shared' = (shared \/ dirs[dir] # NoFiles)
      /\ UNCHANGED <<job, attempt, status, backend, path, objects>>
  BY <1>1, Zenon DEF Filed
<1>3. SUFFICES ASSUME ~ shared'
               PROVE  (\A v \in Workers : WorkerTree(v)') /\ (\A i \in Jobs : JobTree(i)')
  BY Zenon DEF Trees
<1>4. ~ shared /\ dirs[dir] = NoFiles
  BY <1>2, <1>3, Zenon
<1>5. at[w] # "idle" /\ at[w] # "publish"
  BY <1>2
<1>6. j \in Jobs /\ n \in Nat \ {0} /\ Decision(w) = Version(j, n)
  BY <1>5, InHand, RunFilesAssumption
<1>7. status[j] = "running"
  BY <1>5 DEF Hands
<1>8. dirs'[dir] = Content(j, n, tree)
  <2>1. \A f \in Files : dirs[dir][f] = Absent
    BY <1>4, Zenon DEF NoFiles
  <2>2. QED
    BY <1>2, <1>6, <2>1, Zenon DEF Content
<1>9. {f \in Files : dirs'[dir][f] # Absent} = tree
  <2>1. Tells(Content(j, n, tree), j, tree)
    BY <1>2, <1>6, ContentFacts, Zenon
  <2>2. QED
    BY <1>8, <2>1, Zenon DEF Tells
<1>10. /\ \A v \in Workers : v # w => at'[v] = at[v] /\ saved'[v] = saved[v] /\ todo'[v] = todo[v]
       /\ saved'[w] = dir
       /\ at'[w] = (IF backend = "s3" THEN "upload" ELSE "complete")
       /\ \A i \in Jobs : i # j => wrote'[i] = wrote[i]
       /\ wrote'[j] = tree
  BY <1>2, <1>6 DEF RunTyped, ReportTyped
<1>11. todo'[w] = tree
  BY <1>2, <1>9 DEF ReportTyped
<1>12. ASSUME NEW i \in Jobs, NEW m \in Nat \ {0}, wrote[i] # {}, NEW d \in Dirs,
              dirs[d] = Content(i, m, wrote[i])
       PROVE  dirs'[d] = dirs[d]
  <2>1. wrote[i] \in SUBSET Files
    BY DEF ReportTyped
  <2>2. Tells(Content(i, m, wrote[i]), i, wrote[i])
    BY <1>12, <2>1, ContentFacts, Zenon
  <2>3. QED
    BY <1>2, <1>4, <1>12, <2>2, Zenon DEF Tells
<1>13. ASSUME NEW v \in Workers
       PROVE  WorkerTree(v)'
  <2>1. CASE v = w
    <3>1. at'[w] = "upload" => backend = "s3"
      BY <1>10
    <3>2. at'[w] = "complete" => backend # "s3"
      BY <1>10
    <3>3. wrote'[j] # {} /\ dirs'[saved'[w]] = Content(j, n, wrote'[j]) /\ todo'[w] \subseteq wrote'[j]
      BY <1>2, <1>8, <1>10, <1>11, Zenon
    <3>4. Has(objects[j], wrote'[j] \ todo'[w], j, n)
      BY <1>10, <1>11, Zenon DEF Has
    <3>5. QED
      BY <1>2, <2>1, <3>2, <3>3, <3>4, Zenon DEF WorkerTree
  <2>2. CASE v # w
    <3>1. WorkerTree(v) /\ at'[v] = at[v] /\ saved'[v] = saved[v] /\ todo'[v] = todo[v]
      BY <1>4, <1>10, <2>2, Zenon DEF Trees
    <3>2. CASE at[v] = "upload" \/ at[v] = "complete"
      <4>1. at[v] # "idle"
        BY <3>2
      <4>2. job[v] \in Jobs /\ attempt[job[v]] \in Nat \ {0}
        BY <4>1, InHand, RunFilesAssumption
      <4>3. job[v] # j
        BY <1>5, <2>2, <4>1, Zenon DEF Hands
      <4>4. wrote'[job[v]] = wrote[job[v]]
        BY <1>10, <4>2, <4>3, Zenon
      <4>5. ASSUME at[v] = "upload" \/ (at[v] = "complete" /\ backend = "local")
            PROVE  dirs'[saved[v]] = dirs[saved[v]]
        <5>1. wrote[job[v]] # {} /\ dirs[saved[v]] = Content(job[v], attempt[job[v]], wrote[job[v]])
          BY <3>1, <4>5, Zenon DEF WorkerTree
        <5>2. at[v] \in {"upload", "complete"}
          BY <4>5
        <5>3. saved[v] \in Dirs
          BY <5>2, Zenon DEF Saved
        <5>4. QED
          BY <1>12, <4>2, <5>1, <5>3, Zenon
      <4>6. QED
        BY <1>2, <3>1, <4>4, <4>5, Zenon DEF WorkerTree
    <3>3. CASE ~ (at[v] = "upload" \/ at[v] = "complete")
      BY <3>1, <3>3, Zenon DEF WorkerTree
    <3>4. QED
      BY <3>2, <3>3
  <2>3. QED
    BY <2>1, <2>2
<1>14. ASSUME NEW i \in Jobs
       PROVE  JobTree(i)'
  <2>1. JobTree(i)
    BY <1>4, Zenon DEF Trees
  <2>2. CASE status[i] = "completed"
    <3>1. i # j
      BY <1>7, <2>2
    <3>2. attempt[i] \in Nat \ {0}
      BY <2>2, RunFilesAssumption DEF Hands, RunTyped
    <3>3. backend # "s3" => dirs'[path[i]] = dirs[path[i]]
      BY <1>12, <2>1, <2>2, <3>2, Zenon DEF JobTree
    <3>4. QED
      BY <1>2, <1>10, <2>1, <3>1, <3>3, Zenon DEF JobTree
  <2>3. CASE status[i] # "completed"
    BY <1>2, <2>1, <2>3, Zenon DEF JobTree
  <2>4. QED
    BY <2>2, <2>3
<1>15. QED
  BY <1>13, <1>14

LEMMA UploadTrees ==
    ASSUME RunTyped, Hands, ReportTyped, Saved, Trees, NEW w \in Workers, UploadTree(w)
    PROVE  Trees'
<1>1. PICK f, s3 : Sent(w, f, s3)
  BY Sending, Zenon
<1>. DEFINE j == job[w]
            n == attempt[job[w]]
<1>2. /\ at[w] = "upload" /\ f \in todo[w] /\ f \in Files
      /\ objects' = [objects EXCEPT ![j] = s3]
      /\ s3 = [objects[j] EXCEPT ![f] = dirs[saved[w]][f]]
      /\ todo' = [todo EXCEPT ![w] = todo[w] \ {f}]
      /\ \/ /\ todo[w] \ {f} = {}
            /\ at' = [at EXCEPT ![w] = "complete"]
            /\ dirs' = dirs \/ dirs' = [dirs EXCEPT ![saved[w]] = NoFiles]
         \/ at' = at /\ dirs' = dirs
      /\ UNCHANGED <<job, attempt, status, backend, path, saved, wrote, shared>>
  BY <1>1, Zenon DEF Sent
<1>3. SUFFICES ASSUME ~ shared
               PROVE  (\A v \in Workers : WorkerTree(v)') /\ (\A i \in Jobs : JobTree(i)')
  BY <1>2, Zenon DEF Trees
<1>4. at[w] # "idle" /\ at[w] # "publish" /\ at[w] \in {"upload", "complete"}
  BY <1>2
<1>5. /\ j \in Jobs /\ n \in Nat \ {0}
      /\ saved[w] \in Dirs
  BY <1>4, InHand, RunFilesAssumption DEF Saved
<1>6. status[j] = "running" /\ backend = "s3"
  BY <1>2, <1>4, Zenon DEF Hands, Saved
<1>7. /\ WorkerTree(w)
      /\ wrote[j] # {} /\ dirs[saved[w]] = Content(j, n, wrote[j])
      /\ todo[w] \subseteq wrote[j] /\ Has(objects[j], wrote[j] \ todo[w], j, n)
  BY <1>2, <1>3, Zenon DEF Trees, WorkerTree
<1>8. /\ dirs[saved[w]][f] = Version(j, n)
      /\ wrote[j] \in SUBSET Files
  BY <1>2, <1>5, <1>7, Zenon DEF Content, ReportTyped
<1>. DEFINE T == Decisions \cup {Absent}
            F == [Files -> T]
<1>9. objects \in [Jobs -> F] /\ dirs \in [Dirs -> F]
  BY Zenon DEF ReportTyped
<1>. HIDE DEF T
<1>10. /\ \A g \in Files : s3[g] = (IF g = f THEN Version(j, n) ELSE objects[j][g])
  BY <1>2, <1>5, <1>8, <1>9
<1>. HIDE DEF F
<1>11. /\ objects'[j] = s3
       /\ \A i \in Jobs : i # j => objects'[i] = objects[i]
  BY <1>2, <1>5, <1>9
<1>12. /\ todo'[w] = todo[w] \ {f}
       /\ \A v \in Workers : v # w => at'[v] = at[v] /\ todo'[v] = todo[v]
       /\ at'[w] = "upload" \/ (at'[w] = "complete" /\ todo[w] \ {f} = {})
       /\ at'[w] = "upload" => dirs' = dirs
  BY <1>2 DEF RunTyped, ReportTyped
<1>13. \A d \in Dirs : d # saved[w] => dirs'[d] = dirs[d]
  BY <1>2, <1>9
<1>14. Has(objects'[j], wrote[j] \ todo'[w], j, n)
  BY <1>7, <1>8, <1>10, <1>11, <1>12, Zenon DEF Has
<1>15. ASSUME NEW v \in Workers
       PROVE  WorkerTree(v)'
  <2>1. CASE v = w
    <3>1. CASE at'[w] = "upload"
      <4>1. /\ dirs'[saved[w]] = Content(j, n, wrote[j]) /\ todo'[w] \subseteq wrote[j]
            /\ at'[w] # "complete"
        BY <1>7, <1>12, <3>1
      <4>2. QED
        BY <1>2, <1>7, <1>14, <2>1, <4>1, Zenon DEF WorkerTree
    <3>2. CASE at'[w] = "complete" /\ todo[w] \ {f} = {}
      <4>1. Has(objects'[j], wrote[j], j, n)
        BY <1>12, <1>14, <3>2, Zenon DEF Has
      <4>2. backend # "local" /\ at'[w] # "upload"
        BY <1>6, <3>2
      <4>3. QED
        BY <1>2, <2>1, <4>1, <4>2, Zenon DEF WorkerTree
    <3>3. QED
      BY <1>12, <3>1, <3>2
  <2>2. CASE v # w
    <3>1. WorkerTree(v) /\ at'[v] = at[v] /\ todo'[v] = todo[v]
      BY <1>3, <1>12, <2>2, Zenon DEF Trees
    <3>2. CASE at[v] = "upload" \/ at[v] = "complete"
      <4>1. at[v] # "idle" /\ at[v] \in {"upload", "complete"}
        BY <3>2
      <4>2. job[v] \in Jobs /\ job[v] # j /\ saved[v] \in Dirs
        BY <1>4, <2>2, <4>1, Zenon DEF Hands, Saved
      <4>3. objects'[job[v]] = objects[job[v]] /\ backend # "local"
        BY <1>6, <1>11, <4>2
      <4>4. ASSUME at[v] = "upload"
            PROVE  dirs'[saved[v]] = dirs[saved[v]]
        <5>1. dirs[saved[v]] = Content(job[v], attempt[job[v]], wrote[job[v]])
          BY <3>1, <4>4, Zenon DEF WorkerTree
        <5>2. Tells(Content(j, n, wrote[j]), j, wrote[j])
          BY <1>5, <1>7, <1>8, ContentFacts, Zenon
        <5>3. saved[v] # saved[w]
          <6>1. ASSUME dirs[saved[v]] = dirs[saved[w]]
                PROVE  FALSE
            <7>1. Content(j, n, wrote[j]) = Content(job[v], attempt[job[v]], wrote[job[v]])
              BY <1>7, <5>1, <6>1, Zenon
            <7>2. job[v] = j
              BY <5>2, <7>1, Zenon DEF Tells
            <7>3. QED
              BY <4>2, <7>2, Zenon
          <6>2. QED
            BY <6>1, Zenon
        <5>4. QED
          BY <1>13, <4>2, <5>3, Zenon
      <4>5. QED
        BY <1>2, <3>1, <4>3, <4>4, Zenon DEF WorkerTree
    <3>3. CASE ~ (at[v] = "upload" \/ at[v] = "complete")
      BY <3>1, <3>3, Zenon DEF WorkerTree
    <3>4. QED
      BY <3>2, <3>3
  <2>3. QED
    BY <2>1, <2>2
<1>16. ASSUME NEW i \in Jobs
       PROVE  JobTree(i)'
  <2>1. JobTree(i)
    BY <1>3, Zenon DEF Trees
  <2>2. CASE i = j
    <3>1. status[i] # "completed"
      BY <1>6, <2>2
    <3>2. Version(j, n).job = j
      BY DEF Version
    <3>3. \A g \in Files : objects'[i][g] = Absent \/ objects'[i][g].job = i
      BY <1>10, <1>11, <2>1, <2>2, <3>2, Zenon DEF JobTree
    <3>4. QED
      BY <1>2, <3>1, <3>3, Zenon DEF JobTree
  <2>3. CASE i # j
    BY <1>2, <1>6, <1>11, <2>1, <2>3, Zenon DEF JobTree
  <2>4. QED
    BY <2>2, <2>3
<1>17. QED
  BY <1>15, <1>16

LEMMA CompleteTrees ==
    ASSUME RunTyped, Hands, ReportTyped, Saved, Trees, NEW w \in Workers, Complete(w)
    PROVE  Trees'
<1>. DEFINE j == job[w]
            n == attempt[job[w]]
<1>1. /\ at[w] = "complete" /\ at' = [at EXCEPT ![w] = "publish"]
      /\ status' = [status EXCEPT ![j] = "completed"]
      /\ path' = [path EXCEPT ![j] = IF backend = "s3" THEN StorageKey(j) ELSE saved[w]]
      /\ UNCHANGED <<job, attempt, backend, dirs, saved, todo, objects, wrote, shared>>
  BY Zenon DEF Complete, Goto
<1>2. SUFFICES ASSUME ~ shared
               PROVE  (\A v \in Workers : WorkerTree(v)') /\ (\A i \in Jobs : JobTree(i)')
  BY <1>1, Zenon DEF Trees
<1>3. at[w] # "idle" /\ at[w] \in {"upload", "complete"}
  BY <1>1
<1>4. j \in Jobs /\ saved[w] \in Dirs
  BY <1>3, InHand, Zenon DEF Saved
<1>5. /\ at'[w] # "upload" /\ at'[w] # "complete"
      /\ \A v \in Workers : v # w => at'[v] = at[v]
  BY <1>1 DEF RunTyped
<1>6. /\ path'[j] = (IF backend = "s3" THEN StorageKey(j) ELSE saved[w])
      /\ \A i \in Jobs : i # j => path'[i] = path[i] /\ status'[i] = status[i]
  BY <1>1, <1>4 DEF RunTyped, ReportTyped
<1>7. ASSUME NEW v \in Workers
      PROVE  WorkerTree(v)'
  <2>1. WorkerTree(v)
    BY <1>2, Zenon DEF Trees
  <2>2. QED
    BY <1>1, <1>5, <2>1, Zenon DEF WorkerTree
<1>8. ASSUME NEW i \in Jobs
      PROVE  JobTree(i)'
  <2>1. JobTree(i) /\ WorkerTree(w)
    BY <1>2, Zenon DEF Trees
  <2>2. CASE i = j
    <3>1. backend = "s3" \/ backend = "local"
      BY DEF ReportTyped
    <3>2. CASE backend = "s3"
      BY <1>1, <1>6, <2>1, <2>2, <3>2, Zenon DEF JobTree, WorkerTree
    <3>3. CASE backend = "local"
      <4>1. backend # "s3"
        BY <3>3
      <4>2. QED
        BY <1>1, <1>4, <1>6, <2>1, <2>2, <3>3, <4>1, Zenon DEF JobTree, WorkerTree
    <3>4. QED
      BY <3>1, <3>2, <3>3
  <2>3. CASE i # j
    BY <1>1, <1>6, <2>1, <2>3, Zenon DEF JobTree
  <2>4. QED
    BY <2>2, <2>3
<1>9. QED
  BY <1>7, <1>8

LEMMA TreesKept ==
    ASSUME RunTyped, Hands, ReportTyped, Saved, Trees, [Next]_vars
    PROVE  Trees'
<1>1. ASSUME NEW v \in Workers, at'[v] = "upload" \/ at'[v] = "complete"
      PROVE  at'[v] \in {"upload", "complete"} /\ at'[v] # "idle"
  BY <1>1
<1>2. ASSUME NEW w \in Workers, Moves(w), LogStep(w) \/ RunGraph(w)
      PROVE  Trees'
  <2>1. /\ UNCHANGED reportVars
        /\ \A v \in Workers : at'[v] \in {"upload", "complete"} => at'[v] = at[v]
    BY <1>2, Onward, Zenon
  <2>2. UNCHANGED <<job, attempt, status, backend, path, dirs, saved, todo, objects, wrote, shared>>
    BY <1>2, <2>1, Zenon DEF Moves, reportVars
  <2>3. Still
    BY <1>1, <2>1, <2>2, Zenon DEF Still
  <2>4. QED
    BY <2>3, StillTrees, Zenon
<1>3. ASSUME NEW w \in Workers, Take(w)
      PROVE  Trees'
  <2>1. /\ UNCHANGED reportVars
        /\ \A v \in Workers : at'[v] \in {"upload", "complete"} => v # w /\ at'[v] = at[v]
    BY <1>3, Onward, Zenon
  <2>2. PICK j \in Jobs :
            /\ status[j] = "queued"
            /\ status' = [status EXCEPT ![j] = "running"]
            /\ job' = [job EXCEPT ![w] = j]
            /\ attempt' = [attempt EXCEPT ![j] = @ + 1]
    BY <1>3, Zenon DEF Take
  <2>3. /\ \A v \in Workers : v # w => job'[v] = job[v]
        /\ \A i \in Jobs : i # j => attempt'[i] = attempt[i] /\ status'[i] = status[i]
        /\ status'[j] = "running"
    BY <2>2 DEF RunTyped
  <2>4. ASSUME NEW v \in Workers, at[v] = "upload" \/ at[v] = "complete"
        PROVE  attempt'[job[v]] = attempt[job[v]]
    <3>1. at[v] # "idle" /\ at[v] # "publish"
      BY <2>4
    <3>2. job[v] \in Jobs /\ status[job[v]] = "running"
      BY <3>1 DEF Hands
    <3>3. job[v] # j
      BY <2>2, <3>2
    <3>4. QED
      BY <2>3, <3>2, <3>3, Zenon
  <2>5. UNCHANGED <<backend, path, dirs, saved, todo, objects, wrote, shared>>
    BY <2>1, Zenon DEF reportVars
  <2>6. \A i \in Jobs : status'[i] = "completed" => status[i] = "completed" /\ attempt'[i] = attempt[i]
    BY <2>3
  <2>7. Still
    BY <1>1, <2>1, <2>3, <2>4, <2>5, <2>6, Zenon DEF Still
  <2>8. QED
    BY <2>7, StillTrees, Zenon
<1>4. ASSUME NEW w \in Workers, Leaves(w), Stop(w)
      PROVE  Trees'
  <2>1. /\ at[w] # "idle"
        /\ at' = [at EXCEPT ![w] = "idle"] /\ job' = [job EXCEPT ![w] = NoJob]
        /\ saved' = [saved EXCEPT ![w] = NoPath] /\ todo' = [todo EXCEPT ![w] = {}]
        /\ status' = status \/ status' = [status EXCEPT ![job[w]] = "failed"]
        /\ UNCHANGED <<attempt, backend, path, dirs, objects, wrote, shared>>
    BY <1>4, Zenon DEF Leaves, Stop
  <2>2. /\ at'[w] = "idle"
        /\ \A v \in Workers : v # w =>
            at'[v] = at[v] /\ job'[v] = job[v] /\ saved'[v] = saved[v] /\ todo'[v] = todo[v]
    BY <2>1 DEF RunTyped, ReportTyped
  <2>3. \A i \in Jobs : status'[i] = "completed" => status[i] = "completed"
    BY <2>1 DEF RunTyped
  <2>4. Still
    BY <1>1, <2>1, <2>2, <2>3, Zenon DEF Still
  <2>5. QED
    BY <2>4, StillTrees, Zenon
<1>5. ASSUME NEW j \in Jobs, Retry(j)
      PROVE  Trees'
  <2>1. /\ status' = [status EXCEPT ![j] = "queued"]
        /\ UNCHANGED <<at, job, attempt, backend, path, dirs, saved, todo, objects, wrote, shared>>
    BY <1>5, Zenon DEF Retry, reportVars
  <2>2. \A i \in Jobs : status'[i] = "completed" => status[i] = "completed"
    BY <2>1 DEF RunTyped
  <2>3. Still
    BY <2>1, <2>2, Zenon DEF Still
  <2>4. QED
    BY <2>3, StillTrees, Zenon
<1>6. CASE UNCHANGED vars
  <2>1. UNCHANGED <<at, job, attempt, status, backend, path, dirs, saved, todo, objects, wrote, shared>>
    BY <1>6 DEF vars, runVars, reportVars
  <2>2. Still
    BY <2>1, Zenon DEF Still
  <2>3. QED
    BY <2>2, StillTrees, Zenon
<1>7. QED
  BY <1>2, <1>3, <1>4, <1>5, <1>6, SaveTrees, UploadTrees, CompleteTrees, StepCases, Zenon

-----------------------------------------------------------------------------
(* A decision is stored once                                                *)

\* t is s with e at its end, at the place z.
Extends(t, s, e, z) ==
    /\ z \in Nat /\ z \notin DOMAIN s
    /\ \A i \in DOMAIN t : i \in DOMAIN s \/ i = z
    /\ z \in DOMAIN t /\ t[z] = e
    /\ \A i \in DOMAIN s : i \in DOMAIN t /\ t[i] = s[i] /\ i < z /\ ~ (z < i)
    /\ ~ (z < z)

LEMMA Appended ==
    ASSUME NEW T, NEW s \in Seq(T), NEW e \in T
    PROVE  \E z : Extends(Append(s, e), s, e, z)
<1>. DEFINE z == Len(s) + 1
            t == Append(s, e)
<1>1. /\ Len(s) \in Nat /\ DOMAIN s = 1..Len(s)
      /\ t \in Seq(T) /\ Len(t) = Len(s) + 1 /\ DOMAIN t = 1..Len(t)
      /\ \A i \in 1..Len(s) : t[i] = s[i]
      /\ t[Len(s) + 1] = e
  BY AppendProperties, LenProperties
<1>. HIDE DEF t
<1>2. Extends(t, s, e, z)
  BY <1>1 DEF Extends
<1>3. QED
  BY <1>2, Zenon DEF t

LEMMA BookStill ==
    ASSUME Book, book' = book, attempt' = attempt,
           \A v \in Workers : at'[v] \in Running => at[v] \in Running /\ job'[v] = job[v]
    PROVE  Book'
BY Zenon DEF Book, Decision

\* Attempts are told apart: the next one has stored nothing yet.
LEMMA TakeBook ==
    ASSUME RunTyped, Hands, LogTyped, Book, NEW w \in Workers, Take(w)
    PROVE  Book'
<1>1. PICK j \in Jobs :
        /\ status[j] = "queued"
        /\ at' = [at EXCEPT ![w] = "resolve"]
        /\ job' = [job EXCEPT ![w] = j]
        /\ attempt' = [attempt EXCEPT ![j] = @ + 1]
  BY Zenon DEF Take, Goto
<1>2. /\ job'[w] = j
      /\ \A v \in Workers : v # w => at'[v] = at[v] /\ job'[v] = job[v]
      /\ attempt[j] \in Nat /\ attempt'[j] = attempt[j] + 1
      /\ \A i \in Jobs : i # j => attempt'[i] = attempt[i]
      /\ \A i \in Jobs : attempt[i] \in Nat
  BY <1>1, RunFilesAssumption DEF RunTyped
<1>3. book' = book
  BY Zenon DEF Take, logVars
<1>4. \A m \in DOMAIN book : /\ book[m].job \in Jobs /\ book[m].attempt \in Nat
                             /\ book[m].attempt <= attempt[book[m].job]
  <2>1. \A m \in DOMAIN book : book[m] \in Decisions
    BY ElementOfSeq, LenProperties DEF LogTyped
  <2>2. \A m \in DOMAIN book : book[m].job \in Jobs /\ book[m].attempt \in Nat
    BY <2>1, RunFilesAssumption DEF Decisions
  <2>3. QED
    BY <2>2, Zenon DEF Book
<1>5. \A m \in DOMAIN book : book[m].attempt <= attempt'[book[m].job]
  BY <1>2, <1>4
<1>6. \A m \in DOMAIN book : book[m].job = j => book[m].attempt # attempt'[j]
  BY <1>2, <1>4
<1>7. ASSUME NEW v \in Workers, at'[v] \in Running, NEW m \in DOMAIN book
      PROVE  book[m] # Decision(v)'
  <2>1. CASE v = w
    <3>1. Decision(v)' = [job |-> j, attempt |-> attempt'[j]]
      BY <1>2, <2>1, Zenon DEF Decision
    <3>2. QED
      BY <1>6, <3>1
  <2>2. CASE v # w
    <3>1. at[v] \in Running /\ at'[v] = at[v] /\ job'[v] = job[v]
      BY <1>2, <1>7, <2>2, Zenon
    <3>2. at[v] # "idle" /\ at[v] # "publish"
      BY <3>1 DEF Running
    <3>3. job[v] \in Jobs /\ job[v] # j
      BY <1>1, <3>2 DEF Hands
    <3>4. Decision(v)' = Decision(v)
      BY <1>2, <3>1, <3>3 DEF Decision
    <3>5. QED
      BY <3>1, <3>4, Zenon DEF Book
  <2>3. QED
    BY <2>1, <2>2
<1>8. QED
  BY <1>3, <1>5, <1>7, Zenon DEF Book

LEMMA AppendBook ==
    ASSUME RunTyped, Hands, LogTyped, Book, NEW w \in Workers, AppendDecision(w)
    PROVE  Book'
<1>1. /\ at[w] = "append" /\ at' = [at EXCEPT ![w] = "save"]
      /\ book' = Append(book, Decision(w))
      /\ UNCHANGED <<job, attempt>>
  BY DEF AppendDecision, Goto
<1>2. /\ at[w] # "idle" /\ at[w] \in Running /\ at'[w] \notin Running
      /\ \A v \in Workers : v # w => at'[v] = at[v]
  BY <1>1 DEF RunTyped, Running
<1>3. Decision(w) \in Decisions /\ book \in Seq(Decisions)
  BY <1>2, DecisionTyped, Zenon DEF LogTyped
<1>4. PICK z : Extends(book', book, Decision(w), z)
  BY <1>1, <1>3, Appended, Zenon
<1>5. /\ \A m \in DOMAIN book' : m \in DOMAIN book \/ m = z
      /\ book'[z] = Decision(w) /\ \A m \in DOMAIN book : book'[m] = book[m]
  BY <1>4, Zenon DEF Extends
<1>6. \A m \in DOMAIN book : book[m] # Decision(w)
  BY <1>2, Zenon DEF Book
<1>7. \A m, n \in DOMAIN book' : book'[m] = book'[n] => m = n
  BY <1>5, <1>6, Zenon DEF Book
<1>8. \A m \in DOMAIN book' : book'[m].attempt <= attempt[book'[m].job]
  <2>1. Decision(w).attempt = attempt[Decision(w).job] /\ Decision(w).attempt \in Nat
    <3>1. Decision(w).job = job[w] /\ Decision(w).attempt = attempt[job[w]]
      BY DEF Decision
    <3>2. attempt[job[w]] \in 1..MaxAttempts
      BY <1>2, InHand, Zenon
    <3>3. QED
      BY <3>1, <3>2, RunFilesAssumption
  <2>2. Decision(w).attempt <= attempt[Decision(w).job]
    BY <2>1
  <2>3. QED
    BY <1>5, <2>2, Zenon DEF Book
<1>9. ASSUME NEW v \in Workers, at'[v] \in Running, NEW m \in DOMAIN book'
      PROVE  book'[m] # Decision(v)'
  <2>1. v # w /\ at[v] \in Running
    BY <1>2, <1>9, Zenon
  <2>2. at[v] # "idle"
    BY <2>1 DEF Running
  <2>3. job[v] # job[w]
    BY <1>2, <2>1, <2>2, Zenon DEF Hands
  <2>4. Decision(v) # Decision(w) /\ Decision(v)' = Decision(v)
    BY <1>1, <2>3 DEF Decision
  <2>5. \A n \in DOMAIN book : book[n] # Decision(v)
    BY <2>1, Zenon DEF Book
  <2>6. QED
    BY <1>5, <2>4, <2>5, Zenon
<1>10. QED
  BY <1>1, <1>7, <1>8, <1>9, Zenon DEF Book

LEMMA BookKept ==
    ASSUME RunTyped, Hands, LogTyped, Book, [Next]_vars
    PROVE  Book'
<1>1. {"resolve", "reflect", "update", "open", "write", "replace", "graph", "store", "append"}
        \subseteq Running
  BY DEF Running
<1>2. ASSUME NEW w \in Workers, NEW to, at' = [at EXCEPT ![w] = to], to \in Running => at[w] \in Running,
             UNCHANGED <<job, attempt, book>>
      PROVE  Book'
  <2>1. \A v \in Workers : at'[v] = (IF v = w THEN to ELSE at[v])
    BY <1>2 DEF RunTyped
  <2>2. QED
    BY <1>2, <2>1, BookStill, Zenon
<1>3. ASSUME NEW w \in Workers, LogStep(w) \/ RunGraph(w), ~ AppendDecision(w)
      PROVE  Book'
  <2>1. at[w] \in Running /\ UNCHANGED <<job, attempt, book>> /\ \E to : at' = [at EXCEPT ![w] = to]
    BY <1>1, <1>3, Zenon DEF LogStep, ReadPending, Reflect, ReadLog, OpenTmp, WriteTmp, Replace,
                             FindPending, RunGraph, Goto, logVars
  <2>2. QED
    BY <1>2, <2>1, Zenon
<1>4. ASSUME NEW w \in Workers, SaveReports(w) \/ UploadTree(w) \/ Complete(w)
      PROVE  Book'
  <2>1. UNCHANGED <<job, attempt, book>>
    BY <1>4, Zenon DEF SaveReports, UploadTree, Complete, logVars
  <2>2. \/ at' = at \/ at' = [at EXCEPT ![w] = "upload"] \/ at' = [at EXCEPT ![w] = "complete"]
        \/ at' = [at EXCEPT ![w] = "publish"]
    BY <1>4, Zenon DEF SaveReports, UploadTree, Complete, Goto
  <2>3. "upload" \notin Running /\ "complete" \notin Running /\ "publish" \notin Running
    BY DEF Running
  <2>4. CASE at' = at
    BY <2>1, <2>4, BookStill, Zenon
  <2>5. QED
    BY <1>2, <2>1, <2>2, <2>3, <2>4, Zenon
<1>5. ASSUME NEW w \in Workers, Leaves(w), Stop(w)
      PROVE  Book'
  <2>1. /\ at' = [at EXCEPT ![w] = "idle"] /\ job' = [job EXCEPT ![w] = NoJob]
        /\ UNCHANGED <<attempt, book>>
    BY <1>5, Zenon DEF Stop
  <2>2. "idle" \notin Running
    BY DEF Running
  <2>3. \A v \in Workers : at'[v] \in Running => at[v] \in Running /\ job'[v] = job[v]
    BY <2>1, <2>2 DEF RunTyped
  <2>4. QED
    BY <2>1, <2>3, BookStill, Zenon
<1>6. ASSUME NEW j \in Jobs, Retry(j)
      PROVE  Book'
  <2>1. UNCHANGED <<at, job, attempt, book>>
    BY <1>6, Zenon DEF Retry, logVars
  <2>2. QED
    BY <2>1, BookStill, Zenon
<1>7. CASE UNCHANGED vars
  <2>1. UNCHANGED <<at, job, attempt, book>>
    BY <1>7 DEF vars, runVars, logVars
  <2>2. QED
    BY <2>1, BookStill, Zenon
<1>8. QED
  BY <1>3, <1>4, <1>5, <1>6, <1>7, TakeBook, AppendBook, StepCases, Zenon

-----------------------------------------------------------------------------
(* No decision is lost, and each reflection finds its decision              *)

\* What a worker holds for the update is what it was, and of a log as old.
Watched == Rewrites \cup {"reflect", "update", "append"}
Holds(v) ==
    /\ text'[v] = text[v] /\ updates'[v] = updates[v] /\ found'[v] = found[v]
    /\ stale[v] => stale'[v]
Calm(v) ==
    \/ at'[v] = at[v] /\ job'[v] = job[v] /\ Holds(v)
    \/ at[v] \in Rewrites /\ at'[v] \in Rewrites /\ Holds(v)
    \/ at'[v] \notin Watched

\* It has made up what it holds in this step.
Anew(v) ==
    /\ ~ raced' => KeptBy(v)'
    /\ ~ raced' /\ ~ misread' => MatchesBy(v)'

LEMMA WatchedNames ==
    /\ Rewrites \subseteq Watched
    /\ "reflect" \in Watched /\ "update" \in Watched /\ "append" \in Watched
    /\ "reflect" \notin Rewrites /\ "update" \notin Rewrites /\ "append" \notin Rewrites
    /\ "open" \in Rewrites /\ "write" \in Rewrites /\ "replace" \in Rewrites
    /\ \A x \in {"idle", "resolve", "graph", "store", "save", "upload", "complete", "publish"} :
        x \notin Watched
BY DEF Watched, Rewrites

LEMMA CalmKeeps ==
    ASSUME NEW v \in Workers, Calm(v), log' = log
    PROVE  /\ KeptBy(v) => KeptBy(v)'
           /\ MatchesBy(v) => MatchesBy(v)'
<1>1. ASSUME at'[v] \in Rewrites
      PROVE  at[v] \in Rewrites /\ Holds(v)
  BY <1>1, WatchedNames, Zenon DEF Calm
<1>2. ASSUME at'[v] \in {"reflect", "update", "append"}
      PROVE  at[v] = at'[v] /\ job'[v] = job[v] /\ Holds(v)
  <2>1. at'[v] \in Watched /\ at'[v] \notin Rewrites
    BY <1>2 DEF Watched, Rewrites
  <2>2. QED
    BY <2>1, Zenon DEF Calm
<1>3. KeptBy(v) => KeptBy(v)'
  BY <1>1, Zenon DEF KeptBy, Holds
<1>4. ASSUME MatchesBy(v)
      PROVE  MatchesBy(v)'
  <2>1. at'[v] \in Rewrites => Clean(text'[v])
    BY <1>1, <1>4, Zenon DEF MatchesBy, Holds
  <2>2. at'[v] = "reflect" /\ ~ stale'[v] => Waiting(found'[v], log')
    BY <1>2, <1>4, Zenon DEF MatchesBy, Holds
  <2>3. at'[v] = "update" /\ ~ stale'[v] => Waiting(updates'[v], log')
    BY <1>2, <1>4, Zenon DEF MatchesBy, Holds
  <2>4. ASSUME at'[v] = "append", ~ stale'[v]
        PROVE  \A i \in DOMAIN log' : log'[i].pending => Key(log'[i]) # OwnKey(v)'
    <3>1. OwnKey(v)' = OwnKey(v) /\ at[v] = "append" /\ ~ stale[v]
      BY <1>2, <2>4, Zenon DEF OwnKey, Holds
    <3>2. QED
      BY <1>4, <3>1, Zenon DEF MatchesBy
  <2>5. QED
    BY <2>1, <2>2, <2>3, <2>4, Zenon DEF MatchesBy
<1>5. QED
  BY <1>3, <1>4

LEMMA LogUntouched ==
    ASSUME Kept, Matches, UNCHANGED <<log, book, settled>>, raced => raced', misread => misread',
           \A v \in Workers : Calm(v) \/ Anew(v)
    PROVE  Kept' /\ Matches'
<1>1. Kept'
  <2>1. SUFFICES ASSUME ~ raced'
                 PROVE  /\ Ordered(log)' /\ Whole(log, settled)'
                        /\ \A w \in Workers : KeptBy(w)'
    BY Zenon DEF Kept
  <2>2. Ordered(log) /\ Whole(log, settled) /\ \A w \in Workers : KeptBy(w)
    BY <2>1, Zenon DEF Kept
  <2>3. Ordered(log)'
    BY <2>2, Zenon DEF Ordered
  <2>4. Dropped(log)' = Dropped(log)
    BY Zenon DEF Dropped
  <2>5. Whole(log, settled)'
    BY <2>2, <2>4, Zenon DEF Whole
  <2>6. \A w \in Workers : KeptBy(w)'
    BY <2>1, <2>2, CalmKeeps, Zenon DEF Anew
  <2>7. QED
    BY <2>3, <2>5, <2>6
<1>2. Matches'
  <2>1. SUFFICES ASSUME ~ raced', ~ misread'
                 PROVE  Clean(log') /\ \A w \in Workers : MatchesBy(w)'
    BY Zenon DEF Matches
  <2>2. Clean(log) /\ \A w \in Workers : MatchesBy(w)
    BY <2>1, Zenon DEF Matches
  <2>3. \A w \in Workers : MatchesBy(w)'
    BY <2>1, <2>2, CalmKeeps, Zenon DEF Anew
  <2>4. QED
    BY <2>2, <2>3, Zenon
<1>3. QED
  BY <1>1, <1>2

\* What the steps of a worker do to what it holds, they do to nothing else.
Alters(new, old, w, x) == new[w] = x /\ \A v \in Workers : v # w => new[v] = old[v]

LEMMA HeldValues ==
    ASSUME RunTyped, LogTyped, NEW w \in Workers, NEW x
    PROVE  /\ at' = [at EXCEPT ![w] = x] => Alters(at', at, w, x)
           /\ found' = [found EXCEPT ![w] = x] => Alters(found', found, w, x)
           /\ updates' = [updates EXCEPT ![w] = x] => Alters(updates', updates, w, x)
           /\ text' = [text EXCEPT ![w] = x] => Alters(text', text, w, x)
           /\ stale' = [stale EXCEPT ![w] = x] => Alters(stale', stale, w, x)
           /\ fd' = [fd EXCEPT ![w] = x] => Alters(fd', fd, w, x)
<1>1. /\ DOMAIN at = Workers /\ DOMAIN found = Workers /\ DOMAIN updates = Workers
      /\ DOMAIN text = Workers /\ DOMAIN stale = Workers /\ DOMAIN fd = Workers
  BY Zenon DEF RunTyped, LogTyped
<1>2. QED
  BY <1>1, Zenon DEF Alters

LEMMA ReadPendingKeeps ==
    ASSUME RunTyped, LogTyped, Kept, Matches, NEW w \in Workers, ReadPending(w)
    PROVE  Kept' /\ Matches'
<1>. DEFINE mine == {i \in DOMAIN log : log[i].pending /\ Ticker(log[i]) = TickerOf[job[w]]}
<1>1. /\ at' = [at EXCEPT ![w] = IF mine = {} THEN "graph" ELSE "reflect"]
      /\ found' = [found EXCEPT ![w] = Pick(log, mine)]
      /\ stale' = [stale EXCEPT ![w] = FALSE]
      /\ UNCHANGED <<job, log, updates, text, raced, misread, book, settled>>
  BY Zenon DEF ReadPending, Goto
<1>2. mine \in SUBSET (DOMAIN log) /\ \A i \in mine : log[i].pending
  BY Zenon
<1>. HIDE DEF mine
<1>3. /\ at'[w] \notin Rewrites /\ at'[w] # "update" /\ at'[w] # "append"
      /\ \A v \in Workers : v # w => at'[v] = at[v]
  BY <1>1 DEF RunTyped, Rewrites
<1>4. found'[w] = Pick(log, mine) /\ \A v \in Workers : v # w => found'[v] = found[v] /\ stale'[v] = stale[v]
  <2>1. Alters(found', found, w, Pick(log, mine))
    BY <1>1, HeldValues, Zenon
  <2>2. Alters(stale', stale, w, FALSE)
    BY <1>1, HeldValues, Zenon
  <2>3. QED
    BY <2>1, <2>2, Zenon DEF Alters
<1>5. Waiting(Pick(log, mine), log)
  <2>1. Takes(Pick(log, mine), log, mine)
    BY <1>2, Picked, Zenon DEF LogTyped
  <2>2. \A n \in DOMAIN Pick(log, mine) : Nth(mine, n) \in mine /\ Pick(log, mine)[n] = log[Nth(mine, n)]
    BY <2>1, Zenon DEF Takes
  <2>3. QED
    BY <1>2, <2>2, Zenon DEF Waiting
<1>6. Anew(w)
  BY <1>1, <1>3, <1>4, <1>5, Zenon DEF Anew, KeptBy, MatchesBy
<1>7. \A v \in Workers : v # w => Calm(v)
  BY <1>1, <1>3, <1>4, Zenon DEF Calm, Holds
<1>8. QED
  BY <1>1, <1>6, <1>7, LogUntouched, Zenon

LEMMA ReflectKeeps ==
    ASSUME RunTyped, LogTyped, Kept, Matches, NEW w \in Workers, Reflect(w)
    PROVE  Kept' /\ Matches'
<1>1. PICK keys \in SUBSET {Key(found[w][i]) : i \in DOMAIN found[w]} :
        /\ updates' = [updates EXCEPT ![w] =
                          Pick(found[w], {i \in DOMAIN found[w] : Key(found[w][i]) \in keys})]
        /\ found' = [found EXCEPT ![w] = <<>>]
        /\ at[w] = "reflect" /\ at' = [at EXCEPT ![w] = IF keys = {} THEN "graph" ELSE "update"]
        /\ UNCHANGED <<job, log, text, stale, raced, misread, book, settled>>
  BY Zenon DEF Reflect, Goto
<1>. DEFINE known == {i \in DOMAIN found[w] : Key(found[w][i]) \in keys}
<1>2. updates' = [updates EXCEPT ![w] = Pick(found[w], known)]
  BY <1>1
<1>3. known \in SUBSET (DOMAIN found[w])
  BY Zenon
<1>. HIDE DEF known
<1>4. /\ at'[w] \notin Rewrites /\ at'[w] # "reflect" /\ at'[w] # "append"
      /\ \A v \in Workers : v # w => at'[v] = at[v]
  BY <1>1 DEF RunTyped, Rewrites
<1>5. /\ updates'[w] = Pick(found[w], known)
      /\ \A v \in Workers : v # w => updates'[v] = updates[v] /\ found'[v] = found[v]
  <2>1. Alters(updates', updates, w, Pick(found[w], known))
    BY <1>2, HeldValues, Zenon
  <2>2. Alters(found', found, w, <<>>)
    BY <1>1, HeldValues, Zenon
  <2>3. QED
    BY <2>1, <2>2, Zenon DEF Alters
<1>6. ASSUME ~ raced, ~ misread, ~ stale[w]
      PROVE  Waiting(updates'[w], log)
  <2>1. Waiting(found[w], log) /\ found[w] \in Seq(Blocks)
    BY <1>1, <1>6, HeldTyped, NoBlocks, Zenon DEF Matches, MatchesBy
  <2>2. QED
    BY <1>3, <1>5, <2>1, WaitingPick, Zenon
<1>7. Anew(w)
  BY <1>1, <1>4, <1>6, Zenon DEF Anew, KeptBy, MatchesBy
<1>8. \A v \in Workers : v # w => Calm(v)
  BY <1>1, <1>4, <1>5, Zenon DEF Calm, Holds
<1>9. QED
  BY <1>1, <1>7, <1>8, LogUntouched, Zenon

LEMMA ReadLogKeeps ==
    ASSUME RunTyped, LogTyped, Kept, Matches, NEW w \in Workers, ReadLog(w)
    PROVE  Kept' /\ Matches'
<1>1. /\ at[w] = "update" /\ at' = [at EXCEPT ![w] = "open"]
      /\ text' = [text EXCEPT ![w] = ApplyRotation(Batch(log, updates[w]))]
      /\ misread' = (misread \/ stale[w])
      /\ stale' = [stale EXCEPT ![w] = FALSE]
      /\ UNCHANGED <<job, log, found, updates, raced, book, settled>>
  BY Zenon DEF ReadLog, Goto
<1>2. /\ at'[w] # "update" /\ at'[w] # "reflect" /\ at'[w] # "append"
      /\ \A v \in Workers : v # w => at'[v] = at[v]
  BY <1>1 DEF RunTyped
<1>3. /\ text'[w] = ApplyRotation(Batch(log, updates[w]))
      /\ \A v \in Workers : v # w => text'[v] = text[v] /\ stale'[v] = stale[v]
  <2>1. Alters(text', text, w, ApplyRotation(Batch(log, updates[w])))
    BY <1>1, HeldValues, Zenon
  <2>2. Alters(stale', stale, w, FALSE)
    BY <1>1, HeldValues, Zenon
  <2>3. QED
    BY <2>1, <2>2, Zenon DEF Alters
<1>4. ASSUME ~ raced, ~ misread, ~ stale[w]
      PROVE  Clean(text'[w])
  <2>1. Waiting(updates[w], log) /\ Clean(log) /\ log \in Seq(Blocks) /\ updates[w] \in Seq(Blocks)
    BY <1>1, <1>4, HeldTyped, NoBlocks, Zenon DEF Matches, MatchesBy, LogTyped
  <2>2. Clean(Batch(log, updates[w])) /\ Batch(log, updates[w]) \in Seq(Blocks)
    BY <2>1, CleanBatch, Batched, Zenon
  <2>3. Clean(ApplyRotation(Batch(log, updates[w])))
    BY <2>2, RotationFacts, CleanPick, Zenon DEF ApplyRotation
  <2>4. QED
    BY <1>3, <2>3, Zenon
<1>5. Anew(w)
  BY <1>1, <1>2, <1>3, <1>4, Zenon DEF Anew, KeptBy, MatchesBy
<1>6. \A v \in Workers : v # w => Calm(v)
  BY <1>1, <1>2, <1>3, Zenon DEF Calm, Holds
<1>7. QED
  BY <1>1, <1>5, <1>6, LogUntouched, Zenon

LEMMA FindPendingKeeps ==
    ASSUME RunTyped, LogTyped, Kept, Matches, NEW w \in Workers, FindPending(w)
    PROVE  Kept' /\ Matches'
<1>. DEFINE there == \E i \in DOMAIN log : log[i].pending /\ Key(log[i]) = OwnKey(w)
<1>1. /\ at' = [at EXCEPT ![w] = IF there THEN "save" ELSE "append"]
      /\ stale' = [stale EXCEPT ![w] = FALSE]
      /\ UNCHANGED <<job, log, found, updates, text, raced, misread, book, settled>>
  BY Zenon DEF FindPending, Goto
<1>2. OwnKey(w)' = OwnKey(w)
  BY <1>1, Zenon DEF OwnKey
<1>3. at'[w] = "append" => \A i \in DOMAIN log : log[i].pending => Key(log[i]) # OwnKey(w)
  <2>1. CASE there
    <3>1. at' = [at EXCEPT ![w] = "save"]
      BY <1>1, <2>1, Zenon
    <3>2. at'[w] # "append"
      BY <3>1 DEF RunTyped
    <3>3. QED
      BY <3>2
  <2>2. CASE ~ there
    BY <2>2, Zenon
  <2>3. QED
    BY <2>1, <2>2, Zenon
<1>. HIDE DEF there
<1>4. /\ at'[w] \notin Rewrites /\ at'[w] # "reflect" /\ at'[w] # "update"
      /\ \A v \in Workers : v # w => at'[v] = at[v]
  BY <1>1 DEF RunTyped, Rewrites
<1>5. \A v \in Workers : v # w => stale'[v] = stale[v]
  <2>1. Alters(stale', stale, w, FALSE)
    BY <1>1, HeldValues, Zenon
  <2>2. QED
    BY <2>1, Zenon DEF Alters
<1>6. Anew(w)
  BY <1>1, <1>2, <1>3, <1>4, Zenon DEF Anew, KeptBy, MatchesBy
<1>7. \A v \in Workers : v # w => Calm(v)
  BY <1>1, <1>4, <1>5, Zenon DEF Calm, Holds
<1>8. QED
  BY <1>1, <1>6, <1>7, LogUntouched, Zenon

LEMMA WriteTmpKeeps ==
    ASSUME RunTyped, LogTyped, Kept, Matches, NEW w \in Workers, OpenTmp(w) \/ WriteTmp(w)
    PROVE  Kept' /\ Matches'
<1>1. CASE WriteTmp(w) /\ fd[w] = "log"
  <2>1. raced'
    BY <1>1, Zenon DEF WriteTmp
  <2>2. QED
    BY <2>1, Zenon DEF Kept, Matches
<1>2. CASE OpenTmp(w) \/ (WriteTmp(w) /\ fd[w] # "log")
  <2>1. /\ at[w] \in Rewrites /\ \E to \in Rewrites : at' = [at EXCEPT ![w] = to]
        /\ UNCHANGED <<job, log, found, updates, text, stale, misread, book, settled>>
        /\ raced => raced'
    <3>1. CASE OpenTmp(w)
      BY <3>1, WatchedNames, Zenon DEF OpenTmp, Goto
    <3>2. CASE WriteTmp(w) /\ fd[w] # "log"
      BY <3>2, WatchedNames, Zenon DEF WriteTmp, Goto
    <3>3. QED
      BY <1>2, <3>1, <3>2
  <2>2. PICK to \in Rewrites : at' = [at EXCEPT ![w] = to]
    BY <2>1
  <2>3. Alters(at', at, w, to)
    BY <2>2, HeldValues, Zenon
  <2>4. \A v \in Workers : Calm(v)
    BY <2>1, <2>3, Zenon DEF Alters, Calm, Holds
  <2>5. QED
    BY <2>1, <2>4, LogUntouched, Zenon
<1>3. QED
  BY <1>1, <1>2, Zenon

\* Who has made its text of the log as it is puts it in the place of the log.
LEMMA ReplaceKeeps ==
    ASSUME RunTyped, LogTyped, Book, Kept, Matches, NEW w \in Workers, Replace(w)
    PROVE  Kept' /\ Matches'
<1>1. /\ at[w] = "replace" /\ at' = [at EXCEPT ![w] = "graph"]
      /\ \E blocks \in tmp : log' = blocks
      /\ raced' = (raced \/ stale[w] \/ tmp # {text[w]})
      /\ Touched(w) /\ Forget(w)
      /\ settled' = settled \cup Outcomes(Batch(log, updates[w]))
      /\ UNCHANGED <<job, misread, book>>
  BY Zenon DEF Replace, Goto
<1>2. /\ at'[w] \notin Watched
      /\ \A v \in Workers : v # w => stale'[v]
      /\ \A v \in Workers : v # w => at'[v] = at[v] /\ text'[v] = text[v]
  <2>1. Alters(at', at, w, "graph")
    BY <1>1, HeldValues, Zenon
  <2>2. Alters(text', text, w, <<>>)
    BY <1>1, HeldValues, Zenon DEF Forget
  <2>3. QED
    BY <1>1, <2>1, <2>2, WatchedNames, TouchedTyped, Zenon DEF Alters
<1>3. /\ at'[w] \notin Rewrites /\ at'[w] # "reflect" /\ at'[w] # "update" /\ at'[w] # "append"
      /\ at[w] \in Rewrites
  BY <1>1, <1>2, WatchedNames, Zenon
<1>4. ASSUME ~ raced'
      PROVE  ~ raced /\ ~ stale[w] /\ log' = text[w]
  BY <1>1, <1>4, Zenon
<1>5. ASSUME ~ raced'
      PROVE  Ordered(log)' /\ Whole(log, settled)'
  <2>1. /\ Ordered(log) /\ Whole(log, settled)
        /\ log' = ApplyRotation(Batch(log, updates[w]))
    BY <1>3, <1>4, <1>5, Zenon DEF Kept, KeptBy
  <2>2. /\ MaxEntries \in Nat /\ book \in Seq(Decisions) /\ log \in Seq(Blocks)
        /\ \A m, n \in DOMAIN book : book[m] = book[n] => m = n
    BY DecisionLogAssumption, Zenon DEF Book, LogTyped
  <2>3. updates[w] \in Seq(Blocks)
    BY HeldTyped, NoBlocks, Zenon
  <2>4. /\ Ordered(ApplyRotation(Batch(log, updates[w])))
        /\ Whole(ApplyRotation(Batch(log, updates[w])), settled \cup Outcomes(Batch(log, updates[w])))
    BY <2>1, <2>2, <2>3, UpdateKeeps, Zenon
  <2>5. Ordered(log') /\ Whole(log', settled')
    BY <1>1, <2>1, <2>4, Zenon
  <2>6. Ordered(log)'
    BY <1>1, <2>5, Zenon DEF Ordered
  <2>7. Dropped(log)' = Dropped(log')
    BY <1>1, Zenon DEF Dropped
  <2>8. Whole(log, settled)'
    BY <1>1, <2>5, <2>7, Zenon DEF Whole
  <2>9. QED
    BY <2>6, <2>8
<1>6. Kept'
  BY <1>2, <1>3, <1>5, Zenon DEF Kept, KeptBy
<1>7. ASSUME ~ raced', ~ misread'
      PROVE  Clean(log') /\ \A v \in Workers : MatchesBy(v)'
  <2>1. /\ Clean(log')
        /\ \A v \in Workers : v # w => MatchesBy(v)
    BY <1>1, <1>3, <1>4, <1>7, Zenon DEF Matches, MatchesBy
  <2>2. MatchesBy(w)'
    BY <1>3, Zenon DEF MatchesBy
  <2>3. \A v \in Workers : v # w => MatchesBy(v)'
    BY <1>2, <2>1, Zenon DEF MatchesBy
  <2>4. QED
    BY <2>1, <2>2, <2>3
<1>8. Matches'
  BY <1>7, Zenon DEF Matches
<1>9. QED
  BY <1>6, <1>8

\* A decision is stored after those that are there, and waits for its outcome.
LEMMA AppendKeeps ==
    ASSUME RunTyped, Hands, LogTyped, Book, Kept, Matches, NEW w \in Workers, AppendDecision(w)
    PROVE  Kept' /\ Matches'
<1>. DEFINE d == Decision(w)
            b == Pending(Decision(w))
<1>1. /\ at[w] = "append" /\ at' = [at EXCEPT ![w] = "save"]
      /\ log' = Append(log, b) /\ book' = Append(book, d)
      /\ raced' = (raced \/ stale[w])
      /\ Touched(w)
      /\ UNCHANGED <<job, found, updates, text, misread, settled>>
  BY Zenon DEF AppendDecision, Goto
<1>2. at[w] # "idle" /\ at[w] \in Running
  BY <1>1 DEF Running
<1>3. /\ d \in Decisions /\ book \in Seq(Decisions)
      /\ b \in Blocks /\ log \in Seq(Blocks)
  BY <1>2, DecisionTyped, Zenon DEF LogTyped
<1>4. b.decision = d /\ b.pending /\ b.about = d /\ Key(b) = OwnKey(w)
  BY DEF Pending, Key, Ticker, OwnKey, Decision
<1>5. \A m \in DOMAIN book : book[m] # d
  BY <1>2, Zenon DEF Book
<1>. HIDE DEF d, b
<1>6. PICK z : Extends(book', book, d, z)
  BY <1>1, <1>3, Appended, Zenon
<1>7. PICK y : Extends(log', log, b, y)
  BY <1>1, <1>3, Appended, Zenon
<1>8. /\ \A m \in DOMAIN book' : m \in DOMAIN book \/ m = z
      /\ z \in DOMAIN book' /\ book'[z] = d
      /\ \A m \in DOMAIN book : m \in DOMAIN book' /\ book'[m] = book[m] /\ m < z /\ ~ (z < m)
  BY <1>6, Zenon DEF Extends
<1>9. /\ \A i \in DOMAIN log' : i \in DOMAIN log \/ i = y
      /\ y \in DOMAIN log' /\ y \notin DOMAIN log /\ log'[y] = b
      /\ \A i \in DOMAIN log : i \in DOMAIN log' /\ log'[i] = log[i] /\ i < y /\ ~ (y < i)
      /\ ~ (y < y)
  BY <1>7, Zenon DEF Extends
<1>10. /\ at'[w] \notin Watched
       /\ \A v \in Workers : v # w => stale'[v] /\ at'[v] = at[v]
  <2>1. Alters(at', at, w, "save")
    BY <1>1, HeldValues, Zenon
  <2>2. QED
    BY <1>1, <2>1, WatchedNames, TouchedTyped, Zenon DEF Alters
<1>11. /\ at'[w] \notin Rewrites /\ at'[w] # "reflect" /\ at'[w] # "update" /\ at'[w] # "append"
  BY <1>10, WatchedNames, Zenon
<1>12. ASSUME ~ raced'
       PROVE  ~ raced /\ ~ stale[w]
  BY <1>1, <1>12, Zenon
<1>13. ASSUME ~ raced'
       PROVE  Ordered(log)' /\ Whole(log, settled)'
  <2>1. Ordered(log) /\ Whole(log, settled)
    BY <1>12, <1>13, Zenon DEF Kept
  <2>2. ASSUME NEW i \in DOMAIN log
        PROVE  /\ log'[i].decision # d /\ log'[i].decision = log[i].decision
               /\ \E m \in DOMAIN book' : book'[m] = log'[i].decision
    <3>1. log'[i] = log[i]
      BY <1>9, Zenon
    <3>2. PICK m \in DOMAIN book : book[m] = log[i].decision
      BY <2>1, Zenon DEF Ordered
    <3>3. m \in DOMAIN book' /\ book'[m] = log[i].decision /\ log[i].decision # d
      BY <1>5, <1>8, <3>2, Zenon
    <3>4. QED
      BY <3>1, <3>3, Zenon
  <2>3. ASSUME NEW i \in DOMAIN log'
        PROVE  \E m \in DOMAIN book' : book'[m] = log'[i].decision
    <3>1. CASE i \in DOMAIN log
      BY <2>2, <3>1, Zenon
    <3>2. CASE i = y
      <4>1. book'[z] = log'[i].decision
        BY <1>4, <1>8, <1>9, <3>2, Zenon
      <4>2. QED
        BY <1>8, <4>1, Zenon
    <3>3. QED
      BY <1>9, <3>1, <3>2, Zenon
  <2>4. ASSUME NEW i \in DOMAIN log', NEW k \in DOMAIN log', NEW m \in DOMAIN book', NEW n \in DOMAIN book',
               i < k, book'[m] = log'[i].decision, book'[n] = log'[k].decision
        PROVE  m < n
    <3>1. i \in DOMAIN log
      BY <1>9, <2>4, Zenon
    <3>2. m \in DOMAIN book /\ book[m] = log[i].decision
      BY <1>8, <2>2, <2>4, <3>1, Zenon
    <3>3. CASE k \in DOMAIN log
      <4>1. n \in DOMAIN book /\ book[n] = log[k].decision
        BY <1>8, <2>2, <2>4, <3>3, Zenon
      <4>2. QED
        BY <2>1, <2>4, <3>1, <3>2, <3>3, <4>1, Zenon DEF Ordered
    <3>4. CASE k = y
      <4>1. n = z
        BY <1>4, <1>5, <1>8, <1>9, <2>4, <3>4, Zenon
      <4>2. QED
        BY <1>8, <3>2, <4>1, Zenon
    <3>5. QED
      BY <1>9, <3>3, <3>4, Zenon
  <2>5. Ordered(log)'
    BY <2>3, <2>4, Zenon DEF Ordered
  <2>6. Resolved(log') = Resolved(log)
    BY <1>4, <1>9, Zenon DEF Resolved
  <2>7. ASSUME NEW m \in Dropped(log)'
        PROVE  /\ m \in Dropped(log) /\ book'[m] = book[m]
    <3>1. m \in DOMAIN book' /\ \A i \in DOMAIN log' : log'[i].decision # book'[m]
      BY <2>7, Zenon DEF Dropped
    <3>2. m \in DOMAIN book
      BY <1>4, <1>8, <1>9, <3>1, Zenon
    <3>3. QED
      BY <1>8, <1>9, <3>1, <3>2, Zenon DEF Dropped
  <2>8. ASSUME NEW m \in Dropped(log)', NEW i \in Resolved(log), NEW n \in DOMAIN book',
               book'[n] = log'[i].decision
        PROVE  m < n
    <3>1. i \in DOMAIN log
      BY Zenon DEF Resolved
    <3>2. n \in DOMAIN book /\ book[n] = log[i].decision
      BY <1>8, <2>2, <2>8, <3>1, Zenon
    <3>3. QED
      BY <2>1, <2>7, <3>2, Zenon DEF Whole
  <2>9. Whole(log, settled)'
    BY <1>1, <2>1, <2>6, <2>7, <2>8, Zenon DEF Whole
  <2>10. QED
    BY <2>5, <2>9
<1>14. Kept'
  BY <1>10, <1>11, <1>13, Zenon DEF Kept, KeptBy
<1>15. ASSUME ~ raced', ~ misread'
       PROVE  Clean(log') /\ \A v \in Workers : MatchesBy(v)'
  <2>1. /\ Clean(log) /\ \A v \in Workers : MatchesBy(v)
        /\ \A i \in DOMAIN log : log[i].pending => Key(log[i]) # OwnKey(w)
    BY <1>1, <1>12, <1>15, Zenon DEF Matches, MatchesBy
  <2>2. ASSUME NEW i \in DOMAIN log', NEW k \in DOMAIN log',
               log'[i].pending, log'[k].pending, Key(log'[i]) = Key(log'[k])
        PROVE  i = k
    <3>1. CASE i \in DOMAIN log /\ k \in DOMAIN log
      <4>1. log'[i] = log[i] /\ log'[k] = log[k]
        BY <1>9, <3>1, Zenon
      <4>2. QED
        BY <2>1, <2>2, <3>1, <4>1, Zenon DEF Clean
    <3>2. CASE i \in DOMAIN log /\ k = y
      <4>1. log'[i] = log[i] /\ log'[k] = b
        BY <1>9, <3>2, Zenon
      <4>2. log[i].pending /\ Key(log[i]) = OwnKey(w)
        BY <1>4, <2>2, <4>1, Zenon
      <4>3. QED
        BY <2>1, <3>2, <4>2, Zenon
    <3>3. CASE i = y /\ k \in DOMAIN log
      <4>1. log'[k] = log[k] /\ log'[i] = b
        BY <1>9, <3>3, Zenon
      <4>2. log[k].pending /\ Key(log[k]) = OwnKey(w)
        BY <1>4, <2>2, <4>1, Zenon
      <4>3. QED
        BY <2>1, <3>3, <4>2, Zenon
    <3>4. QED
      BY <1>9, <3>1, <3>2, <3>3, Zenon
  <2>3. ASSUME NEW i \in DOMAIN log'
        PROVE  log'[i].about = log'[i].decision
    <3>1. CASE i \in DOMAIN log
      <4>1. log'[i] = log[i]
        BY <1>9, <3>1, Zenon
      <4>2. QED
        BY <2>1, <3>1, <4>1, Zenon DEF Clean
    <3>2. CASE i = y
      BY <1>4, <1>9, <3>2, Zenon
    <3>3. QED
      BY <1>9, <3>1, <3>2, Zenon
  <2>4. Clean(log')
    BY <2>2, <2>3, Zenon DEF Clean
  <2>5. \A v \in Workers : MatchesBy(v)'
    BY <1>1, <1>10, <1>11, <2>1, Zenon DEF MatchesBy
  <2>6. QED
    BY <2>4, <2>5
<1>16. Matches'
  BY <1>15, Zenon DEF Matches
<1>17. QED
  BY <1>14, <1>16

LEMMA LogKeeps ==
    ASSUME RunTyped, Hands, LogTyped, ReportTyped, Book, Kept, Matches, [Next]_vars
    PROVE  Kept' /\ Matches'
<1>1. ASSUME UNCHANGED <<log, found, updates, text, stale, raced, misread, book, settled>>,
             \A v \in Workers : (at'[v] = at[v] /\ job'[v] = job[v]) \/ at'[v] \notin Watched
      PROVE  Kept' /\ Matches'
  <2>1. \A v \in Workers : Calm(v)
    BY <1>1, Zenon DEF Calm, Holds
  <2>2. QED
    BY <1>1, <2>1, LogUntouched, Zenon
<1>2. ASSUME NEW w \in Workers, LogStep(w)
      PROVE  Kept' /\ Matches'
  BY <1>2, ReadPendingKeeps, ReflectKeeps, ReadLogKeeps, WriteTmpKeeps, ReplaceKeeps, FindPendingKeeps,
     AppendKeeps, Zenon DEF LogStep
<1>3. ASSUME NEW w \in Workers, RunGraph(w) \/ SaveReports(w) \/ UploadTree(w) \/ Take(w) \/ Complete(w)
      PROVE  Kept' /\ Matches'
  <2>1. UNCHANGED <<log, found, updates, text, stale, raced, misread, book, settled>>
    <3>1. UNCHANGED logVars
      BY <1>3, Zenon DEF RunGraph, SaveReports, UploadTree, Take, Complete
    <3>2. QED
      BY <3>1 DEF logVars
  <2>2. \/ at' = at /\ job' = job
        \/ \E to : to \notin Watched /\ at' = [at EXCEPT ![w] = to] /\ \A v \in Workers : v # w => job'[v] = job[v]
    <3>1. CASE Take(w)
      <4>1. PICK j \in Jobs : at' = [at EXCEPT ![w] = "resolve"] /\ job' = [job EXCEPT ![w] = j]
        BY <3>1, Zenon DEF Take, Goto
      <4>2. \A v \in Workers : v # w => job'[v] = job[v]
        BY <4>1 DEF RunTyped
      <4>3. QED
        BY <4>1, <4>2, WatchedNames, Zenon
    <3>2. CASE RunGraph(w) \/ SaveReports(w) \/ UploadTree(w) \/ Complete(w)
      BY <3>2, WatchedNames, Zenon DEF RunGraph, SaveReports, UploadTree, Complete, Goto
    <3>3. QED
      BY <1>3, <3>1, <3>2
  <2>3. CASE at' = at /\ job' = job
    BY <1>1, <2>1, <2>3, Zenon
  <2>4. ASSUME NEW to, to \notin Watched, at' = [at EXCEPT ![w] = to],
               \A v \in Workers : v # w => job'[v] = job[v]
        PROVE  Kept' /\ Matches'
    <3>1. Alters(at', at, w, to)
      BY <2>4, HeldValues, Zenon
    <3>2. QED
      BY <1>1, <2>1, <2>4, <3>1, Zenon DEF Alters
  <2>5. QED
    BY <2>2, <2>3, <2>4, Zenon
<1>4. ASSUME NEW w \in Workers, Leaves(w), Stop(w)
      PROVE  Kept' /\ Matches'
  <2>1. /\ at' = [at EXCEPT ![w] = "idle"] /\ job' = [job EXCEPT ![w] = NoJob]
        /\ stale' = [stale EXCEPT ![w] = FALSE] /\ Forget(w)
        /\ UNCHANGED <<log, raced, misread, book, settled>>
    BY <1>4, Zenon DEF Stop
  <2>2. Alters(at', at, w, "idle")
    BY <2>1, HeldValues, Zenon
  <2>3. Alters(stale', stale, w, FALSE)
    BY <2>1, HeldValues, Zenon
  <2>4. Alters(found', found, w, <<>>) /\ Alters(updates', updates, w, <<>>) /\ Alters(text', text, w, <<>>)
    BY <2>1, HeldValues, Zenon DEF Forget
  <2>5. \A v \in Workers : v # w => job'[v] = job[v]
    BY <2>1 DEF RunTyped
  <2>6. \A v \in Workers : Calm(v)
    BY <2>2, <2>3, <2>4, <2>5, WatchedNames, Zenon DEF Calm, Holds, Alters
  <2>7. QED
    BY <2>1, <2>6, LogUntouched, Zenon
<1>5. ASSUME NEW j \in Jobs, Retry(j)
      PROVE  Kept' /\ Matches'
  <2>1. UNCHANGED <<at, job, log, found, updates, text, stale, raced, misread, book, settled>>
    BY <1>5, Zenon DEF Retry, logVars
  <2>2. QED
    BY <1>1, <2>1, Zenon
<1>6. CASE UNCHANGED vars
  <2>1. UNCHANGED <<at, job, log, found, updates, text, stale, raced, misread, book, settled>>
    BY <1>6 DEF vars, runVars, logVars
  <2>2. QED
    BY <1>1, <2>1, Zenon
<1>7. QED
  BY <1>2, <1>3, <1>4, <1>5, <1>6, StepCases, Zenon

-----------------------------------------------------------------------------
(* The theorems                                                             *)

LEMMA Begins == Init => IInv
<1>. SUFFICES ASSUME Init
              PROVE  IInv
  OBVIOUS
<1>1. /\ at = [w \in Workers |-> "idle"]
      /\ job = [w \in Workers |-> NoJob]
      /\ attempt = [j \in Jobs |-> 0]
      /\ status = [j \in Jobs |-> "queued"]
      /\ log = <<>> /\ tmp = {}
      /\ fd = [w \in Workers |-> "gone"]
      /\ found = [w \in Workers |-> <<>>]
      /\ updates = [w \in Workers |-> <<>>]
      /\ text = [w \in Workers |-> <<>>]
      /\ stale = [w \in Workers |-> FALSE]
      /\ raced = FALSE /\ misread = FALSE /\ book = <<>> /\ settled = {}
      /\ backend \in {"local", "s3"}
      /\ path = [j \in Jobs |-> NoPath]
      /\ second = 0
      /\ dirs = [k \in Dirs |-> NoFiles]
      /\ saved = [w \in Workers |-> NoPath]
      /\ todo = [w \in Workers |-> {}]
      /\ objects = [j \in Jobs |-> NoFiles]
      /\ wrote = [j \in Jobs |-> {}]
      /\ shared = FALSE
  BY Zenon DEF Init
<1>2. RunTyped
  <2>1. "idle" \in Steps /\ 0 \in 0..MaxAttempts
    BY RunFilesAssumption DEF Steps
  <2>2. QED
    BY <1>1, <2>1 DEF RunTyped
<1>3. LogTyped
  <2>1. <<>> \in Seq(Blocks) /\ book \in Seq(Decisions)
    BY <1>1, EmptySeq, Zenon
  <2>. DEFINE S == Seq(Blocks)
  <2>2. <<>> \in S
    BY <2>1
  <2>. HIDE DEF S
  <2>3. /\ found \in [Workers -> S] /\ updates \in [Workers -> S] /\ text \in [Workers -> S]
        /\ log \in S /\ tmp \subseteq S
    BY <1>1, <2>2, Zenon
  <2>4. /\ fd \in [Workers -> {"tmp", "log", "gone"}] /\ stale \in [Workers -> BOOLEAN]
        /\ raced \in BOOLEAN /\ misread \in BOOLEAN /\ settled \subseteq Decisions
    BY <1>1
  <2>5. QED
    BY <2>1, <2>3, <2>4, Zenon DEF LogTyped, S
<1>4. ReportTyped
  <2>1. 0 \in 0..MaxSecond
    BY RunFilesAssumption
  <2>2. NoFiles \in [Files -> Decisions \cup {Absent}]
    BY Zenon DEF NoFiles
  <2>3. /\ dirs \in [Dirs -> [Files -> Decisions \cup {Absent}]]
        /\ objects \in [Jobs -> [Files -> Decisions \cup {Absent}]]
    BY <1>1, <2>2, Zenon
  <2>4. /\ path \in [Jobs -> {NoPath} \cup Dirs \cup {StorageKey(j) : j \in Jobs}]
        /\ saved \in [Workers -> {NoPath} \cup Dirs]
    BY <1>1, Zenon
  <2>5. todo \in [Workers -> SUBSET Files] /\ wrote \in [Jobs -> SUBSET Files]
    BY <1>1
  <2>6. QED
    BY <1>1, <2>1, <2>3, <2>4, <2>5, Zenon DEF ReportTyped
<1>5. \A w \in Workers : at[w] = "idle"
  BY <1>1, Zenon
<1>6. Hands
  <2>1. \A j \in Jobs : status[j] # "completed" /\ attempt[j] < MaxAttempts
    BY <1>1, RunFilesAssumption
  <2>2. QED
    BY <1>5, <2>1, Zenon DEF Hands
<1>7. Saved
  BY <1>5 DEF Saved
<1>8. Trees
  <2>1. \A w \in Workers : at[w] # "upload" /\ at[w] # "complete"
    BY <1>5
  <2>2. \A w \in Workers : WorkerTree(w)
    BY <2>1, Zenon DEF WorkerTree
  <2>3. \A j \in Jobs : status[j] # "completed"
    BY <1>1
  <2>4. \A j \in Jobs, f \in Files : objects[j][f] = Absent
    BY <1>1, Zenon DEF NoFiles
  <2>5. \A j \in Jobs : JobTree(j)
    BY <2>3, <2>4, Zenon DEF JobTree
  <2>6. QED
    BY <2>2, <2>5, Zenon DEF Trees
<1>9. DOMAIN log = {} /\ DOMAIN book = {}
  BY <1>1, EmptySeq
<1>10. Book
  <2>1. \A w \in Workers : at[w] \notin Running
    BY <1>5 DEF Running
  <2>2. QED
    BY <1>9, <2>1, Zenon DEF Book
<1>11. \A w \in Workers : /\ at[w] \notin Rewrites /\ at[w] # "reflect" /\ at[w] # "update"
                          /\ at[w] # "append"
  BY <1>5 DEF Rewrites
<1>12. Kept
  BY <1>9, <1>11, Zenon DEF Kept, KeptBy, Ordered, Whole, Dropped
<1>13. Matches
  BY <1>9, <1>11, Zenon DEF Matches, MatchesBy, Clean
<1>14. QED
  BY <1>2, <1>3, <1>4, <1>6, <1>7, <1>8, <1>10, <1>12, <1>13, TypeParts, Zenon DEF IInv

LEMMA Steady ==
    ASSUME IInv, [Next]_vars
    PROVE  IInv'
<1>1. /\ RunTyped /\ LogTyped /\ ReportTyped
      /\ Hands /\ Saved /\ Trees /\ Book /\ Kept /\ Matches
  BY TypeParts, Zenon DEF IInv
<1>2. RunTyped' /\ Hands'
  BY <1>1, RunsKept, Zenon
<1>3. LogTyped'
  BY <1>1, LogKeepsType, Zenon
<1>4. ReportTyped' /\ Saved'
  BY <1>1, ReportKeepsType, Zenon
<1>5. Trees'
  BY <1>1, TreesKept, Zenon
<1>6. Book'
  BY <1>1, BookKept, Zenon
<1>7. Kept' /\ Matches'
  BY <1>1, LogKeeps, Zenon
<1>8. TypeOK'
  BY <1>2, <1>3, <1>4, Zenon DEF TypeOK, RunTyped, LogTyped, ReportTyped
<1>9. QED
  BY <1>2, <1>4, <1>5, <1>6, <1>7, <1>8, Zenon DEF IInv

\* The workers, the log and the reports stay in step with one another: this is
\* the inductive invariant from which the others follow.
THEOREM Invariant == Spec => []IInv
<1>1. Init => IInv
  BY Begins
<1>2. IInv /\ [Next]_vars => IInv'
  BY Steady
<1>3. QED
  BY <1>1, <1>2, PTL DEF Spec

\* Every variable stays in its type: blocks, decisions, paths and files.
THEOREM TypeCorrect == Spec => []TypeOK
<1>1. IInv => TypeOK
  BY DEF IInv
<1>2. QED
  BY <1>1, Invariant, PTL

\* As long as nobody writes what it made of a log that has changed, the log
\* keeps the decisions in the order they were stored, but for the oldest of
\* those that are resolved (batch_update_with_outcomes, _apply_rotation).
THEOREM DecisionsAreKept == Spec => []DecisionsKept
<1>1. IInv => DecisionsKept
  <2>1. SUFFICES ASSUME Kept, Book, ~ raced
                 PROVE  /\ \A i, k \in DOMAIN log : i < k =>
                            \E m, n \in DOMAIN book :
                                m < n /\ book[m] = log[i].decision /\ book[n] = log[k].decision
                        /\ \A m \in DOMAIN book : book[m] \notin InLog =>
                            /\ book[m] \in settled
                            /\ Cardinality(Resolved(log)) = MaxEntries
                            /\ \A n \in DOMAIN book :
                                (\E i \in Resolved(log) : log[i].decision = book[n]) => m < n
    BY Zenon DEF IInv, DecisionsKept
  <2>2. Ordered(log) /\ Whole(log, settled)
    BY <2>1, Zenon DEF Kept
  <2>3. ASSUME NEW i \in DOMAIN log, NEW k \in DOMAIN log, i < k
        PROVE  \E m, n \in DOMAIN book :
                    m < n /\ book[m] = log[i].decision /\ book[n] = log[k].decision
    <3>1. PICK m \in DOMAIN book : book[m] = log[i].decision
      BY <2>2, Zenon DEF Ordered
    <3>2. PICK n \in DOMAIN book : book[n] = log[k].decision
      BY <2>2, Zenon DEF Ordered
    <3>3. m < n
      BY <2>2, <2>3, <3>1, <3>2, Zenon DEF Ordered
    <3>4. QED
      BY <3>1, <3>2, <3>3, Zenon
  <2>4. ASSUME NEW m \in DOMAIN book, book[m] \notin InLog
        PROVE  /\ book[m] \in settled
               /\ Cardinality(Resolved(log)) = MaxEntries
               /\ \A n \in DOMAIN book :
                    (\E i \in Resolved(log) : log[i].decision = book[n]) => m < n
    <3>1. m \in Dropped(log)
      BY <2>4, Zenon DEF InLog, Dropped
    <3>2. QED
      BY <2>2, <3>1, Zenon DEF Whole
  <2>5. QED
    BY <2>3, <2>4, Zenon
<1>2. QED
  BY <1>1, Invariant, PTL

\* The reflection that the batch writes stands under the decision it is about,
\* and store_decision leaves one decision of a ticker and date to wait, unless
\* the log has changed between a reading and a writing.
THEOREM ReflectionsMatch == Spec => []ReflectionMatches
<1>1. IInv => ReflectionMatches
  BY Zenon DEF IInv, Matches, Clean, ReflectionMatches
<1>2. QED
  BY <1>1, Invariant, PTL

\* What the API shows as the report of a completed job (ax_reports), in the
\* directory or in the bucket, is what the last attempt at that job has written.
THEOREM ReportsAreOwn == Spec => []ReportIsOwn
<1>1. IInv => ReportIsOwn
  <2>1. SUFFICES ASSUME IInv, NEW j \in Jobs, CanList(j), ~ shared
                 PROVE  /\ wrote[j] \subseteq ListSections(j)
                        /\ \A f \in ListSections(j) :
                            IF f \in wrote[j]
                            THEN ReadSection(j, f) = [job |-> j, attempt |-> attempt[j]]
                            ELSE backend = "s3" /\ ReadSection(j, f).job = j
    BY Zenon DEF ReportIsOwn
  <2>. DEFINE n == attempt[j]
  <2>2. /\ status[j] = "completed" /\ JobTree(j) /\ wrote[j] \in SUBSET Files
        /\ n \in Nat \ {0}
    <3>1. RunTyped /\ ReportTyped /\ Hands /\ Trees
      BY <2>1, TypeParts, Zenon DEF IInv
    <3>2. status[j] = "completed" /\ JobTree(j) /\ wrote[j] \in SUBSET Files
      BY <2>1, <3>1, Zenon DEF CanList, Trees, ReportTyped
    <3>3. n \in Nat \ {0}
      BY <3>1, <3>2, RunFilesAssumption DEF RunTyped, Hands
    <3>4. QED
      BY <3>2, <3>3
  <2>3. Version(j, n) = [job |-> j, attempt |-> attempt[j]] /\ Version(j, n) # Absent
    BY <2>2 DEF Version, Absent
  <2>4. CASE backend = "s3"
    <3>1. path[j] = StorageKey(j) /\ \A f \in wrote[j] : objects[j][f] = Version(j, n)
      BY <2>2, <2>4, Zenon DEF JobTree, Has
    <3>2. \A f : ReadSection(j, f) = objects[j][f]
      BY <3>1, Zenon DEF ReadSection
    <3>3. \A f \in Files : objects[j][f] = Absent \/ objects[j][f].job = j
      BY <2>2, Zenon DEF JobTree
    <3>4. wrote[j] \subseteq ListSections(j)
      BY <2>2, <2>3, <3>1, <3>2, Zenon DEF ListSections
    <3>5. \A f \in ListSections(j) : f \in Files /\ objects[j][f] # Absent
      BY <3>2, Zenon DEF ListSections
    <3>6. QED
      BY <2>3, <2>4, <3>1, <3>2, <3>3, <3>4, <3>5, Zenon
  <2>5. CASE backend # "s3"
    <3>1. path[j] \in Dirs /\ dirs[path[j]] = Content(j, n, wrote[j])
      BY <2>2, <2>5, Zenon DEF JobTree
    <3>2. path[j] # StorageKey(j)
      BY <3>1 DEF Dirs, StorageKey
    <3>3. \A f : ReadSection(j, f) = Content(j, n, wrote[j])[f]
      BY <3>1, <3>2, Zenon DEF ReadSection
    <3>4. \A f \in Files : f \in wrote[j] <=> ReadSection(j, f) # Absent
      BY <2>3, <3>3, Zenon DEF Content
    <3>5. ListSections(j) = wrote[j]
      BY <2>2, <3>4, Zenon DEF ListSections
    <3>6. \A f \in wrote[j] : ReadSection(j, f) = Version(j, n)
      BY <2>2, <3>3, Zenon DEF Content
    <3>7. QED
      BY <2>3, <3>5, <3>6, Zenon
  <2>6. QED
    BY <2>4, <2>5
<1>2. QED
  BY <1>1, Invariant, PTL

-----------------------------------------------------------------------------
(* One worker alone                                                         *)

\* Nothing has been written, or reflected on, that rests on a stale reading.
Undisturbed == ~ raced /\ ~ misread

\* The worker's readings are good, and it renames what it has written.
Alone ==
    /\ Undisturbed
    /\ \A w \in Workers : /\ stale[w] = FALSE
                          /\ at[w] = "write" => fd[w] = "tmp"
                          /\ at[w] = "replace" => tmp = {text[w]}

LEMMA AloneStep ==
    ASSUME TypeOK, Alone, \A v, w \in Workers : v = w, [Next]_vars
    PROVE  Alone'
<1>1. /\ at \in [Workers -> Steps] /\ stale \in [Workers -> BOOLEAN]
      /\ fd \in [Workers -> {"tmp", "log", "gone"}]
  BY Zenon DEF TypeOK
<1>2. ASSUME NEW w \in Workers, stale'[w] = FALSE, Undisturbed',
             at'[w] = "write" => fd'[w] = "tmp",
             at'[w] = "replace" => tmp' = {text'[w]}
      PROVE  Alone'
  BY <1>2, Zenon DEF Alone
<1>3. ASSUME NEW w \in Workers, stale'[w] = FALSE, Undisturbed', at'[w] \notin {"write", "replace"}
      PROVE  Alone'
  <2>1. at'[w] # "write" /\ at'[w] # "replace"
    BY <1>3
  <2>2. QED
    BY <1>2, <1>3, <2>1, Zenon
<1>4. \A w \in Workers : stale[w] = FALSE
  BY Zenon DEF Alone
<1>5. Undisturbed
  BY Zenon DEF Alone
<1>6. ASSUME NEW w \in Workers, Touched(w)
      PROVE  stale'[w] = FALSE
  BY <1>6 DEF Touched
<1>7. ASSUME NEW w \in Workers, NEW to \in Steps, at' = [at EXCEPT ![w] = to]
      PROVE  at'[w] = to
  BY <1>1, <1>7
<1>8. ASSUME NEW w \in Workers, stale' = [stale EXCEPT ![w] = FALSE]
      PROVE  stale'[w] = FALSE
  BY <1>1, <1>8
<1>9. CASE UNCHANGED vars
  BY <1>9, Zenon DEF vars, runVars, logVars, Alone, Undisturbed
<1>10. ASSUME NEW w \in Workers, Take(w) \/ RunGraph(w) \/ SaveReports(w) \/ Complete(w) \/ UploadTree(w)
       PROVE  Alone'
  <2>1. stale' = stale /\ raced' = raced /\ misread' = misread
    BY <1>10, Zenon DEF Take, RunGraph, SaveReports, Complete, UploadTree, logVars
  <2>2. at'[w] \notin {"write", "replace"}
    <3>1. \/ \E to \in {"resolve", "store", "save", "upload", "complete", "publish"} : at' = [at EXCEPT ![w] = to]
          \/ at' = at /\ at[w] = "upload"
      BY <1>10 DEF Take, RunGraph, SaveReports, Complete, UploadTree, Goto
    <3>2. QED
      BY <1>1, <3>1
  <2>3. QED
    BY <1>3, <1>4, <1>5, <2>1, <2>2, Zenon DEF Undisturbed
<1>11. ASSUME NEW w \in Workers, Publish(w) \/ Fail(w) \/ Crash(w)
       PROVE  Alone'
  <2>1. Stop(w)
    BY <1>11, Zenon DEF Publish, Fail, Crash
  <2>2. at'[w] \notin {"write", "replace"} /\ stale'[w] = FALSE
    BY <1>1, <2>1 DEF Stop
  <2>3. Undisturbed'
    BY <1>5, <2>1, Zenon DEF Stop, Undisturbed
  <2>4. QED
    BY <1>3, <2>2, <2>3, Zenon
<1>12. ASSUME NEW w \in Workers, ReadPending(w) \/ Reflect(w) \/ ReadLog(w) \/ FindPending(w)
       PROVE  Alone'
  <2>1. stale' = stale \/ stale' = [stale EXCEPT ![w] = FALSE]
    BY <1>12, Zenon DEF ReadPending, Reflect, ReadLog, FindPending
  <2>2. stale'[w] = FALSE
    BY <1>4, <1>8, <2>1, Zenon
  <2>3. Undisturbed'
    <3>1. CASE ReadLog(w)
      BY <1>4, <1>5, <3>1, Zenon DEF ReadLog, Undisturbed
    <3>2. CASE ReadPending(w)
      BY <1>5, <3>2, Zenon DEF ReadPending, Undisturbed
    <3>3. CASE Reflect(w)
      <4>1. raced' = raced /\ misread' = misread
        BY <3>3, SMT DEF Reflect
      <4>2. QED
        BY <1>5, <4>1, Zenon DEF Undisturbed
    <3>4. CASE FindPending(w)
      BY <1>5, <3>4, Zenon DEF FindPending, Undisturbed
    <3>5. QED
      BY <1>12, <3>1, <3>2, <3>3, <3>4, Zenon
  <2>4. \E to \in {"graph", "reflect", "update", "open", "save", "append"} : at' = [at EXCEPT ![w] = to]
    BY <1>12 DEF ReadPending, Reflect, ReadLog, FindPending, Goto
  <2>5. at'[w] \notin {"write", "replace"}
    BY <1>1, <2>4
  <2>6. QED
    BY <1>3, <2>2, <2>3, <2>5, Zenon
<1>13. ASSUME NEW w \in Workers, OpenTmp(w)
       PROVE  Alone'
  <2>1. at'[w] = "write" /\ fd'[w] = "tmp" /\ stale' = stale /\ raced' = raced /\ misread' = misread
    BY <1>1, <1>13 DEF OpenTmp, Goto
  <2>2. at'[w] # "replace"
    BY <2>1
  <2>3. QED
    BY <1>2, <1>4, <1>5, <2>1, <2>2, Zenon DEF Undisturbed
<1>14. ASSUME NEW w \in Workers, WriteTmp(w)
       PROVE  Alone'
  <2>1. fd[w] = "tmp" /\ fd[w] # "log"
    <3>1. fd[w] = "tmp"
      BY <1>14, Zenon DEF WriteTmp, Goto, Alone
    <3>2. QED
      BY <3>1
  <2>2. tmp' = {text[w]} /\ text' = text /\ stale' = stale /\ misread' = misread /\ (raced' <=> raced)
    BY <1>14, <2>1, Zenon DEF WriteTmp
  <2>3. at'[w] = "replace" /\ at'[w] # "write"
    BY <1>1, <1>14 DEF WriteTmp, Goto
  <2>4. QED
    BY <1>2, <1>4, <1>5, <2>2, <2>3, Zenon DEF Undisturbed
<1>15. ASSUME NEW w \in Workers, Replace(w)
       PROVE  Alone'
  <2>1. tmp = {text[w]} /\ stale[w] = FALSE
    BY <1>15, Zenon DEF Replace, Goto, Alone
  <2>2. Undisturbed'
    BY <1>5, <1>15, <2>1, Zenon DEF Replace, Undisturbed
  <2>3. stale'[w] = FALSE
    BY <1>6, <1>15, Zenon DEF Replace
  <2>4. at'[w] \notin {"write", "replace"}
    BY <1>1, <1>15 DEF Replace, Goto
  <2>5. QED
    BY <1>3, <2>2, <2>3, <2>4, Zenon
<1>16. ASSUME NEW w \in Workers, AppendDecision(w)
       PROVE  Alone'
  <2>1. Undisturbed'
    BY <1>4, <1>5, <1>16, Zenon DEF AppendDecision, Undisturbed
  <2>2. stale'[w] = FALSE
    BY <1>6, <1>16, Zenon DEF AppendDecision
  <2>3. at'[w] \notin {"write", "replace"}
    BY <1>1, <1>16 DEF AppendDecision, Goto
  <2>4. QED
    BY <1>3, <2>1, <2>2, <2>3, Zenon
<1>17. ASSUME NEW j \in Jobs, Retry(j)
       PROVE  Alone'
  BY <1>17, Zenon DEF Retry, logVars, Alone, Undisturbed
<1>18. QED
  BY <1>9, <1>10, <1>11, <1>12, <1>13, <1>14, <1>15, <1>16, <1>17, Zenon DEF Next, LogStep

\* A user whose analyses run on one worker: whatever raises, and whenever the
\* worker dies, nothing is written that rests on a stale reading, so the log
\* keeps its decisions and its reflections without exception.
THEOREM OneWorkerIsUndisturbed == (\A v, w \in Workers : v = w) => (Spec => []Undisturbed)
<1>. SUFFICES ASSUME \A v, w \in Workers : v = w PROVE Spec => []Undisturbed
  OBVIOUS
<1>1. Init => Alone
  <2>. SUFFICES ASSUME Init PROVE Alone
    OBVIOUS
  <2>1. \A w \in Workers : at[w] = "idle" /\ stale[w] = FALSE
    BY DEF Init
  <2>2. \A w \in Workers : at[w] # "write" /\ at[w] # "replace"
    BY <2>1
  <2>3. Undisturbed
    BY Zenon DEF Init, Undisturbed
  <2>4. QED
    BY <2>1, <2>2, <2>3, Zenon DEF Alone
<1>2. TypeOK /\ Alone /\ [Next]_vars => Alone'
  BY AloneStep
<1>3. Alone => Undisturbed
  BY DEF Alone
<1>4. QED
  BY <1>1, <1>2, <1>3, TypeCorrect, PTL DEF Spec

-----------------------------------------------------------------------------
(* What a run is told of the past                                           *)

\* The m last of the places I, up to N of them, from the last on.
Newest(s, I, N, m) ==
    [i \in 1..(IF m < N THEN m ELSE N) |-> s[Nth(I, Cardinality(I) - i + 1)]]

LEMMA NewestTyped ==
    ASSUME NEW T, NEW s \in Seq(T), NEW I \in SUBSET (DOMAIN s), NEW N \in Nat,
           NEW m \in 0..Cardinality(I)
    PROVE  /\ Newest(s, I, N, m) \in Seq(T)
           /\ m < N => Len(Newest(s, I, N, m)) = m
           /\ Len(Newest(s, I, N, m)) < N <=> m < N
<1>. DEFINE k == IF m < N THEN m ELSE N
<1>1. Cardinality(I) \in Nat
  BY Picked, Zenon
<1>2. k \in Nat /\ k <= m /\ m \in Nat /\ m <= Cardinality(I) /\ (k < N <=> m < N)
  BY <1>1
<1>3. \A i \in 1..Cardinality(I) : Nth(I, i) \in DOMAIN s
  <2>1. DOMAIN Pick(s, I) = 1..Cardinality(I) /\ Takes(Pick(s, I), s, I)
    BY Picked, Zenon
  <2>2. QED
    BY <2>1, Zenon DEF Takes
<1>4. ASSUME NEW i \in 1..k
      PROVE  s[Nth(I, Cardinality(I) - i + 1)] \in T
  <2>1. Cardinality(I) - i + 1 \in 1..Cardinality(I)
    BY <1>1, <1>2
  <2>2. Nth(I, Cardinality(I) - i + 1) \in DOMAIN s
    BY <1>3, <2>1, Zenon
  <2>3. QED
    BY <2>2, LenProperties, ElementOfSeq
<1>. DEFINE r == [i \in 1..k |-> s[Nth(I, Cardinality(I) - i + 1)]]
<1>5. r \in Seq(T)
  BY <1>2, <1>4, IsASeq
<1>6. Newest(s, I, N, m) = r
  BY Zenon DEF Newest
<1>7. DOMAIN r = 1..k
  BY Zenon
<1>. HIDE DEF r, k
<1>8. Len(r) = k
  BY <1>2, <1>5, <1>7, LenProperties
<1>9. QED
  BY <1>2, <1>5, <1>6, <1>8, Zenon DEF k

CountAbove(I, q) == Cardinality(Above(I, q))

\* One place further down, they are one more, unless they are N already.
LEMMA NewestGrows ==
    ASSUME NEW T, NEW s \in Seq(T), NEW I \in SUBSET (DOMAIN s), NEW N \in Nat, NEW q \in I
    PROVE  /\ CountAbove(I, q) < N =>
                Newest(s, I, N, CountAbove(I, q) + 1) = Append(Newest(s, I, N, CountAbove(I, q)), s[q])
           /\ ~ (CountAbove(I, q) < N) =>
                Newest(s, I, N, CountAbove(I, q) + 1) = Newest(s, I, N, CountAbove(I, q))
<1>. DEFINE c == Cardinality(I)
            m == CountAbove(I, q)
<1>1. PICK n \in Nat : DOMAIN s = 1..n
  BY LenProperties, Zenon
<1>2. I \in SUBSET (1..n) /\ q \in 1..n
  BY <1>1, Zenon
<1>3. /\ c \in Nat
      /\ \A i \in 1..c : Nth(I, i) \in I
      /\ \A i \in I : \E k \in 1..c : Nth(I, k) = i
  BY <1>2, Places, Zenon
<1>4. PICK k \in 1..c : Nth(I, k) = q
  BY <1>3, Zenon
<1>5. Rank(I, q) = k
  BY <1>2, <1>4, NthIs, Zenon
<1>6. q \in Nat
  BY <1>2
<1>7. m = c - k
  BY <1>2, <1>5, <1>6, AboveCount DEF CountAbove
<1>. HIDE DEF c, m
<1>8. m \in Nat /\ m + 1 \in 0..c /\ m \in 0..c /\ k = c - (m + 1) + 1
  BY <1>3, <1>7
<1>9. m \in 0..Cardinality(I) /\ m + 1 \in 0..Cardinality(I)
  BY <1>8, Zenon DEF c
<1>10. CASE m < N
  <2>. DEFINE a == Newest(s, I, N, m)
              b == Newest(s, I, N, m + 1)
  <2>1. s[q] \in T
    BY LenProperties, ElementOfSeq
  <2>2. a \in Seq(T) /\ b \in Seq(T) /\ Len(a) = m /\ Len(b) = m + 1
    <3>1. a \in Seq(T) /\ Len(a) = m
      BY <1>9, <1>10, NewestTyped, Zenon
    <3>2. b \in Seq(T) /\ (m + 1 < N => Len(b) = m + 1) /\ (Len(b) < N <=> m + 1 < N)
      <4>. DEFINE m1 == m + 1
      <4>1. m1 \in 0..Cardinality(I)
        BY <1>9
      <4>. HIDE DEF m1
      <4>2. /\ Newest(s, I, N, m1) \in Seq(T)
            /\ m1 < N => Len(Newest(s, I, N, m1)) = m1
            /\ Len(Newest(s, I, N, m1)) < N <=> m1 < N
        BY <4>1, NewestTyped, Zenon
      <4>3. QED
        BY <4>2, Zenon DEF m1
    <3>3. ~ (m + 1 < N) => m + 1 = N
      BY <1>8, <1>10
    <3>4. ~ (m + 1 < N) => DOMAIN b = 1..(m + 1)
      BY <3>3, Zenon DEF Newest
    <3>5. ~ (m + 1 < N) => Len(b) = m + 1
      <4>. HIDE DEF b
      <4>1. QED
        BY <1>8, <3>2, <3>4, LenProperties
    <3>6. QED
      BY <3>1, <3>2, <3>5, Zenon
  <2>3. \A i \in 1..m : a[i] = s[Nth(I, c - i + 1)]
    BY <1>10 DEF Newest, c
  <2>4. \A i \in 1..(m + 1) : b[i] = s[Nth(I, c - i + 1)]
    <3>1. (IF m + 1 < N THEN m + 1 ELSE N) = m + 1
      BY <1>8, <1>10
    <3>2. b = [i \in 1..(m + 1) |-> s[Nth(I, c - i + 1)]]
      BY <3>1, Zenon DEF Newest, c
    <3>3. QED
      BY <3>2, Zenon
  <2>. HIDE DEF a, b
  <2>5. /\ Append(a, s[q]) \in Seq(T) /\ Len(Append(a, s[q])) = m + 1
        /\ \A i \in 1..m : Append(a, s[q])[i] = a[i]
        /\ Append(a, s[q])[m + 1] = s[q]
    BY <2>1, <2>2, AppendProperties
  <2>6. b[m + 1] = s[q]
    <3>1. m + 1 \in 1..(m + 1)
      BY <1>8
    <3>2. b[m + 1] = s[Nth(I, c - (m + 1) + 1)]
      BY <2>4, <3>1, Zenon
    <3>3. QED
      BY <1>4, <1>8, <3>2, Zenon
  <2>7. ASSUME NEW i \in 1..(m + 1)
        PROVE  b[i] = Append(a, s[q])[i]
    <3>1. CASE i = m + 1
      BY <2>5, <2>6, <3>1, Zenon
    <3>2. CASE i # m + 1
      <4>1. i \in 1..m
        BY <1>8, <3>2
      <4>2. QED
        BY <2>3, <2>4, <2>5, <4>1, Zenon
    <3>3. QED
      BY <3>1, <3>2
  <2>8. b = Append(a, s[q])
    BY <2>2, <2>5, <2>7, SeqEqual
  <2>9. QED
    BY <1>8, <1>10, <2>8, Zenon DEF a, b, c, m
<1>11. CASE ~ (m < N)
  <2>1. (IF m < N THEN m ELSE N) = N /\ (IF m + 1 < N THEN m + 1 ELSE N) = N
    BY <1>8, <1>11
  <2>2. Newest(s, I, N, m) = Newest(s, I, N, m + 1)
    BY <2>1, Zenon DEF Newest
  <2>3. QED
    BY <1>8, <1>11, <2>2, Zenon DEF c, m
<1>12. QED
  BY <1>10, <1>11

\* The pass of get_past_context: what it has after each block.
Nothing == [same |-> <<>>, cross |-> <<>>]
LEMMA Pass ==
    ASSUME NEW s \in Seq(Blocks), NEW t
    PROVE  \E f : /\ PastContext(s, t) = f[Len(s)]
                  /\ f[0] = Nothing
                  /\ \A n \in 1..Len(s) : f[n] = WithBlock(f[n - 1], s[Len(s) - n + 1], t)
<1>. DEFINE After(f, n) == IF n = 0 THEN Nothing ELSE WithBlock(f[n - 1], s[Len(s) - n + 1], t)
            Is(f, m) == f = [n \in 0..m |-> After(f, n)]
            not == {m \in Nat : ~ \E f : Is(f, m)}
<1>1. \E f : Is(f, 0)
  <2>. DEFINE f == [n \in 0..0 |-> Nothing]
  <2>1. \A n \in 0..0 : After(f, n) = Nothing
    OBVIOUS
  <2>2. Is(f, 0)
    BY <2>1, Zenon
  <2>3. QED
    BY <2>2
<1>2. ASSUME NEW m \in Nat, NEW f, Is(f, m)
      PROVE  \E g : Is(g, m + 1)
  <2>. DEFINE g == [n \in 0..(m + 1) |-> IF n = m + 1 THEN After(f, m + 1) ELSE f[n]]
  <2>0. /\ \A n \in 0..(m + 1) : g[n] = IF n = m + 1 THEN After(f, m + 1) ELSE f[n]
        /\ g = [n \in 0..(m + 1) |-> g[n]]
    BY Zenon
  <2>. HIDE DEF g
  <2>1. ASSUME NEW n \in 0..(m + 1)
        PROVE  g[n] = After(g, n)
    <3>1. g[n] = After(f, n)
      <4>1. n # m + 1 => n \in 0..m
        OBVIOUS
      <4>2. n # m + 1 => f[n] = After(f, n)
        BY <1>2, <4>1, Zenon
      <4>3. QED
        BY <2>0, <4>2, Zenon
    <3>2. CASE n = 0
      BY <3>1, <3>2, Zenon
    <3>3. CASE n # 0
      <4>1. n - 1 \in 0..(m + 1) /\ n - 1 # m + 1
        BY <3>3
      <4>2. g[n - 1] = f[n - 1]
        BY <2>0, <4>1, Zenon
      <4>3. QED
        BY <3>1, <3>3, <4>2, Zenon
    <3>4. QED
      BY <3>2, <3>3
  <2>. HIDE DEF After
  <2>2. g = [n \in 0..(m + 1) |-> g[n]]
    BY <2>0
  <2>3. [n \in 0..(m + 1) |-> g[n]] = [n \in 0..(m + 1) |-> After(g, n)]
    BY <2>1, Zenon
  <2>4. Is(g, m + 1)
    BY <2>2, <2>3, Zenon
  <2>5. QED
    BY <2>4
<1>. HIDE DEF Is
<1>3. not = {}
  <2>1. SUFFICES ASSUME NEW x \in not PROVE FALSE
    BY Zenon
  <2>2. not \in SUBSET Nat
    BY Zenon
  <2>3. PICK m \in not : \A y \in not : m <= y
    BY <2>2, Least, Zenon
  <2>4. m \in Nat /\ ~ \E f : Is(f, m)
    BY <2>3
  <2>5. m - 1 \in Nat /\ (m - 1) + 1 = m /\ ~ (m <= m - 1)
    <3>1. m # 0
      BY <1>1, <2>4, Zenon
    <3>2. QED
      BY <2>4, <3>1
  <2>6. m - 1 \notin not
    BY <2>3, <2>5, Zenon
  <2>7. PICK f : Is(f, m - 1)
    BY <2>5, <2>6, Zenon
  <2>8. \E g : Is(g, (m - 1) + 1)
    BY <1>2, <2>5, <2>7, Zenon
  <2>9. QED
    BY <2>4, <2>5, <2>8, Zenon
<1>4. Len(s) \in Nat
  BY LenProperties
<1>5. \E f : Is(f, Len(s))
  BY <1>3, <1>4, Zenon
<1>. DEFINE pass == CHOOSE f : f = [n \in 0..Len(s) |-> After(f, n)]
<1>6. PastContext(s, t) = pass[Len(s)]
  BY Zenon DEF PastContext, Nothing
<1>7. pass = [n \in 0..Len(s) |-> After(pass, n)]
  BY <1>5, Zenon DEF Is
<1>. HIDE DEF pass
<1>8. \A n \in 0..Len(s) : pass[n] = After(pass, n)
  BY <1>7, Zenon
<1>9. pass[0] = Nothing
  BY <1>4, <1>8
<1>10. ASSUME NEW n \in 1..Len(s)
       PROVE  pass[n] = WithBlock(pass[n - 1], s[Len(s) - n + 1], t)
  <2>1. n \in 0..Len(s) /\ n # 0
    BY <1>4
  <2>2. QED
    BY <1>8, <2>1, Zenon
<1>11. QED
  BY <1>6, <1>9, <1>10, Zenon

\* After n blocks the pass has the newest of either kind among the last n.
LEMMA PassKeeps ==
    ASSUME NEW s \in Seq(Blocks), NEW t
    PROVE  LET own == {i \in Resolved(s) : Ticker(s[i]) = t}
           IN  PastContext(s, t) = [same |-> Latest(s, own, NSame),
                                    cross |-> Latest(s, Resolved(s) \ own, NCross)]
<1>. DEFINE own == {i \in Resolved(s) : Ticker(s[i]) = t}
            other == Resolved(s) \ own
            L == Len(s)
<1>. SUFFICES PastContext(s, t) = [same |-> Latest(s, own, NSame), cross |-> Latest(s, other, NCross)]
  OBVIOUS
<1>1. L \in Nat /\ DOMAIN s = 1..L
  BY LenProperties
<1>2. own \in SUBSET (DOMAIN s) /\ other \in SUBSET (DOMAIN s)
  BY Zenon DEF Resolved
<1>3. \A i \in DOMAIN s : /\ i \in own <=> ~ s[i].pending /\ Ticker(s[i]) = t
                          /\ i \in other <=> ~ s[i].pending /\ Ticker(s[i]) # t
  BY Zenon DEF Resolved
<1>4. NSame \in Nat /\ NCross \in Nat
  BY DecisionLogAssumption
<1>5. PICK f : /\ PastContext(s, t) = f[L]
               /\ f[0] = Nothing
               /\ \A n \in 1..L : f[n] = WithBlock(f[n - 1], s[L - n + 1], t)
  BY Pass, Zenon
<1>. HIDE DEF own, other, L
<1>. DEFINE m(I, n) == Cardinality(Above(I, L - n))
            Had(n) == f[n] = [same |-> Newest(s, own, NSame, m(own, n)),
                              cross |-> Newest(s, other, NCross, m(other, n))]
            lacks == {n \in Nat : n <= L /\ ~ Had(n)}
<1>6. Had(0)
  <2>1. ASSUME NEW I \in SUBSET (1..L)
        PROVE  Above(I, L - 0) = {}
    <3>1. \A k \in I : ~ (k > L - 0)
      BY <1>1
    <3>2. QED
      BY <3>1, Zenon DEF Above
  <2>2. m(own, 0) = 0 /\ m(other, 0) = 0
    BY <1>1, <1>2, <2>1, FS_EmptySet, Zenon
  <2>3. \A I, N : N \in Nat => Newest(s, I, N, 0) = <<>>
    <3>1. ASSUME NEW I, NEW N \in Nat
          PROVE  Newest(s, I, N, 0) = <<>>
      <4>1. (IF 0 < N THEN 0 ELSE N) = 0
        OBVIOUS
      <4>2. Newest(s, I, N, 0) = [i \in 1..0 |-> s[Nth(I, Cardinality(I) - i + 1)]]
        BY <4>1, Zenon DEF Newest
      <4>3. QED
        BY <4>2
    <3>2. QED
      BY <3>1
  <2>4. QED
    BY <1>4, <1>5, <2>2, <2>3, Zenon DEF Nothing
<1>7. ASSUME NEW n \in 1..L, Had(n - 1)
      PROVE  Had(n)
  <2>. DEFINE q == L - n + 1
              b == s[q]
              a1 == Newest(s, own, NSame, m(own, n - 1))
              a2 == Newest(s, other, NCross, m(other, n - 1))
  <2>1. q \in 1..L /\ q \in Nat /\ L - (n - 1) = q /\ L - n = q - 1
    BY <1>1
  <2>. HIDE DEF q
  <2>2. ASSUME NEW I \in SUBSET (1..L)
        PROVE  Above(I, q - 1) = IF q \in I THEN Above(I, q) \cup {q} ELSE Above(I, q)
    <3>1. \A k \in I : k > q - 1 <=> k > q \/ k = q
      BY <2>1
    <3>2. QED
      BY <3>1 DEF Above
  <2>3. ASSUME NEW I \in SUBSET (DOMAIN s)
        PROVE  /\ m(I, n - 1) = Cardinality(Above(I, q)) /\ m(I, n - 1) \in 0..Cardinality(I)
               /\ m(I, n) = IF q \in I THEN m(I, n - 1) + 1 ELSE m(I, n - 1)
    <3>1. I \in SUBSET (1..L)
      BY <1>1, Zenon
    <3>0. L \in Nat /\ q \in Nat
      BY <1>1, <2>1
    <3>2. /\ IsFiniteSet(Above(I, q)) /\ IsFiniteSet(I) /\ Above(I, q) \in SUBSET I /\ q \notin Above(I, q)
      <4>1. IsFiniteSet(Above(I, q)) /\ IsFiniteSet(I)
        BY <3>0, <3>1, AboveCount, Ranks, Zenon
      <4>2. q \notin Above(I, q)
        BY <2>1 DEF Above
      <4>3. QED
        BY <4>1, <4>2, Zenon DEF Above
    <3>3. /\ Cardinality(Above(I, q)) \in Nat /\ Cardinality(I) \in Nat
          /\ Cardinality(Above(I, q)) <= Cardinality(I)
          /\ Cardinality(Above(I, q) \cup {q}) = Cardinality(Above(I, q)) + 1
      BY <3>2, FS_Subset, FS_CardinalityType, FS_AddElement
    <3>4. Cardinality(Above(I, q)) \in 0..Cardinality(I)
      BY <3>3
    <3>5. m(I, n - 1) = Cardinality(Above(I, q)) /\ m(I, n) = Cardinality(Above(I, q - 1))
      BY <2>1, Zenon
    <3>6. Cardinality(Above(I, q - 1)) =
            IF q \in I THEN Cardinality(Above(I, q)) + 1 ELSE Cardinality(Above(I, q))
      BY <2>2, <3>1, <3>3, Zenon
    <3>. HIDE DEF m
    <3>7. QED
      BY <3>4, <3>5, <3>6, Zenon
  <2>. HIDE DEF m
  <2>4. f[n - 1] = [same |-> a1, cross |-> a2]
    BY <1>7
  <2>5. f[n] = WithBlock([same |-> a1, cross |-> a2], b, t)
    BY <1>5, <2>4, Zenon DEF q
  <2>6. /\ Len(a1) < NSame <=> m(own, n - 1) < NSame
        /\ Len(a2) < NCross <=> m(other, n - 1) < NCross
    <3>1. m(own, n - 1) \in 0..Cardinality(own) /\ m(other, n - 1) \in 0..Cardinality(other)
      BY <1>2, <2>3, Zenon
    <3>2. QED
      BY <1>2, <1>4, <3>1, NewestTyped, Zenon
  <2>7. /\ q \in own => Newest(s, own, NSame, m(own, n)) = IF Len(a1) < NSame THEN Append(a1, b) ELSE a1
        /\ q \notin own => Newest(s, own, NSame, m(own, n)) = a1
    <3>1. CASE q \in own
      <4>1. /\ m(own, n) = m(own, n - 1) + 1
            /\ m(own, n - 1) = Cardinality(Above(own, q))
        BY <1>2, <2>3, <3>1, Zenon
      <4>2. /\ m(own, n - 1) < NSame => Newest(s, own, NSame, m(own, n - 1) + 1) = Append(a1, b)
            /\ ~ (m(own, n - 1) < NSame) => Newest(s, own, NSame, m(own, n - 1) + 1) = a1
        <5>. DEFINE u == m(own, n - 1)
        <5>1. u = CountAbove(own, q)
          BY <4>1 DEF CountAbove
        <5>. HIDE DEF u
        <5>2. /\ u < NSame => Newest(s, own, NSame, u + 1) = Append(Newest(s, own, NSame, u), s[q])
              /\ ~ (u < NSame) => Newest(s, own, NSame, u + 1) = Newest(s, own, NSame, u)
          BY <1>2, <1>4, <3>1, <5>1, NewestGrows, Zenon
        <5>3. QED
          BY <5>2, Zenon DEF u
      <4>3. QED
        BY <2>6, <3>1, <4>1, <4>2, Zenon
    <3>2. CASE q \notin own
      BY <1>2, <2>3, <3>2, Zenon
    <3>3. QED
      BY <3>1, <3>2
  <2>8. /\ q \in other => Newest(s, other, NCross, m(other, n)) = IF Len(a2) < NCross THEN Append(a2, b) ELSE a2
        /\ q \notin other => Newest(s, other, NCross, m(other, n)) = a2
    <3>1. CASE q \in other
      <4>1. /\ m(other, n) = m(other, n - 1) + 1
            /\ m(other, n - 1) = Cardinality(Above(other, q))
        BY <1>2, <2>3, <3>1, Zenon
      <4>2. /\ m(other, n - 1) < NCross => Newest(s, other, NCross, m(other, n - 1) + 1) = Append(a2, b)
            /\ ~ (m(other, n - 1) < NCross) => Newest(s, other, NCross, m(other, n - 1) + 1) = a2
        <5>. DEFINE u == m(other, n - 1)
        <5>1. u = CountAbove(other, q)
          BY <4>1 DEF CountAbove
        <5>. HIDE DEF u
        <5>2. /\ u < NCross => Newest(s, other, NCross, u + 1) = Append(Newest(s, other, NCross, u), s[q])
              /\ ~ (u < NCross) => Newest(s, other, NCross, u + 1) = Newest(s, other, NCross, u)
          BY <1>2, <1>4, <3>1, <5>1, NewestGrows, Zenon
        <5>3. QED
          BY <5>2, Zenon DEF u
      <4>3. QED
        BY <2>6, <3>1, <4>1, <4>2, Zenon
    <3>2. CASE q \notin other
      BY <1>2, <2>3, <3>2, Zenon
    <3>3. QED
      BY <3>1, <3>2
  <2>9. /\ q \in own <=> ~ b.pending /\ Ticker(b) = t
        /\ q \in other <=> ~ b.pending /\ Ticker(b) # t
    BY <1>1, <1>3, <2>1, Zenon
  <2>. HIDE DEF b, a1, a2
  <2>10. QED
    <3>. DEFINE n1 == Newest(s, own, NSame, m(own, n))
                n2 == Newest(s, other, NCross, m(other, n))
    <3>1. f[n] = [same |-> n1, cross |-> n2]
      <4>. HIDE DEF n1, n2
      <4>1. /\ q \in own => n1 = IF Len(a1) < NSame THEN Append(a1, b) ELSE a1
            /\ q \notin own => n1 = a1
            /\ q \in other => n2 = IF Len(a2) < NCross THEN Append(a2, b) ELSE a2
            /\ q \notin other => n2 = a2
        BY <2>7, <2>8, Zenon DEF n1, n2
      <4>2. QED
        BY <2>5, <2>9, <4>1 DEF WithBlock
    <3>2. QED
      BY <3>1
<1>8. lacks = {}
  <2>. HIDE DEF Had
  <2>1. SUFFICES ASSUME NEW x \in lacks PROVE FALSE
    BY Zenon
  <2>2. lacks \in SUBSET Nat
    BY Zenon
  <2>3. PICK n \in lacks : \A y \in lacks : n <= y
    BY <2>2, Least, Zenon
  <2>4. n \in Nat /\ n <= L /\ ~ Had(n)
    BY <2>3
  <2>5. n \in 1..L /\ n - 1 \in Nat /\ n - 1 <= L /\ ~ (n <= n - 1)
    <3>1. n # 0
      BY <1>6, <2>4, Zenon
    <3>2. QED
      BY <1>1, <2>4, <3>1
  <2>6. n - 1 \notin lacks
    BY <2>3, <2>5, Zenon
  <2>7. QED
    BY <1>7, <2>4, <2>5, <2>6, Zenon
<1>9. Had(L)
  <2>. HIDE DEF Had
  <2>1. L \in Nat /\ L <= L
    BY <1>1
  <2>2. QED
    BY <1>8, <2>1, Zenon
<1>10. ASSUME NEW I \in SUBSET (DOMAIN s)
       PROVE  m(I, L) = Cardinality(I)
  <2>1. L - L = 0 /\ I \in SUBSET (1..L)
    BY <1>1
  <2>2. Above(I, 0) = I
    BY <2>1 DEF Above
  <2>3. QED
    BY <2>1, <2>2, Zenon
<1>11. \A I, N : Latest(s, I, N) = Newest(s, I, N, Cardinality(I))
  BY Zenon DEF Latest, Newest
<1>12. QED
  BY <1>2, <1>5, <1>9, <1>10, <1>11, Zenon

\* The context that get_past_context gives to a run is of the latest resolved
\* decisions, newest first, whatever the log holds and however the pass of the
\* code gets at them.
THEOREM ContextsAreRecent == Spec => []ContextIsRecent
<1>1. TypeOK => ContextIsRecent
  <2>1. SUFFICES ASSUME TypeOK, NEW blocks \in {log, Batch(log, log)},
                        NEW ticker \in {TickerOf[j] : j \in Jobs} \cup {"another"}
                 PROVE  LET same == {i \in Resolved(blocks) : Ticker(blocks[i]) = ticker}
                        IN  PastContext(blocks, ticker) =
                                [same |-> Latest(blocks, same, NSame),
                                 cross |-> Latest(blocks, Resolved(blocks) \ same, NCross)]
    BY Zenon DEF ContextIsRecent
  <2>2. log \in Seq(Blocks)
    BY <2>1, Zenon DEF TypeOK
  <2>3. blocks \in Seq(Blocks)
    BY <2>2, Batched, Zenon
  <2>4. QED
    BY <2>3, PassKeeps, Zenon
<1>2. QED
  BY <1>1, TypeCorrect, PTL

-----------------------------------------------------------------------------
(* One operation at a time                                                  *)

\* A worker that is about to store its decision has seen that none of its
\* ticker and date waits, and still sees it if the log has not changed.
Free(v) == \A i \in DOMAIN log : log[i].pending => Key(log[i]) # OwnKey(v)
Searched == \A v \in Workers : at[v] = "append" /\ ~ stale[v] => Free(v)

\* The others go on with what they know, unless it is stale by now.
LEMMA SearchedByOthers ==
    ASSUME NEW w \in Workers, Searched,
           \A v \in Workers : v # w => at'[v] = at[v] /\ job'[v] = job[v],
           \/ log' = log /\ \A v \in Workers : v # w => stale'[v] = stale[v]
           \/ \A v \in Workers : v # w => stale'[v],
           at'[w] = "append" => Free(w)'
    PROVE  Searched'
<1>1. ASSUME NEW v \in Workers, v # w, at'[v] = "append", ~ stale'[v]
      PROVE  Free(v)'
  <2>1. log' = log /\ at[v] = "append" /\ ~ stale[v] /\ job'[v] = job[v]
    BY <1>1, Zenon
  <2>2. Free(v)
    BY <2>1, Zenon DEF Searched
  <2>3. OwnKey(v)' = OwnKey(v)
    BY <2>1, Zenon DEF OwnKey
  <2>4. QED
    BY <2>1, <2>2, <2>3, Zenon DEF Free
<1>2. QED
  BY <1>1, Zenon DEF Searched

LEMMA SearchedInLogStep ==
    ASSUME RunTyped, LogTyped, Searched, NEW w \in Workers, LogStep(w)
    PROVE  Searched'
<1>1. ASSUME NEW to, at' = [at EXCEPT ![w] = to]
      PROVE  at'[w] = to /\ \A v \in Workers : v # w => at'[v] = at[v]
  BY <1>1, HeldValues, Zenon DEF Alters
<1>2. ASSUME Touched(w)
      PROVE  \A v \in Workers : v # w => stale'[v]
  BY <1>2, TouchedTyped, Zenon
<1>3. ASSUME stale' = [stale EXCEPT ![w] = FALSE]
      PROVE  \A v \in Workers : v # w => stale'[v] = stale[v]
  <2>1. Alters(stale', stale, w, FALSE)
    BY <1>3, HeldValues, Zenon
  <2>2. QED
    BY <2>1, Zenon DEF Alters
<1>4. "append" \notin {"graph", "reflect", "update", "open", "write", "replace", "save"}
  OBVIOUS
<1>5. CASE ReadPending(w)
  <2>1. PICK to : to \in {"graph", "reflect"} /\ at' = [at EXCEPT ![w] = to]
    BY <1>5, Zenon DEF ReadPending, Goto
  <2>2. log' = log /\ job' = job /\ stale' = [stale EXCEPT ![w] = FALSE]
    BY <1>5, Zenon DEF ReadPending
  <2>3. QED
    BY <1>1, <1>3, <1>4, <2>1, <2>2, SearchedByOthers, Zenon
<1>6. CASE Reflect(w)
  <2>1. PICK to : to \in {"graph", "update"} /\ at' = [at EXCEPT ![w] = to]
    BY <1>6, Zenon DEF Reflect, Goto
  <2>2. log' = log /\ job' = job /\ stale' = stale
    BY <1>6, Zenon DEF Reflect
  <2>3. QED
    BY <1>1, <1>4, <2>1, <2>2, SearchedByOthers, Zenon
<1>7. CASE ReadLog(w)
  <2>1. /\ at' = [at EXCEPT ![w] = "open"]
        /\ log' = log /\ job' = job /\ stale' = [stale EXCEPT ![w] = FALSE]
    BY <1>7, Zenon DEF ReadLog, Goto
  <2>2. QED
    BY <1>1, <1>3, <1>4, <2>1, SearchedByOthers, Zenon
<1>8. CASE OpenTmp(w)
  <2>1. at' = [at EXCEPT ![w] = "write"] /\ log' = log /\ job' = job /\ stale' = stale
    BY <1>8, Zenon DEF OpenTmp, Goto
  <2>2. QED
    BY <1>1, <1>4, <2>1, SearchedByOthers, Zenon
<1>9. CASE WriteTmp(w)
  <2>1. /\ at' = [at EXCEPT ![w] = "replace"] /\ job' = job
        /\ (log' = log /\ stale' = stale) \/ Touched(w)
    BY <1>9, Zenon DEF WriteTmp, Goto
  <2>2. QED
    BY <1>1, <1>2, <1>4, <2>1, SearchedByOthers, Zenon
<1>10. CASE Replace(w)
  <2>1. at' = [at EXCEPT ![w] = "graph"] /\ job' = job /\ Touched(w)
    BY <1>10, Zenon DEF Replace, Goto
  <2>2. QED
    BY <1>1, <1>2, <1>4, <2>1, SearchedByOthers, Zenon
<1>11. CASE FindPending(w)
  <2>1. PICK to : /\ at' = [at EXCEPT ![w] = to]
                  /\ to = IF \E i \in DOMAIN log : log[i].pending /\ Key(log[i]) = OwnKey(w)
                          THEN "save" ELSE "append"
    BY <1>11, Zenon DEF FindPending, Goto
  <2>2. log' = log /\ job' = job /\ stale' = [stale EXCEPT ![w] = FALSE]
    BY <1>11, Zenon DEF FindPending
  <2>3. ASSUME at'[w] = "append"
        PROVE  Free(w)'
    <3>1. to = "append"
      BY <1>1, <2>1, <2>3, Zenon
    <3>2. Free(w)
      BY <1>4, <2>1, <3>1, Zenon DEF Free
    <3>3. OwnKey(w)' = OwnKey(w)
      BY <2>2, Zenon DEF OwnKey
    <3>4. QED
      BY <2>2, <3>2, <3>3, Zenon DEF Free
  <2>4. QED
    BY <1>1, <1>3, <2>1, <2>2, <2>3, SearchedByOthers, Zenon
<1>12. CASE AppendDecision(w)
  <2>1. at' = [at EXCEPT ![w] = "save"] /\ job' = job /\ Touched(w)
    BY <1>12, Zenon DEF AppendDecision, Goto
  <2>2. QED
    BY <1>1, <1>2, <1>4, <2>1, SearchedByOthers, Zenon
<1>13. QED
  BY <1>5, <1>6, <1>7, <1>8, <1>9, <1>10, <1>11, <1>12, Zenon DEF LogStep

LEMMA SearchedKept ==
    ASSUME TypeOK, Searched, [Next]_vars
    PROVE  Searched'
<1>1. RunTyped /\ LogTyped
  BY TypeParts, Zenon
<1>2. ASSUME UNCHANGED <<at, job, log, stale>>
      PROVE  Searched'
  <2>1. \A v \in Workers : Free(v)' <=> Free(v)
    BY <1>2, Zenon DEF Free, OwnKey
  <2>2. QED
    BY <1>2, <2>1, Zenon DEF Searched
<1>3. ASSUME NEW w \in Workers, LogStep(w)
      PROVE  Searched'
  BY <1>1, <1>3, SearchedInLogStep, Zenon
<1>4. ASSUME NEW w \in Workers, NEW to, to # "append", at' = [at EXCEPT ![w] = to], log' = log,
             \A v \in Workers : v # w => job'[v] = job[v] /\ stale'[v] = stale[v]
      PROVE  Searched'
  <2>1. at'[w] = to /\ \A v \in Workers : v # w => at'[v] = at[v]
    BY <1>1, <1>4, HeldValues, Zenon DEF Alters
  <2>2. QED
    BY <1>4, <2>1, SearchedByOthers, Zenon
<1>5. ASSUME NEW w \in Workers, RunGraph(w) \/ SaveReports(w) \/ UploadTree(w) \/ Complete(w)
      PROVE  Searched'
  <2>1. log' = log /\ stale' = stale /\ job' = job
    <3>1. UNCHANGED logVars /\ job' = job
      BY <1>5, Zenon DEF RunGraph, SaveReports, UploadTree, Complete
    <3>2. QED
      BY <3>1 DEF logVars
  <2>2. \/ at' = at
        \/ \E to \in {"store", "save", "upload", "complete", "publish"} : at' = [at EXCEPT ![w] = to]
    BY <1>5, Zenon DEF RunGraph, SaveReports, UploadTree, Complete, Goto
  <2>3. \A to \in {"store", "save", "upload", "complete", "publish"} : to # "append"
    OBVIOUS
  <2>4. QED
    BY <1>2, <1>4, <2>1, <2>2, <2>3, Zenon
<1>6. ASSUME NEW w \in Workers, Take(w)
      PROVE  Searched'
  <2>1. UNCHANGED logVars /\ at' = [at EXCEPT ![w] = "resolve"]
    BY <1>6, Zenon DEF Take, Goto
  <2>2. \A v \in Workers : v # w => job'[v] = job[v]
    BY <1>1, <1>6 DEF Take, RunTyped
  <2>3. log' = log /\ stale' = stale
    BY <2>1 DEF logVars
  <2>4. "resolve" # "append"
    OBVIOUS
  <2>5. QED
    BY <1>4, <2>1, <2>2, <2>3, <2>4, Zenon
<1>7. ASSUME NEW w \in Workers, Stop(w)
      PROVE  Searched'
  <2>1. /\ at' = [at EXCEPT ![w] = "idle"] /\ log' = log /\ job' = [job EXCEPT ![w] = NoJob]
        /\ stale' = [stale EXCEPT ![w] = FALSE]
    BY <1>7, Zenon DEF Stop
  <2>2. \A v \in Workers : v # w => job'[v] = job[v]
    BY <1>1, <2>1 DEF RunTyped
  <2>3. \A v \in Workers : v # w => stale'[v] = stale[v]
    BY <1>1, <2>1, HeldValues, Zenon DEF Alters
  <2>4. "idle" # "append"
    OBVIOUS
  <2>5. QED
    BY <1>4, <2>1, <2>2, <2>3, <2>4, Zenon
<1>8. ASSUME NEW j \in Jobs, Retry(j)
      PROVE  Searched'
  <2>1. UNCHANGED <<at, job>> /\ UNCHANGED logVars
    BY <1>8, Zenon DEF Retry
  <2>2. log' = log /\ stale' = stale
    BY <2>1 DEF logVars
  <2>3. QED
    BY <1>2, <2>1, <2>2, Zenon
<1>9. CASE UNCHANGED vars
  <2>1. UNCHANGED <<at, job, log, stale>>
    BY <1>9 DEF vars, runVars, logVars
  <2>2. QED
    BY <1>2, <2>1, Zenon
<1>10. QED
  BY <1>1, <1>3, <1>5, <1>6, <1>7, <1>8, <1>9, StepCases, Zenon

LEMMA SameCardinality == \A S : Atomic!Cardinality(S) = Cardinality(S)
BY Zenon DEF Atomic!Cardinality, Cardinality

\* The batch and its rotation, seen from the log alone: blocks that wait are
\* resolved, and the rest keep their places but for those that are dropped.
LEMMA BatchSettles ==
    ASSUME log \in Seq(Blocks), NEW ups \in Seq(Blocks), log' = ApplyRotation(Batch(log, ups))
    PROVE  \E known \in SUBSET Atomic!Waiting : Atomic!Settle(known)
<1>. DEFINE b == Batch(log, ups)
            known == Hits(log, ups)
            kept == Rotated(b)
            resolved == (DOMAIN Entries \ {i \in DOMAIN Entries : Entries[i].pending}) \cup known
            place == [n \in 1..Cardinality(kept) |-> Nth(kept, n)]
<1>1. /\ b \in Seq(Blocks) /\ DOMAIN b = DOMAIN log
      /\ \A i \in DOMAIN log :
            /\ b[i].decision = log[i].decision
            /\ i \notin known => b[i] = log[i]
            /\ i \in known => log[i].pending /\ ~ b[i].pending
  BY Batched, ZenonT(40)
<1>2. /\ DOMAIN Entries = DOMAIN log
      /\ \A i \in DOMAIN log : /\ Entries[i].decision = log[i].decision
                              /\ Entries[i].pending = log[i].pending
  BY DEF Entries
<1>3. known \in SUBSET (DOMAIN log) /\ DOMAIN Entries = DOMAIN log
  BY <1>2, Zenon DEF Hits
<1>. HIDE DEF b, known
<1>4. resolved = Resolved(b)
  <2>1. ASSUME NEW i \in DOMAIN log
        PROVE  i \in resolved <=> ~ b[i].pending
    BY <1>1, <1>2, <1>3, <2>1, Zenon
  <2>2. resolved \in SUBSET (DOMAIN log) /\ Resolved(b) \in SUBSET (DOMAIN log)
    BY <1>1, <1>3, Zenon DEF Resolved
  <2>. HIDE DEF resolved
  <2>3. \A i : i \in resolved <=> i \in Resolved(b)
    BY <1>1, <2>1, <2>2, Zenon DEF Resolved
  <2>4. QED
    BY <2>3
<1>5. known \in SUBSET {i \in DOMAIN Entries : Entries[i].pending}
  BY <1>1, <1>2, <1>3, Zenon
<1>6. /\ kept \in SUBSET (DOMAIN log)
      /\ log' = Pick(b, kept) /\ log' \in Seq(Blocks)
      /\ DOMAIN log' = 1..Cardinality(kept) /\ Takes(log', b, kept)
  <2>1. kept \in SUBSET (DOMAIN b)
    BY <1>1, RotationFacts, Zenon
  <2>2. log' = Pick(b, kept)
    BY Zenon DEF ApplyRotation, b
  <2>3. QED
    BY <1>1, <2>1, <2>2, Picked, Zenon
<1>. HIDE DEF kept, resolved
<1>7. /\ \A n \in 1..Cardinality(kept) : Nth(kept, n) \in kept /\ log'[n] = b[Nth(kept, n)]
      /\ \A m, n \in 1..Cardinality(kept) : m < n <=> Nth(kept, m) < Nth(kept, n)
  BY <1>6, Zenon DEF Takes
<1>8. /\ place \in [1..Cardinality(kept) -> kept]
      /\ DOMAIN place = 1..Cardinality(kept)
      /\ \A n \in DOMAIN place : place[n] = Nth(kept, n)
  BY <1>7, Zenon
<1>. HIDE DEF place
<1>9. ASSUME NEW m \in DOMAIN place, NEW n \in DOMAIN place, m < n
      PROVE  place[m] < place[n]
  <2>1. place[m] = Nth(kept, m) /\ place[n] = Nth(kept, n) /\ Nth(kept, m) < Nth(kept, n)
    BY <1>7, <1>8, <1>9, Zenon
  <2>2. QED
    BY <2>1
<1>10. kept = {i \in DOMAIN Entries :
                i \in resolved /\ MaxEntries # 0 => Cardinality({k \in resolved : k > i}) < MaxEntries}
  <2>1. ASSUME NEW i \in DOMAIN log
        PROVE  i \in kept <=> (i \in resolved /\ MaxEntries # 0
                                => Cardinality({k \in resolved : k > i}) < MaxEntries)
    <3>1. i \in resolved <=> ~ b[i].pending
      BY <1>1, <1>4, <2>1, Zenon DEF Resolved
    <3>2. i \in kept <=> \/ b[i].pending
                         \/ MaxEntries = 0
                         \/ Cardinality({k \in resolved : k > i}) < MaxEntries
      BY <1>1, <1>4, <2>1, Zenon DEF kept, Rotated
    <3>3. QED
      BY <3>1, <3>2, Zenon
  <2>2. \A i : i \in kept <=> i \in {j \in DOMAIN Entries :
                j \in resolved /\ MaxEntries # 0 => Cardinality({k \in resolved : k > j}) < MaxEntries}
    BY <1>3, <1>6, <2>1, Zenon
  <2>3. QED
    BY <2>2
<1>11. Entries'
        = [n \in DOMAIN place |-> [decision |-> Entries[place[n]].decision,
                                   pending |-> place[n] \notin resolved]]
  <2>1. ASSUME NEW n \in DOMAIN place
        PROVE  /\ log'[n].decision = Entries[place[n]].decision
               /\ log'[n].pending = (place[n] \notin resolved)
    <3>1. place[n] \in DOMAIN log /\ log'[n] = b[place[n]]
      BY <1>6, <1>7, <1>8, <2>1, Zenon
    <3>2. b[place[n]].pending \in BOOLEAN
      BY <1>1, <3>1, BlockFields, Zenon
    <3>3. place[n] \in resolved <=> ~ b[place[n]].pending
      BY <1>1, <1>4, <3>1, Zenon DEF Resolved
    <3>4. log'[n].decision = Entries[place[n]].decision
      BY <1>1, <1>2, <3>1
    <3>5. QED
      BY <3>1, <3>2, <3>3, <3>4, Zenon
  <2>2. DOMAIN log' = DOMAIN place
    BY <1>6, <1>8, Zenon
  <2>3. Entries' = [n \in DOMAIN place |-> [decision |-> log'[n].decision, pending |-> log'[n].pending]]
    BY <2>2, Zenon DEF Entries
  <2>4. QED
    BY <2>1, <2>3, Zenon
<1>12. Atomic!Settle(known)
  BY <1>8, <1>9, <1>10, <1>11, SameCardinality, Zenon DEF Atomic!Settle, Atomic!Waiting, resolved
<1>13. known \in SUBSET Atomic!Waiting
  BY <1>5, Zenon DEF Atomic!Waiting
<1>14. QED
  BY <1>12, <1>13

\* The decision that store_decision appends, if its search still holds.
LEMMA AppendStores ==
    ASSUME RunTyped, Hands, LogTyped, Searched, NEW w \in Workers, AppendDecision(w), ~ raced'
    PROVE  \E d \in Decisions : Atomic!Store(d)
<1>. DEFINE d == Decision(w)
            b == Pending(Decision(w))
            e == [decision |-> d, pending |-> TRUE]
<1>1. /\ at[w] = "append" /\ ~ stale[w] /\ log' = Append(log, b)
  BY Zenon DEF AppendDecision, Goto
<1>2. at[w] # "idle"
  BY <1>1
<1>3. d \in Decisions /\ b \in Blocks /\ log \in Seq(Blocks)
  BY <1>2, DecisionTyped, Zenon DEF LogTyped
<1>4. /\ DOMAIN Entries = DOMAIN log
      /\ \A i \in DOMAIN log : /\ Entries[i].decision = log[i].decision
                              /\ Entries[i].pending = log[i].pending
  BY DEF Entries
<1>5. \A x \in Decisions :
        [y \in Decisions |-> <<DateOf[y.job], TickerOf[y.job]>>][x] = <<DateOf[x.job], TickerOf[x.job]>>
  BY Zenon
<1>6. ASSUME NEW i \in Atomic!Waiting
      PROVE  <<DateOf[Entries[i].decision.job], TickerOf[Entries[i].decision.job]>>
                # <<DateOf[d.job], TickerOf[d.job]>>
  <2>1. i \in DOMAIN log /\ log[i].pending
    BY <1>4, <1>6, Zenon DEF Atomic!Waiting
  <2>2. Key(log[i]) # OwnKey(w)
    BY <1>1, <2>1, Zenon DEF Searched, Free
  <2>3. d.job = job[w]
    BY DEF Decision
  <2>4. Entries[i].decision = log[i].decision
    BY <1>4, <2>1, Zenon
  <2>5. QED
    BY <2>2, <2>3, <2>4, Zenon DEF Key, Ticker, OwnKey
<1>7. \A i \in Atomic!Waiting : Entries[i].decision \in Decisions
  BY <1>3, <1>4, BlockFields, Zenon DEF Atomic!Waiting
<1>8. Entries' = Append(Entries, e)
  <2>1. /\ Len(log) \in Nat /\ DOMAIN log = 1..Len(log)
        /\ DOMAIN log' = 1..(Len(log) + 1)
        /\ \A i \in 1..Len(log) : log'[i] = log[i]
        /\ log'[Len(log) + 1] = b
    BY <1>1, <1>3, AppendProperties, LenProperties
  <2>2. b.decision = d /\ b.pending = TRUE
    BY DEF Pending
  <2>. HIDE DEF b, d
  <2>3. Entries = [i \in 1..Len(log) |-> [decision |-> log[i].decision, pending |-> log[i].pending]]
    BY <2>1, Zenon DEF Entries
  <2>4. Len(Entries) = Len(log)
    BY <2>1, <2>3
  <2>5. Append(Entries, e) = [i \in 1..(Len(log) + 1) |-> IF i = Len(log) + 1 THEN e ELSE Entries[i]]
    BY <2>1, <2>3, <2>4
  <2>6. Entries' = [i \in 1..(Len(log) + 1) |-> [decision |-> log'[i].decision, pending |-> log'[i].pending]]
    BY <2>1, Zenon DEF Entries
  <2>7. ASSUME NEW i \in 1..(Len(log) + 1)
        PROVE  [decision |-> log'[i].decision, pending |-> log'[i].pending]
                = IF i = Len(log) + 1 THEN e ELSE Entries[i]
    <3>1. CASE i = Len(log) + 1
      BY <2>1, <2>2, <3>1, Zenon
    <3>2. CASE i # Len(log) + 1
      <4>1. i \in 1..Len(log)
        BY <2>1, <3>2
      <4>2. QED
        BY <2>1, <2>3, <3>2, <4>1, Zenon
    <3>3. QED
      BY <3>1, <3>2
  <2>8. QED
    BY <2>5, <2>6, <2>7, Zenon
<1>9. Atomic!Store(d)
  BY <1>3, <1>5, <1>6, <1>7, <1>8, Zenon DEF Atomic!Store
<1>10. QED
  BY <1>3, <1>9

\* Every step is one operation of the log, or none, unless it races.
LEMMA StepIsAtomic ==
    ASSUME IInv, Searched, [Next]_vars, ~ raced'
    PROVE  log' = log \/ Atomic!Next
<1>1. RunTyped /\ LogTyped /\ Hands /\ Kept
  BY TypeParts, Zenon DEF IInv
<1>2. ASSUME NEW w \in Workers, Replace(w)
      PROVE  Atomic!Next
  <2>1. /\ at[w] = "replace" /\ ~ raced /\ ~ stale[w] /\ log' = text[w]
    BY <1>2, Zenon DEF Replace, Goto
  <2>2. log' = ApplyRotation(Batch(log, updates[w]))
    BY <1>1, <2>1, WatchedNames, Zenon DEF Kept, KeptBy
  <2>3. log \in Seq(Blocks) /\ updates[w] \in Seq(Blocks)
    BY <1>1, HeldTyped, NoBlocks, Zenon DEF LogTyped
  <2>4. QED
    BY <2>2, <2>3, BatchSettles, Zenon DEF Atomic!Next
<1>3. ASSUME NEW w \in Workers, LogStep(w)
      PROVE  log' = log \/ Atomic!Next
  <2>1. CASE AppendDecision(w)
    BY <1>1, <2>1, AppendStores, Zenon DEF Atomic!Next
  <2>2. CASE Replace(w)
    BY <1>2, <2>2, Zenon
  <2>3. CASE WriteTmp(w)
    BY <2>3, Zenon DEF WriteTmp
  <2>4. CASE ReadPending(w) \/ Reflect(w) \/ ReadLog(w) \/ OpenTmp(w) \/ FindPending(w)
    BY <2>4, Zenon DEF ReadPending, Reflect, ReadLog, OpenTmp, FindPending
  <2>5. QED
    BY <1>3, <2>1, <2>2, <2>3, <2>4, Zenon DEF LogStep
<1>4. ASSUME NEW w \in Workers,
             RunGraph(w) \/ SaveReports(w) \/ UploadTree(w) \/ Take(w) \/ Complete(w) \/ Stop(w)
      PROVE  log' = log
  BY <1>4, Zenon DEF RunGraph, SaveReports, UploadTree, Take, Complete, Stop, logVars
<1>5. ASSUME NEW j \in Jobs, Retry(j)
      PROVE  log' = log
  BY <1>5, Zenon DEF Retry, logVars
<1>6. CASE UNCHANGED vars
  BY <1>6, Zenon DEF vars, logVars
<1>7. QED
  BY <1>1, <1>3, <1>4, <1>5, <1>6, StepCases, Zenon

\* No search and no store of a worker is disturbed unseen.
LEMMA SearchesHold == Spec => []Searched
<1>1. Init => Searched
  <2>1. SUFFICES ASSUME Init PROVE Searched
    OBVIOUS
  <2>2. \A w \in Workers : at[w] # "append"
    BY <2>1 DEF Init
  <2>3. QED
    BY <2>2, Zenon DEF Searched
<1>2. TypeOK /\ Searched /\ [Next]_vars => Searched'
  BY SearchedKept
<1>3. QED
  BY <1>1, <1>2, TypeCorrect, PTL DEF Spec

\* The readings and writings of all workers come down to one operation at a
\* time on the log (store_decision, batch_update_with_outcomes), up to the
\* first write that rests on a stale reading.
THEOREM LogIsAtomic == Spec => WritesAreAtomic
<1>1. IInv /\ Searched /\ [Next]_vars => [raced' \/ log' = log \/ Atomic!Next]_vars
  BY StepIsAtomic, Zenon
<1>2. QED
  BY <1>1, Invariant, SearchesHold, PTL DEF Spec, WritesAreAtomic

\* A behaviour in which no write rests on a stale reading is one of the log
\* that takes every operation as one step, whatever raises and whoever dies.
THEOREM UnracedLogIsAtomic == Spec /\ []~ raced => Atomic!Spec
<1>1. Init => Atomic!Init
  <2>1. SUFFICES ASSUME Init PROVE Entries = <<>>
    BY Zenon DEF Atomic!Init
  <2>2. log = <<>>
    BY <2>1, Zenon DEF Init
  <2>3. QED
    BY <2>2 DEF Entries
<1>2. IInv /\ Searched /\ ~ raced' /\ [Next]_vars => [Atomic!Next]_Entries
  <2>1. SUFFICES ASSUME IInv, Searched, ~ raced', [Next]_vars PROVE Entries' = Entries \/ Atomic!Next
    OBVIOUS
  <2>2. log' = log => Entries' = Entries
    BY DEF Entries
  <2>3. QED
    BY <2>1, <2>2, StepIsAtomic, Zenon
<1>3. QED
  BY <1>1, <1>2, Invariant, SearchesHold, PTL DEF Spec, Atomic!Spec

\* One worker, which cannot race, implements that log (store_decision,
\* batch_update_with_outcomes, _apply_rotation).
THEOREM OneWorkerIsAtomic == (\A v, w \in Workers : v = w) => (Spec => Atomic!Spec)
<1>. SUFFICES ASSUME \A v, w \in Workers : v = w PROVE Spec => Atomic!Spec
  OBVIOUS
<1>1. Spec => []Undisturbed
  BY OneWorkerIsUndisturbed
<1>2. Undisturbed => ~ raced
  BY DEF Undisturbed
<1>3. QED
  BY <1>1, <1>2, UnracedLogIsAtomic, PTL

-----------------------------------------------------------------------------
(* The rows of the jobs                                                     *)

\* The life that JobLifecycle gives a job; here its row is there from the start.
Lifecycle == INSTANCE JobLifecycle

\* Whatever raises and whoever dies, the status of a job moves as it may:
\* process_job and retry_analysis write what JobLifecycle says, for the runs
\* that leave these files too.
THEOREM RowsFollowLifecycle == Spec => [][Lifecycle!Next]_status
<1>1. IInv /\ [Next]_vars => [Lifecycle!Next]_status
  <2>1. SUFFICES ASSUME IInv, [Next]_vars, status' # status
                 PROVE  Lifecycle!Next
    OBVIOUS
  <2>2. RunTyped /\ Hands
    BY <2>1, TypeParts, Zenon DEF IInv
  <2>3. ASSUME NEW w \in Workers, at[w] # "idle"
        PROVE  job[w] \in Jobs /\ status[job[w]] \in {"running", "completed"}
    BY <2>2, <2>3 DEF Hands
  <2>4. ASSUME NEW w \in Workers, Take(w)
        PROVE  Lifecycle!Next
    <3>1. PICK j \in Jobs : status[j] = "queued" /\ status' = [status EXCEPT ![j] = "running"]
      BY <2>4, Zenon DEF Take
    <3>2. Lifecycle!Start(j)
      BY <3>1 DEF Lifecycle!Start, Lifecycle!Move
    <3>3. QED
      BY <3>2, Zenon DEF Lifecycle!Next
  <2>5. ASSUME NEW w \in Workers, Complete(w)
        PROVE  Lifecycle!Next
    <3>1. at[w] = "complete" /\ status' = [status EXCEPT ![job[w]] = "completed"]
      BY <2>5, Zenon DEF Complete, Goto
    <3>2. job[w] \in Jobs /\ status[job[w]] = "running"
      BY <2>2, <3>1 DEF Hands
    <3>3. Lifecycle!Complete(job[w])
      BY <3>1, <3>2 DEF Lifecycle!Complete, Lifecycle!Move
    <3>4. QED
      BY <3>2, <3>3, Zenon DEF Lifecycle!Next
  <2>6. ASSUME NEW w \in Workers, Fail(w)
        PROVE  Lifecycle!Next
    <3>1. at[w] # "idle" /\ status' = [status EXCEPT ![job[w]] = "failed"]
      BY <2>6, Zenon DEF Fail, Stop
    <3>2. Lifecycle!Fail(job[w])
      BY <2>3, <3>1, Zenon DEF Lifecycle!Fail, Lifecycle!Move
    <3>3. QED
      BY <2>3, <3>1, <3>2, Zenon DEF Lifecycle!Next
  <2>7. ASSUME NEW j \in Jobs, Retry(j)
        PROVE  Lifecycle!Next
    <3>1. Lifecycle!Retry(j)
      BY <2>7 DEF Retry, Lifecycle!Retry, Lifecycle!Move
    <3>2. QED
      BY <3>1, Zenon DEF Lifecycle!Next
  <2>8. ASSUME NEW w \in Workers,
               LogStep(w) \/ RunGraph(w) \/ SaveReports(w) \/ UploadTree(w) \/ Publish(w) \/ Crash(w)
        PROVE  status' = status
    BY <2>8, Zenon DEF LogStep, RunGraph, SaveReports, UploadTree, Publish, Crash
  <2>9. UNCHANGED vars => status' = status
    BY DEF vars, runVars
  <2>10. QED
    BY <2>1, <2>4, <2>5, <2>6, <2>7, <2>8, <2>9, Zenon DEF Next
<1>2. QED
  BY <1>1, Invariant, PTL DEF Spec

=============================================================================
