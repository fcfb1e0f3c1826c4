-------------------------- MODULE SchedulingProofs --------------------------
(* Proofs about Scheduling, for any number of threads, any bursts, arrivals  *)
(* and quantum.                                                              *)
EXTENDS Scheduling, FiniteSetTheorems, SequenceTheorems, WellFoundedInduction, TLAPS

-----------------------------------------------------------------------------
(* Orders.                                                                   *)

Less == {p \in Nat \X Nat : p[1] < p[2]}

LEMMA SmallestNumber ==
  ASSUME NEW S \in SUBSET Nat, S # {}
  PROVE  \E m \in S : \A k \in S : m <= k
<1>1. IsWellFoundedOn(Less, Nat)
  <2>1. OpToRel(<, Nat) = Less
    BY Zenon DEF OpToRel, Less
  <2> QED
    BY <2>1, NatLessThanWellFounded, Zenon
<1>2. PICK m \in S : \A k \in S : <<k, m>> \notin Less
  BY <1>1, WFMin
<1>3. ASSUME NEW k \in S PROVE m <= k
  <2>1. k \in Nat /\ m \in Nat /\ <<k, m>> \notin Less
    BY <1>2
  <2> QED
    BY <2>1 DEF Less
<1> QED
  BY <1>3

\* What holds of n, and of each number before with the next one, holds of all.
LEMMA Backwards ==
  ASSUME NEW n \in Nat, NEW S, n \in S, \A i \in 0 .. n - 1 : i + 1 \in S => i \in S
  PROVE  \A i \in 0 .. n : i \in S
<1> DEFINE Bad == {k \in 0 .. n : n - k \notin S}
<1>1. SUFFICES ASSUME NEW i \in 0 .. n, i \notin S PROVE FALSE
  OBVIOUS
<1>2. n - i \in 0 .. n /\ n - (n - i) = i
  OBVIOUS
<1>3. n - i \in Bad
  BY <1>1, <1>2
<1>4. Bad \in SUBSET Nat /\ Bad # {}
  <2>1. Bad \in SUBSET Nat
    OBVIOUS
  <2> HIDE DEF Bad
  <2> QED
    BY <1>3, <2>1
<1>5. PICK b \in Bad : \A c \in Bad : b <= c
  BY <1>4, SmallestNumber
<1>6. b \in 0 .. n /\ n - b \notin S
  BY <1>5
<1>7. b # 0
  BY <1>6
<1>8. b - 1 \in 0 .. n /\ ~ b <= b - 1 /\ n - b \in 0 .. n - 1 /\ n - (b - 1) = (n - b) + 1
  BY <1>6, <1>7
<1>9. n - (b - 1) \in S
  BY <1>5, <1>8
<1> QED
  BY <1>6, <1>8, <1>9

Keyed(S, key) == S \in SUBSET Nat /\ \A i \in S : key[i] \in Nat

\* Every set of threads has a first one.
LEMMA FirstExists ==
  ASSUME NEW S, NEW key, Keyed(S, key), S # {}
  PROVE  \E i \in S : \A j \in S : i = j \/ Before(key, i, j)
<1>1. PICK v \in {key[i] : i \in S} : \A w \in {key[i] : i \in S} : v <= w
  <2>1. {key[i] : i \in S} \in SUBSET Nat /\ {key[i] : i \in S} # {}
    BY DEF Keyed
  <2> QED
    BY <2>1, SmallestNumber
<1>2. PICK m \in {i \in S : key[i] = v} : \A i \in {i \in S : key[i] = v} : m <= i
  <2>1. {i \in S : key[i] = v} \in SUBSET Nat /\ {i \in S : key[i] = v} # {}
    BY <1>1 DEF Keyed
  <2> QED
    BY <2>1, SmallestNumber
<1>3. ASSUME NEW j \in S, m # j PROVE Before(key, m, j)
  <2>1. key[m] = v /\ v <= key[j] /\ key[m] \in Nat /\ key[j] \in Nat /\ m \in Nat /\ j \in Nat
    BY <1>1, <1>2 DEF Keyed
  <2>2. key[j] = v => m <= j
    BY <1>2
  <2> QED
    BY <1>3, <2>1, <2>2 DEF Before
<1> QED
  BY <1>2, <1>3

\* FirstBy is this thread, and no other is less by the key.
LEMMA FirstByLeast ==
  ASSUME NEW S, NEW key, Keyed(S, key), S # {}
  PROVE  FirstBy(S, key) \in S /\ \A j \in S : key[FirstBy(S, key)] <= key[j]
<1> DEFINE f == FirstBy(S, key)
<1>1. f \in S /\ \A j \in S : f = j \/ Before(key, f, j)
  BY FirstExists DEF FirstBy
<1>2. ASSUME NEW j \in S PROVE key[f] <= key[j]
  <2>1. key[f] \in Nat /\ key[j] \in Nat
    BY <1>1 DEF Keyed
  <2> QED
    BY <1>1, <2>1 DEF Before
<1> QED
  BY <1>1, <1>2

Sorted(s, S, key) ==
  /\ s \in [1 .. Cardinality(S) -> S]
  /\ \A k, m \in 1 .. Cardinality(S) : k < m => Before(key, s[k], s[m])

\* A set of one thread more can be sorted: the first comes first.
LEMMA SortOneMore ==
  ASSUME NEW S, NEW key, Keyed(S, key), IsFiniteSet(S), S # {},
         \A m \in S : \E s : Sorted(s, S \ {m}, key)
  PROVE  \E s : Sorted(s, S, key)
<1>1. PICK m \in S : \A j \in S : m = j \/ Before(key, m, j)
  BY FirstExists
<1>2. PICK f : Sorted(f, S \ {m}, key)
  OBVIOUS
<1> DEFINE n == Cardinality(S)
<1>3. n \in Nat /\ n # 0 /\ Cardinality(S \ {m}) = n - 1
  BY FS_CardinalityType, FS_RemoveElement, FS_EmptySet
<1> HIDE DEF n
<1> DEFINE g == [k \in 1 .. n |-> IF k = 1 THEN m ELSE f[k - 1]]
<1>4. \A k \in 1 .. n : k # 1 => g[k] = f[k - 1] /\ k - 1 \in 1 .. n - 1
  BY <1>3
<1>5. \A k \in 1 .. n - 1 : f[k] \in S \ {m}
  BY <1>2, <1>3 DEF Sorted
<1>6. g \in [1 .. n -> S]
  BY <1>4, <1>5
<1>7. ASSUME NEW k \in 1 .. n, NEW j \in 1 .. n, k < j PROVE Before(key, g[k], g[j])
  <2>1. j # 1 /\ j - 1 \in 1 .. n - 1 /\ g[j] = f[j - 1] /\ g[j] \in S \ {m}
    BY <1>4, <1>5, <1>7, <1>3
  <2>2. CASE k = 1
    BY <1>1, <2>1, <2>2
  <2>3. CASE k # 1
    <3>1. g[k] = f[k - 1] /\ k - 1 \in 1 .. n - 1 /\ k - 1 < j - 1
      BY <1>4, <1>7, <2>3
    <3>2. \A a, b \in 1 .. n - 1 : a < b => Before(key, f[a], f[b])
      BY <1>2, <1>3 DEF Sorted
    <3> HIDE DEF g
    <3> QED
      BY <2>1, <3>1, <3>2
  <2> QED
    BY <2>2, <2>3
<1>8. Sorted(g, S, key)
  <2> HIDE DEF g
  <2> QED
    BY <1>6, <1>7 DEF Sorted, n
<1> QED
  BY <1>8

LEMMA SortExists ==
  ASSUME NEW S, NEW key, Keyed(S, key), IsFiniteSet(S)
  PROVE  \E s : Sorted(s, S, key)
<1> DEFINE Unsorted == {n \in Nat : \E T \in SUBSET S :
                          Cardinality(T) = n /\ ~ \E s : Sorted(s, T, key)}
<1>1. SUFFICES ASSUME Unsorted # {} PROVE FALSE
  BY FS_CardinalityType
<1>2. PICK n \in Unsorted : \A k \in Unsorted : n <= k
  BY <1>1, SmallestNumber
<1>3. PICK T \in SUBSET S : Cardinality(T) = n /\ ~ \E s : Sorted(s, T, key)
  BY <1>2
<1>4. IsFiniteSet(T) /\ Keyed(T, key)
  BY FS_Subset DEF Keyed
<1>5. T # {}
  <2>1. ASSUME T = {} PROVE FALSE
    <3>1. Cardinality(T) = 0
      BY <2>1, FS_EmptySet
    <3>2. Sorted([k \in 1 .. 0 |-> k], T, key)
      BY <3>1 DEF Sorted
    <3> QED
      BY <3>2, <1>3
  <2> QED
    BY <2>1
<1>6. \A m \in T : \E s : Sorted(s, T \ {m}, key)
  <2> TAKE m \in T
  <2>1. Cardinality(T \ {m}) = n - 1 /\ n \in Nat /\ n # 0
    BY <1>2, <1>3, <1>4, <1>5, FS_RemoveElement, FS_EmptySet
  <2>2. n - 1 \notin Unsorted
    BY <1>2, <2>1
  <2> QED
    BY <2>1, <2>2
<1> QED
  BY <1>3, <1>4, <1>5, <1>6, SortOneMore

-----------------------------------------------------------------------------
(* Queues.                                                                   *)

\* From place h on, the sequence has the members of S, each once.
Lists(s, h, S) ==
  /\ \A k \in h + 1 .. Len(s) : s[k] \in S
  /\ \A i \in S : \E k \in h + 1 .. Len(s) : s[k] = i
  /\ \A k, m \in h + 1 .. Len(s) : s[k] = s[m] => k = m

LEMMA InOrderLists ==
  ASSUME NEW S, NEW key, Keyed(S, key), IsFiniteSet(S)
  PROVE  InOrder(S, key) \in Seq(S) /\ Lists(InOrder(S, key), 0, S)
<1> DEFINE s == InOrder(S, key)
           n == Cardinality(S)
<1>1. Sorted(s, S, key)
  BY SortExists DEF InOrder, Sorted
<1>2. n \in Nat /\ s \in [1 .. n -> S]
  BY <1>1, FS_CardinalityType DEF Sorted
<1>3. \A k, m \in 1 .. n : k < m => s[k] # s[m]
  <2> TAKE k, m \in 1 .. n
  <2>1. HAVE k < m
  <2>2. Before(key, s[k], s[m]) /\ s[k] \in Nat /\ key[s[k]] \in Nat
    BY <1>1, <1>2, <2>1 DEF Sorted, Keyed
  <2> QED
    BY <2>2 DEF Before
<1> HIDE DEF s, n
<1>4. \A k, m \in 1 .. n : s[k] = s[m] => k = m
  BY <1>2, <1>3
<1>5. s \in Injection(1 .. n, S)
  BY <1>2, <1>4 DEF Injection, IsInjective
<1>6. s \in Surjection(1 .. n, S)
  <2>1. Cardinality(1 .. n) = Cardinality(S) /\ IsFiniteSet(1 .. n)
    BY <1>2, FS_Interval DEF n
  <2> QED
    BY <1>5, <2>1, FS_Injection
<1>7. \A i \in S : \E k \in 1 .. n : s[k] = i
  BY <1>6 DEF Surjection
<1>8. s \in Seq(S) /\ Len(s) = n
  BY <1>2
<1>9. Lists(s, 0, S)
  BY <1>2, <1>4, <1>7, <1>8 DEF Lists
<1> QED
  BY <1>8, <1>9 DEF s

LEMMA ListsConcat ==
  ASSUME NEW X, NEW s \in Seq(X), NEW t \in Seq(X), NEW h \in 0 .. Len(s),
         NEW S, NEW T, Lists(s, h, S), Lists(t, 0, T), S \cap T = {}
  PROVE  s \o t \in Seq(X) /\ Len(s \o t) = Len(s) + Len(t) /\ Lists(s \o t, h, S \cup T)
<1> DEFINE u == s \o t
<1>1. u \in Seq(X) /\ Len(u) = Len(s) + Len(t)
  OBVIOUS
<1>2. /\ \A k \in 1 .. Len(s) : u[k] = s[k]
      /\ \A k \in 1 .. Len(t) : u[k + Len(s)] = t[k]
  OBVIOUS
<1>3. Len(s) \in Nat /\ Len(t) \in Nat
  OBVIOUS
<1> HIDE DEF u
<1>4. \A k \in h + 1 .. Len(u) :
        \/ k \in h + 1 .. Len(s) /\ u[k] = s[k] /\ u[k] \in S
        \/ k - Len(s) \in 1 .. Len(t) /\ u[k] = t[k - Len(s)] /\ u[k] \in T
  <2> TAKE k \in h + 1 .. Len(u)
  <2>1. CASE k <= Len(s)
    BY <2>1, <1>2, <1>3 DEF Lists
  <2>2. CASE k > Len(s)
    <3>1. k - Len(s) \in 1 .. Len(t)
      BY <2>2, <1>1, <1>3
    <3>2. u[k] = t[k - Len(s)]
      BY <3>1, <1>2, <1>3
    <3> QED
      BY <3>1, <3>2 DEF Lists
  <2> QED
    BY <2>1, <2>2, <1>3
<1>5. \A i \in S : \E k \in h + 1 .. Len(u) : u[k] = i
  <2> TAKE i \in S
  <2>1. PICK k \in h + 1 .. Len(s) : s[k] = i
    BY DEF Lists
  <2> QED
    BY <2>1, <1>1, <1>2, <1>3
<1>6. \A i \in T : \E k \in h + 1 .. Len(u) : u[k] = i
  <2> TAKE i \in T
  <2>1. PICK k \in 1 .. Len(t) : t[k] = i
    BY DEF Lists
  <2>2. k + Len(s) \in h + 1 .. Len(u) /\ u[k + Len(s)] = i
    BY <2>1, <1>1, <1>2, <1>3
  <2> QED
    BY <2>2
<1>7. ASSUME NEW k \in h + 1 .. Len(u), NEW m \in h + 1 .. Len(u), u[k] = u[m]
      PROVE  k = m
  <2>1. CASE k \in h + 1 .. Len(s) /\ m \in h + 1 .. Len(s)
    BY <1>7, <2>1, <1>2, <1>3 DEF Lists
  <2>2. CASE k - Len(s) \in 1 .. Len(t) /\ m - Len(s) \in 1 .. Len(t)
    <3>1. PICK a \in 1 .. Len(t), b \in 1 .. Len(t) : a = k - Len(s) /\ b = m - Len(s)
      BY <2>2
    <3>2. k = a + Len(s) /\ m = b + Len(s)
      BY <1>3, <3>1
    <3>3. t[a] = t[b]
      BY <1>2, <1>7, <3>2
    <3>4. a = b
      BY <3>3 DEF Lists
    <3> QED
      BY <3>2, <3>4
  <2> QED
    BY <1>4, <1>7, <2>1, <2>2
<1>8. Lists(u, h, S \cup T)
  BY <1>4, <1>5, <1>6, <1>7 DEF Lists
<1> QED
  BY <1>1, <1>8 DEF u

LEMMA ListsSingle == ASSUME NEW i PROVE Lists(<<i>>, 0, {i})
BY DEF Lists

\* The first of those that wait is taken.
LEMMA ListsTake ==
  ASSUME NEW X, NEW s \in Seq(X), NEW h \in Nat, h < Len(s), NEW S, Lists(s, h, S)
  PROVE  s[h + 1] \in S /\ Lists(s, h + 1, S \ {s[h + 1]})
<1>1. h + 1 \in h + 1 .. Len(s) /\ Len(s) \in Nat
  OBVIOUS
<1>2. \A k \in h + 1 + 1 .. Len(s) : k \in h + 1 .. Len(s) /\ k # h + 1
  BY <1>1
<1>3. \A k \in h + 1 .. Len(s) : k = h + 1 \/ k \in h + 1 + 1 .. Len(s)
  BY <1>1
<1> QED
  BY <1>1, <1>2, <1>3 DEF Lists

-----------------------------------------------------------------------------
(* The threads.                                                              *)

USE SchedulingAssumption

\* The threads that were drawn, which nothing changes.
Drawn ==
  /\ IsFiniteSet(Ids) /\ Ids \in SUBSET Nat
  /\ burst \in [Ids -> Nat \ {0}] /\ arrival \in [Ids -> Nat]

\* A thread is done when it has no work left.
Progress ==
  /\ time \in Nat
  /\ remaining \in [Ids -> Nat]
  /\ done = {i \in Ids : remaining[i] = 0}

\* The scheduler that is called, and those that are still to be.
Calls == {<<"none", <<"fifo", "rr", "sjf", "srtf">>>>,
          <<"fifo", <<"rr", "sjf", "srtf">>>>,
          <<"rr", <<"sjf", "srtf">>>>,
          <<"sjf", <<"srtf">>>>,
          <<"srtf", <<>>>>}

LEMMA CallsInOrder ==
  ASSUME NEW a, NEW t, <<a, t>> \in Calls, t # <<>>
  PROVE  <<Head(t), Tail(t)>> \in Calls /\ Head(t) # a
<1>1. /\ Tail(<<"fifo", "rr", "sjf", "srtf">>) = <<"rr", "sjf", "srtf">>
      /\ Tail(<<"rr", "sjf", "srtf">>) = <<"sjf", "srtf">>
      /\ Tail(<<"sjf", "srtf">>) = <<"srtf">>
      /\ Tail(<<"srtf">>) = <<>>
  OBVIOUS
<1>2. /\ Head(<<"fifo", "rr", "sjf", "srtf">>) = "fifo"
      /\ Head(<<"rr", "sjf", "srtf">>) = "rr"
      /\ Head(<<"sjf", "srtf">>) = "sjf"
      /\ Head(<<"srtf">>) = "srtf"
  OBVIOUS
<1> QED
  BY <1>1, <1>2 DEF Calls

\* Before the call of the next scheduler the last one has done all the work.
Calling ==
  /\ <<algo, todo>> \in Calls
  /\ pc = "main" /\ algo # "none" => done = Ids

\* Under RR the queue has those in_q says, each once, and all of them can run.
Queueing ==
  algo = "rr" =>
    /\ q \in Seq(Ids) /\ head \in 0 .. Len(q)
    /\ Lists(q, head, in_q)
    /\ \A i \in in_q : i \in Ids /\ arrival[i] <= time /\ remaining[i] > 0

ShareInv == Drawn /\ Progress /\ Calling /\ Queueing

LEMMA ShareInit == Init => ShareInv
<1> SUFFICES ASSUME Init PROVE ShareInv
  OBVIOUS
<1>1. PICK n \in MinThreads .. MaxThreads :
        /\ burst \in [0 .. n - 1 -> 1 .. MaxBurst]
        /\ arrival \in [0 .. n - 1 -> 0 .. MaxArrival]
  BY DEF Init
<1>2. n \in Nat /\ Ids = 0 .. n - 1
  BY <1>1 DEF Ids
<1>3. Drawn
  <2>1. IsFiniteSet(Ids) /\ Ids \in SUBSET Nat
    BY <1>2, FS_Interval
  <2>2. burst \in [Ids -> Nat \ {0}] /\ arrival \in [Ids -> Nat]
    BY <1>1, <1>2
  <2> QED
    BY <2>1, <2>2 DEF Drawn
<1>4. Progress
  BY <1>3 DEF Init, Drawn, Progress
<1>5. Calling /\ Queueing
  BY DEF Init, Calling, Calls, Order, Queueing
<1> QED
  BY <1>3, <1>4, <1>5 DEF ShareInv

LEMMA DrawnStep == Drawn /\ [Next]_vars => Drawn' /\ Ids' = Ids
BY DEF Drawn, Ids, Next, vars, logVars, RunAlgo, Return, Stopped, Elsewhere,
       FifoIdle, FifoRun, RrIdle, RrRun, SjfIdle, SjfRun, SrtfIdle, SrtfRun

LEMMA ReadyLeft ==
  ASSUME Drawn, Progress
  PROVE  /\ Ready = {i \in Ids : arrival[i] <= time /\ remaining[i] > 0}
         /\ Ready \in SUBSET Nat /\ IsFiniteSet(Ready)
<1>1. Ready = {i \in Ids : arrival[i] <= time /\ remaining[i] > 0}
  <2>1. \A i \in Ids : i \notin done <=> remaining[i] > 0
    BY DEF Progress
  <2> QED
    BY <2>1 DEF Ready
<1> QED
  BY <1>1, FS_Subset DEF Drawn

\* What RR puts in the queue before it takes a thread.
LEMMA Enqueued ==
  ASSUME Drawn, Progress, Queueing, algo = "rr"
  PROVE  /\ RrEnqueue \in Seq(Ids) /\ head \in 0 .. Len(RrEnqueue)
         /\ Lists(RrEnqueue, head, Ready)
         /\ Ready = in_q \cup RrNew
<1> DEFINE new == ByNumber(RrNew)
<1>1. RrNew \in SUBSET Ids /\ IsFiniteSet(RrNew) /\ RrNew \cap in_q = {}
  BY FS_Subset DEF Drawn, RrNew
<1>2. new \in Seq(RrNew) /\ Lists(new, 0, RrNew)
  <2>1. Keyed(RrNew, [i \in RrNew |-> i])
    BY <1>1 DEF Keyed, Drawn
  <2> QED
    BY <1>1, <2>1, InOrderLists DEF ByNumber
<1>3. new \in Seq(Ids)
  BY <1>1, <1>2
<1>4. q \in Seq(Ids) /\ head \in 0 .. Len(q) /\ Lists(q, head, in_q)
  BY DEF Queueing
<1>5. Ready = in_q \cup RrNew
  BY ReadyLeft DEF Queueing, RrNew
<1> HIDE DEF new
<1>6. /\ q \o new \in Seq(Ids) /\ Len(q \o new) = Len(q) + Len(new)
      /\ Lists(q \o new, head, in_q \cup RrNew)
  BY <1>1, <1>2, <1>3, <1>4, ListsConcat
<1>7. Len(q) \in Nat /\ Len(new) \in Nat
  BY <1>3, <1>4
<1> QED
  BY <1>4, <1>5, <1>6, <1>7 DEF RrEnqueue, new

LEMMA RrIdleReady == ASSUME ShareInv, RrIdle PROVE Ready = {}
<1>1. algo = "rr" /\ head >= Len(RrEnqueue)
  BY DEF RrIdle, Scheduling
<1>2. RrEnqueue \in Seq(Ids) /\ head \in 0 .. Len(RrEnqueue) /\ Lists(RrEnqueue, head, Ready)
  BY <1>1, Enqueued DEF ShareInv
<1>3. Len(RrEnqueue) \in Nat
  BY <1>2
<1>4. head + 1 .. Len(RrEnqueue) = {}
  BY <1>1, <1>2, <1>3
<1> QED
  BY <1>2, <1>4 DEF Lists

LEMMA RrSelected ==
  ASSUME ShareInv, algo = "rr", head < Len(RrEnqueue)
  PROVE  /\ RrEnqueue[head + 1] \in Ready
         /\ Lists(RrEnqueue, head + 1, Ready \ {RrEnqueue[head + 1]})
<1>1. RrEnqueue \in Seq(Ids) /\ head \in 0 .. Len(RrEnqueue) /\ Lists(RrEnqueue, head, Ready)
  BY Enqueued DEF ShareInv
<1>2. head \in Nat
  BY <1>1
<1> QED
  BY <1>1, <1>2, ListsTake

-----------------------------------------------------------------------------
(* A thread runs.                                                            *)

\* i has run for some of what it had left, from time on.
GetsCpu(i, units) ==
  /\ i \in Ready
  /\ units \in 1 .. remaining[i]
  /\ time' = time + units
  /\ remaining' = [remaining EXCEPT ![i] = remaining[i] - units]
  /\ done' = IF units = remaining[i] THEN done \cup {i} ELSE done

LEMMA RunProgress ==
  ASSUME Drawn, Progress, Ids' = Ids, NEW i, NEW units, GetsCpu(i, units)
  PROVE  Progress'
<1>1. /\ i \in Ids /\ remaining[i] \in Nat /\ units \in Nat /\ time \in Nat
      /\ units <= remaining[i] /\ remaining[i] - units \in Nat
  BY DEF GetsCpu, Progress, Ready
<1>2. time' \in Nat /\ remaining' \in [Ids -> Nat]
  BY <1>1 DEF GetsCpu, Progress
<1>3. done' = {j \in Ids : remaining'[j] = 0}
  <2>1. \A j \in Ids : remaining'[j] = IF j = i THEN remaining[i] - units ELSE remaining[j]
    BY DEF GetsCpu, Progress
  <2>2. remaining[i] - units = 0 <=> units = remaining[i]
    BY <1>1
  <2>3. i \notin done
    BY DEF GetsCpu, Ready
  <2>4. \A j \in Ids : j \in done <=> remaining[j] = 0
    BY DEF Progress
  <2>5. \A j \in Ids : j \in done' <=> remaining'[j] = 0
    BY <1>1, <2>1, <2>2, <2>3, <2>4 DEF GetsCpu
  <2>6. done' \subseteq Ids
    BY <1>1 DEF GetsCpu, Progress
  <2> QED
    BY <2>5, <2>6
<1> QED
  BY <1>2, <1>3 DEF Progress

LEMMA RunsToEnd ==
  ASSUME Drawn, Progress, NEW i \in Ready, RunToEnd(i)
  PROVE  GetsCpu(i, remaining[i])
<1>1. remaining[i] \in Nat /\ remaining[i] > 0
  BY ReadyLeft DEF Progress
<1>2. remaining[i] \in 1 .. remaining[i] /\ remaining[i] - remaining[i] = 0
  BY <1>1
<1> QED
  BY <1>2 DEF GetsCpu, RunToEnd, Complete

LEMMA FifoRuns ==
  ASSUME ShareInv, FifoRun
  PROVE  /\ GetsCpu(FifoSelect, remaining[FifoSelect])
         /\ \A j \in Ready : arrival[FifoSelect] <= arrival[j]
<1> DEFINE sel == FifoSelect
<1>1. sel \in Ready /\ \A j \in Ready : arrival[sel] <= arrival[j]
  <2>1. Keyed(Ready, arrival) /\ Ready # {}
    BY ReadyLeft DEF ShareInv, Drawn, Keyed, FifoRun
  <2> QED
    BY <2>1, FirstByLeast DEF FifoSelect
<1> HIDE DEF sel
<1>2. RunToEnd(sel)
  BY DEF FifoRun, sel
<1>3. GetsCpu(sel, remaining[sel])
  BY <1>1, <1>2, RunsToEnd DEF ShareInv
<1> QED
  BY <1>1, <1>3 DEF sel

LEMMA SjfRuns ==
  ASSUME ShareInv, SjfRun
  PROVE  LET sel == FirstBy(Ready, burst)
         IN  /\ GetsCpu(sel, remaining[sel])
             /\ \A j \in Ready : burst[sel] <= burst[j]
<1> DEFINE sel == FirstBy(Ready, burst)
<1>1. sel \in Ready /\ \A j \in Ready : burst[sel] <= burst[j]
  <2>1. Keyed(Ready, burst) /\ Ready # {}
    BY ReadyLeft DEF ShareInv, Drawn, Keyed, SjfRun
  <2> QED
    BY <2>1, FirstByLeast
<1> HIDE DEF sel
<1>2. RunToEnd(sel)
  BY DEF SjfRun, sel
<1>3. GetsCpu(sel, remaining[sel])
  BY <1>1, <1>2, RunsToEnd DEF ShareInv
<1> QED
  BY <1>1, <1>3 DEF sel

LEMMA SrtfRuns ==
  ASSUME ShareInv, SrtfRun
  PROVE  /\ GetsCpu(SrtfSelect, 1)
         /\ \A j \in Ready : remaining[SrtfSelect] <= remaining[j]
<1> DEFINE sel == SrtfSelect
<1>1. sel \in Ready /\ \A j \in Ready : remaining[sel] <= remaining[j]
  <2>1. Keyed(Ready, remaining) /\ Ready # {}
    BY ReadyLeft DEF ShareInv, Drawn, Progress, Keyed, SrtfRun
  <2> QED
    BY <2>1, FirstByLeast DEF SrtfSelect
<1> HIDE DEF sel
<1>2. remaining[sel] \in Nat /\ remaining[sel] > 0
  BY <1>1, ReadyLeft DEF ShareInv, Progress
<1>3. /\ time' = time + 1
      /\ remaining' = [remaining EXCEPT ![sel] = remaining[sel] - 1]
      /\ IF remaining[sel] = 1 THEN done' = done \cup {sel} ELSE done' = done
  BY DEF SrtfRun, sel, Complete
<1>4. GetsCpu(sel, 1)
  BY <1>1, <1>2, <1>3 DEF GetsCpu
<1> QED
  BY <1>1, <1>4 DEF sel

LEMMA RunTimeBounds ==
  ASSUME Progress, NEW i \in Ready
  PROVE  /\ RunTime(i) = IF remaining[i] > Quantum THEN Quantum ELSE remaining[i]
         /\ remaining[i] > 0 => RunTime(i) \in 1 .. remaining[i]
<1>1. remaining[i] \in Nat /\ Quantum \in Nat \ {0}
  BY DEF Progress, Ready
<1> QED
  BY <1>1 DEF RunTime

LEMMA RrRuns ==
  ASSUME ShareInv, RrRun
  PROVE  LET sel == RrEnqueue[head + 1]
         IN  GetsCpu(sel, RunTime(sel))
<1> DEFINE sel == RrEnqueue[head + 1]
           left == remaining[sel] - RunTime(sel)
<1>1. sel \in Ready
  BY RrSelected DEF RrRun, Scheduling
<1>2. /\ time' = time + RunTime(sel)
      /\ remaining' = [remaining EXCEPT ![sel] = left]
      /\ IF left > 0 THEN done' = done ELSE done' = done \cup {sel}
  BY DEF RrRun, Complete
<1> HIDE DEF sel
<1>3. remaining[sel] \in Nat /\ remaining[sel] > 0
  BY <1>1, ReadyLeft DEF ShareInv, Progress
<1>4. RunTime(sel) \in 1 .. remaining[sel]
  BY <1>1, <1>3, RunTimeBounds DEF ShareInv
<1>5. left > 0 <=> RunTime(sel) # remaining[sel]
  BY <1>3, <1>4
<1>6. GetsCpu(sel, RunTime(sel))
  BY <1>1, <1>2, <1>4, <1>5 DEF GetsCpu
<1> QED
  BY <1>6 DEF sel

\* The queue after the run: those that arrived meanwhile, and then the thread
\* that ran, if it has work left, follow the others.
LEMMA RrQueueing ==
  ASSUME ShareInv, RrRun, Ids' = Ids, arrival' = arrival
  PROVE  Queueing'
<1> DEFINE queued == RrEnqueue
           sel    == queued[head + 1]
           run    == RunTime(sel)
           left   == remaining[sel] - run
           inside == Ready \ {sel}
           came   == RrArrived(run, inside \cup {sel})
           both   == queued \o ByArrival(came)
<1>1. /\ queued \in Seq(Ids) /\ head \in 0 .. Len(queued) /\ head < Len(queued)
      /\ Ready = in_q \cup RrNew
  BY Enqueued DEF ShareInv, RrRun, Scheduling
<1>2. sel \in Ready /\ Lists(queued, head + 1, inside)
  BY RrSelected DEF RrRun, Scheduling
<1>3. head + 1 \in 0 .. Len(queued) /\ Len(queued) \in Nat
  BY <1>1
<1>4. /\ q' = IF left > 0 THEN Append(both, sel) ELSE both
      /\ head' = head + 1
      /\ in_q' = inside \cup came \cup (IF left > 0 THEN {sel} ELSE {})
  BY <1>1 DEF RrRun, RrRequeue
<1>5. GetsCpu(sel, run)
  BY RrRuns
<1>6. came \in SUBSET Ids /\ IsFiniteSet(came) /\ came \cap inside = {} /\ sel \notin came
  BY FS_Subset DEF RrArrived, ShareInv, Drawn
<1>7. ByArrival(came) \in Seq(came) /\ Lists(ByArrival(came), 0, came)
  <2>1. Keyed(came, arrival)
    BY <1>6 DEF Keyed, ShareInv, Drawn
  <2> QED
    BY <1>6, <2>1, InOrderLists DEF ByArrival
<1>8. ByArrival(came) \in Seq(Ids)
  <2> HIDE DEF came
  <2> QED
    BY <1>6, <1>7
<1>9. /\ both \in Seq(Ids) /\ Len(both) = Len(queued) + Len(ByArrival(came))
      /\ Lists(both, head + 1, inside \cup came)
  <2> HIDE DEF queued, inside, came
  <2> QED
    BY <1>1, <1>2, <1>3, <1>6, <1>7, <1>8, ListsConcat
<1>10. /\ sel \in Ids /\ sel \notin inside \cup came
       /\ Ready \in SUBSET Ids
  BY <1>2, <1>6 DEF Ready
<1>11. Len(both) \in Nat /\ head + 1 \in 0 .. Len(both)
  BY <1>3, <1>8, <1>9
<1>12. q' \in Seq(Ids) /\ head' \in 0 .. Len(q') /\ Lists(q', head', in_q')
  <2> HIDE DEF queued, both, inside, came, left, run, sel
  <2>1. CASE left > 0
    <3>1. <<sel>> \in Seq(Ids) /\ Lists(<<sel>>, 0, {sel}) /\ Len(<<sel>>) = 1
      BY <1>10, ListsSingle
    <3>2. (inside \cup came) \cap {sel} = {}
      BY <1>10
    <3>3. /\ both \o <<sel>> \in Seq(Ids) /\ Len(both \o <<sel>>) = Len(both) + Len(<<sel>>)
          /\ Lists(both \o <<sel>>, head + 1, inside \cup came \cup {sel})
      BY <1>9, <1>11, <3>1, <3>2, ListsConcat
    <3>4. Append(both, sel) = both \o <<sel>>
      BY <1>9, <1>10
    <3> QED
      BY <1>4, <1>11, <2>1, <3>1, <3>3, <3>4
  <2>2. CASE ~(left > 0)
    BY <1>4, <1>9, <1>11, <2>2
  <2> QED
    BY <2>1, <2>2
<1>13. ASSUME NEW i \in in_q'
       PROVE  i \in Ids /\ arrival[i] <= time' /\ remaining'[i] > 0
  <2>1. /\ time \in Nat /\ remaining \in [Ids -> Nat] /\ run \in Nat /\ time' = time + run
        /\ arrival \in [Ids -> Nat]
    BY <1>5, <1>10 DEF ShareInv, Progress, Drawn, GetsCpu
  <2>2. \A j \in Ids : remaining'[j] = IF j = sel THEN left ELSE remaining[j]
    BY <1>5, <2>1 DEF GetsCpu
  <2>3. CASE i \in inside
    BY <2>1, <2>2, <2>3, ReadyLeft DEF ShareInv
  <2>4. CASE i \in came
    <3>1. i # sel /\ i \in Ids
      BY <1>6, <2>4
    <3>2. arrival[i] \in time + 1 .. time + run /\ remaining[i] > 0
      BY <2>4 DEF RrArrived
    <3> QED
      BY <2>1, <2>2, <3>1, <3>2
  <2>5. CASE i = sel /\ left > 0
    <3>1. sel \in Ids /\ arrival[sel] <= time
      BY <1>2, <1>10 DEF Ready
    <3>2. arrival[sel] <= time'
      BY <2>1, <3>1
    <3> QED
      BY <2>2, <2>5, <3>1, <3>2
  <2> QED
    BY <1>4, <2>3, <2>4, <2>5
<1> HIDE DEF queued, sel, run, left, inside, came, both
<1> QED
  BY <1>12, <1>13 DEF Queueing

-----------------------------------------------------------------------------
(* Every step.                                                               *)

LEMMA IdleKeeps ==
  ASSUME ShareInv, Ids' = Ids, IdleUnit, UNCHANGED <<threadVars, queueVars, arrival, algo>>
  PROVE  Progress' /\ Queueing'
<1>1. time \in Nat /\ time' = time + 1
  BY DEF ShareInv, Progress, IdleUnit
<1>2. Progress'
  BY <1>1 DEF ShareInv, Progress, threadVars
<1>3. \A i \in Ids : arrival[i] \in Nat
  BY DEF ShareInv, Drawn
<1>4. Queueing'
  BY <1>1, <1>3 DEF ShareInv, Queueing, threadVars, queueVars
<1> QED
  BY <1>2, <1>4

LEMMA ShareStep == ShareInv /\ [Next]_vars => ShareInv'
<1> SUFFICES ASSUME ShareInv, [Next]_vars PROVE ShareInv'
  OBVIOUS
<1>1. Drawn' /\ Ids' = Ids
  BY DrawnStep DEF ShareInv
<1>2. CASE RunAlgo
  <2>1. Progress'
    <3>1. remaining' = burst /\ done' = {} /\ time' = 0
      BY <1>2 DEF RunAlgo
    <3>2. burst \in [Ids -> Nat \ {0}]
      BY DEF ShareInv, Drawn
    <3> QED
      BY <1>1, <3>1, <3>2 DEF Progress
  <2>2. Calling'
    <3>1. algo' = Head(todo) /\ todo' = Tail(todo) /\ todo # <<>> /\ pc' = "schedule"
      BY <1>2 DEF RunAlgo
    <3>2. <<algo', todo'>> \in Calls
      BY <3>1, CallsInOrder DEF ShareInv, Calling
    <3> QED
      BY <3>1, <3>2 DEF Calling
  <2>3. Queueing'
    <3>1. q' = <<>> /\ head' = 0 /\ in_q' = {}
      BY <1>2 DEF RunAlgo
    <3> QED
      BY <3>1 DEF Queueing, Lists
  <2> QED
    BY <1>1, <2>1, <2>2, <2>3 DEF ShareInv
<1>3. CASE Return
  <2>1. Calling'
    BY <1>1, <1>3 DEF Return, ShareInv, Calling, threadVars
  <2>2. Progress' /\ Queueing'
    BY <1>1, <1>3 DEF Return, ShareInv, Progress, Queueing, threadVars, queueVars
  <2> QED
    BY <1>1, <2>1, <2>2 DEF ShareInv
<1>4. CASE FifoIdle \/ RrIdle \/ SjfIdle \/ SrtfIdle
  <2>1. /\ IdleUnit /\ UNCHANGED <<threadVars, queueVars, arrival, algo>>
        /\ UNCHANGED <<pc, todo>> /\ pc = "schedule"
    BY <1>4 DEF FifoIdle, RrIdle, SjfIdle, SrtfIdle, Elsewhere, Scheduling
  <2>2. Calling'
    BY <2>1 DEF ShareInv, Calling
  <2> QED
    BY <1>1, <2>1, <2>2, IdleKeeps DEF ShareInv
<1>5. CASE FifoRun \/ SjfRun \/ SrtfRun
  <2>1. PICK i, units : GetsCpu(i, units)
    BY <1>5, FifoRuns, SjfRuns, SrtfRuns
  <2>2. /\ UNCHANGED <<pc, todo, algo>> /\ pc = "schedule"
        /\ algo \in {"fifo", "sjf", "srtf"}
    BY <1>5 DEF FifoRun, SjfRun, SrtfRun, Elsewhere, Scheduling
  <2>3. Calling' /\ Queueing'
    BY <2>2 DEF ShareInv, Calling, Queueing
  <2>4. Progress'
    BY <1>1, <2>1, RunProgress DEF ShareInv
  <2> QED
    BY <1>1, <2>3, <2>4 DEF ShareInv
<1>6. CASE RrRun
  <2>1. UNCHANGED <<pc, todo, algo, arrival>> /\ pc = "schedule"
    BY <1>6 DEF RrRun, Elsewhere, Scheduling
  <2>2. Calling'
    BY <2>1 DEF ShareInv, Calling
  <2>3. Progress'
    BY <1>1, <1>6, RrRuns, RunProgress DEF ShareInv
  <2>4. Queueing'
    BY <1>1, <1>6, <2>1, RrQueueing
  <2> QED
    BY <1>1, <2>2, <2>3, <2>4 DEF ShareInv
<1>7. CASE UNCHANGED vars
  <2>1. Progress' /\ Calling' /\ Queueing'
    BY <1>1, <1>7 DEF vars, logVars, threadVars, queueVars, ShareInv, Progress, Calling, Queueing
  <2> QED
    BY <1>1, <2>1 DEF ShareInv
<1> QED
  BY <1>2, <1>3, <1>4, <1>5, <1>6, <1>7 DEF Next, Stopped

\* Whoever gets the CPU for as long as the discipline allows does the work of
\* CpuSharing.
LEMMA GetsWork ==
  ASSUME ShareInv, NEW i, GetsCpu(i, Cpu!Slice(i)), Cpu!MayRun(i),
         UNCHANGED <<algo, arrival, burst>>
  PROVE  Cpu!Work
<1>1. i \in Ready /\ Ready = Cpu!Ready
  <2>1. DOMAIN remaining = Ids
    BY DEF ShareInv, Progress
  <2> QED
    BY <2>1, ReadyLeft DEF GetsCpu, ShareInv, Cpu!Ready
<1> QED
  BY <1>1 DEF GetsCpu, Cpu!Work, Cpu!threads

\* Each of the four schedulers, on any threads, is one CPU that is given to
\* those that its discipline allows, never idles while a thread could use it,
\* and starts from unused threads (scheduler.c:67-294, main.c:29).
THEOREM Sharing == Spec => CpuSpec
<1>1. Init => Cpu!Init
  BY DEF Init, Cpu!Init
<1>2. ShareInv /\ [Next]_vars => [Cpu!Next]_Cpu!vars
  <2> SUFFICES ASSUME ShareInv, [Next]_vars PROVE [Cpu!Next]_Cpu!vars
    OBVIOUS
  <2> USE DEF Cpu!Next, Cpu!vars, Cpu!threads
  <2>1. Ready = Cpu!Ready /\ DOMAIN remaining = Ids
    BY ReadyLeft DEF ShareInv, Progress, Cpu!Ready
  <2>2. CASE RunAlgo
    <3>1. algo' # algo
      BY <2>2, CallsInOrder DEF RunAlgo, ShareInv, Calling
    <3>2. algo # "none" => \A i \in Ids : remaining[i] = 0
      BY <2>2 DEF RunAlgo, ShareInv, Calling, Progress
    <3> QED
      BY <2>1, <2>2, <3>1, <3>2 DEF RunAlgo, Cpu!Begin
  <2>3. CASE FifoIdle \/ RrIdle \/ SjfIdle \/ SrtfIdle
    <3>1. Ready = {}
      BY <2>3, RrIdleReady DEF FifoIdle, SjfIdle, SrtfIdle
    <3>2. time' = time + 1 /\ UNCHANGED <<algo, arrival, burst, remaining>>
      BY <2>3 DEF FifoIdle, RrIdle, SjfIdle, SrtfIdle, IdleUnit, Elsewhere, threadVars
    <3> QED
      BY <2>1, <3>1, <3>2 DEF Cpu!Idle
  <2>4. CASE FifoRun
    <3>1. algo = "fifo" /\ UNCHANGED <<algo, arrival, burst>>
      BY <2>4 DEF FifoRun, Scheduling, Elsewhere
    <3>2. Cpu!Slice(FifoSelect) = remaining[FifoSelect] /\ Cpu!MayRun(FifoSelect)
      BY <2>1, <2>4, <3>1, FifoRuns DEF Cpu!Slice, Cpu!MayRun
    <3> QED
      BY <2>4, <3>1, <3>2, FifoRuns, GetsWork
  <2>5. CASE SjfRun
    <3> DEFINE sel == FirstBy(Ready, burst)
    <3>1. algo = "sjf" /\ UNCHANGED <<algo, arrival, burst>>
      BY <2>5 DEF SjfRun, Scheduling, Elsewhere
    <3>2. Cpu!Slice(sel) = remaining[sel] /\ Cpu!MayRun(sel)
      BY <2>1, <2>5, <3>1, SjfRuns DEF Cpu!Slice, Cpu!MayRun
    <3> QED
      BY <2>5, <3>1, <3>2, SjfRuns, GetsWork
  <2>6. CASE SrtfRun
    <3>1. algo = "srtf" /\ UNCHANGED <<algo, arrival, burst>>
      BY <2>6 DEF SrtfRun, Scheduling, Elsewhere
    <3>2. Cpu!Slice(SrtfSelect) = 1 /\ Cpu!MayRun(SrtfSelect)
      BY <2>1, <2>6, <3>1, SrtfRuns DEF Cpu!Slice, Cpu!MayRun
    <3> QED
      BY <2>6, <3>1, <3>2, SrtfRuns, GetsWork
  <2>7. CASE RrRun
    <3> DEFINE sel == RrEnqueue[head + 1]
    <3>1. algo = "rr" /\ UNCHANGED <<algo, arrival, burst>>
      BY <2>7 DEF RrRun, Scheduling, Elsewhere
    <3>2. GetsCpu(sel, RunTime(sel))
      BY <2>7, RrRuns
    <3>3. sel \in Ready
      BY <3>2 DEF GetsCpu
    <3> HIDE DEF sel
    <3>4. Cpu!Slice(sel) = RunTime(sel) /\ Cpu!MayRun(sel)
      BY <3>1, <3>3, RunTimeBounds DEF ShareInv, Cpu!Slice, Cpu!MayRun
    <3> QED
      BY <3>1, <3>2, <3>4, GetsWork
  <2>8. CASE Return \/ UNCHANGED vars
    BY <2>8 DEF Return, vars, logVars, threadVars
  <2> QED
    BY <2>2, <2>3, <2>4, <2>5, <2>6, <2>7, <2>8 DEF Next, Stopped
<1> QED
  BY <1>1, <1>2, ShareInit, ShareStep, PTL DEF CpuSpec, Cpu!Spec, Spec

-----------------------------------------------------------------------------
(* The queue of RR.                                                          *)

\* Those that came before the present wait for the CPU, if they have work left.
Waiters == algo = "rr" => \A i \in Ready : arrival[i] < time => i \in in_q

LEMMA WaitersStep == ShareInv /\ Waiters /\ [Next]_vars => Waiters'
<1> SUFFICES ASSUME ShareInv, Waiters, [Next]_vars PROVE Waiters'
  OBVIOUS
<1>1. Drawn' /\ Ids' = Ids /\ Progress'
  BY DrawnStep, ShareStep DEF ShareInv
<1>2. CASE RunAlgo
  <2>1. time' = 0 /\ Ready' \subseteq Ids
    BY <1>1, <1>2 DEF RunAlgo, Ready
  <2> QED
    BY <1>1, <2>1 DEF Waiters, Drawn
<1>3. CASE RrIdle
  <2>1. /\ Ready = {} /\ time' = time + 1 /\ time \in Nat
        /\ done' = done /\ arrival' = arrival
    BY <1>3, RrIdleReady DEF RrIdle, IdleUnit, threadVars, Elsewhere, ShareInv, Progress
  <2>2. \A i \in Ids : arrival[i] \in Nat
    BY DEF ShareInv, Drawn
  <2> QED
    BY <1>1, <2>1, <2>2 DEF Waiters, Ready
<1>4. CASE RrRun
  <2> DEFINE sel   == RrEnqueue[head + 1]
             run   == RunTime(sel)
             left  == remaining[sel] - run
             came  == RrArrived(run, (Ready \ {sel}) \cup {sel})
  <2>1. Ready = in_q \cup RrNew
    BY <1>4, Enqueued DEF RrRun, Scheduling, ShareInv
  <2>2. in_q' = (Ready \ {sel}) \cup came \cup (IF left > 0 THEN {sel} ELSE {})
    BY <1>4, <2>1 DEF RrRun
  <2>3. GetsCpu(sel, run) /\ arrival' = arrival
    BY <1>4, RrRuns DEF RrRun, Elsewhere
  <2>4. /\ time \in Nat /\ run \in Nat /\ time' = time + run
        /\ remaining \in [Ids -> Nat] /\ arrival \in [Ids -> Nat] /\ sel \in Ids
    BY <2>3 DEF ShareInv, Progress, Drawn, GetsCpu, Ready
  <2>5. \A j \in Ids : remaining'[j] = IF j = sel THEN left ELSE remaining[j]
    BY <2>3, <2>4 DEF GetsCpu
  <2> HIDE DEF sel, run, left
  <2>6. ASSUME NEW i \in Ready', arrival'[i] < time' PROVE i \in in_q'
    <3>1. i \in Ids /\ arrival[i] <= time + run /\ remaining'[i] > 0
      <4>1. i \in Ids /\ arrival[i] <= time'
        BY <1>1, <2>3, <2>6 DEF Ready
      <4>2. remaining'[i] > 0
        <5>1. remaining' \in [Ids -> Nat] /\ i \in Ids /\ remaining'[i] # 0
          BY <1>1, <2>6 DEF Ready, Progress
        <5> QED
          BY <5>1
      <4> QED
        BY <2>4, <4>1, <4>2
    <3>2. CASE i = sel
      BY <2>2, <2>5, <3>1, <3>2
    <3>3. CASE i # sel /\ arrival[i] <= time
      <4>1. i \in Ready
        BY <2>5, <3>1, <3>3, ReadyLeft DEF ShareInv
      <4> QED
        BY <2>2, <3>3, <4>1
    <3>4. CASE i # sel /\ arrival[i] > time
      <4>1. i \notin Ready
        BY <2>4, <3>1, <3>4 DEF Ready
      <4>2. arrival[i] \in time + 1 .. time + run /\ remaining[i] > 0
        BY <2>4, <2>5, <3>1, <3>4
      <4>3. i \in came
        BY <3>1, <3>4, <4>1, <4>2 DEF RrArrived
      <4> QED
        BY <2>2, <4>3
    <3> QED
      BY <2>4, <3>1, <3>2, <3>3, <3>4
  <2> QED
    BY <2>6 DEF Waiters
<1>5. CASE FifoIdle \/ FifoRun \/ SjfIdle \/ SjfRun \/ SrtfIdle \/ SrtfRun
  BY <1>5 DEF FifoIdle, FifoRun, SjfIdle, SjfRun, SrtfIdle, SrtfRun, Scheduling, Elsewhere, Waiters
<1>6. CASE Return \/ UNCHANGED vars
  BY <1>1, <1>6 DEF Return, vars, logVars, threadVars, queueVars, Waiters, Ready
<1> QED
  BY <1>2, <1>3, <1>4, <1>5, <1>6 DEF Next, Stopped

LEMMA ListsAll ==
  ASSUME NEW X, IsFiniteSet(X), NEW s \in Seq(X), NEW h \in 0 .. Len(s), NEW S, Lists(s, h, S)
  PROVE  ToSet(SubSeq(s, h + 1, Len(s))) = S /\ Cardinality(S) = Len(s) - h
<1> DEFINE n == Len(s) - h
           u == SubSeq(s, h + 1, Len(s))
<1>1. n \in Nat /\ h \in Nat /\ Len(s) = h + n
  OBVIOUS
<1>2. u \in Seq(X) /\ Len(u) = n /\ \A k \in 1 .. n : u[k] = s[k + h]
  <2>1. /\ h + 1 \in Int /\ Len(s) \in Int /\ Len(s) - (h + 1) + 1 = n
        /\ (IF h + 1 <= Len(s) THEN Len(s) - (h + 1) + 1 ELSE 0) = n
    <3>1. Len(s) \in Nat /\ n \in Nat /\ h \in Nat /\ Len(s) = h + n
      BY <1>1
    <3> HIDE DEF n
    <3>2. \A l \in Nat : l = h + n =>
            /\ h + 1 \in Int /\ l \in Int /\ l - (h + 1) + 1 = n
            /\ (h + 1 <= l \/ n = 0)
      BY <3>1
    <3> QED
      BY <3>1, <3>2
  <2>2. \A k \in h + 1 .. Len(s) : s[k] \in X
    BY <1>1
  <2>3. \A k \in 1 .. n : h + 1 + k - 1 = k + h
    BY <1>1
  <2>4. /\ SubSeq(s, h + 1, Len(s)) \in Seq(X) /\ Len(SubSeq(s, h + 1, Len(s))) = n
        /\ \A k \in 1 .. n : SubSeq(s, h + 1, Len(s))[k] = s[h + 1 + k - 1]
    <3> HIDE DEF n
    <3> QED
      BY <2>1, <2>2, SubSeqProperties
  <2> QED
    BY <2>3, <2>4
<1> HIDE DEF n, u
<1>3. \A k \in 1 .. n : k + h \in h + 1 .. Len(s)
  BY <1>1
<1>4. \A k \in h + 1 .. Len(s) : k - h \in 1 .. n /\ (k - h) + h = k
  BY <1>1
<1>5. \A k \in 1 .. n : u[k] \in S
  BY <1>2, <1>3 DEF Lists
<1>6. \A i \in S : \E k \in 1 .. n : u[k] = i
  <2> TAKE i \in S
  <2>1. PICK k \in h + 1 .. Len(s) : s[k] = i
    BY DEF Lists
  <2> QED
    BY <1>2, <1>4, <2>1
<1>7. \A k, m \in 1 .. n : u[k] = u[m] => k = m
  <2> TAKE k, m \in 1 .. n
  <2>1. HAVE u[k] = u[m]
  <2>2. k + h = m + h
    BY <1>2, <1>3, <2>1 DEF Lists
  <2> QED
    BY <1>1, <2>2
<1>8. ToSet(u) = S
  BY <1>2, <1>5, <1>6 DEF ToSet
<1>9. u \in [1 .. n -> S]
  BY <1>2, <1>5
<1>10. u \in Bijection(1 .. n, S)
  BY <1>6, <1>7, <1>9 DEF Bijection, Injection, Surjection, IsInjective
<1>11. Cardinality(S) = n
  BY <1>1, <1>10, FS_CountingElements DEF ExistsBijection
<1> QED
  BY <1>8, <1>11 DEF u, n

-----------------------------------------------------------------------------
(* The figures.                                                              *)

\* What was drawn is within the bounds.
Bounded == \A i \in Ids : burst[i] <= MaxBurst /\ arrival[i] <= MaxArrival

\* How much a thread has run.
Work(i) == burst[i] - remaining[i]

\* The figures of thread i: it started when it first had the CPU, has had it no
\* longer than the time since then, and when it is done it waited all the time
\* that it did not run.
Figures(i) ==
  /\ start[i] \in Int /\ finish[i] \in Int /\ turnaround[i] \in Int /\ waiting[i] \in Int
  /\ remaining[i] <= burst[i]
  /\ remaining[i] = burst[i] => start[i] = -1
  /\ remaining[i] < burst[i] => arrival[i] <= start[i] /\ start[i] + Work(i) <= time
  /\ remaining[i] > 0 => finish[i] = 0 /\ turnaround[i] = 0 /\ waiting[i] = 0
  /\ remaining[i] = 0 => /\ finish[i] <= time /\ start[i] + burst[i] <= finish[i]
                         /\ turnaround[i] = finish[i] - arrival[i]
                         /\ waiting[i] = turnaround[i] - burst[i]

FigInv ==
  /\ start \in [Ids -> Int] /\ finish \in [Ids -> Int]
  /\ turnaround \in [Ids -> Int] /\ waiting \in [Ids -> Int]
  /\ \A i \in Ids : Figures(i)
  /\ algo \in {"fifo", "sjf"} => \A i \in Ids : remaining[i] \in {0, burst[i]}

\* i gets the CPU, and the chart, the figures and the event log say so.
Executes(i, units) ==
  /\ GetsCpu(i, units)
  /\ gantt' = GanttPush(i, time, time + units)
  /\ start' = [start EXCEPT ![i] = IF start[i] = -1 THEN time ELSE start[i]]
  /\ IF units = remaining[i]
     THEN Complete(i, time + units, time + units - arrival[i] - burst[i])
     ELSE UNCHANGED <<finish, turnaround, waiting, done>>

LEMMA WholeBurst ==
  ASSUME Drawn, Progress, FigInv, algo \in {"fifo", "sjf"}, NEW i \in Ready, RunToEnd(i)
  PROVE  Executes(i, remaining[i])
<1>1. GetsCpu(i, remaining[i])
  BY RunsToEnd
<1>2. /\ i \in Ids /\ remaining[i] > 0 /\ remaining[i] = burst[i] /\ start[i] = -1
  BY ReadyLeft DEF FigInv, Figures
<1>3. time \in Nat /\ remaining[i] \in Nat /\ arrival[i] \in Nat
  BY <1>2 DEF Drawn, Progress
<1>4. time - arrival[i] = time + remaining[i] - arrival[i] - burst[i]
  BY <1>2, <1>3
<1> QED
  BY <1>1, <1>2, <1>4 DEF Executes, RunToEnd

LEMMA FifoExecutes ==
  ASSUME ShareInv, FigInv, FifoRun
  PROVE  Executes(FifoSelect, remaining[FifoSelect])
<1>1. FifoSelect \in Ready
  BY FifoRuns DEF GetsCpu
<1>2. RunToEnd(FifoSelect) /\ algo = "fifo"
  BY DEF FifoRun, Scheduling
<1> QED
  BY <1>1, <1>2, WholeBurst DEF ShareInv

LEMMA SjfExecutes ==
  ASSUME ShareInv, FigInv, SjfRun
  PROVE  Executes(FirstBy(Ready, burst), remaining[FirstBy(Ready, burst)])
<1>1. FirstBy(Ready, burst) \in Ready
  BY SjfRuns DEF GetsCpu
<1>2. RunToEnd(FirstBy(Ready, burst)) /\ algo = "sjf"
  BY DEF SjfRun, Scheduling
<1> QED
  BY <1>1, <1>2, WholeBurst DEF ShareInv

LEMMA SrtfExecutes ==
  ASSUME ShareInv, SrtfRun
  PROVE  Executes(SrtfSelect, 1)
<1> DEFINE sel == SrtfSelect
<1>1. GetsCpu(sel, 1)
  BY SrtfRuns
<1>2. /\ start' = [start EXCEPT ![sel] = IF start[sel] = -1 THEN time ELSE start[sel]]
      /\ gantt' = GanttPush(sel, time, time + 1)
      /\ IF remaining[sel] = 1
         THEN Complete(sel, time + 1, time + 1 - arrival[sel] - burst[sel])
         ELSE UNCHANGED <<finish, turnaround, waiting, done>>
  BY DEF SrtfRun
<1> HIDE DEF sel
<1> QED
  BY <1>1, <1>2 DEF Executes, sel

LEMMA RrExecutes ==
  ASSUME ShareInv, RrRun
  PROVE  Executes(RrEnqueue[head + 1], RunTime(RrEnqueue[head + 1]))
<1> DEFINE sel == RrEnqueue[head + 1]
           left == remaining[sel] - RunTime(sel)
<1>1. GetsCpu(sel, RunTime(sel))
  BY RrRuns
<1>2. /\ start' = [start EXCEPT ![sel] = IF start[sel] = -1 THEN time ELSE start[sel]]
      /\ gantt' = GanttPush(sel, time, time + RunTime(sel))
      /\ IF left > 0
         THEN UNCHANGED <<finish, turnaround, waiting, done>>
         ELSE Complete(sel, time + RunTime(sel), time + RunTime(sel) - arrival[sel] - burst[sel])
  BY DEF RrRun
<1> HIDE DEF sel
<1>3. RunTime(sel) \in 1 .. remaining[sel] /\ remaining[sel] \in Nat
  BY <1>1 DEF GetsCpu, ShareInv, Progress, Ready
<1>4. left > 0 <=> RunTime(sel) # remaining[sel]
  BY <1>3
<1> QED
  BY <1>1, <1>2, <1>4 DEF Executes, sel

\* In every step but the calls a thread executes, the CPU idles, or the
\* scheduler returns.
LEMMA Steps ==
  ASSUME ShareInv, FigInv, Next, ~RunAlgo, ~Return, ~UNCHANGED vars
  PROVE  /\ pc = "schedule" /\ UNCHANGED <<burst, arrival, pc, todo, algo, report>> /\ done # Ids
         /\ \/ /\ Ready = {} /\ IdleUnit
               /\ UNCHANGED threadVars
               /\ q' = q /\ head' = head /\ in_q' = in_q
            \/ \E i \in Ready : \E units \in 1 .. remaining[i] :
                 /\ Executes(i, units)
                 /\ algo \in {"fifo", "sjf"} => units = remaining[i]
<1>1. CASE FifoIdle \/ RrIdle \/ SjfIdle \/ SrtfIdle
  BY <1>1, RrIdleReady DEF FifoIdle, RrIdle, SjfIdle, SrtfIdle, Elsewhere, Scheduling, queueVars
<1>2. CASE FifoRun \/ SjfRun \/ SrtfRun \/ RrRun
  <2>1. PICK i, units : Executes(i, units) /\ (algo \in {"fifo", "sjf"} => units = remaining[i])
    <3>1. CASE FifoRun
      BY <3>1, FifoExecutes
    <3>2. CASE SjfRun
      BY <3>2, SjfExecutes
    <3>3. CASE SrtfRun
      BY <3>3, SrtfExecutes DEF SrtfRun, Scheduling
    <3>4. CASE RrRun
      BY <3>4, RrExecutes DEF RrRun, Scheduling
    <3> QED
      BY <1>2, <3>1, <3>2, <3>3, <3>4
  <2>2. i \in Ready /\ units \in 1 .. remaining[i]
    BY <2>1 DEF Executes, GetsCpu
  <2>3. pc = "schedule" /\ UNCHANGED <<burst, arrival, pc, todo, algo, report>> /\ done # Ids
    BY <1>2 DEF FifoRun, RrRun, SjfRun, SrtfRun, Elsewhere, Scheduling
  <2> QED
    BY <2>1, <2>2, <2>3
<1> QED
  BY <1>1, <1>2 DEF Next, Stopped

LEMMA FigInit == Init => Bounded /\ FigInv
<1> SUFFICES ASSUME Init PROVE Bounded /\ FigInv
  OBVIOUS
<1>1. Drawn /\ Progress
  BY ShareInit DEF ShareInv
<1>2. Bounded
  BY DEF Init, Bounded, Ids
<1>3. \A i \in Ids : /\ start[i] = -1 /\ finish[i] = 0 /\ turnaround[i] = 0 /\ waiting[i] = 0
                     /\ remaining[i] = burst[i] /\ burst[i] \in Nat \ {0}
  BY <1>1 DEF Init, Drawn
<1>4. \A i \in Ids : Figures(i)
  BY <1>3 DEF Figures
<1> QED
  BY <1>2, <1>3, <1>4 DEF Init, FigInv

LEMMA FigRun ==
  ASSUME Drawn, Progress, FigInv, NEW i \in Ready, NEW units \in 1 .. remaining[i],
         Executes(i, units), UNCHANGED <<burst, arrival, algo>>,
         algo \in {"fifo", "sjf"} => units = remaining[i]
  PROVE  FigInv'
<1>1. /\ i \in Ids /\ arrival[i] \in Nat /\ burst[i] \in Nat /\ time \in Nat
      /\ remaining[i] \in Nat /\ units \in Nat /\ units > 0 /\ units <= remaining[i]
      /\ arrival[i] <= time /\ remaining[i] <= burst[i]
  BY DEF Ready, Drawn, Progress, FigInv, Figures
<1>2. /\ time' = time + units
      /\ \A j \in Ids : remaining'[j] = IF j = i THEN remaining[i] - units ELSE remaining[j]
      /\ Ids' = Ids
  BY DEF Executes, GetsCpu, Progress, Ids
<1>3. \A j \in Ids : start'[j] = IF j = i /\ start[i] = -1 THEN time ELSE start[j]
  BY DEF Executes, FigInv
<1>4. start' \in [Ids -> Int]
  BY <1>1 DEF Executes, FigInv
<1>5. /\ finish' \in [Ids -> Int] /\ turnaround' \in [Ids -> Int] /\ waiting' \in [Ids -> Int]
      /\ \A j \in Ids : IF j = i /\ units = remaining[i]
           THEN /\ finish'[j] = time + units
                /\ turnaround'[j] = time + units - arrival[i]
                /\ waiting'[j] = time + units - arrival[i] - burst[i]
           ELSE finish'[j] = finish[j] /\ turnaround'[j] = turnaround[j] /\ waiting'[j] = waiting[j]
  BY <1>1 DEF Executes, Complete, FigInv
<1>6. ASSUME NEW j \in Ids, j # i PROVE Figures(j)'
  <2>1. Figures(j) /\ remaining[j] \in Nat /\ burst[j] \in Nat /\ time \in Nat
    BY DEF FigInv, Progress, Drawn
  <2>2. /\ start'[j] = start[j] /\ finish'[j] = finish[j] /\ turnaround'[j] = turnaround[j]
        /\ waiting'[j] = waiting[j] /\ remaining'[j] = remaining[j] /\ time' >= time
    BY <1>1, <1>2, <1>3, <1>5, <1>6, <2>1
  <2> QED
    BY <1>1, <1>2, <2>1, <2>2 DEF Figures, Work
<1>7. Figures(i)'
  <2>1. Figures(i)
    BY <1>1 DEF FigInv
  <2>2. /\ start'[i] = IF start[i] = -1 THEN time ELSE start[i]
        /\ remaining'[i] = remaining[i] - units
        /\ burst'[i] = burst[i] /\ arrival'[i] = arrival[i]
    BY <1>1, <1>2, <1>3
  <2>3. /\ start'[i] \in Int /\ arrival[i] <= start'[i]
        /\ start'[i] + (burst[i] - remaining[i]) <= time
    BY <1>1, <2>1, <2>2 DEF Figures, Work
  <2>4. CASE units = remaining[i]
    <3>1. /\ finish'[i] = time + units
          /\ turnaround'[i] = time + units - arrival[i]
          /\ waiting'[i] = time + units - arrival[i] - burst[i]
      BY <1>1, <1>5, <2>4
    <3>2. remaining'[i] = 0
      BY <1>1, <2>2, <2>4
    <3>3. start'[i] + burst[i] <= time + units /\ start'[i] + (burst[i] - 0) <= time + units
      BY <1>1, <2>3, <2>4
    <3>4. time' = time + units /\ burst[i] > 0 /\ arrival[i] <= start'[i] /\ start'[i] \in Int
      BY <1>1, <1>2, <2>3
    <3>5. finish'[i] \in Int /\ turnaround'[i] \in Int /\ waiting'[i] \in Int
      BY <1>1, <3>1
    <3> QED
      BY <1>1, <2>2, <3>1, <3>2, <3>3, <3>4, <3>5 DEF Figures, Work
  <2>5. CASE units # remaining[i]
    <3>1. finish'[i] = finish[i] /\ turnaround'[i] = turnaround[i] /\ waiting'[i] = waiting[i]
      BY <1>1, <1>5, <2>5
    <3>2. remaining'[i] > 0 /\ remaining'[i] < burst[i] /\ remaining'[i] \in Nat
      BY <1>1, <2>2, <2>5
    <3> QED
      BY <1>1, <1>2, <2>1, <2>2, <2>3, <3>1, <3>2 DEF Figures, Work
  <2> QED
    BY <2>4, <2>5
<1>8. (algo \in {"fifo", "sjf"} => \A j \in Ids : remaining[j] \in {0, burst[j]})'
  BY <1>1, <1>2 DEF FigInv
<1> QED
  BY <1>2, <1>4, <1>5, <1>6, <1>7, <1>8 DEF FigInv

LEMMA FigStep == ShareInv /\ Bounded /\ FigInv /\ [Next]_vars => Bounded' /\ FigInv'
<1> SUFFICES ASSUME ShareInv, Bounded, FigInv, [Next]_vars PROVE Bounded' /\ FigInv'
  OBVIOUS
<1>1. Drawn' /\ Ids' = Ids /\ Drawn /\ Progress
  BY DrawnStep DEF ShareInv
<1>2. CASE RunAlgo
  <2>1. /\ UNCHANGED <<burst, arrival>> /\ remaining' = burst /\ start' = [i \in Ids |-> -1]
        /\ finish' = [i \in Ids |-> 0] /\ turnaround' = finish' /\ waiting' = finish'
    BY <1>2 DEF RunAlgo
  <2>2. \A i \in Ids : Figures(i)'
    BY <1>1, <2>1 DEF Figures, Drawn
  <2> QED
    BY <1>1, <2>1, <2>2 DEF Bounded, FigInv
<1>3. CASE Return \/ UNCHANGED vars
  <2>1. UNCHANGED <<burst, arrival, time, algo, remaining, start, finish, waiting, turnaround>>
    BY <1>3 DEF Return, vars, logVars, threadVars
  <2> QED
    BY <1>1, <2>1 DEF Bounded, FigInv, Figures, Work
<1>4. CASE Next /\ ~RunAlgo /\ ~Return /\ ~UNCHANGED vars
  <2>1. /\ UNCHANGED <<burst, arrival, algo>>
        /\ \/ Ready = {} /\ IdleUnit /\ UNCHANGED threadVars
           \/ \E i \in Ready : \E units \in 1 .. remaining[i] :
                 /\ Executes(i, units)
                 /\ algo \in {"fifo", "sjf"} => units = remaining[i]
    BY <1>4, Steps
  <2>2. Bounded'
    BY <1>1, <2>1 DEF Bounded
  <2>3. CASE IdleUnit /\ UNCHANGED threadVars
    <3>1. /\ UNCHANGED <<remaining, start, finish, waiting, turnaround>>
          /\ time \in Nat /\ time' = time + 1
      BY <1>1, <2>3 DEF threadVars, IdleUnit, Progress
    <3>2. \A i \in Ids : Figures(i)'
      <4> TAKE i \in Ids
      <4>1. Figures(i) /\ remaining[i] \in Nat /\ burst[i] \in Nat
        BY <1>1 DEF FigInv, Progress, Drawn
      <4> QED
        BY <2>1, <3>1, <4>1 DEF Figures, Work
    <3> QED
      BY <1>1, <2>1, <2>2, <3>1, <3>2 DEF FigInv
  <2>4. CASE \E i \in Ready : \E units \in 1 .. remaining[i] :
                 /\ Executes(i, units)
                 /\ algo \in {"fifo", "sjf"} => units = remaining[i]
    BY <1>1, <2>1, <2>2, <2>4, FigRun
  <2> QED
    BY <2>1, <2>3, <2>4
<1> QED
  BY <1>2, <1>3, <1>4

-----------------------------------------------------------------------------
(* Types.                                                                    *)

\* The units of work that have been done.
Worked == {p \in Ids \X (1 .. MaxBurst) : p[2] <= Work(p[1])}

LEMMA WorkedBound ==
  ASSUME Drawn
  PROVE  /\ IsFiniteSet(Worked) /\ Cardinality(Worked) \in Nat
         /\ Cardinality(Worked) <= Cardinality(Ids) * MaxBurst
         /\ Cardinality(Ids) \in Nat /\ Cardinality(Ids) * MaxBurst \in Nat
<1>1. IsFiniteSet(1 .. MaxBurst) /\ Cardinality(1 .. MaxBurst) = MaxBurst
  BY FS_Interval
<1>2. /\ IsFiniteSet(Ids \X (1 .. MaxBurst))
      /\ Cardinality(Ids \X (1 .. MaxBurst)) = Cardinality(Ids) * MaxBurst
  BY <1>1, FS_Product DEF Drawn
<1>3. Worked \subseteq Ids \X (1 .. MaxBurst)
  BY DEF Worked
<1>4. Cardinality(Ids) \in Nat
  BY FS_CardinalityType DEF Drawn
<1>5. /\ IsFiniteSet(Worked) /\ Cardinality(Worked) <= Cardinality(Ids \X (1 .. MaxBurst))
      /\ Cardinality(Worked) \in Nat
  BY <1>2, <1>3, FS_Subset, FS_CardinalityType
<1>6. Cardinality(Ids) * MaxBurst \in Nat
  BY <1>2, FS_CardinalityType
<1> QED
  BY <1>2, <1>4, <1>5, <1>6

\* The clock is not behind the work, and passes the last arrival only with it.
Clock == time <= MaxArrival + Cardinality(Worked)

\* What i runs is new.
LEMMA MoreWork ==
  ASSUME Drawn, Progress, Bounded, FigInv, NEW i \in Ready, NEW units \in 1 .. remaining[i],
         GetsCpu(i, units), burst' = burst
  PROVE  Cardinality(Worked') = Cardinality(Worked) + units
<1> DEFINE new == {i} \X (Work(i) + 1 .. Work(i) + units)
<1>1. /\ i \in Ids /\ burst[i] \in Nat /\ remaining[i] \in Nat /\ units \in Nat
      /\ units <= remaining[i] /\ remaining[i] <= burst[i] /\ burst[i] <= MaxBurst
      /\ MaxBurst \in Nat
  BY DEF Ready, Drawn, Progress, FigInv, Figures, Bounded
<1>2. Work(i) \in Nat /\ Work(i) + units <= MaxBurst
  BY <1>1 DEF Work
<1>3. \A j \in Ids : remaining'[j] = IF j = i THEN remaining[i] - units ELSE remaining[j]
  BY DEF GetsCpu, Progress
<1>4. Ids' = Ids /\ \A j \in Ids : Work(j)' = IF j = i THEN Work(i) + units ELSE Work(j)
  BY <1>1, <1>3 DEF Work, Ids
<1>5. Worked' = Worked \cup new
  <2>1. ASSUME NEW j \in Ids, NEW u \in 1 .. MaxBurst
        PROVE  <<j, u>> \in Worked' <=> <<j, u>> \in Worked \cup new
    <3>1. <<j, u>> \in Worked' <=> u <= Work(j)'
      BY <1>4 DEF Worked
    <3>2. <<j, u>> \in Worked <=> u <= Work(j)
      BY DEF Worked
    <3>3. <<j, u>> \in new <=> j = i /\ u \in Work(i) + 1 .. Work(i) + units
      OBVIOUS
    <3> QED
      BY <1>1, <1>2, <1>4, <3>1, <3>2, <3>3
  <2>2. new \subseteq Ids \X (1 .. MaxBurst)
    BY <1>1, <1>2
  <2>3. Worked' \subseteq Ids \X (1 .. MaxBurst) /\ Worked \subseteq Ids \X (1 .. MaxBurst)
    BY <1>4 DEF Worked
  <2> HIDE DEF new
  <2> QED
    BY <2>1, <2>2, <2>3
<1>6. Worked \cap new = {}
  <2>1. \A p \in new : p[1] = i /\ p[2] > Work(i)
    BY <1>2
  <2>2. \A p \in Worked : p[1] = i => p[2] <= Work(i) /\ p[2] \in Nat
    BY DEF Worked
  <2> HIDE DEF new
  <2> QED
    BY <1>2, <2>1, <2>2
<1>7. IsFiniteSet(new) /\ Cardinality(new) = units
  <2>1. /\ IsFiniteSet(Work(i) + 1 .. Work(i) + units)
        /\ Cardinality(Work(i) + 1 .. Work(i) + units) = units
    <3> DEFINE a == Work(i) + 1
               b == Work(i) + units
    <3>1. a \in Int /\ b \in Int /\ (IF a > b THEN 0 ELSE b - a + 1) = units
      BY <1>1, <1>2
    <3> HIDE DEF a, b
    <3>2. IsFiniteSet(a .. b) /\ Cardinality(a .. b) = IF a > b THEN 0 ELSE b - a + 1
      BY <3>1, FS_Interval
    <3>3. IsFiniteSet(a .. b) /\ Cardinality(a .. b) = units
      BY <3>1, <3>2
    <3> QED
      BY <3>3 DEF a, b
  <2>2. IsFiniteSet({i}) /\ Cardinality({i}) = 1
    BY FS_Singleton
  <2> DEFINE c == Work(i) + 1 .. Work(i) + units
  <2>3. IsFiniteSet(c) /\ Cardinality(c) = units /\ new = {i} \X c
    BY <2>1
  <2> HIDE DEF c, new
  <2>4. IsFiniteSet({i} \X c) /\ Cardinality({i} \X c) = Cardinality({i}) * Cardinality(c)
    BY <2>2, <2>3, FS_Product
  <2> QED
    BY <1>1, <1>2, <2>2, <2>3, <2>4
<1>8. Cardinality(Worked \cup new) = Cardinality(Worked) + Cardinality(new) - Cardinality(Worked \cap new)
  BY <1>7, WorkedBound, FS_Union
<1>9. Cardinality(Worked \cap new) = 0
  BY <1>6, FS_EmptySet
<1> HIDE DEF new
<1> QED
  BY <1>1, <1>5, <1>7, <1>8, <1>9, WorkedBound

WorkedCounts == Cardinality(Worked) \in Nat

LEMMA WorkedThen == Drawn' => WorkedCounts'
<1>1. Drawn => WorkedCounts
  BY WorkedBound DEF WorkedCounts
<1> QED
  BY <1>1, PTL

LEMMA ClockStep == ShareInv /\ Bounded /\ FigInv /\ Clock /\ [Next]_vars => Clock'
<1> SUFFICES ASSUME ShareInv, Bounded, FigInv, Clock, [Next]_vars PROVE Clock'
  OBVIOUS
<1>1. Drawn' /\ Ids' = Ids /\ Drawn /\ Progress
  BY DrawnStep DEF ShareInv
<1>2. /\ Cardinality(Worked) \in Nat /\ MaxArrival \in Nat /\ time \in Nat
      /\ Cardinality(Worked') \in Nat
  BY <1>1, WorkedBound, WorkedThen DEF Progress, WorkedCounts
<1>3. CASE RunAlgo
  <2>1. time' = 0
    BY <1>3 DEF RunAlgo
  <2> QED
    BY <1>2, <2>1 DEF Clock
<1>4. CASE Return \/ UNCHANGED vars
  <2>1. UNCHANGED <<time, burst, remaining>>
    BY <1>4 DEF Return, vars, logVars, threadVars
  <2> QED
    BY <2>1 DEF Clock, Worked, Work, Ids
<1>5. CASE Next /\ ~RunAlgo /\ ~Return /\ ~UNCHANGED vars
  <2>1. /\ done # Ids /\ burst' = burst
        /\ \/ Ready = {} /\ IdleUnit /\ UNCHANGED threadVars
           \/ \E i \in Ready : \E units \in 1 .. remaining[i] : Executes(i, units)
    BY <1>5, Steps
  <2>2. CASE Ready = {} /\ IdleUnit /\ UNCHANGED threadVars
    <3>1. PICK i \in Ids : i \notin done
      BY <2>1 DEF Progress, ShareInv
    <3>2. arrival[i] > time /\ arrival[i] <= MaxArrival /\ arrival[i] \in Nat
      BY <1>1, <2>2, <3>1 DEF Ready, Bounded, Drawn, Progress
    <3>3. time' = time + 1
      BY <2>2 DEF IdleUnit
    <3> QED
      BY <1>2, <3>2, <3>3 DEF Clock
  <2>3. CASE \E i \in Ready : \E units \in 1 .. remaining[i] : Executes(i, units)
    <3>1. PICK i \in Ready : \E units \in 1 .. remaining[i] : Executes(i, units)
      BY <2>3
    <3>2. PICK units \in 1 .. remaining[i] : Executes(i, units)
      BY <3>1
    <3>3. GetsCpu(i, units)
      BY <3>2 DEF Executes
    <3>4. Cardinality(Worked') = Cardinality(Worked) + units
      BY <1>1, <2>1, <3>3, MoreWork
    <3>5. time' = time + units /\ units \in Nat
      BY <3>3 DEF GetsCpu
    <3> HIDE DEF Executes
    <3> QED
      BY <1>2, <3>4, <3>5 DEF Clock
  <2> QED
    BY <2>1, <2>2, <2>3
<1> QED
  BY <1>3, <1>4, <1>5

\* Of the queue and of SRTF.
Rest ==
  /\ algo # "rr" => q = <<>> /\ head = 0 /\ in_q = {}
  /\ last_running \in Ids \cup {-1}

LEMMA RestStep == ShareInv /\ Rest /\ [Next]_vars => Rest'
<1> SUFFICES ASSUME ShareInv, Rest, [Next]_vars PROVE Rest'
  OBVIOUS
<1>1. Ids' = Ids
  BY DrawnStep DEF ShareInv
<1>2. CASE RunAlgo
  BY <1>2 DEF RunAlgo, Rest
<1>3. CASE RrIdle \/ RrRun
  BY <1>1, <1>3 DEF RrIdle, RrRun, Scheduling, Elsewhere, Rest
<1>4. CASE SrtfRun
  <2>1. SrtfSelect \in Ids /\ last_running' = SrtfSelect
    BY <1>4, SrtfRuns DEF SrtfRun, GetsCpu, Ready
  <2> QED
    BY <1>1, <1>4, <2>1 DEF SrtfRun, Elsewhere, queueVars, Rest
<1>5. CASE FifoIdle \/ FifoRun \/ SjfIdle \/ SjfRun \/ SrtfIdle \/ Return \/ UNCHANGED vars
  BY <1>1, <1>5 DEF FifoIdle, FifoRun, SjfIdle, SjfRun, SrtfIdle, Return, Elsewhere, vars,
                    queueVars, Rest
<1> QED
  BY <1>2, <1>3, <1>4, <1>5 DEF Next, Stopped

LEMMA InvTypes ==
  ShareInv /\ Bounded /\ FigInv /\ Clock /\ Rest => TypeOK
<1> SUFFICES ASSUME ShareInv, Bounded, FigInv, Clock, Rest PROVE TypeOK
  OBVIOUS
<1>1. Drawn /\ Progress
  BY DEF ShareInv
<1>2. time \in Times
  <2>1. /\ time \in Nat /\ MaxArrival \in Nat /\ Cardinality(Ids) * MaxBurst \in Nat
        /\ Cardinality(Worked) \in Nat
        /\ Cardinality(Worked) <= Cardinality(Ids) * MaxBurst
        /\ time <= MaxArrival + Cardinality(Worked)
    BY <1>1, WorkedBound DEF Progress, Clock
  <2> DEFINE all == Cardinality(Ids) * MaxBurst
             some == Cardinality(Worked)
  <2>2. all \in Nat /\ some \in Nat /\ some <= all /\ time <= MaxArrival + some
    BY <2>1
  <2> HIDE DEF all, some
  <2>3. time \in 0 .. MaxArrival + all
    BY <2>1, <2>2
  <2> QED
    BY <2>3 DEF all, Times
<1>3. \A t \in Nat : t <= time => t \in Times
  <2>1. Cardinality(Ids) * MaxBurst \in Nat /\ MaxArrival \in Nat
    BY <1>1, WorkedBound
  <2> DEFINE last == MaxArrival + Cardinality(Ids) * MaxBurst
  <2>2. last \in Int /\ time \in 0 .. last
    BY <1>2, <2>1 DEF Times
  <2> HIDE DEF last
  <2>3. \A t \in Nat : t <= time => t \in 0 .. last
    BY <2>2
  <2> QED
    BY <2>3 DEF last, Times
<1>4. /\ burst \in [Ids -> 1 .. MaxBurst] /\ arrival \in [Ids -> 0 .. MaxArrival]
      /\ remaining \in [Ids -> 0 .. MaxBurst]
  <2>1. \A i \in Ids : /\ burst[i] \in 1 .. MaxBurst /\ arrival[i] \in 0 .. MaxArrival
                       /\ remaining[i] \in 0 .. MaxBurst
    <3> TAKE i \in Ids
    <3>1. /\ burst[i] \in Nat \ {0} /\ arrival[i] \in Nat /\ remaining[i] \in Nat
          /\ burst[i] <= MaxBurst /\ arrival[i] <= MaxArrival /\ remaining[i] <= burst[i]
      BY <1>1 DEF Drawn, Progress, Bounded, FigInv, Figures
    <3> QED
      BY <3>1
  <2> QED
    BY <1>1, <2>1 DEF Drawn, Progress
<1>5. ASSUME NEW i \in Ids
      PROVE  /\ start[i] \in {-1} \cup Times /\ finish[i] \in Times
             /\ waiting[i] \in Times /\ turnaround[i] \in Times
  <2>1. /\ burst[i] \in Nat \ {0} /\ arrival[i] \in Nat /\ remaining[i] \in Nat /\ time \in Nat
        /\ Figures(i)
    BY <1>1 DEF Drawn, Progress, FigInv
  <2>2. start[i] = -1 \/ (start[i] \in Nat /\ start[i] <= time)
    BY <2>1 DEF Figures, Work
  <2>3. finish[i] \in Nat /\ finish[i] <= time
    BY <2>1 DEF Figures
  <2>4. turnaround[i] \in Nat /\ turnaround[i] <= time /\ waiting[i] \in Nat /\ waiting[i] <= time
    <3>1. CASE remaining[i] > 0
      BY <2>1, <3>1 DEF Figures
    <3>2. CASE remaining[i] = 0
      BY <2>1, <3>2 DEF Figures
    <3> QED
      BY <2>1, <3>1, <3>2
  <2> QED
    BY <1>3, <2>2, <2>3, <2>4
<1>6. /\ start \in [Ids -> {-1} \cup Times] /\ finish \in [Ids -> Times]
      /\ waiting \in [Ids -> Times] /\ turnaround \in [Ids -> Times]
  BY <1>5 DEF FigInv
<1>7. done \subseteq Ids /\ in_q \subseteq Ids /\ head \in 0 .. Len(q)
  BY DEF ShareInv, Progress, Queueing, Rest
<1> QED
  BY <1>2, <1>4, <1>6, <1>7 DEF TypeOK, Rest

\* The invariant of the figures.
ShownInv == ShareInv /\ Bounded /\ FigInv /\ Clock /\ Rest

LEMMA ShownInit == Init => ShownInv
<1> SUFFICES ASSUME Init PROVE ShownInv
  OBVIOUS
<1>1. ShareInv /\ Bounded /\ FigInv
  BY ShareInit, FigInit
<1>2. Clock
  <2>1. Cardinality(Worked) \in Nat /\ time = 0
    BY <1>1, WorkedBound DEF ShareInv, Init
  <2> QED
    BY <2>1 DEF Clock
<1>3. Rest
  BY DEF Init, Rest
<1> QED
  BY <1>1, <1>2, <1>3 DEF ShownInv

LEMMA ShownStep == ShownInv /\ [Next]_vars => ShownInv'
BY ShareStep, FigStep, ClockStep, RestStep DEF ShownInv

\* Every variable keeps its type: the clock stops growing with the last arrival
\* and all the work, no waiting time or turnaround is negative, and the queue is
\* taken from no further than it was filled (scheduler.c:67-294).
THEOREM Typing == Spec => []TypeOK
BY ShownInit, ShownStep, InvTypes, PTL DEF Spec, ShownInv

-----------------------------------------------------------------------------
(* The length of the queue of RR.                                            *)

LEMMA Multiples ==
  ASSUME NEW a \in Nat, NEW m \in Nat, NEW r \in 1 .. Quantum
  PROVE  a * Quantum < m * Quantum + r <=> a <= m
<1>1. CASE a <= m
  <2>1. PICK d \in Nat : m = a + d
    <3>1. m - a \in Nat /\ m = a + (m - a)
      BY <1>1
    <3> QED
      BY <3>1
  <2>2. m * Quantum = a * Quantum + d * Quantum
    BY <2>1
  <2>3. d * Quantum \in Nat /\ a * Quantum \in Nat
    BY <2>1
  <2> QED
    BY <1>1, <2>2, <2>3
<1>2. CASE a > m
  <2>1. PICK d \in Nat : a = m + 1 + d
    <3>1. a - m - 1 \in Nat /\ a = m + 1 + (a - m - 1)
      BY <1>2
    <3> QED
      BY <3>1
  <2>2. a * Quantum = m * Quantum + Quantum + d * Quantum
    BY <2>1
  <2>3. d * Quantum \in Nat /\ m * Quantum \in Nat
    BY <2>1
  <2> QED
    BY <1>2, <2>2, <2>3
<1> QED
  BY <1>1, <1>2

\* How many quanta the longest burst takes.
LEMMA QuantaBound ==
  /\ Quanta \in Nat
  /\ \A k \in Nat : k * Quantum < MaxBurst => k \in 0 .. Quanta - 1
<1> DEFINE n == MaxBurst + Quantum - 1
<1>1. n \in Nat
  OBVIOUS
<1>2. Quanta = n \div Quantum
  BY DEF Quanta
<1>3. ASSUME NEW x \in Nat
      PROVE  x \div Quantum \in Nat /\ x = Quantum * (x \div Quantum) + (x % Quantum)
             /\ x % Quantum \in 0 .. Quantum - 1
  OBVIOUS
<1>4. /\ Quanta \in Nat /\ n % Quantum \in 0 .. Quantum - 1
      /\ n = Quantum * Quanta + (n % Quantum)
  BY <1>1, <1>2, <1>3
<1>5. ASSUME NEW k \in Nat, k * Quantum < MaxBurst PROVE k < Quanta
  <2>1. SUFFICES ASSUME k >= Quanta PROVE FALSE
    BY <1>4
  <2>2. PICK d \in Nat : k = Quanta + d
    <3>1. k - Quanta \in Nat /\ k = Quanta + (k - Quanta)
      BY <1>4, <2>1
    <3> QED
      BY <3>1
  <2>3. k * Quantum = Quantum * Quanta + d * Quantum
    BY <1>4, <2>2
  <2>4. d * Quantum \in Nat /\ Quantum * Quanta \in Nat
    BY <1>4, <2>2
  <2>5. Quantum * Quanta = n - (n % Quantum)
    BY <1>1, <1>4, <2>4
  <2>6. k * Quantum >= n - (Quantum - 1)
    BY <1>1, <1>4, <2>3, <2>4, <2>5
  <2> QED
    BY <1>5, <2>6
<1> QED
  BY <1>4, <1>5

\* The quanta that have been given: quantum m of a thread begins when it has
\* run for m of them.
Given == {p \in Ids \X (0 .. Quanta - 1) : p[2] * Quantum < Work(p[1])}

\* A thread that has work left has had whole quanta only.
WholeQuanta == \A i \in Ids : remaining[i] > 0 => \E m \in Nat : Work(i) = m * Quantum

GivenInv == algo = "rr" => WholeQuanta /\ head = Cardinality(Given)

LEMMA GivenFinite ==
  ASSUME Drawn
  PROVE  /\ IsFiniteSet(Ids \X (0 .. Quanta - 1)) /\ IsFiniteSet(Given)
         /\ Cardinality(Ids \X (0 .. Quanta - 1)) = Cardinality(Ids) * Quanta
<1>1. IsFiniteSet(0 .. Quanta - 1) /\ Cardinality(0 .. Quanta - 1) = Quanta
  <2>1. Quanta - 1 \in Int /\ 0 \in Int /\ (IF 0 > Quanta - 1 THEN 0 ELSE Quanta - 1 - 0 + 1) = Quanta
    BY QuantaBound
  <2> QED
    BY <2>1, FS_Interval
<1>2. /\ IsFiniteSet(Ids \X (0 .. Quanta - 1))
      /\ Cardinality(Ids \X (0 .. Quanta - 1)) = Cardinality(Ids) * Quanta
  BY <1>1, FS_Product DEF Drawn
<1>3. Given \subseteq Ids \X (0 .. Quanta - 1)
  BY DEF Given
<1> QED
  BY <1>2, <1>3, FS_Subset

LEMMA OneMoreQuantum ==
  ASSUME Drawn, Progress, Bounded, FigInv, WholeQuanta,
         NEW i \in Ready, GetsCpu(i, RunTime(i)), burst' = burst
  PROVE  WholeQuanta' /\ Cardinality(Given') = Cardinality(Given) + 1
<1>1. /\ i \in Ids /\ burst[i] \in Nat /\ remaining[i] \in Nat /\ remaining[i] > 0
      /\ remaining[i] <= burst[i] /\ burst[i] <= MaxBurst
  BY ReadyLeft DEF Drawn, Progress, FigInv, Figures, Bounded
<1>2. PICK m \in Nat : Work(i) = m * Quantum
  BY <1>1 DEF WholeQuanta
<1>3. /\ RunTime(i) \in 1 .. Quantum /\ RunTime(i) <= remaining[i]
      /\ RunTime(i) = remaining[i] \/ RunTime(i) = Quantum
  BY <1>1 DEF RunTime
<1> DEFINE run == RunTime(i)
<1>4. \A j \in Ids : remaining'[j] = IF j = i THEN remaining[i] - run ELSE remaining[j]
  BY DEF GetsCpu, Progress
<1> HIDE DEF run
<1>5. run \in 1 .. Quantum /\ run <= remaining[i] /\ (run = remaining[i] \/ run = Quantum)
  BY <1>3 DEF run
<1>6. Ids' = Ids /\ \A j \in Ids : Work(j)' = IF j = i THEN Work(i) + run ELSE Work(j)
  BY <1>1, <1>4, <1>5 DEF Work, Ids
<1>7. WholeQuanta'
  <2> SUFFICES ASSUME NEW j \in Ids, remaining'[j] > 0 PROVE \E k \in Nat : Work(j)' = k * Quantum
    BY <1>6 DEF WholeQuanta
  <2>1. CASE j = i
    <3>1. run = Quantum
      BY <1>1, <1>4, <1>5, <2>1
    <3>2. Work(j)' = (m + 1) * Quantum /\ m + 1 \in Nat
      <4>1. (m + 1) * Quantum = m * Quantum + Quantum
        OBVIOUS
      <4> QED
        BY <1>2, <1>6, <2>1, <3>1, <4>1
    <3> QED
      BY <3>2
  <2>2. CASE j # i
    <3>1. remaining[j] > 0 /\ Work(j)' = Work(j)
      BY <1>4, <1>6, <2>2
    <3> QED
      BY <3>1 DEF WholeQuanta
  <2> QED
    BY <2>1, <2>2
<1>8. m \in 0 .. Quanta - 1
  <2>1. m * Quantum < MaxBurst
    BY <1>1, <1>2 DEF Work
  <2> QED
    BY <2>1, QuantaBound
<1>9. \A k \in 0 .. Quanta - 1 : /\ k * Quantum < Work(i)' <=> k <= m
                                 /\ k * Quantum < Work(i) <=> k < m
  <2> TAKE k \in 0 .. Quanta - 1
  <2>1. k \in Nat
    OBVIOUS
  <2>2. k * Quantum < Work(i)' <=> k <= m
    BY <1>1, <1>2, <1>5, <1>6, <2>1, Multiples
  <2>3. k * Quantum < Work(i) <=> k < m
    <3>1. CASE m = 0
      <4>1. Work(i) = 0 /\ k * Quantum \in Nat
        BY <1>2, <2>1, <3>1
      <4> QED
        BY <2>1, <3>1, <4>1
    <3>2. CASE m # 0
      <4>1. m - 1 \in Nat /\ Quantum \in 1 .. Quantum /\ m * Quantum = (m - 1) * Quantum + Quantum
        BY <3>2
      <4>2. k * Quantum < (m - 1) * Quantum + Quantum <=> k <= m - 1
        BY <2>1, <4>1, Multiples
      <4>3. k <= m - 1 <=> k < m
        BY <2>1
      <4> QED
        BY <1>2, <4>1, <4>2, <4>3
    <3> QED
      BY <3>1, <3>2
  <2> QED
    BY <2>2, <2>3
<1>10. Given' = Given \cup {<<i, m>>}
  <2>1. ASSUME NEW j \in Ids, NEW k \in 0 .. Quanta - 1
        PROVE  <<j, k>> \in Given' <=> <<j, k>> \in Given \cup {<<i, m>>}
    <3>1. <<j, k>> \in Given' <=> k * Quantum < Work(j)'
      BY <1>6 DEF Given, Quanta
    <3>2. <<j, k>> \in Given <=> k * Quantum < Work(j)
      BY DEF Given
    <3>3. <<j, k>> = <<i, m>> <=> j = i /\ k = m
      OBVIOUS
    <3>4. k <= m <=> k < m \/ k = m
      OBVIOUS
    <3>5. CASE j = i
      BY <1>9, <3>1, <3>2, <3>3, <3>4, <3>5
    <3>6. CASE j # i
      BY <1>6, <3>1, <3>2, <3>3, <3>6
    <3> QED
      BY <3>5, <3>6
  <2>2. /\ Given' \subseteq Ids \X (0 .. Quanta - 1) /\ Given \subseteq Ids \X (0 .. Quanta - 1)
        /\ {<<i, m>>} \subseteq Ids \X (0 .. Quanta - 1)
    BY <1>1, <1>6, <1>8 DEF Given, Quanta
  <2> QED
    BY <2>1, <2>2
<1>11. <<i, m>> \notin Given
  BY <1>8, <1>9 DEF Given
<1> QED
  BY <1>7, <1>10, <1>11, GivenFinite, FS_AddElement

LEMMA GivenStep == ShownInv /\ GivenInv /\ [Next]_vars => GivenInv'
<1> SUFFICES ASSUME ShownInv, GivenInv, [Next]_vars PROVE GivenInv'
  OBVIOUS
<1>1. ShareInv /\ Drawn /\ Progress /\ Bounded /\ FigInv /\ Ids' = Ids
  BY DrawnStep DEF ShownInv, ShareInv
<1>2. CASE RunAlgo
  <2>1. remaining' = burst /\ burst' = burst /\ head' = 0
    BY <1>2 DEF RunAlgo
  <2>2. \A i \in Ids : Work(i)' = 0
    BY <1>1, <2>1 DEF Work, Drawn
  <2>3. Given' = {}
    <3>1. ASSUME NEW p \in Given' PROVE FALSE
      <4>1. p[1] \in Ids /\ p[2] \in 0 .. Quanta - 1 /\ p[2] * Quantum < Work(p[1])'
        BY <1>1, <3>1 DEF Given, Quanta
      <4>2. p[2] * Quantum \in Nat
        BY <4>1
      <4> QED
        BY <2>2, <4>1, <4>2
    <3> QED
      BY <3>1
  <2>4. WholeQuanta'
    <3>1. 0 \in Nat /\ 0 = 0 * Quantum
      OBVIOUS
    <3> QED
      BY <1>1, <2>2, <3>1 DEF WholeQuanta
  <2> QED
    BY <2>1, <2>3, <2>4, FS_EmptySet DEF GivenInv
<1>3. CASE RrRun
  <2>1. GetsCpu(RrEnqueue[head + 1], RunTime(RrEnqueue[head + 1]))
    BY <1>1, <1>3, RrRuns
  <2> DEFINE sel == RrEnqueue[head + 1]
  <2>2. algo = "rr" /\ burst' = burst /\ head' = head + 1
    BY <1>3 DEF RrRun, Scheduling, Elsewhere
  <2>3. sel \in Ready
    BY <2>1 DEF GetsCpu
  <2> HIDE DEF sel
  <2>4. WholeQuanta' /\ Cardinality(Given') = Cardinality(Given) + 1
    BY <1>1, <2>1, <2>2, <2>3, OneMoreQuantum DEF GivenInv, sel
  <2> QED
    BY <2>2, <2>4 DEF GivenInv
<1>4. CASE RrIdle \/ Return \/ UNCHANGED vars
  <2>1. UNCHANGED <<burst, remaining, head, algo>>
    BY <1>4 DEF RrIdle, Return, vars, logVars, threadVars, queueVars, Elsewhere
  <2> QED
    BY <2>1 DEF GivenInv, Given, WholeQuanta, Work, Ids, Quanta
<1>5. CASE FifoIdle \/ FifoRun \/ SjfIdle \/ SjfRun \/ SrtfIdle \/ SrtfRun
  BY <1>5 DEF FifoIdle, FifoRun, SjfIdle, SjfRun, SrtfIdle, SrtfRun, Scheduling, Elsewhere, GivenInv
<1> QED
  BY <1>2, <1>3, <1>4, <1>5 DEF Next, Stopped

\* Those that wait have a quantum to come, which is none of those given.
LEMMA QueueLength ==
  ASSUME ShownInv, GivenInv, algo = "rr", Cardinality(in_q) = Len(q) - head
  PROVE  Len(q) <= Cardinality(Ids) * Quanta
<1>1. ShareInv /\ Drawn /\ Progress /\ Bounded /\ FigInv
  BY DEF ShownInv, ShareInv
<1>2. in_q \subseteq Ids /\ \A i \in in_q : remaining[i] > 0
  BY <1>1 DEF ShareInv, Queueing
<1> DEFINE f == [i \in in_q |-> <<i, CHOOSE m \in Nat : Work(i) = m * Quantum>>]
           T == {f[i] : i \in in_q}
<1>3. ASSUME NEW i \in in_q
      PROVE  f[i] \in Ids \X (0 .. Quanta - 1) /\ f[i][1] = i /\ f[i] \notin Given
  <2> DEFINE m == CHOOSE n \in Nat : Work(i) = n * Quantum
  <2>1. m \in Nat /\ Work(i) = m * Quantum
    BY <1>2 DEF GivenInv, WholeQuanta
  <2>2. f[i] = <<i, m>>
    OBVIOUS
  <2> HIDE DEF m, f
  <2>3. m * Quantum < MaxBurst
    <3>1. /\ burst[i] \in Nat /\ remaining[i] \in Nat /\ remaining[i] > 0
          /\ remaining[i] <= burst[i] /\ burst[i] <= MaxBurst
      BY <1>1, <1>2 DEF Drawn, Progress, FigInv, Figures, Bounded
    <3> QED
      BY <2>1, <3>1 DEF Work
  <2>4. m \in 0 .. Quanta - 1
    BY <2>1, <2>3, QuantaBound
  <2>5. m * Quantum \in Nat
    BY <2>1
  <2> QED
    BY <1>2, <2>1, <2>2, <2>4, <2>5 DEF Given
<1> HIDE DEF f
<1>4. IsFiniteSet(in_q)
  BY <1>1, <1>2, FS_Subset DEF Drawn
<1>5. f \in [in_q -> T]
  BY DEF f
<1>6. f \in Bijection(in_q, T)
  BY <1>3, <1>5 DEF Bijection, Injection, Surjection, IsInjective
<1>7. IsFiniteSet(T) /\ Cardinality(T) = Cardinality(in_q)
  <2> HIDE DEF T
  <2> QED
    BY <1>4, <1>6, FS_Bijection DEF ExistsBijection
<1>8. T \subseteq Ids \X (0 .. Quanta - 1) /\ Given \cap T = {}
  BY <1>3
<1> HIDE DEF T
<1>9. /\ Cardinality(Given \cup T) = Cardinality(Given) + Cardinality(T) - Cardinality(Given \cap T)
      /\ Cardinality(Given \cap T) = 0
  BY <1>1, <1>7, <1>8, GivenFinite, FS_Union, FS_EmptySet
<1>10. Cardinality(Given \cup T) <= Cardinality(Ids) * Quanta
  <2>1. Given \cup T \subseteq Ids \X (0 .. Quanta - 1)
    BY <1>8 DEF Given
  <2>2. /\ IsFiniteSet(Ids \X (0 .. Quanta - 1))
        /\ Cardinality(Ids \X (0 .. Quanta - 1)) = Cardinality(Ids) * Quanta
    BY <1>1, GivenFinite
  <2>3. Cardinality(Given \cup T) <= Cardinality(Ids \X (0 .. Quanta - 1))
    BY <2>1, <2>2, FS_Subset
  <2> QED
    BY <2>2, <2>3
<1>11. head = Cardinality(Given) /\ Cardinality(Given) \in Nat /\ Len(q) \in Nat
       /\ Cardinality(T) = Len(q) - head
  <2>1. q \in Seq(Ids)
    BY <1>1 DEF ShareInv, Queueing
  <2>2. Cardinality(Given) \in Nat
    BY <1>1, GivenFinite, FS_CardinalityType
  <2> QED
    BY <1>7, <2>1, <2>2 DEF GivenInv
<1>12. Cardinality(Given \cup T) = Len(q)
  BY <1>9, <1>11
<1> QED
  BY <1>10, <1>12

\* Under RR, at every iteration, the queue has the threads that can run, each
\* once, and in_q says which; and it never has more entries than there are
\* quanta in all bursts, so that its array does not overflow (scheduler.c:120-166).
THEOREM QueuedExactly == Spec => []QueueExact
<1>1. Init => Waiters /\ GivenInv
  BY DEF Init, Waiters, GivenInv
<1>2. ShareInv /\ Waiters => ReadyQueued
  <2> SUFFICES ASSUME ShareInv, Waiters, algo = "rr"
               PROVE  /\ Waiting = in_q /\ Cardinality(in_q) = Len(q) - head
                      /\ {i \in Ready : arrival[i] < time} \subseteq in_q
                      /\ in_q \subseteq Ready
    BY DEF ReadyQueued
  <2>1. Waiting = in_q /\ Cardinality(in_q) = Len(q) - head
    BY ListsAll DEF ShareInv, Drawn, Queueing, Waiting
  <2>2. in_q \subseteq Ready
    BY ReadyLeft DEF ShareInv, Queueing
  <2> QED
    BY <2>1, <2>2 DEF Waiters
<1>3. ShownInv /\ Waiters /\ GivenInv => QueueExact
  BY <1>2, QueueLength DEF QueueExact, ReadyQueued, ShownInv
<1>4. ShownInv /\ Waiters /\ [Next]_vars => Waiters'
  BY WaitersStep DEF ShownInv
<1> QED
  BY <1>1, <1>3, <1>4, ShownInit, ShownStep, GivenStep, PTL DEF Spec

-----------------------------------------------------------------------------
(* The chart.                                                                *)

Slot == [thread_id : Ids \cup {Idling}, start : Nat, end : Nat]

\* The slots follow each other without a gap up to the present.
Chart ==
  /\ gantt \in Seq(Slot)
  /\ \A k \in 1 .. Len(gantt) :
       /\ gantt[k].start < gantt[k].end
       /\ gantt[k].start = IF k = 1 THEN 0 ELSE gantt[k - 1].end
       /\ k > 1 => gantt[k].thread_id # gantt[k - 1].thread_id
  /\ \A j, k \in 1 .. Len(gantt) : j < k => gantt[j].end <= gantt[k].start
  /\ time = IF gantt = <<>> THEN 0 ELSE gantt[Len(gantt)].end

\* The last slot of the chart grows, or there is a new one.
Grows(tid, to) ==
  /\ Len(gantt') = Len(gantt)
  /\ Len(gantt) > 0
  /\ gantt[Len(gantt)].thread_id = tid
  /\ gantt'[Len(gantt)] = [thread_id |-> tid, start |-> gantt[Len(gantt)].start, end |-> to]
  /\ \A k \in 1 .. Len(gantt) - 1 : gantt'[k] = gantt[k]

Adds(tid, to) ==
  /\ Len(gantt') = Len(gantt) + 1
  /\ Len(gantt) > 0 => gantt[Len(gantt)].thread_id # tid
  /\ gantt'[Len(gantt) + 1] = [thread_id |-> tid, start |-> time, end |-> to]
  /\ \A k \in 1 .. Len(gantt) : gantt'[k] = gantt[k]

LEMMA Pushed ==
  ASSUME Chart, time \in Nat, NEW tid \in Ids \cup {Idling}, NEW to \in Nat,
         gantt' = GanttPush(tid, time, to)
  PROVE  gantt' \in Seq(Slot) /\ (Grows(tid, to) \/ Adds(tid, to))
<1>1. gantt \in Seq(Slot) /\ Len(gantt) \in Nat /\ \A k \in 1 .. Len(gantt) : gantt[k] \in Slot
  BY DEF Chart
<1>2. CASE gantt # <<>> /\ gantt[Len(gantt)].thread_id = tid
  <2>1. Len(gantt) > 0
    BY <1>1, <1>2
  <2>2. gantt' = [gantt EXCEPT ![Len(gantt)].end = to]
    BY <1>2 DEF GanttPush
  <2>3. gantt[Len(gantt)] \in Slot
    BY <1>1, <2>1
  <2>4. [gantt[Len(gantt)] EXCEPT !.end = to]
          = [thread_id |-> tid, start |-> gantt[Len(gantt)].start, end |-> to]
    BY <1>2, <2>3 DEF Slot
  <2> DEFINE s == [thread_id |-> tid, start |-> gantt[Len(gantt)].start, end |-> to]
  <2>5. gantt' = [gantt EXCEPT ![Len(gantt)] = s]
    BY <2>2, <2>4
  <2>6. s \in Slot
    BY <2>3 DEF Slot
  <2> HIDE DEF s
  <2>7. gantt' \in Seq(Slot) /\ Len(gantt') = Len(gantt)
    <3>1. Len(gantt) \in 1 .. Len(gantt)
      BY <1>1, <2>1
    <3> QED
      BY <1>1, <2>5, <2>6, <3>1, ExceptSeq
  <2>8. gantt'[Len(gantt)] = s /\ \A k \in 1 .. Len(gantt) - 1 : gantt'[k] = gantt[k]
    BY <1>1, <2>1, <2>5
  <2> QED
    BY <1>2, <2>1, <2>7, <2>8 DEF Grows, s
<1>3. CASE ~(gantt # <<>> /\ gantt[Len(gantt)].thread_id = tid)
  <2> DEFINE s == [thread_id |-> tid, start |-> time, end |-> to]
  <2>1. gantt' = Append(gantt, s)
    BY <1>3 DEF GanttPush
  <2>2. s \in Slot
    BY DEF Slot
  <2>3. Len(gantt) > 0 => gantt[Len(gantt)].thread_id # tid
    BY <1>1, <1>3
  <2> HIDE DEF s
  <2>4. /\ gantt' \in Seq(Slot) /\ Len(gantt') = Len(gantt) + 1
        /\ gantt'[Len(gantt) + 1] = s
        /\ \A k \in 1 .. Len(gantt) : gantt'[k] = gantt[k]
    BY <1>1, <2>1, <2>2
  <2> QED
    BY <2>3, <2>4 DEF Adds, s
<1> QED
  BY <1>2, <1>3

LEMMA ChartPush ==
  ASSUME Chart, time \in Nat, NEW tid \in Ids \cup {Idling}, NEW to \in Nat, time < to,
         gantt' = GanttPush(tid, time, to), time' = to, Ids' = Ids
  PROVE  Chart'
<1> DEFINE n == Len(gantt)
<1>1. n \in Nat /\ gantt \in Seq(Slot) /\ \A k \in 1 .. n : gantt[k] \in Slot
  BY DEF Chart
<1>2. gantt' \in Seq(Slot) /\ (Grows(tid, to) \/ Adds(tid, to))
  BY Pushed
<1>3. (gantt \in Seq(Slot))'
  BY <1>2 DEF Slot
<1>4. /\ \A k \in 1 .. n : /\ gantt[k].start < gantt[k].end
                           /\ gantt[k].start = IF k = 1 THEN 0 ELSE gantt[k - 1].end
                           /\ k > 1 => gantt[k].thread_id # gantt[k - 1].thread_id
                           /\ gantt[k].start \in Nat /\ gantt[k].end \in Nat
      /\ \A j, k \in 1 .. n : j < k => gantt[j].end <= gantt[k].start
      /\ time = IF n = 0 THEN 0 ELSE gantt[n].end
  <2>1. \A k \in 1 .. n : gantt[k].start \in Nat /\ gantt[k].end \in Nat
    BY <1>1 DEF Slot
  <2>2. n = 0 <=> gantt = <<>>
    BY <1>1
  <2> QED
    BY <2>1, <2>2 DEF Chart
<1>5. CASE Grows(tid, to)
  <2> USE DEF Grows
  <2>1. /\ Len(gantt') = n /\ n > 0
        /\ \A k \in 1 .. n : /\ gantt'[k].start = gantt[k].start
                             /\ gantt'[k].thread_id = gantt[k].thread_id
                             /\ gantt'[k].end = IF k = n THEN to ELSE gantt[k].end
    <3>1. /\ Len(gantt') = n /\ n > 0
          /\ gantt'[n].start = gantt[n].start /\ gantt'[n].end = to
          /\ gantt'[n].thread_id = gantt[n].thread_id
      BY <1>5
    <3>2. \A k \in 1 .. n - 1 : gantt'[k] = gantt[k]
      BY <1>5
    <3>3. \A k \in 1 .. n : k = n \/ k \in 1 .. n - 1
      BY <1>1
    <3> HIDE DEF n, Grows
    <3> QED
      BY <1>1, <3>1, <3>2, <3>3
  <2> HIDE DEF n, Grows
  <2>n. n \in 1 .. n /\ time = gantt[n].end /\ gantt[n].end < to
    BY <1>1, <1>4, <2>1
  <2>2. ASSUME NEW k \in 1 .. n
        PROVE  /\ gantt'[k].start < gantt'[k].end
               /\ gantt'[k].start = IF k = 1 THEN 0 ELSE gantt'[k - 1].end
               /\ k > 1 => gantt'[k].thread_id # gantt'[k - 1].thread_id
    <3>1. gantt'[k].start < gantt'[k].end
      <4>1. gantt[k].start < gantt[k].end /\ gantt[k].start \in Nat /\ gantt[k].end \in Nat
        BY <1>4
      <4>2. gantt'[k].start = gantt[k].start /\ gantt'[k].end = IF k = n THEN to ELSE gantt[k].end
        BY <2>1
      <4> QED
        BY <2>n, <4>1, <4>2
    <3>2. k > 1 => k - 1 \in 1 .. n /\ k - 1 # n
      BY <1>1
    <3>3. gantt'[k].start = gantt[k].start /\ gantt'[k].thread_id = gantt[k].thread_id
      BY <2>1
    <3>4. k > 1 => /\ gantt'[k - 1].end = gantt[k - 1].end
                   /\ gantt'[k - 1].thread_id = gantt[k - 1].thread_id
      BY <2>1, <3>2
    <3>5. /\ gantt[k].start = IF k = 1 THEN 0 ELSE gantt[k - 1].end
          /\ k > 1 => gantt[k].thread_id # gantt[k - 1].thread_id
      BY <1>4
    <3>6. k = 1 \/ k > 1
      BY <1>1
    <3> QED
      BY <3>1, <3>3, <3>4, <3>5, <3>6
  <2>3. ASSUME NEW j \in 1 .. n, NEW k \in 1 .. n, j < k
        PROVE  gantt'[j].end <= gantt'[k].start
    <3>1. j # n
      BY <1>1, <2>3
    <3>2. gantt'[j].end = gantt[j].end /\ gantt'[k].start = gantt[k].start
      BY <2>1, <3>1
    <3> QED
      BY <1>4, <2>3, <3>2
  <2>4. gantt' # <<>> /\ time' = gantt'[n].end
    BY <1>1, <1>2, <2>1
  <2>5. n = Len(gantt')
    BY <2>1
  <2>6. \A k \in 1 .. Len(gantt') :
          /\ gantt'[k].start < gantt'[k].end
          /\ gantt'[k].start = IF k = 1 THEN 0 ELSE gantt'[k - 1].end
          /\ k > 1 => gantt'[k].thread_id # gantt'[k - 1].thread_id
    BY <2>2, <2>5
  <2>7. \A j, k \in 1 .. Len(gantt') : j < k => gantt'[j].end <= gantt'[k].start
    BY <2>3, <2>5
  <2>8. time' = IF gantt' = <<>> THEN 0 ELSE gantt'[Len(gantt')].end
    BY <2>4, <2>5
  <2> QED
    BY <1>3, <2>6, <2>7, <2>8 DEF Chart
<1>6. CASE Adds(tid, to)
  <2>1. /\ Len(gantt') = n + 1 /\ (n > 0 => gantt[n].thread_id # tid)
        /\ gantt'[n + 1].thread_id = tid /\ gantt'[n + 1].start = time /\ gantt'[n + 1].end = to
        /\ \A k \in 1 .. n : gantt'[k] = gantt[k]
    BY <1>6 DEF Adds
  <2> HIDE DEF n
  <2>2. \A k \in 1 .. n + 1 : k = n + 1 \/ k \in 1 .. n
    BY <1>1
  <2>3. ASSUME NEW k \in 1 .. n + 1
        PROVE  /\ gantt'[k].start < gantt'[k].end
               /\ gantt'[k].start = IF k = 1 THEN 0 ELSE gantt'[k - 1].end
               /\ k > 1 => gantt'[k].thread_id # gantt'[k - 1].thread_id
    <3>1. CASE k = n + 1
      <4>1. CASE n = 0
        BY <1>4, <2>1, <3>1, <4>1
      <4>2. CASE n > 0
        <5>1. k - 1 = n /\ n \in 1 .. n /\ k # 1
          BY <1>1, <3>1, <4>2
        <5> QED
          BY <1>4, <2>1, <3>1, <4>2, <5>1
      <4> QED
        BY <1>1, <4>1, <4>2
    <3>2. CASE k \in 1 .. n
      <4>1. k > 1 => k - 1 \in 1 .. n
        BY <1>1, <3>2
      <4> QED
        BY <1>4, <2>1, <3>2, <4>1
    <3> QED
      BY <2>2, <3>1, <3>2
  <2>4. ASSUME NEW j \in 1 .. n + 1, NEW k \in 1 .. n + 1, j < k
        PROVE  gantt'[j].end <= gantt'[k].start
    <3>1. j \in 1 .. n
      BY <1>1, <2>4
    <3>2. CASE k \in 1 .. n
      BY <1>4, <2>1, <2>4, <3>1, <3>2
    <3>3. CASE k = n + 1
      <4>1. n > 0 /\ n \in 1 .. n /\ time = gantt[n].end
        BY <1>1, <1>4, <3>1
      <4>2. gantt[j].end <= gantt[n].end
        <5>1. CASE j = n
          BY <1>4, <4>1, <5>1
        <5>2. CASE j < n
          <6>1. gantt[j].end <= gantt[n].start /\ gantt[n].start < gantt[n].end
            BY <1>4, <3>1, <4>1, <5>2
          <6>2. gantt[j].end \in Nat /\ gantt[n].start \in Nat /\ gantt[n].end \in Nat
            BY <1>4, <3>1, <4>1
          <6> QED
            BY <6>1, <6>2
        <5> QED
          BY <1>1, <3>1, <5>1, <5>2
      <4> QED
        BY <2>1, <3>1, <3>3, <4>1, <4>2
    <3> QED
      BY <2>2, <3>2, <3>3
  <2>5. gantt' # <<>> /\ time' = gantt'[n + 1].end
    BY <1>1, <1>2, <2>1
  <2> QED
    BY <1>3, <2>1, <2>3, <2>4, <2>5 DEF Chart
<1> QED
  BY <1>2, <1>5, <1>6

LEMMA ChartStep == ShownInv /\ Chart /\ [Next]_vars => Chart'
<1> SUFFICES ASSUME ShownInv, Chart, [Next]_vars PROVE Chart'
  OBVIOUS
<1>1. ShareInv /\ FigInv /\ Drawn /\ Progress /\ Ids' = Ids /\ time \in Nat
  BY DrawnStep DEF ShownInv, ShareInv, Progress
<1>2. CASE RunAlgo
  BY <1>2 DEF RunAlgo, Chart
<1>3. CASE Return \/ UNCHANGED vars
  BY <1>1, <1>3 DEF Return, vars, logVars, Chart, Slot
<1>4. CASE Next /\ ~RunAlgo /\ ~Return /\ ~UNCHANGED vars
  <2>1. \/ IdleUnit
        \/ \E i \in Ready : \E units \in 1 .. remaining[i] : Executes(i, units)
    BY <1>1, <1>4, Steps
  <2>2. CASE IdleUnit
    <3>1. gantt' = GanttPush(Idling, time, time + 1) /\ time' = time + 1
      BY <2>2 DEF IdleUnit
    <3>2. time + 1 \in Nat /\ time < time + 1
      BY <1>1
    <3> QED
      BY <1>1, <3>1, <3>2, ChartPush
  <2>3. ASSUME NEW i \in Ready, NEW units \in 1 .. remaining[i], Executes(i, units) PROVE Chart'
    <3>1. gantt' = GanttPush(i, time, time + units) /\ time' = time + units
      BY <2>3 DEF Executes, GetsCpu
    <3>2. i \in Ids /\ time + units \in Nat /\ time < time + units
      BY <1>1 DEF Ready
    <3> QED
      BY <1>1, <3>1, <3>2, ChartPush
  <2> QED
    BY <2>1, <2>2, <2>3
<1> QED
  BY <1>2, <1>3, <1>4

-----------------------------------------------------------------------------
(* The instants of the chart.                                                *)

\* The instants of slot k, and those at which thread i had the CPU.
Span(k) == gantt[k].start .. gantt[k].end - 1

Units(i) == UNION {Span(k) : k \in Slots(i)}

\* Nobody runs after the present.
LEMMA SlotTimes ==
  ASSUME Chart, NEW k \in DOMAIN gantt
  PROVE  /\ gantt[k].start \in Nat /\ gantt[k].end \in Nat /\ gantt[k].start < gantt[k].end
         /\ gantt[k].end <= time
<1>1. k \in 1 .. Len(gantt) /\ Len(gantt) \in Nat /\ gantt # <<>>
  BY DEF Chart
<1>2. \A m \in 1 .. Len(gantt) : gantt[m].start \in Nat /\ gantt[m].end \in Nat
  <2>1. \A m \in 1 .. Len(gantt) : gantt[m] \in Slot
    BY DEF Chart
  <2> QED
    BY <2>1 DEF Slot
<1>3. Len(gantt) \in 1 .. Len(gantt)
  BY <1>1
<1>4. time = gantt[Len(gantt)].end /\ gantt[Len(gantt)].start < gantt[Len(gantt)].end
  BY <1>1, <1>3 DEF Chart
<1>5. gantt[k].start < gantt[k].end
  BY <1>1 DEF Chart
<1>6. CASE k = Len(gantt)
  BY <1>1, <1>2, <1>4, <1>5, <1>6
<1>7. CASE k < Len(gantt)
  <2>1. gantt[k].end <= gantt[Len(gantt)].start
    BY <1>1, <1>3, <1>7 DEF Chart
  <2> QED
    BY <1>1, <1>2, <1>3, <1>4, <1>5, <2>1
<1> QED
  BY <1>1, <1>6, <1>7

\* No instant is in two slots.
LEMMA SpansApart ==
  ASSUME Chart, NEW j \in DOMAIN gantt, NEW k \in DOMAIN gantt, j # k
  PROVE  Span(j) \cap Span(k) = {}
<1>1. /\ j \in 1 .. Len(gantt) /\ k \in 1 .. Len(gantt) /\ Len(gantt) \in Nat
      /\ j < k \/ k < j
  BY DEF Chart
<1>2. gantt[j].end <= gantt[k].start \/ gantt[k].end <= gantt[j].start
  BY <1>1 DEF Chart
<1>3. /\ gantt[j].start \in Nat /\ gantt[j].end \in Nat
      /\ gantt[k].start \in Nat /\ gantt[k].end \in Nat
  BY SlotTimes
<1> QED
  BY <1>2, <1>3 DEF Span

\* What a push does to the instants of the chart.
LEMMA SpansPush ==
  ASSUME Chart, time \in Nat, NEW tid \in Ids \cup {Idling}, NEW to \in Nat, time < to,
         gantt' = GanttPush(tid, time, to)
  PROVE  \E last \in DOMAIN gantt' :
           /\ gantt'[last].thread_id = tid /\ gantt'[last].end = to
           /\ time .. to - 1 \subseteq Span(last)'
           /\ DOMAIN gantt' = DOMAIN gantt \cup {last}
           /\ \A k \in DOMAIN gantt : k # last => gantt'[k] = gantt[k]
           /\ last \in DOMAIN gantt => /\ gantt[last].thread_id = tid
                                       /\ Span(last)' = Span(last) \cup (time .. to - 1)
           /\ last \notin DOMAIN gantt => Span(last)' = time .. to - 1
<1> DEFINE n == Len(gantt)
<1>1. /\ n \in Nat /\ DOMAIN gantt = 1 .. n /\ gantt' \in Seq(Slot)
      /\ Grows(tid, to) \/ Adds(tid, to)
  <2>1. gantt \in Seq(Slot)
    BY DEF Chart
  <2> QED
    BY <2>1, Pushed
<1>2. DOMAIN gantt' = 1 .. Len(gantt')
  BY <1>1
<1>3. CASE Grows(tid, to)
  <2>1. PICK last : last = n
    OBVIOUS
  <2> HIDE DEF n
  <2>2. /\ last \in 1 .. n /\ Len(gantt') = n /\ gantt[last].thread_id = tid
        /\ gantt'[last] = [thread_id |-> tid, start |-> gantt[last].start, end |-> to]
        /\ \A k \in 1 .. n - 1 : gantt'[k] = gantt[k]
    BY <1>1, <1>3, <2>1 DEF Grows, n
  <2>3. DOMAIN gantt' = DOMAIN gantt \cup {last} /\ last \in DOMAIN gantt
    BY <1>1, <1>2, <2>2
  <2>4. /\ gantt[last].start \in Nat /\ gantt[last].end \in Nat
        /\ gantt[last].start < gantt[last].end
    BY <2>3, SlotTimes
  <2>5. gantt[last].end = time
    BY <1>1, <2>1, <2>2 DEF Chart, n
  <2>6. Span(last)' = Span(last) \cup (time .. to - 1)
    <3>1. Span(last)' = gantt[last].start .. to - 1
      BY <2>2 DEF Span
    <3>2. \A a, b, c \in Nat : a < b /\ b < c => a .. c - 1 = (a .. b - 1) \cup (b .. c - 1)
      OBVIOUS
    <3>3. gantt[last].start .. to - 1 = (gantt[last].start .. time - 1) \cup (time .. to - 1)
      BY <2>4, <2>5, <3>2
    <3> QED
      BY <2>5, <3>1, <3>3 DEF Span
  <2>7. \A k \in DOMAIN gantt : k # last => gantt'[k] = gantt[k]
    <3>1. \A m \in Nat : \A k \in 1 .. m : k # m => k \in 1 .. m - 1
      OBVIOUS
    <3> QED
      BY <1>1, <2>1, <2>2, <3>1
  <2>8. gantt'[last].thread_id = tid /\ gantt'[last].end = to
    BY <2>2
  <2> QED
    BY <2>2, <2>3, <2>6, <2>7, <2>8
<1>4. CASE Adds(tid, to)
  <2> DEFINE last == n + 1
  <2>1. /\ Len(gantt') = last
        /\ gantt'[last] = [thread_id |-> tid, start |-> time, end |-> to]
        /\ \A k \in 1 .. n : gantt'[k] = gantt[k]
    BY <1>4 DEF Adds
  <2>2. last \in DOMAIN gantt' /\ last \notin DOMAIN gantt /\ DOMAIN gantt' = DOMAIN gantt \cup {last}
    BY <1>1, <1>2, <2>1
  <2> HIDE DEF n, last
  <2>3. PICK c : c = last
    OBVIOUS
  <2>4. Span(c)' = time .. to - 1
    BY <2>1, <2>3 DEF Span
  <2>5. gantt'[c].thread_id = tid /\ gantt'[c].end = to
    BY <2>1, <2>3
  <2> QED
    BY <1>1, <2>1, <2>2, <2>3, <2>4, <2>5
<1> QED
  BY <1>1, <1>3, <1>4

Ends(i) == {gantt[k].end : k \in Slots(i)}

LEMMA UnitsPush ==
  ASSUME Chart, time \in Nat, NEW tid \in Ids \cup {Idling}, NEW to \in Nat, time < to,
         gantt' = GanttPush(tid, time, to)
  PROVE  /\ \A i : i # tid => Units(i)' = Units(i) /\ Ends(i)' = Ends(i)
         /\ Units(tid)' = Units(tid) \cup (time .. to - 1) /\ to \in Ends(tid)'
         /\ \A k \in DOMAIN gantt : k \in DOMAIN gantt' /\ Span(k) \subseteq Span(k)'
         /\ \A u \in time .. to - 1 : \E k \in DOMAIN gantt' : u \in Span(k)'
<1>1. PICK last \in DOMAIN gantt' :
           /\ gantt'[last].thread_id = tid /\ gantt'[last].end = to
           /\ time .. to - 1 \subseteq Span(last)'
           /\ DOMAIN gantt' = DOMAIN gantt \cup {last}
           /\ \A k \in DOMAIN gantt : k # last => gantt'[k] = gantt[k]
           /\ last \in DOMAIN gantt => /\ gantt[last].thread_id = tid
                                       /\ Span(last)' = Span(last) \cup (time .. to - 1)
           /\ last \notin DOMAIN gantt => Span(last)' = time .. to - 1
  BY SpansPush
<1>2. \A k \in DOMAIN gantt : k # last => Span(k)' = Span(k)
  BY <1>1 DEF Span
<1>3. ASSUME NEW i, i # tid PROVE Units(i)' = Units(i) /\ Ends(i)' = Ends(i)
  <2>1. Slots(i)' = Slots(i) /\ Slots(i) \subseteq DOMAIN gantt /\ last \notin Slots(i)
    BY <1>1, <1>3 DEF Slots
  <2>2. \A k \in Slots(i) : Span(k)' = Span(k) /\ gantt'[k] = gantt[k]
    BY <1>1, <1>2, <2>1
  <2> QED
    BY <2>1, <2>2 DEF Units, Ends
<1>4. Units(tid)' = Units(tid) \cup (time .. to - 1)
  <2>1. /\ Slots(tid)' = Slots(tid) \cup {last} /\ Slots(tid) \subseteq DOMAIN gantt
        /\ last \in DOMAIN gantt <=> last \in Slots(tid)
    BY <1>1 DEF Slots
  <2>2. Units(tid)' = UNION {Span(k)' : k \in Slots(tid) \cup {last}}
    BY <2>1 DEF Units
  <2>3. \A k \in Slots(tid) : k # last => Span(k)' = Span(k)
    BY <1>2, <2>1
  <2>4. CASE last \in Slots(tid)
    <3>1. Span(last)' = Span(last) \cup (time .. to - 1)
      BY <1>1, <2>1, <2>4
    <3> QED
      BY <2>2, <2>3, <2>4, <3>1 DEF Units
  <2>5. CASE last \notin Slots(tid)
    <3>1. Span(last)' = time .. to - 1
      BY <1>1, <2>1, <2>5
    <3> QED
      BY <2>2, <2>3, <2>5, <3>1 DEF Units
  <2> QED
    BY <2>4, <2>5
<1>5. to \in Ends(tid)'
  BY <1>1 DEF Ends, Slots
<1>6. \A k \in DOMAIN gantt : k \in DOMAIN gantt' /\ Span(k) \subseteq Span(k)'
  BY <1>1, <1>2
<1> QED
  BY <1>1, <1>3, <1>4, <1>5, <1>6

-----------------------------------------------------------------------------
(* Waiting under RR.                                                         *)

\* When i arrived and the ends of the slots in which it ran.
Seen(i) == {arrival[i]} \cup Ends(i)

\* Since i was seen last it waited no longer than this.
Patient(i, t, bound) == \E e \in Seen(i) : t - e <= bound

Bound == Quantum * (Cardinality(Ids) - 1)

\* Whoever is in the queue has waited for so many quanta at the most that with one
\* for each that is still before it they are one for each other thread.
WaitInv == algo = "rr" =>
  \A k \in head + 1 .. Len(q) : Patient(q[k], time, Bound - Quantum * (k - head - 1))

RrSel == RrEnqueue[head + 1]

RrCame == RrArrived(RunTime(RrSel), Ready)

RrBoth == RrEnqueue \o ByArrival(RrCame)

\* The queue while the thread selected runs: the others, and then those that
\* arrive meanwhile.
LEMMA RrBehind ==
  ASSUME ShareInv, RrRun
  PROVE  /\ RrEnqueue \in Seq(Ids) /\ head \in Nat /\ head + 1 \in 0 .. Len(RrEnqueue)
         /\ RrSel \in Ready /\ Lists(RrEnqueue, head + 1, Ready \ {RrSel})
         /\ RrCame \in SUBSET Ids /\ RrCame \cap Ready = {}
         /\ ByArrival(RrCame) \in Seq(Ids)
         /\ RrBoth \in Seq(Ids) /\ Len(RrBoth) = Len(RrEnqueue) + Len(ByArrival(RrCame))
         /\ Lists(RrBoth, head + 1, (Ready \ {RrSel}) \cup RrCame)
         /\ q' = IF remaining[RrSel] - RunTime(RrSel) > 0 THEN Append(RrBoth, RrSel) ELSE RrBoth
         /\ head' = head + 1
<1>1. /\ RrEnqueue \in Seq(Ids) /\ head \in 0 .. Len(RrEnqueue) /\ head < Len(RrEnqueue)
      /\ Ready = in_q \cup RrNew
  BY Enqueued DEF ShareInv, RrRun, Scheduling
<1>2. RrSel \in Ready /\ Lists(RrEnqueue, head + 1, Ready \ {RrSel})
  BY RrSelected DEF RrRun, Scheduling, RrSel
<1>3. head \in Nat /\ head + 1 \in 0 .. Len(RrEnqueue)
  BY <1>1
<1>4. RrCame \in SUBSET Ids /\ IsFiniteSet(RrCame) /\ RrCame \cap Ready = {}
  BY FS_Subset DEF RrCame, RrArrived, ShareInv, Drawn
<1>5. ByArrival(RrCame) \in Seq(RrCame) /\ Lists(ByArrival(RrCame), 0, RrCame)
  <2>1. Keyed(RrCame, arrival)
    BY <1>4 DEF Keyed, ShareInv, Drawn
  <2> QED
    BY <1>4, <2>1, InOrderLists DEF ByArrival
<1>6. ByArrival(RrCame) \in Seq(Ids)
  BY <1>4, <1>5
<1>7. /\ RrBoth \in Seq(Ids) /\ Len(RrBoth) = Len(RrEnqueue) + Len(ByArrival(RrCame))
      /\ Lists(RrBoth, head + 1, (Ready \ {RrSel}) \cup RrCame)
  BY <1>1, <1>2, <1>3, <1>4, <1>5, <1>6, ListsConcat DEF RrBoth
<1>8. /\ q' = IF remaining[RrSel] - RunTime(RrSel) > 0 THEN Append(RrBoth, RrSel) ELSE RrBoth
      /\ head' = head + 1
  <2>1. (Ready \ {RrSel}) \cup {RrSel} = Ready
    BY <1>2
  <2>2. q' = RrRequeue(RrEnqueue, RrArrived(RunTime(RrSel), ((in_q \cup RrNew) \ {RrSel}) \cup {RrSel}),
                       RrSel, remaining[RrSel] - RunTime(RrSel))
    BY DEF RrRun, RrSel
  <2> QED
    BY <1>1, <2>1, <2>2 DEF RrRun, RrRequeue, RrBoth, RrCame
<1> QED
  BY <1>1, <1>2, <1>3, <1>4, <1>6, <1>7, <1>8

\* How many wait in a queue.
LEMMA ListsCount ==
  ASSUME Drawn, NEW s \in Seq(Ids), NEW h \in 0 .. Len(s), NEW S, Lists(s, h, S), S \subseteq Ids
  PROVE  /\ Cardinality(S) = Len(s) - h /\ Cardinality(S) \in Nat
         /\ Cardinality(Ids) \in Nat /\ Cardinality(S) <= Cardinality(Ids)
         /\ \A i \in Ids : i \notin S => Cardinality(S) <= Cardinality(Ids) - 1
<1>1. Cardinality(S) = Len(s) - h
  BY ListsAll DEF Drawn
<1>2. IsFiniteSet(Ids) /\ IsFiniteSet(S) /\ Cardinality(S) <= Cardinality(Ids)
  BY FS_Subset DEF Drawn
<1>3. Cardinality(Ids) \in Nat /\ Cardinality(S) \in Nat
  BY <1>2, FS_CardinalityType
<1>4. ASSUME NEW i \in Ids, i \notin S PROVE Cardinality(S) <= Cardinality(Ids) - 1
  <2>1. S \in SUBSET (Ids \ {i}) /\ IsFiniteSet(Ids \ {i}) /\ Cardinality(Ids \ {i}) = Cardinality(Ids) - 1
    BY <1>2, <1>4, FS_RemoveElement
  <2> QED
    BY <2>1, FS_Subset
<1> QED
  BY <1>1, <1>2, <1>3, <1>4

\* Places that are no farther back than there are threads.
LEMMA PlaceBound ==
  ASSUME NEW n \in Nat, NEW p \in Nat, p <= n - 1
  PROVE  Quantum * p <= Quantum * (n - 1) /\ Quantum * p \in Nat /\ Quantum * (n - 1) \in Int
<1>1. PICK d \in Nat : n - 1 = p + d
  <2>1. n - 1 - p \in Nat /\ n - 1 = p + (n - 1 - p)
    OBVIOUS
  <2> QED
    BY <2>1
<1>2. Quantum * (n - 1) = Quantum * p + Quantum * d
  BY <1>1
<1>3. Quantum * p \in Nat /\ Quantum * d \in Nat
  BY <1>1
<1> QED
  BY <1>2, <1>3

LEMMA NextPlace ==
  ASSUME NEW p \in Int
  PROVE  Quantum * (p - 1) = Quantum * p - Quantum /\ Quantum * p \in Int
OBVIOUS

\* Those that are put in before a thread is taken have just arrived.
LEMMA WaitEnqueued ==
  ASSUME ShareInv, Waiters, WaitInv, algo = "rr"
  PROVE  \A k \in head + 1 .. Len(RrEnqueue) :
           Patient(RrEnqueue[k], time, Bound - Quantum * (k - head - 1))
<1>1. /\ RrEnqueue \in Seq(Ids) /\ head \in 0 .. Len(RrEnqueue)
      /\ Lists(RrEnqueue, head, Ready) /\ Drawn /\ Progress
  BY Enqueued DEF ShareInv
<1>2. q \in Seq(Ids) /\ head \in 0 .. Len(q) /\ Len(q) \in Nat
  BY DEF ShareInv, Queueing
<1>3. Ready \subseteq Ids
  BY DEF Ready
<1>4. /\ Cardinality(Ready) = Len(RrEnqueue) - head /\ Cardinality(Ids) \in Nat
      /\ Cardinality(Ready) <= Cardinality(Ids) /\ Len(RrEnqueue) \in Nat /\ head \in Nat
  BY <1>1, <1>3, ListsCount
<1>5. RrNew \subseteq Ids /\ ByNumber(RrNew) \in Seq(RrNew)
  <2>1. RrNew \in SUBSET Ids /\ IsFiniteSet(RrNew)
    BY <1>1, FS_Subset DEF Drawn, RrNew
  <2>2. Keyed(RrNew, [i \in RrNew |-> i])
    BY <1>1, <2>1 DEF Keyed, Drawn
  <2> QED
    BY <2>1, <2>2, InOrderLists DEF ByNumber
<1>6. \A i \in RrNew : arrival[i] = time
  <2> TAKE i \in RrNew
  <2>1. i \in Ids /\ arrival[i] <= time /\ remaining[i] > 0 /\ i \notin in_q
    BY DEF RrNew
  <2>2. i \in Ready
    BY <1>1, <2>1, ReadyLeft
  <2>3. ~(arrival[i] < time)
    BY <2>1, <2>2 DEF Waiters
  <2> QED
    BY <1>1, <2>1, <2>3 DEF Drawn, Progress
<1> SUFFICES ASSUME NEW k \in head + 1 .. Len(RrEnqueue)
             PROVE  Patient(RrEnqueue[k], time, Bound - Quantum * (k - head - 1))
  OBVIOUS
<1>7. CASE k <= Len(q)
  <2>1. k \in head + 1 .. Len(q) /\ k \in 1 .. Len(q)
    BY <1>2, <1>4, <1>7
  <2>2. RrEnqueue[k] = q[k]
    BY <1>2, <1>5, <2>1 DEF RrEnqueue
  <2> QED
    BY <2>1, <2>2 DEF WaitInv
<1>8. CASE k > Len(q)
  <2>1. RrEnqueue[k] \in RrNew
    <3> DEFINE new == ByNumber(RrNew)
    <3>1. new \in Seq(RrNew) /\ q \in Seq(Ids) /\ Len(new) \in Nat
      BY <1>2, <1>5
    <3> HIDE DEF new
    <3>2. Len(q \o new) = Len(q) + Len(new) /\ RrEnqueue = q \o new
      BY <3>1 DEF RrEnqueue, new
    <3>3. k - Len(q) \in 1 .. Len(new)
      BY <1>2, <1>4, <1>8, <3>1, <3>2
    <3>4. (q \o new)[k] = new[k - Len(q)]
      BY <1>2, <1>4, <1>8, <3>1, <3>2
    <3> QED
      BY <3>1, <3>2, <3>3, <3>4
  <2> DEFINE i == RrEnqueue[k]
  <2>2. i \in Ids /\ arrival[i] = time /\ time \in Nat
    BY <1>1, <1>5, <1>6, <2>1 DEF Progress
  <2>3. k - head - 1 \in Nat /\ k - head - 1 <= Cardinality(Ids) - 1
    BY <1>4
  <2>4. Quantum * (k - head - 1) <= Bound /\ Quantum * (k - head - 1) \in Nat /\ Bound \in Int
    BY <1>4, <2>3, PlaceBound DEF Bound
  <2>5. time - time <= Bound - Quantum * (k - head - 1)
    BY <2>2, <2>4
  <2> HIDE DEF i
  <2>6. Patient(i, time, Bound - Quantum * (k - head - 1))
    BY <2>2, <2>5 DEF Patient, Seen
  <2> QED
    BY <2>6 DEF i
<1> QED
  BY <1>2, <1>4, <1>7, <1>8

LEMMA WaitRun ==
  ASSUME ShareInv, Chart, Waiters, WaitInv, RrRun, Ids' = Ids
  PROVE  WaitInv'
<1>0. PICK sel : sel = RrSel
  OBVIOUS
<1> DEFINE run == RunTime(RrSel)
           n == Cardinality(Ids)
           place(k) == k - (head + 1) - 1
<1>1. /\ RrEnqueue \in Seq(Ids) /\ head \in Nat /\ head + 1 \in 0 .. Len(RrEnqueue)
      /\ sel \in Ready /\ Lists(RrEnqueue, head + 1, Ready \ {sel})
      /\ RrCame \in SUBSET Ids /\ RrCame \cap Ready = {}
      /\ ByArrival(RrCame) \in Seq(Ids)
      /\ RrBoth \in Seq(Ids) /\ Len(RrBoth) = Len(RrEnqueue) + Len(ByArrival(RrCame))
      /\ Lists(RrBoth, head + 1, (Ready \ {sel}) \cup RrCame)
      /\ q' = IF remaining[sel] - run > 0 THEN Append(RrBoth, sel) ELSE RrBoth
      /\ head' = head + 1
  BY <1>0, RrBehind
<1>2. /\ algo = "rr" /\ arrival' = arrival /\ Drawn /\ Progress
      /\ gantt' = GanttPush(sel, time, time + run) /\ time' = time + run
  BY <1>0 DEF RrRun, Scheduling, Elsewhere, ShareInv, RrSel
<1>3. /\ sel \in Ids /\ time \in Nat /\ run \in 1 .. Quantum
  <2>1. GetsCpu(sel, run)
    BY <1>0, RrRuns DEF RrSel
  <2>2. run \in 1 .. remaining[sel] /\ sel \in Ids /\ remaining[sel] \in Nat /\ time \in Nat
    BY <1>2, <2>1 DEF GetsCpu, Ready, Progress
  <2> QED
    BY <1>0, <2>2 DEF RunTime
<1> HIDE DEF run, n
<1>4. /\ \A i : i # sel => Ends(i)' = Ends(i)
      /\ time' \in Ends(sel)'
  <2>1. time + run \in Nat /\ time < time + run
    BY <1>3
  <2> QED
    BY <1>2, <1>3, <2>1, UnitsPush
<1>5. time' \in Seen(sel)'
  BY <1>4 DEF Seen
<1>6. \A i : i # sel => Seen(i)' = Seen(i)
  BY <1>2, <1>4 DEF Seen
<1>7. n \in Nat /\ Len(RrBoth) \in Nat /\ Len(RrBoth) - (head + 1) \in Nat
      /\ Len(RrBoth) - (head + 1) <= n - 1
  <2>1. Len(RrEnqueue) \in Nat /\ Len(ByArrival(RrCame)) \in Nat
    BY <1>1
  <2>2. head + 1 \in 0 .. Len(RrBoth)
    BY <1>1, <2>1
  <2>3. sel \notin (Ready \ {sel}) \cup RrCame /\ (Ready \ {sel}) \cup RrCame \subseteq Ids
    BY <1>1 DEF Ready
  <2>4. /\ Cardinality((Ready \ {sel}) \cup RrCame) = Len(RrBoth) - (head + 1)
        /\ Cardinality((Ready \ {sel}) \cup RrCame) \in Nat /\ n \in Nat
        /\ Cardinality((Ready \ {sel}) \cup RrCame) <= n - 1
    BY <1>1, <1>2, <1>3, <2>2, <2>3, ListsCount DEF n
  <2>5. Len(RrBoth) \in Nat
    BY <1>1
  <2> QED
    BY <2>4, <2>5
<1>8. Bound = Quantum * (n - 1) /\ Bound' = Bound /\ Bound \in Int
  <2>1. Quantum * (n - 1) \in Int
    BY <1>7
  <2> QED
    BY <2>1 DEF Bound, n
\* Those that waited already.
<1>9. ASSUME NEW k \in head + 2 .. Len(RrEnqueue), NEW i, i = RrEnqueue[k]
      PROVE  \E e \in Seen(i)' : time' - e <= Bound - Quantum * place(k)
  <2>1. k \in head + 1 .. Len(RrEnqueue) /\ k \in head + 1 + 1 .. Len(RrEnqueue)
        /\ i \in Ids
    BY <1>1, <1>9
  <2>2. i # sel
    BY <1>1, <1>9, <2>1 DEF Lists
  <2>3. PICK e \in Seen(i) : time - e <= Bound - Quantum * (k - head - 1)
    BY <1>2, <1>9, <2>1, WaitEnqueued DEF Patient
  <2>4. e \in Nat
    <3>1. arrival[i] \in Nat
      BY <1>2, <2>1 DEF Drawn
    <3>2. \A m \in Slots(i) : gantt[m].end \in Nat
      BY SlotTimes DEF Slots
    <3> QED
      BY <2>3, <3>1, <3>2 DEF Seen, Ends
  <2>5. k - head - 1 \in Int /\ place(k) = (k - head - 1) - 1
    BY <1>1
  <2>6. Quantum * place(k) = Quantum * (k - head - 1) - Quantum /\ Quantum * (k - head - 1) \in Int
    BY <2>5, NextPlace
  <2> HIDE DEF place
  <2>7. time' - e <= Bound - Quantum * place(k)
    BY <1>2, <1>3, <1>8, <2>3, <2>4, <2>6
  <2> QED
    BY <1>6, <2>1, <2>2, <2>3, <2>7
\* Those that arrived meanwhile.
<1>10. ASSUME NEW k \in Len(RrEnqueue) + 1 .. Len(RrBoth), NEW i, i = RrBoth[k]
       PROVE  \E e \in Seen(i)' : time' - e <= Bound - Quantum * place(k)
  <2>1. i \in RrCame
    <3>1. Len(RrEnqueue) \in Nat /\ Len(ByArrival(RrCame)) \in Nat
      BY <1>1
    <3>2. k - Len(RrEnqueue) \in 1 .. Len(ByArrival(RrCame))
      BY <1>1, <3>1
    <3>3. RrBoth[k] = ByArrival(RrCame)[k - Len(RrEnqueue)]
      BY <1>1, <3>1 DEF RrBoth
    <3>4. ByArrival(RrCame) \in Seq(RrCame)
      <4>1. IsFiniteSet(RrCame) /\ Keyed(RrCame, arrival)
        BY <1>1, <1>2, FS_Subset DEF Keyed, Drawn
      <4> QED
        BY <4>1, InOrderLists DEF ByArrival
    <3> QED
      BY <1>10, <3>2, <3>3, <3>4
  <2>2. arrival[i] \in time + 1 .. time + run
    BY <1>0, <2>1 DEF RrCame, RrArrived, run
  <2>3. place(k) \in Nat /\ place(k) + 1 \in Nat /\ place(k) + 1 <= n - 1
    <3>1. Len(RrEnqueue) \in Nat
      BY <1>1
    <3> QED
      BY <1>1, <1>7, <3>1
  <2>4. Quantum * (place(k) + 1) <= Bound /\ Quantum * (place(k) + 1) \in Nat
    BY <1>7, <1>8, <2>3, PlaceBound
  <2>5. Quantum * place(k) = Quantum * (place(k) + 1) - Quantum
    BY <2>3
  <2> HIDE DEF place
  <2>6. time' - arrival[i] <= Bound - Quantum * place(k)
    BY <1>2, <1>3, <1>8, <2>2, <2>4, <2>5
  <2>7. arrival[i] \in Seen(i)'
    BY <1>2 DEF Seen
  <2> QED
    BY <2>6, <2>7
<1>11. ASSUME NEW k \in head + 2 .. Len(RrBoth), NEW i, i = RrBoth[k]
       PROVE  \E e \in Seen(i)' : time' - e <= Bound - Quantum * place(k)
  <2>1. Len(RrEnqueue) \in Nat /\ Len(ByArrival(RrCame)) \in Nat
    BY <1>1
  <2>2. CASE k <= Len(RrEnqueue)
    <3>1. k \in head + 2 .. Len(RrEnqueue) /\ k \in 1 .. Len(RrEnqueue)
      BY <1>1, <2>1, <2>2
    <3>2. RrBoth[k] = RrEnqueue[k]
      BY <1>1, <3>1 DEF RrBoth
    <3> QED
      BY <1>9, <1>11, <3>1, <3>2
  <2>3. CASE k > Len(RrEnqueue)
    <3>1. k \in Len(RrEnqueue) + 1 .. Len(RrBoth)
      BY <1>1, <1>7, <2>1, <2>3
    <3> QED
      BY <1>10, <1>11, <3>1
  <2> QED
    BY <1>1, <2>1, <2>2, <2>3
\* The thread that ran.
<1>12. \E e \in Seen(sel)' : time' - e <= Bound - Quantum * place(Len(RrBoth) + 1)
  <2>1. place(Len(RrBoth) + 1) \in Nat /\ place(Len(RrBoth) + 1) <= n - 1
    BY <1>1, <1>7
  <2>2. Quantum * place(Len(RrBoth) + 1) <= Bound /\ Quantum * place(Len(RrBoth) + 1) \in Nat
    BY <1>7, <1>8, <2>1, PlaceBound
  <2> HIDE DEF place
  <2>3. time' \in Nat /\ time' - time' <= Bound - Quantum * place(Len(RrBoth) + 1)
    BY <1>2, <1>3, <1>8, <2>2
  <2> QED
    BY <1>5, <2>3
<1>13. ASSUME NEW k \in head' + 1 .. Len(q'), NEW i, i = q'[k]
       PROVE  \E e \in Seen(i)' : time' - e <= Bound - Quantum * place(k)
  <2>1. CASE remaining[sel] - run > 0
    <3>1. q' = Append(RrBoth, sel)
      BY <1>1, <2>1
    <3>2. Len(q') = Len(RrBoth) + 1 /\ q'[Len(RrBoth) + 1] = sel
          /\ \A j \in 1 .. Len(RrBoth) : q'[j] = RrBoth[j]
      <4>1. RrBoth \in Seq(Ids) /\ sel \in Ids
        BY <1>1, <1>3
      <4>2. /\ Len(Append(RrBoth, sel)) = Len(RrBoth) + 1
            /\ Append(RrBoth, sel)[Len(RrBoth) + 1] = sel
            /\ \A j \in 1 .. Len(RrBoth) : Append(RrBoth, sel)[j] = RrBoth[j]
        BY <4>1, AppendProperties
      <4> QED
        BY <3>1, <4>2
    <3>3. CASE k = Len(RrBoth) + 1
      BY <1>12, <1>13, <3>2, <3>3
    <3>4. CASE k # Len(RrBoth) + 1
      <4>1. k \in head + 2 .. Len(RrBoth) /\ k \in 1 .. Len(RrBoth)
        BY <1>1, <1>7, <3>2, <3>4
      <4> QED
        BY <1>11, <1>13, <3>2, <4>1
    <3> QED
      BY <3>3, <3>4
  <2>2. CASE ~(remaining[sel] - run > 0)
    <3>1. q' = RrBoth /\ k \in head + 2 .. Len(RrBoth)
      BY <1>1, <1>7, <2>2
    <3> QED
      BY <1>11, <1>13, <3>1
  <2> QED
    BY <2>1, <2>2
<1>14. \A k \in head' + 1 .. Len(q') : place(k) = k - head' - 1
  <2>1. Len(q') \in Nat
    <3>1. q' \in Seq(Ids)
      BY <1>1, <1>3
    <3> QED
      BY <3>1
  <2> QED
    BY <1>1, <2>1
<1> HIDE DEF place
<1> QED
  BY <1>8, <1>13, <1>14 DEF WaitInv, Patient

LEMMA WaitStep ==
  ShownInv /\ Chart /\ Waiters /\ WaitInv /\ [Next]_vars => WaitInv'
<1> SUFFICES ASSUME ShownInv, Chart, Waiters, WaitInv, [Next]_vars PROVE WaitInv'
  OBVIOUS
<1>1. ShareInv /\ Ids' = Ids
  BY DrawnStep DEF ShownInv, ShareInv
<1>2. CASE RunAlgo
  <2>1. q' = <<>> /\ head' = 0
    BY <1>2 DEF RunAlgo
  <2> QED
    BY <2>1 DEF WaitInv
<1>3. CASE RrIdle
  <2>1. q' = q /\ head' = head /\ algo = "rr"
    BY <1>3 DEF RrIdle, Scheduling, queueVars
  <2>2. head + 1 .. Len(q) = {}
    <3>1. Ready = {} /\ Lists(q, head, in_q) /\ in_q \subseteq Ready
      BY <1>1, <1>3, <2>1, RrIdleReady, ReadyLeft DEF ShareInv, Queueing
    <3> QED
      BY <3>1 DEF Lists
  <2> QED
    BY <2>1, <2>2 DEF WaitInv
<1>4. CASE RrRun
  BY <1>1, <1>4, WaitRun
<1>5. CASE Return \/ UNCHANGED vars
  BY <1>1, <1>5 DEF Return, vars, logVars, queueVars, WaitInv, Patient, Seen, Ends, Slots, Bound
<1>6. CASE FifoIdle \/ FifoRun \/ SjfIdle \/ SjfRun \/ SrtfIdle \/ SrtfRun
  BY <1>6 DEF FifoIdle, FifoRun, SjfIdle, SjfRun, SrtfIdle, SrtfRun, Scheduling, Elsewhere, WaitInv
<1> QED
  BY <1>2, <1>3, <1>4, <1>5, <1>6 DEF Next, Stopped

\* The latest of some times.
LEMMA MaxOfTimes ==
  ASSUME NEW S \in SUBSET Nat, S # {}, NEW t \in Nat, \A e \in S : e <= t
  PROVE  Max(S) \in S /\ \A e \in S : e <= Max(S)
<1>1. PICK d \in {t - e : e \in S} : \A c \in {t - e : e \in S} : d <= c
  <2>1. \A e \in S : t - e \in Nat
    <3> TAKE e \in S
    <3>1. e \in Nat /\ e <= t
      OBVIOUS
    <3> QED
      BY <3>1
  <2>2. PICK e \in S : TRUE
    OBVIOUS
  <2>3. {t - c : c \in S} \in SUBSET Nat
    BY <2>1
  <2>4. {t - c : c \in S} # {}
    BY <2>2
  <2> QED
    BY <2>3, <2>4, SmallestNumber
<1>2. PICK m \in S : d = t - m
  BY <1>1
<1>3. \A e \in S : m >= e
  <2> TAKE e \in S
  <2>1. t - m <= t - e /\ m \in Nat /\ e \in Nat
    BY <1>1, <1>2
  <2> QED
    BY <2>1
<1>4. Max(S) \in S /\ \A e \in S : Max(S) >= e
  BY <1>2, <1>3 DEF Max
<1> QED
  BY <1>4

LEMMA SeenTimes ==
  ASSUME Chart, Drawn, Progress, NEW i \in Ready
  PROVE  Seen(i) \in SUBSET Nat /\ \A e \in Seen(i) : e <= time
<1>1. arrival[i] \in Nat /\ arrival[i] <= time /\ time \in Nat
  BY DEF Ready, Drawn, Progress
<1>2. \A k \in Slots(i) : gantt[k].end \in Nat /\ gantt[k].end <= time
  BY SlotTimes DEF Slots
<1> QED
  BY <1>1, <1>2 DEF Seen, Ends

LEMMA WaitBounded ==
  ASSUME ShownInv, Chart, Waiters, WaitInv
  PROVE  RrBoundedWait
<1> SUFFICES ASSUME algo = "rr", NEW i \in Ready
             PROVE  time - LastRan(i) <= Quantum * (Cardinality(Ids) - 1)
  BY DEF RrBoundedWait
<1>1. ShareInv /\ Drawn /\ Progress
  BY DEF ShownInv, ShareInv
<1>2. i \in Ids /\ arrival[i] <= time /\ time \in Nat /\ arrival[i] \in Nat
  BY <1>1 DEF Ready, Progress, Drawn
<1>3. /\ Seen(i) \in SUBSET Nat /\ LastRan(i) = Max(Seen(i))
      /\ LastRan(i) \in Nat /\ \A e \in Seen(i) : e <= LastRan(i)
  <2>1. Seen(i) \in SUBSET Nat /\ \A e \in Seen(i) : e <= time
    BY <1>1, SeenTimes
  <2>2. Seen(i) # {} /\ LastRan(i) = Max(Seen(i))
    BY DEF Seen, Ends, LastRan
  <2> QED
    BY <1>2, <2>1, <2>2, MaxOfTimes
<1>4. Cardinality(Ids) \in Nat /\ 0 <= Cardinality(Ids) - 1
  <2>1. IsFiniteSet(Ids) /\ Ids # {}
    BY <1>1, <1>2 DEF Drawn
  <2> QED
    BY <2>1, FS_CardinalityType, FS_EmptySet
<1>5. Bound \in Nat /\ Bound = Quantum * (Cardinality(Ids) - 1)
  <2>1. Cardinality(Ids) - 1 \in Nat
    BY <1>4
  <2> QED
    BY <2>1 DEF Bound
<1>6. \E e \in Seen(i) : time - e <= Bound
  <2>1. CASE arrival[i] < time
    <3>1. i \in in_q
      BY <2>1 DEF Waiters
    <3>2. q \in Seq(Ids) /\ head \in Nat /\ Lists(q, head, in_q) /\ Len(q) \in Nat
      BY <1>1 DEF ShareInv, Queueing
    <3>3. PICK k \in head + 1 .. Len(q) : q[k] = i
      BY <3>1, <3>2 DEF Lists
    <3>4. PICK e \in Seen(i) : time - e <= Bound - Quantum * (k - head - 1)
      BY <3>3 DEF WaitInv, Patient
    <3>5. k - head - 1 \in Nat
      BY <3>2
    <3>6. Quantum * (k - head - 1) \in Nat
      BY <3>5
    <3>7. e \in Nat
      BY <1>3
    <3> QED
      BY <1>2, <1>5, <3>4, <3>6, <3>7
  <2>2. CASE arrival[i] = time
    <3>1. arrival[i] \in Seen(i) /\ time - arrival[i] <= Bound
      BY <1>2, <1>5, <2>2 DEF Seen
    <3> QED
      BY <3>1
  <2> QED
    BY <1>2, <2>1, <2>2
<1> QED
  BY <1>2, <1>3, <1>5, <1>6

\* Under RR no thread that can run waits longer than a quantum of each other
\* thread, whoever arrives, is preempted or ends in between: newcomers are put
\* behind those that wait, and the thread preempted behind them
\* (scheduler.c:125-166).
THEOREM BoundedWait == Spec => []RrBoundedWait
<1>1. Init => Chart /\ Waiters /\ WaitInv
  BY DEF Init, Chart, Waiters, WaitInv
<1>2. ShownInv /\ Waiters /\ [Next]_vars => Waiters'
  BY WaitersStep DEF ShownInv
<1> QED
  BY <1>1, <1>2, WaitBounded, ShownInit, ShownStep, ChartStep, WaitStep, PTL DEF Spec

-----------------------------------------------------------------------------
(* Sums.                                                                     *)

\* A sum is the size of a union of disjoint sets whose sizes are its terms.
LEMMA SumCounts ==
  ASSUME NEW S, IsFiniteSet(S), NEW f, NEW T,
         \A k \in S : IsFiniteSet(T[k]) /\ f[k] = Cardinality(T[k]),
         \A j, k \in S : j # k => T[j] \cap T[k] = {}
  PROVE  SumFunctionOnSet(f, S) = Cardinality(UNION {T[k] : k \in S})
<1> DEFINE g == [s \in SUBSET S |-> Cardinality(UNION {T[k] : k \in s})]
           Step(h) == [s \in SUBSET S |->
                         IF s = {} THEN 0
                         ELSE f[CHOOSE x \in s : TRUE] + h[s \ {CHOOSE x \in s : TRUE}]]
<1>1. ASSUME NEW s \in SUBSET S
      PROVE  /\ IsFiniteSet(s) /\ Cardinality(s) \in Nat
             /\ IsFiniteSet(UNION {T[k] : k \in s}) /\ g[s] \in Nat
             /\ g[s] = Cardinality(UNION {T[k] : k \in s})
  <2>1. IsFiniteSet(s) /\ Cardinality(s) \in Nat
    BY FS_Subset, FS_CardinalityType
  <2>2. IsFiniteSet({T[k] : k \in s})
    <3> DEFINE t == [k \in s |-> T[k]]
    <3>1. t \in Surjection(s, {T[k] : k \in s})
      BY DEF Surjection
    <3> HIDE DEF t
    <3> QED
      BY <2>1, <3>1, FS_Surjection
  <2>3. IsFiniteSet(UNION {T[k] : k \in s})
    <3>1. \A U \in {T[k] : k \in s} : IsFiniteSet(U)
      OBVIOUS
    <3> QED
      BY <2>2, <3>1, FS_UNION
  <2> QED
    BY <2>1, <2>3, FS_CardinalityType
<1> HIDE DEF g
<1>2. ASSUME NEW s \in SUBSET S, NEW x \in s
      PROVE  g[s] = f[x] + g[s \ {x}]
  <2> DEFINE U == UNION {T[k] : k \in s \ {x}}
  <2>1. UNION {T[k] : k \in s} = T[x] \cup U /\ T[x] \cap U = {}
    OBVIOUS
  <2>2. IsFiniteSet(T[x]) /\ Cardinality(T[x]) \in Nat /\ f[x] = Cardinality(T[x])
    BY FS_CardinalityType
  <2>3. IsFiniteSet(U) /\ Cardinality(U) = g[s \ {x}] /\ g[s \ {x}] \in Nat
    BY <1>1
  <2>4. g[s] = Cardinality(T[x] \cup U)
    BY <1>1, <2>1
  <2> HIDE DEF U
  <2>5. /\ Cardinality(T[x] \cup U) = Cardinality(T[x]) + Cardinality(U) - Cardinality(T[x] \cap U)
        /\ Cardinality(T[x] \cap U) = 0
    BY <2>1, <2>2, <2>3, FS_Union, FS_EmptySet
  <2> QED
    BY <2>2, <2>3, <2>4, <2>5
<1>3. g[{}] = 0
  <2>1. UNION {T[k] : k \in {}} = {}
    OBVIOUS
  <2> QED
    BY <1>1, <2>1, FS_EmptySet
<1>4. g = Step(g)
  <2>1. ASSUME NEW s \in SUBSET S PROVE g[s] = Step(g)[s]
    <3>1. CASE s = {}
      BY <1>3, <3>1
    <3>2. CASE s # {}
      <4>1. (CHOOSE x \in s : TRUE) \in s
        BY <3>2
      <4> QED
        BY <1>2, <3>2, <4>1
    <3> QED
      BY <3>1, <3>2
  <2>2. g = [s \in SUBSET S |-> g[s]]
    BY DEF g
  <2> QED
    BY <2>1, <2>2
<1>5. ASSUME NEW h, h = Step(h) PROVE h = g
  <2>1. ASSUME NEW s \in SUBSET S
        PROVE  h[s] = IF s = {} THEN 0
                      ELSE f[CHOOSE x \in s : TRUE] + h[s \ {CHOOSE x \in s : TRUE}]
    BY <1>5
  <2>2. h = [s \in SUBSET S |-> h[s]]
    BY <1>5
  <2> HIDE DEF Step
  <2> DEFINE N == {Cardinality(s) : s \in {t \in SUBSET S : h[t] # g[t]}}
  <2>3. N = {}
    <3> SUFFICES ASSUME N # {} PROVE FALSE
      OBVIOUS
    <3>1. N \in SUBSET Nat
      BY <1>1
    <3>2. PICK m \in N : \A n \in N : m <= n
      <4> HIDE DEF N
      <4> QED
        BY <3>1, SmallestNumber
    <3>3. PICK s \in SUBSET S : h[s] # g[s] /\ m = Cardinality(s)
      BY <3>2
    <3>4. s # {}
      BY <1>3, <2>1, <3>3
    <3> DEFINE x == CHOOSE y \in s : TRUE
    <3>5. x \in s
      BY <3>4
    <3>6. h[s] = f[x] + h[s \ {x}]
      BY <2>1, <3>4
    <3> HIDE DEF x
    <3>7. h[s \ {x}] = g[s \ {x}]
      <4>1. SUFFICES ASSUME h[s \ {x}] # g[s \ {x}] PROVE FALSE
        OBVIOUS
      <4>2. Cardinality(s \ {x}) \in N
        BY <4>1
      <4>3. IsFiniteSet(s) /\ Cardinality(s) \in Nat
        BY <1>1
      <4>4. Cardinality(s \ {x}) = Cardinality(s) - 1
        BY <3>5, <4>3, FS_RemoveElement
      <4>5. Cardinality(s) <= Cardinality(s) - 1
        BY <3>2, <3>3, <4>2, <4>4
      <4> QED
        BY <4>3, <4>5
    <3> QED
      BY <1>2, <3>3, <3>5, <3>6, <3>7
  <2>4. \A s \in SUBSET S : h[s] = g[s]
    BY <2>3
  <2>5. g = [s \in SUBSET S |-> g[s]]
    BY DEF g
  <2> QED
    BY <2>2, <2>4, <2>5
<1>6. SumFunctionOnSet(f, S) = (CHOOSE h : h = Step(h))[S]
  BY DEF SumFunctionOnSet, FoldFunctionOnSet, MapThenFoldSet
<1>7. (CHOOSE h : h = Step(h)) = g
  <2> HIDE DEF Step
  <2>1. \E h : h = Step(h)
    BY <1>4
  <2> QED
    BY <1>5, <2>1
<1> QED
  BY <1>1, <1>6, <1>7

-----------------------------------------------------------------------------
(* What the instants of the chart say of the figures.                        *)

\* The slots cover the time up to the present; a thread had the CPU as often as
\* it has done units of work, never before it arrived; and one that is done had
\* it last when it finished.
Covered == \A u \in 0 .. time - 1 : \E k \in DOMAIN gantt : u \in Span(k)

Used(i) ==
  /\ IsFiniteSet(Units(i)) /\ Cardinality(Units(i)) = Work(i)
  /\ \A u \in Units(i) : arrival[i] <= u
  /\ i \in done => finish[i] \in Ends(i) /\ \A u \in Units(i) : u < finish[i]

UsedInv == Covered /\ \A i \in Ids : Used(i)

LEMMA UnitTimes ==
  ASSUME Chart, time \in Nat, NEW i, NEW u \in Units(i)
  PROVE  u \in Nat /\ u < time
<1>1. PICK k \in DOMAIN gantt : u \in Span(k)
  BY DEF Units, Slots
<1>2. gantt[k].start \in Nat /\ gantt[k].end \in Nat /\ gantt[k].end <= time
  BY SlotTimes
<1> QED
  BY <1>1, <1>2 DEF Span

LEMMA CoveredPush ==
  ASSUME Chart, Covered, time \in Nat, NEW tid \in Ids \cup {Idling}, NEW to \in Nat, time < to,
         gantt' = GanttPush(tid, time, to), time' = to
  PROVE  Covered'
<1>1. ASSUME NEW u \in 0 .. to - 1 PROVE \E k \in DOMAIN gantt' : u \in Span(k)'
  <2>1. CASE u < time
    <3>1. u \in 0 .. time - 1
      BY <2>1
    <3>2. PICK k \in DOMAIN gantt : u \in Span(k)
      BY <3>1 DEF Covered
    <3> QED
      BY <3>2, UnitsPush
  <2>2. CASE u >= time
    <3>1. u \in time .. to - 1
      BY <2>2
    <3> QED
      BY <3>1, UnitsPush
  <2> QED
    BY <2>1, <2>2
<1> QED
  BY <1>1 DEF Covered

LEMMA UsedIdle ==
  ASSUME Chart, Drawn, Progress, UsedInv, IdleUnit, UNCHANGED threadVars,
         UNCHANGED <<burst, arrival>>
  PROVE  UsedInv'
<1>1. /\ time \in Nat /\ time + 1 \in Nat /\ time < time + 1 /\ time' = time + 1
      /\ gantt' = GanttPush(Idling, time, time + 1)
      /\ Ids' = Ids /\ Idling \notin Ids
  BY DEF Progress, IdleUnit, Ids, Idling, Drawn
<1>2. Covered'
  BY <1>1, CoveredPush DEF UsedInv
<1>3. ASSUME NEW i \in Ids PROVE Used(i)'
  <2>1. Units(i)' = Units(i) /\ Ends(i)' = Ends(i)
    BY <1>1, UnitsPush
  <2>2. Used(i)
    BY DEF UsedInv
  <2> QED
    BY <2>1, <2>2 DEF Used, Work, threadVars
<1> QED
  BY <1>1, <1>2, <1>3 DEF UsedInv

LEMMA UsedRun ==
  ASSUME Chart, Drawn, Progress, FigInv, UsedInv, NEW i \in Ready, NEW units \in 1 .. remaining[i],
         Executes(i, units), UNCHANGED <<burst, arrival>>
  PROVE  UsedInv'
<1>1. /\ i \in Ids /\ i \notin done /\ remaining[i] \in Nat /\ burst[i] \in Nat
      /\ arrival[i] \in Nat /\ arrival[i] <= time
      /\ time \in Nat /\ units \in Nat /\ units > 0 /\ units <= remaining[i]
  BY DEF Ready, Drawn, Progress
<1> DEFINE to == time + units
<1>2. time' = to /\ gantt' = GanttPush(i, time, to) /\ to \in Nat /\ time < to /\ Ids' = Ids
  BY <1>1 DEF Executes, GetsCpu, Ids
<1>3. /\ \A j \in Ids : remaining'[j] = IF j = i THEN remaining[i] - units ELSE remaining[j]
      /\ \A j \in Ids : j # i => finish'[j] = finish[j] /\ (j \in done' <=> j \in done)
      /\ i \in done' => finish'[i] = to
  BY <1>1 DEF Executes, GetsCpu, Progress, Complete, FigInv
<1> HIDE DEF to
<1>4. Covered'
  BY <1>1, <1>2, CoveredPush DEF UsedInv
<1>5. ASSUME NEW j \in Ids, j # i PROVE Used(j)'
  <2>1. Units(j)' = Units(j) /\ Ends(j)' = Ends(j)
    BY <1>1, <1>2, <1>5, UnitsPush
  <2>2. Used(j) /\ remaining'[j] = remaining[j] /\ finish'[j] = finish[j] /\ (j \in done' <=> j \in done)
    BY <1>3, <1>5 DEF UsedInv
  <2> QED
    BY <2>1, <2>2 DEF Used, Work
<1>6. Used(i)'
  <2>1. Units(i)' = Units(i) \cup (time .. to - 1) /\ to \in Ends(i)'
    BY <1>1, <1>2, UnitsPush
  <2>2. /\ IsFiniteSet(Units(i)) /\ Cardinality(Units(i)) = Work(i)
        /\ \A u \in Units(i) : arrival[i] <= u /\ u \in Nat /\ u < time
    BY <1>1, UnitTimes DEF UsedInv, Used
  <2>3. IsFiniteSet(time .. to - 1) /\ Cardinality(time .. to - 1) = units
    <3>1. to - 1 \in Int /\ (IF time > to - 1 THEN 0 ELSE to - 1 - time + 1) = units
      BY <1>1, <1>2 DEF to
    <3> QED
      BY <1>1, <3>1, FS_Interval
  <2>4. Units(i) \cap (time .. to - 1) = {}
    BY <1>1, <2>2
  <2>5. /\ IsFiniteSet(Units(i) \cup (time .. to - 1))
        /\ Cardinality(Units(i) \cup (time .. to - 1))
             = Cardinality(Units(i)) + Cardinality(time .. to - 1)
                 - Cardinality(Units(i) \cap (time .. to - 1))
        /\ Cardinality(Units(i) \cap (time .. to - 1)) = 0
    BY <2>2, <2>3, <2>4, FS_Union, FS_EmptySet
  <2>6. Work(i)' = Work(i) + units /\ Work(i) \in Int
    BY <1>1, <1>3 DEF Work
  <2>7. Cardinality(Units(i)') = Work(i)'
    BY <1>1, <2>1, <2>2, <2>3, <2>5, <2>6
  <2>8. \A u \in Units(i)' : arrival[i] <= u /\ u < to
    BY <1>1, <1>2, <2>1, <2>2
  <2> QED
    BY <1>3, <2>1, <2>5, <2>7, <2>8 DEF Used
<1> QED
  BY <1>2, <1>4, <1>5, <1>6 DEF UsedInv

LEMMA UsedNone ==
  ASSUME Drawn, remaining = burst, gantt = <<>>, done = {}, time = 0
  PROVE  UsedInv
<1>1. \A i \in Ids : Units(i) = {} /\ Work(i) = 0
  BY DEF Units, Slots, Work, Drawn
<1> QED
  BY <1>1, FS_EmptySet DEF UsedInv, Used, Covered

UsedFresh == Drawn /\ remaining = burst /\ gantt = <<>> /\ done = {} /\ time = 0

LEMMA UsedStart == UsedFresh' => UsedInv'
<1>1. UsedFresh => UsedInv
  BY UsedNone DEF UsedFresh
<1> QED
  BY <1>1, PTL

LEMMA UsedStep == ShownInv /\ Chart /\ UsedInv /\ [Next]_vars => UsedInv'
<1> SUFFICES ASSUME ShownInv, Chart, UsedInv, [Next]_vars PROVE UsedInv'
  OBVIOUS
<1>1. ShareInv /\ FigInv /\ Drawn /\ Progress /\ Ids' = Ids /\ Drawn'
  BY DrawnStep DEF ShownInv, ShareInv
<1>2. CASE RunAlgo
  <2>1. UsedFresh'
    BY <1>1, <1>2 DEF RunAlgo, UsedFresh
  <2> QED
    BY <2>1, UsedStart
<1>3. CASE Return \/ UNCHANGED vars
  <2>1. UNCHANGED <<burst, arrival, time, gantt, remaining, done, finish>>
    BY <1>3 DEF Return, vars, logVars, threadVars
  <2>2. /\ \A k : Span(k)' = Span(k)
        /\ \A i : Units(i)' = Units(i) /\ Ends(i)' = Ends(i) /\ Work(i)' = Work(i)
    BY <2>1 DEF Span, Units, Ends, Slots, Work
  <2>3. \A i \in Ids : Used(i)'
    BY <2>1, <2>2 DEF UsedInv, Used
  <2>4. Covered'
    BY <2>1, <2>2 DEF UsedInv, Covered
  <2> QED
    BY <1>1, <2>3, <2>4 DEF UsedInv
<1>4. CASE Next /\ ~RunAlgo /\ ~Return /\ ~UNCHANGED vars
  <2>1. /\ UNCHANGED <<burst, arrival>>
        /\ \/ IdleUnit /\ UNCHANGED threadVars
           \/ \E i \in Ready : \E units \in 1 .. remaining[i] : Executes(i, units)
    BY <1>1, <1>4, Steps
  <2> QED
    BY <1>1, <2>1, UsedIdle, UsedRun
<1> QED
  BY <1>2, <1>3, <1>4

LEMMA GanttIndices == ASSUME Chart PROVE IsFiniteSet(DOMAIN gantt) /\ DOMAIN gantt = 1 .. Len(gantt)
<1>1. Len(gantt) \in Nat /\ DOMAIN gantt = 1 .. Len(gantt)
  BY DEF Chart
<1> QED
  BY <1>1, FS_Interval

LEMMA Interval ==
  \A a, b \in Nat : IsFiniteSet(a .. b - 1) /\ Cardinality(a .. b - 1) = IF a < b THEN b - a ELSE 0
<1> TAKE a, b \in Nat
<1>1. b - 1 \in Int /\ (IF a > b - 1 THEN 0 ELSE b - 1 - a + 1) = (IF a < b THEN b - a ELSE 0)
  OBVIOUS
<1> DEFINE c == b - 1
<1>2. c \in Int /\ (IF a > c THEN 0 ELSE c - a + 1) = (IF a < b THEN b - a ELSE 0)
  BY <1>1
<1> HIDE DEF c
<1>3. IsFiniteSet(a .. c) /\ Cardinality(a .. c) = IF a > c THEN 0 ELSE c - a + 1
  BY <1>2, FS_Interval
<1>4. IsFiniteSet(a .. c) /\ Cardinality(a .. c) = IF a < b THEN b - a ELSE 0
  BY <1>2, <1>3
<1> QED
  BY <1>4 DEF c

\* What the slots of a thread add up to is what it has run.
LEMMA RanUnits ==
  ASSUME Chart, NEW i
  PROVE  Ran(i) = Cardinality(Units(i))
<1> DEFINE f == [k \in DOMAIN gantt |-> gantt[k].end - gantt[k].start]
           T == [k \in DOMAIN gantt |-> Span(k)]
<1>1. IsFiniteSet(Slots(i)) /\ Slots(i) \subseteq DOMAIN gantt
  <2>1. Slots(i) \subseteq DOMAIN gantt
    BY DEF Slots
  <2> QED
    BY <2>1, GanttIndices, FS_Subset
<1>2. ASSUME NEW k \in Slots(i) PROVE IsFiniteSet(T[k]) /\ f[k] = Cardinality(T[k])
  <2>1. gantt[k].start \in Nat /\ gantt[k].end \in Nat /\ gantt[k].start < gantt[k].end
    BY <1>1, SlotTimes
  <2>2. /\ IsFiniteSet(gantt[k].start .. gantt[k].end - 1)
        /\ Cardinality(gantt[k].start .. gantt[k].end - 1) = gantt[k].end - gantt[k].start
    BY <2>1, Interval
  <2> QED
    BY <1>1, <2>2 DEF Span
<1>3. \A j, k \in Slots(i) : j # k => T[j] \cap T[k] = {}
  BY <1>1, SpansApart
<1>4. UNION {T[k] : k \in Slots(i)} = Units(i)
  BY <1>1 DEF Units
<1>5. Ran(i) = SumFunctionOnSet(f, Slots(i))
  BY DEF Ran
<1> HIDE DEF f, T
<1> QED
  BY <1>1, <1>2, <1>3, <1>4, <1>5, SumCounts

\* The part of a slot between two times, as a set.
LEMMA OverlapCounts ==
  ASSUME Chart, NEW k \in DOMAIN gantt
  PROVE  \A from, to \in Nat :
           /\ IsFiniteSet(Span(k) \cap (from .. to - 1))
           /\ Overlap(k, from, to) = Cardinality(Span(k) \cap (from .. to - 1))
<1> TAKE from, to \in Nat
<1>1. gantt[k].start \in Nat /\ gantt[k].end \in Nat
  BY SlotTimes
<1> DEFINE a == IF gantt[k].start > from THEN gantt[k].start ELSE from
           b == IF gantt[k].end < to THEN gantt[k].end ELSE to
<1>2. a \in Nat /\ b \in Nat
  BY <1>1
<1>3. Span(k) \cap (from .. to - 1) = a .. b - 1
  BY <1>1 DEF Span
<1>4. Overlap(k, from, to) = IF a < b THEN b - a ELSE 0
  BY DEF Overlap
<1> HIDE DEF a, b
<1>5. IsFiniteSet(a .. b - 1) /\ Cardinality(a .. b - 1) = Overlap(k, from, to)
  BY <1>2, <1>4, Interval
<1> QED
  BY <1>3, <1>5

\* The time for which others had the CPU, or nobody, between the arrival of a
\* thread and its end is the time in which it did not run.
LEMMA WaitedSlots ==
  ASSUME ShownInv, Chart, UsedInv, NEW i \in done
  PROVE  waiting[i] = SumFunctionOnSet([k \in DOMAIN gantt |-> Overlap(k, arrival[i], finish[i])],
                                       DOMAIN gantt \ Slots(i))
<1> DEFINE f    == [k \in DOMAIN gantt |-> Overlap(k, arrival[i], finish[i])]
           here == arrival[i] .. finish[i] - 1
           T    == [k \in DOMAIN gantt |-> Span(k) \cap here]
           S    == DOMAIN gantt \ Slots(i)
<1>1. Drawn /\ Progress /\ FigInv
  BY DEF ShownInv, ShareInv
<1>2. /\ i \in Ids /\ remaining[i] = 0 /\ arrival[i] \in Nat /\ burst[i] \in Nat /\ time \in Nat
      /\ finish[i] \in Int /\ finish[i] <= time /\ start[i] \in Int
      /\ arrival[i] <= start[i] /\ start[i] + burst[i] <= finish[i]
      /\ waiting[i] = finish[i] - arrival[i] - burst[i]
  <2>1. i \in Ids /\ remaining[i] = 0 /\ burst[i] \in Nat \ {0}
    BY <1>1 DEF Progress, Drawn
  <2> QED
    BY <1>1, <2>1 DEF Progress, Drawn, FigInv, Figures
<1>3. finish[i] \in Nat /\ arrival[i] <= finish[i]
  BY <1>2
<1>4. /\ IsFiniteSet(Units(i)) /\ Cardinality(Units(i)) = burst[i]
      /\ Units(i) \subseteq here
  <2>1. Used(i)
    BY <1>2 DEF UsedInv
  <2>2. \A u \in Units(i) : u \in Nat /\ arrival[i] <= u /\ u < finish[i]
    BY <1>2, <2>1, UnitTimes DEF Used
  <2>3. Work(i) = burst[i]
    BY <1>2 DEF Work
  <2> QED
    BY <1>2, <1>3, <2>1, <2>2, <2>3 DEF Used
<1>5. IsFiniteSet(S) /\ S \subseteq DOMAIN gantt
  BY GanttIndices, FS_Subset
<1>6. \A k \in S : IsFiniteSet(T[k]) /\ f[k] = Cardinality(T[k])
  <2> SUFFICES ASSUME NEW k \in S PROVE IsFiniteSet(T[k]) /\ f[k] = Cardinality(T[k])
    OBVIOUS
  <2>1. k \in DOMAIN gantt
    BY <1>5
  <2>2. \A from, to \in Nat :
          /\ IsFiniteSet(Span(k) \cap (from .. to - 1))
          /\ Overlap(k, from, to) = Cardinality(Span(k) \cap (from .. to - 1))
    BY <2>1, OverlapCounts
  <2>3. arrival[i] \in Nat /\ finish[i] \in Nat
    BY <1>2, <1>3
  <2>4. /\ IsFiniteSet(Span(k) \cap (arrival[i] .. finish[i] - 1))
        /\ Overlap(k, arrival[i], finish[i])
             = Cardinality(Span(k) \cap (arrival[i] .. finish[i] - 1))
    BY <2>2, <2>3, Zenon
  <2> QED
    BY <2>1, <2>4
<1>7. \A j, k \in S : j # k => T[j] \cap T[k] = {}
  BY <1>5, SpansApart
<1>8. UNION {T[k] : k \in S} = here \ Units(i)
  <2>1. ASSUME NEW k \in S, NEW u \in Span(k) PROVE u \notin Units(i)
    BY <2>1, SpansApart DEF Units, Slots
  <2>2. ASSUME NEW u \in here, u \notin Units(i) PROVE \E k \in S : u \in Span(k)
    <3>1. u \in 0 .. time - 1
      BY <1>2, <1>3
    <3>2. PICK k \in DOMAIN gantt : u \in Span(k)
      BY <3>1 DEF UsedInv, Covered
    <3>3. k \notin Slots(i)
      BY <2>2, <3>2 DEF Units
    <3> QED
      BY <3>2, <3>3
  <2> HIDE DEF here
  <2> QED
    BY <1>5, <2>1, <2>2
<1>9. IsFiniteSet(here) /\ Cardinality(here) = finish[i] - arrival[i]
  <2>1. /\ IsFiniteSet(arrival[i] .. finish[i] - 1)
        /\ Cardinality(arrival[i] .. finish[i] - 1)
             = IF arrival[i] < finish[i] THEN finish[i] - arrival[i] ELSE 0
    BY <1>2, <1>3, Interval
  <2> QED
    BY <1>2, <1>3, <2>1
<1> HIDE DEF f, here, T, S
<1>10. Cardinality(here \ Units(i)) = finish[i] - arrival[i] - burst[i]
  <2>1. here \cap Units(i) = Units(i)
    BY <1>4
  <2>2. Cardinality(here \ Units(i)) = Cardinality(here) - Cardinality(here \cap Units(i))
    BY <1>9, FS_Difference
  <2> QED
    BY <1>2, <1>4, <1>9, <2>1, <2>2
<1>11. SumFunctionOnSet(f, S) = Cardinality(UNION {T[k] : k \in S})
  BY <1>5, <1>6, <1>7, SumCounts
<1>12. SumFunctionOnSet(f, S) = waiting[i]
  BY <1>2, <1>8, <1>10, <1>11
<1> QED
  BY <1>12 DEF f, S

LEMMA LastSlot ==
  ASSUME ShownInv, Chart, UsedInv, NEW i \in done
  PROVE  \E k \in Slots(i) : gantt[k].end = finish[i] /\ \A m \in Slots(i) : m <= k
<1>1. i \in Ids /\ Used(i)
  BY DEF ShownInv, ShareInv, Progress, UsedInv
<1>2. PICK k \in Slots(i) : gantt[k].end = finish[i]
  BY <1>1 DEF Used, Ends
<1>3. ASSUME NEW m \in Slots(i) PROVE m <= k
  <2>1. k \in 1 .. Len(gantt) /\ m \in 1 .. Len(gantt) /\ Len(gantt) \in Nat
        /\ k \in DOMAIN gantt /\ m \in DOMAIN gantt
    BY GanttIndices DEF Slots, Chart
  <2>2. SUFFICES ASSUME k < m PROVE FALSE
    BY <2>1
  <2>3. gantt[k].end <= gantt[m].start
    BY <2>1, <2>2 DEF Chart
  <2>4. /\ gantt[m].start \in Nat /\ gantt[m].end \in Nat /\ gantt[m].start < gantt[m].end
        /\ gantt[k].end \in Nat
    BY <2>1, SlotTimes
  <2>5. gantt[m].start \in Units(i)
    <3>1. gantt[m].start \in Span(m)
      BY <2>4 DEF Span
    <3> QED
      BY <3>1 DEF Units
  <2>6. gantt[m].start < finish[i]
    BY <1>1, <2>5 DEF Used
  <2> QED
    BY <1>2, <2>3, <2>4, <2>6
<1> QED
  BY <1>2, <1>3

\* The chart and the figures that are shown of a schedule, of any of the four
\* schedulers and any threads, are true of it: the slots follow each other
\* without gap or overlap, the slots of a thread add up to what it has run, and
\* it waited just as long as they leave it waiting between its arrival and its
\* end (scheduler.c:19-28, 86, 169, 212, 284).
THEOREM ShowsTrue == Spec => []ShownExact
<1>1. Init => Chart /\ UsedInv
  <2> SUFFICES ASSUME Init PROVE Chart /\ UsedInv
    OBVIOUS
  <2>1. Chart
    BY DEF Init, Chart
  <2>2. UsedInv
    BY ShareInit, UsedNone DEF ShareInv, Init
  <2> QED
    BY <2>1, <2>2
<1>2. ShownInv /\ Chart /\ UsedInv => ChartExact
  <2> SUFFICES ASSUME ShownInv, Chart, UsedInv PROVE ChartExact
    OBVIOUS
  <2>1. \A i \in Ids : Ran(i) = burst[i] - remaining[i]
    BY RanUnits DEF UsedInv, Used, Work
  <2> QED
    BY <2>1, GanttIndices DEF Chart, ChartExact
<1>3. ShownInv /\ Chart /\ UsedInv => FiguresExact
  <2> SUFFICES ASSUME ShownInv, Chart, UsedInv, NEW i \in done
               PROVE  /\ \E k \in Slots(i) : gantt[k].end = finish[i] /\ \A m \in Slots(i) : m <= k
                      /\ turnaround[i] = finish[i] - arrival[i]
                      /\ waiting[i] = SumFunctionOnSet(
                                        [k \in DOMAIN gantt |-> Overlap(k, arrival[i], finish[i])],
                                        DOMAIN gantt \ Slots(i))
    BY DEF FiguresExact
  <2>1. turnaround[i] = finish[i] - arrival[i]
    BY DEF ShownInv, ShareInv, Progress, FigInv, Figures
  <2> QED
    BY <2>1, LastSlot, WaitedSlots
<1> QED
  BY <1>1, <1>2, <1>3, ShownInit, ShownStep, ChartStep, UsedStep, PTL DEF Spec, ShownExact

-----------------------------------------------------------------------------
(* The event log.                                                            *)

Entry == [time : Nat, thread_id : Ids,
          message : {"Arrived", "Started", "Preempted", "Completed"}]

\* The entries of a log about i that say this.
At(s, i, what) == {k \in DOMAIN s : s[k].thread_id = i /\ s[k].message = what}

\* A log that goes forward in time, no further than now.
Timed(s, now) ==
  /\ s \in Seq(Entry)
  /\ \A k \in DOMAIN s : s[k].time <= now
  /\ \A j, k \in DOMAIN s : j < k => s[j].time <= s[k].time

\* It has the arrivals of S.
Hears(s, S) == \A i \in S : \E k \in At(s, i, "Arrived") : s[k].time = arrival[i]

\* It has no arrival twice, and none but those of S.
HearsOnce(s, S) ==
  \A i \in Ids : \A k \in At(s, i, "Arrived") : i \in S /\ \A m \in At(s, i, "Arrived") : m = k

Begun(s, i, from) == \E m \in At(s, i, "Started") : s[m].time = from

Ended(s, i, from, to) ==
  \E k \in At(s, i, "Completed") :
    /\ s[k].time = to
    /\ \A m \in At(s, i, "Completed") : m = k
    /\ \E m \in At(s, i, "Started") : m < k /\ s[m].time = from

\* It says of the threads that have started when they did, and of those that
\* are over when they ended.
Tells(s, now, S, from, to, over) ==
  /\ Timed(s, now) /\ Hears(s, S)
  /\ \A i \in Ids : from[i] # -1 => Begun(s, i, from[i])
  /\ \A i \in over : Ended(s, i, from[i], to[i])
  /\ \A i \in Ids \ over : At(s, i, "Completed") = {}

\* u is s and then t, entry by entry.
Joins(s, t, u) ==
  /\ u \in Seq(Entry) /\ Len(s) \in Nat
  /\ \A k \in DOMAIN s : k \in DOMAIN u /\ u[k] = s[k] /\ k \in Nat /\ k <= Len(s)
  /\ \A k \in DOMAIN t : Len(s) + k \in DOMAIN u /\ u[Len(s) + k] = t[k] /\ k \in Nat /\ k >= 1
  /\ \A k \in DOMAIN u : /\ k \in Nat /\ (k \in DOMAIN s \/ k - Len(s) \in DOMAIN t)
                         /\ Len(s) + (k - Len(s)) = k

LEMMA Joined == \A s, t \in Seq(Entry) : Joins(s, t, s \o t)
<1> TAKE s, t \in Seq(Entry)
<1>1. /\ DOMAIN s = 1 .. Len(s) /\ DOMAIN t = 1 .. Len(t) /\ Len(s) \in Nat /\ Len(t) \in Nat
      /\ s \o t \in Seq(Entry) /\ DOMAIN (s \o t) = 1 .. Len(s) + Len(t)
  OBVIOUS
<1>2. /\ \A k \in 1 .. Len(s) : (s \o t)[k] = s[k]
      /\ \A k \in 1 .. Len(t) : (s \o t)[Len(s) + k] = t[k]
  OBVIOUS
<1>3. \A m, n \in Nat :
        /\ \A k \in 1 .. m : k \in 1 .. m + n /\ k \in Nat /\ k <= m
        /\ \A k \in 1 .. n : m + k \in 1 .. m + n /\ k \in Nat /\ k >= 1
        /\ \A k \in 1 .. m + n : k \in Nat /\ (k \in 1 .. m \/ k - m \in 1 .. n) /\ m + (k - m) = k
  OBVIOUS
<1> QED
  BY <1>1, <1>2, <1>3 DEF Joins

LEMMA AtConcat ==
  ASSUME NEW s, NEW t, NEW u, Joins(s, t, u), NEW i, NEW what
  PROVE  /\ \A k \in At(s, i, what) : k \in At(u, i, what) /\ u[k] = s[k]
         /\ \A k \in At(t, i, what) : Len(s) + k \in At(u, i, what) /\ u[Len(s) + k] = t[k]
         /\ \A k \in At(u, i, what) : k \in At(s, i, what) \/ k - Len(s) \in At(t, i, what)
<1>1. /\ \A k \in DOMAIN s : k \in DOMAIN u /\ u[k] = s[k]
      /\ \A k \in DOMAIN t : Len(s) + k \in DOMAIN u /\ u[Len(s) + k] = t[k]
      /\ \A k \in DOMAIN u : (k \in DOMAIN s \/ k - Len(s) \in DOMAIN t) /\ Len(s) + (k - Len(s)) = k
  BY DEF Joins
<1>2. \A k \in At(s, i, what) : k \in At(u, i, what) /\ u[k] = s[k]
  BY <1>1 DEF At
<1>3. \A k \in At(t, i, what) : Len(s) + k \in At(u, i, what) /\ u[Len(s) + k] = t[k]
  BY <1>1 DEF At
<1>4. ASSUME NEW k \in At(u, i, what)
      PROVE  k \in At(s, i, what) \/ k - Len(s) \in At(t, i, what)
  <2>1. k \in DOMAIN u /\ u[k].thread_id = i /\ u[k].message = what
    BY DEF At
  <2>2. CASE k \in DOMAIN s
    BY <1>1, <2>1, <2>2 DEF At
  <2>3. CASE k - Len(s) \in DOMAIN t
    <3>1. u[k] = t[k - Len(s)]
      BY <1>1, <2>1, <2>3
    <3> QED
      BY <2>1, <2>3, <3>1 DEF At
  <2> QED
    BY <1>1, <2>1, <2>2, <2>3
<1> QED
  BY <1>2, <1>3, <1>4

LEMMA TimedConcat ==
  ASSUME NEW s, NEW t, NEW u, Joins(s, t, u), NEW a \in Nat, NEW b \in Nat,
         Timed(s, a), Timed(t, b), a <= b, \A k \in DOMAIN t : a <= t[k].time
  PROVE  Timed(u, b)
<1>1. s \in Seq(Entry) /\ t \in Seq(Entry)
  BY DEF Timed
<1>2. /\ u \in Seq(Entry)
      /\ \A k \in DOMAIN s : u[k] = s[k]
      /\ \A k \in DOMAIN t : u[Len(s) + k] = t[k]
      /\ \A k \in DOMAIN u : (k \in DOMAIN s \/ k - Len(s) \in DOMAIN t) /\ Len(s) + (k - Len(s)) = k
      /\ \A k \in DOMAIN u : k \in Nat
      /\ \A k \in DOMAIN s : k \in Nat /\ k <= Len(s)
      /\ \A k \in DOMAIN t : k \in Nat /\ k >= 1
      /\ Len(s) \in Nat
  BY DEF Joins
<1>3. \A k \in DOMAIN s : s[k].time \in Nat /\ s[k].time <= a
  <2>1. \A k \in DOMAIN s : s[k] \in Entry
    BY <1>1
  <2> QED
    BY <2>1 DEF Timed, Entry
<1>4. \A k \in DOMAIN t : t[k].time \in Nat /\ t[k].time <= b /\ a <= t[k].time
  <2>1. \A k \in DOMAIN t : t[k] \in Entry
    BY <1>1
  <2> QED
    BY <2>1 DEF Timed, Entry
<1>5. ASSUME NEW k \in DOMAIN u PROVE u[k].time <= b
  <2>1. CASE k \in DOMAIN s
    BY <1>2, <1>3, <2>1
  <2>2. CASE k - Len(s) \in DOMAIN t
    <3>1. u[k] = t[k - Len(s)]
      BY <1>2, <2>2
    <3> QED
      BY <1>4, <2>2, <3>1
  <2> QED
    BY <1>2, <2>1, <2>2
<1>6. ASSUME NEW j \in DOMAIN u, NEW k \in DOMAIN u, j < k PROVE u[j].time <= u[k].time
  <2>1. CASE j \in DOMAIN s /\ k \in DOMAIN s
    BY <1>2, <1>6, <2>1 DEF Timed
  <2>2. CASE j \in DOMAIN s /\ k - Len(s) \in DOMAIN t
    <3>1. u[k] = t[k - Len(s)] /\ u[j] = s[j]
      BY <1>2, <2>2
    <3> QED
      BY <1>3, <1>4, <2>2, <3>1
  <2>3. CASE j - Len(s) \in DOMAIN t /\ k - Len(s) \in DOMAIN t
    <3>1. u[k] = t[k - Len(s)] /\ u[j] = t[j - Len(s)]
      BY <1>2, <2>3
    <3>2. j - Len(s) < k - Len(s)
      BY <1>2, <1>6
    <3> QED
      BY <2>3, <3>1, <3>2 DEF Timed
  <2>4. CASE j - Len(s) \in DOMAIN t /\ k \in DOMAIN s
    <3>1. j - Len(s) >= 1 /\ k <= Len(s) /\ j \in Nat /\ k \in Nat /\ Len(s) \in Nat
      BY <1>2, <2>4
    <3> QED
      BY <1>6, <3>1
  <2> QED
    BY <1>2, <2>1, <2>2, <2>3, <2>4
<1> QED
  BY <1>2, <1>5, <1>6 DEF Timed

\* What a log says is said after more is written.
LEMMA MoreSaid ==
  ASSUME NEW s, NEW t, NEW u, Joins(s, t, u), NEW i
  PROVE  /\ \A from : Begun(s, i, from) \/ Begun(t, i, from) => Begun(u, i, from)
         /\ At(t, i, "Completed") = {} =>
              /\ \A from, to : Ended(s, i, from, to) => Ended(u, i, from, to)
              /\ At(s, i, "Completed") = {} => At(u, i, "Completed") = {}
<1>1. ASSUME NEW what, NEW k \in At(s, i, what) PROVE k \in At(u, i, what) /\ u[k] = s[k]
  BY AtConcat
<1>2. \A k \in At(u, i, "Completed") : k \in At(s, i, "Completed") \/ k - Len(s) \in At(t, i, "Completed")
  BY AtConcat
<1>3. \A k \in At(t, i, "Started") : Len(s) + k \in At(u, i, "Started") /\ u[Len(s) + k] = t[k]
  BY AtConcat
<1>4. \A from : Begun(s, i, from) \/ Begun(t, i, from) => Begun(u, i, from)
  BY <1>1, <1>3 DEF Begun
<1>5. ASSUME At(t, i, "Completed") = {}
      PROVE  /\ \A from, to : Ended(s, i, from, to) => Ended(u, i, from, to)
             /\ At(s, i, "Completed") = {} => At(u, i, "Completed") = {}
  <2>1. \A k \in At(u, i, "Completed") : k \in At(s, i, "Completed")
    BY <1>2, <1>5
  <2> QED
    BY <1>1, <2>1 DEF Ended
<1> QED
  BY <1>4, <1>5

Within(from, to) == {i \in Ids : arrival[i] \in from .. to}

\* What check_arrivals writes.
LEMMA ArrivalsTell ==
  ASSUME Drawn, NEW from \in Nat, NEW to \in Nat
  PROVE  /\ Timed(Arrivals(from, to), to)
         /\ \A k \in DOMAIN Arrivals(from, to) : from <= Arrivals(from, to)[k].time
         /\ Hears(Arrivals(from, to), Within(from, to))
         /\ HearsOnce(Arrivals(from, to), Within(from, to))
         /\ \A i : At(Arrivals(from, to), i, "Completed") = {}
<1> DEFINE a == Arrivals(from, to)
           W == Within(from, to)
           s == ByArrival(W)
           n == Cardinality(W)
<1>1. W \in SUBSET Ids /\ IsFiniteSet(W) /\ Keyed(W, arrival)
  BY FS_Subset DEF Within, Drawn, Keyed
<1>2. Sorted(s, W, arrival)
  <2>1. \E v : Sorted(v, W, arrival)
    BY <1>1, SortExists
  <2> HIDE DEF W
  <2> QED
    BY <2>1 DEF ByArrival, InOrder, Sorted
<1>3. Lists(s, 0, W) /\ s \in Seq(W)
  BY <1>1, InOrderLists DEF ByArrival
<1>4. n \in Nat /\ s \in [1 .. n -> W] /\ DOMAIN s = 1 .. n /\ Len(s) = n
  <2>1. n \in Nat
    BY <1>1, FS_CardinalityType
  <2> HIDE DEF W
  <2> QED
    BY <1>2, <2>1 DEF Sorted
<1>5. a = [k \in DOMAIN s |-> Event(arrival[s[k]], s[k], "Arrived")]
  BY DEF Arrivals, Within
<1> HIDE DEF a, s, n
<1>6. \A i \in W : i \in Ids /\ arrival[i] \in Nat /\ from <= arrival[i] /\ arrival[i] <= to
  BY DEF Within, Drawn
<1>7. \A i \in Ids : i \in W <=> arrival[i] \in from .. to
  BY DEF Within
<1> HIDE DEF W
<1>8. DOMAIN a = 1 .. n /\ \A k \in 1 .. n : /\ s[k] \in W
                                             /\ a[k].time = arrival[s[k]] /\ a[k].thread_id = s[k]
                                             /\ a[k].message = "Arrived" /\ a[k] \in Entry
  <2>1. DOMAIN a = 1 .. n /\ \A k \in 1 .. n : s[k] \in W /\ a[k] = Event(arrival[s[k]], s[k], "Arrived")
    BY <1>4, <1>5
  <2> QED
    BY <1>6, <2>1 DEF Event, Entry
<1>9. a \in Seq(Entry)
  <2>1. a \in [1 .. n -> Entry]
    BY <1>5, <1>8
  <2> QED
    BY <1>4, <2>1
<1>10. Timed(a, to)
  <2>1. \A k \in DOMAIN a : a[k].time <= to
    BY <1>6, <1>8
  <2>2. ASSUME NEW j \in 1 .. n, NEW k \in 1 .. n, j < k PROVE a[j].time <= a[k].time
    <3>1. Before(arrival, s[j], s[k])
      BY <1>2, <2>2 DEF Sorted, n
    <3>2. arrival[s[j]] \in Nat /\ arrival[s[k]] \in Nat
      BY <1>6, <1>8
    <3> QED
      BY <1>8, <3>1, <3>2 DEF Before
  <2> QED
    BY <1>8, <1>9, <2>1, <2>2 DEF Timed
<1>11. \A k \in DOMAIN a : from <= a[k].time
  BY <1>6, <1>8
<1>12. Hears(a, W)
  <2> SUFFICES ASSUME NEW i \in W PROVE \E k \in At(a, i, "Arrived") : a[k].time = arrival[i]
    BY DEF Hears
  <2>1. PICK k \in 0 + 1 .. Len(s) : s[k] = i
    BY <1>3 DEF Lists
  <2>2. k \in 1 .. n
    BY <1>4, <2>1
  <2> QED
    BY <1>8, <2>1, <2>2 DEF At
<1>13. HearsOnce(a, W)
  <2> SUFFICES ASSUME NEW i \in Ids, NEW k \in At(a, i, "Arrived")
               PROVE  i \in W /\ \A m \in At(a, i, "Arrived") : m = k
    BY DEF HearsOnce
  <2>1. k \in 1 .. n /\ s[k] = i
    BY <1>8 DEF At
  <2>2. ASSUME NEW m \in At(a, i, "Arrived") PROVE m = k
    <3>1. m \in 1 .. n /\ s[m] = i
      BY <1>8 DEF At
    <3>2. k \in 0 + 1 .. Len(s) /\ m \in 0 + 1 .. Len(s)
      BY <1>4, <2>1, <3>1
    <3> QED
      BY <1>3, <2>1, <3>1, <3>2 DEF Lists
  <2> QED
    BY <1>8, <2>1, <2>2
<1>14. \A i : At(a, i, "Completed") = {}
  BY <1>8 DEF At
<1> QED
  BY <1>10, <1>11, <1>12, <1>13, <1>14 DEF a, W

\* What one event says.
LEMMA EventTells ==
  ASSUME NEW t \in Nat, NEW i \in Ids, NEW what \in {"Started", "Preempted", "Completed"}
  PROVE  /\ Timed(<<Event(t, i, what)>>, t)
         /\ \A k \in DOMAIN <<Event(t, i, what)>> : t <= <<Event(t, i, what)>>[k].time
         /\ \A j : At(<<Event(t, i, what)>>, j, "Arrived") = {}
         /\ Hears(<<Event(t, i, what)>>, {}) /\ HearsOnce(<<Event(t, i, what)>>, {})
         /\ \A j, w : At(<<Event(t, i, what)>>, j, w) = IF j = i /\ w = what THEN {1} ELSE {}
         /\ what = "Started" => Begun(<<Event(t, i, what)>>, i, t)
<1> DEFINE s == <<Event(t, i, what)>>
<1>1. /\ DOMAIN s = {1} /\ s[1].time = t /\ s[1].thread_id = i /\ s[1].message = what
      /\ s \in Seq(Entry)
  BY DEF Event, Entry
<1> HIDE DEF s
<1>2. Timed(s, t) /\ \A k \in DOMAIN s : t <= s[k].time
  BY <1>1 DEF Timed
<1>3. \A j, w : At(s, j, w) = IF j = i /\ w = what THEN {1} ELSE {}
  BY <1>1 DEF At
<1>4. \A j : At(s, j, "Arrived") = {}
  BY <1>3
<1>5. Hears(s, {}) /\ HearsOnce(s, {})
  BY <1>4 DEF Hears, HearsOnce
<1>6. what = "Started" => Begun(s, i, t)
  BY <1>1, <1>3 DEF Begun
<1> QED
  BY <1>2, <1>3, <1>4, <1>5, <1>6 DEF s

\* A log is continued.
LEMMA TellMore ==
  ASSUME NEW s, NEW t, NEW u, Joins(s, t, u), NEW now \in Nat, NEW then \in Nat, now <= then,
         NEW S, NEW W, NEW from, NEW since, NEW to, NEW over \in SUBSET Ids,
         Tells(s, now, S, from, to, over),
         Timed(t, then), \A k \in DOMAIN t : now <= t[k].time, Hears(t, W),
         \A i : At(t, i, "Completed") = {},
         \A i \in Ids : since[i] = from[i] \/ (i \notin over /\ Begun(t, i, since[i]))
  PROVE  Tells(u, then, S \cup W, since, to, over)
<1>1. Timed(u, then)
  BY TimedConcat DEF Tells
<1>2. Hears(u, S \cup W)
  <2> SUFFICES ASSUME NEW i \in S \cup W PROVE \E k \in At(u, i, "Arrived") : u[k].time = arrival[i]
    BY DEF Hears
  <2>1. CASE i \in S
    <3>1. PICK k \in At(s, i, "Arrived") : s[k].time = arrival[i]
      BY <2>1 DEF Tells, Hears
    <3> QED
      BY <3>1, AtConcat
  <2>2. CASE i \in W
    <3>1. PICK k \in At(t, i, "Arrived") : t[k].time = arrival[i]
      BY <2>2 DEF Hears
    <3>2. Len(s) + k \in At(u, i, "Arrived") /\ u[Len(s) + k] = t[k]
      BY AtConcat
    <3> QED
      BY <3>1, <3>2
  <2> QED
    BY <2>1, <2>2
<1>3. ASSUME NEW i \in Ids, since[i] # -1 PROVE Begun(u, i, since[i])
  BY <1>3, MoreSaid DEF Tells
<1>4. ASSUME NEW i \in over PROVE Ended(u, i, since[i], to[i])
  <2>1. Ended(s, i, from[i], to[i]) /\ since[i] = from[i]
    BY DEF Tells
  <2> QED
    BY <2>1, MoreSaid
<1>5. ASSUME NEW i \in Ids \ over PROVE At(u, i, "Completed") = {}
  BY MoreSaid DEF Tells
<1> QED
  BY <1>1, <1>2, <1>3, <1>4, <1>5 DEF Tells

\* It is said that a thread has ended.
LEMMA TellEnd ==
  ASSUME NEW s, NEW now \in Nat, NEW then \in Nat, now <= then,
         NEW S, NEW from, NEW to, NEW until, NEW over \in SUBSET Ids,
         Tells(s, now, S, from, to, over),
         NEW i \in Ids, i \notin over, from[i] # -1,
         until[i] = then, \A j \in over : until[j] = to[j],
         NEW u, Joins(s, <<Event(then, i, "Completed")>>, u)
  PROVE  Tells(u, then, S, from, until, over \cup {i})
<1> DEFINE t == <<Event(then, i, "Completed")>>
<1>1. /\ Timed(t, then) /\ \A k \in DOMAIN t : then <= t[k].time
      /\ \A j, w : At(t, j, w) = IF j = i /\ w = "Completed" THEN {1} ELSE {}
      /\ t[1].time = then
  <2>1. t[1].time = then
    BY DEF Event
  <2>2. "Completed" \in {"Started", "Preempted", "Completed"}
    OBVIOUS
  <2> QED
    BY <2>1, <2>2, EventTells
<1>2. Joins(s, t, u)
  OBVIOUS
<1> HIDE DEF t
<1>3. \A k \in DOMAIN t : now <= t[k].time
  <2>1. \A k \in DOMAIN t : t[k].time \in Nat
    <3>1. t \in Seq(Entry)
      BY <1>1 DEF Timed
    <3>2. \A k \in DOMAIN t : t[k] \in Entry
      BY <3>1
    <3> QED
      BY <3>2 DEF Entry
  <2> QED
    BY <1>1, <2>1
<1>4. Timed(u, then)
  BY <1>1, <1>2, <1>3, TimedConcat DEF Tells
<1>5. Hears(u, S)
  BY <1>2, AtConcat DEF Hears, Tells
<1>6. ASSUME NEW j \in Ids, from[j] # -1 PROVE Begun(u, j, from[j])
  BY <1>2, <1>6, MoreSaid DEF Tells
<1>7. Ended(u, i, from[i], until[i])
  <2> DEFINE k == Len(s) + 1
  <2>1. k \in At(u, i, "Completed") /\ u[k] = t[1]
    BY <1>1, <1>2, AtConcat
  <2>2. ASSUME NEW m \in At(u, i, "Completed") PROVE m = k
    <3>1. At(s, i, "Completed") = {}
      BY DEF Tells
    <3>2. m - Len(s) = 1
      BY <1>1, <1>2, <3>1, AtConcat
    <3>3. m \in Nat /\ Len(s) \in Nat
      BY <1>2 DEF Joins, At
    <3> QED
      BY <3>2, <3>3
  <2>3. PICK m \in At(s, i, "Started") : s[m].time = from[i]
    BY DEF Tells, Begun
  <2>4. m \in At(u, i, "Started") /\ u[m] = s[m] /\ m < k
    <3>1. m \in At(u, i, "Started") /\ u[m] = s[m]
      BY <1>2, AtConcat
    <3>2. m \in Nat /\ Len(s) \in Nat /\ m <= Len(s)
      BY <1>2 DEF Joins, At
    <3> QED
      BY <3>1, <3>2
  <2>5. u[k].time = until[i]
    BY <1>1, <2>1
  <2> HIDE DEF k
  <2> QED
    BY <2>1, <2>2, <2>3, <2>4, <2>5 DEF Ended
<1>8. ASSUME NEW j \in over PROVE Ended(u, j, from[j], until[j])
  <2>1. Ended(s, j, from[j], to[j]) /\ until[j] = to[j] /\ At(t, j, "Completed") = {}
    BY <1>1 DEF Tells
  <2> QED
    BY <1>2, <2>1, MoreSaid
<1>9. ASSUME NEW j \in Ids \ (over \cup {i}) PROVE At(u, j, "Completed") = {}
  <2>1. At(s, j, "Completed") = {} /\ At(t, j, "Completed") = {}
    BY <1>1 DEF Tells
  <2> QED
    BY <1>2, <2>1, MoreSaid
<1> QED
  BY <1>4, <1>5, <1>6, <1>7, <1>8, <1>9 DEF Tells

\* Less is asked of a log.
LEMMA TellLess ==
  ASSUME NEW s, NEW now \in Nat, NEW then \in Nat, now <= then, NEW S, NEW W, W \subseteq S,
         NEW from, NEW to, NEW over, Tells(s, now, S, from, to, over)
  PROVE  Tells(s, then, W, from, to, over)
<1>1. Timed(s, then)
  <2>1. s \in Seq(Entry)
    BY DEF Tells, Timed
  <2>2. \A k \in DOMAIN s : s[k] \in Entry
    BY <2>1
  <2>3. \A k \in DOMAIN s : s[k].time \in Nat /\ s[k].time <= now
    BY <2>2 DEF Entry, Tells, Timed
  <2>4. \A k \in DOMAIN s : s[k].time <= then
    BY <2>3
  <2> QED
    BY <2>4 DEF Tells, Timed
<1> QED
  BY <1>1 DEF Tells, Hears

\* Arrivals are written once.
LEMMA HearMore ==
  ASSUME NEW s, NEW t, NEW u, Joins(s, t, u), NEW S, NEW W, S \cap W = {},
         HearsOnce(s, S), HearsOnce(t, W)
  PROVE  HearsOnce(u, S \cup W)
<1> SUFFICES ASSUME NEW i \in Ids, NEW k \in At(u, i, "Arrived"), NEW m \in At(u, i, "Arrived")
             PROVE  i \in S \cup W /\ m = k
  BY DEF HearsOnce
<1>1. /\ k \in At(s, i, "Arrived") \/ k - Len(s) \in At(t, i, "Arrived")
      /\ m \in At(s, i, "Arrived") \/ m - Len(s) \in At(t, i, "Arrived")
  BY AtConcat
<1>2. k \in Nat /\ m \in Nat /\ Len(s) \in Nat
  BY DEF Joins, At
<1>3. CASE k \in At(s, i, "Arrived") /\ m \in At(s, i, "Arrived")
  BY <1>3 DEF HearsOnce
<1>4. CASE k - Len(s) \in At(t, i, "Arrived") /\ m - Len(s) \in At(t, i, "Arrived")
  <2>1. i \in W /\ m - Len(s) = k - Len(s)
    BY <1>4 DEF HearsOnce
  <2> QED
    BY <1>2, <2>1
<1>5. CASE \/ k \in At(s, i, "Arrived") /\ m - Len(s) \in At(t, i, "Arrived")
           \/ m \in At(s, i, "Arrived") /\ k - Len(s) \in At(t, i, "Arrived")
  <2>1. i \in S /\ i \in W
    BY <1>5 DEF HearsOnce
  <2> QED
    BY <2>1
<1> QED
  BY <1>1, <1>3, <1>4, <1>5

LEMMA WriteArrivals ==
  ASSUME Drawn, NEW s, NEW now \in Nat, NEW S, NEW from, NEW to, NEW over \in SUBSET Ids,
         Tells(s, now, S, from, to, over), NEW a \in Nat, NEW b \in Nat, now <= a, now <= b
  PROVE  Tells(s \o Arrivals(a, b), b, S \cup Within(a, b), from, to, over)
<1> DEFINE t == Arrivals(a, b)
<1>1. /\ Timed(t, b) /\ \A k \in DOMAIN t : a <= t[k].time
      /\ Hears(t, Within(a, b)) /\ \A i : At(t, i, "Completed") = {}
  BY ArrivalsTell
<1> HIDE DEF t
<1>2. \A k \in DOMAIN t : now <= t[k].time
  <2>1. t \in Seq(Entry)
    BY <1>1 DEF Timed
  <2>2. \A k \in DOMAIN t : t[k] \in Entry
    BY <2>1
  <2>3. \A k \in DOMAIN t : t[k].time \in Nat
    BY <2>2 DEF Entry
  <2> QED
    BY <1>1, <2>3
<1>3. Joins(s, t, s \o t)
  BY <1>1, Joined DEF Tells, Timed
<1>4. Tells(s \o t, b, S \cup Within(a, b), from, to, over)
  BY <1>1, <1>2, <1>3, TellMore
<1> QED
  BY <1>4 DEF t

\* A thread is given the CPU: it is written, if it is new to it at least.
LEMMA WriteStart ==
  ASSUME NEW s, NEW now \in Nat, NEW S, NEW from, NEW since, NEW to, NEW over \in SUBSET Ids,
         Tells(s, now, S, from, to, over), NEW i \in Ids, i \notin over,
         NEW t, t = <<Event(now, i, "Started")>> \/ (t = <<>> /\ from[i] # -1),
         \A j \in Ids : since[j] = IF j = i /\ from[i] = -1 THEN now ELSE from[j]
  PROVE  Tells(s \o t, now, S, since, to, over)
<1>1. CASE t = <<>>
  <2>1. s \o t = s
    BY <1>1 DEF Tells, Timed
  <2>2. from[i] # -1 /\ \A j \in Ids : since[j] = from[j]
    BY <1>1
  <2> QED
    BY <2>1, <2>2 DEF Tells
<1>2. CASE t = <<Event(now, i, "Started")>>
  <2>0. "Started" \in {"Started", "Preempted", "Completed"} /\ "Started" # "Completed"
    OBVIOUS
  <2>1. /\ Timed(t, now) /\ \A k \in DOMAIN t : now <= t[k].time
        /\ Hears(t, {}) /\ Begun(t, i, now)
        /\ \A j, w : At(t, j, w) = IF j = i /\ w = "Started" THEN {1} ELSE {}
    BY <1>2, <2>0, EventTells
  <2>2. \A j : At(t, j, "Completed") = {}
    BY <2>0, <2>1
  <2>3. Joins(s, t, s \o t)
    BY <2>1, Joined DEF Tells, Timed
  <2>4. \A j \in Ids : since[j] = from[j] \/ (j \notin over /\ Begun(t, j, since[j]))
    BY <2>1
  <2>5. Tells(s \o t, now, S \cup {}, since, to, over)
    BY <2>1, <2>2, <2>3, <2>4, TellMore
  <2> QED
    BY <2>5
<1> QED
  BY <1>1, <1>2

\* A thread is preempted, which is written or not.
LEMMA WritePreempted ==
  ASSUME NEW s, NEW now \in Nat, NEW then \in Nat, now <= then,
         NEW S, NEW from, NEW to, NEW over \in SUBSET Ids,
         Tells(s, now, S, from, to, over), NEW i \in Ids,
         NEW t, t = <<Event(then, i, "Preempted")>> \/ t = <<>>
  PROVE  Tells(s \o t, then, S, from, to, over)
<1>1. CASE t = <<>>
  <2>1. s \o t = s
    BY <1>1 DEF Tells, Timed
  <2> QED
    BY <2>1, TellLess
<1>2. CASE t = <<Event(then, i, "Preempted")>>
  <2>0. "Preempted" \in {"Started", "Preempted", "Completed"} /\ "Preempted" # "Completed"
    OBVIOUS
  <2>1. /\ Timed(t, then) /\ \A k \in DOMAIN t : then <= t[k].time
        /\ Hears(t, {})
        /\ \A j, w : At(t, j, w) = IF j = i /\ w = "Preempted" THEN {1} ELSE {}
    BY <1>2, <2>0, EventTells
  <2>2. \A j : At(t, j, "Completed") = {}
    BY <2>0, <2>1
  <2>3. Joins(s, t, s \o t)
    BY <2>1, Joined DEF Tells, Timed
  <2>4. \A k \in DOMAIN t : now <= t[k].time
    <3>1. \A k \in DOMAIN t : t[k].time = then
      BY <1>2 DEF Event
    <3> QED
      BY <3>1
  <2>5. Tells(s \o t, then, S \cup {}, from, to, over)
    BY <2>1, <2>2, <2>3, <2>4, TellMore
  <2> QED
    BY <2>5
<1> QED
  BY <1>1, <1>2

\* A thread ends.
LEMMA WriteEnd ==
  ASSUME NEW s, NEW now \in Nat, NEW then \in Nat, now <= then,
         NEW S, NEW from, NEW to, NEW until, NEW over \in SUBSET Ids,
         Tells(s, now, S, from, to, over),
         NEW i \in Ids, i \notin over, from[i] # -1,
         until[i] = then, \A j \in over : until[j] = to[j]
  PROVE  Tells(s \o <<Event(then, i, "Completed")>>, then, S, from, until, over \cup {i})
<1>1. "Completed" \in {"Started", "Preempted", "Completed"}
  OBVIOUS
<1>2. <<Event(then, i, "Completed")>> \in Seq(Entry)
  BY <1>1, EventTells DEF Timed
<1>3. s \in Seq(Entry)
  BY DEF Tells, Timed
<1>4. Joins(s, <<Event(then, i, "Completed")>>, s \o <<Event(then, i, "Completed")>>)
  BY <1>2, <1>3, Joined
<1> QED
  BY <1>4, TellEnd

\* What is not an arrival can be written at any time.
LEMMA HearOther ==
  ASSUME NEW s \in Seq(Entry), NEW S, HearsOnce(s, S), NEW i \in Ids, NEW now \in Nat,
         NEW what \in {"Started", "Preempted", "Completed"},
         NEW t, t = <<Event(now, i, what)>> \/ t = <<>>
  PROVE  s \o t \in Seq(Entry) /\ HearsOnce(s \o t, S)
<1>1. CASE t = <<>>
  <2>1. s \o t = s
    BY <1>1
  <2> QED
    BY <2>1
<1>2. CASE t = <<Event(now, i, what)>>
  <2>1. t \in Seq(Entry) /\ HearsOnce(t, {})
    BY <1>2, EventTells DEF Timed
  <2>2. Joins(s, t, s \o t)
    BY <2>1, Joined
  <2>3. HearsOnce(s \o t, S \cup {})
    BY <2>1, <2>2, HearMore
  <2>4. s \o t \in Seq(Entry)
    BY <2>2 DEF Joins
  <2> QED
    BY <2>3, <2>4
<1> QED
  BY <1>1, <1>2

LEMMA HearArrivals ==
  ASSUME Drawn, NEW s \in Seq(Entry), NEW S, HearsOnce(s, S), NEW a \in Nat, NEW b \in Nat,
         S \cap Within(a, b) = {}
  PROVE  s \o Arrivals(a, b) \in Seq(Entry) /\ HearsOnce(s \o Arrivals(a, b), S \cup Within(a, b))
<1>1. Arrivals(a, b) \in Seq(Entry) /\ HearsOnce(Arrivals(a, b), Within(a, b))
  BY ArrivalsTell DEF Timed
<1>2. Joins(s, Arrivals(a, b), s \o Arrivals(a, b))
  BY <1>1, Joined
<1>3. s \o Arrivals(a, b) \in Seq(Entry)
  BY <1>2 DEF Joins
<1> QED
  BY <1>1, <1>2, <1>3, HearMore

-----------------------------------------------------------------------------
(* The log, step by step.                                                    *)

\* Those whose arrival is in the past.
Heard == {i \in Ids : arrival[i] < time}

\* The log says all there is to say, and under FIFO and SRTF no arrival twice.
LogInv ==
  /\ Tells(elog, time, Heard, start, finish, done)
  /\ algo \in {"fifo", "srtf"} => HearsOnce(elog, IF pc = "schedule" THEN Heard ELSE Ids)

\* The time goes on and the arrivals up to it have been written.
LEMMA HeardThen ==
  ASSUME Drawn, time \in Nat, NEW to \in Nat, time < to, time' = to, UNCHANGED <<burst, arrival>>
  PROVE  /\ Heard' = Heard \cup Within(time, to - 1) /\ Heard \cap Within(time, to - 1) = {}
         /\ Heard' \subseteq Heard \cup Within(time, time) \cup Within(time + 1, to)
         /\ Heard' \subseteq Heard \cup Within(time, time) \cup Within(time + 1, to - 1)
<1>1. \A i \in Ids : arrival[i] \in Nat
  BY DEF Drawn
<1> QED
  BY <1>1 DEF Heard, Within, Ids

\* A run: what becomes of the figures, where the log is concerned.
LEMMA RunFigures ==
  ASSUME ShownInv, NEW i, NEW units, Executes(i, units)
  PROVE  /\ i \in Ids /\ i \notin done /\ done \in SUBSET Ids
         /\ time \in Nat /\ units \in Nat /\ units >= 1 /\ time + units \in Nat
         /\ time + units - 1 \in Nat /\ time <= time + units - 1
         /\ time' = time + units /\ start'[i] # -1
         /\ \A j \in Ids : start'[j] = IF j = i /\ start[i] = -1 THEN time ELSE start[j]
         /\ units = remaining[i] => /\ finish'[i] = time + units /\ done' = done \cup {i}
                                    /\ \A j \in done : finish'[j] = finish[j]
         /\ units # remaining[i] => finish' = finish /\ done' = done
<1>1. /\ i \in Ids /\ i \notin done /\ done \in SUBSET Ids /\ time \in Nat
      /\ remaining[i] \in Nat /\ units \in 1 .. remaining[i] /\ time' = time + units
      /\ FigInv
  BY DEF Executes, GetsCpu, Ready, ShownInv, ShareInv, Progress
<1>2. units \in Nat /\ units >= 1
  BY <1>1
<1>3. \A j \in Ids : start'[j] = IF j = i /\ start[i] = -1 THEN time ELSE start[j]
  BY <1>1 DEF Executes, FigInv
<1>4. start'[i] # -1
  BY <1>1, <1>3
<1>5. units = remaining[i] => /\ finish'[i] = time + units /\ done' = done \cup {i}
                              /\ \A j \in done : finish'[j] = finish[j]
  BY <1>1 DEF Executes, Complete, FigInv
<1>6. units # remaining[i] => finish' = finish /\ done' = done
  BY DEF Executes
<1>7. time + units \in Nat /\ time + units - 1 \in Nat /\ time <= time + units - 1
  BY <1>1, <1>2
<1> HIDE DEF Executes
<1> QED
  BY <1>1, <1>2, <1>3, <1>4, <1>5, <1>6, <1>7

\* What the new log says of the threads is what the next state asks for.
LEMMA Written ==
  ASSUME UNCHANGED <<burst, arrival>>, time' \in Nat, NEW S, Heard' \subseteq S,
         Tells(elog', time', S, start', finish', done')
  PROVE  Tells(elog, time, Heard, start, finish, done)'
<1>1. Tells(elog', time', Heard', start', finish', done')
  BY TellLess
<1> QED
  BY <1>1 DEF Tells, Hears, Timed, Begun, Ended, At, Entry, Ids

LEMMA FifoLog ==
  ASSUME ShownInv, LogInv, FifoRun
  PROVE  LogInv'
<1> DEFINE i     == FifoSelect
           units == remaining[i]
           to    == time + units
           first == elog \o <<Event(time, i, "Started")>>
           then  == first \o Arrivals(time, to - 1)
           last  == then \o <<Event(to, i, "Completed")>>
<1>1. ShareInv /\ FigInv /\ Drawn /\ UNCHANGED <<burst, arrival, algo, pc>> /\ Ids' = Ids
  BY DEF ShownInv, ShareInv, FifoRun, Elsewhere, Ids
<1>2. Executes(i, units)
  BY <1>1, FifoExecutes
<1>3. Tells(elog, time, Heard, start, finish, done) /\ HearsOnce(elog, Heard) /\ elog \in Seq(Entry)
  BY DEF LogInv, FifoRun, Scheduling, Tells, Timed
<1>4. elog' = last
  <2>1. time' = to
    BY <1>2 DEF Executes, GetsCpu
  <2>2. elog' = Append(elog, Event(time, i, "Started")) \o Arrivals(time, time' - 1)
                  \o <<Event(time', i, "Completed")>>
    BY DEF FifoRun
  <2>3. Append(elog, Event(time, i, "Started")) = first
    BY <1>3
  <2> HIDE DEF i
  <2> QED
    BY <2>1, <2>2, <2>3
<1> HIDE DEF i, units
<1>5. /\ i \in Ids /\ i \notin done /\ done \in SUBSET Ids
      /\ time \in Nat /\ to \in Nat /\ to - 1 \in Nat /\ time <= to - 1 /\ to - 1 <= to /\ time < to
      /\ time' = to /\ start'[i] # -1
      /\ \A j \in Ids : start'[j] = IF j = i /\ start[i] = -1 THEN time ELSE start[j]
      /\ finish'[i] = to /\ done' = done \cup {i} /\ \A j \in done : finish'[j] = finish[j]
  <2>1. /\ i \in Ids /\ i \notin done /\ done \in SUBSET Ids
        /\ time \in Nat /\ units \in Nat /\ units >= 1 /\ time' = time + units /\ start'[i] # -1
        /\ \A j \in Ids : start'[j] = IF j = i /\ start[i] = -1 THEN time ELSE start[j]
        /\ finish'[i] = time + units /\ done' = done \cup {i}
        /\ \A j \in done : finish'[j] = finish[j]
    BY <1>2, RunFigures DEF units
  <2> QED
    BY <2>1
<1> HIDE DEF to, first, then, last
<1>6. Tells(first, time, Heard, start', finish, done)
  BY <1>3, <1>5, WriteStart DEF first
<1>7. Tells(then, to - 1, Heard \cup Within(time, to - 1), start', finish, done)
  BY <1>1, <1>5, <1>6, WriteArrivals DEF then
<1>8. Tells(last, to, Heard \cup Within(time, to - 1), start', finish', done')
  BY <1>5, <1>7, WriteEnd DEF last
<1>9. Heard' = Heard \cup Within(time, to - 1) /\ Heard \cap Within(time, to - 1) = {}
  BY <1>1, <1>5, HeardThen
<1>10. HearsOnce(last, Heard')
  <2>1. first \in Seq(Entry) /\ HearsOnce(first, Heard)
    BY <1>3, <1>5, HearOther DEF first
  <2>2. then \in Seq(Entry) /\ HearsOnce(then, Heard \cup Within(time, to - 1))
    BY <1>1, <1>5, <1>9, <2>1, HearArrivals DEF then
  <2> QED
    BY <1>5, <1>9, <2>2, HearOther DEF last
<1>11. Tells(elog, time, Heard, start, finish, done)' /\ HearsOnce(elog, Heard)'
  <2>1. Tells(elog, time, Heard, start, finish, done)'
    BY <1>1, <1>4, <1>5, <1>8, <1>9, Written
  <2>2. HearsOnce(elog, Heard)'
    BY <1>1, <1>4, <1>10 DEF HearsOnce, At, Ids
  <2> QED
    BY <2>1, <2>2
<1>12. pc' = "schedule"
  BY <1>1 DEF FifoRun, Scheduling
<1> QED
  BY <1>11, <1>12 DEF LogInv

LEMMA SjfLog ==
  ASSUME ShownInv, LogInv, SjfRun
  PROVE  LogInv'
<1> DEFINE i     == FirstBy(Ready, burst)
           units == remaining[i]
           to    == time + units
           came  == elog \o Arrivals(time, time)
           first == came \o <<Event(time, i, "Started")>>
           then  == first \o Arrivals(time + 1, to - 1)
           more  == then \o Arrivals(to, to)
           last  == more \o <<Event(to, i, "Completed")>>
           S     == Heard \cup Within(time, time) \cup Within(time + 1, to - 1) \cup Within(to, to)
<1>1. ShareInv /\ FigInv /\ Drawn /\ UNCHANGED <<burst, arrival, algo>> /\ algo = "sjf"
  BY DEF ShownInv, ShareInv, SjfRun, Elsewhere, Scheduling
<1>2. Executes(i, units)
  BY <1>1, SjfExecutes
<1>3. Tells(elog, time, Heard, start, finish, done)
  BY DEF LogInv
<1>4. elog' = last
  <2>1. time' = to
    BY <1>2 DEF Executes, GetsCpu
  <2>2. elog' = elog \o Arrivals(time, time) \o <<Event(time, i, "Started")>>
                  \o Arrivals(time + 1, time' - 1) \o Arrivals(time', time')
                  \o <<Event(time', i, "Completed")>>
    BY DEF SjfRun
  <2> HIDE DEF i
  <2> QED
    BY <2>1, <2>2
<1> HIDE DEF i, units
<1>5. /\ i \in Ids /\ i \notin done /\ done \in SUBSET Ids
      /\ time \in Nat /\ time + 1 \in Nat /\ to \in Nat /\ to - 1 \in Nat /\ time <= time
      /\ time <= time + 1 /\ time <= to - 1 /\ to - 1 <= to /\ to <= to /\ time < to
      /\ time' = to /\ start'[i] # -1
      /\ \A j \in Ids : start'[j] = IF j = i /\ start[i] = -1 THEN time ELSE start[j]
      /\ finish'[i] = to /\ done' = done \cup {i} /\ \A j \in done : finish'[j] = finish[j]
  <2>1. /\ i \in Ids /\ i \notin done /\ done \in SUBSET Ids
        /\ time \in Nat /\ units \in Nat /\ units >= 1 /\ time' = time + units /\ start'[i] # -1
        /\ \A j \in Ids : start'[j] = IF j = i /\ start[i] = -1 THEN time ELSE start[j]
        /\ finish'[i] = time + units /\ done' = done \cup {i}
        /\ \A j \in done : finish'[j] = finish[j]
    BY <1>2, RunFigures DEF units
  <2> QED
    BY <2>1
<1> HIDE DEF to, came, first, then, more, last
<1>6. Tells(came, time, Heard \cup Within(time, time), start, finish, done)
  BY <1>1, <1>3, <1>5, WriteArrivals DEF came
<1>7. Tells(first, time, Heard \cup Within(time, time), start', finish, done)
  BY <1>5, <1>6, WriteStart DEF first
<1>8. Tells(then, to - 1, Heard \cup Within(time, time) \cup Within(time + 1, to - 1),
            start', finish, done)
  BY <1>1, <1>5, <1>7, WriteArrivals DEF then
<1>9. Tells(more, to, S, start', finish, done)
  BY <1>1, <1>5, <1>8, WriteArrivals DEF more
<1> HIDE DEF S
<1>10. Tells(last, to, S, start', finish', done')
  BY <1>5, <1>9, WriteEnd DEF last
<1>11. Heard' \subseteq S
  BY <1>1, <1>5, HeardThen DEF S
<1>12. Tells(elog, time, Heard, start, finish, done)'
  BY <1>1, <1>4, <1>5, <1>10, <1>11, Written
<1> QED
  BY <1>1, <1>12 DEF LogInv

LEMMA RrLog ==
  ASSUME ShownInv, LogInv, RrRun
  PROVE  LogInv'
<1> DEFINE i     == RrEnqueue[head + 1]
           units == RunTime(i)
           to    == time + units
           came  == elog \o Arrivals(time, time)
           new   == IF start[i] = -1 THEN <<Event(time, i, "Started")>> ELSE <<>>
           first == came \o new
           then  == first \o Arrivals(time + 1, to)
           left  == remaining[i] - units
           last  == then \o <<Event(to, i, IF left > 0 THEN "Preempted" ELSE "Completed")>>
           S     == Heard \cup Within(time, time) \cup Within(time + 1, to)
<1>1. ShareInv /\ FigInv /\ Drawn /\ UNCHANGED <<burst, arrival, algo>> /\ algo = "rr"
  BY DEF ShownInv, ShareInv, RrRun, Elsewhere, Scheduling
<1>2. Executes(i, units)
  BY <1>1, RrExecutes
<1>3. Tells(elog, time, Heard, start, finish, done)
  BY DEF LogInv
<1>4. elog' = last
  <2>1. elog' = elog \o Arrivals(time, time)
                  \o (IF start[i] = -1 THEN <<Event(time, i, "Started")>> ELSE <<>>)
                  \o Arrivals(time + 1, time + units)
                  \o <<Event(time + units, i, IF left > 0 THEN "Preempted" ELSE "Completed")>>
    BY DEF RrRun
  <2> HIDE DEF i
  <2> QED
    BY <2>1
<1> HIDE DEF i, units
<1>5. /\ i \in Ids /\ i \notin done /\ done \in SUBSET Ids
      /\ time \in Nat /\ time + 1 \in Nat /\ to \in Nat /\ time <= time
      /\ time <= time + 1 /\ time <= to /\ to <= to /\ time < to
      /\ time' = to /\ start'[i] # -1
      /\ \A j \in Ids : start'[j] = IF j = i /\ start[i] = -1 THEN time ELSE start[j]
      /\ ~(left > 0) => /\ finish'[i] = to /\ done' = done \cup {i}
                        /\ \A j \in done : finish'[j] = finish[j]
      /\ left > 0 => finish' = finish /\ done' = done
  <2>1. /\ i \in Ids /\ i \notin done /\ done \in SUBSET Ids
        /\ time \in Nat /\ units \in Nat /\ units >= 1 /\ time' = time + units /\ start'[i] # -1
        /\ \A j \in Ids : start'[j] = IF j = i /\ start[i] = -1 THEN time ELSE start[j]
        /\ units = remaining[i] => /\ finish'[i] = time + units /\ done' = done \cup {i}
                                   /\ \A j \in done : finish'[j] = finish[j]
        /\ units # remaining[i] => finish' = finish /\ done' = done
    BY <1>2, RunFigures
  <2>2. left > 0 <=> units # remaining[i]
    <3>1. units \in 1 .. remaining[i] /\ remaining[i] \in Nat
      BY <1>1, <1>2, <2>1 DEF Executes, GetsCpu, ShareInv, Progress
    <3> QED
      BY <3>1
  <2> HIDE DEF left
  <2>3. /\ time + 1 \in Nat /\ to \in Nat /\ time <= time
        /\ time <= time + 1 /\ time <= to /\ to <= to /\ time < to
    BY <2>1
  <2> QED
    BY <2>1, <2>2, <2>3
<1> HIDE DEF to, came, first, then, left, last
<1>6. Tells(came, time, Heard \cup Within(time, time), start, finish, done)
  BY <1>1, <1>3, <1>5, WriteArrivals DEF came
<1>7. Tells(first, time, Heard \cup Within(time, time), start', finish, done)
  <2>1. new = <<Event(time, i, "Started")>> \/ (new = <<>> /\ start[i] # -1)
    OBVIOUS
  <2> HIDE DEF new
  <2> QED
    BY <1>5, <1>6, <2>1, WriteStart DEF first
<1>8. Tells(then, to, S, start', finish, done)
  BY <1>1, <1>5, <1>7, WriteArrivals DEF then
<1> HIDE DEF S, new
<1>9. Tells(last, to, S, start', finish', done')
  <2>1. CASE left > 0
    <3>1. last = then \o <<Event(to, i, "Preempted")>>
      BY <2>1 DEF last
    <3>2. Tells(last, to, S, start', finish, done)
      BY <1>5, <1>8, <3>1, WritePreempted
    <3> QED
      BY <1>5, <2>1, <3>2
  <2>2. CASE ~(left > 0)
    <3>1. last = then \o <<Event(to, i, "Completed")>>
      BY <2>2 DEF last
    <3> QED
      BY <1>5, <1>8, <2>2, <3>1, WriteEnd
  <2> QED
    BY <2>1, <2>2
<1>10. Heard' \subseteq S
  BY <1>1, <1>5, HeardThen DEF S
<1>11. Tells(elog, time, Heard, start, finish, done)'
  BY <1>1, <1>4, <1>5, <1>9, <1>10, Written
<1> QED
  BY <1>1, <1>11 DEF LogInv

LEMMA PreemptedEntry ==
  ASSUME Rest, NEW sel, Preempted(sel) # <<>>
  PROVE  last_running \in Ids /\ Preempted(sel) = <<Event(time, last_running, "Preempted")>>
BY DEF Preempted, Rest

\* SRTF writes the arrivals, and then that a thread was preempted if one was.
LEMMA PreemptedTells ==
  ASSUME Drawn, Rest, time \in Nat, NEW sel, NEW S, NEW from, NEW to, NEW over \in SUBSET Ids,
         NEW s, Tells(s, time, S, from, to, over), HearsOnce(s, S)
  PROVE  Tells(s \o Preempted(sel), time, S, from, to, over) /\ HearsOnce(s \o Preempted(sel), S)
<1>1. s \in Seq(Entry) /\ time <= time /\ "Preempted" \in {"Started", "Preempted", "Completed"}
  BY DEF Tells, Timed
<1>2. CASE Preempted(sel) = <<>>
  <2>1. s \o Preempted(sel) = s
    BY <1>1, <1>2
  <2> QED
    BY <2>1
<1>3. CASE Preempted(sel) # <<>>
  <2>1. last_running \in Ids /\ Preempted(sel) = <<Event(time, last_running, "Preempted")>>
    BY <1>3, PreemptedEntry
  <2>2. Tells(s \o Preempted(sel), time, S, from, to, over)
    BY <1>1, <2>1, WritePreempted
  <2>3. HearsOnce(s \o Preempted(sel), S)
    BY <1>1, <2>1, HearOther
  <2> QED
    BY <2>2, <2>3
<1> QED
  BY <1>2, <1>3

LEMMA SrtfLog ==
  ASSUME ShownInv, LogInv, SrtfRun
  PROVE  LogInv'
<1> DEFINE i     == SrtfSelect
           to    == time + 1
           came  == elog \o Arrivals(time, time)
           other == came \o Preempted(i)
           new   == IF start[i] = -1 \/ last_running # i THEN <<Event(time, i, "Started")>> ELSE <<>>
           first == other \o new
           end   == IF remaining[i] = 1 THEN <<Event(to, i, "Completed")>> ELSE <<>>
           last  == first \o end
           S     == Heard \cup Within(time, time)
<1>1. /\ ShareInv /\ Drawn /\ Rest /\ UNCHANGED <<burst, arrival, algo, pc>>
      /\ algo = "srtf" /\ pc = "schedule"
  BY DEF ShownInv, ShareInv, SrtfRun, Elsewhere, Scheduling
<1>2. Executes(i, 1)
  BY <1>1, SrtfExecutes
<1>3. Tells(elog, time, Heard, start, finish, done) /\ HearsOnce(elog, Heard) /\ elog \in Seq(Entry)
  BY <1>1 DEF LogInv, Tells, Timed
<1>4. elog' = last
  <2>1. elog' = elog \o Arrivals(time, time) \o Preempted(i)
                  \o (IF start[i] = -1 \/ last_running # i
                      THEN <<Event(time, i, "Started")>> ELSE <<>>)
                  \o (IF remaining[i] = 1 THEN <<Event(time + 1, i, "Completed")>> ELSE <<>>)
    BY DEF SrtfRun
  <2> HIDE DEF i
  <2> QED
    BY <2>1
<1> HIDE DEF i
<1>5. /\ i \in Ids /\ i \notin done /\ done \in SUBSET Ids
      /\ time \in Nat /\ to \in Nat /\ time <= time /\ time <= to /\ time < to /\ to - 1 = time
      /\ time' = to /\ start'[i] # -1
      /\ \A j \in Ids : start'[j] = IF j = i /\ start[i] = -1 THEN time ELSE start[j]
      /\ remaining[i] = 1 => /\ finish'[i] = to /\ done' = done \cup {i}
                             /\ \A j \in done : finish'[j] = finish[j]
      /\ remaining[i] # 1 => finish' = finish /\ done' = done
  <2>1. /\ i \in Ids /\ i \notin done /\ done \in SUBSET Ids
        /\ time \in Nat /\ time' = time + 1 /\ start'[i] # -1
        /\ \A j \in Ids : start'[j] = IF j = i /\ start[i] = -1 THEN time ELSE start[j]
        /\ 1 = remaining[i] => /\ finish'[i] = time + 1 /\ done' = done \cup {i}
                               /\ \A j \in done : finish'[j] = finish[j]
        /\ 1 # remaining[i] => finish' = finish /\ done' = done
    BY <1>2, RunFigures
  <2> QED
    BY <2>1
<1> HIDE DEF to, came, other, first, last
<1>6. Heard' = S /\ Heard \cap Within(time, time) = {}
  <2>1. /\ Heard' = Heard \cup Within(time, to - 1) /\ Heard \cap Within(time, to - 1) = {}
    BY <1>1, <1>5, HeardThen
  <2> QED
    BY <1>5, <2>1
<1>7. Tells(came, time, S, start, finish, done)
  BY <1>1, <1>3, <1>5, WriteArrivals DEF came
<1>8. came \in Seq(Entry) /\ HearsOnce(came, S)
  BY <1>1, <1>3, <1>5, <1>6, HearArrivals DEF came
<1> HIDE DEF S
<1>9. /\ Tells(other, time, S, start, finish, done) /\ HearsOnce(other, S)
      /\ other \in Seq(Entry)
  <2>1. Tells(other, time, S, start, finish, done) /\ HearsOnce(other, S)
    BY <1>1, <1>5, <1>7, <1>8, PreemptedTells DEF other
  <2> QED
    BY <2>1 DEF Tells, Timed
<1>10. new = <<Event(time, i, "Started")>> \/ (new = <<>> /\ start[i] # -1)
  OBVIOUS
<1> HIDE DEF new
<1>11. Tells(first, time, S, start', finish, done)
  BY <1>5, <1>9, <1>10, WriteStart DEF first
<1>12. first \in Seq(Entry) /\ HearsOnce(first, S)
  <2>1. "Started" \in {"Started", "Preempted", "Completed"}
    OBVIOUS
  <2> QED
    BY <1>5, <1>9, <1>10, <2>1, HearOther DEF first
<1>13. Tells(last, to, S, start', finish', done')
  <2>1. CASE remaining[i] = 1
    <3>1. last = first \o <<Event(to, i, "Completed")>>
      BY <2>1 DEF last
    <3> QED
      BY <1>5, <1>11, <2>1, <3>1, WriteEnd
  <2>2. CASE remaining[i] # 1
    <3>1. last = first
      BY <1>12, <2>2 DEF last
    <3>2. Tells(first, to, S, start', finish, done)
      BY <1>5, <1>11, TellLess
    <3> QED
      BY <1>5, <2>2, <3>1, <3>2
  <2> QED
    BY <2>1, <2>2
<1>14. HearsOnce(last, S)
  <2>1. "Completed" \in {"Started", "Preempted", "Completed"}
    OBVIOUS
  <2>2. end = <<Event(to, i, "Completed")>> \/ end = <<>>
    OBVIOUS
  <2> HIDE DEF end
  <2> QED
    BY <1>5, <1>12, <2>1, <2>2, HearOther DEF last
<1>15. Tells(elog, time, Heard, start, finish, done)'
  BY <1>1, <1>4, <1>5, <1>6, <1>13, Written
<1>16. HearsOnce(elog, Heard)'
  BY <1>1, <1>4, <1>6, <1>14 DEF HearsOnce, At, Ids
<1> QED
  BY <1>1, <1>15, <1>16 DEF LogInv

LEMMA IdleLog ==
  ASSUME ShownInv, LogInv, FifoIdle \/ RrIdle \/ SjfIdle \/ SrtfIdle
  PROVE  LogInv'
<1> DEFINE came == elog \o Arrivals(time, time)
           S    == Heard \cup Within(time, time)
<1>1. /\ ShareInv /\ Drawn /\ Rest /\ UNCHANGED <<burst, arrival, algo, pc>> /\ pc = "schedule"
      /\ UNCHANGED <<start, finish, done>> /\ time' = time + 1 /\ time \in Nat
      /\ done \in SUBSET Ids /\ (SrtfIdle => algo = "srtf")
  BY DEF ShownInv, ShareInv, Progress, FifoIdle, RrIdle, SjfIdle, SrtfIdle, Elsewhere, Scheduling,
         IdleUnit, threadVars
<1>2. time <= time /\ time + 1 \in Nat /\ time <= time + 1 /\ time < time + 1 /\ time + 1 - 1 = time
  BY <1>1
<1>3. Heard' = S /\ Heard \cap Within(time, time) = {}
  <2>1. /\ Heard' = Heard \cup Within(time, time + 1 - 1)
        /\ Heard \cap Within(time, time + 1 - 1) = {}
    BY <1>1, <1>2, HeardThen
  <2> QED
    BY <1>2, <2>1
<1>4. Tells(elog, time, Heard, start, finish, done) /\ elog \in Seq(Entry)
  BY DEF LogInv, Tells, Timed
<1>5. Tells(came, time, S, start, finish, done) /\ came \in Seq(Entry)
  <2>1. Tells(came, time, S, start, finish, done)
    BY <1>1, <1>2, <1>4, WriteArrivals
  <2> QED
    BY <2>1 DEF Tells, Timed
<1>6. algo \in {"fifo", "srtf"} => HearsOnce(came, S)
  BY <1>1, <1>3, <1>4, HearArrivals DEF LogInv
<1> HIDE DEF came, S
<1>7. Tells(elog', time, S, start, finish, done) /\ (algo \in {"fifo", "srtf"} => HearsOnce(elog', S))
  <2>1. CASE FifoIdle \/ RrIdle \/ SjfIdle
    <3>1. elog' = came
      BY <2>1 DEF FifoIdle, RrIdle, SjfIdle, came
    <3> QED
      BY <1>5, <1>6, <3>1
  <2>2. CASE SrtfIdle
    <3>1. elog' = came \o Preempted(-1)
      BY <2>2 DEF SrtfIdle, came
    <3>2. HearsOnce(came, S)
      BY <1>1, <1>6, <2>2
    <3> QED
      BY <1>1, <1>5, <3>1, <3>2, PreemptedTells
  <2> QED
    BY <2>1, <2>2
<1>8. Tells(elog', time', S, start', finish', done')
  BY <1>1, <1>2, <1>7, TellLess
<1>9. Tells(elog, time, Heard, start, finish, done)'
  BY <1>1, <1>2, <1>3, <1>8, Written
<1>10. algo \in {"fifo", "srtf"} => HearsOnce(elog, Heard)'
  BY <1>1, <1>3, <1>7 DEF HearsOnce, At, Ids
<1> QED
  BY <1>1, <1>9, <1>10 DEF LogInv

LEMMA ReturnLog ==
  ASSUME ShownInv, LogInv, Return
  PROVE  LogInv'
<1>1. /\ ShareInv /\ Drawn /\ UNCHANGED <<burst, arrival, time, algo, start, finish, done>>
      /\ pc = "schedule" /\ pc' = "main" /\ time \in Nat /\ done \in SUBSET Ids
      /\ Heard' = Heard
  BY DEF ShownInv, ShareInv, Progress, Return, threadVars, Heard, Ids
<1>2. Tells(elog, time, Heard, start, finish, done) /\ elog \in Seq(Entry)
  BY DEF LogInv, Tells, Timed
<1>3. \A s, S : HearsOnce(s, S) /\ S \subseteq Ids => HearsOnce(s, Ids)
  BY DEF HearsOnce
<1>4. CASE algo = "fifo"
  <2> DEFINE came == elog \o Arrivals(time, time)
             S    == Heard \cup Within(time, time)
  <2>1. elog' = came
    BY <1>4 DEF Return
  <2>2. time <= time /\ Heard \cap Within(time, time) = {} /\ S \subseteq Ids
    BY <1>1 DEF Heard, Within
  <2>3. Tells(came, time, S, start, finish, done)
    BY <1>1, <1>2, <2>2, WriteArrivals
  <2>4. HearsOnce(came, S)
    BY <1>1, <1>2, <1>4, <2>2, HearArrivals DEF LogInv
  <2>5. Heard \subseteq S
    OBVIOUS
  <2> HIDE DEF came, S
  <2>6. Tells(elog, time, Heard, start, finish, done)'
    BY <1>1, <2>1, <2>3, <2>5, Written
  <2>7. HearsOnce(elog', Ids)
    BY <1>3, <2>1, <2>2, <2>4
  <2>8. HearsOnce(elog, Ids)'
    BY <1>1, <2>7 DEF HearsOnce, At, Ids
  <2> QED
    BY <1>1, <2>6, <2>8 DEF LogInv
<1>5. CASE algo # "fifo"
  <2>1. elog' = elog
    BY <1>5 DEF Return
  <2>2. Tells(elog, time, Heard, start, finish, done)'
    BY <1>1, <1>2, <2>1, Written
  <2>3. algo = "srtf" => HearsOnce(elog, Ids)
    <3>1. Heard \subseteq Ids
      BY DEF Heard
    <3> QED
      BY <1>1, <1>3, <3>1 DEF LogInv
  <2>4. algo = "srtf" => HearsOnce(elog, Ids)'
    BY <1>1, <2>1, <2>3 DEF HearsOnce, At, Ids
  <2> QED
    BY <1>1, <1>5, <2>2, <2>4 DEF LogInv
<1> QED
  BY <1>4, <1>5

LogFresh ==
  /\ Drawn /\ elog = <<>> /\ time = 0 /\ done = {} /\ start = [i \in Ids |-> -1]

LEMMA LogNone == LogFresh => LogInv
<1> SUFFICES ASSUME LogFresh PROVE LogInv
  OBVIOUS
<1>1. \A i, what : At(elog, i, what) = {}
  BY DEF LogFresh, At
<1>2. Heard = {}
  BY DEF LogFresh, Heard, Drawn
<1>3. Timed(elog, time)
  BY DEF LogFresh, Timed
<1>4. \A S : HearsOnce(elog, S)
  BY <1>1 DEF HearsOnce
<1>5. Tells(elog, time, Heard, start, finish, done)
  BY <1>1, <1>2, <1>3 DEF Tells, Hears, LogFresh
<1> QED
  BY <1>4, <1>5 DEF LogInv

LEMMA LogStart == LogFresh' => LogInv'
BY LogNone, PTL

LEMMA LogStep == ShownInv /\ LogInv /\ [Next]_vars => LogInv'
<1> SUFFICES ASSUME ShownInv, LogInv, [Next]_vars PROVE LogInv'
  OBVIOUS
<1>1. CASE RunAlgo
  <2>1. Drawn' /\ Ids' = Ids
    BY DrawnStep DEF ShownInv, ShareInv
  <2>2. LogFresh'
    BY <1>1, <2>1 DEF RunAlgo, LogFresh
  <2> QED
    BY <2>2, LogStart
<1>2. CASE UNCHANGED vars
  BY <1>2 DEF vars, logVars, threadVars, LogInv, Tells, Timed, Hears, HearsOnce, Begun, Ended, At,
              Entry, Heard, Ids
<1>3. CASE FifoRun \/ SjfRun \/ SrtfRun \/ RrRun
  BY <1>3, FifoLog, SjfLog, SrtfLog, RrLog
<1>4. CASE FifoIdle \/ RrIdle \/ SjfIdle \/ SrtfIdle
  BY <1>4, IdleLog
<1>5. CASE Return
  BY <1>5, ReturnLog
<1> QED
  BY <1>1, <1>2, <1>3, <1>4, <1>5 DEF Next, Stopped

\* The event log says what happened, under each of the four schedulers: it goes
\* forward in time, no arrival before the present is missing, under FIFO and SRTF
\* none is there twice, and each thread that is done completed once, when it
\* finished, after it started at the time its figures give (scheduler.c:30-64,
\* 67-294).
THEOREM LogsAll == Spec => []LogComplete
<1>1. Init => LogInv
  BY ShareInit, LogNone DEF Init, LogFresh, ShareInv
<1>2. ShownInv /\ LogInv => LogComplete
  <2> SUFFICES ASSUME ShownInv, LogInv PROVE LogComplete
    OBVIOUS
  <2>1. /\ Tells(elog, time, Heard, start, finish, done) /\ elog \in Seq(Entry)
        /\ Drawn /\ Progress /\ done \subseteq Ids
    BY DEF LogInv, Tells, Timed, ShownInv, ShareInv, Progress
  <2>2. \A i, what : Logged(i, what) = At(elog, i, what)
    BY DEF Logged, At
  <2>3. ASSUME NEW k \in 2 .. Len(elog) PROVE elog[k - 1].time <= elog[k].time
    <3>1. \A n \in Nat : \A m \in 2 .. n : m - 1 \in 1 .. n /\ m \in 1 .. n /\ m - 1 < m
      OBVIOUS
    <3>2. Len(elog) \in Nat /\ DOMAIN elog = 1 .. Len(elog)
      BY <2>1
    <3>3. k - 1 \in DOMAIN elog /\ k \in DOMAIN elog /\ k - 1 < k
      BY <3>1, <3>2
    <3> QED
      BY <2>1, <3>3 DEF Tells, Timed
  <2>4. ASSUME NEW i \in Ids, arrival[i] < time
        PROVE  /\ \E k \in Logged(i, "Arrived") : elog[k].time = arrival[i]
               /\ algo \in {"fifo", "srtf"} => Cardinality(Logged(i, "Arrived")) = 1
    <3>1. PICK k \in At(elog, i, "Arrived") : elog[k].time = arrival[i]
      BY <2>1, <2>4 DEF Tells, Hears, Heard
    <3>2. ASSUME algo \in {"fifo", "srtf"} PROVE Cardinality(At(elog, i, "Arrived")) = 1
      <4>1. At(elog, i, "Arrived") = {k}
        BY <3>2 DEF LogInv, HearsOnce
      <4> QED
        BY <4>1, FS_Singleton
    <3> QED
      BY <2>2, <3>1, <3>2
  <2>5. \A i \in done : Ended(elog, i, start[i], finish[i])
    BY <2>1 DEF Tells
  <2> QED
    BY <2>2, <2>3, <2>4, <2>5 DEF LogComplete, Ended
<1> QED
  BY <1>1, <1>2, ShownInit, ShownStep, LogStep, PTL DEF Spec

-----------------------------------------------------------------------------
(* The least waiting time.                                                   *)

\* What is left to be run, of each thread.
Lefts == [Ids -> 0 .. MaxBurst]

\* The last of the Times.
Horizon == MaxArrival + Cardinality(Ids) * MaxBurst

ReadyAt(t, x) == {i \in Ids : x[i] > 0 /\ arrival[i] <= t}

\* i has run for a unit.
LeftAfter(x, i) == [x EXCEPT ![i] = @ - 1]

LEMMA HorizonIs ==
  ASSUME Drawn
  PROVE  /\ Horizon \in Nat /\ Times = 0 .. Horizon
         /\ \A t \in 0 .. Horizon : t \in Nat /\ (t + 1 \in Times <=> t < Horizon)
<1>1. MaxArrival \in Nat /\ Cardinality(Ids) * MaxBurst \in Nat
  BY WorkedBound
<1>2. Horizon \in Nat
  <2> DEFINE all == Cardinality(Ids) * MaxBurst
  <2>1. all \in Nat
    BY <1>1
  <2> HIDE DEF all
  <2>2. MaxArrival + all \in Nat
    BY <1>1, <2>1
  <2> QED
    BY <2>2 DEF all, Horizon
<1>3. Times = 0 .. Horizon
  BY DEF Times, Horizon
<1> HIDE DEF Horizon, Times
<1> QED
  BY <1>2, <1>3

LEMMA MinIs ==
  ASSUME NEW S \in SUBSET Nat, S # {}
  PROVE  Min(S) \in S /\ Min(S) \in Nat /\ \A g \in S : Min(S) <= g
<1>1. \E f \in S : \A g \in S : f <= g
  BY SmallestNumber
<1> QED
  BY <1>1 DEF Min

LEMMA ReadyCount ==
  ASSUME Drawn, NEW t, NEW x
  PROVE  /\ IsFiniteSet(ReadyAt(t, x)) /\ Cardinality(ReadyAt(t, x)) \in Nat
         /\ ReadyAt(t, x) # {} => Cardinality(ReadyAt(t, x)) - 1 \in Nat
         /\ ReadyAt(t, x) = {} => Cardinality(ReadyAt(t, x)) = 0
<1> DEFINE R == ReadyAt(t, x)
<1>1. R \subseteq Ids
  BY DEF ReadyAt
<1> HIDE DEF R
<1>2. IsFiniteSet(R) /\ Cardinality(R) \in Nat
  BY <1>1, FS_Subset, FS_CardinalityType DEF Drawn
<1>3. Cardinality(R) = 0 <=> R = {}
  BY <1>2, FS_EmptySet
<1>4. R # {} => Cardinality(R) - 1 \in Nat
  BY <1>2, <1>3
<1> QED
  BY <1>2, <1>3, <1>4 DEF R

LEMMA LeftAfterIs ==
  ASSUME NEW x \in Lefts, NEW i \in Ids, x[i] > 0
  PROVE  /\ LeftAfter(x, i) \in Lefts
         /\ \A k \in Ids : LeftAfter(x, i)[k] = IF k = i THEN x[i] - 1 ELSE x[k]
<1>1. x[i] \in 0 .. MaxBurst /\ x[i] - 1 \in 0 .. MaxBurst
  BY DEF Lefts
<1> QED
  BY <1>1 DEF Lefts, LeftAfter

\* One step of LeastWaiting, in terms of a function f for the instants after it.
WaitingStep(f, t, x) ==
  IF t + 1 \notin Times THEN 0
  ELSE IF ReadyAt(t, x) = {} THEN f[t + 1][x]
  ELSE Cardinality(ReadyAt(t, x)) - 1 + Min({f[t + 1][LeftAfter(x, i)] : i \in ReadyAt(t, x)})

LEMMA LeastChoice ==
  ASSUME NEW t, NEW x \in Lefts, NEW g, \A y \in Lefts : g[y] \in Nat, ReadyAt(t, x) # {}
  PROVE  LET least == Min({g[LeftAfter(x, i)] : i \in ReadyAt(t, x)})
         IN  /\ least \in Nat
             /\ \A i \in ReadyAt(t, x) : least <= g[LeftAfter(x, i)]
             /\ \E i \in ReadyAt(t, x) : least = g[LeftAfter(x, i)]
<1> DEFINE S == {g[LeftAfter(x, i)] : i \in ReadyAt(t, x)}
<1>1. \A i \in ReadyAt(t, x) : LeftAfter(x, i) \in Lefts
  BY LeftAfterIs DEF ReadyAt
<1>2. S \in SUBSET Nat /\ S # {}
  BY <1>1
<1>3. Min(S) \in S /\ Min(S) \in Nat /\ \A g1 \in S : Min(S) <= g1
  <2> HIDE DEF S
  <2> QED
    BY <1>2, MinIs
<1>4. PICK m : m = Min(S)
  OBVIOUS
<1>5. m \in S /\ m \in Nat /\ \A g1 \in S : m <= g1
  BY <1>3, <1>4
<1>6. m \in Nat /\ (\A i \in ReadyAt(t, x) : m <= g[LeftAfter(x, i)]) /\ (\E i \in ReadyAt(t, x) : m = g[LeftAfter(x, i)])
  BY <1>5
<1> QED
  BY <1>4, <1>6

LEMMA WaitingType ==
  ASSUME Drawn, NEW t \in Times, NEW x \in Lefts, NEW f,
         t + 1 \in Times => \A y \in Lefts : f[t + 1][y] \in Nat
  PROVE  WaitingStep(f, t, x) \in Nat
<1>1. CASE t + 1 \notin Times
  BY <1>1 DEF WaitingStep
<1>2. CASE t + 1 \in Times /\ ReadyAt(t, x) = {}
  BY <1>2 DEF WaitingStep
<1>3. CASE t + 1 \in Times /\ ReadyAt(t, x) # {}
  <2>1. PICK m : m = Min({f[t + 1][LeftAfter(x, i)] : i \in ReadyAt(t, x)})
    OBVIOUS
  <2>2. m \in Nat
    BY <1>3, <2>1, LeastChoice
  <2>3. WaitingStep(f, t, x) = Cardinality(ReadyAt(t, x)) - 1 + m
    BY <1>3, <2>1 DEF WaitingStep
  <2> QED
    BY <1>3, <2>2, <2>3, ReadyCount
<1> QED
  BY <1>1, <1>2, <1>3

LeastFrom(t) == [t .. Horizon -> [Lefts -> Nat]]

\* The function that LeastWaiting describes is there, from the last instant back.
LEMMA WaitingExists ==
  ASSUME Drawn
  PROVE  \E f \in LeastFrom(0) : \A t \in Times, x \in Lefts : f[t][x] = WaitingStep(f, t, x)
<1> DEFINE Good(k) == \E f \in LeastFrom(k) : \A t \in k .. Horizon, x \in Lefts :
                        f[t][x] = WaitingStep(f, t, x)
           Goods == {t \in 0 .. Horizon : Good(t)}
<1>1. Horizon \in Nat /\ Times = 0 .. Horizon /\ \A t \in 0 .. Horizon : t + 1 \in Times <=> t < Horizon
  BY HorizonIs
<1>2. Good(Horizon)
  <2> DEFINE f == [t \in Horizon .. Horizon |-> [x \in Lefts |-> 0]]
  <2>1. f \in LeastFrom(Horizon)
    BY DEF LeastFrom
  <2>2. ASSUME NEW t \in Horizon .. Horizon, NEW x \in Lefts
        PROVE  f[t][x] = WaitingStep(f, t, x)
    <3>1. t = Horizon /\ t \in 0 .. Horizon /\ ~ t < Horizon
      BY <1>1
    <3>2. f[t][x] = 0
      OBVIOUS
    <3>3. t + 1 \notin Times
      BY <1>1, <3>1
    <3> HIDE DEF f
    <3> QED
      BY <3>2, <3>3 DEF WaitingStep
  <2> HIDE DEF f
  <2> QED
    BY <2>1, <2>2
<1>3. ASSUME NEW t \in 0 .. Horizon - 1, Good(t + 1) PROVE Good(t)
  <2>1. t \in 0 .. Horizon /\ t < Horizon /\ t + 1 \in 0 .. Horizon /\ t + 1 \in t + 1 .. Horizon
    BY <1>1
  <2>2. PICK f \in LeastFrom(t + 1) : \A u \in t + 1 .. Horizon, x \in Lefts :
                        f[u][x] = WaitingStep(f, u, x)
    BY <1>3
  <2> DEFINE here == [x \in Lefts |-> WaitingStep(f, t, x)]
             g == [u \in t .. Horizon |-> IF u = t THEN here ELSE f[u]]
  <2>3. \A u \in t + 1 .. Horizon, x \in Lefts : f[u][x] \in Nat
    BY <2>2 DEF LeastFrom
  <2>4. \A x \in Lefts : WaitingStep(f, t, x) \in Nat
    <3> SUFFICES ASSUME NEW x \in Lefts PROVE WaitingStep(f, t, x) \in Nat
      OBVIOUS
    <3>1. \A y \in Lefts : f[t + 1][y] \in Nat
      BY <2>1, <2>3
    <3>2. t \in Times
      BY <1>1, <2>1
    <3> QED
      BY <3>1, <3>2, WaitingType
  <2>5. here \in [Lefts -> Nat]
    BY <2>4
  <2>6. \A u \in t .. Horizon, x \in Lefts :
          g[u][x] = IF u = t THEN WaitingStep(f, t, x) ELSE f[u][x]
    OBVIOUS
  <2>7. g \in LeastFrom(t)
    <3>1. \A u \in t .. Horizon : u # t => f[u] \in [Lefts -> Nat]
      <4>1. \A u \in t .. Horizon : u # t => u \in t + 1 .. Horizon
        BY <1>1, <2>1
      <4> QED
        BY <2>2, <4>1 DEF LeastFrom
    <3> HIDE DEF here
    <3> QED
      BY <2>5, <3>1 DEF LeastFrom
  <2>8. \A u \in t + 1 .. Horizon, x \in Lefts : g[u][x] = f[u][x]
    <3> HIDE DEF g
    <3>1. \A u \in t + 1 .. Horizon : u \in t .. Horizon /\ u # t
      BY <1>1, <2>1
    <3> QED
      BY <2>6, <3>1
  <2>9. ASSUME NEW u \in t .. Horizon, NEW x \in Lefts
        PROVE  WaitingStep(g, u, x) = WaitingStep(f, u, x)
    <3> HIDE DEF g
    <3>1. u \in 0 .. Horizon
      BY <1>1, <2>1
    <3>2. CASE u + 1 \notin Times
      BY <3>2 DEF WaitingStep
    <3>3. CASE u + 1 \in Times
      <4>1. u + 1 \in t + 1 .. Horizon
        BY <1>1, <2>1, <3>1, <3>3
      <4>2. \A y \in Lefts : g[u + 1][y] = f[u + 1][y]
        BY <2>8, <4>1
      <4>3. \A i \in ReadyAt(u, x) : LeftAfter(x, i) \in Lefts
        BY LeftAfterIs DEF ReadyAt
      <4>4. \A i \in ReadyAt(u, x) : g[u + 1][LeftAfter(x, i)] = f[u + 1][LeftAfter(x, i)]
        BY <4>2, <4>3
      <4>5. {g[u + 1][LeftAfter(x, i)] : i \in ReadyAt(u, x)} = {f[u + 1][LeftAfter(x, i)] : i \in ReadyAt(u, x)}
        BY <4>4
      <4> QED
        BY <4>2, <4>5 DEF WaitingStep
    <3> QED
      BY <3>2, <3>3
  <2>10. ASSUME NEW u \in t .. Horizon, NEW x \in Lefts
         PROVE  g[u][x] = WaitingStep(g, u, x)
    <3> HIDE DEF g
    <3>1. CASE u = t
      BY <2>6, <2>9, <3>1
    <3>2. CASE u # t
      <4>1. u \in t + 1 .. Horizon
        BY <1>1, <2>1, <3>2
      <4> QED
        BY <2>2, <2>8, <2>9, <4>1
    <3> QED
      BY <3>1, <3>2
  <2> HIDE DEF g
  <2> QED
    BY <2>7, <2>10
<1> HIDE DEF Good
<1>4. Horizon \in Goods /\ \A t \in 0 .. Horizon - 1 : t + 1 \in Goods => t \in Goods
  <2>1. \A t \in 0 .. Horizon - 1 : t \in 0 .. Horizon
    BY <1>1
  <2> QED
    BY <1>1, <1>2, <1>3, <2>1
<1>5. 0 \in Goods
  <2>1. 0 \in 0 .. Horizon
    BY <1>1
  <2> HIDE DEF Goods
  <2> QED
    BY <1>1, <1>4, <2>1, Backwards
<1> QED
  BY <1>1, <1>5 DEF Good

LEMMA WaitingIs ==
  ASSUME Drawn, NEW t \in Times, NEW x \in Lefts
  PROVE  LeastWaiting[t][x] \in Nat /\ LeastWaiting[t][x] = WaitingStep(LeastWaiting, t, x)
<1> DEFINE Body(f) == [u \in Times |-> [left \in Lefts |-> WaitingStep(f, u, left)]]
<1>1. LeastWaiting = CHOOSE f : f = Body(f)
  BY Zenon DEF LeastWaiting, WaitingStep, Lefts, ReadyAt, LeftAfter
<1>2. Horizon \in Nat /\ Times = 0 .. Horizon /\ \A u \in 0 .. Horizon : u + 1 \in Times <=> u < Horizon
  BY HorizonIs
<1>3. PICK f \in LeastFrom(0) : \A u \in Times, left \in Lefts : f[u][left] = WaitingStep(f, u, left)
  BY WaitingExists
<1>4. f = Body(f)
  <2>1. \A u \in Times : f[u] \in [Lefts -> Nat]
    BY <1>2, <1>3 DEF LeastFrom
  <2>2. \A u \in Times : f[u] = [left \in Lefts |-> WaitingStep(f, u, left)]
    BY <1>3, <2>1
  <2> QED
    BY <1>2, <1>3, <2>2 DEF LeastFrom
<1>5. LeastWaiting = Body(LeastWaiting)
  <2> HIDE DEF Body
  <2> QED
    BY <1>1, <1>4
<1>6. \A u \in Times, left \in Lefts : LeastWaiting[u][left] = WaitingStep(LeastWaiting, u, left)
  <2>1. ASSUME NEW h, h = Body(h)
        PROVE  \A u \in Times, left \in Lefts : h[u][left] = WaitingStep(h, u, left)
    <3>1. DOMAIN h = Times
      BY <2>1
    <3>2. \A u \in Times : h[u] = [left \in Lefts |-> WaitingStep(h, u, left)]
      BY <2>1, Zenon
    <3> QED
      BY <3>2
  <2> HIDE DEF Body
  <2> QED
    BY <1>5, <2>1
<1>7. \A u \in Times : \A left \in Lefts : LeastWaiting[u][left] \in Nat
  <2> DEFINE S == {u \in Times : \A left \in Lefts : LeastWaiting[u][left] \in Nat}
  <2>1. Horizon \in S
    <3>1. Horizon \in Times /\ Horizon + 1 \notin Times
      BY <1>2
    <3>2. \A left \in Lefts : LeastWaiting[Horizon][left] = 0
      BY <1>6, <3>1 DEF WaitingStep
    <3> QED
      BY <3>1, <3>2
  <2>2. ASSUME NEW u \in 0 .. Horizon - 1, u + 1 \in S PROVE u \in S
    <3>1. u \in Times
      BY <1>2
    <3>2. \A left \in Lefts : WaitingStep(LeastWaiting, u, left) \in Nat
      BY <2>2, <3>1, WaitingType
    <3> QED
      BY <1>6, <3>1, <3>2
  <2>3. \A u \in 0 .. Horizon : u \in S
    <3> HIDE DEF S
    <3> QED
      BY <1>2, <2>1, <2>2, Backwards
  <2> QED
    BY <1>2, <2>3
<1> QED
  BY <1>6, <1>7

LEMMA WaitingCases ==
  ASSUME Drawn, NEW t \in Times, t + 1 \in Times, NEW x \in Lefts
  PROVE  /\ ReadyAt(t, x) = {} => LeastWaiting[t][x] = LeastWaiting[t + 1][x]
         /\ ReadyAt(t, x) # {} =>
              /\ \A i \in ReadyAt(t, x) :
                   LeastWaiting[t][x] <= Cardinality(ReadyAt(t, x)) - 1 + LeastWaiting[t + 1][LeftAfter(x, i)]
              /\ \E i \in ReadyAt(t, x) :
                   LeastWaiting[t][x] = Cardinality(ReadyAt(t, x)) - 1 + LeastWaiting[t + 1][LeftAfter(x, i)]
<1>1. LeastWaiting[t][x] = WaitingStep(LeastWaiting, t, x)
  BY WaitingIs
<1>2. \A y \in Lefts : LeastWaiting[t + 1][y] \in Nat
  BY WaitingIs
<1>3. CASE ReadyAt(t, x) = {}
  BY <1>1, <1>3 DEF WaitingStep
<1>4. CASE ReadyAt(t, x) # {}
  <2> DEFINE g == LeastWaiting[t + 1]
  <2>1. PICK m : m = Min({g[LeftAfter(x, i)] : i \in ReadyAt(t, x)})
    OBVIOUS
  <2>2. PICK n : n = Cardinality(ReadyAt(t, x)) - 1
    OBVIOUS
  <2>3. LeastWaiting[t][x] = n + m
    BY <1>1, <1>4, <2>1, <2>2 DEF WaitingStep
  <2>4. n \in Nat
    BY <1>4, <2>2, ReadyCount
  <2> HIDE DEF g
  <2>5. /\ m \in Nat
        /\ \A i \in ReadyAt(t, x) : m <= g[LeftAfter(x, i)]
        /\ \E i \in ReadyAt(t, x) : m = g[LeftAfter(x, i)]
    <3>1. \A y \in Lefts : g[y] \in Nat
      BY <1>2 DEF g
    <3> QED
      BY <1>4, <2>1, <3>1, LeastChoice
  <2>6. \A i \in ReadyAt(t, x) : g[LeftAfter(x, i)] \in Nat
    <3>1. \A i \in ReadyAt(t, x) : LeftAfter(x, i) \in Lefts
      BY LeftAfterIs DEF ReadyAt
    <3> QED
      BY <1>2, <3>1 DEF g
  <2>7. \A i \in ReadyAt(t, x) : n + m <= n + g[LeftAfter(x, i)]
    <3> TAKE i \in ReadyAt(t, x)
    <3>1. PICK b : b = g[LeftAfter(x, i)]
      OBVIOUS
    <3>2. b \in Nat /\ m <= b
      BY <2>5, <2>6, <3>1
    <3>3. n + m <= n + b
      BY <2>4, <2>5, <3>2
    <3> QED
      BY <3>1, <3>3
  <2>8. \E i \in ReadyAt(t, x) : n + m = n + g[LeftAfter(x, i)]
    BY <2>5
  <2> QED
    BY <1>4, <2>2, <2>3, <2>7, <2>8 DEF g
<1> QED
  BY <1>3, <1>4

-----------------------------------------------------------------------------
(* Less work left.                                                           *)

\* The units of work that are left to the threads that have arrived, counted up
\* to the c-th of each thread.
Below(t, x, c) ==
  {p \in Ids \X (1 .. MaxBurst) : arrival[p[1]] <= t /\ p[2] <= c /\ p[2] <= x[p[1]]}

\* With x there is no more left than with y, however the counting is capped: of
\* the threads that have arrived, for the others have the same left.
Lighter(t, x, y) ==
  /\ \A i \in Ids : arrival[i] > t => x[i] = y[i]
  /\ \A c \in Nat : Cardinality(Below(t, x, c)) <= Cardinality(Below(t, y, c))

LEMMA BelowFinite ==
  ASSUME Drawn, NEW t, NEW x, NEW c
  PROVE  IsFiniteSet(Below(t, x, c)) /\ Cardinality(Below(t, x, c)) \in Nat
<1>1. IsFiniteSet(1 .. MaxBurst)
  BY FS_Interval
<1>2. IsFiniteSet(Ids \X (1 .. MaxBurst))
  BY <1>1, FS_Product DEF Drawn
<1>3. Below(t, x, c) \subseteq Ids \X (1 .. MaxBurst)
  BY DEF Below
<1> QED
  BY <1>2, <1>3, FS_Subset, FS_CardinalityType

\* Time brings the same threads to both.
LEMMA LighterLater ==
  ASSUME Drawn, NEW t \in Nat, NEW x \in Lefts, NEW y \in Lefts, Lighter(t, x, y)
  PROVE  Lighter(t + 1, x, y)
<1>1. \A i \in Ids : arrival[i] \in Nat
  BY DEF Drawn
<1>2. ASSUME NEW i \in Ids, arrival[i] > t + 1 PROVE x[i] = y[i]
  BY <1>1, <1>2 DEF Lighter
<1>3. ASSUME NEW c \in Nat
      PROVE  Cardinality(Below(t + 1, x, c)) <= Cardinality(Below(t + 1, y, c))
  <2> DEFINE Came(z) == {p \in Ids \X (1 .. MaxBurst) : arrival[p[1]] = t + 1 /\ p[2] <= c /\ p[2] <= z[p[1]]}
  <2>1. Came(x) = Came(y)
    BY <1>1 DEF Lighter
  <2>2. ASSUME NEW z \in Lefts
        PROVE  /\ Cardinality(Below(t + 1, z, c)) = Cardinality(Below(t, z, c)) + Cardinality(Came(z))
               /\ Cardinality(Came(z)) \in Nat
    <3>1. ASSUME NEW k \in Ids, NEW u \in 1 .. MaxBurst
          PROVE  <<k, u>> \in Below(t + 1, z, c) <=> <<k, u>> \in Below(t, z, c) \cup Came(z)
      <4>1. arrival[k] <= t + 1 <=> arrival[k] <= t \/ arrival[k] = t + 1
        BY <1>1
      <4> QED
        BY <4>1 DEF Below
    <3>2. /\ Below(t + 1, z, c) \subseteq Ids \X (1 .. MaxBurst)
          /\ Below(t, z, c) \subseteq Ids \X (1 .. MaxBurst)
          /\ Came(z) \subseteq Ids \X (1 .. MaxBurst)
      BY DEF Below
    <3>3. Below(t, z, c) \cap Came(z) = {}
      <4>1. \A p \in Below(t, z, c) : p[1] \in Ids /\ arrival[p[1]] <= t
        BY DEF Below
      <4>2. \A p \in Came(z) : arrival[p[1]] = t + 1
        OBVIOUS
      <4> HIDE DEF Came
      <4>3. \A n \in Nat : ~ (n <= t /\ n = t + 1)
        OBVIOUS
      <4> QED
        BY <1>1, <4>1, <4>2, <4>3
    <3>4. IsFiniteSet(Came(z)) /\ Cardinality(Came(z)) \in Nat
      <4>1. Came(z) \subseteq Below(t + 1, z, c)
        BY <3>1, <3>2
      <4> HIDE DEF Came
      <4> QED
        BY <4>1, BelowFinite, FS_Subset, FS_CardinalityType
    <3> HIDE DEF Came
    <3>5. Below(t + 1, z, c) = Below(t, z, c) \cup Came(z)
      BY <3>1, <3>2
    <3>6. /\ Cardinality(Below(t, z, c) \cup Came(z))
               = Cardinality(Below(t, z, c)) + Cardinality(Came(z)) - Cardinality(Below(t, z, c) \cap Came(z))
          /\ Cardinality(Below(t, z, c) \cap Came(z)) = 0
      BY <3>3, <3>4, BelowFinite, FS_Union, FS_EmptySet
    <3>7. PICK a, b : a = Cardinality(Came(z)) /\ b = Cardinality(Below(t, z, c))
      OBVIOUS
    <3>8. a \in Nat /\ b \in Nat /\ Cardinality(Below(t + 1, z, c)) = b + a - 0
      BY <3>4, <3>5, <3>6, <3>7, BelowFinite
    <3>9. Cardinality(Below(t + 1, z, c)) = b + a
      BY <3>8
    <3> QED
      BY <3>7, <3>8, <3>9
  <2>3. PICK new : new = Cardinality(Came(x))
    OBVIOUS
  <2>4. new = Cardinality(Came(y))
    BY <2>1, <2>3
  <2> HIDE DEF Came
  <2>5. /\ Cardinality(Below(t + 1, x, c)) = Cardinality(Below(t, x, c)) + new
        /\ Cardinality(Below(t + 1, y, c)) = Cardinality(Below(t, y, c)) + new
        /\ new \in Nat
    BY <2>2, <2>3, <2>4
  <2>6. Cardinality(Below(t, x, c)) <= Cardinality(Below(t, y, c))
    BY DEF Lighter
  <2> QED
    BY <2>5, <2>6, BelowFinite
<1> QED
  BY <1>2, <1>3 DEF Lighter

\* Where each thread that has work left has s units or more, those up to the
\* c-th are c of each.
LEMMA BelowAll ==
  ASSUME Drawn, NEW t, NEW x \in Lefts, NEW s \in Nat, NEW c \in 0 .. s,
         \A k \in ReadyAt(t, x) : s <= x[k]
  PROVE  Cardinality(Below(t, x, c)) = Cardinality(ReadyAt(t, x)) * c
<1>1. \A k \in Ids : x[k] \in 0 .. MaxBurst
  BY DEF Lefts
<1>2. ASSUME NEW p \in Below(t, x, c) PROVE p \in ReadyAt(t, x) \X (1 .. c)
  <2>1. /\ p \in Ids \X (1 .. MaxBurst) /\ arrival[p[1]] <= t /\ p[2] <= c /\ p[2] <= x[p[1]]
    BY <1>2 DEF Below
  <2>2. x[p[1]] \in Int /\ p[2] \in 1 .. MaxBurst
    BY <1>1, <2>1
  <2>3. x[p[1]] > 0 /\ p[2] \in 1 .. c
    BY <2>1, <2>2
  <2> QED
    BY <2>1, <2>3 DEF ReadyAt
<1>3. ASSUME NEW k \in ReadyAt(t, x), NEW u \in 1 .. c PROVE <<k, u>> \in Below(t, x, c)
  <2>1. k \in Ids /\ arrival[k] <= t /\ s <= x[k] /\ x[k] \in 0 .. MaxBurst
    BY <1>1, <1>3 DEF ReadyAt
  <2>2. u <= c /\ u <= x[k] /\ u \in 1 .. MaxBurst
    BY <2>1
  <2> QED
    BY <2>1, <2>2 DEF Below
<1>4. Below(t, x, c) = ReadyAt(t, x) \X (1 .. c)
  BY <1>2, <1>3
<1>5. IsFiniteSet(1 .. c) /\ Cardinality(1 .. c) = c
  BY FS_Interval
<1>6. Cardinality(ReadyAt(t, x) \X (1 .. c)) = Cardinality(ReadyAt(t, x)) * Cardinality(1 .. c)
  BY <1>5, ReadyCount, FS_Product
<1> QED
  BY <1>4, <1>5, <1>6

\* A unit that i runs is its last one.
LEMMA BelowAfter ==
  ASSUME Drawn, NEW t, NEW x \in Lefts, NEW i \in ReadyAt(t, x), NEW c \in Nat
  PROVE  Cardinality(Below(t, LeftAfter(x, i), c))
           = IF x[i] <= c THEN Cardinality(Below(t, x, c)) - 1 ELSE Cardinality(Below(t, x, c))
<1>1. i \in Ids /\ x[i] > 0 /\ arrival[i] <= t /\ x[i] \in 1 .. MaxBurst
  BY DEF ReadyAt, Lefts
<1>2. \A k \in Ids : LeftAfter(x, i)[k] = IF k = i THEN x[i] - 1 ELSE x[k]
  BY <1>1, LeftAfterIs
<1>3. ASSUME NEW k \in Ids, NEW u \in 1 .. MaxBurst
      PROVE  <<k, u>> \in Below(t, LeftAfter(x, i), c) <=> <<k, u>> \in Below(t, x, c) \ {<<i, x[i]>>}
  <2>1. <<k, u>> \in Below(t, LeftAfter(x, i), c) <=> arrival[k] <= t /\ u <= c /\ u <= LeftAfter(x, i)[k]
    BY DEF Below
  <2>2. <<k, u>> \in Below(t, x, c) <=> arrival[k] <= t /\ u <= c /\ u <= x[k]
    BY DEF Below
  <2>3. CASE k = i
    <3>1. u <= x[i] - 1 <=> u <= x[i] /\ u # x[i]
      BY <1>1
    <3> QED
      BY <1>2, <2>1, <2>2, <2>3, <3>1
  <2>4. CASE k # i
    BY <1>2, <2>1, <2>2, <2>4
  <2> QED
    BY <2>3, <2>4
<1>4. /\ Below(t, LeftAfter(x, i), c) \subseteq Ids \X (1 .. MaxBurst)
      /\ Below(t, x, c) \subseteq Ids \X (1 .. MaxBurst)
  BY DEF Below
<1>5. Below(t, LeftAfter(x, i), c) = Below(t, x, c) \ {<<i, x[i]>>}
  BY <1>3, <1>4
<1>6. <<i, x[i]>> \in Below(t, x, c) <=> x[i] <= c
  BY <1>1 DEF Below
<1>7. CASE x[i] <= c
  <2>1. PICK B : B = Below(t, x, c)
    OBVIOUS
  <2>2. PICK p : p = <<i, x[i]>>
    OBVIOUS
  <2>3. IsFiniteSet(B) /\ p \in B
    BY <1>6, <1>7, <2>1, <2>2, BelowFinite
  <2>4. Cardinality(B \ {p}) = Cardinality(B) - 1
    BY <2>3, FS_RemoveElement
  <2> QED
    BY <1>5, <1>7, <2>1, <2>2, <2>4
<1>8. CASE ~ x[i] <= c
  <2>1. Below(t, x, c) \ {<<i, x[i]>>} = Below(t, x, c)
    BY <1>6, <1>8
  <2> QED
    BY <1>5, <1>8, <2>1
<1> QED
  BY <1>7, <1>8

\* Where j has no more than c units left, those up to the c-th are more than
\* their share of those up to the s-th: the (k, u, w) with u up to s and w up to
\* c fit in those with u up to c and w up to s, and (j, 1, s) is left over.
LEMMA BelowShare ==
  ASSUME Drawn, NEW t, NEW y \in Lefts, NEW j \in ReadyAt(t, y),
         NEW c \in Nat, NEW s \in Nat, y[j] <= c, c < s
  PROVE  Cardinality(Below(t, y, s)) * c < Cardinality(Below(t, y, c)) * s
<1> DEFINE A == Below(t, y, s) \X (1 .. c)
           B == Below(t, y, c) \X (1 .. s)
           e == <<<<j, 1>>, s>>
           F(p, w) == IF p[2] <= c THEN <<p, w>> ELSE <<<<p[1], w>>, p[2]>>
           f == [a \in A |-> F(a[1], a[2])]
<1>1. \A k \in Ids : y[k] \in 0 .. MaxBurst
  BY DEF Lefts
<1>2. ASSUME NEW p \in Below(t, y, s), NEW w \in 1 .. c
      PROVE  F(p, w) \in B \ {e}
  <2>1. /\ p = <<p[1], p[2]>> /\ p[1] \in Ids /\ p[2] \in 1 .. MaxBurst
        /\ arrival[p[1]] <= t /\ p[2] <= s /\ p[2] <= y[p[1]]
    BY DEF Below
  <2>2. y[p[1]] \in 0 .. MaxBurst
    BY <1>1, <2>1
  <2>3. CASE p[2] <= c
    <3>1. p \in Below(t, y, c) /\ w \in 1 .. s /\ w # s
      BY <2>1, <2>3 DEF Below
    <3> QED
      BY <2>3, <3>1
  <2>4. CASE p[2] > c
    <3>1. w \in 1 .. MaxBurst /\ w <= c /\ w <= y[p[1]] /\ p[2] \in 1 .. s /\ y[p[1]] > c
      BY <2>1, <2>2, <2>4
    <3>2. <<p[1], w>> \in Below(t, y, c)
      BY <2>1, <3>1 DEF Below
    <3>3. p[1] # j
      BY <3>1, <2>2
    <3>4. F(p, w) = <<<<p[1], w>>, p[2]>>
      BY <2>1, <2>4
    <3> HIDE DEF F
    <3> QED
      BY <3>1, <3>2, <3>3, <3>4
  <2> QED
    BY <2>1, <2>3, <2>4
<1>3. ASSUME NEW p \in Below(t, y, s), NEW w \in 1 .. c, NEW r \in Below(t, y, s), NEW v \in 1 .. c,
             F(p, w) = F(r, v)
      PROVE  p = r /\ w = v
  <2>1. /\ p = <<p[1], p[2]>> /\ p[2] \in 1 .. MaxBurst
        /\ r = <<r[1], r[2]>> /\ r[2] \in 1 .. MaxBurst
    BY DEF Below
  <2>2. /\ p[2] <= c => F(p, w)[1] = p /\ F(p, w)[2] = w
        /\ ~ p[2] <= c => F(p, w)[1] = <<p[1], w>> /\ F(p, w)[2] = p[2]
    OBVIOUS
  <2>3. /\ r[2] <= c => F(r, v)[1] = r /\ F(r, v)[2] = v
        /\ ~ r[2] <= c => F(r, v)[1] = <<r[1], v>> /\ F(r, v)[2] = r[2]
    OBVIOUS
  <2>4. w <= c /\ v <= c
    OBVIOUS
  <2> HIDE DEF F
  <2>5. CASE p[2] <= c /\ r[2] <= c
    BY <1>3, <2>2, <2>3, <2>5
  <2>6. CASE ~ p[2] <= c /\ ~ r[2] <= c
    BY <1>3, <2>1, <2>2, <2>3, <2>6
  <2>7. CASE p[2] <= c /\ ~ r[2] <= c
    BY <1>3, <2>2, <2>3, <2>4, <2>7
  <2>8. CASE ~ p[2] <= c /\ r[2] <= c
    BY <1>3, <2>2, <2>3, <2>4, <2>8
  <2> QED
    BY <2>5, <2>6, <2>7, <2>8
<1>4. /\ IsFiniteSet(1 .. c) /\ Cardinality(1 .. c) = c
      /\ IsFiniteSet(1 .. s) /\ Cardinality(1 .. s) = s
  BY FS_Interval
<1>5. /\ IsFiniteSet(A) /\ Cardinality(A) = Cardinality(Below(t, y, s)) * c
      /\ IsFiniteSet(B) /\ Cardinality(B) = Cardinality(Below(t, y, c)) * s
  BY <1>4, BelowFinite, FS_Product
<1>6. e \in B
  <2>1. j \in Ids /\ arrival[j] <= t /\ y[j] > 0 /\ y[j] \in 0 .. MaxBurst
    BY <1>1 DEF ReadyAt
  <2>2. 1 \in 1 .. MaxBurst /\ 1 <= c /\ 1 <= y[j] /\ s \in 1 .. s
    BY <2>1
  <2> QED
    BY <2>1, <2>2 DEF Below
<1>7. f \in Injection(A, B \ {e})
  <2>1. \A a \in A : a[1] \in Below(t, y, s) /\ a[2] \in 1 .. c /\ a = <<a[1], a[2]>>
    OBVIOUS
  <2> HIDE DEF A, B, e, F
  <2>2. f \in [A -> B \ {e}]
    BY <1>2, <2>1
  <2>3. ASSUME NEW a \in A, NEW b \in A, f[a] = f[b] PROVE a = b
    <3>1. F(a[1], a[2]) = F(b[1], b[2])
      BY <2>3
    <3>2. a[1] = b[1] /\ a[2] = b[2]
      BY <1>3, <2>1, <3>1
    <3> QED
      BY <2>1, <3>2
  <2> HIDE DEF f
  <2> QED
    BY <2>2, <2>3 DEF Injection, IsInjective
<1> HIDE DEF A, B, e, f
<1>8. IsFiniteSet(B \ {e}) /\ Cardinality(B \ {e}) = Cardinality(B) - 1
  BY <1>5, <1>6, FS_RemoveElement
<1>9. Cardinality(A) <= Cardinality(B \ {e})
  BY <1>7, <1>8, FS_Injection
<1>10. Cardinality(A) \in Nat /\ Cardinality(B) \in Nat
  BY <1>5, FS_CardinalityType
<1>11. Cardinality(A) < Cardinality(B)
  BY <1>8, <1>9, <1>10
<1> QED
  BY <1>5, <1>11

LEMMA TimesMore ==
  \A a, b, c \in Nat : a <= b => a * c <= b * c
OBVIOUS

LEMMA ShareLess ==
  ASSUME NEW n \in Nat, NEW c \in Nat, NEW s \in Nat, NEW b \in Nat, NEW B \in Nat,
         n * s <= B, B * c < b * s
  PROVE  n * c < b
<1>1. SUFFICES ASSUME b <= n * c PROVE FALSE
  <2>1. PICK m : m = n * c
    OBVIOUS
  <2>2. m \in Nat
    BY <2>1
  <2> QED
    BY <1>1, <2>1, <2>2
<1>2. b * s <= (n * c) * s
  <2>1. PICK m : m = n * c
    OBVIOUS
  <2>2. m \in Nat /\ b <= m
    BY <1>1, <2>1
  <2> QED
    BY <2>1, <2>2, TimesMore
<1>3. (n * s) * c <= B * c
  <2>1. PICK m : m = n * s
    OBVIOUS
  <2>2. m \in Nat /\ m <= B
    BY <2>1
  <2> QED
    BY <2>1, <2>2, TimesMore
<1>4. (n * c) * s = (n * s) * c
  OBVIOUS
<1>5. PICK u, v, w : u = b * s /\ v = B * c /\ w = (n * s) * c
  OBVIOUS
<1>6. u \in Nat /\ v \in Nat /\ w \in Nat
  <2>1. \A k, m \in Nat : k * m \in Nat
    OBVIOUS
  <2>2. n * s \in Nat
    BY <2>1
  <2> QED
    BY <1>5, <2>1, <2>2
<1>7. u <= w /\ w <= v /\ v < u
  BY <1>2, <1>3, <1>4, <1>5
<1> QED
  BY <1>6, <1>7

\* The shortest of x on one side and any thread of y on the other leave it so.
LEMMA LighterRun ==
  ASSUME Drawn, NEW t \in Nat, NEW x \in Lefts, NEW y \in Lefts, Lighter(t, x, y),
         NEW i \in ReadyAt(t, x), \A k \in ReadyAt(t, x) : x[i] <= x[k],
         NEW j \in ReadyAt(t, y)
  PROVE  Lighter(t, LeftAfter(x, i), LeftAfter(y, j))
<1>1. /\ i \in Ids /\ x[i] > 0 /\ arrival[i] <= t /\ x[i] \in 0 .. MaxBurst
      /\ j \in Ids /\ y[j] > 0 /\ arrival[j] <= t /\ y[j] \in 0 .. MaxBurst
  BY DEF ReadyAt, Lefts
<1>2. ASSUME NEW k \in Ids, arrival[k] > t PROVE LeftAfter(x, i)[k] = LeftAfter(y, j)[k]
  <2>1. k # i /\ k # j
    <3>1. \A n \in Nat : n <= t => ~ n > t
      OBVIOUS
    <3> QED
      BY <1>1, <1>2, <3>1 DEF Drawn
  <2> QED
    BY <1>1, <1>2, <2>1, LeftAfterIs DEF Lighter
<1>3. ASSUME NEW c \in Nat
      PROVE  Cardinality(Below(t, LeftAfter(x, i), c)) <= Cardinality(Below(t, LeftAfter(y, j), c))
  <2>1. PICK a, b : a = Cardinality(Below(t, x, c)) /\ b = Cardinality(Below(t, y, c))
    OBVIOUS
  <2>2. a \in Nat /\ b \in Nat /\ a <= b
    BY <2>1, BelowFinite DEF Lighter
  <2>3. PICK r, s : r = y[j] /\ s = x[i]
    OBVIOUS
  <2>4. r \in Nat /\ s \in Nat
    BY <1>1, <2>3
  <2>5. /\ Cardinality(Below(t, LeftAfter(x, i), c)) = IF s <= c THEN a - 1 ELSE a
        /\ Cardinality(Below(t, LeftAfter(y, j), c)) = IF r <= c THEN b - 1 ELSE b
    BY <2>1, <2>3, BelowAfter
  <2>6. ASSUME c < s, r <= c PROVE a < b
    <3>1. PICK n, B : n = Cardinality(ReadyAt(t, x)) /\ B = Cardinality(Below(t, y, s))
      OBVIOUS
    <3>2. n \in Nat /\ B \in Nat
      BY <3>1, ReadyCount, BelowFinite
    <3>3. a = n * c /\ Cardinality(Below(t, x, s)) = n * s
      <4>1. c \in 0 .. s /\ s \in 0 .. s
        BY <2>4, <2>6
      <4> QED
        BY <2>1, <2>3, <2>4, <3>1, <4>1, BelowAll
    <3>4. n * s <= B
      BY <2>4, <3>1, <3>3 DEF Lighter
    <3>5. B * c < b * s
      BY <2>1, <2>3, <2>4, <2>6, <3>1, BelowShare
    <3> QED
      BY <2>2, <2>4, <3>2, <3>3, <3>4, <3>5, ShareLess
  <2> QED
    BY <2>2, <2>4, <2>5, <2>6
<1> QED
  BY <1>2, <1>3 DEF Lighter

LEMMA ReadyBelow ==
  ASSUME Drawn, NEW t, NEW x \in Lefts
  PROVE  Cardinality(ReadyAt(t, x)) = Cardinality(Below(t, x, 1))
<1>1. \A k \in ReadyAt(t, x) : 1 <= x[k]
  BY DEF ReadyAt, Lefts
<1>2. Cardinality(Below(t, x, 1)) = Cardinality(ReadyAt(t, x)) * 1
  BY <1>1, BelowAll
<1> QED
  BY <1>2, ReadyCount

\* With nothing to run there is less left than with anything.
LEMMA LighterIdle ==
  ASSUME Drawn, NEW t \in Nat, NEW x \in Lefts, NEW y \in Lefts, Lighter(t, x, y),
         ReadyAt(t, x) = {}, NEW j \in ReadyAt(t, y)
  PROVE  Lighter(t, x, LeftAfter(y, j))
<1>1. ASSUME NEW c \in Nat
      PROVE  Cardinality(Below(t, x, c)) <= Cardinality(Below(t, LeftAfter(y, j), c))
  <2>1. Cardinality(Below(t, x, c)) = Cardinality(ReadyAt(t, x)) * c
    <3>1. c \in 0 .. c
      OBVIOUS
    <3> QED
      BY <3>1, BelowAll
  <2>2. Cardinality(ReadyAt(t, x)) = 0
    BY ReadyCount
  <2>3. Cardinality(Below(t, x, c)) = 0
    BY <2>1, <2>2
  <2> QED
    BY <2>3, BelowFinite
<1>2. ASSUME NEW k \in Ids, arrival[k] > t PROVE x[k] = LeftAfter(y, j)[k]
  <2>1. j \in Ids /\ y[j] > 0 /\ arrival[j] <= t
    BY DEF ReadyAt
  <2>2. k # j
    <3>1. \A n \in Nat : n <= t => ~ n > t
      OBVIOUS
    <3> QED
      BY <1>2, <2>1, <3>1 DEF Drawn
  <2> QED
    BY <1>2, <2>1, <2>2, LeftAfterIs DEF Lighter
<1> QED
  BY <1>1, <1>2 DEF Lighter

LEMMA ShortestIs ==
  ASSUME Drawn, NEW t, NEW x \in Lefts, ReadyAt(t, x) # {}
  PROVE  \E i \in ReadyAt(t, x) : \A k \in ReadyAt(t, x) : x[i] <= x[k]
<1>1. Keyed(ReadyAt(t, x), x)
  <2>1. ReadyAt(t, x) \subseteq Ids
    BY DEF ReadyAt
  <2>2. \A i \in Ids : x[i] \in Nat
    BY DEF Lefts
  <2> QED
    BY <2>1, <2>2 DEF Keyed, Drawn
<1> QED
  BY <1>1, FirstByLeast

\* Who has less left waits less in all.
LEMMA LighterWaits ==
  ASSUME Drawn
  PROVE  \A t \in Times : \A x, y \in Lefts :
            Lighter(t, x, y) => LeastWaiting[t][x] <= LeastWaiting[t][y]
<1> DEFINE S == {t \in Times : \A x, y \in Lefts :
                   Lighter(t, x, y) => LeastWaiting[t][x] <= LeastWaiting[t][y]}
<1>1. Horizon \in Nat /\ Times = 0 .. Horizon /\ \A t \in 0 .. Horizon : t \in Nat /\ (t + 1 \in Times <=> t < Horizon)
  BY HorizonIs
<1>2. Horizon \in S
  <2>1. Horizon \in Times /\ Horizon + 1 \notin Times
    BY <1>1
  <2>2. \A x \in Lefts : LeastWaiting[Horizon][x] = 0
    BY <2>1, WaitingIs DEF WaitingStep
  <2>3. \A x, y \in Lefts : LeastWaiting[Horizon][x] <= LeastWaiting[Horizon][y]
    BY <2>2
  <2> QED
    BY <2>1, <2>3
<1>3. ASSUME NEW t \in 0 .. Horizon - 1, t + 1 \in S PROVE t \in S
  <2>1. t \in Times /\ t \in Nat /\ t + 1 \in Times
    BY <1>1
  <2>2. SUFFICES ASSUME NEW x \in Lefts, NEW y \in Lefts, Lighter(t, x, y)
                 PROVE  LeastWaiting[t][x] <= LeastWaiting[t][y]
    BY <2>1
  <2>3. \A u, v \in Lefts : Lighter(t, u, v) => LeastWaiting[t + 1][u] <= LeastWaiting[t + 1][v]
    BY <1>3, <2>1, LighterLater
  <2> HIDE DEF S
  <2>4. PICK n, m : n = Cardinality(ReadyAt(t, x)) /\ m = Cardinality(ReadyAt(t, y))
    OBVIOUS
  <2>5. /\ n \in Nat /\ m \in Nat /\ n <= m
        /\ ReadyAt(t, x) = {} => n = 0
        /\ ReadyAt(t, x) # {} => n - 1 \in Nat
        /\ ReadyAt(t, y) = {} => m = 0
        /\ ReadyAt(t, y) # {} => m - 1 \in Nat
    <3>1. n <= m
      BY <2>2, <2>4, ReadyBelow DEF Lighter
    <3> QED
      BY <2>4, <3>1, ReadyCount
  <2>6. \A u \in Lefts : LeastWaiting[t + 1][u] \in Nat
    BY <2>1, WaitingIs
  <2>7. CASE ReadyAt(t, y) = {}
    <3>1. ReadyAt(t, x) = {}
      BY <2>5, <2>7
    <3> QED
      BY <2>1, <2>2, <2>3, <2>7, <3>1, WaitingCases
  <2>8. CASE ReadyAt(t, y) # {}
    <3>1. PICK j \in ReadyAt(t, y) : LeastWaiting[t][y] = m - 1 + LeastWaiting[t + 1][LeftAfter(y, j)]
      BY <2>1, <2>4, <2>8, WaitingCases
    <3>2. LeftAfter(y, j) \in Lefts
      BY LeftAfterIs DEF ReadyAt
    <3>3. PICK v : v = LeastWaiting[t + 1][LeftAfter(y, j)]
      OBVIOUS
    <3>4. v \in Nat /\ LeastWaiting[t][y] = m - 1 + v
      BY <2>6, <3>1, <3>2, <3>3
    <3>5. CASE ReadyAt(t, x) = {}
      <4>1. LeastWaiting[t][x] = LeastWaiting[t + 1][x]
        BY <2>1, <3>5, WaitingCases
      <4>2. LeastWaiting[t + 1][x] <= v /\ LeastWaiting[t + 1][x] \in Nat
        BY <2>1, <2>2, <2>3, <2>6, <3>2, <3>3, <3>5, LighterIdle
      <4> QED
        BY <2>5, <2>8, <3>4, <4>1, <4>2
    <3>6. CASE ReadyAt(t, x) # {}
      <4>1. PICK i \in ReadyAt(t, x) : \A k \in ReadyAt(t, x) : x[i] <= x[k]
        BY <3>6, ShortestIs
      <4>2. LeftAfter(x, i) \in Lefts
        BY LeftAfterIs DEF ReadyAt
      <4>3. PICK u : u = LeastWaiting[t + 1][LeftAfter(x, i)]
        OBVIOUS
      <4>4. u \in Nat /\ u <= v
        <5>1. Lighter(t, LeftAfter(x, i), LeftAfter(y, j))
          BY <2>1, <2>2, <4>1, LighterRun
        <5> QED
          BY <2>3, <2>6, <3>2, <3>3, <4>2, <4>3, <5>1
      <4>5. LeastWaiting[t][x] <= n - 1 + u
        BY <2>1, <2>4, <3>6, <4>3, WaitingCases
      <4>6. PICK w : w = LeastWaiting[t][x]
        OBVIOUS
      <4>7. w \in Nat
        BY <2>1, <4>6, WaitingIs
      <4>8. w <= m - 1 + v
        BY <2>5, <2>8, <3>4, <3>6, <4>4, <4>5, <4>6, <4>7
      <4> QED
        BY <3>4, <4>6, <4>8
    <3> QED
      BY <3>5, <3>6
  <2> QED
    BY <2>7, <2>8
<1>4. \A t \in 0 .. Horizon : t \in S
  <2> HIDE DEF S
  <2> QED
    BY <1>1, <1>2, <1>3, Backwards
<1> QED
  BY <1>1, <1>4

\* So the thread with the least left is the one to run.
LEMMA ShortestBest ==
  ASSUME Drawn, NEW t \in Times, t + 1 \in Times, NEW x \in Lefts,
         NEW i \in ReadyAt(t, x), \A k \in ReadyAt(t, x) : x[i] <= x[k]
  PROVE  LeastWaiting[t][x] = Cardinality(ReadyAt(t, x)) - 1 + LeastWaiting[t + 1][LeftAfter(x, i)]
<1>1. PICK n, w : n = Cardinality(ReadyAt(t, x)) /\ w = LeastWaiting[t][x]
  OBVIOUS
<1>2. n - 1 \in Nat /\ n \in Nat /\ w \in Nat
  BY <1>1, ReadyCount, WaitingIs
<1>3. PICK j \in ReadyAt(t, x) : w = n - 1 + LeastWaiting[t + 1][LeftAfter(x, j)]
  BY <1>1, WaitingCases
<1>4. LeftAfter(x, i) \in Lefts /\ LeftAfter(x, j) \in Lefts
  BY LeftAfterIs DEF ReadyAt
<1>5. PICK u, v : u = LeastWaiting[t + 1][LeftAfter(x, i)] /\ v = LeastWaiting[t + 1][LeftAfter(x, j)]
  OBVIOUS
<1>6. u \in Nat /\ v \in Nat
  BY <1>4, <1>5, WaitingIs
<1>7. u <= v
  <2>1. t \in Nat
    BY HorizonIs
  <2>2. Lighter(t, x, x)
    <3>1. \A c \in Nat : Cardinality(Below(t, x, c)) <= Cardinality(Below(t, x, c))
      BY BelowFinite
    <3> QED
      BY <3>1 DEF Lighter
  <2>3. Lighter(t, LeftAfter(x, i), LeftAfter(x, j))
    BY <2>1, <2>2, LighterRun
  <2>4. Lighter(t + 1, LeftAfter(x, i), LeftAfter(x, j))
    BY <1>4, <2>1, <2>3, LighterLater
  <2> QED
    BY <1>4, <1>5, <2>4, LighterWaits
<1>8. w <= n - 1 + u
  BY <1>1, <1>5, WaitingCases
<1>9. w = n - 1 + v
  BY <1>3, <1>5
<1>10. w = n - 1 + u
  BY <1>2, <1>6, <1>7, <1>8, <1>9
<1> QED
  BY <1>1, <1>5, <1>10

LEMMA NoneLeft ==
  ASSUME Drawn, NEW x \in Lefts, \A i \in Ids : x[i] = 0
  PROVE  \A t \in Times : LeastWaiting[t][x] = 0
<1> DEFINE S == {t \in Times : LeastWaiting[t][x] = 0}
<1>1. Horizon \in Nat /\ Times = 0 .. Horizon /\ \A t \in 0 .. Horizon : t \in Nat /\ (t + 1 \in Times <=> t < Horizon)
  BY HorizonIs
<1>2. Horizon \in S
  <2>1. Horizon \in Times /\ Horizon + 1 \notin Times
    BY <1>1
  <2> QED
    BY <2>1, WaitingIs DEF WaitingStep
<1>3. ASSUME NEW t \in 0 .. Horizon - 1, t + 1 \in S PROVE t \in S
  <2>1. t \in Times /\ t + 1 \in Times
    BY <1>1
  <2>2. ReadyAt(t, x) = {}
    BY DEF ReadyAt
  <2> QED
    BY <1>3, <2>1, <2>2, WaitingCases
<1>4. \A t \in 0 .. Horizon : t \in S
  <2> HIDE DEF S
  <2> QED
    BY <1>1, <1>2, <1>3, Backwards
<1> QED
  BY <1>1, <1>4

LEMMA WaitingStays ==
  ASSUME burst' = burst, arrival' = arrival
  PROVE  LeastWaiting' = LeastWaiting /\ Times' = Times /\ Ids' = Ids
<1> DEFINE Body(f) == [u \in Times |-> [left \in Lefts |-> WaitingStep(f, u, left)]]
           Later(f) == [u \in Times' |-> [left \in Lefts' |-> WaitingStep(f, u, left)']]
<1>1. LeastWaiting = CHOOSE f : f = Body(f)
  BY Zenon DEF LeastWaiting, WaitingStep, Lefts, ReadyAt, LeftAfter
<1>2. LeastWaiting' = CHOOSE f : f = Later(f)
  BY Zenon DEF LeastWaiting, WaitingStep, Lefts, ReadyAt, LeftAfter
<1>3. Ids' = Ids
  BY DEF Ids
<1>4. Times' = Times /\ Lefts' = Lefts
  BY <1>3 DEF Times, Lefts
<1>5. \A t, x : ReadyAt(t, x)' = ReadyAt(t, x)
  BY <1>3 DEF ReadyAt
<1>6. \A f, t, x : WaitingStep(f, t, x)' = WaitingStep(f, t, x)
  BY <1>4, <1>5 DEF WaitingStep, LeftAfter
<1>7. \A f : Later(f) = Body(f)
  BY <1>4, <1>6
<1> HIDE DEF Later, Body
<1> QED
  BY <1>1, <1>2, <1>3, <1>4, <1>7

-----------------------------------------------------------------------------
(* SRTF.                                                                     *)

\* The instants that each thread was in the system.
InSystem ==
  {p \in Ids \X Times : /\ arrival[p[1]] <= p[2] /\ p[2] < time
                        /\ p[1] \in done => p[2] < finish[p[1]]}

\* What SRTF has let the threads wait, and the least it can let them wait from
\* now on, are the least of all.
Shortest ==
  algo = "srtf" =>
    Cardinality(InSystem) + LeastWaiting[time][remaining] = LeastWaiting[0][burst] + Cardinality(Worked)

\* The result it reports.
Reported == "srtf" \in DOMAIN report => report["srtf"] = LeastWaiting[0][burst]

LEMMA SystemFinite ==
  ASSUME Drawn
  PROVE  IsFiniteSet(InSystem) /\ Cardinality(InSystem) \in Nat
<1>1. IsFiniteSet(Times)
  <2>1. Horizon \in Nat /\ Times = 0 .. Horizon
    BY HorizonIs
  <2>2. 0 \in Int /\ Horizon \in Int
    BY <2>1
  <2> QED
    BY <2>1, <2>2, FS_Interval
<1>2. IsFiniteSet(Ids \X Times)
  BY <1>1, FS_Product DEF Drawn
<1>3. InSystem \subseteq Ids \X Times
  BY DEF InSystem
<1> QED
  BY <1>2, <1>3, FS_Subset, FS_CardinalityType

\* In a unit of time those that are ready stay.
LEMMA SystemNext ==
  ASSUME ShownInv, arrival' = arrival, burst' = burst, time' = time + 1, time \in Times,
         done \subseteq done',
         \A k \in done : finish'[k] = finish[k],
         \A k \in done' \ done : k \in Ready /\ finish'[k] = time + 1
  PROVE  Cardinality(InSystem') = Cardinality(InSystem) + Cardinality(Ready)
<1> DEFINE new == Ready \X {time}
<1>1. Drawn /\ Progress /\ time \in Nat /\ Times' = Times /\ Ids' = Ids /\ done \subseteq Ids
  BY WaitingStays DEF ShownInv, ShareInv, Progress
<1>2. \A k \in Ids : k \in done => finish[k] <= time /\ finish[k] \in Int
  BY DEF ShownInv, ShareInv, Progress, FigInv, Figures
<1>3. \A u \in Times : u \in Nat
  BY <1>1, HorizonIs
<1>4. ASSUME NEW k \in Ids, NEW u \in Times
      PROVE  <<k, u>> \in InSystem' <=> <<k, u>> \in InSystem \cup new
  <2>1. <<k, u>> \in InSystem' <=> arrival[k] <= u /\ u < time + 1 /\ (k \in done' => u < finish'[k])
    BY <1>1 DEF InSystem
  <2>2. <<k, u>> \in InSystem <=> arrival[k] <= u /\ u < time /\ (k \in done => u < finish[k])
    BY DEF InSystem
  <2>3. <<k, u>> \in new <=> k \in Ready /\ u = time
    OBVIOUS
  <2>4. k \in Ready <=> k \notin done /\ arrival[k] <= time
    BY DEF Ready
  <2>5. u \in Nat /\ arrival[k] \in Nat
    BY <1>1, <1>3 DEF Drawn
  <2> HIDE DEF new
  <2>6. CASE k \in done
    <3>1. finish'[k] = finish[k] /\ k \in done' /\ finish[k] <= time /\ finish[k] \in Int
      BY <1>2, <2>6
    <3> QED
      BY <1>1, <2>1, <2>2, <2>3, <2>4, <2>5, <2>6, <3>1
  <2>7. CASE k \notin done
    <3>1. k \in done' => finish'[k] = time + 1
      BY <2>7
    <3> QED
      BY <1>1, <2>1, <2>2, <2>3, <2>4, <2>5, <2>7, <3>1
  <2> QED
    BY <2>6, <2>7
<1>5. InSystem' \subseteq Ids \X Times /\ InSystem \subseteq Ids \X Times /\ new \subseteq Ids \X Times
  <2>1. InSystem \subseteq Ids \X Times /\ InSystem' \subseteq Ids' \X Times'
    BY DEF InSystem
  <2>2. new \subseteq Ids \X Times
    BY DEF Ready
  <2> QED
    BY <1>1, <2>1, <2>2
<1>6. InSystem \cap new = {}
  <2>1. \A p \in InSystem : p[2] < time
    BY DEF InSystem
  <2>2. \A p \in new : p[2] = time
    OBVIOUS
  <2> HIDE DEF new
  <2> QED
    BY <1>1, <2>1, <2>2
<1>7. IsFiniteSet(new) /\ Cardinality(new) = Cardinality(Ready)
  <2>1. IsFiniteSet({time}) /\ Cardinality({time}) = 1
    BY FS_Singleton
  <2>2. IsFiniteSet(Ready) /\ Cardinality(Ready) \in Nat
    BY <1>1, ReadyLeft, FS_CardinalityType
  <2>3. IsFiniteSet(new) /\ Cardinality(new) = Cardinality(Ready) * Cardinality({time})
    BY <2>1, <2>2, FS_Product
  <2> HIDE DEF new
  <2> QED
    BY <2>1, <2>2, <2>3
<1> HIDE DEF new
<1>8. InSystem' = InSystem \cup new
  BY <1>4, <1>5
<1>9. /\ Cardinality(InSystem \cup new) = Cardinality(InSystem) + Cardinality(new) - Cardinality(InSystem \cap new)
      /\ Cardinality(InSystem \cap new) = 0
  BY <1>1, <1>6, <1>7, SystemFinite, FS_Union, FS_EmptySet
<1>10. PICK a, b : a = Cardinality(InSystem) /\ b = Cardinality(new)
  OBVIOUS
<1>11. a \in Nat /\ b \in Nat /\ Cardinality(InSystem') = a + b - 0
  BY <1>1, <1>7, <1>8, <1>9, <1>10, SystemFinite, FS_CardinalityType
<1>12. Cardinality(InSystem') = a + b
  BY <1>11
<1> QED
  BY <1>7, <1>10, <1>12

LEMMA TypesNext == ShownInv' => TypeOK'
<1>1. ShownInv => TypeOK
  BY InvTypes DEF ShownInv
<1> QED
  BY <1>1, PTL

LEMMA LeftsNow ==
  ASSUME ShownInv
  PROVE  /\ remaining \in Lefts /\ burst \in Lefts /\ time \in Times /\ time \in Nat
         /\ ReadyAt(time, remaining) = Ready
         /\ Drawn /\ Progress
<1>1. Drawn /\ Progress
  BY DEF ShownInv, ShareInv
<1>2. TypeOK
  BY InvTypes DEF ShownInv
<1>3. burst \in [Ids -> 0 .. MaxBurst]
  BY <1>2 DEF TypeOK
<1>4. ReadyAt(time, remaining) = Ready
  BY <1>1, ReadyLeft DEF ReadyAt
<1> QED
  BY <1>1, <1>2, <1>3, <1>4 DEF TypeOK, Lefts, Progress

LEMMA ShortestFresh ==
  ASSUME Drawn, remaining = burst, time = 0
  PROVE  Cardinality(InSystem) = 0 /\ Cardinality(Worked) = 0
<1>1. InSystem = {}
  <2>1. \A u \in Times : u \in Nat
    BY HorizonIs
  <2> QED
    BY <2>1 DEF InSystem
<1>2. Worked = {}
  <2>1. \A i \in Ids : Work(i) = 0
    BY DEF Work, Drawn
  <2>2. \A u \in 1 .. MaxBurst : ~ u <= 0
    OBVIOUS
  <2> QED
    BY <2>1, <2>2 DEF Worked
<1> QED
  BY <1>1, <1>2, FS_EmptySet

ShortestFreshNow == Drawn /\ remaining = burst /\ time = 0

LEMMA ShortestStart == ShortestFreshNow /\ ShownInv => Shortest
<1> SUFFICES ASSUME ShortestFreshNow, ShownInv PROVE Shortest
  OBVIOUS
<1>1. Cardinality(InSystem) = 0 /\ Cardinality(Worked) = 0
  BY ShortestFresh DEF ShortestFreshNow
<1>2. LeastWaiting[time][remaining] = LeastWaiting[0][burst] /\ LeastWaiting[time][remaining] \in Nat
  BY LeftsNow, WaitingIs DEF ShortestFreshNow
<1> QED
  BY <1>1, <1>2 DEF Shortest

LEMMA ShortestLater == ShortestFreshNow' /\ ShownInv' => Shortest'
BY ShortestStart, PTL

\* Idling, SRTF lets nobody wait.
LEMMA ShortestIdles ==
  ASSUME ShownInv, Shortest, ShownInv', SrtfIdle
  PROVE  Shortest'
<1>1. /\ algo = "srtf" /\ Ready = {} /\ time' = time + 1
      /\ UNCHANGED <<burst, arrival, remaining, finish, done>>
  BY DEF SrtfIdle, Scheduling, IdleUnit, threadVars, Elsewhere
<1>2. LeastWaiting' = LeastWaiting /\ Times' = Times /\ Ids' = Ids
  BY <1>1, WaitingStays
<1>3. time + 1 \in Times
  BY <1>1, <1>2, TypesNext DEF TypeOK
<1>4. LeastWaiting[time][remaining] = LeastWaiting[time + 1][remaining]
  BY <1>1, <1>3, LeftsNow, WaitingCases
<1>5. Cardinality(InSystem') = Cardinality(InSystem)
  <2>1. Cardinality(InSystem') = Cardinality(InSystem) + Cardinality(Ready)
    BY <1>1, LeftsNow, SystemNext
  <2>2. Cardinality(Ready) = 0 /\ Cardinality(InSystem) \in Nat
    BY <1>1, LeftsNow, SystemFinite, FS_EmptySet
  <2> QED
    BY <2>1, <2>2
<1>6. Worked' = Worked
  BY <1>1, <1>2 DEF Worked, Work
<1>7. Cardinality(InSystem) + LeastWaiting[time][remaining] = LeastWaiting[0][burst] + Cardinality(Worked)
  BY <1>1 DEF Shortest
<1> QED
  BY <1>1, <1>2, <1>4, <1>5, <1>6, <1>7 DEF Shortest

\* Running a thread, it lets the others wait for a unit.
LEMMA ShortestRuns ==
  ASSUME ShownInv, Shortest, ShownInv', SrtfRun
  PROVE  Shortest'
<1> DEFINE sel == SrtfSelect
<1>1. algo = "srtf" /\ UNCHANGED <<burst, arrival>>
  BY DEF SrtfRun, Scheduling, Elsewhere
<1>2. LeastWaiting' = LeastWaiting /\ Times' = Times /\ Ids' = Ids
  BY <1>1, WaitingStays
<1>3. GetsCpu(sel, 1) /\ \A j \in Ready : remaining[sel] <= remaining[j]
  BY SrtfRuns DEF ShownInv
<1>4. /\ sel \in Ready /\ 1 \in 1 .. remaining[sel] /\ time' = time + 1
      /\ remaining' = [remaining EXCEPT ![sel] = remaining[sel] - 1]
      /\ done' = IF 1 = remaining[sel] THEN done \cup {sel} ELSE done
  BY <1>3 DEF GetsCpu
<1>5. Executes(sel, 1)
  BY SrtfExecutes DEF ShownInv
<1>6. time + 1 \in Times
  BY <1>2, <1>4, TypesNext DEF TypeOK
<1>7. Cardinality(InSystem') = Cardinality(InSystem) + Cardinality(Ready)
  <2>1. /\ 1 = remaining[sel] => /\ finish'[sel] = time + 1 /\ done' = done \cup {sel}
                                 /\ \A j \in done : finish'[j] = finish[j]
        /\ 1 # remaining[sel] => finish' = finish /\ done' = done
    BY <1>5, RunFigures
  <2>2. \A k \in done : finish'[k] = finish[k]
    BY <2>1
  <2>3. done \subseteq done' /\ \A k \in done' \ done : k \in Ready /\ finish'[k] = time + 1
    BY <1>4, <2>1
  <2> HIDE DEF sel
  <2> QED
    BY <1>1, <1>4, <2>2, <2>3, LeftsNow, SystemNext
<1>8. Cardinality(Worked') = Cardinality(Worked) + 1
  <2> HIDE DEF sel
  <2> QED
    BY <1>1, <1>3, <1>4, LeftsNow, MoreWork DEF ShownInv
<1> HIDE DEF sel
<1>9. LeastWaiting[time][remaining] = Cardinality(Ready) - 1 + LeastWaiting[time + 1][remaining']
  <2>1. remaining' = LeftAfter(remaining, sel)
    BY <1>4 DEF LeftAfter
  <2>2. /\ time \in Times /\ time + 1 \in Times /\ remaining \in Lefts /\ Drawn
        /\ ReadyAt(time, remaining) = Ready
    BY <1>6, LeftsNow
  <2>3. /\ sel \in ReadyAt(time, remaining)
        /\ \A j \in ReadyAt(time, remaining) : remaining[sel] <= remaining[j]
    BY <1>3, <1>4, <2>2
  <2>4. LeastWaiting[time][remaining]
          = Cardinality(ReadyAt(time, remaining)) - 1 + LeastWaiting[time + 1][LeftAfter(remaining, sel)]
    BY <2>2, <2>3, ShortestBest
  <2> QED
    BY <2>1, <2>2, <2>4
<1>10. PICK s, r, w : s = Cardinality(InSystem) /\ r = Cardinality(Ready) /\ w = Cardinality(Worked)
  OBVIOUS
<1>11. PICK a, b, c : /\ a = LeastWaiting[time][remaining] /\ b = LeastWaiting[time + 1][remaining']
                      /\ c = LeastWaiting[0][burst]
  OBVIOUS
<1>12. s \in Nat /\ r \in Nat /\ w \in Nat
  BY <1>10, LeftsNow, SystemFinite, ReadyCount, WorkedBound
<1>13. a \in Nat /\ b \in Nat /\ c \in Nat
  <2>1. remaining' \in Lefts
    <3>1. remaining' = LeftAfter(remaining, sel) /\ sel \in Ids /\ remaining[sel] > 0
      BY <1>4, LeftsNow, ReadyLeft DEF LeftAfter
    <3> QED
      BY <3>1, LeftsNow, LeftAfterIs
  <2>2. 0 \in Times
    BY LeftsNow, HorizonIs
  <2> QED
    BY <1>6, <1>11, <2>1, <2>2, LeftsNow, WaitingIs
<1>14. s + a = c + w /\ a = r - 1 + b
  BY <1>1, <1>9, <1>10, <1>11 DEF Shortest
<1>15. (s + r) + b = c + (w + 1)
  BY <1>12, <1>13, <1>14
<1> QED
  BY <1>1, <1>2, <1>4, <1>7, <1>8, <1>10, <1>11, <1>15 DEF Shortest

LEMMA ShortestStep == ShownInv /\ Shortest /\ [Next]_vars => Shortest'
<1> SUFFICES ASSUME ShownInv, Shortest, [Next]_vars PROVE Shortest'
  OBVIOUS
<1>1. ShownInv'
  BY ShownStep
<1>2. CASE RunAlgo
  <2>1. Drawn' /\ remaining' = burst' /\ time' = 0
    BY <1>1, <1>2 DEF RunAlgo, ShownInv, ShareInv
  <2> QED
    BY <1>1, <2>1, ShortestLater DEF ShortestFreshNow
<1>3. CASE Return \/ UNCHANGED vars
  <2>1. UNCHANGED <<burst, arrival, time, algo, remaining, finish, done>>
    BY <1>3 DEF Return, vars, logVars, threadVars
  <2>2. LeastWaiting' = LeastWaiting /\ Times' = Times /\ Ids' = Ids
    BY <2>1, WaitingStays
  <2>3. InSystem' = InSystem /\ Worked' = Worked
    BY <2>1, <2>2 DEF InSystem, Worked, Work
  <2> QED
    BY <2>1, <2>2, <2>3 DEF Shortest
<1>4. CASE FifoIdle \/ FifoRun \/ RrIdle \/ RrRun \/ SjfIdle \/ SjfRun
  <2>1. algo' # "srtf"
    BY <1>4 DEF FifoIdle, FifoRun, RrIdle, RrRun, SjfIdle, SjfRun, Scheduling, Elsewhere
  <2> QED
    BY <2>1 DEF Shortest
<1>5. CASE SrtfIdle
  BY <1>1, <1>5, ShortestIdles
<1>6. CASE SrtfRun
  BY <1>1, <1>6, ShortestRuns
<1> QED
  BY <1>2, <1>3, <1>4, <1>5, <1>6 DEF Next, Stopped

\* When all are done, the instants in the system are those of work and of
\* waiting.
LEMMA SumWaited ==
  ASSUME ShownInv, done = Ids
  PROVE  /\ MapThenSumSet(LAMBDA i : waiting[i], Ids) \in Nat
         /\ MapThenSumSet(LAMBDA i : waiting[i], Ids) + Cardinality(Worked) = Cardinality(InSystem)
<1> DEFINE W == [i \in Ids |-> {i} \X (arrival[i] + burst[i] .. finish[i] - 1)]
           B == [i \in Ids |-> {i} \X (arrival[i] .. arrival[i] + burst[i] - 1)]
           U == [i \in Ids |-> {i} \X (1 .. burst[i])]
           allW == UNION {W[i] : i \in Ids}
           allB == UNION {B[i] : i \in Ids}
<1>1. Drawn /\ Progress /\ IsFiniteSet(Ids) /\ time \in Nat /\ time \in Times
  BY LeftsNow DEF Drawn
<1>2. \A i \in Ids : /\ arrival[i] \in Nat /\ burst[i] \in Nat /\ finish[i] \in Int
                     /\ remaining[i] = 0 /\ burst[i] <= MaxBurst
                     /\ waiting[i] = finish[i] - arrival[i] - burst[i]
                     /\ arrival[i] + burst[i] <= finish[i] /\ finish[i] <= time
  <2> TAKE i \in Ids
  <2>1. remaining[i] = 0 /\ burst[i] \in Nat \ {0} /\ arrival[i] \in Nat /\ time \in Nat
    BY <1>1 DEF Progress, Drawn
  <2>2. Figures(i) /\ burst[i] <= MaxBurst
    BY DEF ShownInv, FigInv, Bounded
  <2>3. /\ finish[i] \in Int /\ start[i] \in Int /\ arrival[i] <= start[i]
        /\ start[i] + burst[i] <= finish[i] /\ finish[i] <= time
        /\ waiting[i] = finish[i] - arrival[i] - burst[i]
    BY <2>1, <2>2 DEF Figures
  <2> QED
    BY <2>1, <2>2, <2>3
<1>3. \A a, b \in Nat : /\ IsFiniteSet(a .. b - 1)
                        /\ a <= b => Cardinality(a .. b - 1) = b - a
  <2> TAKE a, b \in Nat
  <2>1. IsFiniteSet(a .. b - 1) /\ Cardinality(a .. b - 1) = IF a < b THEN b - a ELSE 0
    BY Interval
  <2> QED
    BY <2>1
<1>4. ASSUME NEW i, NEW S, IsFiniteSet(S)
      PROVE  IsFiniteSet({i} \X S) /\ Cardinality({i} \X S) = Cardinality(S)
  <2>1. IsFiniteSet({i}) /\ Cardinality({i}) = 1 /\ Cardinality(S) \in Nat
    BY <1>4, FS_Singleton, FS_CardinalityType
  <2>2. IsFiniteSet({i} \X S) /\ Cardinality({i} \X S) = Cardinality({i}) * Cardinality(S)
    BY <1>4, <2>1, FS_Product
  <2> QED
    BY <2>1, <2>2
<1>5. ASSUME NEW i \in Ids
      PROVE  /\ IsFiniteSet(W[i]) /\ waiting[i] = Cardinality(W[i])
             /\ IsFiniteSet(B[i]) /\ burst[i] = Cardinality(B[i])
             /\ IsFiniteSet(U[i]) /\ burst[i] = Cardinality(U[i])
  <2>1. PICK a, b, n : a = arrival[i] + burst[i] /\ b = finish[i] /\ n = arrival[i]
    OBVIOUS
  <2>2. a \in Nat /\ b \in Nat /\ n \in Nat /\ a <= b /\ n <= a /\ waiting[i] = b - a /\ burst[i] = a - n
    BY <1>2, <2>1
  <2>3. /\ IsFiniteSet(a .. b - 1) /\ waiting[i] = Cardinality(a .. b - 1)
        /\ IsFiniteSet(n .. a - 1) /\ burst[i] = Cardinality(n .. a - 1)
    BY <1>3, <2>2
  <2>4. PICK m : m = burst[i]
    OBVIOUS
  <2>5. IsFiniteSet(1 .. m) /\ Cardinality(1 .. m) = m
    <3>1. m \in Int /\ 1 \in Int /\ (IF 1 > m THEN 0 ELSE m - 1 + 1) = m
      BY <1>2, <2>4
    <3> QED
      BY <3>1, FS_Interval
  <2>6. /\ W[i] = {i} \X (arrival[i] + burst[i] .. finish[i] - 1)
        /\ B[i] = {i} \X (arrival[i] .. arrival[i] + burst[i] - 1)
        /\ U[i] = {i} \X (1 .. burst[i])
    OBVIOUS
  <2> HIDE DEF W, B, U
  <2>7. W[i] = {i} \X (a .. b - 1) /\ B[i] = {i} \X (n .. a - 1) /\ U[i] = {i} \X (1 .. m)
    <3>1. /\ (arrival[i] + burst[i] .. finish[i] - 1) = (a .. b - 1)
          /\ (arrival[i] .. arrival[i] + burst[i] - 1) = (n .. a - 1)
          /\ (1 .. burst[i]) = (1 .. m)
      BY <1>2, <2>1, <2>2, <2>4
    <3> QED
      BY <2>6, <3>1, Zenon
  <2>8. /\ IsFiniteSet({i} \X (a .. b - 1)) /\ Cardinality({i} \X (a .. b - 1)) = Cardinality(a .. b - 1)
        /\ IsFiniteSet({i} \X (n .. a - 1)) /\ Cardinality({i} \X (n .. a - 1)) = Cardinality(n .. a - 1)
        /\ IsFiniteSet({i} \X (1 .. m)) /\ Cardinality({i} \X (1 .. m)) = Cardinality(1 .. m)
    BY <1>4, <2>3, <2>5
  <2> QED
    BY <2>3, <2>4, <2>5, <2>7, <2>8
<1>6. \A j, k \in Ids : j # k => /\ W[j] \cap W[k] = {} /\ B[j] \cap B[k] = {}
                                 /\ U[j] \cap U[k] = {}
  OBVIOUS
<1>7. Worked = UNION {U[i] : i \in Ids}
  <2>1. ASSUME NEW p \in Worked PROVE p \in UNION {U[i] : i \in Ids}
    <3>1. p[1] \in Ids /\ p = <<p[1], p[2]>> /\ p[2] \in 1 .. MaxBurst /\ p[2] <= burst[p[1]] - remaining[p[1]]
      BY DEF Worked, Work
    <3>2. p[2] \in 1 .. burst[p[1]]
      BY <1>2, <3>1
    <3>3. p \in U[p[1]]
      BY <3>1, <3>2
    <3> HIDE DEF U
    <3> QED
      BY <3>1, <3>3
  <2>2. ASSUME NEW i \in Ids, NEW u \in 1 .. burst[i] PROVE <<i, u>> \in Worked
    <3>1. u \in 1 .. MaxBurst /\ u <= burst[i] - remaining[i]
      BY <1>2
    <3> QED
      BY <3>1 DEF Worked, Work
  <2>3. \A i \in Ids : U[i] \subseteq Worked
    BY <2>2
  <2> HIDE DEF U
  <2> QED
    BY <2>1, <2>3
<1>8. InSystem = allW \cup allB
  <2>1. \A u \in Nat : u < time => u \in Times
    <3>1. Horizon \in Nat /\ Times = 0 .. Horizon
      BY <1>1, HorizonIs
    <3> QED
      BY <1>1, <3>1
  <2>2. \A u \in Times : u \in Nat
    BY <1>1, HorizonIs
  <2>3. ASSUME NEW p \in InSystem PROVE p \in allW \cup allB
    <3>1. PICK i, u : p = <<i, u>> /\ i \in Ids /\ u \in Nat /\ arrival[i] <= u /\ u < finish[i]
      BY <2>2 DEF InSystem
    <3>2. u \in arrival[i] + burst[i] .. finish[i] - 1 \/ u \in arrival[i] .. arrival[i] + burst[i] - 1
      BY <1>2, <3>1
    <3>3. p \in W[i] \/ p \in B[i]
      BY <3>1, <3>2
    <3> HIDE DEF W, B
    <3> QED
      BY <3>1, <3>3
  <2>4. ASSUME NEW i \in Ids, NEW u \in arrival[i] .. finish[i] - 1 PROVE <<i, u>> \in InSystem
    <3>1. u \in Nat /\ arrival[i] <= u /\ u < finish[i] /\ u < time
      BY <1>1, <1>2
    <3> QED
      BY <2>1, <3>1 DEF InSystem
  <2>5. ASSUME NEW i \in Ids PROVE W[i] \subseteq InSystem /\ B[i] \subseteq InSystem
    <3>1. /\ \A u \in arrival[i] + burst[i] .. finish[i] - 1 : u \in arrival[i] .. finish[i] - 1
          /\ \A u \in arrival[i] .. arrival[i] + burst[i] - 1 : u \in arrival[i] .. finish[i] - 1
      BY <1>2
    <3> QED
      BY <2>4, <3>1
  <2> HIDE DEF W, B
  <2> QED
    BY <2>3, <2>5
<1>9. allW \cap allB = {}
  <2>1. ASSUME NEW j \in Ids, NEW k \in Ids PROVE W[j] \cap B[k] = {}
    BY <1>2
  <2> HIDE DEF W, B
  <2> QED
    BY <2>1
<1>10. SumFunctionOnSet(waiting, Ids) = Cardinality(allW)
  <2> HIDE DEF W, B, U
  <2>1. \A k \in Ids : IsFiniteSet(W[k]) /\ waiting[k] = Cardinality(W[k])
    BY <1>5
  <2>2. \A j, k \in Ids : j # k => W[j] \cap W[k] = {}
    BY <1>6
  <2> HIDE DEF allW
  <2>3. SumFunctionOnSet(waiting, Ids) = Cardinality(UNION {W[k] : k \in Ids})
    BY <1>1, <2>1, <2>2, SumCounts
  <2> QED
    BY <2>3 DEF allW
<1>11. Cardinality(allB) = Cardinality(Worked)
  <2> HIDE DEF W, B, U
  <2>1. /\ \A k \in Ids : IsFiniteSet(B[k]) /\ burst[k] = Cardinality(B[k])
        /\ \A k \in Ids : IsFiniteSet(U[k]) /\ burst[k] = Cardinality(U[k])
    BY <1>5
  <2>2. /\ \A j, k \in Ids : j # k => B[j] \cap B[k] = {}
        /\ \A j, k \in Ids : j # k => U[j] \cap U[k] = {}
    BY <1>6
  <2> HIDE DEF allB, allW
  <2>3. SumFunctionOnSet(burst, Ids) = Cardinality(UNION {B[k] : k \in Ids})
    BY <1>1, <2>1, <2>2, SumCounts
  <2>4. SumFunctionOnSet(burst, Ids) = Cardinality(UNION {U[k] : k \in Ids})
    BY <1>1, <2>1, <2>2, SumCounts
  <2> QED
    BY <1>7, <2>3, <2>4 DEF allB
<1>12. MapThenSumSet(LAMBDA i : waiting[i], Ids) = SumFunctionOnSet(waiting, Ids)
  BY DEF MapThenSumSet, SumFunctionOnSet, FoldFunctionOnSet
<1> HIDE DEF allW, allB
<1>13. IsFiniteSet(allW) /\ IsFiniteSet(allB)
  <2>1. allW \subseteq InSystem /\ allB \subseteq InSystem
    BY <1>8
  <2> QED
    BY <1>1, <2>1, SystemFinite, FS_Subset
<1>14. /\ Cardinality(allW \cup allB) = Cardinality(allW) + Cardinality(allB) - Cardinality(allW \cap allB)
       /\ Cardinality(allW \cap allB) = 0 /\ Cardinality(allW) \in Nat /\ Cardinality(allB) \in Nat
  BY <1>9, <1>13, FS_Union, FS_EmptySet, FS_CardinalityType
<1> QED
  BY <1>8, <1>10, <1>11, <1>12, <1>14

LEMMA ReportedStep == ShownInv /\ Shortest /\ Reported /\ [Next]_vars => Reported'
<1> SUFFICES ASSUME ShownInv, Shortest, Reported, [Next]_vars PROVE Reported'
  OBVIOUS
<1>1. LeastWaiting' = LeastWaiting /\ burst' = burst
  <2>1. burst' = burst /\ arrival' = arrival
    BY DEF Next, vars, logVars, RunAlgo, Return, Stopped, Elsewhere,
       FifoIdle, FifoRun, RrIdle, RrRun, SjfIdle, SjfRun, SrtfIdle, SrtfRun
  <2> QED
    BY <2>1, WaitingStays
<1>2. CASE Return
  <2>1. PICK sum : sum = MapThenSumSet(LAMBDA i : waiting[i], Ids)
    OBVIOUS
  <2>2. report' = [a \in DOMAIN report \cup {algo} |-> IF a = algo THEN sum ELSE report[a]]
    BY <1>2, <2>1 DEF Return
  <2>3. /\ DOMAIN report' = {algo} \cup DOMAIN report
        /\ \A a \in DOMAIN report' : report'[a] = IF a = algo THEN sum ELSE report[a]
    BY <2>2
  <2>4. ASSUME algo = "srtf" PROVE sum = LeastWaiting[0][burst]
    <3>1. done = Ids
      BY <1>2 DEF Return
    <3>2. sum + Cardinality(Worked) = Cardinality(InSystem)
      BY <2>1, <3>1, SumWaited
    <3>3. LeastWaiting[time][remaining] = 0
      <4>1. \A i \in Ids : remaining[i] = 0
        BY <3>1 DEF ShownInv, ShareInv, Progress
      <4> QED
        BY <4>1, LeftsNow, NoneLeft
    <3>4. Cardinality(InSystem) + 0 = LeastWaiting[0][burst] + Cardinality(Worked)
      BY <2>4, <3>3 DEF Shortest
    <3>5. sum \in Nat
      BY <2>1, <3>1, SumWaited
    <3>6. /\ Cardinality(Worked) \in Nat /\ Cardinality(InSystem) \in Nat
          /\ LeastWaiting[0][burst] \in Nat
      <4>1. 0 \in Times
        BY LeftsNow, HorizonIs
      <4> QED
        BY <4>1, LeftsNow, WorkedBound, SystemFinite, WaitingIs
    <3> QED
      BY <3>2, <3>4, <3>5, <3>6
  <2> QED
    BY <1>1, <2>3, <2>4 DEF Reported
<1>3. CASE ~Return
  <2>1. report' = report
    BY <1>3 DEF Next, vars, RunAlgo, Stopped, Elsewhere,
       FifoIdle, FifoRun, RrIdle, RrRun, SjfIdle, SjfRun, SrtfIdle, SrtfRun
  <2> QED
    BY <1>1, <2>1 DEF Reported
<1> QED
  BY <1>2, <1>3

\* SRTF is optimal: for any threads, the sum of the waiting times that it reports
\* is the least that any way of sharing the CPU reaches that does not let it idle
\* while a thread could run (Documentation.md:43; scheduler.c:236-294).
THEOREM SrtfIsOptimal == Spec => []SrtfOptimal
<1>1. Init => Shortest /\ Reported
  BY DEF Init, Shortest, Reported
<1>2. Reported => SrtfOptimal
  BY DEF Reported, SrtfOptimal
<1> QED
  BY <1>1, <1>2, ShownInit, ShownStep, ShortestStep, ReportedStep, PTL DEF Spec

\* Who runs has less left.
LEMMA LighterAfter ==
  ASSUME Drawn, NEW t \in Nat, NEW x \in Lefts, NEW i \in ReadyAt(t, x)
  PROVE  Lighter(t, LeftAfter(x, i), x)
<1>1. i \in Ids /\ x[i] > 0 /\ arrival[i] <= t
  BY DEF ReadyAt
<1>2. ASSUME NEW k \in Ids, arrival[k] > t PROVE LeftAfter(x, i)[k] = x[k]
  <2>1. k # i
    <3>1. \A n \in Nat : n <= t => ~ n > t
      OBVIOUS
    <3> QED
      BY <1>1, <1>2, <3>1 DEF Drawn
  <2> QED
    BY <1>1, <2>1, LeftAfterIs
<1>3. ASSUME NEW c \in Nat
      PROVE  Cardinality(Below(t, LeftAfter(x, i), c)) <= Cardinality(Below(t, x, c))
  <2>1. PICK a : a = Cardinality(Below(t, x, c))
    OBVIOUS
  <2>2. a \in Nat /\ Cardinality(Below(t, LeftAfter(x, i), c)) = IF x[i] <= c THEN a - 1 ELSE a
    BY <2>1, BelowAfter, BelowFinite
  <2> QED
    BY <2>1, <2>2
<1> QED
  BY <1>2, <1>3 DEF Lighter

\* That LeastWaiting does not let the CPU idle while a thread could run gives
\* nothing away: at no instant, and whatever is left, would it help to idle for a
\* unit, in which everybody waits (scheduler.c:236-294).
THEOREM IdlingNeverPays ==
  ASSUME Drawn, NEW t \in Times, t + 1 \in Times, NEW x \in [Ids -> 0 .. MaxBurst]
  PROVE  LET ready == {i \in Ids : x[i] > 0 /\ arrival[i] <= t}
         IN  LeastWaiting[t][x] <= Cardinality(ready) + LeastWaiting[t + 1][x]
<1>1. x \in Lefts /\ t \in Nat
  BY HorizonIs DEF Lefts
<1>2. ReadyAt(t, x) = {i \in Ids : x[i] > 0 /\ arrival[i] <= t}
  BY DEF ReadyAt
<1>3. PICK n, a, b : /\ n = Cardinality(ReadyAt(t, x)) /\ a = LeastWaiting[t][x]
                     /\ b = LeastWaiting[t + 1][x]
  OBVIOUS
<1>4. n \in Nat /\ a \in Nat /\ b \in Nat
  BY <1>1, <1>3, ReadyCount, WaitingIs
<1>5. CASE ReadyAt(t, x) = {}
  <2>1. a = b
    BY <1>1, <1>3, <1>5, WaitingCases
  <2> QED
    BY <1>2, <1>3, <1>4, <2>1
<1>6. CASE ReadyAt(t, x) # {}
  <2>1. PICK i \in ReadyAt(t, x) : TRUE
    BY <1>6
  <2>2. PICK c : c = LeastWaiting[t + 1][LeftAfter(x, i)]
    OBVIOUS
  <2>3. LeftAfter(x, i) \in Lefts
    BY <1>1, LeftAfterIs DEF ReadyAt
  <2>4. c \in Nat /\ c <= b
    BY <1>1, <1>3, <2>2, <2>3, LighterAfter, LighterLater, LighterWaits, WaitingIs
  <2>5. a <= n - 1 + c
    BY <1>1, <1>3, <1>6, <2>2, WaitingCases
  <2>6. a <= n + b
    BY <1>4, <2>4, <2>5
  <2> QED
    BY <1>2, <1>3, <2>6
<1> QED
  BY <1>5, <1>6
=============================================================================
