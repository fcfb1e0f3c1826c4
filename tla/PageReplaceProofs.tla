------------------------- MODULE PageReplaceProofs --------------------------
(* Proofs about PageReplace, for any number of frames and any references.    *)
EXTENDS PageReplace, FiniteSetTheorems, SequenceTheorems, WellFoundedInduction, TLAPS

-----------------------------------------------------------------------------
(* Numbers.                                                                  *)

Less == {p \in Nat \X Nat : p[1] < p[2]}

LEMMA SmallestNumber ==
  ASSUME NEW S \in SUBSET Nat, S # {}
  PROVE  \E m \in S : \A k \in S : m <= k
<1>1. IsWellFoundedOn(Less, Nat)
  <2>1. OpToRel(<, Nat) = Less
    BY Zenon DEF OpToRel, Less
  <2> QED
    BY <2>1, NatLessThanWellFounded, Zenon
<1>2. PICK m \in S : \A k \in S : <<k, m>> \notin Less
  BY <1>1, WFMin
<1>3. ASSUME NEW k \in S PROVE m <= k
  <2>1. k \in Nat /\ m \in Nat /\ <<k, m>> \notin Less
    BY <1>2
  <2> QED
    BY <2>1 DEF Less
<1> QED
  BY <1>3

\* From the last index back to the first.
LEMMA Backwards ==
  ASSUME NEW n \in Nat, NEW S, n \in S, \A i \in 0 .. n - 1 : i + 1 \in S => i \in S
  PROVE  \A i \in 0 .. n : i \in S
<1> DEFINE Bad == {k \in 0 .. n : n - k \notin S}
<1>1. SUFFICES ASSUME NEW i \in 0 .. n, i \notin S PROVE FALSE
  OBVIOUS
<1>2. n - i \in 0 .. n /\ n - (n - i) = i
  OBVIOUS
<1>3. n - i \in Bad
  BY <1>1, <1>2
<1>4. Bad \in SUBSET Nat /\ Bad # {}
  BY <1>3
<1>5. PICK b \in Bad : \A c \in Bad : b <= c
  BY <1>4, SmallestNumber
<1>6. b \in 0 .. n /\ n - b \notin S
  BY <1>5
<1>7. b # 0
  BY <1>6
<1>8. b - 1 \in 0 .. n /\ ~ b <= b - 1 /\ n - b \in 0 .. n - 1 /\ n - (b - 1) = (n - b) + 1
  BY <1>6, <1>7
<1>9. n - (b - 1) \in S
  BY <1>5, <1>8
<1> QED
  BY <1>6, <1>8, <1>9

\* A place in a circular array.
LEMMA Wraps ==
  ASSUME NEW n \in Nat \ {0}, NEW i \in 0 .. 2 * n - 1
  PROVE  i % n = IF i < n THEN i ELSE i - n
<1>1. \A q \in Nat, m \in Nat : m < n => (q * n + m) % n = m
  OBVIOUS
<1>2. CASE i < n
  BY <1>1, <1>2
<1>3. CASE i >= n
  <2>1. i - n \in Nat /\ i - n < n /\ i = 1 * n + (i - n)
    BY <1>3
  <2> QED
    BY <1>1, <1>3, <2>1
<1> QED
  BY <1>2, <1>3

-----------------------------------------------------------------------------
(* Lists of nodes.                                                           *)

IsList(l, pool) ==
  l \in [head : pool \cup {Nil}, tail : pool \cup {Nil},
         prev : [pool -> pool \cup {Nil}], next : [pool -> pool \cup {Nil}]]

\* The walk meets the nodes of the sequence and ends behind them.
LEMMA WalkMeets ==
  ASSUME NEW pool, Nil \notin pool, NEW l, IsList(l, pool),
         NEW s \in Seq(pool), Represents(l, s), NEW i \in Nat
  PROVE  Walk(l)[i] = IF i < Len(s) THEN s[i + 1] ELSE Nil
<1> DEFINE f == [k \in Nat |-> IF k < Len(s) THEN s[k + 1] ELSE Nil]
           w == Walk(l)
<1>1. Len(s) \in Nat /\ \A k \in 1 .. Len(s) : s[k] \in pool
  OBVIOUS
<1>2. After(l) = [n \in pool \cup {Nil} |-> IF n = Nil THEN Nil ELSE l.next[n]]
  BY DEF IsList, After
<1>3. \A k \in Nat : f[k] = IF k = 0 THEN l.head ELSE After(l)[f[k - 1]]
  <2> TAKE k \in Nat
  <2>1. CASE k = 0
    BY <1>1, <2>1 DEF Represents
  <2>2. CASE k # 0 /\ k - 1 < Len(s)
    <3>1. k \in 1 .. Len(s) /\ f[k - 1] = s[k] /\ s[k] \in pool
      BY <1>1, <2>2
    <3>2. After(l)[s[k]] = l.next[s[k]]
      BY <1>2, <3>1
    <3>3. l.next[s[k]] = IF k = Len(s) THEN Nil ELSE s[k + 1]
      BY <3>1 DEF Represents
    <3> QED
      BY <1>1, <2>2, <3>1, <3>2, <3>3
  <2>3. CASE k # 0 /\ k - 1 >= Len(s)
    <3>1. k - 1 \in Nat /\ f[k - 1] = Nil /\ f[k] = Nil
      BY <1>1, <2>3
    <3> QED
      BY <1>2, <2>3, <3>1
  <2> QED
    BY <1>1, <2>1, <2>2, <2>3
<1>4. f = [k \in Nat |-> IF k = 0 THEN l.head ELSE After(l)[f[k - 1]]]
  BY <1>3
<1>5. w = CHOOSE g : g = [k \in Nat |-> IF k = 0 THEN l.head ELSE After(l)[g[k - 1]]]
  BY DEF Walk
<1>6. w = [k \in Nat |-> IF k = 0 THEN l.head ELSE After(l)[w[k - 1]]]
  <2> HIDE DEF f, w
  <2> QED
    BY <1>4, <1>5
<1> HIDE DEF f, w
<1>7. \A k \in Nat : w[k] = f[k]
  <2> DEFINE Bad == {k \in Nat : w[k] # f[k]}
  <2>1. SUFFICES ASSUME Bad # {} PROVE FALSE
    OBVIOUS
  <2>2. PICK k \in Bad : \A m \in Bad : k <= m
    BY <2>1, SmallestNumber
  <2>3. k # 0
    BY <1>3, <1>6, <2>2
  <2>4. k - 1 \in Nat /\ k - 1 \notin Bad
    BY <2>2, <2>3
  <2> QED
    BY <1>3, <1>6, <2>2, <2>3, <2>4
<1> QED
  BY <1>7 DEF f, w

LEMMA NodesMet ==
  ASSUME NEW pool, Nil \notin pool, IsFiniteSet(pool), NEW l, IsList(l, pool),
         NEW s \in Seq(pool), Represents(l, s)
  PROVE  Nodes(l) = s
<1> DEFINE n == Len(s)
           c == Cardinality(pool)
<1>1. n \in Nat /\ s \in [1 .. n -> pool] /\ DOMAIN s = 1 .. n
  OBVIOUS
<1>2. c \in Nat /\ DOMAIN l.next = pool
  BY FS_CardinalityType DEF IsList
<1>3. n <= c
  <2>1. s \in Injection(1 .. n, pool)
    BY <1>1 DEF Represents, Injection, IsInjective
  <2>2. IsFiniteSet(1 .. n) /\ Cardinality(1 .. n) = n
    BY <1>1, FS_Interval
  <2> QED
    BY <2>1, <2>2, FS_Injection
<1> HIDE DEF n, c
<1>4. \A k \in Nat : Walk(l)[k] = IF k < n THEN s[k + 1] ELSE Nil
  BY WalkMeets DEF n
<1>5. \A k \in 0 .. n - 1 : Walk(l)[k] # Nil
  BY <1>1, <1>4
<1>6. Walk(l)[n] = Nil
  BY <1>1, <1>4
<1>7. Length(l) = n
  <2> DEFINE Stops(k) == /\ Walk(l)[k] = Nil \/ k = c
                         /\ \A j \in 0 .. k - 1 : Walk(l)[j] # Nil
  <2>1. Length(l) = CHOOSE k \in 0 .. c : Stops(k)
    BY <1>2 DEF Length, c
  <2>2. n \in 0 .. c /\ Stops(n)
    BY <1>1, <1>2, <1>3, <1>5, <1>6
  <2>3. \A k \in 0 .. c : Stops(k) => k = n
    <3> TAKE k \in 0 .. c
    <3>1. HAVE Stops(k)
    <3>2. ~ k < n
      BY <1>1, <1>2, <1>3, <1>5, <3>1
    <3>3. ~ n < k
      BY <1>1, <1>2, <1>6, <3>1
    <3> QED
      BY <1>1, <1>2, <3>2, <3>3
  <2> HIDE DEF Stops
  <2> QED
    BY <2>1, <2>2, <2>3
<1>8. Nodes(l) = [k \in 1 .. n |-> Walk(l)[k - 1]]
  BY <1>7 DEF Nodes
<1>9. \A k \in 1 .. n : Walk(l)[k - 1] = s[k]
  BY <1>1, <1>4
<1> QED
  BY <1>1, <1>8, <1>9

\* The sequence without place j.
Without(s, j) == [i \in 1 .. Len(s) - 1 |-> IF i < j THEN s[i] ELSE s[i + 1]]

LEMMA RemoveUnlinks ==
  ASSUME NEW pool, Nil \notin pool, NEW l, IsList(l, pool),
         NEW s \in Seq(pool), Represents(l, s), NEW j \in 1 .. Len(s)
  PROVE  /\ IsList(Remove(l, s[j]), pool)
         /\ Without(s, j) \in Seq(pool)
         /\ Represents(Remove(l, s[j]), Without(s, j))
<1> DEFINE n == Len(s)
           u == Without(s, j)
           r == Remove(l, s[j])
           before == IF j = 1 THEN Nil ELSE s[j - 1]
           after  == IF j = n THEN Nil ELSE s[j + 1]
<1>1. n \in Nat /\ j \in 1 .. n /\ DOMAIN s = 1 .. n /\ \A k \in 1 .. n : s[k] \in pool
  OBVIOUS
<1>2. \A k, m \in 1 .. n : s[k] = s[m] => k = m
  BY <1>1 DEF Represents
<1>3. u \in [1 .. n - 1 -> pool]
  BY <1>1 DEF Without
<1>4. u \in Seq(pool) /\ Len(u) = n - 1 /\ DOMAIN u = 1 .. n - 1
  <2>1. n - 1 \in Nat
    BY <1>1
  <2> HIDE DEF n, u
  <2> QED
    BY <1>3, <2>1
<1>5. \A k \in 1 .. n - 1 : u[k] = IF k < j THEN s[k] ELSE s[k + 1]
  BY DEF Without
<1>6. \A m \in 1 .. n : /\ l.next[s[m]] = IF m = n THEN Nil ELSE s[m + 1]
                        /\ l.prev[s[m]] = IF m = 1 THEN Nil ELSE s[m - 1]
  BY <1>1 DEF Represents
<1>7. before = l.prev[s[j]] /\ after = l.next[s[j]]
  BY <1>1, <1>6
<1>8. before \in pool \cup {Nil} /\ after \in pool \cup {Nil}
  <2> HIDE DEF n
  <2>1. (j # 1 => j - 1 \in 1 .. n) /\ (j # n => j + 1 \in 1 .. n)
    BY <1>1
  <2> QED
    BY <1>1, <2>1
<1>9. /\ r.head = IF before = Nil THEN after ELSE l.head
      /\ r.tail = IF after = Nil THEN before ELSE l.tail
      /\ r.prev = [Link(l.prev, after, before) EXCEPT ![s[j]] = Nil]
      /\ r.next = [Link(l.next, before, after) EXCEPT ![s[j]] = Nil]
      /\ r = [head |-> r.head, tail |-> r.tail, prev |-> r.prev, next |-> r.next]
  BY <1>7 DEF Remove
<1>10. /\ l.prev \in [pool -> pool \cup {Nil}] /\ l.next \in [pool -> pool \cup {Nil}]
      /\ l.head \in pool \cup {Nil} /\ l.tail \in pool \cup {Nil}
  BY DEF IsList
<1> HIDE DEF n, u, r, before, after
<1>11. /\ r.prev \in [pool -> pool \cup {Nil}] /\ r.next \in [pool -> pool \cup {Nil}]
       /\ \A p \in pool : r.prev[p] = IF p = s[j] THEN Nil
                                      ELSE IF after # Nil /\ p = after THEN before ELSE l.prev[p]
       /\ \A p \in pool : r.next[p] = IF p = s[j] THEN Nil
                                      ELSE IF before # Nil /\ p = before THEN after ELSE l.next[p]
  BY <1>8, <1>9, <1>10 DEF Link
<1>12. r.head \in pool \cup {Nil} /\ r.tail \in pool \cup {Nil}
  BY <1>8, <1>9, <1>10
<1>13. IsList(r, pool)
  BY <1>9, <1>11, <1>12 DEF IsList
<1>14. \A k, m \in 1 .. n - 1 : u[k] = u[m] => k = m
  BY <1>1, <1>2, <1>5
<1>15. /\ j # 1 => before = s[j - 1] /\ before # Nil
       /\ j = 1 => before = Nil
       /\ j # n => after = s[j + 1] /\ after # Nil
       /\ j = n => after = Nil
  BY <1>1 DEF before, after
<1>16. r.head = IF u = <<>> THEN Nil ELSE u[1]
  <2>1. l.head = s[1]
    BY <1>1 DEF Represents
  <2>2. u = <<>> <=> n = 1
    BY <1>1, <1>3, <1>4
  <2>3. n # 1 => u[1] = IF j = 1 THEN s[2] ELSE s[1]
    BY <1>1, <1>5
  <2>4. CASE j = 1
    BY <1>1, <1>9, <1>15, <2>1, <2>2, <2>3, <2>4
  <2>5. CASE j # 1
    BY <1>1, <1>9, <1>15, <2>1, <2>2, <2>3, <2>5
  <2> QED
    BY <2>4, <2>5
<1>17. r.tail = IF u = <<>> THEN Nil ELSE u[n - 1]
  <2>1. l.tail = s[n]
    BY <1>1 DEF Represents, n
  <2>2. u = <<>> <=> n = 1
    BY <1>1, <1>3, <1>4
  <2>3. n # 1 => u[n - 1] = IF j = n THEN s[n - 1] ELSE s[n]
    BY <1>1, <1>5
  <2>4. CASE j = n
    BY <1>1, <1>9, <1>15, <2>1, <2>2, <2>3, <2>4
  <2>5. CASE j # n
    BY <1>1, <1>9, <1>15, <2>1, <2>2, <2>3, <2>5
  <2> QED
    BY <2>4, <2>5
<1>18. ASSUME NEW k \in 1 .. n - 1
       PROVE  /\ r.next[u[k]] = IF k = n - 1 THEN Nil ELSE u[k + 1]
              /\ r.prev[u[k]] = IF k = 1 THEN Nil ELSE u[k - 1]
  <2> DEFINE m == IF k < j THEN k ELSE k + 1
  <2>2. m \in 1 .. n /\ m # j /\ u[k] = s[m] /\ s[m] \in pool /\ s[m] # s[j]
    BY <1>1, <1>2, <1>5
  <2>3. (s[m] = before /\ before # Nil) <=> m = j - 1
    BY <1>1, <1>2, <1>15, <2>2
  <2>4. (s[m] = after /\ after # Nil) <=> m = j + 1
    BY <1>1, <1>2, <1>15, <2>2
  <2> HIDE DEF m
  <2>5. r.next[s[m]] = IF m = j - 1 THEN after ELSE IF m = n THEN Nil ELSE s[m + 1]
    BY <1>11, <1>6, <2>2, <2>3
  <2>6. r.prev[s[m]] = IF m = j + 1 THEN before ELSE IF m = 1 THEN Nil ELSE s[m - 1]
    BY <1>11, <1>6, <2>2, <2>4
  <2> USE DEF m
  <2>7. r.next[s[m]] = IF k = n - 1 THEN Nil ELSE u[k + 1]
    <3>1. k < n - 1 => u[k + 1] = IF k + 1 < j THEN s[k + 1] ELSE s[k + 2]
      BY <1>1, <1>5
    <3>2. CASE k < j - 1
      BY <1>1, <2>2, <2>5, <3>1, <3>2
    <3>3. CASE k = j - 1
      BY <1>1, <1>15, <2>2, <2>5, <3>1, <3>3
    <3>4. CASE k >= j
      BY <1>1, <2>2, <2>5, <3>1, <3>4
    <3> QED
      BY <1>1, <3>2, <3>3, <3>4
  <2>8. r.prev[s[m]] = IF k = 1 THEN Nil ELSE u[k - 1]
    <3>1. k > 1 => u[k - 1] = IF k - 1 < j THEN s[k - 1] ELSE s[k]
      BY <1>1, <1>5
    <3>2. CASE k < j
      BY <1>1, <2>2, <2>6, <3>1, <3>2
    <3>3. CASE k = j
      BY <1>1, <1>15, <2>2, <2>6, <3>1, <3>3
    <3>4. CASE k > j
      BY <1>1, <2>2, <2>6, <3>1, <3>4
    <3> QED
      BY <1>1, <3>2, <3>3, <3>4
  <2> QED
    BY <2>2, <2>7, <2>8
<1>19. Represents(r, u)
  BY <1>4, <1>14, <1>16, <1>17, <1>18 DEF Represents
<1> QED
  BY <1>4, <1>13, <1>19 DEF u, r

LEMMA PushFrontLinks ==
  ASSUME NEW pool, Nil \notin pool, NEW l, IsList(l, pool),
         NEW s \in Seq(pool), Represents(l, s), NEW x \in pool,
         \A k \in 1 .. Len(s) : s[k] # x
  PROVE  /\ IsList(PushFront(l, x), pool)
         /\ <<x>> \o s \in Seq(pool)
         /\ Represents(PushFront(l, x), <<x>> \o s)
<1> DEFINE n == Len(s)
           u == <<x>> \o s
           r == PushFront(l, x)
<1>1. n \in Nat /\ DOMAIN s = 1 .. n /\ \A k \in 1 .. n : s[k] \in pool
  OBVIOUS
<1>2. \A k, m \in 1 .. n : s[k] = s[m] => k = m
  BY <1>1 DEF Represents
<1>3. \A m \in 1 .. n : /\ l.next[s[m]] = IF m = n THEN Nil ELSE s[m + 1]
                        /\ l.prev[s[m]] = IF m = 1 THEN Nil ELSE s[m - 1]
  BY <1>1 DEF Represents
<1>4. u \in Seq(pool) /\ Len(u) = n + 1 /\ DOMAIN u = 1 .. n + 1
  OBVIOUS
<1>5. \A k \in 1 .. n + 1 : u[k] = IF k = 1 THEN x ELSE s[k - 1]
  OBVIOUS
<1>6. /\ n = 0 => l.head = Nil /\ l.tail = Nil
      /\ n # 0 => l.head = s[1] /\ l.tail = s[n] /\ s[1] \in pool /\ s[n] \in pool
      /\ s = <<>> <=> n = 0
  <2>1. s = <<>> <=> n = 0
    OBVIOUS
  <2>2. n # 0 => 1 \in 1 .. n /\ n \in 1 .. n
    BY <1>1
  <2> QED
    BY <1>1, <2>1, <2>2 DEF Represents
<1>7. /\ l.prev \in [pool -> pool \cup {Nil}] /\ l.next \in [pool -> pool \cup {Nil}]
      /\ l.head \in pool \cup {Nil} /\ l.tail \in pool \cup {Nil}
  BY DEF IsList
<1>8. /\ r.head = x
      /\ r.tail = IF l.tail = Nil THEN x ELSE l.tail
      /\ r.prev = Link([l.prev EXCEPT ![x] = Nil], l.head, x)
      /\ r.next = [l.next EXCEPT ![x] = l.head]
      /\ r = [head |-> r.head, tail |-> r.tail, prev |-> r.prev, next |-> r.next]
  BY DEF PushFront
<1> HIDE DEF n, u, r
<1>9. /\ r.prev \in [pool -> pool \cup {Nil}] /\ r.next \in [pool -> pool \cup {Nil}]
      /\ \A p \in pool : r.prev[p] = IF l.head # Nil /\ p = l.head THEN x
                                     ELSE IF p = x THEN Nil ELSE l.prev[p]
      /\ \A p \in pool : r.next[p] = IF p = x THEN l.head ELSE l.next[p]
  BY <1>7, <1>8 DEF Link
<1>10. IsList(r, pool)
  BY <1>7, <1>8, <1>9 DEF IsList
<1>11. \A k, m \in 1 .. n + 1 : u[k] = u[m] => k = m
  <2> TAKE k, m \in 1 .. n + 1
  <2>1. HAVE u[k] = u[m]
  <2>2. (k # 1 => k - 1 \in 1 .. n) /\ (m # 1 => m - 1 \in 1 .. n)
    BY <1>1
  <2>3. \A i \in 1 .. n : s[i] # x
    BY DEF n
  <2> QED
    BY <1>1, <1>2, <1>5, <2>1, <2>2, <2>3
<1>12. r.head = u[1] /\ r.tail = u[n + 1]
  BY <1>1, <1>5, <1>6, <1>7, <1>8
<1>13. ASSUME NEW k \in 1 .. n + 1
       PROVE  /\ r.next[u[k]] = IF k = n + 1 THEN Nil ELSE u[k + 1]
              /\ r.prev[u[k]] = IF k = 1 THEN Nil ELSE u[k - 1]
  <2>1. CASE k = 1
    <3>1. u[k] = x /\ (n # 0 => u[k + 1] = s[1])
      BY <1>1, <1>5, <2>1
    <3>2. r.next[x] = l.head /\ l.head # x
      <4>1. n # 0 => s[1] # x
        BY <1>1 DEF n
      <4> QED
        BY <1>6, <1>9, <4>1
    <3> QED
      BY <1>1, <1>6, <1>9, <2>1, <3>1, <3>2
  <2>2. CASE k # 1
    <3> DEFINE m == k - 1
    <3>1. m \in 1 .. n /\ u[k] = s[m] /\ s[m] \in pool /\ s[m] # x /\ n # 0
      <4>1. m \in 1 .. n /\ n # 0 /\ u[k] = s[m]
        BY <1>1, <1>5, <2>2
      <4> QED
        BY <1>1, <4>1 DEF n
    <3>2. (k < n + 1 => u[k + 1] = s[m + 1]) /\ u[k - 1] = IF m = 1 THEN x ELSE s[m - 1]
      BY <1>1, <1>5, <2>2
    <3>3. s[m] = l.head <=> m = 1
      <4>1. l.head = s[1] /\ 1 \in 1 .. n /\ m \in 1 .. n
        BY <1>1, <1>6, <3>1
      <4>2. s[m] = s[1] => m = 1
        BY <1>2, <4>1, Zenon
      <4> HIDE DEF m
      <4> QED
        BY <4>1, <4>2
    <3>4. r.next[s[m]] = IF m = n THEN Nil ELSE s[m + 1]
      BY <1>3, <1>9, <3>1
    <3>5. r.prev[s[m]] = IF m = 1 THEN x ELSE s[m - 1]
      <4>1. r.prev[s[m]] = IF l.head # Nil /\ s[m] = l.head THEN x ELSE l.prev[s[m]]
        BY <1>9, <3>1
      <4>2. l.prev[s[m]] = IF m = 1 THEN Nil ELSE s[m - 1]
        BY <1>3, <3>1
      <4>3. s[m] # Nil
        BY <3>1
      <4> HIDE DEF m
      <4> QED
        BY <3>3, <4>1, <4>2, <4>3
    <3> QED
      BY <1>1, <2>2, <3>1, <3>2, <3>4, <3>5
  <2> QED
    BY <2>1, <2>2
<1>14. Represents(r, u)
  <2>1. u # <<>>
    BY <1>1, <1>4
  <2> QED
    BY <1>4, <1>11, <1>12, <1>13, <2>1 DEF Represents
<1> QED
  BY <1>4, <1>10, <1>14 DEF u, r

LEMMA PushBackLinks ==
  ASSUME NEW pool, Nil \notin pool, NEW l, IsList(l, pool),
         NEW s \in Seq(pool), Represents(l, s), NEW x \in pool,
         \A k \in 1 .. Len(s) : s[k] # x
  PROVE  /\ IsList(PushBack(l, x), pool)
         /\ Append(s, x) \in Seq(pool)
         /\ Represents(PushBack(l, x), Append(s, x))
<1> DEFINE n == Len(s)
           u == Append(s, x)
           r == PushBack(l, x)
<1>1. n \in Nat /\ DOMAIN s = 1 .. n /\ \A k \in 1 .. n : s[k] \in pool
  OBVIOUS
<1>2. \A k, m \in 1 .. n : s[k] = s[m] => k = m
  BY <1>1 DEF Represents
<1>3. \A m \in 1 .. n : /\ l.next[s[m]] = IF m = n THEN Nil ELSE s[m + 1]
                        /\ l.prev[s[m]] = IF m = 1 THEN Nil ELSE s[m - 1]
  BY <1>1 DEF Represents
<1>4. u \in Seq(pool) /\ Len(u) = n + 1 /\ DOMAIN u = 1 .. n + 1
  OBVIOUS
<1>5. \A k \in 1 .. n + 1 : u[k] = IF k = n + 1 THEN x ELSE s[k]
  OBVIOUS
<1>6. /\ n = 0 => l.head = Nil /\ l.tail = Nil
      /\ n # 0 => l.head = s[1] /\ l.tail = s[n] /\ s[1] \in pool /\ s[n] \in pool
  <2>1. s = <<>> <=> n = 0
    OBVIOUS
  <2>2. n # 0 => 1 \in 1 .. n /\ n \in 1 .. n
    BY <1>1
  <2> QED
    BY <1>1, <2>1, <2>2 DEF Represents
<1>7. /\ l.prev \in [pool -> pool \cup {Nil}] /\ l.next \in [pool -> pool \cup {Nil}]
      /\ l.head \in pool \cup {Nil} /\ l.tail \in pool \cup {Nil}
  BY DEF IsList
<1>8. /\ r.head = IF l.head = Nil THEN x ELSE l.head
      /\ r.tail = x
      /\ r.prev = [l.prev EXCEPT ![x] = l.tail]
      /\ r.next = Link([l.next EXCEPT ![x] = Nil], l.tail, x)
      /\ r = [head |-> r.head, tail |-> r.tail, prev |-> r.prev, next |-> r.next]
  BY DEF PushBack
<1> HIDE DEF n, u, r
<1>9. /\ r.prev \in [pool -> pool \cup {Nil}] /\ r.next \in [pool -> pool \cup {Nil}]
      /\ \A p \in pool : r.prev[p] = IF p = x THEN l.tail ELSE l.prev[p]
      /\ \A p \in pool : r.next[p] = IF l.tail # Nil /\ p = l.tail THEN x
                                     ELSE IF p = x THEN Nil ELSE l.next[p]
  BY <1>7, <1>8 DEF Link
<1>10. IsList(r, pool)
  BY <1>7, <1>8, <1>9 DEF IsList
<1>11. \A k \in 1 .. n : s[k] # x
  BY DEF n
<1>12. \A k, m \in 1 .. n + 1 : u[k] = u[m] => k = m
  BY <1>1, <1>2, <1>5, <1>11
<1>13. r.head = u[1] /\ r.tail = u[n + 1]
  BY <1>1, <1>5, <1>6, <1>7, <1>8
<1>14. ASSUME NEW k \in 1 .. n + 1
       PROVE  /\ r.next[u[k]] = IF k = n + 1 THEN Nil ELSE u[k + 1]
              /\ r.prev[u[k]] = IF k = 1 THEN Nil ELSE u[k - 1]
  <2>1. CASE k = n + 1
    <3>1. u[k] = x /\ (n # 0 => u[k - 1] = s[n])
      BY <1>1, <1>5, <2>1
    <3>2. r.prev[x] = l.tail /\ l.tail # x
      <4>1. n # 0 => s[n] # x
        BY <1>1, <1>11
      <4> QED
        BY <1>6, <1>9, <4>1
    <3> QED
      BY <1>1, <1>6, <1>9, <2>1, <3>1, <3>2
  <2>2. CASE k # n + 1
    <3>1. k \in 1 .. n /\ u[k] = s[k] /\ s[k] \in pool /\ s[k] # x /\ n # 0
      BY <1>1, <1>5, <1>11, <2>2
    <3>2. u[k + 1] = (IF k = n THEN x ELSE s[k + 1]) /\ (k # 1 => u[k - 1] = s[k - 1])
      BY <1>1, <1>5, <2>2
    <3>3. s[k] = l.tail <=> k = n
      BY <1>1, <1>2, <1>6, <3>1
    <3>4. r.next[s[k]] = IF k = n THEN x ELSE s[k + 1]
      BY <1>3, <1>6, <1>9, <3>1, <3>3
    <3>5. r.prev[s[k]] = IF k = 1 THEN Nil ELSE s[k - 1]
      BY <1>3, <1>9, <3>1
    <3> QED
      BY <1>1, <2>2, <3>1, <3>2, <3>4, <3>5
  <2> QED
    BY <2>1, <2>2
<1>15. Represents(r, u)
  <2>1. u # <<>>
    BY <1>1, <1>4
  <2> QED
    BY <1>4, <1>12, <1>13, <1>14, <2>1 DEF Represents
<1> QED
  BY <1>4, <1>10, <1>15 DEF u, r

LEMMA NoNodes ==
  ASSUME NEW pool, Nil \notin pool, IsFiniteSet(pool), NEW l, IsList(l, pool),
         l.head = Nil, l.tail = Nil
  PROVE  Nodes(l) = <<>> /\ Represents(l, <<>>)
<1>1. <<>> \in Seq(pool)
  OBVIOUS
<1>2. Represents(l, <<>>)
  BY DEF Represents
<1> QED
  BY <1>1, <1>2, NodesMet

\* What becomes of a sequence when place j is taken out and put in front, or
\* at the end.
ToFront(s, j) == [k \in 1 .. Len(s) |-> IF k = 1 THEN s[j] ELSE IF k <= j THEN s[k - 1] ELSE s[k]]

ToBack(s, j) == [k \in 1 .. Len(s) |-> IF k = Len(s) THEN s[j] ELSE IF k < j THEN s[k] ELSE s[k + 1]]

LEMMA WithoutFacts ==
  ASSUME NEW pool, NEW s \in Seq(pool), NEW j \in 1 .. Len(s),
         \A k, m \in 1 .. Len(s) : s[k] = s[m] => k = m
  PROVE  /\ Len(Without(s, j)) = Len(s) - 1
         /\ \A k \in 1 .. Len(s) - 1 : Without(s, j)[k] # s[j]
         /\ <<s[j]>> \o Without(s, j) = ToFront(s, j)
         /\ Append(Without(s, j), s[j]) = ToBack(s, j)
<1> DEFINE n == Len(s)
           u == Without(s, j)
<1>1. n \in Nat /\ j \in 1 .. n /\ n - 1 \in Nat /\ \A k \in 1 .. n : s[k] \in pool
  OBVIOUS
<1>2. u = [i \in 1 .. n - 1 |-> IF i < j THEN s[i] ELSE s[i + 1]]
  BY DEF Without
<1>3. \A k, m \in 1 .. n : s[k] = s[m] => k = m
  OBVIOUS
<1>4. ToFront(s, j) = [k \in 1 .. n |-> IF k = 1 THEN s[j] ELSE IF k <= j THEN s[k - 1] ELSE s[k]]
  BY DEF ToFront
<1>5. ToBack(s, j) = [k \in 1 .. n |-> IF k = n THEN s[j] ELSE IF k < j THEN s[k] ELSE s[k + 1]]
  BY DEF ToBack
<1> HIDE DEF n, u
<1>6. u \in Seq(pool) /\ Len(u) = n - 1
  <2>1. \A i \in 1 .. n - 1 : u[i] \in pool
    BY <1>1, <1>2
  <2> QED
    BY <1>1, <1>2, <2>1
<1>7. \A k \in 1 .. n - 1 : u[k] # s[j]
  BY <1>1, <1>2, <1>3
<1>8. <<s[j]>> \o u = ToFront(s, j)
  <2> DEFINE v == <<s[j]>> \o u
  <2>1. Len(v) = n /\ v = [i \in 1 .. n |-> v[i]]
    BY <1>1, <1>6
  <2>2. \A i \in 1 .. n : v[i] = IF i = 1 THEN s[j] ELSE u[i - 1]
    BY <1>1, <1>6
  <2>3. \A i \in 1 .. n : v[i] = IF i = 1 THEN s[j] ELSE IF i <= j THEN s[i - 1] ELSE s[i]
    BY <1>1, <1>2, <2>2
  <2>4. v = ToFront(s, j)
    <3> HIDE DEF v
    <3> QED
      BY <1>4, <2>1, <2>3
  <2> QED
    BY <2>4
<1>9. Append(u, s[j]) = ToBack(s, j)
  <2> DEFINE v == Append(u, s[j])
  <2>1. Len(v) = n /\ v = [i \in 1 .. n |-> v[i]]
    BY <1>1, <1>6
  <2>2. \A i \in 1 .. n : v[i] = IF i = n THEN s[j] ELSE u[i]
    BY <1>1, <1>6
  <2>3. \A i \in 1 .. n : v[i] = IF i = n THEN s[j] ELSE IF i < j THEN s[i] ELSE s[i + 1]
    BY <1>1, <1>2, <2>2
  <2>4. v = ToBack(s, j)
    <3> HIDE DEF v
    <3> QED
      BY <1>5, <2>1, <2>3
  <2> QED
    BY <2>4
<1> QED
  BY <1>6, <1>7, <1>8, <1>9 DEF n, u

LEMMA MovesToFront ==
  ASSUME NEW pool, Nil \notin pool, IsFiniteSet(pool), NEW l, IsList(l, pool),
         NEW s \in Seq(pool), Represents(l, s), NEW j \in 1 .. Len(s)
  PROVE  /\ IsList(PushFront(Remove(l, s[j]), s[j]), pool)
         /\ Represents(PushFront(Remove(l, s[j]), s[j]), ToFront(s, j))
         /\ Nodes(PushFront(Remove(l, s[j]), s[j])) = ToFront(s, j)
<1>1. \A k, m \in 1 .. Len(s) : s[k] = s[m] => k = m
  BY DEF Represents
<1>2. /\ IsList(Remove(l, s[j]), pool)
      /\ Without(s, j) \in Seq(pool)
      /\ Represents(Remove(l, s[j]), Without(s, j))
  BY RemoveUnlinks
<1>3. /\ \A k \in 1 .. Len(Without(s, j)) : Without(s, j)[k] # s[j]
      /\ <<s[j]>> \o Without(s, j) = ToFront(s, j)
  BY <1>1, WithoutFacts
<1>4. s[j] \in pool
  OBVIOUS
<1>5. /\ IsList(PushFront(Remove(l, s[j]), s[j]), pool)
      /\ ToFront(s, j) \in Seq(pool)
      /\ Represents(PushFront(Remove(l, s[j]), s[j]), ToFront(s, j))
  BY <1>2, <1>3, <1>4, PushFrontLinks
<1> QED
  BY <1>5, NodesMet

LEMMA MovesToBack ==
  ASSUME NEW pool, Nil \notin pool, IsFiniteSet(pool), NEW l, IsList(l, pool),
         NEW s \in Seq(pool), Represents(l, s), NEW j \in 1 .. Len(s)
  PROVE  /\ IsList(PushBack(Remove(l, s[j]), s[j]), pool)
         /\ Represents(PushBack(Remove(l, s[j]), s[j]), ToBack(s, j))
         /\ Nodes(PushBack(Remove(l, s[j]), s[j])) = ToBack(s, j)
<1>1. \A k, m \in 1 .. Len(s) : s[k] = s[m] => k = m
  BY DEF Represents
<1>2. /\ IsList(Remove(l, s[j]), pool)
      /\ Without(s, j) \in Seq(pool)
      /\ Represents(Remove(l, s[j]), Without(s, j))
  BY RemoveUnlinks
<1>3. /\ \A k \in 1 .. Len(Without(s, j)) : Without(s, j)[k] # s[j]
      /\ Append(Without(s, j), s[j]) = ToBack(s, j)
  BY <1>1, WithoutFacts
<1>4. s[j] \in pool
  OBVIOUS
<1>5. /\ IsList(PushBack(Remove(l, s[j]), s[j]), pool)
      /\ ToBack(s, j) \in Seq(pool)
      /\ Represents(PushBack(Remove(l, s[j]), s[j]), ToBack(s, j))
  BY <1>2, <1>3, <1>4, PushBackLinks
<1> QED
  BY <1>5, NodesMet

-----------------------------------------------------------------------------
(* Frames.                                                                   *)

USE ByteEven

Pages == 0 .. Byte - 2

Slots == 0 .. num_frames - 1

Policies == {"fifo", "min", "lru", "second_chance"}

\* What the program needs to be asked for, unless it refuses: no more frames
\* than an int8_t has indices for, and no page with the number that stands for
\* an empty frame.
FitsBytes == \A a \in Args : ~Refused(a.n, a.typed) =>
  /\ Uint8(a.n) <= Byte \div 2
  /\ \A k \in DOMAIN ParseQuery(a.typed) : ParseQuery(a.typed)[k] # FrameEmpty

LEMMA ByteFacts ==
  /\ FrameEmpty \in Bytes /\ FrameEmpty \notin Pages /\ Pages \subseteq Bytes
  /\ \A p \in Bytes : p # FrameEmpty => p \in Pages
  /\ Byte \div 2 \in Nat /\ Byte \div 2 < Byte - 1 /\ 0 \in Bytes /\ 1 \in Bytes
  /\ \A i \in Bytes : Uint8(i) = i
  /\ \A i \in Int : Uint8(i) \in Bytes
  /\ \A i \in Nat : i < Byte \div 2 => Int8(i) = i
BY DEF FrameEmpty, Bytes, Pages, Uint8, Int8

\* The frames below c have pages, and the others none.
Filled(c) == c \in 0 .. num_frames /\ \A i \in Slots : frames[i] # FrameEmpty <=> i < c

Framed ==
  /\ num_frames \in 0 .. Byte \div 2
  /\ frames \in [Slots -> Bytes]
  /\ \A i, j \in Slots : frames[i] = frames[j] /\ frames[i] # FrameEmpty => i = j
  /\ \E c \in 0 .. num_frames : Filled(c)

LEMMA SlotFacts ==
  ASSUME Framed, NEW i \in Slots
  PROVE  i \in Nat /\ i \in Bytes /\ Int8(i) = i /\ Uint8(i) = i /\ frames[i] \in Bytes
<1>1. i \in Nat /\ i < Byte \div 2
  BY ByteFacts DEF Framed, Slots
<1>2. i \in Bytes
  BY <1>1, ByteFacts DEF Bytes
<1> QED
  BY <1>1, <1>2, ByteFacts DEF Framed

\* find_page finds a page where it is.
LEMMA FindPageFinds ==
  ASSUME Framed, NEW p \in Pages
  PROVE  /\ FindPage(p) = -1 <=> p \notin Resident
         /\ FindPage(p) # -1 => FindPage(p) \in Slots /\ frames[FindPage(p)] = p
<1>1. DOMAIN frames = Slots /\ p # FrameEmpty
  BY ByteFacts DEF Framed
<1>2. p \in Resident <=> \E i \in Slots : frames[i] = p
  BY <1>1 DEF Resident
<1>3. CASE \E i \in Slots : frames[i] = p
  <2>1. PICK i \in Slots : frames[i] = p
    BY <1>3
  <2>2. \A j \in Slots : frames[j] = p => j = i
    BY <1>1, <2>1 DEF Framed
  <2>3. i <= i
    BY SlotFacts
  <2>4. (CHOOSE k \in Slots : frames[k] = p /\ \A j \in Slots : frames[j] = p => k <= j) = i
    BY <2>1, <2>2, <2>3
  <2>5. FindPage(p) = i
    BY <1>1, <1>3, <2>4, SlotFacts DEF FindPage
  <2>6. i # -1
    BY SlotFacts
  <2> QED
    BY <1>2, <1>3, <2>1, <2>5, <2>6
<1>4. CASE ~ \E i \in Slots : frames[i] = p
  BY <1>1, <1>2, <1>4 DEF FindPage
<1> QED
  BY <1>3, <1>4

\* find_empty finds the first empty frame.
LEMMA FindEmptyFinds ==
  ASSUME Framed, NEW c, Filled(c)
  PROVE  FindEmpty = IF c = num_frames THEN -1 ELSE c
<1>1. DOMAIN frames = Slots /\ c \in 0 .. num_frames /\ num_frames \in Nat
  BY ByteFacts DEF Framed, Filled
<1>2. \A i \in Slots : frames[i] = FrameEmpty <=> c <= i
  BY <1>1 DEF Filled, Slots
<1>3. CASE c = num_frames
  <2>1. \A i \in Slots : frames[i] # FrameEmpty
    BY <1>1, <1>2, <1>3 DEF Slots
  <2> QED
    BY <1>1, <1>3, <2>1 DEF FindEmpty, FindPage
<1>4. CASE c # num_frames
  <2>1. c \in Slots /\ frames[c] = FrameEmpty
    BY <1>1, <1>2, <1>4 DEF Slots
  <2>2. \A k \in Slots : (frames[k] = FrameEmpty /\ \A j \in Slots : frames[j] = FrameEmpty => k <= j)
                           <=> k = c
    BY <1>1, <1>2, <2>1 DEF Slots
  <2>3. (CHOOSE k \in Slots : frames[k] = FrameEmpty
                              /\ \A j \in Slots : frames[j] = FrameEmpty => k <= j) = c
    BY <2>1, <2>2
  <2>4. FindPage(FrameEmpty) = Int8(c)
    BY <1>1, <2>1, <2>3 DEF FindPage
  <2> QED
    BY <1>4, <2>1, <2>4, SlotFacts DEF FindEmpty
<1> QED
  BY <1>3, <1>4

\* Storing a page that is not there keeps the frames in order.
LEMMA StoreFrames ==
  ASSUME Framed, NEW i \in Slots, NEW p \in Pages, p \notin Resident,
         num_frames' = num_frames, frames' = [frames EXCEPT ![i] = p],
         NEW c, Filled(c), i <= c
  PROVE  /\ Framed'
         /\ Filled(IF i = c THEN c + 1 ELSE c)'
         /\ frames'[i] = p
         /\ Resident' \subseteq Resident \cup {p}
<1>1. Slots' = Slots /\ i \in Nat /\ p \in Bytes /\ p # FrameEmpty /\ num_frames \in Nat
  BY SlotFacts, ByteFacts DEF Slots, Framed
<1>2. /\ frames \in [Slots -> Bytes] /\ frames' \in [Slots -> Bytes]
      /\ \A j \in Slots : frames'[j] = IF j = i THEN p ELSE frames[j]
  BY <1>1 DEF Framed
<1>3. \A j \in Slots : frames[j] # p
  BY <1>1, <1>2 DEF Resident
<1>4. \A j, k \in Slots : frames'[j] = frames'[k] /\ frames'[j] # FrameEmpty => j = k
  BY <1>2, <1>3 DEF Framed
<1> DEFINE d == IF i = c THEN c + 1 ELSE c
<1>5. d \in 0 .. num_frames /\ \A j \in Slots : frames'[j] # FrameEmpty <=> j < d
  <2>1. c \in 0 .. num_frames /\ \A j \in Slots : frames[j] # FrameEmpty <=> j < c
    BY DEF Filled
  <2>2. d \in 0 .. num_frames
    BY <1>1, <2>1 DEF Slots
  <2> QED
    BY <1>1, <1>2, <2>1, <2>2 DEF Slots
<1>6. Filled(d)'
  BY <1>1, <1>5 DEF Filled
<1>7. Framed'
  BY <1>1, <1>2, <1>4, <1>5, <1>6 DEF Framed
<1>8. Resident' \subseteq Resident \cup {p}
  BY <1>2 DEF Resident
<1> QED
  BY <1>1, <1>2, <1>6, <1>7, <1>8

\* As many pages are resident as frames are filled.
LEMMA ResidentCount ==
  ASSUME Framed, NEW c, Filled(c)
  PROVE  IsFiniteSet(Resident) /\ Cardinality(Resident) = c
<1>1. num_frames \in Nat /\ c \in Nat /\ c <= num_frames /\ DOMAIN frames = Slots
  BY ByteFacts DEF Framed, Filled
<1>2. \A i \in 0 .. c - 1 : i \in Slots /\ frames[i] # FrameEmpty
  BY <1>1 DEF Filled, Slots
<1>3. Resident = {frames[i] : i \in 0 .. c - 1}
  <2>1. \A i \in Slots : frames[i] # FrameEmpty => i \in 0 .. c - 1
    BY <1>1 DEF Filled, Slots
  <2> QED
    BY <1>1, <1>2, <2>1 DEF Resident
<1> DEFINE f == [i \in 0 .. c - 1 |-> frames[i]]
<1>4. f \in Bijection(0 .. c - 1, Resident)
  <2>1. \A i, j \in 0 .. c - 1 : f[i] = f[j] => i = j
    BY <1>2 DEF Framed
  <2>2. f \in [0 .. c - 1 -> Resident] /\ \A p \in Resident : \E i \in 0 .. c - 1 : f[i] = p
    BY <1>3
  <2> QED
    BY <2>1, <2>2 DEF Bijection, Injection, IsInjective, Surjection
<1>5. IsFiniteSet(0 .. c - 1) /\ Cardinality(0 .. c - 1) = c
  BY <1>1, FS_Interval
<1>6. ExistsBijection(0 .. c - 1, Resident)
  BY <1>4 DEF ExistsBijection
<1> QED
  BY <1>5, <1>6, FS_Bijection

\* A list that keeps the frames 0 .. c - 1: node k stands for frame k.
Listed(l, nd, c) ==
  /\ Filled(c)
  /\ \A k \in 0 .. c - 1 : nd[k].page = frames[k] /\ nd[k].frame_idx = k
  /\ Nodes(l) \in [1 .. c -> 0 .. c - 1]
  /\ Represents(l, Nodes(l))

LEMMA ListedFacts ==
  ASSUME Framed, NEW l, NEW nd, NEW c, Listed(l, nd, c)
  PROVE  /\ c \in Nat /\ c <= num_frames
         /\ Nodes(l) \in Seq(Bytes) /\ Len(Nodes(l)) = c
         /\ \A k \in 1 .. c : Nodes(l)[k] \in Slots /\ Nodes(l)[k] < c
         /\ \A k, m \in 1 .. c : Nodes(l)[k] = Nodes(l)[m] => k = m
         /\ \A i \in 0 .. c - 1 : \E k \in 1 .. c : Nodes(l)[k] = i
<1> DEFINE s == Nodes(l)
<1>1. num_frames \in Nat /\ c \in Nat /\ c <= num_frames /\ num_frames < Byte
  BY ByteFacts DEF Framed, Filled, Listed
<1>2. s \in [1 .. c -> 0 .. c - 1] /\ \A k, m \in 1 .. c : s[k] = s[m] => k = m
  BY DEF Listed, Represents
<1>3. \A i \in 0 .. c - 1 : \E k \in 1 .. c : s[k] = i
  <2>1. s \in Injection(1 .. c, 0 .. c - 1)
    BY <1>2 DEF Injection, IsInjective
  <2>2. IsFiniteSet(1 .. c) /\ Cardinality(1 .. c) = c
    BY <1>1, FS_Interval
  <2>3. IsFiniteSet(0 .. c - 1) /\ Cardinality(0 .. c - 1) = c
    BY <1>1, FS_Interval
  <2>4. s \in Surjection(1 .. c, 0 .. c - 1)
    BY <2>1, <2>2, <2>3, FS_Injection
  <2> QED
    BY <2>4 DEF Surjection
<1>4. \A k \in 1 .. c : s[k] \in Slots /\ s[k] < c /\ s[k] \in Bytes
  BY <1>1, <1>2 DEF Slots, Bytes
<1> HIDE DEF s
<1>5. s \in Seq(Bytes) /\ Len(s) = c
  BY <1>1, <1>2, <1>4
<1> QED
  BY <1>1, <1>2, <1>3, <1>4, <1>5 DEF s

\* The search both lists make.
Find(l, nd, p) ==
  LET s    == Nodes(l)
      here == {k \in DOMAIN s : nd[s[k]].page = p}
  IN IF here = {} THEN Nil ELSE s[CHOOSE k \in here : \A j \in here : k <= j]

\* A list finds the pages that are in memory, at their frames.
LEMMA FindsNode ==
  ASSUME Framed, NEW l, NEW nd, NEW c, Listed(l, nd, c), NEW p \in Pages
  PROVE  /\ p \notin Resident => Find(l, nd, p) = Nil
         /\ p \in Resident =>
              \E j \in 1 .. c : /\ Find(l, nd, p) = Nodes(l)[j]
                               /\ frames[Nodes(l)[j]] = p
                               /\ nd[Nodes(l)[j]].frame_idx = Nodes(l)[j]
<1> DEFINE s == Nodes(l)
           here == {k \in DOMAIN s : nd[s[k]].page = p}
<1>1. /\ c \in Nat /\ c <= num_frames /\ num_frames \in Nat
      /\ DOMAIN s = 1 .. c
      /\ \A k \in 1 .. c : s[k] \in Slots /\ s[k] \in 0 .. c - 1
      /\ \A k, m \in 1 .. c : s[k] = s[m] => k = m
      /\ \A i \in 0 .. c - 1 : \E k \in 1 .. c : s[k] = i
  <2>1. num_frames \in Nat
    BY ByteFacts DEF Framed
  <2>2. s \in [1 .. c -> 0 .. c - 1]
    BY DEF Listed
  <2>3. /\ c \in Nat /\ c <= num_frames
        /\ \A k \in 1 .. c : s[k] \in Slots
        /\ \A k, m \in 1 .. c : s[k] = s[m] => k = m
        /\ \A i \in 0 .. c - 1 : \E k \in 1 .. c : s[k] = i
    BY ListedFacts
  <2> HIDE DEF s
  <2> QED
    BY <2>1, <2>2, <2>3
<1>2. p # FrameEmpty /\ DOMAIN frames = Slots
  BY ByteFacts DEF Framed
<1>3. \A k \in 1 .. c : nd[s[k]].page = frames[s[k]] /\ nd[s[k]].frame_idx = s[k]
  BY <1>1 DEF Listed
<1>4. \A i \in Slots : frames[i] # FrameEmpty <=> i < c
  BY DEF Listed, Filled
<1>5. here = {k \in 1 .. c : frames[s[k]] = p}
  BY <1>1, <1>3
<1>6. Find(l, nd, p) = IF here = {} THEN Nil ELSE s[CHOOSE k \in here : \A j \in here : k <= j]
  BY DEF Find
<1> HIDE DEF s, here
<1>7. CASE p \notin Resident
  <2>1. here = {}
    BY <1>1, <1>2, <1>5, <1>7 DEF Resident
  <2> QED
    BY <1>6, <1>7, <2>1
<1>8. CASE p \in Resident
  <2>1. PICK i \in Slots : frames[i] = p
    BY <1>2, <1>8 DEF Resident
  <2>2. i \in 0 .. c - 1
    BY <1>1, <1>2, <1>4, <2>1 DEF Slots
  <2>3. PICK j \in 1 .. c : s[j] = i
    BY <1>1, <2>2
  <2>4. here = {j}
    <3>1. \A k \in here : s[k] = i
      BY <1>1, <1>2, <1>5, <2>1 DEF Framed
    <3> QED
      BY <1>1, <1>5, <2>1, <2>3, <3>1
  <2>5. (CHOOSE k \in here : \A m \in here : k <= m) = j
    BY <1>1, <2>4
  <2>6. Find(l, nd, p) = s[j]
    BY <1>6, <2>4, <2>5
  <2> QED
    BY <1>3, <1>8, <2>1, <2>3, <2>6 DEF s
<1> QED
  BY <1>7, <1>8

-----------------------------------------------------------------------------
(* What an access does.                                                      *)

\* A hit in the frame that has p.
HitAt(i, p) == i \in Slots /\ frames[i] = p /\ Hit(i)

\* p goes to frame i, and its page, if there is one, is evicted.
LoadAt(i, p) ==
  /\ i \in Slots
  /\ p \notin Resident
  /\ frames' = [frames EXCEPT ![i] = p]
  /\ result' = Result(FALSE, frames[i], i)
  /\ num_frames' = num_frames /\ hits' = hits

\* What one policy keeps is not there while another one runs.
FifoInv ==
  /\ FifoTypeOK
  /\ algo = "fifo" => /\ Filled(fifo_count)
                      /\ \A j \in 0 .. fifo_count - 1 : fifo_queue[j] = j
  /\ fifo_head # 0 => algo = "fifo" /\ fifo_count = num_frames

LruInv ==
  /\ IsList(lru_list, Bytes)
  /\ lru_node \in [Bytes -> [page : Bytes, frame_idx : Bytes]]
  /\ lru_count \in Bytes
  /\ IF algo = "lru" THEN Listed(lru_list, lru_node, lru_count)
                     ELSE lru_list.head = Nil /\ lru_list.tail = Nil

ScInv ==
  /\ IsList(sc_list, Bytes)
  /\ sc_node \in [Bytes -> [page : Bytes, frame_idx : Bytes, ref_bit : {0, 1}]]
  /\ sc_count \in Bytes
  /\ IF algo = "second_chance" THEN Listed(sc_list, sc_node, sc_count)
                               ELSE sc_list.head = Nil /\ sc_list.tail = Nil

LEMMA FillLoads ==
  ASSUME Framed, NEW c, Filled(c), NEW p \in Pages, p \notin Resident, Fill(p)
  PROVE  c \in Slots /\ FindEmpty = c /\ Uint8(c) = c /\ LoadAt(c, p) /\ misses' = misses + 1
<1>1. c # num_frames /\ FindEmpty = c
  BY FindEmptyFinds DEF Fill
<1>2. c \in Slots
  BY <1>1, ByteFacts DEF Filled, Framed, Slots
<1>3. frames[c] = FrameEmpty /\ DOMAIN frames = Slots
  <2>1. ~ c < c
    BY <1>2, SlotFacts
  <2> QED
    BY <1>2, <2>1 DEF Filled, Framed
<1>4. frames' = [frames EXCEPT ![c] = p] /\ result' = Result(FALSE, frames[c], c)
  BY <1>1, <1>2, <1>3 DEF Fill, Store
<1> QED
  BY <1>1, <1>2, <1>4, SlotFacts DEF LoadAt, Fill

LEMMA ReplaceLoads ==
  ASSUME Framed, NEW i \in Slots, NEW p \in Pages, p \notin Resident, Replace(i, frames[i], p)
  PROVE  LoadAt(i, p)
<1>1. frames' = [frames EXCEPT ![i] = p]
  BY DEF Replace, Store, Framed
<1> QED
  BY <1>1 DEF LoadAt, Replace

LEMMA FifoForms ==
  ASSUME Framed, num_frames > 0, FifoInv, algo = "fifo", NEW p \in Pages, FifoAccess(p)
  PROVE  \/ \E i : HitAt(i, p) /\ UNCHANGED fifoVars
         \/ /\ fifo_count < num_frames /\ fifo_head = 0
            /\ LoadAt(fifo_count, p) /\ misses' = misses + 1
            /\ fifo_queue' = [fifo_queue EXCEPT ![fifo_count] = fifo_count]
            /\ fifo_count' = fifo_count + 1 /\ fifo_head' = fifo_head
         \/ /\ fifo_count = num_frames
            /\ LoadAt(fifo_head, p) /\ misses' = misses + 1
            /\ fifo_head' = (fifo_head + 1) % num_frames
            /\ UNCHANGED <<fifo_queue, fifo_count>>
<1>1. CASE FifoHit(p)
  BY <1>1, FindPageFinds DEF FifoHit, HitAt
<1>2. CASE FifoFill(p)
  <2>1. p \notin Resident /\ Fill(p) /\ Filled(fifo_count)
    BY <1>2, FindPageFinds DEF FifoFill, FifoInv
  <2>2. /\ fifo_count \in Slots /\ FindEmpty = fifo_count /\ Uint8(fifo_count) = fifo_count
        /\ LoadAt(fifo_count, p) /\ misses' = misses + 1
    BY <2>1, FillLoads
  <2>3. fifo_count \in Nat /\ num_frames \in Nat /\ fifo_count < num_frames /\ num_frames <= Byte \div 2
    BY <2>2, SlotFacts, ByteFacts DEF Slots, Framed
  <2>4. fifo_head = 0
    BY <2>3 DEF FifoInv
  <2>5. (fifo_head + fifo_count) % num_frames = fifo_count
    <3>1. num_frames \in Nat \ {0} /\ fifo_count \in 0 .. 2 * num_frames - 1
      BY <2>3
    <3> QED
      BY <2>3, <2>4, <3>1, Wraps
  <2>6. Uint8(fifo_count + 1) = fifo_count + 1
    <3>1. fifo_count + 1 \in Bytes
      BY <2>3, ByteFacts DEF Bytes
    <3> QED
      BY <3>1, ByteFacts
  <2> QED
    BY <1>2, <2>2, <2>3, <2>4, <2>5, <2>6 DEF FifoFill
<1>3. CASE FifoEvict(p)
  <2>1. p \notin Resident /\ Filled(fifo_count) /\ FindEmpty = -1
    BY <1>3, FindPageFinds DEF FifoEvict, FifoInv
  <2>2. fifo_count \in 0 .. num_frames /\ num_frames \in Nat
    BY <2>1, ByteFacts DEF Filled, Framed
  <2>3. fifo_count = num_frames
    BY <2>1, <2>2, FindEmptyFinds
  <2>4. fifo_head \in 0 .. fifo_count - 1
    BY <2>2, <2>3 DEF FifoInv, FifoTypeOK
  <2>5. fifo_queue[fifo_head] = fifo_head /\ fifo_head \in Slots
    BY <2>3, <2>4 DEF FifoInv, Slots
  <2>6. LoadAt(fifo_head, p)
    BY <1>3, <2>1, <2>5, ReplaceLoads DEF FifoEvict
  <2> QED
    BY <1>3, <2>3, <2>6 DEF FifoEvict
<1> QED
  BY <1>1, <1>2, <1>3 DEF FifoAccess

LEMMA NextUseType ==
  ASSUME query \in Seq(Pages), NEW p, NEW k \in Nat
  PROVE  NextUse(p, k) \in Nat /\ NextUse(p, k) <= Never + Len(query)
<1> DEFINE later == {j \in k + 1 .. Len(query) - 1 : query[j + 1] = p}
<1>1. Len(query) \in Nat /\ Never \in Nat
  BY DEF Never
<1>2. CASE later = {}
  BY <1>1, <1>2 DEF NextUse
<1>3. CASE later # {}
  <2>1. later \in SUBSET Nat
    BY <1>1
  <2>2. \E j \in later : \A i \in later : j <= i
    BY <1>3, <2>1, SmallestNumber
  <2>3. NextUse(p, k) \in later
    BY <1>3, <2>2 DEF NextUse
  <2> QED
    BY <1>1, <2>3
<1> QED
  BY <1>2, <1>3

\* There is a best victim when all frames are filled.
LEMMA MinFindsVictim ==
  ASSUME Framed, num_frames > 0, Filled(num_frames), query \in Seq(Pages), NEW k \in Nat
  PROVE  /\ MinVictim(k) \in Slots
         /\ \A j \in Slots : NextUse(frames[j], k) <= NextUse(frames[MinVictim(k)], k)
<1> DEFINE key(i) == NextUse(frames[i], k)
           top    == Never + Len(query)
<1>1. num_frames \in Nat /\ DOMAIN frames = Slots /\ 0 \in Slots
  BY ByteFacts DEF Framed, Slots
<1>2. \A i \in Slots : key(i) \in Nat /\ key(i) <= top
  BY NextUseType
<1>3. \A i, j \in Slots : frames[i] = frames[j] => i = j
  BY <1>1 DEF Framed, Filled, Slots
<1>4. \A i \in Slots : frames[i] \in Nat
  BY DEF Framed, Bytes
<1>5. top \in Nat
  BY DEF Never
<1>6. MinVictim(k) = CHOOSE i \in Slots : \A j \in Slots :
                       \/ i = j
                       \/ key(i) > key(j)
                       \/ key(i) = key(j) /\ frames[i] < frames[j]
                       \/ key(i) = key(j) /\ frames[i] = frames[j] /\ i < j
  BY <1>1 DEF MinVictim, Better
<1> HIDE DEF key, top
<1>7. PICK far \in Slots : \A j \in Slots : key(far) >= key(j)
  <2> DEFINE gaps == {top - key(i) : i \in Slots}
  <2>1. gaps \in SUBSET Nat /\ gaps # {}
    BY <1>1, <1>2, <1>5
  <2>2. PICK g \in gaps : \A h \in gaps : g <= h
    BY <2>1, SmallestNumber
  <2>3. PICK i \in Slots : g = top - key(i)
    BY <2>2
  <2>4. \A j \in Slots : top - key(i) <= top - key(j)
    BY <2>2, <2>3
  <2> QED
    BY <1>2, <1>5, <2>4
<1>8. PICK v \in Slots : key(v) = key(far) /\ \A j \in Slots : key(j) = key(far) => frames[v] <= frames[j]
  <2> DEFINE names == {frames[i] : i \in {j \in Slots : key(j) = key(far)}}
  <2>1. names \in SUBSET Nat /\ names # {}
    BY <1>4
  <2>2. PICK f \in names : \A g \in names : f <= g
    BY <2>1, SmallestNumber
  <2> QED
    BY <2>2
<1>9. \A j \in Slots : \/ v = j
                       \/ key(v) > key(j)
                       \/ key(v) = key(j) /\ frames[v] < frames[j]
                       \/ key(v) = key(j) /\ frames[v] = frames[j] /\ v < j
  BY <1>2, <1>3, <1>4, <1>7, <1>8
<1>10. PICK m : m = MinVictim(k)
  OBVIOUS
<1>11. m \in Slots /\ \A j \in Slots : \/ m = j
                                       \/ key(m) > key(j)
                                       \/ key(m) = key(j) /\ frames[m] < frames[j]
                                       \/ key(m) = key(j) /\ frames[m] = frames[j] /\ m < j
  BY <1>6, <1>9, <1>10
<1>12. \A j \in Slots : key(j) <= key(m)
  BY <1>2, <1>11
<1> QED
  BY <1>10, <1>11, <1>12 DEF key

LEMMA MinForms ==
  ASSUME Framed, num_frames > 0, query \in Seq(Pages), NEW k \in Nat,
         NEW p \in Pages, MinAccess(p, k)
  PROVE  \/ \E i : HitAt(i, p)
         \/ \E c : c < num_frames /\ Filled(c) /\ LoadAt(c, p) /\ misses' = misses + 1
         \/ \E i : i = MinVictim(k) /\ Filled(num_frames) /\ LoadAt(i, p) /\ misses' = misses + 1
<1>1. CASE MinHit(p)
  BY <1>1, FindPageFinds DEF MinHit, HitAt
<1>2. PICK c : Filled(c) /\ c \in 0 .. num_frames /\ num_frames \in Nat
  BY ByteFacts DEF Framed
<1>3. CASE MinFill(p)
  <2>1. p \notin Resident /\ Fill(p)
    BY <1>3, FindPageFinds DEF MinFill
  <2>2. c \in Slots /\ LoadAt(c, p) /\ misses' = misses + 1
    BY <1>2, <2>1, FillLoads
  <2> QED
    BY <1>2, <2>2 DEF Slots
<1>4. CASE MinEvict(p, k)
  <2> DEFINE v == MinVictim(k)
  <2>1. p \notin Resident /\ FindEmpty = -1
    BY <1>4, FindPageFinds DEF MinEvict
  <2>2. Filled(num_frames)
    BY <1>2, <2>1, FindEmptyFinds
  <2>3. v \in Slots
    BY <2>2, MinFindsVictim
  <2>4. Int8(v) = v
    BY <2>3, SlotFacts
  <2>5. Replace(v, frames[v], p) /\ misses' = misses + 1
    <3>1. v \in DOMAIN frames
      BY <2>3 DEF Framed, Slots
    <3>2. Load(v) = {frames[v]}
      BY <3>1 DEF Load
    <3>3. \E evicted \in Load(v) : Replace(v, evicted, p)
      BY <1>4, <2>4 DEF MinEvict
    <3> QED
      BY <1>4, <3>2, <3>3 DEF MinEvict
  <2>6. LoadAt(v, p)
    <3> HIDE DEF v
    <3> QED
      BY <2>1, <2>3, <2>5, ReplaceLoads
  <2> QED
    BY <2>2, <2>5, <2>6
<1> QED
  BY <1>1, <1>3, <1>4 DEF MinAccess

LEMMA BytesPool == IsFiniteSet(Bytes) /\ Nil \notin Bytes
<1>1. 0 \in Int /\ Byte - 1 \in Int
  OBVIOUS
<1> QED
  BY <1>1, FS_Interval DEF Bytes, Nil

\* l is a list that holds s.
Lists(l, s) == IsList(l, Bytes) /\ Represents(l, s) /\ Nodes(l) = s

\* The outcomes of an access under LRU: the node found comes to the front, a
\* new node is put there, or the last one comes to the front with another page.
LruMoves(p) == \E j \in 1 .. lru_count :
  /\ HitAt(Nodes(lru_list)[j], p)
  /\ Lists(lru_list', ToFront(Nodes(lru_list), j))
  /\ UNCHANGED <<lru_node, lru_count>>

LruAdds(p) ==
  /\ lru_count < num_frames
  /\ LoadAt(lru_count, p) /\ misses' = misses + 1
  /\ Lists(lru_list', <<lru_count>> \o Nodes(lru_list))
  /\ lru_node' = [lru_node EXCEPT ![lru_count] = [page |-> p, frame_idx |-> lru_count]]
  /\ lru_count' = lru_count + 1

LruReuses(p) ==
  LET victim == Nodes(lru_list)[lru_count]
  IN /\ lru_count = num_frames
     /\ LoadAt(victim, p) /\ misses' = misses + 1
     /\ Lists(lru_list', ToFront(Nodes(lru_list), lru_count))
     /\ lru_node' = [lru_node EXCEPT ![victim].page = p]
     /\ UNCHANGED lru_count

LEMMA LruForms ==
  ASSUME Framed, num_frames > 0, LruInv, algo = "lru", NEW p \in Pages, LruAccess(p)
  PROVE  LruMoves(p) \/ LruAdds(p) \/ LruReuses(p)
<1> DEFINE s == Nodes(lru_list)
           c == lru_count
<1>1. IsList(lru_list, Bytes) /\ Listed(lru_list, lru_node, c)
  BY DEF LruInv
<1>2. LruFind(p) = Find(lru_list, lru_node, p)
  BY DEF LruFind, Find
<1>3. Represents(lru_list, s) /\ Filled(c)
  BY <1>1 DEF Listed
<1>4. /\ c \in Nat /\ c <= num_frames
      /\ s \in Seq(Bytes) /\ Len(s) = c
      /\ \A k \in 1 .. c : s[k] \in Slots /\ s[k] < c
      /\ \A k, m \in 1 .. c : s[k] = s[m] => k = m
      /\ \A i \in 0 .. c - 1 : \E k \in 1 .. c : s[k] = i
  BY <1>1, ListedFacts
<1>5. /\ p \notin Resident => LruFind(p) = Nil
      /\ p \in Resident => \E j \in 1 .. c : /\ LruFind(p) = s[j] /\ frames[s[j]] = p
                                            /\ lru_node[s[j]].frame_idx = s[j]
  BY <1>1, <1>2, FindsNode
<1>6. num_frames \in Nat /\ num_frames <= Byte \div 2
  BY ByteFacts DEF Framed
<1>7. \A k \in 1 .. c : s[k] # Nil
  BY <1>4, SlotFacts DEF Nil
<1> HIDE DEF s
<1>8. ASSUME NEW j \in 1 .. c
      PROVE  Lists(PushFront(Remove(lru_list, s[j]), s[j]), ToFront(s, j))
  <2>1. j \in 1 .. Len(s)
    BY <1>4
  <2> QED
    BY <1>1, <1>3, <1>4, <2>1, BytesPool, MovesToFront DEF Lists
<1>9. CASE LruHit(p)
  <2>1. p \in Resident
    BY <1>5, <1>9 DEF LruHit
  <2>2. PICK j \in 1 .. c : /\ LruFind(p) = s[j] /\ frames[s[j]] = p
                            /\ lru_node[s[j]].frame_idx = s[j]
    BY <1>5, <2>1
  <2>3. HitAt(s[j], p)
    BY <1>4, <1>9, <2>2 DEF LruHit, HitAt
  <2>4. lru_list' = PushFront(Remove(lru_list, s[j]), s[j]) /\ UNCHANGED <<lru_node, lru_count>>
    BY <1>9, <2>2 DEF LruHit
  <2>5. Lists(lru_list', ToFront(s, j))
    BY <1>8, <2>4
  <2>6. LruMoves(p)
    BY <2>3, <2>4, <2>5 DEF s, LruMoves
  <2> QED
    BY <2>6
<1>10. CASE LruFill(p)
  <2>1. p \notin Resident /\ Fill(p)
    BY <1>5, <1>7, <1>10 DEF LruFill
  <2>2. /\ c \in Slots /\ FindEmpty = c /\ Uint8(c) = c
        /\ LoadAt(c, p) /\ misses' = misses + 1
    BY <1>3, <2>1, FillLoads
  <2>3. c < num_frames /\ c \in Bytes
    BY <1>4, <1>6, <2>2, SlotFacts DEF Slots
  <2>4. Uint8(c + 1) = c + 1
    <3>1. c + 1 \in Bytes
      BY <1>4, <1>6, <2>3, ByteFacts DEF Bytes
    <3> QED
      BY <3>1, ByteFacts
  <2>5. lru_list' = PushFront(lru_list, c)
    BY <1>10 DEF LruFill
  <2>6. \A k \in 1 .. Len(s) : s[k] # c
    BY <1>4, SlotFacts
  <2>7. /\ IsList(lru_list', Bytes) /\ <<c>> \o s \in Seq(Bytes)
        /\ Represents(lru_list', <<c>> \o s)
    BY <1>1, <1>3, <1>4, <2>3, <2>5, <2>6, BytesPool, PushFrontLinks
  <2>8. Lists(lru_list', <<c>> \o s)
    BY <2>7, BytesPool, NodesMet DEF Lists
  <2>9. lru_node' = [lru_node EXCEPT ![c] = [page |-> p, frame_idx |-> c]] /\ lru_count' = c + 1
    BY <1>10, <2>2, <2>4 DEF LruFill
  <2> QED
    BY <2>2, <2>3, <2>8, <2>9 DEF s, LruAdds
<1>11. CASE LruEvict(p)
  <2>1. p \notin Resident /\ FindEmpty = -1
    BY <1>5, <1>7, <1>11 DEF LruEvict
  <2>2. c = num_frames /\ c \in 1 .. c
    BY <1>3, <1>4, <1>6, <2>1, FindEmptyFinds
  <2>3. lru_list.tail = s[c] /\ s # <<>>
    BY <1>3, <1>4, <2>2 DEF Represents
  <2>4. s[c] \in Slots /\ lru_node[s[c]].page = frames[s[c]] /\ lru_node[s[c]].frame_idx = s[c]
    <3>1. s[c] \in 0 .. c - 1
      BY <1>4, <2>2, SlotFacts
    <3> QED
      BY <1>1, <1>4, <2>2, <3>1 DEF Listed
  <2>5. LoadAt(s[c], p) /\ misses' = misses + 1
    BY <1>11, <2>1, <2>3, <2>4, ReplaceLoads DEF LruEvict
  <2>6. Lists(lru_list', ToFront(s, c))
    BY <1>8, <1>11, <2>2, <2>3 DEF LruEvict
  <2>7. lru_node' = [lru_node EXCEPT ![s[c]].page = p] /\ UNCHANGED lru_count
    BY <1>11, <2>3 DEF LruEvict
  <2> QED
    BY <2>2, <2>5, <2>6, <2>7 DEF s, LruReuses
<1> QED
  BY <1>9, <1>10, <1>11 DEF LruAccess

LEMMA FilledOnce ==
  ASSUME Framed, NEW c, Filled(c), NEW d, Filled(d)
  PROVE  c = d
<1>1. c \in 0 .. num_frames /\ d \in 0 .. num_frames /\ num_frames \in Nat
  BY ByteFacts DEF Framed, Filled
<1>2. \A i \in Slots : i < c <=> i < d
  BY DEF Filled
<1>3. (c < d => c \in Slots) /\ (d < c => d \in Slots)
  BY <1>1 DEF Slots
<1> QED
  BY <1>1, <1>2, <1>3

\* The outcomes under second chance: the node found is marked, a new one is
\* put at the end, a miss is counted, or the node at the head goes to the end,
\* spared or with another page.
ScMarks(p) == \E j \in 1 .. sc_count :
  /\ HitAt(Nodes(sc_list)[j], p)
  /\ sc_node' = [sc_node EXCEPT ![Nodes(sc_list)[j]].ref_bit = 1]
  /\ UNCHANGED <<sc_list, sc_count>>

ScAdds(p) ==
  /\ sc_count < num_frames
  /\ LoadAt(sc_count, p) /\ misses' = misses + 1
  /\ Lists(sc_list', Append(Nodes(sc_list), sc_count))
  /\ sc_node' = [sc_node EXCEPT ![sc_count] = [page |-> p, frame_idx |-> sc_count, ref_bit |-> 0]]
  /\ sc_count' = sc_count + 1

ScSpares ==
  /\ sc_count = num_frames
  /\ sc_node[Nodes(sc_list)[1]].ref_bit = 1
  /\ sc_node' = [sc_node EXCEPT ![Nodes(sc_list)[1]].ref_bit = 0]
  /\ Lists(sc_list', ToBack(Nodes(sc_list), 1))
  /\ UNCHANGED sc_count

ScReuses(p) ==
  /\ sc_count = num_frames
  /\ sc_node[Nodes(sc_list)[1]].ref_bit = 0
  /\ LoadAt(Nodes(sc_list)[1], p) /\ misses' = misses
  /\ sc_node' = [sc_node EXCEPT ![Nodes(sc_list)[1]] = [@ EXCEPT !.page = p]]
  /\ Lists(sc_list', ToBack(Nodes(sc_list), 1))
  /\ UNCHANGED sc_count

LEMMA ScFacts ==
  ASSUME Framed, num_frames > 0, ScInv, algo = "second_chance"
  PROVE  /\ Represents(sc_list, Nodes(sc_list)) /\ Filled(sc_count)
         /\ sc_count \in Nat /\ sc_count <= num_frames
         /\ num_frames \in Nat /\ num_frames <= Byte \div 2
         /\ Nodes(sc_list) \in Seq(Bytes) /\ Len(Nodes(sc_list)) = sc_count
         /\ \A k \in 1 .. sc_count : /\ Nodes(sc_list)[k] \in Slots
                                     /\ Nodes(sc_list)[k] \in 0 .. sc_count - 1
                                     /\ Nodes(sc_list)[k] # Nil
         /\ \A k, m \in 1 .. sc_count : Nodes(sc_list)[k] = Nodes(sc_list)[m] => k = m
         /\ \A p \in Pages : /\ p \notin Resident => ScFind(p) = Nil
                             /\ p \in Resident => \E j \in 1 .. sc_count :
                                  /\ ScFind(p) = Nodes(sc_list)[j]
                                  /\ frames[Nodes(sc_list)[j]] = p
                                  /\ sc_node[Nodes(sc_list)[j]].frame_idx = Nodes(sc_list)[j]
<1> DEFINE s == Nodes(sc_list)
<1>1. Listed(sc_list, sc_node, sc_count)
  BY DEF ScInv
<1>2. Represents(sc_list, s) /\ Filled(sc_count)
  BY <1>1 DEF Listed
<1>3. num_frames \in Nat /\ num_frames <= Byte \div 2
  BY ByteFacts DEF Framed
<1>4. /\ sc_count \in Nat /\ sc_count <= num_frames
      /\ s \in Seq(Bytes) /\ Len(s) = sc_count
      /\ \A k \in 1 .. sc_count : s[k] \in Slots /\ s[k] < sc_count
      /\ \A k, m \in 1 .. sc_count : s[k] = s[m] => k = m
  BY <1>1, ListedFacts
<1>5. \A k \in 1 .. sc_count : s[k] # Nil /\ s[k] \in 0 .. sc_count - 1
  BY <1>4, SlotFacts DEF Nil
<1>6. \A p : ScFind(p) = Find(sc_list, sc_node, p)
  BY DEF ScFind, Find
<1>7. \A p \in Pages : /\ p \notin Resident => ScFind(p) = Nil
                       /\ p \in Resident => \E j \in 1 .. sc_count :
                            /\ ScFind(p) = s[j] /\ frames[s[j]] = p
                            /\ sc_node[s[j]].frame_idx = s[j]
  BY <1>1, <1>6, FindsNode
<1>8. \A k \in 1 .. sc_count : s[k] \in Slots /\ s[k] \in 0 .. sc_count - 1 /\ s[k] # Nil
  BY <1>4, <1>5
<1> QED
  BY <1>2, <1>3, <1>4, <1>7, <1>8

LEMMA ScForms ==
  ASSUME Framed, num_frames > 0, ScInv, algo = "second_chance", NEW p \in Pages
  PROVE  /\ ScHit(p) => ScMarks(p)
         /\ ScFill(p) => ScAdds(p)
         /\ ScMiss(p) => p \notin Resident /\ sc_count = num_frames
         /\ sc_count = num_frames /\ ScSweep => ScSpares
         /\ sc_count = num_frames /\ p \notin Resident /\ ScEvict(p) => ScReuses(p)
<1> DEFINE s == Nodes(sc_list)
           c == sc_count
<1>1. /\ IsList(sc_list, Bytes) /\ Listed(sc_list, sc_node, c)
      /\ sc_node \in [Bytes -> [page : Bytes, frame_idx : Bytes, ref_bit : {0, 1}]]
  BY DEF ScInv
<1>2. Represents(sc_list, s) /\ Filled(c)
  BY ScFacts
<1>3. /\ c \in Nat /\ c <= num_frames /\ num_frames \in Nat /\ num_frames <= Byte \div 2
      /\ s \in Seq(Bytes) /\ Len(s) = c
      /\ \A k \in 1 .. c : s[k] \in Slots /\ s[k] \in 0 .. c - 1 /\ s[k] # Nil
      /\ \A k, m \in 1 .. c : s[k] = s[m] => k = m
  BY ScFacts
<1>4. /\ p \notin Resident => ScFind(p) = Nil
      /\ p \in Resident => \E j \in 1 .. c :
            /\ ScFind(p) = s[j] /\ frames[s[j]] = p /\ sc_node[s[j]].frame_idx = s[j]
  BY ScFacts
<1>5. \A k \in 1 .. c : sc_node[s[k]].page = frames[s[k]] /\ sc_node[s[k]].frame_idx = s[k]
  BY <1>1, <1>3 DEF Listed
<1> HIDE DEF s
<1>6. ASSUME ScHit(p) PROVE ScMarks(p)
  <2>1. p \in Resident
    BY <1>4, <1>6 DEF ScHit
  <2>2. PICK j \in 1 .. c : /\ ScFind(p) = s[j] /\ frames[s[j]] = p
                            /\ sc_node[s[j]].frame_idx = s[j]
    BY <1>4, <2>1
  <2>3. HitAt(s[j], p)
    BY <1>3, <1>6, <2>2 DEF ScHit, HitAt
  <2>4. sc_node' = [sc_node EXCEPT ![s[j]].ref_bit = 1] /\ UNCHANGED <<sc_list, sc_count>>
    BY <1>6, <2>2 DEF ScHit
  <2> QED
    BY <2>3, <2>4 DEF s, ScMarks
<1>7. ASSUME ScFill(p) PROVE ScAdds(p)
  <2>1. p \notin Resident /\ Fill(p)
    BY <1>3, <1>4, <1>7 DEF ScFill
  <2>2. /\ c \in Slots /\ FindEmpty = c /\ Uint8(c) = c
        /\ LoadAt(c, p) /\ misses' = misses + 1
    BY <1>2, <2>1, FillLoads
  <2>3. c < num_frames /\ c \in Bytes
    BY <1>3, <2>2, SlotFacts DEF Slots
  <2>4. Uint8(c + 1) = c + 1
    <3>1. c + 1 \in Bytes
      BY <1>3, <2>3, ByteFacts DEF Bytes
    <3> QED
      BY <3>1, ByteFacts
  <2>5. sc_list' = PushBack(sc_list, c)
    BY <1>7 DEF ScFill
  <2>6. \A k \in 1 .. Len(s) : s[k] # c
    BY <1>3
  <2>7. /\ IsList(sc_list', Bytes) /\ Append(s, c) \in Seq(Bytes)
        /\ Represents(sc_list', Append(s, c))
    BY <1>1, <1>2, <1>3, <2>3, <2>5, <2>6, BytesPool, PushBackLinks
  <2>8. Lists(sc_list', Append(s, c))
    BY <2>7, BytesPool, NodesMet DEF Lists
  <2>9. /\ sc_node' = [sc_node EXCEPT ![c] = [page |-> p, frame_idx |-> c, ref_bit |-> 0]]
        /\ sc_count' = c + 1
    BY <1>7, <2>2, <2>4 DEF ScFill
  <2> QED
    BY <2>2, <2>3, <2>8, <2>9 DEF s, ScAdds
<1>8. ASSUME ScMiss(p) PROVE p \notin Resident /\ c = num_frames
  <2>1. p \notin Resident /\ FindEmpty = -1
    BY <1>3, <1>4, <1>8 DEF ScMiss
  <2> QED
    BY <1>2, <1>3, <2>1, FindEmptyFinds
<1>9. ASSUME c = num_frames
      PROVE  /\ 1 \in 1 .. c /\ sc_list.head = s[1]
             /\ Lists(PushBack(Remove(sc_list, s[1]), s[1]), ToBack(s, 1))
  <2>1. 1 \in 1 .. c /\ 1 \in 1 .. Len(s) /\ s # <<>>
    BY <1>3, <1>9
  <2>2. sc_list.head = s[1]
    BY <1>2, <2>1 DEF Represents
  <2> QED
    BY <1>1, <1>2, <1>3, <2>1, <2>2, BytesPool, MovesToBack DEF Lists
<1>10. ASSUME c = num_frames, ScSweep PROVE ScSpares
  BY <1>9, <1>10 DEF ScSweep, ScSpares, s
<1>11. ASSUME c = num_frames, p \notin Resident, ScEvict(p) PROVE ScReuses(p)
  <2> DEFINE v == s[1]
  <2>1. /\ 1 \in 1 .. c /\ sc_list.head = v
        /\ Lists(PushBack(Remove(sc_list, v), v), ToBack(s, 1))
    BY <1>9, <1>11
  <2>2. v \in Slots /\ v \in Bytes /\ sc_node[v].page = frames[v] /\ sc_node[v].frame_idx = v
    BY <1>3, <1>5, <2>1, SlotFacts
  <2>3. /\ sc_node[v].ref_bit = 0 /\ Replace(v, frames[v], p)
        /\ sc_node' = [sc_node EXCEPT ![v].page = p, ![v].ref_bit = 0]
        /\ sc_list' = PushBack(Remove(sc_list, v), v)
        /\ misses' = misses /\ UNCHANGED sc_count
    BY <1>11, <2>1, <2>2 DEF ScEvict
  <2>4. LoadAt(v, p)
    BY <1>11, <2>2, <2>3, ReplaceLoads
  <2>5. sc_node' = [sc_node EXCEPT ![v] = [@ EXCEPT !.page = p]]
    <3>1. sc_node[v] \in [page : Bytes, frame_idx : Bytes, ref_bit : {0, 1}]
      BY <1>1, <2>2
    <3>2. [[sc_node[v] EXCEPT !.page = p] EXCEPT !.ref_bit = 0] = [sc_node[v] EXCEPT !.page = p]
      BY <2>3, <3>1
    <3> QED
      BY <1>1, <2>2, <2>3, <3>2
  <2> QED
    BY <1>11, <2>1, <2>3, <2>4, <2>5 DEF s, ScReuses
<1> QED
  BY <1>6, <1>7, <1>8, <1>10, <1>11

-----------------------------------------------------------------------------
(* The invariant.                                                            *)

Active == pc \in {"access", "sweep", "show", "wait", "done"}

Control ==
  /\ query \in Seq(Pages)
  /\ step \in 0 .. Len(query) /\ row \in Bytes
  /\ result \in [hit : BOOLEAN, evicted : Bytes, frame_idx : Bytes]
  /\ pc \in {"parse", "run", "exit"} \/ Active
  /\ algo \in Policies \cup {"none"} /\ (Active => algo \in Policies)
  /\ todo \in Seq(Policies)
  /\ \A k \in DOMAIN todo : todo[k] # algo
  /\ \A j, k \in DOMAIN todo : todo[j] = todo[k] => j = k
  /\ pc = "parse" => algo = "none" /\ step = 0 /\ hits = 0 /\ misses = 0
  /\ pc \notin {"parse", "exit"} => num_frames > 0
  /\ pc \in {"sweep", "show", "wait"} => step < Len(query)
  /\ pc = "sweep" => algo = "second_chance" /\ Page \notin Resident /\ Filled(num_frames)

Counting ==
  /\ hits \in Nat /\ misses \in Nat /\ hits + misses <= Len(query)
  /\ Active => /\ hits + misses = Served
               /\ Resident \subseteq Referenced
               /\ Cardinality(Referenced) <= misses
  /\ pc \in {"show", "wait"} => result.frame_idx \in Slots /\ frames[result.frame_idx] = Page

Inv == Framed /\ Control /\ Counting /\ FifoInv /\ LruInv /\ ScInv

LEMMA ResultType ==
  ASSUME NEW h \in BOOLEAN, NEW e \in Bytes, NEW i \in Int
  PROVE  Result(h, e, i) \in [hit : BOOLEAN, evicted : Bytes, frame_idx : Bytes]
BY ByteFacts DEF Result

\* The page that is referenced.
LEMMA PageType ==
  ASSUME Control, step < Len(query)
  PROVE  Page \in Pages /\ step \in Nat /\ Len(query) \in Nat /\ step + 1 \in 1 .. Len(query)
<1>1. step \in Nat /\ Len(query) \in Nat /\ step + 1 \in 1 .. Len(query) /\ query \in Seq(Pages)
  BY DEF Control
<1> QED
  BY <1>1 DEF Page

LEMMA ShowKeepsControl ==
  ASSUME Control, step < Len(query), pc \in {"access", "sweep"}, Show,
         result' \in [hit : BOOLEAN, evicted : Bytes, frame_idx : Bytes],
         num_frames' = num_frames
  PROVE  Control' /\ pc' \in {"show", "wait"}
<1>1. pc' \in {"show", "wait"}
  BY DEF Show
<1>2. UNCHANGED <<todo, algo, step, query>> /\ row' = 0
  BY DEF Show
<1>3. pc \notin {"parse", "exit"} /\ Active
  BY DEF Active
<1> QED
  BY <1>1, <1>2, <1>3, ByteFacts DEF Control, Active

\* The pages referenced, before and after an access.
LEMMA ReferencedNext ==
  ASSUME Control, step < Len(query), pc \in {"access", "sweep"},
         pc' \in {"sweep", "show", "wait"}, UNCHANGED <<query, step>>
  PROVE  /\ Served' = step + 1 /\ Page' = Page
         /\ pc = "access" => Served = step /\ Referenced' = Referenced \cup {Page}
         /\ pc = "sweep" => Served = step + 1 /\ Referenced' = Referenced
         /\ Page \in Referenced'
         /\ IsFiniteSet(Referenced)
         /\ Cardinality(Referenced') <= Cardinality(Referenced) + 1
         /\ Cardinality(Referenced) \in Nat /\ Cardinality(Referenced') \in Nat
<1>1. /\ step \in Nat /\ Len(query) \in Nat /\ step + 1 \in 1 .. Len(query)
      /\ \A k \in 1 .. Len(query) : query[k] \in Pages
  BY PageType DEF Control
<1>2. Served' = step + 1 /\ Page' = Page
  BY DEF Served, Page
<1>3. Served = IF pc = "access" THEN step ELSE step + 1
  BY DEF Served
<1>4. Referenced' = {query[k] : k \in 1 .. step + 1}
  BY <1>2 DEF Referenced
<1>5. Referenced = {query[k] : k \in 1 .. Served}
  BY DEF Referenced
<1>6. pc = "access" => Referenced' = Referenced \cup {Page}
  <2>1. \A k \in 1 .. step + 1 : k \in 1 .. step \/ k = step + 1
    BY <1>1
  <2>2. 1 .. step \subseteq 1 .. step + 1 /\ step + 1 \in 1 .. step + 1
    BY <1>1
  <2> QED
    BY <1>3, <1>4, <1>5, <2>1, <2>2 DEF Page
<1>7. pc = "sweep" => Referenced' = Referenced
  BY <1>3, <1>4, <1>5
<1>8. Page \in Referenced'
  <2>1. step + 1 \in 1 .. step + 1
    BY <1>1
  <2> QED
    BY <1>4, <2>1 DEF Page
<1>9. IsFiniteSet(Referenced)
  <2>1. \A k \in 1 .. Served : query[k] \in Pages
    BY <1>1, <1>3
  <2>2. Referenced \subseteq Pages /\ IsFiniteSet(Pages)
    BY <1>5, <2>1, FS_Interval DEF Pages
  <2> QED
    BY <2>2, FS_Subset
<1>10. Cardinality(Referenced) \in Nat
  BY <1>9, FS_CardinalityType
<1>11. CASE pc = "access"
  <2>1. Cardinality(Referenced \cup {Page}) =
          IF Page \in Referenced THEN Cardinality(Referenced) ELSE Cardinality(Referenced) + 1
    BY <1>9, FS_AddElement
  <2>2. /\ Cardinality(Referenced') <= Cardinality(Referenced) + 1
        /\ Cardinality(Referenced') \in Nat
    <3>1. Cardinality(Referenced') = Cardinality(Referenced \cup {Page})
      BY <1>6, <1>11, Zenon
    <3> QED
      BY <1>10, <2>1, <3>1
  <2>3. pc # "sweep"
    BY <1>11
  <2> QED
    BY <1>2, <1>3, <1>6, <1>8, <1>9, <1>10, <1>11, <2>2, <2>3
<1>12. CASE pc = "sweep"
  BY <1>2, <1>3, <1>7, <1>8, <1>9, <1>10, <1>12
<1> QED
  BY <1>11, <1>12

LEMMA HitKeeps ==
  ASSUME Framed, Control, Counting, pc = "access", step < Len(query),
         NEW i, HitAt(i, Page), Show
  PROVE  /\ Framed' /\ Control' /\ Counting' /\ pc' \in {"show", "wait"}
         /\ \A c : Filled(c) => Filled(c)'
         /\ UNCHANGED <<num_frames, frames, misses, algo, step, query>>
<1>1. /\ i \in Slots /\ frames[i] = Page /\ UNCHANGED <<num_frames, frames, misses>>
      /\ hits' = hits + 1 /\ result' = Result(TRUE, FrameEmpty, i)
  BY DEF HitAt, Hit
<1>2. i \in Int /\ Uint8(i) = i
  BY <1>1, SlotFacts
<1>3. result' \in [hit : BOOLEAN, evicted : Bytes, frame_idx : Bytes] /\ result'.frame_idx = i
  BY <1>1, <1>2, ResultType, ByteFacts DEF Result
<1>4. Control' /\ pc' \in {"show", "wait"} /\ UNCHANGED <<query, step, algo>>
  BY <1>1, <1>3, ShowKeepsControl DEF Show
<1>5. Slots' = Slots /\ Framed' /\ \A c : Filled(c) => Filled(c)'
  BY <1>1 DEF Slots, Framed, Filled
<1>6. Page \in Pages /\ step \in Nat /\ Len(query) \in Nat
  BY PageType
<1>7. Page \in Resident /\ Resident' = Resident
  BY <1>1, <1>6, ByteFacts DEF Resident, Framed
<1>8. /\ Served' = step + 1 /\ Page' = Page /\ Served = step
      /\ Referenced' = Referenced \cup {Page}
  BY <1>4, ReferencedNext
<1>9. Active /\ Active'
  BY <1>4 DEF Active
<1>10. Referenced' = Referenced
  BY <1>7, <1>8, <1>9 DEF Counting
<1>11. Counting'
  <2>1. /\ hits' \in Nat /\ misses' \in Nat /\ hits' + misses' <= Len(query')
        /\ hits' + misses' = Served'
    BY <1>1, <1>4, <1>6, <1>8, <1>9 DEF Counting
  <2>2. Resident' \subseteq Referenced' /\ Cardinality(Referenced') <= misses'
    BY <1>1, <1>7, <1>9, <1>10 DEF Counting
  <2>3. result'.frame_idx \in Slots' /\ frames'[result'.frame_idx] = Page'
    BY <1>1, <1>3, <1>5, <1>8
  <2> QED
    BY <2>1, <2>2, <2>3 DEF Counting
<1> QED
  BY <1>1, <1>4, <1>5, <1>11

LEMMA LoadKeeps ==
  ASSUME Framed, Control, Counting, pc \in {"access", "sweep"}, step < Len(query),
         NEW i, LoadAt(i, Page), Show, NEW c, Filled(c), i <= c,
         misses' = IF pc = "access" THEN misses + 1 ELSE misses
  PROVE  /\ Framed' /\ Control' /\ Counting' /\ pc' \in {"show", "wait"}
         /\ Filled(IF i = c THEN c + 1 ELSE c)'
         /\ UNCHANGED <<num_frames, hits, algo, step, query>>
<1>1. /\ i \in Slots /\ Page \notin Resident /\ UNCHANGED <<num_frames, hits>>
      /\ frames' = [frames EXCEPT ![i] = Page] /\ result' = Result(FALSE, frames[i], i)
  BY DEF LoadAt
<1>2. i \in Int /\ Uint8(i) = i /\ frames[i] \in Bytes
  BY <1>1, SlotFacts
<1>3. result' \in [hit : BOOLEAN, evicted : Bytes, frame_idx : Bytes] /\ result'.frame_idx = i
  BY <1>1, <1>2, ResultType DEF Result
<1>4. Control' /\ pc' \in {"show", "wait"} /\ UNCHANGED <<query, step, algo>>
  BY <1>1, <1>3, ShowKeepsControl DEF Show
<1>5. Page \in Pages /\ step \in Nat /\ Len(query) \in Nat
  BY PageType
<1>6. /\ Framed' /\ Filled(IF i = c THEN c + 1 ELSE c)'
      /\ frames'[i] = Page /\ Resident' \subseteq Resident \cup {Page}
  BY <1>1, <1>5, StoreFrames
<1>7. /\ Served' = step + 1 /\ Page' = Page /\ Page \in Referenced'
      /\ Served = IF pc = "access" THEN step ELSE step + 1
      /\ Referenced \subseteq Referenced'
      /\ Cardinality(Referenced) \in Nat /\ Cardinality(Referenced') \in Nat
      /\ Cardinality(Referenced') <= Cardinality(Referenced) + 1
      /\ pc = "sweep" => Cardinality(Referenced') = Cardinality(Referenced)
  BY <1>4, ReferencedNext
<1>8. Active /\ Active'
  BY <1>4 DEF Active
<1>9. Counting'
  <2>1. /\ hits' \in Nat /\ misses' \in Nat /\ hits' + misses' <= Len(query')
        /\ hits' + misses' = Served'
    BY <1>1, <1>4, <1>5, <1>7, <1>8 DEF Counting
  <2>2. Cardinality(Referenced') <= misses'
    BY <1>7, <1>8 DEF Counting
  <2>3. Resident' \subseteq Referenced'
    BY <1>6, <1>7, <1>8 DEF Counting
  <2>4. result'.frame_idx \in Slots' /\ frames'[result'.frame_idx] = Page'
    BY <1>1, <1>3, <1>6, <1>7 DEF Slots
  <2> QED
    BY <2>1, <2>2, <2>3, <2>4 DEF Counting
<1> QED
  BY <1>1, <1>4, <1>6, <1>9

-----------------------------------------------------------------------------
(* Each policy keeps its own structures.                                     *)

LEMMA FifoIdle ==
  ASSUME FifoInv, algo # "fifo", algo' # "fifo", UNCHANGED <<fifoVars, num_frames>>
  PROVE  FifoInv'
BY DEF FifoInv, FifoTypeOK, fifoVars

LEMMA LruIdle ==
  ASSUME LruInv, algo # "lru", algo' # "lru", UNCHANGED lruVars
  PROVE  LruInv'
BY DEF LruInv, lruVars

LEMMA ScIdle ==
  ASSUME ScInv, algo # "second_chance", algo' # "second_chance", UNCHANGED scVars
  PROVE  ScInv'
BY DEF ScInv, scVars

\* What an access needs of the invariant, and what it has to be referenced.
LEMMA Accessing ==
  ASSUME Inv, NEW a, Referencing(a)
  PROVE  /\ pc = "access" /\ algo = a /\ step < Len(query) /\ num_frames > 0
         /\ Page \in Pages /\ query \in Seq(Pages) /\ step \in Nat
         /\ Framed /\ Control /\ Counting
         /\ num_frames \in Nat \ {0} /\ num_frames <= Byte \div 2
<1>1. pc = "access" /\ algo = a /\ step < Len(query) /\ Framed /\ Control /\ Counting
  BY DEF Inv, Referencing
<1>2. num_frames > 0 /\ query \in Seq(Pages)
  BY <1>1 DEF Control
<1>3. Page \in Pages /\ step \in Nat
  BY <1>1, PageType
<1>4. num_frames \in Nat \ {0} /\ num_frames <= Byte \div 2
  BY <1>1, <1>2, ByteFacts DEF Framed
<1> QED
  BY <1>1, <1>2, <1>3, <1>4

LEMMA FifoKeeps ==
  ASSUME Inv, Fifo
  PROVE  Inv'
<1>1. /\ pc = "access" /\ algo = "fifo" /\ step < Len(query) /\ num_frames > 0
      /\ Page \in Pages /\ query \in Seq(Pages) /\ step \in Nat
      /\ Framed /\ Control /\ Counting
      /\ num_frames \in Nat \ {0} /\ num_frames <= Byte \div 2
  BY Accessing DEF Fifo
<1>2. FifoAccess(Page) /\ Show /\ UNCHANGED <<lruVars, scVars>> /\ FifoInv /\ LruInv /\ ScInv
  BY DEF Fifo, Inv
<1>3. /\ fifo_queue \in [Bytes -> Bytes] /\ fifo_head \in 0 .. num_frames - 1
      /\ fifo_count \in 0 .. num_frames /\ Filled(fifo_count)
      /\ \A j \in 0 .. fifo_count - 1 : fifo_queue[j] = j
      /\ fifo_head # 0 => fifo_count = num_frames
  BY <1>1, <1>2 DEF FifoInv, FifoTypeOK, Filled
<1> DEFINE Kept == Framed' /\ Control' /\ Counting' /\ UNCHANGED <<num_frames, algo>>
<1>4. PICK c : c = fifo_count
  OBVIOUS
<1>5. c \in Nat /\ c <= num_frames /\ Filled(c)
  BY <1>1, <1>3, <1>4
<1>6. Kept /\ FifoInv'
  <2>1. CASE \E i : HitAt(i, Page) /\ UNCHANGED fifoVars
    <3>1. Kept /\ Filled(c)'
      BY <1>1, <1>2, <1>5, <2>1, HitKeeps
    <3>2. Filled(fifo_count)' /\ UNCHANGED <<fifo_queue, fifo_head, fifo_count>>
      BY <1>4, <2>1, <3>1 DEF fifoVars
    <3>3. FifoTypeOK'
      BY <1>2, <3>1, <3>2 DEF FifoInv, FifoTypeOK
    <3> QED
      BY <1>1, <1>3, <3>1, <3>2, <3>3 DEF FifoInv
  <2>2. CASE /\ fifo_count < num_frames /\ fifo_head = 0
             /\ LoadAt(fifo_count, Page) /\ misses' = misses + 1
             /\ fifo_queue' = [fifo_queue EXCEPT ![fifo_count] = fifo_count]
             /\ fifo_count' = fifo_count + 1 /\ fifo_head' = fifo_head
    <3>1. c <= c /\ LoadAt(c, Page) /\ c < num_frames /\ fifo_count' = c + 1 /\ fifo_head' = 0
      BY <1>4, <1>5, <2>2
    <3>2. Kept /\ Filled(c + 1)'
      BY <1>1, <1>2, <1>5, <2>2, <3>1, LoadKeeps
    <3>3. Filled(fifo_count)'
      BY <3>1, <3>2
    <3>4. c \in Bytes /\ c + 1 \in Bytes
      <4>1. Byte \div 2 < Byte - 1 /\ Byte \in Nat /\ Byte \div 2 \in Nat
        BY ByteFacts
      <4> QED
        BY <1>1, <1>5, <3>1, <4>1 DEF Bytes
    <3>5. /\ fifo_queue' \in [Bytes -> Bytes]
          /\ \A j \in 0 .. c : fifo_queue'[j] = j
      <4>1. fifo_queue' = [fifo_queue EXCEPT ![c] = c]
        BY <1>4, <2>2
      <4>2. \A j \in 0 .. c : j \in Bytes /\ (j # c => j \in 0 .. fifo_count - 1)
        BY <1>4, <3>4 DEF Bytes
      <4> QED
        BY <1>3, <3>4, <4>1, <4>2
    <3>6. FifoTypeOK'
      BY <1>1, <3>1, <3>2, <3>4, <3>5 DEF FifoTypeOK
    <3>7. \A j \in 0 .. fifo_count' - 1 : fifo_queue'[j] = j
      BY <1>5, <3>1, <3>5
    <3> QED
      BY <1>1, <3>1, <3>2, <3>3, <3>6, <3>7 DEF FifoInv
  <2>3. CASE /\ fifo_count = num_frames
             /\ LoadAt(fifo_head, Page) /\ misses' = misses + 1
             /\ fifo_head' = (fifo_head + 1) % num_frames
             /\ UNCHANGED <<fifo_queue, fifo_count>>
    <3>1. Kept /\ Filled(c)'
      <4>1. fifo_head <= c /\ fifo_head # c
        BY <1>1, <1>3, <1>4, <2>3
      <4> QED
        BY <1>1, <1>2, <1>5, <2>3, <4>1, LoadKeeps
    <3>2. Filled(fifo_count)' /\ fifo_count' = num_frames'
      BY <1>4, <2>3, <3>1
    <3>3. fifo_head' \in 0 .. num_frames - 1
      <4> DEFINE h == fifo_head + 1
      <4>1. h \in 0 .. 2 * num_frames - 1 /\ h <= num_frames
        BY <1>1, <1>3
      <4>2. h % num_frames = IF h < num_frames THEN h ELSE h - num_frames
        <5> HIDE DEF h
        <5> QED
          BY <1>1, <4>1, Wraps
      <4>3. fifo_head' = h % num_frames
        BY <2>3
      <4> HIDE DEF h
      <4> QED
        BY <1>1, <4>1, <4>2, <4>3
    <3>4. FifoTypeOK'
      BY <1>1, <1>2, <2>3, <3>1, <3>3 DEF FifoInv, FifoTypeOK
    <3> QED
      BY <1>1, <1>3, <2>3, <3>1, <3>2, <3>4 DEF FifoInv
  <2> QED
    BY <1>1, <1>2, <2>1, <2>2, <2>3, FifoForms
<1>7. LruInv' /\ ScInv'
  BY <1>1, <1>2, <1>6, LruIdle, ScIdle
<1> QED
  BY <1>6, <1>7 DEF Inv

LEMMA MinKeeps ==
  ASSUME Inv, Min
  PROVE  Inv'
<1>1. /\ pc = "access" /\ algo = "min" /\ step < Len(query) /\ num_frames > 0
      /\ Page \in Pages /\ query \in Seq(Pages) /\ step \in Nat
      /\ Framed /\ Control /\ Counting
      /\ num_frames \in Nat \ {0} /\ num_frames <= Byte \div 2
  BY Accessing DEF Min
<1>2. /\ MinAccess(Page, step) /\ Show /\ UNCHANGED <<fifoVars, lruVars, scVars>>
      /\ FifoInv /\ LruInv /\ ScInv
  BY DEF Min, Inv
<1> DEFINE Kept == Framed' /\ Control' /\ Counting' /\ UNCHANGED <<num_frames, algo>>
<1>3. Kept
  <2>1. CASE \E i : HitAt(i, Page)
    BY <1>1, <1>2, <2>1, HitKeeps
  <2>2. CASE \E c : c < num_frames /\ Filled(c) /\ LoadAt(c, Page) /\ misses' = misses + 1
    <3>1. PICK c : Filled(c) /\ LoadAt(c, Page) /\ misses' = misses + 1
      BY <2>2
    <3>2. c <= c
      BY <1>1, <3>1 DEF Filled
    <3> QED
      BY <1>1, <1>2, <3>1, <3>2, LoadKeeps
  <2>3. CASE \E i : Filled(num_frames) /\ LoadAt(i, Page) /\ misses' = misses + 1
    <3>1. PICK i : Filled(num_frames) /\ LoadAt(i, Page) /\ misses' = misses + 1
      BY <2>3
    <3>2. PICK c : c = num_frames /\ Filled(c) /\ i <= c
      BY <1>1, <3>1 DEF LoadAt, Slots
    <3> QED
      BY <1>1, <1>2, <3>1, <3>2, LoadKeeps
  <2> QED
    BY <1>1, <1>2, <2>1, <2>2, <2>3, MinForms
<1>4. FifoInv' /\ LruInv' /\ ScInv'
  BY <1>1, <1>2, <1>3, FifoIdle, LruIdle, ScIdle
<1> QED
  BY <1>3, <1>4 DEF Inv

\* What stays true of the sequences the lists hold.
LEMMA MovedTypes ==
  ASSUME NEW c \in Nat, NEW s \in [1 .. c -> 0 .. c - 1]
  PROVE  /\ \A j \in 1 .. c : /\ ToFront(s, j) \in [1 .. c -> 0 .. c - 1]
                             /\ ToBack(s, j) \in [1 .. c -> 0 .. c - 1]
         /\ <<c>> \o s \in [1 .. c + 1 -> 0 .. c]
         /\ Append(s, c) \in [1 .. c + 1 -> 0 .. c]
<1>1. s \in Seq(Nat) /\ Len(s) = c /\ \A k \in 1 .. c : s[k] \in 0 .. c - 1 /\ s[k] \in 0 .. c
  OBVIOUS
<1>2. ASSUME NEW j \in 1 .. c
      PROVE  /\ ToFront(s, j) \in [1 .. c -> 0 .. c - 1]
             /\ ToBack(s, j) \in [1 .. c -> 0 .. c - 1]
  <2>1. /\ \A k \in 1 .. c : k # 1 => k - 1 \in 1 .. c
        /\ \A k \in 1 .. c : k # c => k + 1 \in 1 .. c
    OBVIOUS
  <2> QED
    BY <1>1, <2>1 DEF ToFront, ToBack
<1>3. <<c>> \o s \in [1 .. c + 1 -> 0 .. c]
  <2> DEFINE t == <<c>> \o s
  <2>1. t \in Seq(Nat) /\ Len(t) = c + 1
    BY <1>1
  <2>2. \A k \in 1 .. c + 1 : t[k] \in 0 .. c
    BY <1>1
  <2> HIDE DEF t
  <2>3. t \in [1 .. c + 1 -> 0 .. c]
    BY <2>1, <2>2
  <2> QED
    BY <2>3 DEF t
<1>4. Append(s, c) \in [1 .. c + 1 -> 0 .. c]
  <2> DEFINE t == Append(s, c)
  <2>1. t \in Seq(Nat) /\ Len(t) = c + 1
    BY <1>1
  <2>2. \A k \in 1 .. c + 1 : t[k] \in 0 .. c
    BY <1>1
  <2> HIDE DEF t
  <2>3. t \in [1 .. c + 1 -> 0 .. c]
    BY <2>1, <2>2
  <2> QED
    BY <2>3 DEF t
<1> QED
  BY <1>2, <1>3, <1>4

\* Another byte when a frame is still free.
LEMMA NextByte ==
  ASSUME Framed, NEW c \in Nat, c < num_frames
  PROVE  c + 1 \in Bytes /\ \A k \in 0 .. c : k \in Bytes /\ k \in Slots
<1>1. /\ num_frames \in Nat /\ num_frames <= Byte \div 2
      /\ Byte \div 2 < Byte - 1 /\ Byte \in Nat /\ Byte \div 2 \in Nat
  BY ByteFacts DEF Framed
<1>2. /\ c + 1 \in 0 .. Byte - 1
      /\ \A k \in 0 .. c : k \in 0 .. Byte - 1 /\ k \in 0 .. num_frames - 1
  <2> HIDE ByteEven
  <2> QED
    BY <1>1
<1> QED
  BY <1>2 DEF Bytes, Slots

LEMMA LruKeeps ==
  ASSUME Inv, Lru
  PROVE  Inv'
<1>1. /\ pc = "access" /\ algo = "lru" /\ step < Len(query) /\ num_frames > 0
      /\ Page \in Pages /\ query \in Seq(Pages) /\ step \in Nat
      /\ Framed /\ Control /\ Counting
      /\ num_frames \in Nat \ {0} /\ num_frames <= Byte \div 2
  BY Accessing DEF Lru
<1>2. LruAccess(Page) /\ Show /\ UNCHANGED <<fifoVars, scVars>> /\ FifoInv /\ LruInv /\ ScInv
  BY DEF Lru, Inv
<1> DEFINE Kept == Framed' /\ Control' /\ Counting' /\ UNCHANGED <<num_frames, algo>>
<1>3. PICK c, s : c = lru_count /\ s = Nodes(lru_list)
  OBVIOUS
<1>4. /\ lru_node \in [Bytes -> [page : Bytes, frame_idx : Bytes]]
      /\ Filled(c) /\ c \in Nat /\ c <= num_frames /\ c \in Bytes
      /\ \A k \in 0 .. c - 1 : lru_node[k].page = frames[k] /\ lru_node[k].frame_idx = k
      /\ s \in [1 .. c -> 0 .. c - 1]
      /\ \A k \in 1 .. c : s[k] \in Slots /\ s[k] < c
  <2>1. Listed(lru_list, lru_node, c)
    BY <1>1, <1>2, <1>3 DEF LruInv
  <2> QED
    BY <1>1, <1>2, <1>3, <2>1, ListedFacts DEF LruInv, Listed
<1>5. \A k \in 0 .. c - 1 : k \in Bytes /\ k \in Slots
  <2>1. \A k \in 0 .. c - 1 : k \in Slots
    BY <1>1, <1>4 DEF Slots
  <2> QED
    BY <1>1, <2>1, SlotFacts
<1>6. Page \in Bytes
  BY <1>1, ByteFacts
<1>7. ASSUME NEW d, NEW t, lru_count' = d, Filled(d)', Lists(lru_list', t), t \in [1 .. d -> 0 .. d - 1],
             \A k \in 0 .. d - 1 : lru_node'[k].page = frames'[k] /\ lru_node'[k].frame_idx = k
      PROVE  Listed(lru_list, lru_node, lru_count)'
  <2>1. Filled(lru_count)'
    BY <1>7
  <2>2. Nodes(lru_list') = t /\ Represents(lru_list', t)
    BY <1>7 DEF Lists
  <2> QED
    BY <1>7, <2>1, <2>2 DEF Listed
<1>8. Kept /\ LruInv'
  <2>1. CASE LruMoves(Page)
    <3>1. PICK j \in 1 .. c : HitAt(s[j], Page) /\ Lists(lru_list', ToFront(s, j))
      BY <1>3, <2>1 DEF LruMoves
    <3>2. UNCHANGED <<lru_node, lru_count>>
      BY <2>1 DEF LruMoves
    <3>3. Kept /\ Filled(c)' /\ UNCHANGED frames
      BY <1>1, <1>2, <1>4, <3>1, HitKeeps
    <3>4. Listed(lru_list, lru_node, lru_count)'
      <4>1. ToFront(s, j) \in [1 .. c -> 0 .. c - 1]
        BY <1>4, MovedTypes
      <4> QED
        BY <1>3, <1>4, <1>7, <3>1, <3>2, <3>3, <4>1
    <3> QED
      BY <1>1, <1>2, <3>1, <3>2, <3>3, <3>4 DEF LruInv, Lists
  <2>2. CASE LruAdds(Page)
    <3>1. /\ c < num_frames /\ c <= c
          /\ LoadAt(c, Page) /\ misses' = misses + 1
          /\ Lists(lru_list', <<c>> \o s)
          /\ lru_node' = [lru_node EXCEPT ![c] = [page |-> Page, frame_idx |-> c]]
          /\ lru_count' = c + 1
      BY <1>3, <1>4, <2>2 DEF LruAdds
    <3>2. Kept /\ Filled(c + 1)'
      BY <1>1, <1>2, <1>4, <3>1, LoadKeeps
    <3>3. c + 1 \in Bytes
      BY <1>1, <1>4, <3>1, NextByte
    <3>4. lru_node' \in [Bytes -> [page : Bytes, frame_idx : Bytes]]
      BY <1>4, <1>6, <3>1
    <3>5. \A k \in 0 .. c : lru_node'[k].page = frames'[k] /\ lru_node'[k].frame_idx = k
      <4>1. frames' = [frames EXCEPT ![c] = Page] /\ c \in Slots /\ DOMAIN frames = Slots
        BY <1>1, <3>1 DEF LoadAt, Framed
      <4>2. \A k \in 0 .. c : k = c \/ k \in 0 .. c - 1
        BY <1>4
      <4> QED
        BY <1>4, <1>5, <3>1, <4>1, <4>2
    <3>6. Listed(lru_list, lru_node, lru_count)'
      <4>1. PICK d : d = c + 1
        OBVIOUS
      <4>2. Filled(d)' /\ lru_count' = d
        BY <3>1, <3>2, <4>1
      <4>3. 0 .. c = 0 .. d - 1
        BY <1>4, <4>1
      <4>4. <<c>> \o s \in [1 .. d -> 0 .. d - 1]
        BY <1>4, <4>1, <4>3, MovedTypes
      <4>5. \A k \in 0 .. d - 1 : lru_node'[k].page = frames'[k] /\ lru_node'[k].frame_idx = k
        BY <3>5, <4>3
      <4> QED
        BY <1>7, <3>1, <4>2, <4>4, <4>5
    <3> QED
      BY <1>1, <3>1, <3>2, <3>3, <3>4, <3>6 DEF LruInv, Lists
  <2>3. CASE LruReuses(Page)
    <3> DEFINE v == s[c]
    <3>1. /\ c = num_frames
          /\ LoadAt(v, Page) /\ misses' = misses + 1
          /\ Lists(lru_list', ToFront(s, c))
          /\ lru_node' = [lru_node EXCEPT ![v].page = Page]
          /\ lru_count' = lru_count
      BY <1>3, <2>3 DEF LruReuses
    <3>2. c \in 1 .. c /\ v \in Slots /\ v \in 0 .. c - 1 /\ v \in Bytes /\ v <= c /\ v # c
      BY <1>1, <1>4, <1>5, <3>1
    <3> HIDE DEF v
    <3>3. Kept /\ Filled(c)'
      BY <1>1, <1>2, <1>4, <3>1, <3>2, LoadKeeps
    <3>4. lru_node' \in [Bytes -> [page : Bytes, frame_idx : Bytes]]
      BY <1>4, <1>6, <3>1, <3>2
    <3>5. \A k \in 0 .. c - 1 : lru_node'[k].page = frames'[k] /\ lru_node'[k].frame_idx = k
      <4>1. frames' = [frames EXCEPT ![v] = Page] /\ DOMAIN frames = Slots
        BY <1>1, <3>1 DEF LoadAt, Framed
      <4> QED
        BY <1>4, <1>5, <3>1, <3>2, <4>1
    <3>6. Listed(lru_list, lru_node, lru_count)'
      <4>1. ToFront(s, c) \in [1 .. c -> 0 .. c - 1]
        BY <1>4, <3>2, MovedTypes
      <4> QED
        BY <1>3, <1>7, <3>1, <3>3, <3>5, <4>1
    <3> QED
      BY <1>1, <1>2, <3>1, <3>3, <3>4, <3>6 DEF LruInv, Lists
  <2> QED
    BY <1>1, <1>2, <2>1, <2>2, <2>3, LruForms
<1>9. FifoInv' /\ ScInv'
  BY <1>1, <1>2, <1>8, FifoIdle, ScIdle
<1> QED
  BY <1>8, <1>9 DEF Inv

ScNodes == [Bytes -> [page : Bytes, frame_idx : Bytes, ref_bit : {0, 1}]]

\* What the invariant says of the queue of second chance, and what makes it
\* hold in the next state.
LEMMA ScState ==
  ASSUME Framed, num_frames > 0, ScInv, algo = "second_chance",
         NEW c, c = sc_count, NEW s, s = Nodes(sc_list)
  PROVE  /\ sc_node \in ScNodes
         /\ Filled(c) /\ c \in Nat /\ c <= num_frames /\ c \in Bytes
         /\ \A k \in 0 .. c - 1 : sc_node[k].page = frames[k] /\ sc_node[k].frame_idx = k
         /\ s \in [1 .. c -> 0 .. c - 1]
         /\ \A k \in 1 .. c : s[k] \in Slots /\ s[k] < c /\ s[k] \in Bytes
         /\ \A k \in 0 .. c - 1 : k \in Bytes /\ k \in Slots
<1>1. Listed(sc_list, sc_node, c)
  BY DEF ScInv
<1>2. /\ sc_node \in ScNodes /\ Filled(c) /\ c \in Bytes
      /\ \A k \in 0 .. c - 1 : sc_node[k].page = frames[k] /\ sc_node[k].frame_idx = k
      /\ s \in [1 .. c -> 0 .. c - 1]
  BY <1>1 DEF ScInv, Listed, ScNodes
<1>3. c \in Nat /\ c <= num_frames /\ \A k \in 1 .. c : s[k] \in Slots /\ s[k] < c
  BY <1>1, ListedFacts
<1>4. \A k \in Slots : k \in Bytes
  BY SlotFacts
<1>5. num_frames \in Nat
  BY ByteFacts DEF Framed
<1>6. \A k \in 0 .. c - 1 : k \in Slots
  BY <1>3, <1>5 DEF Slots
<1> QED
  BY <1>2, <1>3, <1>4, <1>6

LEMMA ScNext ==
  ASSUME NEW d, NEW t, sc_count' = d, Filled(d)', Lists(sc_list', t), t \in [1 .. d -> 0 .. d - 1],
         \A k \in 0 .. d - 1 : sc_node'[k].page = frames'[k] /\ sc_node'[k].frame_idx = k,
         sc_node' \in ScNodes, d \in Bytes, algo' = "second_chance"
  PROVE  ScInv'
<1>1. Filled(sc_count)'
  OBVIOUS
<1>2. Nodes(sc_list') = t /\ Represents(sc_list', t) /\ IsList(sc_list', Bytes)
  BY DEF Lists
<1>3. Listed(sc_list, sc_node, sc_count)'
  BY <1>1, <1>2 DEF Listed
<1> QED
  BY <1>2, <1>3 DEF ScInv, ScNodes

LEMMA ScAccessKeeps ==
  ASSUME Inv, ScAccess
  PROVE  Inv'
<1>1. /\ pc = "access" /\ algo = "second_chance" /\ step < Len(query) /\ num_frames > 0
      /\ Page \in Pages /\ query \in Seq(Pages) /\ step \in Nat
      /\ Framed /\ Control /\ Counting
      /\ num_frames \in Nat \ {0} /\ num_frames <= Byte \div 2
  BY Accessing DEF ScAccess
<1>2. /\ ScHit(Page) \/ ScFill(Page)
      /\ Show /\ UNCHANGED <<fifoVars, lruVars>> /\ FifoInv /\ LruInv /\ ScInv
  BY DEF ScAccess, Inv
<1> DEFINE Kept == Framed' /\ Control' /\ Counting' /\ UNCHANGED <<num_frames, algo>>
<1>3. PICK c, s : c = sc_count /\ s = Nodes(sc_list)
  OBVIOUS
<1>4. /\ sc_node \in ScNodes
      /\ Filled(c) /\ c \in Nat /\ c <= num_frames /\ c \in Bytes
      /\ \A k \in 0 .. c - 1 : sc_node[k].page = frames[k] /\ sc_node[k].frame_idx = k
      /\ s \in [1 .. c -> 0 .. c - 1]
      /\ \A k \in 1 .. c : s[k] \in Slots /\ s[k] < c /\ s[k] \in Bytes
      /\ \A k \in 0 .. c - 1 : k \in Bytes /\ k \in Slots
  BY <1>1, <1>2, <1>3, ScState
<1>5. Page \in Bytes
  BY <1>1, ByteFacts
<1>6. Kept /\ ScInv'
  <2>1. CASE ScMarks(Page)
    <3>1. PICK j \in 1 .. c : /\ HitAt(s[j], Page)
                              /\ sc_node' = [sc_node EXCEPT ![s[j]].ref_bit = 1]
      BY <1>3, <2>1 DEF ScMarks
    <3>2. UNCHANGED <<sc_list, sc_count>>
      BY <2>1 DEF ScMarks
    <3>3. Kept /\ Filled(c)' /\ UNCHANGED frames
      BY <1>1, <1>2, <1>4, <3>1, HitKeeps
    <3>4. /\ sc_node' \in ScNodes
          /\ \A k \in 0 .. c - 1 : sc_node'[k].page = frames'[k] /\ sc_node'[k].frame_idx = k
      <4> DEFINE v == s[j]
      <4>1. v \in Bytes
        BY <1>4
      <4>2. sc_node' = [sc_node EXCEPT ![v].ref_bit = 1]
        BY <3>1
      <4> HIDE DEF v
      <4>3. sc_node' \in ScNodes
        BY <1>4, <4>1, <4>2 DEF ScNodes
      <4>4. \A k \in Bytes : sc_node'[k].page = sc_node[k].page /\ sc_node'[k].frame_idx = sc_node[k].frame_idx
        BY <1>4, <4>1, <4>2 DEF ScNodes
      <4> QED
        BY <1>4, <3>3, <4>3, <4>4
    <3>5. Lists(sc_list, s)
      BY <1>1, <1>2, <1>3, ScFacts DEF ScInv, Lists
    <3> QED
      BY <1>1, <1>3, <1>4, <3>2, <3>3, <3>4, <3>5, ScNext
  <2>2. CASE ScAdds(Page)
    <3>1. /\ c < num_frames /\ c <= c
          /\ LoadAt(c, Page) /\ misses' = misses + 1
          /\ Lists(sc_list', Append(s, c))
          /\ sc_node' = [sc_node EXCEPT ![c] = [page |-> Page, frame_idx |-> c, ref_bit |-> 0]]
          /\ sc_count' = c + 1
      BY <1>3, <1>4, <2>2 DEF ScAdds
    <3>2. Kept /\ Filled(c + 1)'
      BY <1>1, <1>2, <1>4, <3>1, LoadKeeps
    <3>3. sc_node' \in ScNodes
      BY <1>4, <1>5, <3>1 DEF ScNodes
    <3>4. \A k \in 0 .. c : sc_node'[k].page = frames'[k] /\ sc_node'[k].frame_idx = k
      <4>1. frames' = [frames EXCEPT ![c] = Page] /\ c \in Slots /\ DOMAIN frames = Slots
        BY <1>1, <3>1 DEF LoadAt, Framed
      <4>2. \A k \in 0 .. c : k = c \/ k \in 0 .. c - 1
        BY <1>4
      <4> QED
        BY <1>4, <3>1, <4>1, <4>2 DEF ScNodes
    <3>5. PICK d : d = c + 1
      OBVIOUS
    <3>6. d \in Bytes
      BY <1>1, <1>4, <3>1, <3>5, NextByte
    <3>7. Filled(d)' /\ sc_count' = d
      BY <3>1, <3>2, <3>5
    <3>8. 0 .. c = 0 .. d - 1
      BY <1>4, <3>5
    <3>9. Append(s, c) \in [1 .. d -> 0 .. d - 1]
      BY <1>4, <3>5, <3>8, MovedTypes
    <3>10. \A k \in 0 .. d - 1 : sc_node'[k].page = frames'[k] /\ sc_node'[k].frame_idx = k
      BY <3>4, <3>8
    <3> QED
      BY <1>1, <3>1, <3>2, <3>3, <3>6, <3>7, <3>9, <3>10, ScNext
  <2> QED
    BY <1>1, <1>2, <2>1, <2>2, ScForms
<1>7. FifoInv' /\ LruInv'
  BY <1>1, <1>2, <1>6, FifoIdle, LruIdle
<1> QED
  BY <1>6, <1>7 DEF Inv

LEMMA ScBeginKeeps ==
  ASSUME Inv, ScBegin
  PROVE  Inv'
<1>1. /\ pc = "access" /\ algo = "second_chance" /\ step < Len(query) /\ num_frames > 0
      /\ Page \in Pages /\ query \in Seq(Pages) /\ step \in Nat
      /\ Framed /\ Control /\ Counting
  BY Accessing DEF ScBegin
<1>2. /\ ScMiss(Page) /\ pc' = "sweep" /\ FifoInv /\ LruInv /\ ScInv
      /\ UNCHANGED <<fifoVars, lruVars, query, todo, algo, step, row, report>>
  BY DEF ScBegin, Inv
<1>3. misses' = misses + 1 /\ UNCHANGED <<num_frames, frames, hits, result, scVars>>
  BY <1>2 DEF ScMiss
<1>4. Page \notin Resident /\ Filled(num_frames)
  <2>1. Page \notin Resident /\ sc_count = num_frames
    BY <1>1, <1>2, ScForms
  <2> QED
    BY <1>1, <1>2, <2>1, ScFacts
<1>5. Framed' /\ Slots' = Slots /\ Resident' = Resident /\ Page' = Page /\ Filled(num_frames)'
  <2>1. Slots' = Slots /\ Resident' = Resident /\ Page' = Page
    BY <1>2, <1>3 DEF Slots, Resident, Page
  <2>2. \A c : Filled(c)' <=> Filled(c)
    BY <1>3, <2>1 DEF Filled
  <2>3. Filled(num_frames)'
    BY <1>3, <1>4, <2>1 DEF Filled
  <2>4. Framed'
    BY <1>1, <1>3, <2>1, <2>2 DEF Framed
  <2> QED
    BY <2>1, <2>3, <2>4
<1>6. Control'
  BY <1>1, <1>2, <1>3, <1>4, <1>5 DEF Control, Active
<1>7. Counting'
  <2>1. /\ Served' = step + 1 /\ Served = step
        /\ Referenced' = Referenced \cup {Page}
        /\ Cardinality(Referenced') <= Cardinality(Referenced) + 1
        /\ Cardinality(Referenced) \in Nat /\ Cardinality(Referenced') \in Nat
    BY <1>1, <1>2, ReferencedNext
  <2>2. Active /\ Active' /\ Len(query) \in Nat
    BY <1>1, <1>2 DEF Active
  <2>3. /\ hits' \in Nat /\ misses' \in Nat /\ hits' + misses' <= Len(query')
        /\ hits' + misses' = Served' /\ Cardinality(Referenced') <= misses'
    BY <1>1, <1>2, <1>3, <2>1, <2>2 DEF Counting
  <2>4. Resident' \subseteq Referenced'
    BY <1>1, <1>5, <2>1, <2>2 DEF Counting
  <2> QED
    BY <1>2, <2>3, <2>4 DEF Counting
<1>8. ScInv'
  BY <1>2, <1>3 DEF ScInv, scVars, Listed, Filled, Slots
<1>9. FifoInv' /\ LruInv'
  BY <1>1, <1>2, <1>3, FifoIdle, LruIdle
<1> QED
  BY <1>5, <1>6, <1>7, <1>8, <1>9 DEF Inv

LEMMA SweepKeeps ==
  ASSUME Inv, Sweep
  PROVE  Inv'
<1>1. /\ pc = "sweep" /\ ScSweep /\ UNCHANGED <<fifoVars, lruVars, query, loopVars>>
      /\ Framed /\ Control /\ Counting /\ FifoInv /\ LruInv /\ ScInv
  BY DEF Sweep, Inv
<1>2. /\ algo = "second_chance" /\ num_frames > 0 /\ Filled(num_frames)
      /\ UNCHANGED <<ramVars, pc, todo, algo, step, row>>
  BY <1>1 DEF Control, ScSweep, loopVars
<1>3. PICK c, s : c = sc_count /\ s = Nodes(sc_list)
  OBVIOUS
<1>4. /\ sc_node \in ScNodes
      /\ Filled(c) /\ c \in Nat /\ c <= num_frames /\ c \in Bytes
      /\ \A k \in 0 .. c - 1 : sc_node[k].page = frames[k] /\ sc_node[k].frame_idx = k
      /\ s \in [1 .. c -> 0 .. c - 1]
      /\ \A k \in 1 .. c : s[k] \in Slots /\ s[k] < c /\ s[k] \in Bytes
      /\ \A k \in 0 .. c - 1 : k \in Bytes /\ k \in Slots
  BY <1>1, <1>2, <1>3, ScState
<1>5. c = num_frames
  BY <1>1, <1>2, <1>4, FilledOnce
<1>6. 1 \in 1 .. c
  BY <1>2, <1>4, <1>5
<1> DEFINE v == s[1]
<1>7. /\ sc_node' = [sc_node EXCEPT ![v].ref_bit = 0]
      /\ Lists(sc_list', ToBack(s, 1)) /\ sc_count' = c
  <2>1. 0 \in Pages
    BY DEF Pages
  <2>2. ScSpares
    BY <1>1, <1>2, <1>3, <1>5, <2>1, ScForms
  <2> QED
    BY <1>3, <2>2 DEF ScSpares
<1>8. v \in Bytes
  BY <1>4, <1>6
<1>9. UNCHANGED <<num_frames, frames, hits, misses, result>>
  BY <1>2 DEF ramVars
<1>10. Framed' /\ Control' /\ Counting' /\ Filled(c)'
  <2>1. /\ Slots' = Slots /\ Resident' = Resident /\ Page' = Page
        /\ Active' = Active /\ Served' = Served
    BY <1>1, <1>2, <1>9 DEF Slots, Resident, Page, Active, Served
  <2>2. Referenced' = Referenced
    BY <1>1, <2>1 DEF Referenced
  <2>3. \A d : Filled(d)' <=> Filled(d)
    BY <1>9, <2>1 DEF Filled
  <2>4. Framed'
    BY <1>1, <1>9, <2>1, <2>3 DEF Framed
  <2>5. Control'
    <3>1. Filled(num_frames)'
      BY <1>2, <1>9, <2>1 DEF Filled
    <3> QED
      BY <1>1, <1>2, <1>9, <2>1, <3>1 DEF Control
  <2>6. Counting'
    BY <1>1, <1>2, <1>9, <2>1, <2>2 DEF Counting
  <2> QED
    BY <1>4, <2>3, <2>4, <2>5, <2>6
<1> HIDE DEF v
<1>11. /\ sc_node' \in ScNodes
       /\ \A k \in 0 .. c - 1 : sc_node'[k].page = frames'[k] /\ sc_node'[k].frame_idx = k
  <2>1. sc_node' \in ScNodes
    BY <1>4, <1>7, <1>8 DEF ScNodes
  <2>2. \A k \in Bytes : sc_node'[k].page = sc_node[k].page /\ sc_node'[k].frame_idx = sc_node[k].frame_idx
    BY <1>4, <1>7, <1>8 DEF ScNodes
  <2> QED
    BY <1>4, <1>9, <2>1, <2>2
<1>12. ToBack(s, 1) \in [1 .. c -> 0 .. c - 1]
  BY <1>4, <1>6, MovedTypes
<1>13. ScInv'
  BY <1>2, <1>4, <1>7, <1>10, <1>11, <1>12, ScNext
<1>14. FifoInv' /\ LruInv'
  BY <1>1, <1>2, <1>9, FifoIdle, LruIdle
<1> QED
  BY <1>10, <1>13, <1>14 DEF Inv

LEMMA ScEndKeeps ==
  ASSUME Inv, ScEnd
  PROVE  Inv'
<1>1. /\ pc = "sweep" /\ ScEvict(Page) /\ Show /\ UNCHANGED <<fifoVars, lruVars>>
      /\ Framed /\ Control /\ Counting /\ FifoInv /\ LruInv /\ ScInv
  BY DEF ScEnd, Inv
<1>2. /\ algo = "second_chance" /\ num_frames > 0 /\ Filled(num_frames)
      /\ step < Len(query) /\ Page \notin Resident
  BY <1>1 DEF Control
<1>3. PICK c, s : c = sc_count /\ s = Nodes(sc_list)
  OBVIOUS
<1>4. /\ sc_node \in ScNodes
      /\ Filled(c) /\ c \in Nat /\ c <= num_frames /\ c \in Bytes
      /\ \A k \in 0 .. c - 1 : sc_node[k].page = frames[k] /\ sc_node[k].frame_idx = k
      /\ s \in [1 .. c -> 0 .. c - 1]
      /\ \A k \in 1 .. c : s[k] \in Slots /\ s[k] < c /\ s[k] \in Bytes
      /\ \A k \in 0 .. c - 1 : k \in Bytes /\ k \in Slots
  BY <1>1, <1>2, <1>3, ScState
<1>5. c = num_frames /\ Page \in Pages /\ Page \in Bytes
  BY <1>1, <1>2, <1>4, FilledOnce, PageType, ByteFacts
<1>6. 1 \in 1 .. c
  BY <1>2, <1>4, <1>5
<1> DEFINE v == s[1]
<1>7. /\ sc_node' = [sc_node EXCEPT ![v] = [@ EXCEPT !.page = Page]]
      /\ LoadAt(v, Page) /\ misses' = misses
      /\ Lists(sc_list', ToBack(s, 1)) /\ sc_count' = c
  <2>1. ScReuses(Page)
    BY <1>1, <1>2, <1>3, <1>5, ScForms
  <2> QED
    BY <1>3, <2>1 DEF ScReuses
<1>8. v \in Bytes /\ v \in Slots /\ v \in 0 .. c - 1 /\ v <= c /\ v # c
  BY <1>4, <1>6
<1> HIDE DEF v
<1>9. Framed' /\ Control' /\ Counting' /\ Filled(c)' /\ UNCHANGED <<num_frames, algo>>
  BY <1>1, <1>2, <1>4, <1>7, <1>8, LoadKeeps
<1>10. sc_node' \in ScNodes
  <2> DEFINE Node == [page : Bytes, frame_idx : Bytes, ref_bit : {0, 1}]
             x    == [sc_node[v] EXCEPT !.page = Page]
  <2>1. sc_node \in [Bytes -> Node] /\ sc_node[v] \in Node
    BY <1>4, <1>8 DEF ScNodes
  <2>2. x \in Node
    BY <1>5, <2>1
  <2>3. sc_node' = [sc_node EXCEPT ![v] = x]
    BY <1>7
  <2> HIDE DEF x, Node
  <2>4. sc_node' \in [Bytes -> Node]
    BY <2>1, <2>2, <2>3
  <2> QED
    BY <2>4 DEF Node, ScNodes
<1>11. \A k \in 0 .. c - 1 : sc_node'[k].page = frames'[k] /\ sc_node'[k].frame_idx = k
  <2>1. frames' = [frames EXCEPT ![v] = Page] /\ DOMAIN frames = Slots
    BY <1>1, <1>7 DEF LoadAt, Framed
  <2>2. \A k \in Bytes : /\ sc_node'[k].page = IF k = v THEN Page ELSE sc_node[k].page
                         /\ sc_node'[k].frame_idx = sc_node[k].frame_idx
    BY <1>4, <1>5, <1>7, <1>8 DEF ScNodes
  <2> QED
    BY <1>4, <1>8, <2>1, <2>2
<1>12. ToBack(s, 1) \in [1 .. c -> 0 .. c - 1]
  BY <1>4, <1>6, MovedTypes
<1>13. ScInv'
  BY <1>2, <1>4, <1>7, <1>9, <1>10, <1>11, <1>12, ScNext
<1>14. FifoInv' /\ LruInv'
  BY <1>1, <1>2, <1>9, FifoIdle, LruIdle
<1> QED
  BY <1>9, <1>13, <1>14 DEF Inv

-----------------------------------------------------------------------------
(* The other steps.                                                          *)

LEMMA InitInv == Init => Inv
<1>1. SUFFICES ASSUME Init PROVE Inv
  OBVIOUS
<1>2. /\ num_frames = 0 /\ frames = EmptyFrames(0) /\ hits = 0 /\ misses = 0 /\ result = NoResult
      /\ fifo_queue = [k \in Bytes |-> 0] /\ fifo_head = 0 /\ fifo_count = 0 /\ query = <<>>
      /\ pc = "parse" /\ todo = <<>> /\ algo = "none" /\ step = 0 /\ row = 0
      /\ LruInit /\ ScInit
  BY <1>1 DEF Init
<1>3. Slots = {}
  BY <1>2 DEF Slots
<1>4. Framed
  <2>1. Filled(0) /\ 0 \in 0 .. num_frames
    BY <1>2, <1>3 DEF Filled
  <2>2. frames \in [Slots -> Bytes] /\ num_frames \in 0 .. Byte \div 2
    BY <1>2, <1>3, ByteFacts DEF EmptyFrames, Slots
  <2> QED
    BY <1>3, <2>1, <2>2 DEF Framed
<1>5. result \in [hit : BOOLEAN, evicted : Bytes, frame_idx : Bytes]
  BY <1>2, ByteFacts DEF NoResult, Result
<1>6. Control
  BY <1>2, <1>5, ByteFacts DEF Control, Active
<1>7. Counting
  BY <1>2 DEF Counting, Active
<1>8. FifoInv
  BY <1>2, ByteFacts DEF FifoInv, FifoTypeOK
<1>9. LruInv
  BY <1>2, ByteFacts DEF LruInv, LruInit, EmptyList, IsList
<1>10. ScInv
  BY <1>2, ByteFacts DEF ScInv, ScInit, EmptyList, IsList
<1> QED
  BY <1>4, <1>6, <1>7, <1>8, <1>9, <1>10 DEF Inv

\* Steps that change neither the frames nor what the policies keep.
LEMMA Idle ==
  ASSUME Inv, UNCHANGED <<ramVars, fifoVars, query, lruVars, scVars, algo>>
  PROVE  /\ Framed' /\ FifoInv' /\ LruInv' /\ ScInv'
         /\ Slots' = Slots /\ Resident' = Resident
         /\ UNCHANGED <<num_frames, frames, hits, misses, result, query, algo>>
         /\ \A c : Filled(c)' <=> Filled(c)
<1>1. /\ Framed /\ FifoInv /\ LruInv /\ ScInv
      /\ UNCHANGED <<num_frames, frames, hits, misses, result, query, algo>>
  BY DEF Inv, ramVars
<1>2. Slots' = Slots /\ Resident' = Resident
  BY <1>1 DEF Slots, Resident
<1>3. \A c : Filled(c)' <=> Filled(c)
  BY <1>1, <1>2 DEF Filled
<1>4. Framed'
  BY <1>1, <1>2, <1>3 DEF Framed
<1>5. FifoInv'
  <2>1. UNCHANGED <<fifo_queue, fifo_head, fifo_count>>
    BY DEF fifoVars
  <2>2. Filled(fifo_count)' <=> Filled(fifo_count)
    BY <1>1, <1>2, <2>1 DEF Filled
  <2> QED
    BY <1>1, <2>1, <2>2 DEF FifoInv, FifoTypeOK
<1>6. LruInv'
  <2>1. UNCHANGED <<lru_list, lru_node, lru_count>>
    BY DEF lruVars
  <2>2. Listed(lru_list, lru_node, lru_count)' <=> Listed(lru_list, lru_node, lru_count)
    BY <1>1, <1>2, <2>1 DEF Listed, Filled
  <2> QED
    BY <1>1, <2>1, <2>2 DEF LruInv
<1>7. ScInv'
  <2>1. UNCHANGED <<sc_list, sc_node, sc_count>>
    BY DEF scVars
  <2>2. Listed(sc_list, sc_node, sc_count)' <=> Listed(sc_list, sc_node, sc_count)
    BY <1>1, <1>2, <2>1 DEF Listed, Filled
  <2> QED
    BY <1>1, <2>1, <2>2 DEF ScInv
<1> QED
  BY <1>1, <1>2, <1>3, <1>4, <1>5, <1>6, <1>7

LEMMA StutterKeeps ==
  ASSUME Inv, UNCHANGED vars
  PROVE  Inv'
<1>1. UNCHANGED <<ramVars, fifoVars, query, lruVars, scVars, algo, pc, todo, step, row>>
  BY DEF vars, loopVars
<1>2. /\ Framed' /\ FifoInv' /\ LruInv' /\ ScInv'
      /\ Slots' = Slots /\ Resident' = Resident
      /\ UNCHANGED <<num_frames, frames, hits, misses, result, query, algo>>
      /\ \A c : Filled(c)' <=> Filled(c)
  BY <1>1, Idle
<1>3. Page' = Page /\ Active' = Active /\ Served' = Served /\ Referenced' = Referenced
  BY <1>1, <1>2 DEF Page, Active, Served, Referenced
<1>4. Control'
  <2>1. Filled(num_frames)' <=> Filled(num_frames)
    BY <1>2 DEF Filled
  <2> QED
    BY <1>1, <1>2, <1>3, <2>1 DEF Inv, Control
<1>5. Counting'
  BY <1>1, <1>2, <1>3 DEF Inv, Counting
<1> QED
  BY <1>2, <1>4, <1>5 DEF Inv

LEMMA PrintRowKeeps ==
  ASSUME Inv, PrintRow
  PROVE  Inv'
<1>1. /\ pc = "show" /\ pc' \in {"show", "wait"}
      /\ row' \in Bytes
      /\ UNCHANGED <<ramVars, fifoVars, query, lruVars, scVars, algo, todo, step>>
  BY ArgsAssumption, ByteFacts DEF PrintRow, Inv, Control, Bytes
<1>2. /\ Framed' /\ FifoInv' /\ LruInv' /\ ScInv'
      /\ Slots' = Slots /\ Resident' = Resident
      /\ UNCHANGED <<num_frames, frames, hits, misses, result, query, algo>>
  BY <1>1, Idle
<1>3. Page' = Page /\ Active' /\ Active /\ Served' = Served
  BY <1>1 DEF Page, Active, Served
<1>4. Referenced' = Referenced
  BY <1>1, <1>3 DEF Referenced
<1>5. Control'
  BY <1>1, <1>2, <1>3 DEF Inv, Control
<1>6. Counting'
  BY <1>1, <1>2, <1>3, <1>4 DEF Inv, Counting
<1> QED
  BY <1>2, <1>5, <1>6 DEF Inv

LEMMA EnterKeeps ==
  ASSUME Inv, Enter
  PROVE  Inv'
<1>1. /\ \/ pc = "wait" /\ step' = step + 1 /\ pc' = "access"
         \/ pc = "done" /\ step' = step /\ pc' = "run"
      /\ UNCHANGED <<ramVars, fifoVars, query, lruVars, scVars, algo, todo, row>>
  BY DEF Enter
<1>2. /\ Framed' /\ FifoInv' /\ LruInv' /\ ScInv'
      /\ Slots' = Slots /\ Resident' = Resident
      /\ UNCHANGED <<num_frames, frames, hits, misses, result, query, algo>>
  BY <1>1, Idle
<1>3. step \in Nat /\ Len(query) \in Nat /\ step <= Len(query) /\ (pc = "wait" => step + 1 <= Len(query))
  BY DEF Inv, Control
<1>4. Active /\ (Active' => pc = "wait") /\ (pc = "wait" => Served' = Served)
  BY <1>1 DEF Active, Served
<1>5. pc = "wait" => Referenced' = Referenced
  BY <1>1, <1>4 DEF Referenced
<1>6. Control'
  BY <1>1, <1>2, <1>3, <1>4 DEF Inv, Control, Active
<1>7. Counting'
  BY <1>1, <1>2, <1>4, <1>5 DEF Inv, Counting
<1> QED
  BY <1>2, <1>6, <1>7 DEF Inv

LEMMA ResultsKeeps ==
  ASSUME Inv, Results
  PROVE  Inv'
<1>1. /\ pc = "access" /\ pc' = "done" /\ step' = step
      /\ UNCHANGED <<ramVars, fifoVars, query, lruVars, scVars, algo, todo, row>>
  BY DEF Results
<1>2. /\ Framed' /\ FifoInv' /\ LruInv' /\ ScInv'
      /\ Slots' = Slots /\ Resident' = Resident
      /\ UNCHANGED <<num_frames, frames, hits, misses, result, query, algo>>
  BY <1>1, Idle
<1>3. Active /\ Active' /\ Served' = Served
  BY <1>1 DEF Active, Served
<1>4. Referenced' = Referenced
  BY <1>1, <1>3 DEF Referenced
<1>5. Control'
  BY <1>1, <1>2, <1>3 DEF Inv, Control
<1>6. Counting'
  BY <1>1, <1>2, <1>3, <1>4 DEF Inv, Counting
<1> QED
  BY <1>2, <1>5, <1>6 DEF Inv

LEMMA ExitKeeps ==
  ASSUME Inv, Exit
  PROVE  Inv'
<1>1. /\ pc' = "exit" /\ step' = step
      /\ UNCHANGED <<ramVars, fifoVars, query, lruVars, scVars, algo, todo, row>>
  BY DEF Exit
<1>2. /\ Framed' /\ FifoInv' /\ LruInv' /\ ScInv'
      /\ Slots' = Slots /\ Resident' = Resident
      /\ UNCHANGED <<num_frames, frames, hits, misses, result, query, algo>>
  BY <1>1, Idle
<1>3. ~Active'
  BY <1>1 DEF Active
<1>4. Control'
  BY <1>1, <1>2, <1>3 DEF Inv, Control
<1>5. Counting'
  BY <1>1, <1>2, <1>3 DEF Inv, Counting
<1> QED
  BY <1>2, <1>4, <1>5 DEF Inv

\* What the program goes on with when it does not refuse its arguments.
LEMMA Parsed ==
  ASSUME FitsBytes, NEW a \in Args, ~Refused(a.n, a.typed)
  PROVE  /\ Uint8(a.n) \in 1 .. Byte \div 2
         /\ ParseQuery(a.typed) \in Seq(Pages)
         /\ LoggerRun(a.name) \in Seq(Policies)
         /\ \A j, k \in DOMAIN LoggerRun(a.name) :
              LoggerRun(a.name)[j] = LoggerRun(a.name)[k] => j = k
<1>1. a.n \in Int /\ a.typed \in Seq(Int) /\ MaxQuery \in Nat
  BY ArgsAssumption
<1>2. Uint8(a.n) \in 1 .. Byte \div 2
  <2>1. Uint8(a.n) \in Int /\ Byte \div 2 \in Nat /\ Uint8(a.n) <= Byte \div 2
    BY <1>1, ByteFacts DEF FitsBytes, Bytes
  <2>2. ~ Uint8(a.n) < 1
    BY DEF Refused
  <2> QED
    BY <2>1, <2>2
<1>3. ParseQuery(a.typed) \in Seq(Pages)
  <2> DEFINE m == IF Len(a.typed) < MaxQuery THEN Len(a.typed) ELSE MaxQuery
             q == ParseQuery(a.typed)
  <2>1. m \in Nat /\ m <= Len(a.typed)
    BY <1>1
  <2>2. q = [k \in 1 .. m |-> Uint8(a.typed[k])]
    BY DEF ParseQuery
  <2>3. \A k \in DOMAIN q : q[k] # FrameEmpty
    BY DEF FitsBytes
  <2>4. \A k \in 1 .. m : a.typed[k] \in Int
    BY <1>1, <2>1
  <2> HIDE DEF m, q
  <2>5. \A k \in 1 .. m : q[k] \in Pages
    BY <2>2, <2>3, <2>4, ByteFacts
  <2>6. q \in Seq(Pages)
    BY <2>1, <2>2, <2>5
  <2> QED
    BY <2>6 DEF q
<1>4. /\ LoggerRun(a.name) \in Seq(Policies)
      /\ \A j, k \in DOMAIN LoggerRun(a.name) :
           LoggerRun(a.name)[j] = LoggerRun(a.name)[k] => j = k
  <2>1. /\ Order \in Seq(Policies)
        /\ \A j, k \in DOMAIN Order : Order[j] = Order[k] => j = k
        /\ \A k \in DOMAIN Order : Order[k] \in Policies
    BY DEF Order, Policies
  <2>2. CASE a.name = "all"
    BY <2>1, <2>2 DEF LoggerRun
  <2>3. CASE a.name # "all" /\ a.name \in {Order[k] : k \in DOMAIN Order}
    <3>1. LoggerRun(a.name) = <<a.name>> /\ a.name \in Policies
      BY <2>1, <2>3 DEF LoggerRun
    <3> QED
      BY <3>1
  <2>4. CASE a.name # "all" /\ a.name \notin {Order[k] : k \in DOMAIN Order}
    BY <2>4 DEF LoggerRun
  <2> QED
    BY <2>2, <2>3, <2>4
<1> QED
  BY <1>2, <1>3, <1>4

LEMMA EmptyFramed ==
  ASSUME num_frames' \in 0 .. Byte \div 2, frames' = EmptyFrames(num_frames')
  PROVE  Framed' /\ Filled(0)' /\ Resident' = {}
<1>1. /\ frames' = [i \in Slots' |-> FrameEmpty] /\ 0 \in 0 .. num_frames' /\ Slots' \subseteq Nat
      /\ Byte \div 2 \in Nat
  <2>1. Byte \div 2 \in Nat /\ num_frames' \in Nat
    BY ByteFacts
  <2>2. Slots' = 0 .. num_frames' - 1
    BY DEF Slots
  <2>3. frames' = [i \in 0 .. num_frames' - 1 |-> FrameEmpty]
    BY DEF EmptyFrames
  <2>4. Slots' \subseteq Nat /\ 0 \in 0 .. num_frames'
    <3> DEFINE n == num_frames'
    <3>1. n \in Nat /\ Slots' = 0 .. n - 1
      BY <2>1, <2>2
    <3> HIDE DEF n
    <3>2. 0 .. n - 1 \subseteq Nat /\ 0 \in 0 .. n
      BY <3>1
    <3> QED
      BY <3>1, <3>2 DEF n
  <2> QED
    BY <2>1, <2>2, <2>3, <2>4
<1>2. Filled(0)'
  BY <1>1 DEF Filled
<1>3. Framed'
  BY <1>1, <1>2, ByteFacts DEF Framed
<1> QED
  BY <1>1, <1>2, <1>3 DEF Resident

LEMMA ParseArgsKeeps ==
  ASSUME FitsBytes, Inv, ParseArgs
  PROVE  Inv'
<1>1. /\ pc = "parse" /\ UNCHANGED <<hits, misses, result, fifoVars, lruVars, scVars, algo, step, row>>
      /\ Framed /\ Control /\ Counting /\ FifoInv /\ LruInv /\ ScInv
  BY DEF ParseArgs, Inv
<1>2. algo = "none" /\ step = 0 /\ hits = 0 /\ misses = 0
  BY <1>1 DEF Control
<1>3. LruInv' /\ ScInv'
  BY <1>1, <1>2, LruIdle, ScIdle
<1>4. CASE pc' = "exit" /\ UNCHANGED <<num_frames, frames, query, todo>>
  <2>1. Framed' /\ FifoInv'
    BY <1>1, <1>4, Idle DEF ramVars
  <2>2. ~Active'
    BY <1>4 DEF Active
  <2>3. Control'
    BY <1>1, <1>4, <2>2 DEF Control
  <2>4. Counting'
    BY <1>1, <1>4, <2>2 DEF Counting
  <2> QED
    BY <1>3, <2>1, <2>3, <2>4 DEF Inv
<1>5. ASSUME NEW a \in Args, ~Refused(a.n, a.typed),
             num_frames' = Uint8(a.n), frames' = EmptyFrames(Uint8(a.n)),
             query' = ParseQuery(a.typed), todo' = LoggerRun(a.name), pc' = "run"
      PROVE  Inv'
  <2>1. /\ num_frames' \in 1 .. Byte \div 2 /\ query' \in Seq(Pages)
        /\ todo' \in Seq(Policies)
        /\ \A j, k \in DOMAIN todo' : todo'[j] = todo'[k] => j = k
    BY <1>5, Parsed
  <2>2. num_frames' \in 0 .. Byte \div 2 /\ num_frames' \in Nat /\ num_frames' > 0
    BY <2>1, ByteFacts
  <2>3. Framed'
    BY <1>5, <2>2, EmptyFramed
  <2>4. ~Active'
    BY <1>5 DEF Active
  <2>5. Control'
    <3>1. \A k \in DOMAIN todo' : todo'[k] # "none"
      BY <2>1 DEF Policies
    <3>2. Len(query') \in Nat
      BY <2>1
    <3> QED
      BY <1>1, <1>2, <1>5, <2>1, <2>2, <2>4, <3>1, <3>2 DEF Control
  <2>6. Counting'
    BY <1>1, <1>2, <1>5, <2>1, <2>4 DEF Counting
  <2>7. FifoInv'
    BY <1>1, <1>2, <2>2 DEF FifoInv, FifoTypeOK, fifoVars
  <2> QED
    BY <1>3, <2>3, <2>5, <2>6, <2>7 DEF Inv
<1> QED
  BY <1>4, <1>5 DEF ParseArgs

LEMMA RunOneKeeps ==
  ASSUME Inv, RunOne
  PROVE  Inv'
<1>1. /\ pc = "run" /\ todo # <<>> /\ SchedulerReset
      /\ algo' = Head(todo) /\ todo' = Tail(todo)
      /\ step' = 0 /\ row' = 0 /\ pc' = "access"
      /\ UNCHANGED <<num_frames, result, query>>
      /\ Framed /\ Control /\ Counting /\ FifoInv /\ LruInv /\ ScInv
  BY DEF RunOne, Inv
<1>2. hits' = 0 /\ misses' = 0 /\ frames' = EmptyFrames(num_frames)
  BY <1>1 DEF SchedulerReset
<1>3. num_frames > 0 /\ num_frames \in 0 .. Byte \div 2 /\ num_frames \in Nat
  BY <1>1, ByteFacts DEF Control, Framed
<1>4. Framed' /\ Filled(0)' /\ Resident' = {}
  BY <1>1, <1>2, <1>3, EmptyFramed
<1>5. /\ algo' \in Policies /\ todo' \in Seq(Policies)
      /\ \A k \in DOMAIN todo' : todo'[k] # algo'
      /\ \A j, k \in DOMAIN todo' : todo'[j] = todo'[k] => j = k
  <2>1. /\ todo \in Seq(Policies) /\ \A j, k \in DOMAIN todo : todo[j] = todo[k] => j = k
    BY <1>1 DEF Control
  <2>2. /\ Len(todo) \in Nat /\ Len(todo) >= 1 /\ DOMAIN todo = 1 .. Len(todo)
        /\ algo' = todo[1] /\ todo' \in Seq(Policies) /\ DOMAIN todo' = 1 .. Len(todo) - 1
        /\ \A k \in 1 .. Len(todo) - 1 : todo'[k] = todo[k + 1]
    BY <1>1, <2>1
  <2>3. \A k \in 1 .. Len(todo) - 1 : k + 1 \in DOMAIN todo /\ 1 \in DOMAIN todo /\ k + 1 # 1
    BY <2>2
  <2>4. todo[1] \in Policies
    BY <2>1, <2>2
  <2>5. \A j, k \in 1 .. Len(todo) - 1 : todo[j + 1] = todo[k + 1] => j = k
    BY <2>1, <2>2, <2>3
  <2> QED
    BY <2>1, <2>2, <2>3, <2>4, <2>5
<1>6. Control'
  <2>1. Active' /\ Len(query) \in Nat
    BY <1>1 DEF Active, Control
  <2> QED
    BY <1>1, <1>3, <1>5, <2>1, ByteFacts DEF Control
<1>7. Counting'
  <2>1. Served' = 0
    BY <1>1 DEF Served
  <2>2. Referenced' = {} /\ Cardinality({}) = 0
    BY <2>1, FS_EmptySet DEF Referenced
  <2>3. Len(query') \in Nat
    BY <1>1 DEF Control
  <2> QED
    BY <1>1, <1>2, <1>4, <2>1, <2>2, <2>3 DEF Counting
<1>8. FifoInv'
  <2>1. fifo_queue' = [k \in Bytes |-> FrameEmpty] /\ fifo_head' = 0 /\ fifo_count' = 0
    BY <1>1 DEF SchedulerReset, FifoReset
  <2>2. Filled(fifo_count)'
    BY <1>4, <2>1
  <2>3. FifoTypeOK'
    BY <1>1, <1>3, <2>1, ByteFacts DEF FifoTypeOK
  <2> QED
    BY <2>1, <2>2, <2>3 DEF FifoInv
<1>9. LruInv'
  <2>1. /\ lru_list' = [lru_list EXCEPT !.head = Nil, !.tail = Nil]
        /\ lru_count' = 0 /\ lru_node' = lru_node
    BY <1>1 DEF SchedulerReset, LruReset
  <2>2. IsList(lru_list', Bytes) /\ lru_list'.head = Nil /\ lru_list'.tail = Nil
    BY <1>1, <2>1 DEF LruInv, IsList
  <2>3. Nodes(lru_list') = <<>> /\ Represents(lru_list', <<>>)
    BY <2>2, BytesPool, NoNodes
  <2>4. Filled(lru_count)'
    BY <1>4, <2>1
  <2>5. Nodes(lru_list') \in [1 .. 0 -> 0 .. 0 - 1]
    BY <2>3
  <2>6. Listed(lru_list, lru_node, lru_count)'
    BY <2>1, <2>3, <2>4, <2>5 DEF Listed
  <2> QED
    BY <1>1, <2>1, <2>2, <2>6, ByteFacts DEF LruInv
<1>10. ScInv'
  <2>1. /\ sc_list' = [sc_list EXCEPT !.head = Nil, !.tail = Nil]
        /\ sc_count' = 0 /\ sc_node' = sc_node
    BY <1>1 DEF SchedulerReset, ScReset
  <2>2. IsList(sc_list', Bytes) /\ sc_list'.head = Nil /\ sc_list'.tail = Nil
    BY <1>1, <2>1 DEF ScInv, IsList
  <2>3. Nodes(sc_list') = <<>> /\ Represents(sc_list', <<>>)
    BY <2>2, BytesPool, NoNodes
  <2>4. Filled(sc_count)'
    BY <1>4, <2>1
  <2>5. Nodes(sc_list') \in [1 .. 0 -> 0 .. 0 - 1]
    BY <2>3
  <2>6. Listed(sc_list, sc_node, sc_count)'
    BY <2>1, <2>3, <2>4, <2>5 DEF Listed
  <2> QED
    BY <1>1, <2>1, <2>2, <2>6, ByteFacts DEF ScInv
<1> QED
  BY <1>4, <1>6, <1>7, <1>8, <1>9, <1>10 DEF Inv

LEMMA NextInv ==
  ASSUME FitsBytes, Inv, [Next]_vars
  PROVE  Inv'
BY ParseArgsKeeps, RunOneKeeps, FifoKeeps, MinKeeps, LruKeeps, ScAccessKeeps, ScBeginKeeps,
   SweepKeeps, ScEndKeeps, PrintRowKeeps, EnterKeeps, ResultsKeeps, ExitKeeps, StutterKeeps
   DEF Next, Stopped

LEMMA Invariance ==
  ASSUME FitsBytes
  PROVE  Spec => []Inv
<1>1. Inv /\ [Next]_vars => Inv'
  BY NextInv
<1> QED
  BY <1>1, InitInv, PTL DEF Spec

LEMMA ListRepresented ==
  ASSUME Inv
  PROVE  Represents(lru_list, Nodes(lru_list)) /\ Represents(sc_list, Nodes(sc_list))
<1>1. LruInv /\ ScInv
  BY DEF Inv
<1>2. Represents(lru_list, Nodes(lru_list))
  <2>1. CASE algo = "lru"
    BY <1>1, <2>1 DEF LruInv, Listed
  <2>2. CASE algo # "lru"
    BY <1>1, <2>2, BytesPool, NoNodes DEF LruInv
  <2> QED
    BY <2>1, <2>2
<1>3. Represents(sc_list, Nodes(sc_list))
  <2>1. CASE algo = "second_chance"
    BY <1>1, <2>1 DEF ScInv, Listed
  <2>2. CASE algo # "second_chance"
    BY <1>1, <2>2, BytesPool, NoNodes DEF ScInv
  <2> QED
    BY <2>1, <2>2
<1> QED
  BY <1>2, <1>3

LEMMA InvTypeOK == Inv => TypeOK
<1> SUFFICES ASSUME Inv PROVE TypeOK
  OBVIOUS
<1>1. Framed /\ Control /\ Counting /\ FifoInv /\ LruInv /\ ScInv
  BY DEF Inv
<1>2. num_frames \in Bytes
  <2>1. num_frames \in 0 .. Byte \div 2 /\ Byte \div 2 \in Nat /\ Byte \div 2 < Byte - 1
    BY <1>1, ByteFacts DEF Framed
  <2> QED
    BY <2>1 DEF Bytes
<1>3. query \in Seq(Bytes) /\ Len(query) \in Nat
  <2>1. query \in Seq(Pages) /\ Pages \subseteq Bytes
    BY <1>1, ByteFacts DEF Control
  <2>2. \A k \in 1 .. Len(query) : query[k] \in Bytes
    BY <2>1
  <2> QED
    BY <2>1, <2>2
<1>4. hits \in 0 .. Len(query) /\ misses \in 0 .. Len(query)
  BY <1>1, <1>3 DEF Counting
<1>5. frames \in [0 .. num_frames - 1 -> Bytes]
  BY <1>1 DEF Framed, Slots
<1>6. LruTypeOK /\ ScTypeOK
  BY <1>1, ListRepresented DEF LruTypeOK, ScTypeOK, LruInv, ScInv, IsList
<1>7. FifoTypeOK
  BY <1>1 DEF FifoInv
<1>8. /\ step \in 0 .. Len(query) /\ row \in Bytes
      /\ result \in [hit : BOOLEAN, evicted : Bytes, frame_idx : Bytes]
      /\ pc \in {"parse", "run", "access", "sweep", "show", "wait", "done", "exit"}
  BY <1>1 DEF Control, Active
<1> QED
  BY <1>2, <1>3, <1>4, <1>5, <1>6, <1>7, <1>8 DEF TypeOK

\* Every variable keeps its type: frames and indices stay bytes through all the
\* narrowing, the circular queue stays within its array, and after any links and
\* unlinks (scheduler.c:183-195, 253-259) both pointer lists are lists whose next
\* and prev agree.
THEOREM Typing ==
  ASSUME FitsBytes
  PROVE  Spec => []TypeOK
BY Invariance, InvTypeOK, PTL

LEMMA InvServed == Inv => ReferencesServed
<1> SUFFICES ASSUME Inv PROVE ReferencesServed
  OBVIOUS
<1>1. Control /\ Counting
  BY DEF Inv
<1>2. pc \in {"access", "show", "wait", "done"} => Active
  BY DEF Active
<1>3. Active => hits + misses = Served /\ Cardinality(Referenced) <= misses /\ misses \in Nat
  BY <1>1 DEF Counting
<1>4. IsFiniteSet(Referenced)
  <2>1. step \in Nat /\ Len(query) \in Nat /\ step <= Len(query)
    BY <1>1 DEF Control
  <2>2. Served \in Nat /\ Served <= Len(query)
    BY <1>1, <2>1 DEF Served, Control
  <2>3. \A k \in 1 .. Served : query[k] \in Pages
    BY <1>1, <2>1, <2>2 DEF Control
  <2>4. Referenced \subseteq Pages
    BY <2>3 DEF Referenced
  <2>5. IsFiniteSet(Pages)
    <3>1. 0 \in Int /\ Byte - 2 \in Int
      OBVIOUS
    <3> QED
      BY <3>1, FS_Interval DEF Pages
  <2> QED
    BY <2>4, <2>5, FS_Subset
<1>5. Cardinality(Referenced) \in Nat
  BY <1>4, FS_CardinalityType
<1>6. Active => misses >= Cardinality(Referenced)
  BY <1>3, <1>5
<1>7. pc \in {"show", "wait"} => frames[result.frame_idx] = query[step + 1]
  BY <1>1 DEF Counting, Page
<1> QED
  BY <1>2, <1>3, <1>6, <1>7 DEF ReferencesServed

\* Under every policy each reference is counted once, as a hit or as a miss, its
\* page is in the frame that access_result names, and every page costs a miss:
\* none is found that a policy before left there (scheduler.c:73-89, 98-311).
THEOREM ServedOnce ==
  ASSUME FitsBytes
  PROVE  Spec => []ReferencesServed
BY Invariance, InvServed, PTL

-----------------------------------------------------------------------------
(* The queue that each policy keeps.                                         *)

\* The place in the circular array of the k-th frame to go.
Place(k) == IF fifo_head + k - 1 < num_frames THEN fifo_head + k - 1
                                              ELSE fifo_head + k - 1 - num_frames

\* What Queue and the marked pages are, by policy.
QueueReads ==
  /\ algo = "fifo" => Queue = [k \in 1 .. fifo_count |-> frames[Place(k)]]
  /\ algo = "min" => \A c : Filled(c) => Queue = [k \in 1 .. c |-> frames[k - 1]]
  /\ algo = "lru" => Queue = [k \in 1 .. lru_count |-> frames[Nodes(lru_list)[lru_count + 1 - k]]]
  /\ algo = "second_chance" =>
       /\ Queue = [k \in 1 .. sc_count |-> frames[Nodes(sc_list)[k]]]
       /\ ScMarked = {frames[i] : i \in {i \in 0 .. sc_count - 1 : sc_node[i].ref_bit = 1}}
  /\ algo = "none" => Queue = <<>>

LEMMA FifoPlaces ==
  ASSUME Inv, algo = "fifo"
  PROVE  /\ fifo_count \in Nat /\ fifo_count <= num_frames /\ Filled(fifo_count)
         /\ \A k \in 1 .. fifo_count : /\ Place(k) \in 0 .. fifo_count - 1
                                       /\ (fifo_head + k - 1) % num_frames = Place(k)
                                       /\ fifo_queue[Place(k)] = Place(k)
         /\ \A i \in 0 .. fifo_count - 1 : \E k \in 1 .. fifo_count : Place(k) = i
<1> DEFINE n == num_frames
           c == fifo_count
           h == fifo_head
<1>1. /\ n \in Nat /\ Filled(c) /\ c \in Nat /\ c <= n /\ h \in Nat /\ (n > 0 => h < n)
      /\ (h # 0 => c = n)
      /\ \A j \in 0 .. c - 1 : fifo_queue[j] = j
  <2>1. Framed /\ FifoInv
    BY DEF Inv
  <2>2. n \in Nat /\ Filled(c)
    BY <2>1, ByteFacts DEF Framed, FifoInv
  <2>3. h \in 0 .. n /\ (n > 0 => h < n) /\ (h # 0 => c = n) /\ \A j \in 0 .. c - 1 : fifo_queue[j] = j
    BY <2>1 DEF FifoInv, FifoTypeOK
  <2> QED
    BY <2>2, <2>3 DEF Filled
<1>2. \A k \in Int : Place(k) = IF h + k - 1 < n THEN h + k - 1 ELSE h + k - 1 - n
  BY DEF Place
<1> HIDE DEF n, c, h
<1>3. ASSUME NEW k \in 1 .. c
      PROVE  Place(k) \in 0 .. c - 1 /\ (h + k - 1) % n = Place(k) /\ fifo_queue[Place(k)] = Place(k)
  <2>1. n \in Nat \ {0} /\ h < n /\ h + k - 1 \in 0 .. 2 * n - 1
    BY <1>1
  <2>2. (h + k - 1) % n = Place(k)
    <3> DEFINE i == h + k - 1
    <3>1. i \in 0 .. 2 * n - 1
      BY <2>1
    <3>2. Place(k) = IF i < n THEN i ELSE i - n
      <4>1. k \in Int
        OBVIOUS
      <4>2. Place(k) = IF h + k - 1 < n THEN h + k - 1 ELSE h + k - 1 - n
        BY <1>2, <4>1
      <4> QED
        BY <1>1, <4>1, <4>2
    <3> HIDE DEF i
    <3>3. i % n = Place(k)
      BY <2>1, <3>1, <3>2, Wraps
    <3> QED
      BY <3>3 DEF i
  <2>3. Place(k) \in 0 .. c - 1
    BY <1>1, <1>2, <2>1
  <2> QED
    BY <1>1, <2>2, <2>3
<1>4. ASSUME NEW i \in 0 .. c - 1
      PROVE  \E k \in 1 .. c : Place(k) = i
  <2>1. CASE i >= h
    <3>1. i - h + 1 \in 1 .. c /\ h + (i - h + 1) - 1 = i /\ i < n
      BY <1>1, <2>1
    <3>2. Place(i - h + 1) = i
      BY <1>2, <3>1
    <3> QED
      BY <3>1, <3>2
  <2>2. CASE i < h
    <3>1. i + n - h + 1 \in 1 .. c /\ h + (i + n - h + 1) - 1 = i + n
      BY <1>1, <2>2
    <3>2. Place(i + n - h + 1) = i
      BY <1>1, <1>2, <3>1
    <3> QED
      BY <3>1, <3>2
  <2> QED
    BY <1>1, <2>1, <2>2
<1> QED
  BY <1>1, <1>3, <1>4 DEF n, c, h

LEMMA Reads == Inv => QueueReads
<1> SUFFICES ASSUME Inv PROVE QueueReads
  OBVIOUS
<1>1. Framed /\ LruInv /\ ScInv
  BY DEF Inv
<1>2. algo = "fifo" => Queue = [k \in 1 .. fifo_count |-> frames[Place(k)]]
  <2>1. SUFFICES ASSUME algo = "fifo" PROVE Queue = [k \in 1 .. fifo_count |-> frames[Place(k)]]
    OBVIOUS
  <2>2. Queue = FifoOrder
    BY <2>1 DEF Queue
  <2>3. \A k \in 1 .. fifo_count : /\ (fifo_head + k - 1) % num_frames = Place(k)
                                  /\ fifo_queue[Place(k)] = Place(k)
    BY <2>1, FifoPlaces
  <2> QED
    BY <2>2, <2>3 DEF FifoOrder
<1>3. algo = "min" => \A c : Filled(c) => Queue = [k \in 1 .. c |-> frames[k - 1]]
  BY <1>1, ResidentCount DEF Queue
<1>4. algo = "lru" => Queue = [k \in 1 .. lru_count |-> frames[Nodes(lru_list)[lru_count + 1 - k]]]
  <2>1. SUFFICES ASSUME algo = "lru"
                 PROVE  Queue = [k \in 1 .. lru_count |-> frames[Nodes(lru_list)[lru_count + 1 - k]]]
    OBVIOUS
  <2> DEFINE s == Nodes(lru_list)
             c == lru_count
  <2>2. Listed(lru_list, lru_node, c)
    BY <1>1, <2>1 DEF LruInv
  <2>3. c \in Nat /\ s \in [1 .. c -> 0 .. c - 1] /\ Len(s) = c
    BY <1>1, <2>2, ListedFacts DEF Listed
  <2>4. Queue = [k \in 1 .. c |-> frames[lru_node[s[c + 1 - k]].frame_idx]]
    BY <2>1, <2>3 DEF Queue, LruOrder
  <2>5. \A k \in 1 .. c : lru_node[s[c + 1 - k]].frame_idx = s[c + 1 - k]
    <3> TAKE k \in 1 .. c
    <3>1. c + 1 - k \in 1 .. c
      BY <2>3
    <3>2. s[c + 1 - k] \in 0 .. c - 1
      BY <2>3, <3>1
    <3> QED
      BY <2>2, <3>2 DEF Listed
  <2> QED
    BY <2>4, <2>5
<1>5. algo = "second_chance" =>
        /\ Queue = [k \in 1 .. sc_count |-> frames[Nodes(sc_list)[k]]]
        /\ ScMarked = {frames[i] : i \in {i \in 0 .. sc_count - 1 : sc_node[i].ref_bit = 1}}
  <2>1. SUFFICES ASSUME algo = "second_chance"
                 PROVE  /\ Queue = [k \in 1 .. sc_count |-> frames[Nodes(sc_list)[k]]]
                        /\ ScMarked = {frames[i] : i \in {i \in 0 .. sc_count - 1 : sc_node[i].ref_bit = 1}}
    OBVIOUS
  <2> DEFINE s == Nodes(sc_list)
             c == sc_count
  <2>2. Listed(sc_list, sc_node, c)
    BY <1>1, <2>1 DEF ScInv
  <2>3. /\ c \in Nat /\ s \in [1 .. c -> 0 .. c - 1]
        /\ \A i \in 0 .. c - 1 : \E k \in 1 .. c : s[k] = i
    BY <1>1, <2>2, ListedFacts DEF Listed
  <2>4. \A k \in 1 .. c : s[k] \in 0 .. c - 1 /\ sc_node[s[k]].frame_idx = s[k]
    BY <2>2, <2>3 DEF Listed
  <2>5. Queue = [k \in 1 .. c |-> frames[s[k]]]
    BY <2>1, <2>3, <2>4 DEF Queue, ScOrder
  <2>6. ScMarked = {frames[s[k]] : k \in {j \in 1 .. c : sc_node[s[j]].ref_bit = 1}}
    <3> DEFINE set == {j \in 1 .. c : sc_node[s[j]].ref_bit = 1}
    <3>1. DOMAIN s = 1 .. c
      BY <2>3
    <3>2. ScMarked = {frames[sc_node[s[k]].frame_idx] : k \in set}
      BY <3>1 DEF ScMarked
    <3>3. \A k \in set : sc_node[s[k]].frame_idx = s[k]
      BY <2>4
    <3> HIDE DEF set, s, c
    <3>4. ScMarked = {frames[s[k]] : k \in set}
      BY <3>2, <3>3
    <3> QED
      BY <3>4 DEF set
  <2> HIDE DEF s, c
  <2>7. ScMarked = {frames[i] : i \in {i \in 0 .. c - 1 : sc_node[i].ref_bit = 1}}
    <3>1. ASSUME NEW k \in 1 .. c, sc_node[s[k]].ref_bit = 1
          PROVE  s[k] \in {i \in 0 .. c - 1 : sc_node[i].ref_bit = 1}
      BY <2>4, <3>1
    <3>2. ASSUME NEW i \in 0 .. c - 1, sc_node[i].ref_bit = 1
          PROVE  \E k \in {j \in 1 .. c : sc_node[s[j]].ref_bit = 1} : s[k] = i
      BY <2>3, <3>2
    <3> QED
      BY <2>6, <3>1, <3>2
  <2> QED
    BY <2>5, <2>7 DEF s, c
<1>6. algo = "none" => Queue = <<>>
  BY DEF Queue
<1> QED
  BY <1>2, <1>3, <1>4, <1>5, <1>6 DEF QueueReads

LEMMA ReadsNext == Inv' => QueueReads'
BY Reads, PTL

\* The queue holds the resident pages, each once.
LEMMA ReadThrough ==
  ASSUME Framed, NEW c, Filled(c), NEW g \in [1 .. c -> 0 .. c - 1],
         \A i \in 0 .. c - 1 : \E k \in 1 .. c : g[k] = i,
         Queue = [k \in 1 .. c |-> frames[g[k]]]
  PROVE  /\ c \in Nat /\ c <= num_frames
         /\ Queue \in Seq(Bytes) /\ Len(Queue) = c
         /\ \A k \in 1 .. c : Queue[k] \in Resident
         /\ \A p \in Resident : \E k \in 1 .. c : Queue[k] = p
<1>1. num_frames \in Nat /\ c \in Nat /\ c <= num_frames /\ DOMAIN frames = Slots
  BY ByteFacts DEF Framed, Filled
<1>2. \A i \in 0 .. c - 1 : i \in Slots /\ frames[i] \in Bytes /\ frames[i] # FrameEmpty
  <2> TAKE i \in 0 .. c - 1
  <2>1. i \in Slots /\ i < c
    BY <1>1 DEF Slots
  <2> QED
    BY <2>1 DEF Framed, Filled
<1>3. \A k \in 1 .. c : Queue[k] \in Bytes /\ Queue[k] \in Resident
  BY <1>1, <1>2 DEF Resident
<1>4. Queue \in Seq(Bytes) /\ Len(Queue) = c
  BY <1>1, <1>3
<1>5. ASSUME NEW p \in Resident PROVE \E k \in 1 .. c : Queue[k] = p
  <2>1. PICK i \in Slots : frames[i] = p /\ p # FrameEmpty
    BY <1>1 DEF Resident
  <2>2. i \in 0 .. c - 1
    BY <1>1, <2>1 DEF Filled, Slots
  <2> QED
    BY <2>1, <2>2
<1> QED
  BY <1>1, <1>3, <1>4, <1>5

LEMMA QueueReadThrough ==
  ASSUME Inv, algo \in Policies, NEW c, Filled(c)
  PROVE  \E g \in [1 .. c -> 0 .. c - 1] : /\ \A i \in 0 .. c - 1 : \E k \in 1 .. c : g[k] = i
                                          /\ Queue = [k \in 1 .. c |-> frames[g[k]]]
<1>1. Framed /\ LruInv /\ ScInv /\ QueueReads
  BY Reads DEF Inv
<1>2. c \in Nat /\ c <= num_frames
  BY <1>1, ByteFacts DEF Filled, Framed
<1>3. CASE algo = "fifo"
  <2> DEFINE g == [k \in 1 .. c |-> Place(k)]
  <2>1. /\ fifo_count = c
        /\ \A k \in 1 .. c : Place(k) \in 0 .. c - 1
        /\ \A i \in 0 .. c - 1 : \E k \in 1 .. c : Place(k) = i
    <3>1. c = fifo_count
      BY <1>1, <1>3, FifoPlaces, FilledOnce
    <3> QED
      BY <1>3, <3>1, FifoPlaces
  <2>2. g \in [1 .. c -> 0 .. c - 1] /\ \A i \in 0 .. c - 1 : \E k \in 1 .. c : g[k] = i
    BY <2>1
  <2>3. Queue = [k \in 1 .. c |-> frames[g[k]]]
    BY <1>1, <1>3, <2>1 DEF QueueReads
  <2> HIDE DEF g
  <2> QED
    BY <2>2, <2>3
<1>4. CASE algo = "min"
  <2> DEFINE g == [k \in 1 .. c |-> k - 1]
  <2>1. g \in [1 .. c -> 0 .. c - 1]
    BY <1>2
  <2>2. \A i \in 0 .. c - 1 : i + 1 \in 1 .. c /\ g[i + 1] = i
    BY <1>2
  <2>3. Queue = [k \in 1 .. c |-> frames[g[k]]]
    BY <1>1, <1>4 DEF QueueReads
  <2> HIDE DEF g
  <2>4. \A i \in 0 .. c - 1 : \E k \in 1 .. c : g[k] = i
    BY <2>2
  <2> QED
    BY <2>1, <2>3, <2>4
<1>5. CASE algo = "lru"
  <2> DEFINE s == Nodes(lru_list)
             g == [k \in 1 .. c |-> s[c + 1 - k]]
  <2>1. Listed(lru_list, lru_node, lru_count)
    BY <1>1, <1>5 DEF LruInv
  <2>2. c = lru_count
    BY <1>1, <2>1, FilledOnce DEF Listed
  <2>3. s \in [1 .. c -> 0 .. c - 1] /\ \A i \in 0 .. c - 1 : \E k \in 1 .. c : s[k] = i
    BY <1>1, <2>1, <2>2, ListedFacts DEF Listed
  <2>4. Queue = [k \in 1 .. c |-> frames[g[k]]]
    BY <1>1, <1>5, <2>2 DEF QueueReads
  <2> HIDE DEF s
  <2>5. \A k \in 1 .. c : c + 1 - k \in 1 .. c /\ c + 1 - (c + 1 - k) = k
    BY <1>2
  <2>6. g \in [1 .. c -> 0 .. c - 1]
    BY <2>3, <2>5
  <2>7. \A i \in 0 .. c - 1 : \E k \in 1 .. c : g[k] = i
    <3> TAKE i \in 0 .. c - 1
    <3>1. PICK k \in 1 .. c : s[k] = i
      BY <2>3
    <3>2. c + 1 - k \in 1 .. c /\ g[c + 1 - k] = i
      BY <2>5, <3>1
    <3> QED
      BY <3>2
  <2> HIDE DEF g
  <2> QED
    BY <2>4, <2>6, <2>7
<1>6. CASE algo = "second_chance"
  <2> DEFINE s == Nodes(sc_list)
  <2>1. Listed(sc_list, sc_node, sc_count)
    BY <1>1, <1>6 DEF ScInv
  <2>2. c = sc_count
    BY <1>1, <2>1, FilledOnce DEF Listed
  <2>3. s \in [1 .. c -> 0 .. c - 1] /\ \A i \in 0 .. c - 1 : \E k \in 1 .. c : s[k] = i
    BY <1>1, <2>1, <2>2, ListedFacts DEF Listed
  <2>4. Queue = [k \in 1 .. c |-> frames[s[k]]]
    BY <1>1, <1>6, <2>2 DEF QueueReads
  <2> HIDE DEF s
  <2> QED
    BY <2>3, <2>4
<1> QED
  BY <1>3, <1>4, <1>5, <1>6 DEF Policies

LEMMA QueueHolds ==
  ASSUME Inv, algo \in Policies, NEW c, Filled(c)
  PROVE  /\ c \in Nat /\ c <= num_frames
         /\ Queue \in Seq(Bytes) /\ Len(Queue) = c
         /\ \A k \in 1 .. c : Queue[k] \in Resident
         /\ \A p \in Resident : \E k \in 1 .. c : Queue[k] = p
<1>1. Framed
  BY DEF Inv
<1>2. PICK g \in [1 .. c -> 0 .. c - 1] : /\ \A i \in 0 .. c - 1 : \E k \in 1 .. c : g[k] = i
                                        /\ Queue = [k \in 1 .. c |-> frames[g[k]]]
  BY QueueReadThrough
<1> QED
  BY <1>1, <1>2, ReadThrough

-----------------------------------------------------------------------------
(* Each step of the program is one of the queue, or none.                    *)

Marked == IF algo = "second_chance" THEN ScMarked ELSE {}

LEMMA Serving ==
  ASSUME Inv, pc \in {"access", "sweep"}, step < Len(query), pc' \in {"show", "wait"},
         UNCHANGED <<num_frames, algo, step, query>>
  PROVE  Eviction!Serve
BY DEF Eviction!Serve, Page

\* A hit that keeps the queue.
LEMMA HitUses ==
  ASSUME Inv, algo \in {"fifo", "min", "second_chance"}, pc = "access", step < Len(query), Eviction!Serve,
         NEW i, HitAt(i, Page), Queue' = Queue, UNCHANGED <<algo, step, query>>,
         Marked' = IF algo = "second_chance" THEN Marked \cup {Page} ELSE Marked
  PROVE  Eviction!Use
<1>1. Framed /\ Control /\ algo \in Policies
  BY DEF Inv, Policies
<1>2. PICK c : Filled(c)
  BY <1>1 DEF Framed
<1>3. Page \in Resident
  <2>1. i \in DOMAIN frames /\ frames[i] = Page
    BY <1>1 DEF HitAt, Framed
  <2>2. Page # FrameEmpty
    BY <1>1, PageType, ByteFacts
  <2> QED
    BY <2>1, <2>2 DEF Resident
<1>4. PICK k \in 1 .. c : Queue[k] = Page /\ k \in DOMAIN Queue
  BY <1>1, <1>2, <1>3, QueueHolds
<1> QED
  BY <1>4 DEF Eviction!Use, Marked

\* A page that is loaded into a free frame.
LEMMA FillLoadsQueue ==
  ASSUME Inv, algo \in Policies, step < Len(query), Eviction!Serve, Page \notin Resident,
         NEW c, Filled(c), c < num_frames, Queue' = Append(Queue, Page), Marked' = Marked
  PROVE  Eviction!Load
<1>1. Len(Queue) = c /\ DOMAIN Queue = 1 .. c /\ \A k \in 1 .. c : Queue[k] \in Resident
  BY QueueHolds
<1>2. Page \notin {Queue[k] : k \in DOMAIN Queue}
  BY <1>1
<1> QED
  BY <1>1, <1>2 DEF Eviction!Load, Eviction!Resident, Marked

\* A page that replaces another one.
LEMMA EvictsQueue ==
  ASSUME Inv, algo \in Policies, step < Len(query), Eviction!Serve, Page \notin Resident,
         Filled(num_frames), Marked' = Marked,
         IF algo = "min" THEN \E k \in 1 .. num_frames : Queue' = [Queue EXCEPT ![k] = Page]
                         ELSE Queue[1] \notin Marked /\ Queue' = Append(Tail(Queue), Page)
  PROVE  Eviction!Evict
<1>1. PICK c : c = num_frames /\ Filled(c)
  OBVIOUS
<1>2. Len(Queue) = num_frames /\ DOMAIN Queue = 1 .. num_frames /\ \A k \in 1 .. num_frames : Queue[k] \in Resident
  BY <1>1, QueueHolds
<1>3. Page \notin {Queue[k] : k \in DOMAIN Queue}
  BY <1>2
<1> QED
  BY <1>2, <1>3 DEF Eviction!Evict, Eviction!Resident, Marked

\* The operations of the queue, element by element.
LEMMA Appended ==
  ASSUME NEW S, NEW u \in Seq(S), NEW p
  PROVE  Append(u, p) = [k \in 1 .. Len(u) + 1 |-> IF k = Len(u) + 1 THEN p ELSE u[k]]
<1> DEFINE t == Append(u, p)
<1>1. Len(u) \in Nat /\ u \in Seq(S \cup {p})
  <2>1. Seq(S) \subseteq Seq(S \cup {p})
    OBVIOUS
  <2> QED
    BY <2>1
<1>2. t \in Seq(S \cup {p}) /\ Len(t) = Len(u) + 1
  BY <1>1
<1>3. \A k \in 1 .. Len(u) + 1 : t[k] = IF k = Len(u) + 1 THEN p ELSE u[k]
  BY <1>1
<1> HIDE DEF t
<1>4. t = [k \in 1 .. Len(u) + 1 |-> IF k = Len(u) + 1 THEN p ELSE u[k]]
  BY <1>2, <1>3
<1> QED
  BY <1>4 DEF t

\* The head goes and p comes.
LEMMA Rotated ==
  ASSUME NEW S, NEW q \in Seq(S), q # <<>>, NEW p
  PROVE  Append(Tail(q), p) = [k \in 1 .. Len(q) |-> IF k = Len(q) THEN p ELSE q[k + 1]]
<1> DEFINE n == Len(q)
           u == Tail(q)
<1>1. n \in Nat /\ DOMAIN q = 1 .. n /\ \A k \in 1 .. n : q[k] \in S
  OBVIOUS
<1>2. u \in Seq(S) /\ Len(u) = n - 1 /\ n - 1 \in Nat /\ \A k \in 1 .. n - 1 : u[k] = q[k + 1]
  BY <1>1
<1> HIDE DEF u
<1>3. Append(u, p) = [k \in 1 .. Len(u) + 1 |-> IF k = Len(u) + 1 THEN p ELSE u[k]]
  BY <1>2, Appended
<1> HIDE DEF n
<1>4. Append(u, p) = [k \in 1 .. n |-> IF k = n THEN p ELSE q[k + 1]]
  BY <1>1, <1>2, <1>3
<1> QED
  BY <1>4 DEF u, n

\* The j-th element makes place for p at the end.
Requeue(q, j, p) == Append(SubSeq(q, 1, j - 1) \o SubSeq(q, j + 1, Len(q)), p)

LEMMA Requeued ==
  ASSUME NEW S, NEW q \in Seq(S), NEW p, NEW j \in 1 .. Len(q)
  PROVE  Requeue(q, j, p)
           = [k \in 1 .. Len(q) |-> IF k = Len(q) THEN p ELSE IF k < j THEN q[k] ELSE q[k + 1]]
<1> DEFINE n == Len(q)
           a == SubSeq(q, 1, j - 1)
           b == SubSeq(q, j + 1, n)
           u == a \o b
<1>1. n \in Nat /\ DOMAIN q = 1 .. n /\ \A k \in 1 .. n : q[k] \in S
  OBVIOUS
<1>2. a \in Seq(S) /\ Len(a) = j - 1 /\ \A k \in 1 .. j - 1 : a[k] = q[k]
  BY <1>1
<1>3. b \in Seq(S) /\ Len(b) = n - j /\ \A k \in 1 .. n - j : b[k] = q[k + j]
  <2>1. j + 1 \in 1 .. n + 1 /\ n \in j .. n
    BY <1>1
  <2>2. b \in Seq(S) /\ Len(b) = IF j + 1 <= n THEN n - (j + 1) + 1 ELSE 0
    BY <1>1, <2>1, SubSeqProperties
  <2>3. \A k \in 1 .. n - j : b[k] = q[(j + 1) + k - 1]
    BY <1>1, <2>1, SubSeqProperties
  <2> HIDE DEF a, b, u, n
  <2> QED
    BY <1>1, <2>2, <2>3
<1> HIDE DEF a, b
<1>4. u \in Seq(S) /\ Len(u) = Len(a) + Len(b)
  BY <1>2, <1>3, ConcatProperties
<1>5. Len(u) = n - 1
  BY <1>1, <1>2, <1>3, <1>4
<1>6. \A k \in 1 .. n - 1 : u[k] = IF k < j THEN q[k] ELSE q[k + 1]
  <2> TAKE k \in 1 .. n - 1
  <2>1. u[k] = IF k <= Len(a) THEN a[k] ELSE b[k - Len(a)]
    BY <1>1, <1>2, <1>3, <1>4, <1>5
  <2>2. CASE k < j
    BY <1>1, <1>2, <2>1, <2>2
  <2>3. CASE k >= j
    <3>1. k - Len(a) = k - j + 1 /\ k - j + 1 \in 1 .. n - j /\ (k - j + 1) + j = k + 1
      BY <1>1, <1>2, <2>3
    <3>2. b[k - j + 1] = q[(k - j + 1) + j]
      BY <1>3, <3>1
    <3> QED
      BY <1>2, <2>1, <2>3, <3>1, <3>2
  <2>4. k < j \/ k >= j
    OBVIOUS
  <2> QED
    BY <2>2, <2>3, <2>4
<1> HIDE DEF u
<1>7. Append(u, p) = [k \in 1 .. Len(u) + 1 |-> IF k = Len(u) + 1 THEN p ELSE u[k]]
  BY <1>4, Appended
<1> HIDE DEF n
<1>8. Append(u, p) = [k \in 1 .. n |-> IF k = n THEN p ELSE IF k < j THEN q[k] ELSE q[k + 1]]
  BY <1>1, <1>5, <1>6, <1>7
<1> QED
  BY <1>8 DEF u, a, b, n, Requeue

-----------------------------------------------------------------------------
(* Each access is a step of the queue.                                       *)

LEMMA FifoServes ==
  ASSUME Inv, Inv', Fifo
  PROVE  Eviction!Next
<1>1. /\ pc = "access" /\ algo = "fifo" /\ step < Len(query) /\ num_frames > 0
      /\ Page \in Pages /\ Framed /\ num_frames \in Nat \ {0}
  BY Accessing DEF Fifo
<1>2. /\ FifoAccess(Page) /\ FifoInv /\ UNCHANGED <<lruVars, scVars>>
      /\ pc' \in {"show", "wait"} /\ UNCHANGED <<algo, step, query>>
  BY DEF Fifo, Show, Inv
<1>3. PICK c, h, n : c = fifo_count /\ h = fifo_head /\ n = num_frames
  OBVIOUS
<1>4. /\ c \in Nat /\ c <= n /\ h \in Nat /\ h < n /\ n \in Nat \ {0} /\ Filled(c)
      /\ \A k \in 1 .. c : Place(k) \in 0 .. c - 1
  <2>1. c \in Nat /\ c <= n /\ Filled(c) /\ \A k \in 1 .. c : Place(k) \in 0 .. c - 1
    BY <1>1, <1>3, FifoPlaces
  <2>2. h \in 0 .. n - 1
    BY <1>1, <1>2, <1>3 DEF FifoInv, FifoTypeOK
  <2> QED
    BY <1>1, <1>3, <2>1, <2>2
<1>5. Queue = [k \in 1 .. c |-> frames[Place(k)]]
  BY <1>1, <1>3, Reads DEF QueueReads
<1>6. Queue' = [k \in 1 .. fifo_count' |-> frames'[Place(k)']]
  BY <1>1, <1>2, ReadsNext DEF QueueReads
<1>7. Queue \in Seq(Bytes) /\ Len(Queue) = c
  BY <1>1, <1>4, QueueHolds DEF Policies
<1>8. Marked = {} /\ Marked' = {}
  BY <1>1, <1>2 DEF Marked
<1>9. \A k \in Int : Place(k) = IF h + k - 1 < n THEN h + k - 1 ELSE h + k - 1 - n
  BY <1>3 DEF Place
<1>10. CASE \E i : HitAt(i, Page) /\ UNCHANGED fifoVars
  <2>1. PICK i : HitAt(i, Page) /\ UNCHANGED fifoVars
    BY <1>10
  <2>2. UNCHANGED <<num_frames, frames, fifo_head, fifo_count>>
    BY <2>1 DEF HitAt, Hit, fifoVars
  <2>3. Queue' = Queue
    BY <1>3, <1>5, <1>6, <2>2 DEF Place
  <2>4. Eviction!Serve
    BY <1>1, <1>2, <2>2, Serving
  <2>5. Eviction!Use
    BY <1>1, <1>2, <1>8, <2>1, <2>3, <2>4, HitUses
  <2> QED
    BY <2>5 DEF Eviction!Next
<1>11. CASE /\ fifo_count < num_frames /\ fifo_head = 0
            /\ LoadAt(fifo_count, Page) /\ misses' = misses + 1
            /\ fifo_queue' = [fifo_queue EXCEPT ![fifo_count] = fifo_count]
            /\ fifo_count' = fifo_count + 1 /\ fifo_head' = fifo_head
  <2>1. /\ c < n /\ h = 0 /\ fifo_count' = c + 1 /\ fifo_head' = 0 /\ num_frames' = n
        /\ frames' = [frames EXCEPT ![c] = Page] /\ c \in Slots /\ DOMAIN frames = Slots
        /\ Page \notin Resident
    BY <1>1, <1>3, <1>11 DEF LoadAt, Framed
  <2>2. \A k \in Int : Place(k)' = IF k - 1 < n THEN k - 1 ELSE k - 1 - n
    <3> TAKE k \in Int
    <3>1. Place(k)' = IF fifo_head' + k - 1 < num_frames' THEN fifo_head' + k - 1
                                                          ELSE fifo_head' + k - 1 - num_frames'
      BY DEF Place
    <3>2. Place(k)' = IF 0 + k - 1 < n THEN 0 + k - 1 ELSE 0 + k - 1 - n
      BY <2>1, <3>1
    <3> QED
      BY <1>4, <3>2
  <2>3. \A k \in 1 .. c + 1 : frames'[Place(k)'] = IF k = c + 1 THEN Page ELSE frames[Place(k)]
    <3> TAKE k \in 1 .. c + 1
    <3>1. Place(k)' = k - 1 /\ Place(k) = k - 1
      BY <1>4, <1>9, <2>1, <2>2
    <3>2. CASE k = c + 1
      BY <1>4, <2>1, <3>1, <3>2
    <3>3. CASE k # c + 1
      BY <1>4, <2>1, <3>1, <3>3
    <3> QED
      BY <3>2, <3>3
  <2>4. Queue' = [k \in 1 .. c + 1 |-> IF k = c + 1 THEN Page ELSE frames[Place(k)]]
    BY <1>6, <2>1, <2>3
  <2>5. Queue' = Append(Queue, Page)
    BY <1>4, <1>5, <1>7, <2>4, Appended
  <2>6. Eviction!Serve
    BY <1>1, <1>2, <1>3, <2>1, Serving
  <2>7. Eviction!Load
    BY <1>1, <1>3, <1>4, <1>8, <2>1, <2>5, <2>6, FillLoadsQueue DEF Policies
  <2> QED
    BY <2>7 DEF Eviction!Next
<1>12. CASE /\ fifo_count = num_frames
            /\ LoadAt(fifo_head, Page) /\ misses' = misses + 1
            /\ fifo_head' = (fifo_head + 1) % num_frames
            /\ UNCHANGED <<fifo_queue, fifo_count>>
  <2>1. /\ c = n /\ fifo_count' = n /\ num_frames' = n
        /\ frames' = [frames EXCEPT ![h] = Page] /\ h \in Slots /\ DOMAIN frames = Slots
        /\ Page \notin Resident /\ fifo_head' = (h + 1) % n
    BY <1>1, <1>3, <1>12 DEF LoadAt, Framed
  <2>2. fifo_head' = IF h + 1 < n THEN h + 1 ELSE 0
    <3>1. h + 1 \in 0 .. 2 * n - 1 /\ h + 1 <= n
      BY <1>4
    <3>2. (h + 1) % n = IF h + 1 < n THEN h + 1 ELSE h + 1 - n
      <4> DEFINE i == h + 1
      <4>1. i \in 0 .. 2 * n - 1
        BY <3>1
      <4> HIDE DEF i
      <4>2. i % n = IF i < n THEN i ELSE i - n
        BY <1>4, <4>1, Wraps
      <4> QED
        BY <1>4, <4>2 DEF i
    <3> QED
      BY <1>4, <2>1, <3>1, <3>2
  <2>3. \A k \in 1 .. n : Place(k)' = IF k = n THEN h ELSE Place(k + 1)
    <3> TAKE k \in 1 .. n
    <3>1. Place(k)' = IF fifo_head' + k - 1 < n THEN fifo_head' + k - 1 ELSE fifo_head' + k - 1 - n
      BY <2>1 DEF Place
    <3>2. Place(k + 1) = IF h + (k + 1) - 1 < n THEN h + (k + 1) - 1 ELSE h + (k + 1) - 1 - n
      BY <1>4, <1>9
    <3> QED
      BY <1>4, <2>2, <3>1, <3>2
  <2>4. \A k \in 1 .. n : k # n => Place(k + 1) # h /\ Place(k + 1) \in 0 .. n - 1
    <3> TAKE k \in 1 .. n
    <3>1. Place(k + 1) = IF h + (k + 1) - 1 < n THEN h + (k + 1) - 1 ELSE h + (k + 1) - 1 - n
      BY <1>4, <1>9
    <3> QED
      BY <1>4, <3>1
  <2>5. \A k \in 1 .. n : frames'[Place(k)'] = IF k = n THEN Page ELSE frames[Place(k + 1)]
    BY <1>3, <2>1, <2>3, <2>4 DEF Slots
  <2>6. Queue' = [k \in 1 .. n |-> IF k = n THEN Page ELSE frames[Place(k + 1)]]
    BY <1>6, <2>1, <2>5
  <2>7. \A k \in 1 .. n : k # n => Queue[k + 1] = frames[Place(k + 1)]
    BY <1>4, <1>5, <2>1
  <2>8. Queue' = [k \in 1 .. n |-> IF k = n THEN Page ELSE Queue[k + 1]]
    BY <2>6, <2>7
  <2>9. Queue # <<>>
    BY <1>4, <1>7, <2>1
  <2>10. Queue' = Append(Tail(Queue), Page)
    <3>1. PICK q : q = Queue
      OBVIOUS
    <3>2. q \in Seq(Bytes) /\ q # <<>> /\ Len(q) = n
      BY <1>7, <2>1, <2>9, <3>1
    <3>3. Append(Tail(q), Page) = [k \in 1 .. n |-> IF k = n THEN Page ELSE q[k + 1]]
      BY <3>2, Rotated
    <3> QED
      BY <2>8, <3>1, <3>3
  <2>11. Eviction!Serve
    BY <1>1, <1>2, <1>3, <2>1, Serving
  <2>12. Eviction!Evict
    BY <1>1, <1>3, <1>4, <1>8, <2>1, <2>10, <2>11, EvictsQueue DEF Policies
  <2> QED
    BY <2>12 DEF Eviction!Next
<1> QED
  BY <1>1, <1>2, <1>10, <1>11, <1>12, FifoForms

LEMMA MinServes ==
  ASSUME Inv, Inv', Min
  PROVE  Eviction!Next
<1>1. /\ pc = "access" /\ algo = "min" /\ step < Len(query) /\ num_frames > 0
      /\ Page \in Pages /\ Framed /\ num_frames \in Nat \ {0}
      /\ query \in Seq(Pages) /\ step \in Nat /\ Control /\ Counting
  BY Accessing DEF Min
<1>2. /\ MinAccess(Page, step) /\ Show
      /\ pc' \in {"show", "wait"} /\ UNCHANGED <<algo, step, query>>
  BY DEF Min, Show
<1>3. /\ \A c : Filled(c) => Queue = [k \in 1 .. c |-> frames[k - 1]]
      /\ \A c : Filled(c)' => Queue' = [k \in 1 .. c |-> frames'[k - 1]]
  BY <1>1, <1>2, Reads, ReadsNext DEF QueueReads
<1>4. Marked = {} /\ Marked' = {}
  BY <1>1, <1>2 DEF Marked
<1>5. CASE \E i : HitAt(i, Page)
  <2>1. PICK i : HitAt(i, Page)
    BY <1>5
  <2>2. PICK c : Filled(c)
    BY <1>1 DEF Framed
  <2>3. Filled(c)' /\ UNCHANGED <<num_frames, frames>>
    BY <1>1, <1>2, <2>1, <2>2, HitKeeps
  <2>4. Queue' = Queue
    <3>1. Queue = [k \in 1 .. c |-> frames[k - 1]]
      BY <1>3, <2>2
    <3>2. Queue' = [k \in 1 .. c |-> frames'[k - 1]]
      BY <1>3, <2>3
    <3> QED
      BY <2>3, <3>1, <3>2
  <2>5. Eviction!Serve
    BY <1>1, <1>2, <2>3, Serving
  <2>6. Eviction!Use
    BY <1>1, <1>2, <1>4, <2>1, <2>4, <2>5, HitUses
  <2> QED
    BY <2>6 DEF Eviction!Next
<1>6. CASE \E c : c < num_frames /\ Filled(c) /\ LoadAt(c, Page) /\ misses' = misses + 1
  <2>1. PICK c : c < num_frames /\ Filled(c) /\ LoadAt(c, Page) /\ misses' = misses + 1
    BY <1>6
  <2>2. c \in Nat /\ c <= c /\ c <= num_frames
    BY <1>1, <2>1 DEF Filled
  <2>3. Filled(c + 1)' /\ num_frames' = num_frames
    BY <1>1, <1>2, <2>1, <2>2, LoadKeeps
  <2>4. Page \notin Resident /\ frames' = [frames EXCEPT ![c] = Page] /\ c \in Slots /\ DOMAIN frames = Slots
    BY <1>1, <2>1 DEF LoadAt, Framed
  <2>5. Queue = [k \in 1 .. c |-> frames[k - 1]] /\ Queue' = [k \in 1 .. c + 1 |-> frames'[k - 1]]
    BY <1>3, <2>1, <2>3
  <2>6. Queue \in Seq(Bytes) /\ Len(Queue) = c
    BY <1>1, <2>1, QueueHolds DEF Policies
  <2>7. \A k \in 1 .. c + 1 : frames'[k - 1] = IF k = c + 1 THEN Page ELSE frames[k - 1]
    BY <2>2, <2>4
  <2>8. Queue' = [k \in 1 .. c + 1 |-> IF k = c + 1 THEN Page ELSE frames[k - 1]]
    BY <2>5, <2>7
  <2>9. Queue' = Append(Queue, Page)
    BY <2>2, <2>5, <2>6, <2>8, Appended
  <2>10. Eviction!Serve
    BY <1>1, <1>2, <2>3, Serving
  <2>11. Eviction!Load
    BY <1>1, <1>4, <2>1, <2>4, <2>9, <2>10, FillLoadsQueue DEF Policies
  <2> QED
    BY <2>11 DEF Eviction!Next
<1>7. CASE \E i : Filled(num_frames) /\ LoadAt(i, Page) /\ misses' = misses + 1
  <2>1. PICK i : Filled(num_frames) /\ LoadAt(i, Page) /\ misses' = misses + 1
    BY <1>7
  <2>2. PICK c : c = num_frames
    OBVIOUS
  <2>3. c \in Nat /\ i \in 0 .. c - 1 /\ i <= c /\ i # c /\ Filled(c)
    BY <1>1, <2>1, <2>2 DEF LoadAt, Slots
  <2>4. Filled(c)' /\ num_frames' = num_frames
    BY <1>1, <1>2, <2>1, <2>3, LoadKeeps
  <2>5. Page \notin Resident /\ frames' = [frames EXCEPT ![i] = Page] /\ DOMAIN frames = 0 .. c - 1
    BY <1>1, <2>1, <2>2 DEF LoadAt, Framed, Slots
  <2>6. Queue = [k \in 1 .. c |-> frames[k - 1]] /\ Queue' = [k \in 1 .. c |-> frames'[k - 1]]
    BY <1>3, <2>3, <2>4
  <2>7. \A k \in 1 .. c : frames'[k - 1] = IF k = i + 1 THEN Page ELSE frames[k - 1]
    BY <2>3, <2>5
  <2>8. Queue' = [k \in 1 .. c |-> IF k = i + 1 THEN Page ELSE frames[k - 1]]
    BY <2>6, <2>7
  <2>9. Queue' = [Queue EXCEPT ![i + 1] = Page]
    BY <2>6, <2>8
  <2>10. i + 1 \in 1 .. num_frames
    BY <2>2, <2>3
  <2>11. Eviction!Serve
    BY <1>1, <1>2, <2>4, Serving
  <2>12. Eviction!Evict
    BY <1>1, <1>4, <2>1, <2>5, <2>9, <2>10, <2>11, EvictsQueue DEF Policies
  <2> QED
    BY <2>12 DEF Eviction!Next
<1> QED
  BY <1>1, <1>2, <1>5, <1>6, <1>7, MinForms

LEMMA LruServes ==
  ASSUME Inv, Inv', Lru
  PROVE  Eviction!Next
<1>1. /\ pc = "access" /\ algo = "lru" /\ step < Len(query) /\ num_frames > 0
      /\ Page \in Pages /\ Framed /\ num_frames \in Nat \ {0}
  BY Accessing DEF Lru
<1>2. /\ LruAccess(Page) /\ LruInv
      /\ pc' \in {"show", "wait"} /\ UNCHANGED <<algo, step, query>>
  BY DEF Lru, Show, Inv
<1>3. PICK c, n, s, u : c = lru_count /\ n = num_frames /\ s = Nodes(lru_list) /\ u = Nodes(lru_list')
  OBVIOUS
<1>4. /\ Filled(c) /\ c \in Nat /\ c <= n /\ n \in Nat \ {0}
      /\ s \in [1 .. c -> 0 .. c - 1] /\ s \in Seq(Bytes) /\ Len(s) = c
      /\ \A k, m \in 1 .. c : s[k] = s[m] => k = m
  <2>1. Listed(lru_list, lru_node, c)
    BY <1>1, <1>2, <1>3 DEF LruInv
  <2> QED
    BY <1>1, <1>3, <2>1, ListedFacts DEF Listed
<1>5. Queue = [k \in 1 .. c |-> frames[s[c + 1 - k]]]
  BY <1>1, <1>3, Reads DEF QueueReads
<1>6. Queue' = [k \in 1 .. lru_count' |-> frames'[u[lru_count' + 1 - k]]]
  BY <1>1, <1>2, <1>3, ReadsNext DEF QueueReads
<1>7. PICK q : q = Queue
  OBVIOUS
<1>8. q \in Seq(Bytes) /\ Len(q) = c
  BY <1>1, <1>4, <1>7, QueueHolds DEF Policies
<1>9. Marked = {} /\ Marked' = {}
  BY <1>1, <1>2 DEF Marked
<1>10. CASE LruMoves(Page)
  <2>1. PICK j \in 1 .. c : HitAt(s[j], Page) /\ u = ToFront(s, j)
    BY <1>3, <1>10 DEF LruMoves, Lists
  <2>2. lru_count' = c /\ UNCHANGED <<num_frames, frames>> /\ frames[s[j]] = Page
    BY <1>3, <1>10, <2>1 DEF LruMoves, HitAt, Hit
  <2>3. PICK i : i = c + 1 - j
    OBVIOUS
  <2>4. i \in 1 .. c
    BY <1>4, <2>3
  <2>5. \A k \in 1 .. c : frames[u[c + 1 - k]] = IF k = c THEN Page ELSE IF k < i THEN q[k] ELSE q[k + 1]
    <3> TAKE k \in 1 .. c
    <3>1. c + 1 - k \in 1 .. c /\ u[c + 1 - k] = IF c + 1 - k = 1 THEN s[j]
                                   ELSE IF c + 1 - k <= j THEN s[(c + 1 - k) - 1] ELSE s[c + 1 - k]
      BY <1>4, <2>1 DEF ToFront
    <3>2. q[k] = frames[s[c + 1 - k]]
      BY <1>5, <1>7
    <3>3. k # c => q[k + 1] = frames[s[c + 1 - (k + 1)]]
      BY <1>4, <1>5, <1>7
    <3>4. c + 1 - (k + 1) = (c + 1 - k) - 1 /\ (c + 1 - k = 1 <=> k = c) /\ (c + 1 - k <= j <=> ~ (k < i))
      BY <1>4, <2>3
    <3> QED
      BY <2>2, <3>1, <3>2, <3>3, <3>4
  <2>6. Queue' = [k \in 1 .. c |-> IF k = c THEN Page ELSE IF k < i THEN q[k] ELSE q[k + 1]]
    BY <1>6, <2>2, <2>5
  <2>7. Queue' = Append(SubSeq(q, 1, i - 1) \o SubSeq(q, i + 1, Len(q)), Page)
    <3>1. q \in Seq(Bytes) /\ i \in 1 .. Len(q)
      BY <1>8, <2>4
    <3>2. Requeue(q, i, Page)
            = [k \in 1 .. Len(q) |-> IF k = Len(q) THEN Page ELSE IF k < i THEN q[k] ELSE q[k + 1]]
      BY <3>1, Requeued
    <3>3. Queue' = Requeue(q, i, Page)
      BY <1>8, <2>6, <3>2
    <3> QED
      BY <3>3 DEF Requeue
  <2>8. q[i] = Page
    <3>1. q[i] = frames[s[c + 1 - i]]
      BY <1>5, <1>7, <2>4
    <3>2. c + 1 - i = j
      BY <1>4, <2>3
    <3> QED
      BY <2>2, <3>1, <3>2
  <2>9. Eviction!Serve
    BY <1>1, <1>2, <2>2, Serving
  <2>10. i \in DOMAIN q
    BY <1>8, <2>4
  <2>11. Eviction!Use
    BY <1>1, <1>2, <1>7, <1>9, <2>7, <2>8, <2>9, <2>10 DEF Eviction!Use, Eviction!Without, Marked
  <2> QED
    BY <2>11 DEF Eviction!Next
<1>11. CASE LruAdds(Page)
  <2>1. c < n /\ LoadAt(c, Page) /\ u = <<c>> \o s /\ lru_count' = c + 1
    BY <1>3, <1>11 DEF LruAdds, Lists
  <2>2. /\ frames' = [frames EXCEPT ![c] = Page] /\ c \in Slots /\ DOMAIN frames = Slots
        /\ Page \notin Resident /\ num_frames' = num_frames
    BY <1>1, <2>1 DEF LoadAt, Framed
  <2>3. \A k \in 1 .. c + 1 : frames'[u[(c + 1) + 1 - k]] = IF k = c + 1 THEN Page ELSE q[k]
    <3> TAKE k \in 1 .. c + 1
    <3>1. CASE k = c + 1
      <4>1. (c + 1) + 1 - k = 1 /\ u[1] = c
        BY <1>4, <2>1, <3>1
      <4> QED
        BY <2>2, <3>1, <4>1
    <3>2. CASE k # c + 1
      <4>1. k \in 1 .. c /\ c + 1 - k \in 1 .. c /\ (c + 1) + 1 - k = (c + 1 - k) + 1
        BY <1>4, <3>2
      <4>2. u[(c + 1 - k) + 1] = s[c + 1 - k] /\ s[c + 1 - k] \in 0 .. c - 1
        BY <1>4, <2>1, <4>1
      <4>3. s[c + 1 - k] # c
        BY <1>4, <4>2
      <4>4. q[k] = frames[s[c + 1 - k]]
        BY <1>5, <1>7, <4>1
      <4> QED
        BY <2>2, <3>2, <4>1, <4>2, <4>3, <4>4
    <3> QED
      BY <3>1, <3>2
  <2>4. Queue' = [k \in 1 .. c + 1 |-> IF k = c + 1 THEN Page ELSE q[k]]
    BY <1>6, <2>1, <2>3
  <2>5. Queue' = Append(Queue, Page)
    BY <1>7, <1>8, <2>4, Appended
  <2>6. Eviction!Serve
    BY <1>1, <1>2, <2>2, Serving
  <2>7. Eviction!Load
    BY <1>1, <1>3, <1>4, <1>9, <2>1, <2>2, <2>5, <2>6, FillLoadsQueue DEF Policies
  <2> QED
    BY <2>7 DEF Eviction!Next
<1>12. CASE LruReuses(Page)
  <2>1. c = n /\ LoadAt(s[c], Page) /\ u = ToFront(s, c) /\ lru_count' = c
    BY <1>3, <1>12 DEF LruReuses, Lists
  <2>2. /\ frames' = [frames EXCEPT ![s[c]] = Page] /\ s[c] \in Slots /\ DOMAIN frames = Slots
        /\ Page \notin Resident /\ num_frames' = num_frames
    BY <1>1, <2>1 DEF LoadAt, Framed
  <2>3. \A k \in 1 .. c : frames'[u[c + 1 - k]] = IF k = c THEN Page ELSE q[k + 1]
    <3> TAKE k \in 1 .. c
    <3>1. c + 1 - k \in 1 .. c /\ u[c + 1 - k] = IF c + 1 - k = 1 THEN s[c]
                                   ELSE IF c + 1 - k <= c THEN s[(c + 1 - k) - 1] ELSE s[c + 1 - k]
      BY <1>4, <2>1 DEF ToFront
    <3>2. CASE k = c
      <4>1. u[c + 1 - k] = s[c]
        BY <1>4, <3>1, <3>2
      <4> QED
        BY <2>2, <3>2, <4>1
    <3>3. CASE k # c
      <4>1. u[c + 1 - k] = s[c - k] /\ c - k \in 1 .. c /\ c - k # c /\ c \in 1 .. c
        BY <1>4, <3>1, <3>3
      <4>2. s[c - k] # s[c]
        BY <1>4, <4>1
      <4>3. k + 1 \in 1 .. c /\ c + 1 - (k + 1) = c - k
        BY <1>4, <3>3
      <4>4. q[k + 1] = frames[s[c - k]]
        BY <1>5, <1>7, <4>3
      <4> QED
        BY <2>2, <3>3, <4>1, <4>2, <4>4
    <3> QED
      BY <3>2, <3>3
  <2>4. Queue' = [k \in 1 .. c |-> IF k = c THEN Page ELSE q[k + 1]]
    BY <1>6, <2>1, <2>3
  <2>5. q # <<>>
    BY <1>4, <1>8, <2>1
  <2>6. Queue' = Append(Tail(q), Page)
    BY <1>8, <2>4, <2>5, Rotated
  <2>7. Eviction!Serve
    BY <1>1, <1>2, <2>2, Serving
  <2>8. Eviction!Evict
    BY <1>1, <1>3, <1>4, <1>7, <1>9, <2>1, <2>2, <2>6, <2>7, EvictsQueue DEF Policies
  <2> QED
    BY <2>8 DEF Eviction!Next
<1> QED
  BY <1>1, <1>2, <1>10, <1>11, <1>12, LruForms

\* What the queue and the marked pages of second chance are.
LEMMA ScReads ==
  ASSUME Inv, algo = "second_chance", num_frames > 0,
         NEW c, c = sc_count, NEW s, s = Nodes(sc_list)
  PROVE  /\ Filled(c) /\ c \in Nat /\ c <= num_frames /\ num_frames \in Nat
         /\ sc_node \in ScNodes /\ DOMAIN frames = Slots
         /\ s \in [1 .. c -> 0 .. c - 1] /\ s \in Seq(Bytes) /\ Len(s) = c
         /\ \A k, m \in 1 .. c : s[k] = s[m] => k = m
         /\ \A k \in 0 .. c - 1 : k \in Bytes /\ k \in Slots
         /\ \A i, j \in 0 .. c - 1 : frames[i] = frames[j] => i = j
         /\ Queue = [k \in 1 .. c |-> frames[s[k]]]
         /\ Queue \in Seq(Bytes) /\ Len(Queue) = c
         /\ Marked = {frames[i] : i \in {i \in 0 .. c - 1 : sc_node[i].ref_bit = 1}}
<1>1. Framed /\ ScInv /\ QueueReads /\ DOMAIN frames = Slots
  BY Reads DEF Inv, Framed
<1>2. /\ Filled(c) /\ c \in Nat /\ c <= num_frames /\ sc_node \in ScNodes
      /\ s \in [1 .. c -> 0 .. c - 1]
      /\ \A k \in 0 .. c - 1 : k \in Bytes /\ k \in Slots
  BY <1>1, ScState
<1>3. /\ s \in Seq(Bytes) /\ Len(s) = c /\ num_frames \in Nat
      /\ \A k, m \in 1 .. c : s[k] = s[m] => k = m
  BY <1>1, ScFacts
<1>4. \A i, j \in 0 .. c - 1 : frames[i] = frames[j] => i = j
  <2> TAKE i, j \in 0 .. c - 1
  <2>1. i \in Slots /\ j \in Slots /\ i < c
    BY <1>2
  <2>2. frames[i] # FrameEmpty
    BY <1>2, <2>1 DEF Filled
  <2> QED
    BY <1>1, <2>1, <2>2 DEF Framed
<1>5. /\ Queue = [k \in 1 .. c |-> frames[s[k]]]
      /\ Marked = {frames[i] : i \in {i \in 0 .. c - 1 : sc_node[i].ref_bit = 1}}
  BY <1>1 DEF QueueReads, Marked
<1>6. Queue \in Seq(Bytes) /\ Len(Queue) = c
  BY <1>2, QueueHolds DEF Policies
<1> QED
  BY <1>1, <1>2, <1>3, <1>4, <1>5, <1>6

LEMMA ScReadsNext ==
  ASSUME Inv', algo' = "second_chance", NEW c, c = sc_count', NEW s, s = Nodes(sc_list')
  PROVE  /\ Queue' = [k \in 1 .. c |-> frames'[s[k]]]
         /\ Marked' = {frames'[i] : i \in {i \in 0 .. c - 1 : sc_node'[i].ref_bit = 1}}
BY ReadsNext DEF QueueReads, Marked

LEMMA ScServes ==
  ASSUME Inv, Inv', ScAccess
  PROVE  Eviction!Next
<1>1. /\ pc = "access" /\ algo = "second_chance" /\ step < Len(query) /\ num_frames > 0
      /\ Page \in Pages /\ Framed
  BY Accessing DEF ScAccess
<1>2. /\ ScHit(Page) \/ ScFill(Page)
      /\ ScInv /\ pc' \in {"show", "wait"} /\ UNCHANGED <<algo, step, query>>
  BY DEF ScAccess, Show, Inv
<1>3. PICK c, s, u : c = sc_count /\ s = Nodes(sc_list) /\ u = Nodes(sc_list')
  OBVIOUS
<1>4. /\ Filled(c) /\ c \in Nat /\ c <= num_frames /\ num_frames \in Nat
      /\ sc_node \in ScNodes /\ DOMAIN frames = Slots
      /\ s \in [1 .. c -> 0 .. c - 1] /\ s \in Seq(Bytes) /\ Len(s) = c
      /\ \A k \in 0 .. c - 1 : k \in Bytes /\ k \in Slots
      /\ Queue = [k \in 1 .. c |-> frames[s[k]]]
      /\ Queue \in Seq(Bytes) /\ Len(Queue) = c
      /\ Marked = {frames[i] : i \in {i \in 0 .. c - 1 : sc_node[i].ref_bit = 1}}
  BY <1>1, <1>3, ScReads
<1>5. CASE ScMarks(Page)
  <2>1. PICK j \in 1 .. c : /\ HitAt(s[j], Page)
                            /\ sc_node' = [sc_node EXCEPT ![s[j]].ref_bit = 1]
    BY <1>3, <1>5 DEF ScMarks
  <2>2. /\ sc_count' = c /\ u = s /\ UNCHANGED <<num_frames, frames>> /\ frames[s[j]] = Page
        /\ s[j] \in 0 .. c - 1
    BY <1>3, <1>4, <1>5, <2>1 DEF ScMarks, HitAt, Hit
  <2>3. Queue' = Queue
    <3>1. algo' = "second_chance" /\ c = sc_count'
      BY <1>1, <1>2, <2>2
    <3>2. Queue' = [k \in 1 .. c |-> frames'[u[k]]]
      BY <1>3, <3>1, ScReadsNext
    <3> QED
      BY <1>4, <2>2, <3>2
  <2>4. Marked' = Marked \cup {Page}
    <3> DEFINE bits  == {i \in 0 .. c - 1 : sc_node[i].ref_bit = 1}
               bits1 == {i \in 0 .. c - 1 : sc_node'[i].ref_bit = 1}
    <3>1. \A i \in 0 .. c - 1 : sc_node'[i].ref_bit = IF i = s[j] THEN 1 ELSE sc_node[i].ref_bit
      BY <1>4, <2>1, <2>2 DEF ScNodes
    <3>2. bits1 = bits \cup {s[j]}
      BY <2>2, <3>1
    <3>3. Marked' = {frames[i] : i \in bits1}
      BY <1>1, <1>2, <1>3, <2>2, ScReadsNext
    <3>4. Marked = {frames[i] : i \in bits}
      BY <1>4
    <3> HIDE DEF bits, bits1
    <3> QED
      BY <2>2, <3>2, <3>3, <3>4
  <2>5. Eviction!Serve
    BY <1>1, <1>2, <2>2, Serving
  <2>6. Eviction!Use
    BY <1>1, <1>2, <2>1, <2>3, <2>4, <2>5, HitUses
  <2> QED
    BY <2>6 DEF Eviction!Next
<1>6. CASE ScAdds(Page)
  <2>1. /\ c < num_frames /\ LoadAt(c, Page) /\ u = Append(s, c) /\ sc_count' = c + 1
        /\ sc_node' = [sc_node EXCEPT ![c] = [page |-> Page, frame_idx |-> c, ref_bit |-> 0]]
    BY <1>3, <1>6 DEF ScAdds, Lists
  <2>2. /\ frames' = [frames EXCEPT ![c] = Page] /\ c \in Slots /\ c \in Bytes
        /\ Page \notin Resident /\ num_frames' = num_frames
    BY <1>1, <2>1, SlotFacts DEF LoadAt
  <2>3. \A k \in 1 .. c + 1 : frames'[u[k]] = IF k = c + 1 THEN Page ELSE frames[s[k]]
    <3> TAKE k \in 1 .. c + 1
    <3>1. u[k] = IF k = c + 1 THEN c ELSE s[k]
      BY <1>4, <2>1
    <3>2. k # c + 1 => s[k] \in 0 .. c - 1 /\ s[k] # c
      BY <1>4
    <3> QED
      BY <1>4, <2>2, <3>1, <3>2
  <2>4. PICK d : d = c + 1
    OBVIOUS
  <2>5. /\ Queue' = [k \in 1 .. d |-> frames'[u[k]]]
        /\ Marked' = {frames'[i] : i \in {i \in 0 .. d - 1 : sc_node'[i].ref_bit = 1}}
    <3>1. algo' = "second_chance" /\ d = sc_count'
      BY <1>1, <1>2, <2>1, <2>4
    <3> QED
      BY <1>3, <3>1, ScReadsNext
  <2>6. Queue' = [k \in 1 .. c + 1 |-> IF k = c + 1 THEN Page ELSE frames[s[k]]]
    BY <2>3, <2>4, <2>5
  <2>7. Queue' = Append(Queue, Page)
    BY <1>4, <2>6, Appended
  <2>8. Marked' = Marked
    <3> DEFINE bits  == {i \in 0 .. c - 1 : sc_node[i].ref_bit = 1}
               bits1 == {i \in 0 .. d - 1 : sc_node'[i].ref_bit = 1}
    <3>1. \A i \in 0 .. c - 1 : sc_node'[i] = sc_node[i] /\ frames'[i] = frames[i]
      BY <1>4, <2>1, <2>2 DEF ScNodes
    <3>2. sc_node'[c].ref_bit = 0
      BY <1>4, <2>1, <2>2 DEF ScNodes
    <3>3. \A i \in 0 .. d - 1 : i \in 0 .. c - 1 \/ i = c
      BY <1>4, <2>4
    <3>4. \A i \in 0 .. c - 1 : i \in 0 .. d - 1
      BY <1>4, <2>4
    <3>5. bits1 = bits
      BY <3>1, <3>2, <3>3, <3>4
    <3>6. Marked' = {frames'[i] : i \in bits1}
      BY <2>5
    <3>7. Marked = {frames[i] : i \in bits}
      BY <1>4
    <3>8. \A i \in bits : frames'[i] = frames[i]
      BY <3>1
    <3> HIDE DEF bits, bits1
    <3> QED
      BY <3>5, <3>6, <3>7, <3>8
  <2>9. Eviction!Serve
    BY <1>1, <1>2, <2>2, Serving
  <2>10. Eviction!Load
    BY <1>1, <1>4, <2>1, <2>2, <2>7, <2>8, <2>9, FillLoadsQueue DEF Policies
  <2> QED
    BY <2>10 DEF Eviction!Next
<1> QED
  BY <1>1, <1>2, <1>5, <1>6, ScForms

\* A sweep begins: nothing that the queue shows.
LEMMA ScBeginStutters ==
  ASSUME Inv, Inv', ScBegin
  PROVE  UNCHANGED Eviction!vars
<1>1. /\ pc = "access" /\ pc' = "sweep" /\ algo = "second_chance" /\ num_frames > 0
      /\ UNCHANGED <<num_frames, frames, scVars, query, algo, step>>
  BY Accessing DEF ScBegin, ScMiss
<1>2. UNCHANGED <<sc_list, sc_node, sc_count>>
  BY <1>1 DEF scVars
<1>3. PICK c, s : c = sc_count /\ s = Nodes(sc_list)
  OBVIOUS
<1>4. c = sc_count' /\ s = Nodes(sc_list') /\ algo' = "second_chance"
  BY <1>1, <1>2, <1>3
<1>5. /\ Queue = [k \in 1 .. c |-> frames[s[k]]]
      /\ Marked = {frames[i] : i \in {i \in 0 .. c - 1 : sc_node[i].ref_bit = 1}}
  BY <1>1, <1>3, ScReads
<1>6. /\ Queue' = [k \in 1 .. c |-> frames'[s[k]]]
      /\ Marked' = {frames'[i] : i \in {i \in 0 .. c - 1 : sc_node'[i].ref_bit = 1}}
  BY <1>4, ScReadsNext
<1>7. Queue' = Queue /\ Marked' = Marked
  BY <1>1, <1>2, <1>5, <1>6
<1> QED
  BY <1>1, <1>7 DEF Eviction!vars, Marked, Page

LEMMA SweepSpares ==
  ASSUME Inv, Inv', Sweep
  PROVE  Eviction!Next
<1>1. /\ pc = "sweep" /\ ScSweep /\ Framed /\ Control /\ ScInv
      /\ UNCHANGED <<query, pc, algo, step, num_frames, frames>>
  BY DEF Sweep, Inv, loopVars, ScSweep, ramVars
<1>2. /\ algo = "second_chance" /\ num_frames > 0 /\ Filled(num_frames)
      /\ step < Len(query) /\ Page \in Pages /\ Page \notin Resident
  BY <1>1, PageType DEF Control
<1>3. PICK c, s, u : c = sc_count /\ s = Nodes(sc_list) /\ u = Nodes(sc_list')
  OBVIOUS
<1>4. /\ Filled(c) /\ c \in Nat /\ c <= num_frames /\ num_frames \in Nat
      /\ sc_node \in ScNodes
      /\ s \in [1 .. c -> 0 .. c - 1] /\ s \in Seq(Bytes) /\ Len(s) = c
      /\ \A k \in 0 .. c - 1 : k \in Bytes /\ k \in Slots
      /\ \A i, j \in 0 .. c - 1 : frames[i] = frames[j] => i = j
      /\ Queue = [k \in 1 .. c |-> frames[s[k]]]
      /\ Queue \in Seq(Bytes) /\ Len(Queue) = c
      /\ Marked = {frames[i] : i \in {i \in 0 .. c - 1 : sc_node[i].ref_bit = 1}}
  BY <1>2, <1>3, ScReads
<1>5. c = num_frames
  BY <1>1, <1>2, <1>4, FilledOnce
<1>6. ScSpares
  BY <1>1, <1>2, <1>3, <1>5, ScForms
<1>7. PICK v : v = s[1]
  OBVIOUS
<1>8. /\ sc_node[v].ref_bit = 1 /\ sc_node' = [sc_node EXCEPT ![v].ref_bit = 0]
      /\ u = ToBack(s, 1) /\ sc_count' = c
  BY <1>3, <1>6, <1>7 DEF ScSpares, Lists
<1>9. 1 \in 1 .. c /\ v \in 0 .. c - 1 /\ v \in Bytes
  BY <1>2, <1>4, <1>5, <1>7
<1>10. /\ Queue' = [k \in 1 .. c |-> frames[u[k]]]
       /\ Marked' = {frames[i] : i \in {i \in 0 .. c - 1 : sc_node'[i].ref_bit = 1}}
  BY <1>1, <1>2, <1>3, <1>8, ScReadsNext
<1>11. PICK q : q = Queue
  OBVIOUS
<1>12. q \in Seq(Bytes) /\ Len(q) = c /\ q # <<>> /\ q[1] = frames[v]
  <2>1. q \in Seq(Bytes) /\ Len(q) = c
    BY <1>4, <1>11
  <2>2. q # <<>>
    BY <1>4, <1>9, <2>1
  <2>3. q = [k \in 1 .. c |-> frames[s[k]]]
    BY <1>4, <1>11
  <2> QED
    BY <1>7, <1>9, <2>1, <2>2, <2>3
<1>13. Queue' = Append(Tail(q), q[1])
  <2>1. \A k \in 1 .. c : frames[u[k]] = IF k = c THEN q[1] ELSE q[k + 1]
    <3> TAKE k \in 1 .. c
    <3>1. u[k] = IF k = c THEN s[1] ELSE s[k + 1]
      BY <1>4, <1>8 DEF ToBack
    <3>2. k # c => q[k + 1] = frames[s[k + 1]]
      BY <1>4, <1>11
    <3> QED
      BY <1>7, <1>12, <3>1, <3>2
  <2>2. Queue' = [k \in 1 .. c |-> IF k = c THEN q[1] ELSE q[k + 1]]
    BY <1>10, <2>1
  <2>3. Append(Tail(q), q[1]) = [k \in 1 .. c |-> IF k = c THEN q[1] ELSE q[k + 1]]
    BY <1>12, Rotated
  <2> QED
    BY <2>2, <2>3
<1>14. Marked' = Marked \ {q[1]} /\ q[1] \in Marked
  <2> DEFINE bits  == {i \in 0 .. c - 1 : sc_node[i].ref_bit = 1}
             bits1 == {i \in 0 .. c - 1 : sc_node'[i].ref_bit = 1}
  <2>1. \A i \in 0 .. c - 1 : sc_node'[i].ref_bit = IF i = v THEN 0 ELSE sc_node[i].ref_bit
    BY <1>4, <1>8, <1>9 DEF ScNodes
  <2>2. bits1 = bits \ {v} /\ v \in bits
    BY <1>8, <1>9, <2>1
  <2>3. Marked' = {frames[i] : i \in bits1} /\ Marked = {frames[i] : i \in bits}
    BY <1>4, <1>10
  <2>4. \A i, j \in bits : frames[i] = frames[j] => i = j
    BY <1>4
  <2> HIDE DEF bits, bits1
  <2> QED
    BY <1>12, <2>2, <2>3, <2>4
<1>15. \A k \in 1 .. c : q[k] \in Resident
  BY <1>2, <1>4, <1>11, QueueHolds DEF Policies
<1>16. Page \notin {q[k] : k \in DOMAIN q}
  BY <1>2, <1>12, <1>15
<1>17. Eviction!Spare
  BY <1>1, <1>2, <1>5, <1>11, <1>12, <1>13, <1>14, <1>16
     DEF Eviction!Spare, Eviction!Resident, Marked, Page
<1> QED
  BY <1>17 DEF Eviction!Next

LEMMA ScEndServes ==
  ASSUME Inv, Inv', ScEnd
  PROVE  Eviction!Next
<1>1. /\ pc = "sweep" /\ ScEvict(Page) /\ Framed /\ Control /\ ScInv
      /\ pc' \in {"show", "wait"} /\ UNCHANGED <<algo, step, query>>
  BY DEF ScEnd, Show, Inv
<1>2. /\ algo = "second_chance" /\ num_frames > 0 /\ Filled(num_frames)
      /\ step < Len(query) /\ Page \in Pages /\ Page \notin Resident
  BY <1>1, PageType DEF Control
<1>3. PICK c, s, u : c = sc_count /\ s = Nodes(sc_list) /\ u = Nodes(sc_list')
  OBVIOUS
<1>4. /\ Filled(c) /\ c \in Nat /\ c <= num_frames /\ num_frames \in Nat
      /\ sc_node \in ScNodes /\ DOMAIN frames = Slots
      /\ s \in [1 .. c -> 0 .. c - 1] /\ s \in Seq(Bytes) /\ Len(s) = c
      /\ \A k, m \in 1 .. c : s[k] = s[m] => k = m
      /\ \A k \in 0 .. c - 1 : k \in Bytes /\ k \in Slots
      /\ \A i, j \in 0 .. c - 1 : frames[i] = frames[j] => i = j
      /\ Queue = [k \in 1 .. c |-> frames[s[k]]]
      /\ Queue \in Seq(Bytes) /\ Len(Queue) = c
      /\ Marked = {frames[i] : i \in {i \in 0 .. c - 1 : sc_node[i].ref_bit = 1}}
  BY <1>2, <1>3, ScReads
<1>5. c = num_frames
  BY <1>1, <1>2, <1>4, FilledOnce
<1>6. ScReuses(Page)
  BY <1>1, <1>2, <1>3, <1>5, ScForms
<1>7. PICK v : v = s[1]
  OBVIOUS
<1>8. /\ sc_node[v].ref_bit = 0 /\ sc_node' = [sc_node EXCEPT ![v] = [@ EXCEPT !.page = Page]]
      /\ u = ToBack(s, 1) /\ sc_count' = c /\ LoadAt(v, Page)
  BY <1>3, <1>6, <1>7 DEF ScReuses, Lists
<1>9. /\ 1 \in 1 .. c /\ v \in 0 .. c - 1 /\ v \in Bytes /\ v \in Slots
      /\ frames' = [frames EXCEPT ![v] = Page] /\ num_frames' = num_frames
  BY <1>2, <1>4, <1>5, <1>7, <1>8 DEF LoadAt
<1>10. /\ Queue' = [k \in 1 .. c |-> frames'[u[k]]]
       /\ Marked' = {frames'[i] : i \in {i \in 0 .. c - 1 : sc_node'[i].ref_bit = 1}}
  BY <1>1, <1>2, <1>3, <1>8, ScReadsNext
<1>11. PICK q : q = Queue
  OBVIOUS
<1>12. q \in Seq(Bytes) /\ Len(q) = c /\ q # <<>> /\ q[1] = frames[v]
  <2>1. q \in Seq(Bytes) /\ Len(q) = c
    BY <1>4, <1>11
  <2>2. q # <<>>
    BY <1>4, <1>9, <2>1
  <2>3. q = [k \in 1 .. c |-> frames[s[k]]]
    BY <1>4, <1>11
  <2> QED
    BY <1>7, <1>9, <2>1, <2>2, <2>3
<1>13. Queue' = Append(Tail(q), Page)
  <2>1. \A k \in 1 .. c : frames'[u[k]] = IF k = c THEN Page ELSE q[k + 1]
    <3> TAKE k \in 1 .. c
    <3>1. u[k] = IF k = c THEN s[1] ELSE s[k + 1]
      BY <1>4, <1>8 DEF ToBack
    <3>2. k # c => q[k + 1] = frames[s[k + 1]] /\ s[k + 1] # v
      BY <1>4, <1>7, <1>9, <1>11
    <3> QED
      BY <1>4, <1>7, <1>9, <3>1, <3>2
  <2>2. Queue' = [k \in 1 .. c |-> IF k = c THEN Page ELSE q[k + 1]]
    BY <1>10, <2>1
  <2>3. Append(Tail(q), Page) = [k \in 1 .. c |-> IF k = c THEN Page ELSE q[k + 1]]
    BY <1>12, Rotated
  <2> QED
    BY <2>2, <2>3
<1>14. Marked' = Marked /\ q[1] \notin Marked
  <2> DEFINE bits  == {i \in 0 .. c - 1 : sc_node[i].ref_bit = 1}
             bits1 == {i \in 0 .. c - 1 : sc_node'[i].ref_bit = 1}
  <2>1. \A i \in 0 .. c - 1 : sc_node'[i].ref_bit = sc_node[i].ref_bit
    BY <1>4, <1>8, <1>9 DEF ScNodes
  <2>2. bits1 = bits /\ v \notin bits
    BY <1>8, <2>1
  <2>3. Marked' = {frames'[i] : i \in bits1} /\ Marked = {frames[i] : i \in bits}
    BY <1>4, <1>10
  <2>4. \A i \in bits : i # v /\ frames'[i] = frames[i] /\ frames[i] # frames[v]
    BY <1>4, <1>9, <2>2
  <2> HIDE DEF bits, bits1
  <2> QED
    BY <1>12, <2>2, <2>3, <2>4
<1>15. Eviction!Serve
  BY <1>1, <1>2, <1>9, Serving
<1>16. Eviction!Evict
  BY <1>2, <1>11, <1>13, <1>14, <1>15, EvictsQueue DEF Policies
<1> QED
  BY <1>16 DEF Eviction!Next

LEMMA QueueIdle ==
  ASSUME UNCHANGED <<ramVars, fifoVars, lruVars, scVars, algo>>
  PROVE  Queue' = Queue /\ Marked' = Marked /\ UNCHANGED <<algo, num_frames>>
<1>1. /\ UNCHANGED <<num_frames, frames, fifo_queue, fifo_head, fifo_count, algo>>
      /\ UNCHANGED <<lru_list, lru_node, lru_count, sc_list, sc_node, sc_count>>
  BY DEF ramVars, fifoVars, lruVars, scVars
<1>2. FifoOrder' = FifoOrder
  BY <1>1 DEF FifoOrder
<1>3. LruOrder' = LruOrder
  BY <1>1 DEF LruOrder
<1>4. ScOrder' = ScOrder /\ ScMarked' = ScMarked
  BY <1>1 DEF ScOrder, ScMarked
<1>5. Resident' = Resident
  BY <1>1 DEF Resident
<1> QED
  BY <1>1, <1>2, <1>3, <1>4, <1>5 DEF Queue, Marked

\* What is between the accesses.
LEMMA PrintRowStutters ==
  ASSUME PrintRow
  PROVE  UNCHANGED Eviction!vars
<1>1. UNCHANGED <<ramVars, fifoVars, lruVars, scVars, algo, step, query>> /\ pc = "show" /\ pc' \in {"show", "wait"}
  BY DEF PrintRow
<1>2. Queue' = Queue /\ Marked' = Marked /\ UNCHANGED num_frames
  BY <1>1, QueueIdle
<1> QED
  BY <1>1, <1>2 DEF Eviction!vars, Marked, Page

LEMMA EnterSteps ==
  ASSUME Enter
  PROVE  Eviction!NextReference \/ UNCHANGED Eviction!vars
<1>1. UNCHANGED <<ramVars, fifoVars, lruVars, scVars, algo, query>>
  BY DEF Enter
<1>2. Queue' = Queue /\ Marked' = Marked /\ UNCHANGED <<algo, num_frames>>
  BY <1>1, QueueIdle
<1>3. CASE pc = "wait"
  <2>1. pc' = "access"
    BY <1>3 DEF Enter
  <2> QED
    BY <1>2, <1>3, <2>1 DEF Eviction!NextReference, Marked
<1>4. CASE pc = "done"
  <2>1. pc' = "run" /\ step' = step
    BY <1>4 DEF Enter
  <2> QED
    BY <1>1, <1>2, <1>4, <2>1 DEF Eviction!vars, Marked, Page
<1> QED
  BY <1>3, <1>4 DEF Enter

LEMMA RestStutters ==
  ASSUME Results \/ Exit \/ UNCHANGED vars
  PROVE  UNCHANGED Eviction!vars
<1>1. /\ UNCHANGED <<ramVars, fifoVars, lruVars, scVars, algo, step, query>>
      /\ pc' \in {"show", "wait"} <=> pc \in {"show", "wait"}
  BY DEF Results, Exit, vars, loopVars
<1>2. Queue' = Queue /\ Marked' = Marked /\ UNCHANGED num_frames
  BY <1>1, QueueIdle
<1> QED
  BY <1>1, <1>2 DEF Eviction!vars, Marked, Page

LEMMA ParseArgsBoots ==
  ASSUME Inv, ParseArgs
  PROVE  Eviction!Boot
<1>1. algo = "none" /\ algo' = "none" /\ pc = "parse"
  BY DEF Inv, Control, ParseArgs
<1>2. pc' \in {"exit", "run"}
  BY DEF ParseArgs
<1>3. Queue = <<>> /\ Queue' = <<>>
  BY <1>1 DEF Queue
<1> QED
  BY <1>1, <1>2, <1>3 DEF Eviction!Boot

LEMMA RunOneBegins ==
  ASSUME Inv, Inv', RunOne
  PROVE  Eviction!Begin
<1>1. /\ todo # <<>> /\ SchedulerReset /\ algo' = Head(todo) /\ pc' = "access"
      /\ num_frames' = num_frames /\ Control /\ Framed
  BY DEF RunOne, Inv
<1>2. algo' \in Policies \ {algo}
  <2>1. todo \in Seq(Policies) /\ \A k \in DOMAIN todo : todo[k] # algo
    BY <1>1 DEF Control
  <2>2. 1 \in DOMAIN todo /\ Head(todo) = todo[1] /\ todo[1] \in Policies
    BY <1>1, <2>1
  <2> QED
    BY <1>1, <2>1, <2>2
<1>3. /\ fifo_count' = 0 /\ lru_count' = 0 /\ sc_count' = 0 /\ frames' = EmptyFrames(num_frames)
  BY <1>1 DEF SchedulerReset, FifoReset, LruReset, ScReset
<1>4. Filled(0)'
  <2>1. num_frames \in Nat
    BY <1>1, ByteFacts DEF Framed
  <2>2. \A i \in Slots' : frames'[i] = FrameEmpty /\ ~ (i < 0)
    BY <1>1, <1>3, <2>1 DEF Slots, EmptyFrames
  <2> QED
    BY <1>1, <2>1, <2>2 DEF Filled
<1>5. QueueReads'
  BY ReadsNext
<1>6. \A f : [k \in 1 .. 0 |-> f[k]] = <<>>
  OBVIOUS
<1>7. Queue' = <<>> /\ Marked' = {}
  <2>1. CASE algo' = "fifo"
    BY <1>3, <1>5, <2>1 DEF QueueReads, Marked
  <2>2. CASE algo' = "min"
    BY <1>4, <1>5, <2>2 DEF QueueReads, Marked
  <2>3. CASE algo' = "lru"
    BY <1>3, <1>5, <2>3 DEF QueueReads, Marked
  <2>4. CASE algo' = "second_chance"
    BY <1>3, <1>5, <2>4 DEF QueueReads, Marked
  <2> QED
    BY <1>2, <2>1, <2>2, <2>3, <2>4 DEF Policies
<1> QED
  BY <1>1, <1>2, <1>7 DEF Eviction!Begin, Policies, Marked

LEMMA InitQueue == Init => Eviction!Init
<1> SUFFICES ASSUME Init PROVE Eviction!Init
  OBVIOUS
<1>1. algo = "none" /\ num_frames = 0 /\ pc = "parse"
  BY DEF Init
<1>2. Queue = <<>>
  BY <1>1 DEF Queue
<1> QED
  BY <1>1, <1>2 DEF Eviction!Init

LEMMA QueueStep ==
  ASSUME Inv, Inv', [Next]_vars
  PROVE  [Eviction!Next]_(Eviction!vars)
<1>1. CASE ParseArgs
  BY <1>1, ParseArgsBoots DEF Eviction!Next
<1>2. CASE RunOne
  BY <1>2, RunOneBegins DEF Eviction!Next
<1>3. CASE Fifo \/ Min \/ Lru \/ ScAccess
  BY <1>3, FifoServes, MinServes, LruServes, ScServes
<1>4. CASE ScBegin
  BY <1>4, ScBeginStutters
<1>5. CASE Sweep \/ ScEnd
  BY <1>5, SweepSpares, ScEndServes
<1>6. CASE PrintRow
  BY <1>6, PrintRowStutters
<1>7. CASE Enter
  BY <1>7, EnterSteps DEF Eviction!Next
<1>8. CASE Results \/ Exit \/ Stopped \/ UNCHANGED vars
  BY <1>8, RestStutters DEF Stopped
<1> QED
  BY <1>1, <1>2, <1>3, <1>4, <1>5, <1>6, <1>7, <1>8 DEF Next

\* The frames, the circular array and the two lists of pointers do what a
\* queue of pages does, for every number of frames, every reference sequence
\* and every choice of policies (scheduler.c:98-311).
THEOREM Implements ==
  ASSUME FitsBytes
  PROVE  Spec => EvictionSpec
<1>1. Spec => []Inv
  BY Invariance
<1>2. Init => Eviction!Init
  BY InitQueue
<1>3. Inv /\ Inv' /\ [Next]_vars => [Eviction!Next]_(Eviction!vars)
  BY QueueStep
<1> QED
  BY <1>1, <1>2, <1>3, PTL DEF Spec, EvictionSpec, Eviction!Spec

-----------------------------------------------------------------------------
(* LRU keeps the pages used last.                                            *)

\* The last of the first n elements of q that is p.
Last(q, n, p) == CHOOSE k \in 1 .. n : q[k] = p /\ \A j \in k + 1 .. n : q[j] # p

LEMMA LastIs ==
  ASSUME NEW n \in Nat, NEW q, NEW p, NEW i \in 1 .. n, q[i] = p
  PROVE  /\ Last(q, n, p) \in 1 .. n /\ q[Last(q, n, p)] = p
         /\ \A j \in Last(q, n, p) + 1 .. n : q[j] # p
<1> DEFINE back == {m \in Nat : m < n /\ q[n - m] = p}
<1>1. n - i \in back
  <2>1. n - i \in Nat /\ n - i < n /\ n - (n - i) = i
    OBVIOUS
  <2> QED
    BY <2>1
<1>2. PICK m \in back : \A k \in back : m <= k
  BY <1>1, SmallestNumber
<1>3. n - m \in 1 .. n /\ q[n - m] = p
  BY <1>2
<1>4. ASSUME NEW j \in n - m + 1 .. n PROVE q[j] # p
  <2>1. n - j \in Nat /\ n - j < n /\ n - j < m /\ n - (n - j) = j
    BY <1>2, <1>4
  <2>2. n - j \notin back
    BY <1>2, <2>1
  <2> QED
    BY <2>1, <2>2
<1>5. \E k \in 1 .. n : q[k] = p /\ \A j \in k + 1 .. n : q[j] # p
  BY <1>3, <1>4
<1> QED
  BY <1>5 DEF Last

LEMMA LastUnique ==
  ASSUME NEW n \in Nat, NEW q, NEW p, NEW i \in 1 .. n, q[i] = p, \A j \in i + 1 .. n : q[j] # p
  PROVE  Last(q, n, p) = i
<1> DEFINE k == Last(q, n, p)
<1>1. k \in 1 .. n /\ q[k] = p /\ \A j \in k + 1 .. n : q[j] # p
  BY LastIs
<1> HIDE DEF k
<1>2. ~ (k < i) /\ ~ (i < k)
  BY <1>1
<1>3. k = i
  BY <1>1, <1>2
<1> QED
  BY <1>3 DEF k

\* One reference more changes the last use of its own page only.
LEMMA LastNext ==
  ASSUME NEW n \in Nat, NEW q
  PROVE  /\ Last(q, n + 1, q[n + 1]) = n + 1
         /\ \A p : p # q[n + 1] /\ (\E i \in 1 .. n : q[i] = p) => Last(q, n + 1, p) = Last(q, n, p)
<1>1. n + 1 \in Nat /\ n + 1 \in 1 .. n + 1 /\ \A j \in n + 1 + 1 .. n + 1 : q[j] # q[n + 1]
  OBVIOUS
<1>2. Last(q, n + 1, q[n + 1]) = n + 1
  BY <1>1, LastUnique
<1>3. ASSUME NEW p, p # q[n + 1], NEW i \in 1 .. n, q[i] = p
      PROVE  Last(q, n + 1, p) = Last(q, n, p)
  <2>1. PICK k : k = Last(q, n, p)
    OBVIOUS
  <2>2. k \in 1 .. n /\ q[k] = p /\ \A j \in k + 1 .. n : q[j] # p
    BY <1>3, <2>1, LastIs
  <2>3. k \in 1 .. n + 1 /\ \A j \in k + 1 .. n + 1 : j = n + 1 \/ j \in k + 1 .. n
    BY <2>2
  <2>4. \A j \in k + 1 .. n + 1 : q[j] # p
    BY <1>3, <2>2, <2>3
  <2>5. Last(q, n + 1, p) = k
    BY <1>1, <2>2, <2>3, <2>4, LastUnique
  <2> QED
    BY <2>1, <2>5
<1> QED
  BY <1>2, <1>3

\* The queue q has the pages of R in the order in which they were last used,
\* and those it has not were used before, when there was room for room pages.
InOrder(q, R, last, room) ==
  /\ \A k, m \in 1 .. Len(q) : k < m => last[q[k]] < last[q[m]]
  /\ \A p \in R \ {q[k] : k \in 1 .. Len(q)} :
       Len(q) = room /\ \A k \in 1 .. Len(q) : last[p] < last[q[k]]

\* A page p that is used next, after all those used in 1 .. n.
UsedNext(R, last, n, p, next) ==
  /\ last \in [R -> 1 .. n]
  /\ next \in [R \cup {p} -> Nat]
  /\ next[p] = n + 1
  /\ \A r \in R \ {p} : next[r] = last[r]

LEMMA UseKeepsOrder ==
  ASSUME NEW S, NEW q \in Seq(S), NEW R, NEW last, NEW room, InOrder(q, R, last, room),
         \A k \in 1 .. Len(q) : q[k] \in R,
         NEW n \in Nat, NEW next, NEW i \in 1 .. Len(q), UsedNext(R, last, n, q[i], next),
         NEW t, t = [k \in 1 .. Len(q) |-> IF k = Len(q) THEN q[i] ELSE IF k < i THEN q[k] ELSE q[k + 1]]
  PROVE  InOrder(t, R \cup {q[i]}, next, room)
<1> DEFINE c == Len(q)
           p == q[i]
<1>1. c \in Nat /\ i \in 1 .. c /\ \A k \in 1 .. c : q[k] \in R /\ last[q[k]] \in 1 .. n
  BY DEF UsedNext
<1>2. Len(t) = c /\ DOMAIN t = 1 .. c /\ t \in Seq(S)
  <2>1. \A k \in 1 .. c : t[k] \in S
    <3> TAKE k \in 1 .. c
    <3>1. k # c => k + 1 \in 1 .. c
      BY <1>1
    <3> QED
      BY <3>1
  <2>2. t \in Seq(S) /\ DOMAIN t = 1 .. c
    BY <1>1, <2>1
  <2> QED
    BY <1>1, <2>2
<1>3. \A k \in 1 .. c : t[k] = IF k = c THEN p ELSE IF k < i THEN q[k] ELSE q[k + 1]
  OBVIOUS
<1>4. \A k, m \in 1 .. c : k < m => last[q[k]] < last[q[m]]
  BY DEF InOrder
<1>5. next[p] = n + 1 /\ \A r \in R \ {p} : next[r] = last[r]
  BY DEF UsedNext
<1> HIDE DEF c, p
<1>6. \A k \in 1 .. c : k # i => q[k] # p
  <2> TAKE k \in 1 .. c
  <2>1. k < i \/ k > i \/ k = i
    BY <1>1
  <2> QED
    BY <1>1, <1>4, <2>1 DEF p
<1> DEFINE from(k) == IF k < i THEN k ELSE k + 1
<1>7. \A k \in 1 .. c : k # c => from(k) \in 1 .. c /\ from(k) # i /\ t[k] = q[from(k)]
  BY <1>1, <1>3
<1>8. \A k \in 1 .. c : k # c => next[t[k]] = last[q[from(k)]] /\ last[q[from(k)]] \in 1 .. n
  <2> TAKE k \in 1 .. c
  <2>1. SUFFICES ASSUME k # c PROVE next[t[k]] = last[q[from(k)]] /\ last[q[from(k)]] \in 1 .. n
    OBVIOUS
  <2>2. PICK f : f = from(k)
    OBVIOUS
  <2>3. f \in 1 .. c /\ q[f] # p /\ t[k] = q[f]
    BY <1>6, <1>7, <2>1, <2>2
  <2> QED
    BY <1>1, <1>5, <2>2, <2>3
<1>9. next[t[c]] = n + 1 /\ c \in 1 .. c
  <2>1. c \in 1 .. c
    BY <1>1
  <2>2. t[c] = p
    BY <1>3, <2>1
  <2> QED
    BY <1>5, <2>1, <2>2
<1>10. ASSUME NEW k \in 1 .. c, NEW m \in 1 .. c, k < m
       PROVE  next[t[k]] < next[t[m]]
  <2>1. k # c
    BY <1>1, <1>10
  <2>2. CASE m = c
    <3>1. next[t[m]] = n + 1
      BY <1>9, <2>2
    <3>2. next[t[k]] \in 1 .. n
      BY <1>8, <2>1
    <3> QED
      BY <3>1, <3>2
  <2>3. CASE m # c
    <3>1. PICK f, g : f = from(k) /\ g = from(m)
      OBVIOUS
    <3>2. f \in 1 .. c /\ g \in 1 .. c
      BY <1>7, <2>1, <2>3, <3>1
    <3>3. f < g
      BY <1>1, <1>10, <3>1
    <3>4. next[t[k]] = last[q[f]] /\ next[t[m]] = last[q[g]]
      BY <1>8, <2>1, <2>3, <3>1
    <3> QED
      BY <1>4, <3>2, <3>3, <3>4
  <2> QED
    BY <2>2, <2>3
<1>11. ASSUME NEW r \in (R \cup {p}) \ {t[k] : k \in 1 .. c}
       PROVE  c = room /\ \A k \in 1 .. c : next[r] < next[t[k]]
  <2>1. r # p /\ r \in R
    BY <1>3, <1>9, <1>11
  <2>2. r \notin {q[k] : k \in 1 .. c}
    <3>1. SUFFICES ASSUME NEW k \in 1 .. c, q[k] = r PROVE FALSE
      OBVIOUS
    <3>2. k # i
      BY <2>1, <3>1 DEF p
    <3>3. CASE k < i
      <4>1. k # c /\ t[k] = q[k]
        BY <1>1, <1>3, <3>3
      <4> QED
        BY <1>11, <3>1, <4>1
    <3>4. CASE k > i
      <4>1. k - 1 \in 1 .. c /\ k - 1 # c /\ ~ (k - 1 < i) /\ (k - 1) + 1 = k
        BY <1>1, <3>4
      <4>2. t[k - 1] = q[k]
        BY <1>3, <4>1
      <4> QED
        BY <1>11, <3>1, <4>1, <4>2
    <3> QED
      BY <1>1, <3>2, <3>3, <3>4
  <2>3. c = room /\ \A k \in 1 .. c : last[r] < last[q[k]]
    BY <2>1, <2>2 DEF InOrder, c
  <2>4. next[r] = last[r] /\ last[r] \in 1 .. n
    BY <1>5, <2>1 DEF UsedNext
  <2>5. ASSUME NEW k \in 1 .. c PROVE next[r] < next[t[k]]
    <3>1. CASE k = c
      BY <1>9, <2>4, <3>1
    <3>2. CASE k # c
      <4>1. from(k) \in 1 .. c
        BY <1>7, <3>2
      <4>2. last[r] < last[q[from(k)]]
        BY <2>3, <4>1
      <4> QED
        BY <1>8, <2>4, <3>2, <4>2
    <3> QED
      BY <3>1, <3>2
  <2> QED
    BY <2>3, <2>5
<1> QED
  BY <1>2, <1>10, <1>11 DEF InOrder, c, p

LEMMA LoadKeepsOrder ==
  ASSUME NEW S, NEW q \in Seq(S), NEW R, NEW last, NEW room, InOrder(q, R, last, room),
         \A k \in 1 .. Len(q) : q[k] \in R,
         NEW n \in Nat, NEW next, NEW p, UsedNext(R, last, n, p, next),
         \A k \in 1 .. Len(q) : q[k] # p, Len(q) # room,
         NEW t, t \in Seq(S), t = [k \in 1 .. Len(q) + 1 |-> IF k = Len(q) + 1 THEN p ELSE q[k]]
  PROVE  InOrder(t, R \cup {p}, next, room)
<1> DEFINE c == Len(q)
<1>1. c \in Nat /\ Len(t) = c + 1 /\ \A k \in 1 .. c : q[k] \in R /\ q[k] # p
  OBVIOUS
<1>2. \A k \in 1 .. c + 1 : t[k] = IF k = c + 1 THEN p ELSE q[k]
  OBVIOUS
<1>3. \A k, m \in 1 .. c : k < m => last[q[k]] < last[q[m]]
  BY DEF InOrder
<1>4. \A r \in R : \E k \in 1 .. c : q[k] = r
  BY DEF InOrder
<1>5. next[p] = n + 1 /\ \A r \in R \ {p} : next[r] = last[r] /\ last[r] \in 1 .. n
  BY DEF UsedNext
<1> HIDE DEF c
<1>6. \A k \in 1 .. c + 1 : k # c + 1 => k \in 1 .. c
  BY <1>1
<1>7. \A k \in 1 .. c : next[t[k]] = last[q[k]] /\ last[q[k]] \in 1 .. n
  BY <1>1, <1>2, <1>5
<1>8. \A k, m \in 1 .. c + 1 : k < m => next[t[k]] < next[t[m]]
  <2> TAKE k, m \in 1 .. c + 1
  <2>1. SUFFICES ASSUME k < m PROVE next[t[k]] < next[t[m]]
    OBVIOUS
  <2>2. k \in 1 .. c
    BY <1>1, <2>1
  <2>3. CASE m = c + 1
    <3>1. next[t[m]] = n + 1
      BY <1>2, <1>5, <2>3
    <3>2. next[t[k]] \in 1 .. n
      BY <1>7, <2>2
    <3> QED
      BY <3>1, <3>2
  <2>4. CASE m # c + 1
    BY <1>3, <1>6, <1>7, <2>1, <2>2, <2>4
  <2> QED
    BY <2>3, <2>4
<1>9. \A r \in R \cup {p} : \E k \in 1 .. c + 1 : t[k] = r
  <2>1. t[c + 1] = p /\ c + 1 \in 1 .. c + 1
    BY <1>1, <1>2
  <2>2. \A k \in 1 .. c : k \in 1 .. c + 1 /\ t[k] = q[k]
    BY <1>1, <1>2
  <2> QED
    BY <1>4, <2>1, <2>2
<1> QED
  BY <1>1, <1>8, <1>9 DEF InOrder, c

LEMMA EvictKeepsOrder ==
  ASSUME NEW S, NEW q \in Seq(S), NEW R, NEW last, NEW room, InOrder(q, R, last, room),
         \A k \in 1 .. Len(q) : q[k] \in R,
         NEW n \in Nat, NEW next, NEW p, UsedNext(R, last, n, p, next),
         \A k \in 1 .. Len(q) : q[k] # p, Len(q) = room,
         NEW t, t \in Seq(S), t = [k \in 1 .. Len(q) |-> IF k = Len(q) THEN p ELSE q[k + 1]]
  PROVE  InOrder(t, R \cup {p}, next, room)
<1> DEFINE c == Len(q)
<1>1. c \in Nat /\ Len(t) = c /\ \A k \in 1 .. c : q[k] \in R /\ q[k] # p
  OBVIOUS
<1>2. \A k \in 1 .. c : t[k] = IF k = c THEN p ELSE q[k + 1]
  OBVIOUS
<1>3. \A k, m \in 1 .. c : k < m => last[q[k]] < last[q[m]]
  BY DEF InOrder
<1>4. \A r \in R \ {q[k] : k \in 1 .. c} : \A k \in 1 .. c : last[r] < last[q[k]]
  BY DEF InOrder
<1>5. next[p] = n + 1 /\ \A r \in R \ {p} : next[r] = last[r] /\ last[r] \in 1 .. n
  BY DEF UsedNext
<1>6. c = room
  OBVIOUS
<1> HIDE DEF c
<1>7. \A k \in 1 .. c : k # c => k + 1 \in 1 .. c
  BY <1>1
<1>8. \A k \in 1 .. c : k # c => next[t[k]] = last[q[k + 1]] /\ last[q[k + 1]] \in 1 .. n
  <2> TAKE k \in 1 .. c
  <2>1. k # c => t[k] = q[k + 1] /\ q[k + 1] \in R \ {p}
    BY <1>1, <1>2, <1>7
  <2> QED
    BY <1>5, <2>1
<1>9. \A k \in 1 .. c : k = c => next[t[k]] = n + 1
  BY <1>2, <1>5
<1>10. ASSUME NEW k \in 1 .. c, NEW m \in 1 .. c, k < m
       PROVE  next[t[k]] < next[t[m]]
  <2>1. k # c
    BY <1>1, <1>10
  <2>2. CASE m = c
    <3>1. next[t[m]] = n + 1
      BY <1>9, <2>2
    <3>2. next[t[k]] \in 1 .. n
      BY <1>8, <2>1
    <3> QED
      BY <3>1, <3>2
  <2>3. CASE m # c
    <3>1. k + 1 \in 1 .. c /\ m + 1 \in 1 .. c /\ k + 1 < m + 1
      BY <1>7, <1>10, <2>1, <2>3
    <3>2. last[q[k + 1]] < last[q[m + 1]]
      BY <1>3, <3>1
    <3> QED
      BY <1>8, <2>1, <2>3, <3>2
  <2> QED
    BY <2>2, <2>3
<1>11. ASSUME NEW r \in (R \cup {p}) \ {t[k] : k \in 1 .. c}
       PROVE  \A k \in 1 .. c : next[r] < next[t[k]]
  <2> TAKE k \in 1 .. c
  <2>1. r # p /\ r \in R
    <3>1. c \in 1 .. c
      BY <1>1
    <3> QED
      BY <1>2, <1>11, <3>1
  <2>2. next[r] = last[r] /\ last[r] \in 1 .. n
    BY <1>5, <2>1
  <2>3. CASE k = c
    <3>1. next[t[k]] = n + 1
      BY <1>9, <2>3
    <3>2. next[r] \in 1 .. n
      BY <2>2
    <3> QED
      BY <3>1, <3>2
  <2>4. CASE k # c
    <3>1. last[r] < last[q[k + 1]]
      <4>1. CASE r \notin {q[m] : m \in 1 .. c}
        BY <1>4, <1>7, <2>1, <2>4, <4>1
      <4>2. CASE r \in {q[m] : m \in 1 .. c}
        <5>1. PICK m \in 1 .. c : q[m] = r
          BY <4>2
        <5>2. m = 1
          <6>1. SUFFICES ASSUME m # 1 PROVE FALSE
            OBVIOUS
          <6>2. m - 1 \in 1 .. c /\ m - 1 # c /\ (m - 1) + 1 = m
            BY <1>1, <6>1
          <6>3. t[m - 1] = q[m]
            BY <1>2, <6>2
          <6> QED
            BY <1>11, <5>1, <6>2, <6>3
        <5>3. k + 1 \in 1 .. c /\ m < k + 1
          BY <1>7, <2>4, <5>2
        <5> QED
          BY <1>3, <5>1, <5>3
      <4> QED
        BY <4>1, <4>2
    <3> QED
      BY <1>8, <2>2, <2>4, <3>1
  <2> QED
    BY <2>3, <2>4
<1> QED
  BY <1>1, <1>6, <1>10, <1>11 DEF InOrder, c

LastUses == [p \in Referenced |-> LastUse(p)]

\* The queue of LRU has the pages in the order of their last use.
LruRecent == algo = "lru" /\ Active => InOrder(Queue, Referenced, LastUses, num_frames)

LEMMA Uses ==
  ASSUME Inv
  PROVE  Served \in Nat /\ Served <= Len(query) /\ LastUses \in [Referenced -> 1 .. Served]
<1>1. Served \in Nat /\ Served <= Len(query)
  BY DEF Inv, Control, Served
<1>2. ASSUME NEW p \in Referenced PROVE LastUse(p) \in 1 .. Served
  <2>1. LastUse(p) = Last(query, Served, p)
    BY DEF LastUse, Last
  <2>2. PICK i \in 1 .. Served : query[i] = p
    BY DEF Referenced
  <2> QED
    BY <1>1, <2>1, <2>2, LastIs
<1> QED
  BY <1>1, <1>2 DEF LastUses

\* What Queue and Resident have to do with one another.
LEMMA QueueShows ==
  Inv /\ algo \in Policies => /\ Queue \in Seq(Bytes)
                              /\ Len(Queue) <= num_frames /\ Filled(Len(Queue))
                              /\ Resident = {Queue[k] : k \in 1 .. Len(Queue)}
<1> SUFFICES ASSUME Inv, algo \in Policies
             PROVE  /\ Queue \in Seq(Bytes)
                    /\ Len(Queue) <= num_frames /\ Filled(Len(Queue))
                    /\ Resident = {Queue[k] : k \in 1 .. Len(Queue)}
  OBVIOUS
<1>1. PICK c : Filled(c)
  BY DEF Inv, Framed
<1>2. /\ c \in Nat /\ c <= num_frames
      /\ Queue \in Seq(Bytes) /\ Len(Queue) = c
      /\ \A k \in 1 .. c : Queue[k] \in Resident
      /\ \A p \in Resident : \E k \in 1 .. c : Queue[k] = p
  BY <1>1, QueueHolds
<1> QED
  BY <1>1, <1>2

LEMMA QueueShowsNext ==
  Inv' /\ (algo \in Policies)' => (/\ Queue \in Seq(Bytes)
                                   /\ Len(Queue) <= num_frames /\ Filled(Len(Queue))
                                   /\ Resident = {Queue[k] : k \in 1 .. Len(Queue)})'
BY QueueShows, PTL

\* What an access makes of the last uses.
LEMMA UsesNext ==
  ASSUME Inv, Inv', pc = "access", step < Len(query), pc' \in {"show", "wait"}, UNCHANGED <<query, step>>
  PROVE  /\ Referenced' = Referenced \cup {Page}
         /\ UsedNext(Referenced, LastUses, Served, Page, LastUses')
<1>1. Control /\ query' = query
  BY DEF Inv
<1>2. Served' = step + 1 /\ Served = step /\ Referenced' = Referenced \cup {Page}
  BY <1>1, ReferencedNext
<1>3. PICK n : n = Served
  OBVIOUS
<1>4. n \in Nat /\ LastUses \in [Referenced -> 1 .. n] /\ Served' = n + 1 /\ Page = query[n + 1]
  BY <1>2, <1>3, Uses DEF Page
<1>5. /\ \A p \in Referenced : LastUses[p] = Last(query, n, p)
      /\ \A p \in Referenced' : LastUses'[p] = Last(query, n + 1, p)
  BY <1>1, <1>3, <1>4 DEF LastUses, LastUse, Last
<1>6. \A p \in Referenced : \E i \in 1 .. n : query[i] = p
  BY <1>3 DEF Referenced
<1>7. /\ Last(query, n + 1, Page) = n + 1
      /\ \A p \in Referenced \ {Page} : Last(query, n + 1, p) = Last(query, n, p)
  <2>1. /\ Last(query, n + 1, query[n + 1]) = n + 1
        /\ \A p : p # query[n + 1] /\ (\E i \in 1 .. n : query[i] = p) =>
                Last(query, n + 1, p) = Last(query, n, p)
    BY <1>4, LastNext
  <2> QED
    BY <1>4, <1>6, <2>1
<1>8. /\ LastUses'[Page] = n + 1
      /\ \A p \in Referenced \ {Page} : LastUses'[p] = LastUses[p]
  BY <1>2, <1>5, <1>7
<1>9. LastUses' \in [Referenced \cup {Page} -> Nat]
  <2>1. LastUses' = [p \in Referenced' |-> LastUse(p)']
    BY DEF LastUses
  <2>2. \A p \in Referenced' : LastUses'[p] \in Nat
    BY <1>2, <1>4, <1>8
  <2> QED
    BY <1>2, <2>1, <2>2
<1> QED
  BY <1>2, <1>3, <1>4, <1>8, <1>9 DEF UsedNext

LEMMA LruStaysRecent ==
  ASSUME Inv, Inv', Lru, LruRecent
  PROVE  LruRecent'
<1>1. /\ pc = "access" /\ algo = "lru" /\ step < Len(query) /\ pc' \in {"show", "wait"}
      /\ UNCHANGED <<algo, step, query>> /\ Active
  BY DEF Lru, Show, Referencing, Active
<1>2. Eviction!Use \/ Eviction!Load \/ Eviction!Evict
  BY <1>1, LruServes
     DEF Eviction!Next, Eviction!Boot, Eviction!Begin, Eviction!NextReference, Eviction!Spare
<1>3. num_frames' = num_frames
  BY <1>2 DEF Eviction!Use, Eviction!Load, Eviction!Evict, Eviction!Serve
<1>4. PICK q, t, R, last, next, n, p, room :
        /\ q = Queue /\ t = Queue' /\ R = Referenced /\ last = LastUses /\ next = LastUses'
        /\ n = Served /\ p = Page /\ room = num_frames
  OBVIOUS
<1>5. q \in Seq(Bytes) /\ Len(q) <= room /\ Resident = {q[k] : k \in 1 .. Len(q)}
  BY <1>1, <1>4, QueueShows DEF Policies
<1>6. t \in Seq(Bytes)
  BY <1>1, <1>4, QueueShowsNext DEF Policies
<1>7. \A k \in 1 .. Len(q) : q[k] \in R
  BY <1>1, <1>4, <1>5 DEF Inv, Counting
<1>8. n \in Nat /\ UsedNext(R, last, n, p, next) /\ Referenced' = R \cup {p}
  BY <1>1, <1>4, Uses, UsesNext
<1>9. InOrder(q, R, last, room)
  BY <1>1, <1>4 DEF LruRecent
<1>10. InOrder(t, R \cup {p}, next, room)
  <2>1. CASE Eviction!Use
    <3>1. PICK i \in DOMAIN q : q[i] = p /\ t = Append(SubSeq(q, 1, i - 1) \o SubSeq(q, i + 1, Len(q)), p)
      BY <1>1, <1>4, <2>1 DEF Eviction!Use, Eviction!Without
    <3>2. i \in 1 .. Len(q)
      BY <1>5, <3>1
    <3>3. t = Requeue(q, i, p)
      BY <3>1 DEF Requeue
    <3>4. t = [k \in 1 .. Len(q) |-> IF k = Len(q) THEN p ELSE IF k < i THEN q[k] ELSE q[k + 1]]
      BY <1>5, <3>2, <3>3, Requeued
    <3> QED
      BY <1>5, <1>7, <1>8, <1>9, <3>1, <3>2, <3>4, UseKeepsOrder
  <2>2. CASE Eviction!Load
    <3>1. t = Append(q, p) /\ Len(q) < room /\ p \notin {q[k] : k \in DOMAIN q}
      BY <1>1, <1>4, <2>2 DEF Eviction!Load, Eviction!Resident
    <3>2. \A k \in 1 .. Len(q) : q[k] # p
      BY <1>5, <3>1
    <3>3. t = [k \in 1 .. Len(q) + 1 |-> IF k = Len(q) + 1 THEN p ELSE q[k]]
      BY <1>5, <3>1, Appended
    <3>4. Len(q) # room
      BY <1>5, <3>1
    <3> QED
      BY <1>5, <1>6, <1>7, <1>8, <1>9, <3>2, <3>3, <3>4, LoadKeepsOrder
  <2>3. CASE Eviction!Evict
    <3>1. t = Append(Tail(q), p) /\ Len(q) = room /\ p \notin {q[k] : k \in DOMAIN q}
      BY <1>1, <1>4, <2>3 DEF Eviction!Evict, Eviction!Resident
    <3>2. \A k \in 1 .. Len(q) : q[k] # p
      BY <1>5, <3>1
    <3>3. q # <<>>
      <4>1. num_frames > 0
        BY <1>1 DEF Inv, Control
      <4>2. Len(q) # 0
        BY <1>4, <3>1, <4>1
      <4> QED
        BY <4>2
    <3>4. t = [k \in 1 .. Len(q) |-> IF k = Len(q) THEN p ELSE q[k + 1]]
      BY <1>5, <3>1, <3>3, Rotated
    <3> QED
      BY <1>5, <1>6, <1>7, <1>8, <1>9, <3>1, <3>2, <3>4, EvictKeepsOrder
  <2> QED
    BY <1>2, <2>1, <2>2, <2>3
<1> QED
  BY <1>3, <1>4, <1>8, <1>10 DEF LruRecent

LEMMA RecentNext ==
  ASSUME Inv, Inv', [Next]_vars, LruRecent
  PROVE  LruRecent'
<1>1. SUFFICES ASSUME algo' = "lru", Active'
               PROVE  InOrder(Queue, Referenced, LastUses, num_frames)'
  BY DEF LruRecent
<1>2. CASE ParseArgs
  BY <1>1, <1>2 DEF ParseArgs, Inv, Control
<1>3. CASE RunOne
  <2>1. Queue' = <<>> /\ step' = 0 /\ pc' = "access"
    BY <1>3, RunOneBegins DEF Eviction!Begin, RunOne
  <2>2. Served' = 0
    BY <2>1 DEF Served
  <2>3. Referenced' = {}
    BY <2>2 DEF Referenced
  <2> QED
    BY <2>1, <2>3 DEF InOrder
<1>4. CASE Lru
  BY <1>1, <1>4, LruStaysRecent DEF LruRecent
<1>5. CASE Fifo \/ Min \/ ScAccess \/ ScBegin
  BY <1>1, <1>5 DEF Fifo, Min, ScAccess, ScBegin, Show, Referencing
<1>6. CASE Sweep \/ ScEnd
  BY <1>1, <1>6 DEF Sweep, ScEnd, Show, Inv, Control, loopVars
<1>7. CASE Exit
  BY <1>1, <1>7 DEF Exit, Active
<1>8. CASE PrintRow \/ Enter \/ Results \/ Stopped \/ UNCHANGED vars
  <2>1. UNCHANGED <<ramVars, fifoVars, query, lruVars, scVars, algo>>
    BY <1>8 DEF PrintRow, Enter, Results, Stopped, vars, loopVars
  <2>2. Queue' = Queue /\ num_frames' = num_frames /\ query' = query /\ algo' = algo
    BY <2>1, QueueIdle
  <2>3. Served' = Served /\ Active
    BY <1>1, <1>8 DEF PrintRow, Enter, Results, Stopped, vars, loopVars, Served, Active
  <2>4. Referenced' = Referenced
    BY <2>2, <2>3 DEF Referenced
  <2>5. LastUses' = LastUses
    BY <2>2, <2>3, <2>4 DEF LastUses, LastUse
  <2> QED
    BY <1>1, <2>2, <2>3, <2>4, <2>5 DEF LruRecent
<1> QED
  BY <1>2, <1>3, <1>4, <1>5, <1>6, <1>7, <1>8 DEF Next

\* The pages used after p, where the queue is in order.
LEMMA RecentHolds == Inv /\ LruRecent => LruHoldsMostRecent
<1> SUFFICES ASSUME Inv, LruRecent, algo = "lru", pc \in {"access", "show", "wait"}
             PROVE  Resident = {p \in Referenced :
                       Cardinality({q \in Referenced : LastUse(q) > LastUse(p)}) < num_frames}
  BY DEF LruHoldsMostRecent
<1> DEFINE later(p) == {q \in Referenced : LastUse(q) > LastUse(p)}
<1>1. Framed /\ Control /\ Counting /\ Active
  BY DEF Inv, Active
<1>2. InOrder(Queue, Referenced, LastUses, num_frames)
  BY <1>1 DEF LruRecent
<1>3. PICK s, c : s = Queue /\ c = Len(Queue)
  OBVIOUS
<1>4. /\ s \in Seq(Bytes) /\ Len(s) = c /\ c \in Nat /\ c <= num_frames /\ Filled(c)
      /\ Resident = {s[k] : k \in 1 .. c}
  BY <1>3, QueueShows DEF Policies
<1>5. IsFiniteSet(Resident) /\ Cardinality(Resident) = c
  BY <1>1, <1>4, ResidentCount
<1>6. num_frames \in Nat
  BY <1>1, ByteFacts DEF Framed
<1>7. Resident \subseteq Referenced
  BY <1>1 DEF Counting
<1>8. \A p \in Referenced : LastUses[p] = LastUse(p) /\ LastUse(p) \in Nat
  BY Uses DEF LastUses
<1>9. IsFiniteSet(Referenced)
  <2>1. Served \in Nat /\ Served <= Len(query) /\ query \in Seq(Pages)
    BY <1>1, Uses DEF Control
  <2>2. \A k \in 1 .. Served : query[k] \in Pages
    BY <2>1
  <2>3. Referenced \subseteq Pages
    BY <2>2 DEF Referenced
  <2>4. IsFiniteSet(Pages)
    <3>1. 0 \in Int /\ Byte - 2 \in Int
      OBVIOUS
    <3> QED
      BY <3>1, FS_Interval DEF Pages
  <2> QED
    BY <2>3, <2>4, FS_Subset
<1>10. \A p : IsFiniteSet(later(p)) /\ Cardinality(later(p)) \in Nat
  <2> TAKE p
  <2>1. later(p) \subseteq Referenced
    OBVIOUS
  <2> HIDE DEF later
  <2> QED
    BY <1>9, <2>1, FS_Subset, FS_CardinalityType
<1>11. \A p \in Referenced \ Resident, r \in Resident : c = num_frames /\ LastUse(p) < LastUse(r)
  <2> TAKE p \in Referenced \ Resident, r \in Resident
  <2>1. p \in Referenced \ {s[k] : k \in 1 .. Len(s)}
    BY <1>4
  <2>2. Len(s) = num_frames /\ \A k \in 1 .. Len(s) : LastUses[p] < LastUses[s[k]]
    BY <1>2, <1>3, <2>1 DEF InOrder
  <2>3. PICK k \in 1 .. c : s[k] = r
    BY <1>4
  <2> QED
    BY <1>4, <1>7, <1>8, <2>2, <2>3
<1>12. ASSUME NEW p \in Resident PROVE Cardinality(later(p)) < num_frames
  <2>1. later(p) \subseteq Resident \ {p}
    <3>1. SUFFICES ASSUME NEW q \in Referenced, LastUse(q) > LastUse(p) PROVE q \in Resident \ {p}
      OBVIOUS
    <3>2. q \notin Resident => FALSE
      <4>1. SUFFICES ASSUME q \notin Resident PROVE FALSE
        OBVIOUS
      <4>2. LastUse(q) < LastUse(p)
        BY <1>11, <1>12, <4>1
      <4> QED
        BY <1>7, <1>8, <1>12, <3>1, <4>2
    <3>3. q # p
      BY <1>8, <3>1
    <3> QED
      BY <3>2, <3>3
  <2>2. Cardinality(Resident \ {p}) = c - 1 /\ IsFiniteSet(Resident \ {p})
    BY <1>5, <1>12, FS_RemoveElement
  <2>3. Cardinality(later(p)) <= c - 1
    <3> HIDE DEF later
    <3> QED
      BY <2>1, <2>2, FS_Subset
  <2> HIDE DEF later
  <2> QED
    BY <1>4, <1>6, <1>10, <2>3
<1>13. ASSUME NEW p \in Referenced \ Resident PROVE ~ (Cardinality(later(p)) < num_frames)
  <2>1. Resident \subseteq later(p)
    BY <1>7, <1>8, <1>11, <1>13
  <2>2. Cardinality(Resident) <= Cardinality(later(p))
    <3> HIDE DEF later
    <3> QED
      BY <1>10, <2>1, FS_Subset
  <2>3. c = num_frames
    <3>1. SUFFICES ASSUME c # num_frames PROVE FALSE
      OBVIOUS
    <3>2. p \in Referenced \ {s[k] : k \in 1 .. Len(s)}
      BY <1>4, <1>13
    <3> QED
      BY <1>2, <1>3, <3>1, <3>2 DEF InOrder
  <2> HIDE DEF later
  <2> QED
    BY <1>5, <1>6, <1>10, <2>2, <2>3
<1> QED
  BY <1>7, <1>12, <1>13

\* Under LRU the frames have the num_frames pages used last, after every hit,
\* load and eviction, for every number of frames and every reference sequence
\* (scheduler.c:205-243).
THEOREM HoldsMostRecent ==
  ASSUME FitsBytes
  PROVE  Spec => []LruHoldsMostRecent
<1>1. Init => LruRecent
  BY DEF Init, LruRecent
<1>2. Inv /\ Inv' /\ [Next]_vars /\ LruRecent => LruRecent'
  BY RecentNext
<1> QED
  BY <1>1, <1>2, Invariance, RecentHolds, PTL DEF Spec

-----------------------------------------------------------------------------
(* The fewest misses.                                                        *)

Least(S) == CHOOSE f \in S : \A g \in S : f <= g

LEMMA LeastIs ==
  ASSUME NEW S \in SUBSET Nat, S # {}
  PROVE  Least(S) \in S /\ Least(S) \in Nat /\ \A g \in S : Least(S) <= g
<1>1. \E f \in S : \A g \in S : f <= g
  BY SmallestNumber
<1> QED
  BY <1>1 DEF Least

\* One step of Fewest, in terms of a function f for the steps after it.
FewestStep(f, i, held) ==
  IF i = Len(query) THEN 0
  ELSE IF query[i + 1] \in held THEN f[i + 1][held]
  ELSE IF Cardinality(held) < num_frames
       THEN 1 + f[i + 1][held \cup {query[i + 1]}]
  ELSE 1 + Least({f[i + 1][(held \ {v}) \cup {query[i + 1]}] : v \in held})

From(i) == [i .. Len(query) -> [SUBSET Bytes -> Nat]]

LEMMA HeldFinite ==
  ASSUME NEW H \in SUBSET Bytes
  PROVE  IsFiniteSet(H) /\ Cardinality(H) \in Nat
<1>1. 0 \in Int /\ Byte - 1 \in Int
  BY ByteEven
<1>2. IsFiniteSet(Bytes)
  BY <1>1, FS_Interval DEF Bytes
<1> QED
  BY <1>2, FS_Subset, FS_CardinalityType

LEMMA StepType ==
  ASSUME query \in Seq(Pages), num_frames \in Nat \ {0},
         NEW i \in 0 .. Len(query), NEW held \in SUBSET Bytes, NEW f,
         \A H \in SUBSET Bytes : i < Len(query) => f[i + 1][H] \in Nat
  PROVE  FewestStep(f, i, held) \in Nat
<1>1. CASE i = Len(query)
  BY <1>1 DEF FewestStep
<1>2. CASE i < Len(query)
  <2>1. i # Len(query) /\ query[i + 1] \in Bytes
    <3>1. i + 1 \in 1 .. Len(query)
      BY <1>2
    <3> QED
      BY <1>2, <3>1, ByteFacts
  <2>2. CASE query[i + 1] \in held
    BY <1>2, <2>1, <2>2 DEF FewestStep
  <2>3. CASE query[i + 1] \notin held /\ Cardinality(held) < num_frames
    <3>1. held \cup {query[i + 1]} \in SUBSET Bytes
      BY <2>1
    <3>2. f[i + 1][held \cup {query[i + 1]}] \in Nat
      BY <1>2, <3>1
    <3> QED
      BY <2>1, <2>3, <3>2 DEF FewestStep
  <2>4. CASE query[i + 1] \notin held /\ ~ Cardinality(held) < num_frames
    <3> DEFINE rest == {f[i + 1][(held \ {v}) \cup {query[i + 1]}] : v \in held}
    <3>1. held # {}
      <4>1. ASSUME held = {} PROVE Cardinality(held) = 0
        BY <4>1, FS_EmptySet
      <4>2. 0 < num_frames
        OBVIOUS
      <4> HIDE DEF rest
      <4> QED
        BY <2>4, <4>1, <4>2
    <3>2. \A v \in held : (held \ {v}) \cup {query[i + 1]} \in SUBSET Bytes
      BY <2>1
    <3>3. \A v \in held : f[i + 1][(held \ {v}) \cup {query[i + 1]}] \in Nat
      BY <1>2, <3>2
    <3>4. rest \in SUBSET Nat /\ rest # {}
      BY <3>1, <3>3
    <3>5. FewestStep(f, i, held) = 1 + Least(rest)
      BY <2>1, <2>4 DEF FewestStep
    <3> HIDE DEF rest
    <3>6. Least(rest) \in Nat
      BY <3>4, LeastIs
    <3> QED
      BY <3>5, <3>6
  <2> QED
    BY <2>2, <2>3, <2>4
<1> QED
  BY <1>1, <1>2

\* The function that Fewest describes is there, from the last reference back.
LEMMA FewestExists ==
  ASSUME query \in Seq(Pages), num_frames \in Nat \ {0}
  PROVE  \E f \in From(0) : \A i \in 0 .. Len(query), H \in SUBSET Bytes :
            f[i][H] = FewestStep(f, i, H)
<1> DEFINE L == Len(query)
           Good(k) == \E f \in From(k) : \A i \in k .. L, H \in SUBSET Bytes :
                        f[i][H] = FewestStep(f, i, H)
           Goods == {i \in 0 .. L : Good(i)}
<1>1. L \in Nat
  OBVIOUS
<1>2. Good(L)
  <2> DEFINE f == [i \in L .. L |-> [H \in SUBSET Bytes |-> 0]]
  <2>1. f \in From(L)
    BY DEF From
  <2>2. ASSUME NEW i \in L .. L, NEW H \in SUBSET Bytes
        PROVE  f[i][H] = FewestStep(f, i, H)
    <3>1. i = L
      BY <1>1
    <3>2. f[i][H] = 0
      OBVIOUS
    <3> HIDE DEF f
    <3> QED
      BY <3>1, <3>2 DEF FewestStep
  <2> HIDE DEF f, L
  <2> QED
    BY <2>1, <2>2
<1>3. ASSUME NEW i \in 0 .. L - 1, Good(i + 1) PROVE Good(i)
  <2>1. i \in 0 .. L /\ i < L /\ i + 1 \in 1 .. L
    BY <1>1
  <2>2. PICK f \in From(i + 1) : \A j \in i + 1 .. L, H \in SUBSET Bytes :
                        f[j][H] = FewestStep(f, j, H)
    <3> HIDE DEF L
    <3> QED
      BY <1>3, <2>1
  <2> DEFINE here == [H \in SUBSET Bytes |-> FewestStep(f, i, H)]
             g == [j \in i .. L |-> IF j = i THEN here ELSE f[j]]
  <2>3. \A j \in i + 1 .. L, H \in SUBSET Bytes : f[j][H] \in Nat
    BY <2>2 DEF From
  <2>4. \A H \in SUBSET Bytes : FewestStep(f, i, H) \in Nat
    <3> SUFFICES ASSUME NEW H \in SUBSET Bytes PROVE FewestStep(f, i, H) \in Nat
      OBVIOUS
    <3>1. i + 1 \in i + 1 .. L
      BY <1>1, <2>1
    <3>2. \A J \in SUBSET Bytes : i < Len(query) => f[i + 1][J] \in Nat
      BY <2>3, <3>1
    <3>3. i \in 0 .. Len(query)
      BY <2>1
    <3> HIDE DEF L
    <3> QED
      BY <3>2, <3>3, StepType
  <2>5. here \in [SUBSET Bytes -> Nat]
    BY <2>4
  <2>6. \A j \in i .. L, H \in SUBSET Bytes :
          g[j][H] = IF j = i THEN FewestStep(f, i, H) ELSE f[j][H]
    OBVIOUS
  <2>7. g \in From(i)
    <3>1. \A j \in i .. L : j # i => f[j] \in [SUBSET Bytes -> Nat]
      <4>1. \A j \in i .. L : j # i => j \in i + 1 .. L
        BY <1>1, <2>1
      <4> QED
        BY <2>2, <4>1 DEF From
    <3> HIDE DEF here
    <3> QED
      BY <2>5, <3>1 DEF From
  <2>8. \A j \in i + 1 .. L, H \in SUBSET Bytes : g[j][H] = f[j][H]
    <3> HIDE DEF g
    <3>1. \A j \in i + 1 .. L : j \in i .. L /\ j # i
      BY <1>1, <2>1
    <3> QED
      BY <2>6, <3>1
  <2>9. ASSUME NEW j \in i .. L, NEW H \in SUBSET Bytes
        PROVE  FewestStep(g, j, H) = FewestStep(f, j, H)
    <3> HIDE DEF g
    <3>1. CASE j = L
      BY <3>1 DEF FewestStep
    <3>2. CASE j < L
      <4>1. j + 1 \in i + 1 .. L /\ j + 1 \in 1 .. L
        BY <1>1, <2>1, <3>2
      <4>2. query[j + 1] \in Bytes
        BY <4>1, ByteFacts
      <4>3. \A J \in SUBSET Bytes : g[j + 1][J] = f[j + 1][J]
        BY <2>8, <4>1
      <4>4. g[j + 1][H] = f[j + 1][H] /\ g[j + 1][H \cup {query[j + 1]}] = f[j + 1][H \cup {query[j + 1]}]
        BY <4>2, <4>3
      <4>5. \A v \in H : g[j + 1][(H \ {v}) \cup {query[j + 1]}] = f[j + 1][(H \ {v}) \cup {query[j + 1]}]
        <5>1. \A v \in H : (H \ {v}) \cup {query[j + 1]} \in SUBSET Bytes
          BY <4>2
        <5> QED
          BY <4>3, <5>1
      <4>6. {g[j + 1][(H \ {v}) \cup {query[j + 1]}] : v \in H} = {f[j + 1][(H \ {v}) \cup {query[j + 1]}] : v \in H}
        BY <4>5
      <4> QED
        BY <4>4, <4>6 DEF FewestStep
    <3> QED
      BY <1>1, <3>1, <3>2
  <2>10. ASSUME NEW j \in i .. L, NEW H \in SUBSET Bytes
         PROVE  g[j][H] = FewestStep(g, j, H)
    <3> HIDE DEF g
    <3>1. CASE j = i
      BY <2>6, <2>9, <3>1
    <3>2. CASE j # i
      <4>1. j \in i + 1 .. L
        BY <1>1, <2>1, <3>2
      <4> QED
        BY <2>2, <2>8, <2>9, <4>1
    <3> QED
      BY <3>1, <3>2
  <2> HIDE DEF g, L
  <2> QED
    BY <2>7, <2>10
<1> HIDE DEF Good, L
<1>4. L \in Goods /\ \A i \in 0 .. L - 1 : i + 1 \in Goods => i \in Goods
  <2>1. \A i \in 0 .. L - 1 : i \in 0 .. L
    BY <1>1
  <2> QED
    BY <1>1, <1>2, <1>3, <2>1
<1>5. 0 \in Goods
  <2>1. 0 \in 0 .. L
    BY <1>1
  <2> HIDE DEF Goods
  <2> QED
    BY <1>1, <1>4, <2>1, Backwards
<1> QED
  BY <1>5 DEF Good, L

LEMMA FewestIs ==
  ASSUME query \in Seq(Pages), num_frames \in Nat \ {0},
         NEW i \in 0 .. Len(query), NEW H \in SUBSET Bytes
  PROVE  Fewest[i][H] \in Nat /\ Fewest[i][H] = FewestStep(Fewest, i, H)
<1> DEFINE Body(f) == [j \in 0 .. Len(query) |-> [held \in SUBSET Bytes |-> FewestStep(f, j, held)]]
<1>1. Fewest = CHOOSE f : f = Body(f)
  BY Zenon DEF Fewest, FewestStep, Least
<1>2. PICK f \in From(0) : \A j \in 0 .. Len(query), held \in SUBSET Bytes :
            f[j][held] = FewestStep(f, j, held)
  BY FewestExists
<1>3. f = Body(f)
  <2>1. \A j \in 0 .. Len(query) : f[j] \in [SUBSET Bytes -> Nat]
    BY <1>2 DEF From
  <2>2. \A j \in 0 .. Len(query) : f[j] = [held \in SUBSET Bytes |-> FewestStep(f, j, held)]
    BY <1>2, <2>1
  <2> QED
    BY <1>2, <2>2 DEF From
<1>4. Fewest = Body(Fewest)
  <2> HIDE DEF Body
  <2> QED
    BY <1>1, <1>3
<1>5. \A j \in 0 .. Len(query), held \in SUBSET Bytes : Fewest[j][held] = FewestStep(Fewest, j, held)
  <2>1. ASSUME NEW h, h = Body(h)
        PROVE  \A j \in 0 .. Len(query), held \in SUBSET Bytes : h[j][held] = FewestStep(h, j, held)
    <3>1. DOMAIN h = 0 .. Len(query)
      BY <2>1
    <3>2. \A j \in 0 .. Len(query) : h[j] = [held \in SUBSET Bytes |-> FewestStep(h, j, held)]
      BY <2>1, Zenon
    <3> QED
      BY <3>2
  <2> HIDE DEF Body
  <2> QED
    BY <1>4, <2>1
<1>6. \A j \in 0 .. Len(query) : \A held \in SUBSET Bytes : Fewest[j][held] \in Nat
  <2> DEFINE S == {j \in 0 .. Len(query) : \A held \in SUBSET Bytes : Fewest[j][held] \in Nat}
  <2>1. Len(query) \in Nat /\ Len(query) \in 0 .. Len(query)
    OBVIOUS
  <2>2. Len(query) \in S
    <3>1. \A held \in SUBSET Bytes : Fewest[Len(query)][held] = 0
      BY <1>5, <2>1 DEF FewestStep
    <3> QED
      BY <2>1, <3>1
  <2>3. ASSUME NEW j \in 0 .. Len(query) - 1, j + 1 \in S PROVE j \in S
    <3>1. j \in 0 .. Len(query) /\ j < Len(query)
      BY <2>1
    <3>2. \A held \in SUBSET Bytes : FewestStep(Fewest, j, held) \in Nat
      <4> SUFFICES ASSUME NEW held \in SUBSET Bytes PROVE FewestStep(Fewest, j, held) \in Nat
        OBVIOUS
      <4>1. \A J \in SUBSET Bytes : j < Len(query) => Fewest[j + 1][J] \in Nat
        BY <2>3
      <4> QED
        BY <3>1, <4>1, StepType
    <3> QED
      BY <1>5, <3>1, <3>2
  <2>4. \A j \in 0 .. Len(query) : j \in S
    <3> HIDE DEF S
    <3> QED
      BY <2>1, <2>2, <2>3, Backwards
  <2> QED
    BY <2>4
<1> QED
  BY <1>5, <1>6

\* What can be resident.
Held == {H \in SUBSET Bytes : Cardinality(H) <= num_frames}

\* What a miss of p can leave resident.
Leaves(H, p, G) ==
  IF Cardinality(H) < num_frames THEN G = H \cup {p} ELSE \E v \in H : G = (H \ {v}) \cup {p}

LEMMA FewestCases ==
  ASSUME query \in Seq(Pages), num_frames \in Nat \ {0},
         NEW i \in 0 .. Len(query) - 1, NEW H \in SUBSET Bytes
  PROVE  /\ query[i + 1] \in H => Fewest[i][H] = Fewest[i + 1][H]
         /\ query[i + 1] \notin H =>
              /\ \A G : Leaves(H, query[i + 1], G) => Fewest[i][H] <= 1 + Fewest[i + 1][G]
              /\ \E G : Leaves(H, query[i + 1], G) /\ Fewest[i][H] = 1 + Fewest[i + 1][G]
<1> DEFINE p == query[i + 1]
<1>1. i \in 0 .. Len(query) /\ i + 1 \in 0 .. Len(query) /\ i + 1 \in 1 .. Len(query) /\ i # Len(query)
  OBVIOUS
<1>2. p \in Bytes
  BY <1>1, ByteFacts
<1>3. Fewest[i][H] = FewestStep(Fewest, i, H)
  BY <1>1, FewestIs
<1>4. \A J \in SUBSET Bytes : Fewest[i + 1][J] \in Nat
  BY <1>1, FewestIs
<1>5. ASSUME p \in H PROVE Fewest[i][H] = Fewest[i + 1][H]
  BY <1>1, <1>3, <1>5 DEF FewestStep
<1>6. ASSUME p \notin H, Cardinality(H) < num_frames
      PROVE  Fewest[i][H] = 1 + Fewest[i + 1][H \cup {p}]
  BY <1>1, <1>3, <1>6 DEF FewestStep
<1>7. ASSUME p \notin H, ~ Cardinality(H) < num_frames
      PROVE  /\ \A v \in H : Fewest[i][H] <= 1 + Fewest[i + 1][(H \ {v}) \cup {p}]
             /\ \E v \in H : Fewest[i][H] = 1 + Fewest[i + 1][(H \ {v}) \cup {p}]
  <2> DEFINE rest == {Fewest[i + 1][(H \ {v}) \cup {p}] : v \in H}
  <2>1. Fewest[i][H] = 1 + Least(rest)
    BY <1>1, <1>3, <1>7 DEF FewestStep
  <2>2. \A v \in H : (H \ {v}) \cup {p} \in SUBSET Bytes
    BY <1>2
  <2>3. H # {}
    <3>1. ASSUME H = {} PROVE Cardinality(H) = 0
      BY <3>1, FS_EmptySet
    <3>2. 0 < num_frames
      OBVIOUS
    <3> HIDE DEF rest
    <3> QED
      BY <1>7, <3>1, <3>2
  <2>4. rest \in SUBSET Nat /\ rest # {}
    <3>1. \A v \in H : Fewest[i + 1][(H \ {v}) \cup {p}] \in Nat
      BY <1>4, <2>2
    <3> QED
      BY <2>3, <3>1
  <2>5. Least(rest) \in rest /\ Least(rest) \in Nat /\ \A g \in rest : Least(rest) <= g
    <3> HIDE DEF rest
    <3> QED
      BY <2>4, LeastIs
  <2>6. PICK m : m = Least(rest)
    OBVIOUS
  <2>7. m \in rest /\ m \in Nat /\ Fewest[i][H] = 1 + m /\ \A g \in rest : m <= g
    <3> HIDE DEF rest
    <3> QED
      BY <2>1, <2>5, <2>6
  <2>8. \A v \in H : Fewest[i + 1][(H \ {v}) \cup {p}] \in rest /\ Fewest[i + 1][(H \ {v}) \cup {p}] \in Nat
    BY <1>4, <2>2
  <2>9. PICK u \in H : m = Fewest[i + 1][(H \ {u}) \cup {p}]
    BY <2>7
  <2>10. ASSUME NEW v \in H PROVE Fewest[i][H] <= 1 + Fewest[i + 1][(H \ {v}) \cup {p}]
    <3>1. PICK g : g = Fewest[i + 1][(H \ {v}) \cup {p}]
      OBVIOUS
    <3>2. g \in rest /\ g \in Nat
      BY <2>8, <3>1
    <3> HIDE DEF rest
    <3>3. Fewest[i][H] <= 1 + g
      BY <2>7, <3>2
    <3> QED
      BY <3>1, <3>3
  <2> HIDE DEF rest
  <2> QED
    BY <2>7, <2>9, <2>10
<1> HIDE DEF p
<1>8. p \in H => Fewest[i][H] = Fewest[i + 1][H]
  BY <1>5
<1>9. p \notin H => /\ \A G : Leaves(H, p, G) => Fewest[i][H] <= 1 + Fewest[i + 1][G]
                    /\ \E G : Leaves(H, p, G) /\ Fewest[i][H] = 1 + Fewest[i + 1][G]
  <2>1. CASE p \notin H /\ Cardinality(H) < num_frames
    <3>1. PICK J : J = H \cup {p}
      OBVIOUS
    <3>2. J \in SUBSET Bytes /\ \A G : Leaves(H, p, G) <=> G = J
      BY <1>2, <2>1, <3>1 DEF Leaves
    <3>3. Fewest[i][H] = 1 + Fewest[i + 1][J] /\ Fewest[i + 1][J] \in Nat
      BY <1>4, <1>6, <2>1, <3>1, <3>2
    <3>4. Fewest[i][H] <= 1 + Fewest[i + 1][J]
      BY <3>3
    <3> QED
      BY <3>2, <3>3, <3>4, Zenon
  <2>2. CASE p \notin H /\ ~ Cardinality(H) < num_frames
    BY <1>7, <2>2 DEF Leaves
  <2> QED
    BY <2>1, <2>2
<1> QED
  BY <1>8, <1>9 DEF p

LEMMA LeavesHeld ==
  ASSUME num_frames \in Nat \ {0}, NEW H \in Held, NEW p \in Bytes, p \notin H, NEW G, Leaves(H, p, G)
  PROVE  G \in Held /\ p \in G /\ G \subseteq H \cup {p}
<1>1. IsFiniteSet(H) /\ Cardinality(H) \in Nat /\ H \in SUBSET Bytes /\ Cardinality(H) <= num_frames
  BY HeldFinite DEF Held
<1>2. CASE Cardinality(H) < num_frames
  <2>1. G = H \cup {p}
    BY <1>2 DEF Leaves
  <2>2. Cardinality(H \cup {p}) = Cardinality(H) + 1
    BY <1>1, FS_AddElement
  <2>3. Cardinality(G) <= num_frames
    BY <1>1, <1>2, <2>1, <2>2
  <2> QED
    BY <1>1, <2>1, <2>3 DEF Held
<1>3. CASE ~ Cardinality(H) < num_frames
  <2>1. PICK v \in H : G = (H \ {v}) \cup {p}
    BY <1>3 DEF Leaves
  <2>2. IsFiniteSet(H \ {v}) /\ Cardinality(H \ {v}) = Cardinality(H) - 1
    BY <1>1, FS_RemoveElement
  <2>3. Cardinality((H \ {v}) \cup {p}) = Cardinality(H \ {v}) + 1
    BY <2>2, FS_AddElement
  <2>4. Cardinality(G) <= num_frames
    BY <1>1, <2>1, <2>2, <2>3
  <2> QED
    BY <1>1, <2>1, <2>4 DEF Held
<1> QED
  BY <1>2, <1>3

\* Whatever a pager B holds that A does not costs A one miss at most.
LEMMA FewestApart ==
  ASSUME query \in Seq(Pages), num_frames \in Nat \ {0}
  PROVE  \A i \in 0 .. Len(query) : \A A, B \in Held : Fewest[i][A] <= Fewest[i][B] + Cardinality(B \ A)
<1> DEFINE S == {i \in 0 .. Len(query) :
                   \A A, B \in Held : Fewest[i][A] <= Fewest[i][B] + Cardinality(B \ A)}
<1>1. Len(query) \in Nat /\ Len(query) \in 0 .. Len(query)
  OBVIOUS
<1>2. \A H \in Held : H \in SUBSET Bytes /\ IsFiniteSet(H) /\ Cardinality(H) \in Nat /\ Cardinality(H) <= num_frames
  BY HeldFinite DEF Held
<1>3. \A A, B \in Held : IsFiniteSet(B \ A) /\ Cardinality(B \ A) \in Nat
  BY <1>2, HeldFinite
<1>4. Len(query) \in S
  <2>1. \A H \in SUBSET Bytes : Fewest[Len(query)][H] = 0
    BY <1>1, FewestIs DEF FewestStep
  <2>2. ASSUME NEW A \in Held, NEW B \in Held
        PROVE  Fewest[Len(query)][A] <= Fewest[Len(query)][B] + Cardinality(B \ A)
    <3>1. Cardinality(B \ A) \in Nat /\ Fewest[Len(query)][A] = 0 /\ Fewest[Len(query)][B] = 0
      BY <1>2, <1>3, <2>1
    <3>2. PICK d : d = Cardinality(B \ A)
      OBVIOUS
    <3> QED
      BY <3>1, <3>2
  <2> QED
    BY <1>1, <2>2
<1>5. ASSUME NEW i \in 0 .. Len(query) - 1, i + 1 \in S PROVE i \in S
  <2> SUFFICES ASSUME NEW A \in Held, NEW B \in Held
               PROVE  Fewest[i][A] <= Fewest[i][B] + Cardinality(B \ A)
    OBVIOUS
  <2> DEFINE p == query[i + 1]
             d == Cardinality(B \ A)
             c == IF p \in B THEN 0 ELSE 1
  <2>1. i \in 0 .. Len(query) /\ i + 1 \in 0 .. Len(query) /\ i + 1 \in 1 .. Len(query)
    BY <1>1
  <2>2. p \in Bytes
    BY <2>1, ByteFacts
  <2>3. \A H \in Held : Fewest[i][H] \in Nat /\ Fewest[i + 1][H] \in Nat
    BY <1>2, <2>1, FewestIs
  <2>4. \A H, G \in Held : Fewest[i + 1][H] <= Fewest[i + 1][G] + Cardinality(G \ H)
    BY <1>5
  <2>5. PICK G \in Held : p \in G /\ G \subseteq B \cup {p} /\ Fewest[i][B] = c + Fewest[i + 1][G]
                          /\ (p \in B => G = B)
    <3>1. CASE p \in B
      <4>1. Fewest[i][B] = Fewest[i + 1][B]
        BY <1>2, <3>1, FewestCases
      <4> QED
        BY <2>3, <3>1, <4>1
    <3>2. CASE p \notin B
      <4>1. PICK G : Leaves(B, p, G) /\ Fewest[i][B] = 1 + Fewest[i + 1][G]
        BY <1>2, <3>2, FewestCases
      <4>2. G \in Held /\ p \in G /\ G \subseteq B \cup {p}
        BY <2>2, <3>2, <4>1, LeavesHeld
      <4> QED
        BY <3>2, <4>1, <4>2
    <3> QED
      BY <3>1, <3>2
  <2>6. d \in Nat
    BY <1>3
  <2> HIDE DEF p
  <2>7. ASSUME p \in A PROVE Fewest[i][A] <= Fewest[i][B] + d
    <3>1. Fewest[i][A] = Fewest[i + 1][A]
      BY <1>2, <2>7, FewestCases DEF p
    <3>2. G \ A \subseteq B \ A
      BY <2>5, <2>7
    <3>3. Cardinality(G \ A) <= d /\ Cardinality(G \ A) \in Nat
      BY <1>3, <3>2, FS_Subset
    <3>4. Fewest[i + 1][A] <= Fewest[i + 1][G] + Cardinality(G \ A)
      BY <2>4
    <3> HIDE DEF d
    <3> QED
      BY <2>3, <2>5, <2>6, <3>1, <3>3, <3>4
  <2>8. ASSUME p \notin A PROVE Fewest[i][A] <= Fewest[i][B] + d
    <3>1. PICK E : Leaves(A, p, E) /\ G \ E \subseteq (B \ A) \ {p}
      <4>1. CASE Cardinality(A) < num_frames
        <5>1. G \ (A \cup {p}) \subseteq (B \ A) \ {p}
          BY <2>5
        <5> QED
          BY <4>1, <5>1 DEF Leaves
      <4>2. CASE ~ Cardinality(A) < num_frames
        <5>1. PICK x \in A : x \notin G
          <6>1. SUFFICES ASSUME A \subseteq G PROVE FALSE
            OBVIOUS
          <6>2. A \cup {p} \subseteq G
            BY <2>5, <6>1
          <6>3. Cardinality(A \cup {p}) = Cardinality(A) + 1
            BY <1>2, <2>8, FS_AddElement
          <6>4. Cardinality(A \cup {p}) <= Cardinality(G)
            BY <1>2, <6>2, FS_Subset
          <6> HIDE DEF d
          <6> QED
            BY <1>2, <4>2, <6>3, <6>4
        <5>2. G \ ((A \ {x}) \cup {p}) \subseteq (B \ A) \ {p}
          BY <2>5, <5>1
        <5> QED
          BY <4>2, <5>2 DEF Leaves
      <4> QED
        BY <4>1, <4>2
    <3>2. E \in Held /\ Fewest[i][A] <= 1 + Fewest[i + 1][E]
      BY <1>2, <2>2, <2>8, <3>1, LeavesHeld, FewestCases DEF p
    <3>3. Cardinality(G \ E) <= d + c - 1 /\ Cardinality(G \ E) \in Nat
      <4>1. IsFiniteSet(B \ A)
        BY <1>3
      <4>2. Cardinality((B \ A) \ {p}) = IF p \in B \ A THEN d - 1 ELSE d
        BY <4>1, FS_RemoveElement
      <4>3. IsFiniteSet((B \ A) \ {p})
        BY <4>1, FS_RemoveElement
      <4>4. Cardinality(G \ E) <= Cardinality((B \ A) \ {p})
        BY <3>1, <4>3, FS_Subset
      <4>5. Cardinality(G \ E) \in Nat
        BY <1>3, <3>2
      <4> HIDE DEF d
      <4> QED
        BY <2>6, <2>8, <4>2, <4>4, <4>5
    <3>4. Fewest[i + 1][E] <= Fewest[i + 1][G] + Cardinality(G \ E)
      BY <2>4, <3>2
    <3>5. c \in {0, 1}
      OBVIOUS
    <3> HIDE DEF d, c
    <3>6. PICK fa, fb, fe, fg, k :
            /\ fa = Fewest[i][A] /\ fb = Fewest[i][B]
            /\ fe = Fewest[i + 1][E] /\ fg = Fewest[i + 1][G] /\ k = Cardinality(G \ E)
      OBVIOUS
    <3>7. fa \in Nat /\ fb \in Nat /\ fe \in Nat /\ fg \in Nat /\ k \in Nat
      BY <2>3, <3>2, <3>3, <3>6
    <3>8. fa <= 1 + fe /\ fe <= fg + k /\ k <= d + c - 1 /\ fb = c + fg
      BY <2>5, <3>2, <3>3, <3>4, <3>6
    <3>9. fa <= fb + d
      BY <2>6, <3>5, <3>7, <3>8
    <3> QED
      BY <3>6, <3>9
  <2>9. Fewest[i][A] <= Fewest[i][B] + d
    <3> HIDE DEF d
    <3> QED
      BY <2>7, <2>8
  <2> QED
    BY <2>9
<1>6. \A i \in 0 .. Len(query) : i \in S
  <2> HIDE DEF S
  <2> QED
    BY <1>1, <1>4, <1>5, Backwards
<1> QED
  BY <1>6

\* From index i on, w is referenced before v is.
Sooner(i, w, v) == \A k \in i + 1 .. Len(query) : query[k] = v => \E j \in i + 1 .. k : query[j] = w

\* It is better to hold the page that is referenced sooner.
LEMMA FewestExchange ==
  ASSUME query \in Seq(Pages), num_frames \in Nat \ {0}
  PROVE  \A i \in 0 .. Len(query) : \A R \in SUBSET Bytes, w, v \in Bytes :
           w \notin R /\ v \notin R /\ w # v /\ Cardinality(R) < num_frames /\ Sooner(i, w, v)
             => Fewest[i][R \cup {w}] <= Fewest[i][R \cup {v}]
<1> DEFINE Exchanges(i) == \A R \in SUBSET Bytes, w, v \in Bytes :
              w \notin R /\ v \notin R /\ w # v /\ Cardinality(R) < num_frames /\ Sooner(i, w, v)
                => Fewest[i][R \cup {w}] <= Fewest[i][R \cup {v}]
           S == {i \in 0 .. Len(query) : Exchanges(i)}
<1>1. Len(query) \in Nat /\ Len(query) \in 0 .. Len(query)
  OBVIOUS
<1>2. Len(query) \in S
  <2>1. \A H \in SUBSET Bytes : Fewest[Len(query)][H] = 0
    BY <1>1, FewestIs DEF FewestStep
  <2>2. \A R \in SUBSET Bytes, w \in Bytes : R \cup {w} \in SUBSET Bytes
    OBVIOUS
  <2>3. 0 <= 0
    OBVIOUS
  <2>4. Exchanges(Len(query))
    BY <2>1, <2>2, <2>3
  <2> QED
    BY <1>1, <2>4
<1>3. ASSUME NEW i \in 0 .. Len(query) - 1, i + 1 \in S PROVE i \in S
  <2> HIDE DEF Exchanges
  <2>1. i \in 0 .. Len(query) /\ i + 1 \in 0 .. Len(query) /\ i + 1 \in 1 .. Len(query) /\ Exchanges(i + 1)
    BY <1>1, <1>3
  <2>2. SUFFICES ASSUME NEW R \in SUBSET Bytes, NEW w \in Bytes, NEW v \in Bytes,
                        w \notin R, v \notin R, w # v, Cardinality(R) < num_frames, Sooner(i, w, v)
                 PROVE  Fewest[i][R \cup {w}] <= Fewest[i][R \cup {v}]
    BY <2>1 DEF Exchanges
  <2> DEFINE p == query[i + 1]
             A == R \cup {w}
             B == R \cup {v}
  <2>3. p \in Bytes
    BY <2>1, ByteFacts
  <2>4. IsFiniteSet(R) /\ Cardinality(R) \in Nat
    BY HeldFinite
  <2>5. Cardinality(A) = Cardinality(R) + 1 /\ Cardinality(B) = Cardinality(R) + 1
    BY <2>2, <2>4, FS_AddElement
  <2>6. A \in Held /\ B \in Held /\ A \in SUBSET Bytes /\ B \in SUBSET Bytes
    <3>1. A \in SUBSET Bytes /\ B \in SUBSET Bytes
      OBVIOUS
    <3> HIDE DEF A, B
    <3>2. Cardinality(A) <= num_frames /\ Cardinality(B) <= num_frames
      BY <2>2, <2>4, <2>5
    <3> QED
      BY <3>1, <3>2 DEF Held
  <2>7. \A H \in SUBSET Bytes : Fewest[i][H] \in Nat /\ Fewest[i + 1][H] \in Nat
    BY <2>1, FewestIs
  <2>8. p # v
    <3>1. SUFFICES ASSUME p = v PROVE FALSE
      OBVIOUS
    <3>2. PICK j \in i + 1 .. i + 1 : query[j] = w
      BY <2>1, <2>2, <3>1 DEF Sooner
    <3>3. j = i + 1
      BY <2>1
    <3> QED
      BY <2>2, <3>1, <3>2, <3>3
  <2>9. p # w => Sooner(i + 1, w, v)
    <3>1. SUFFICES ASSUME p # w, NEW k \in (i + 1) + 1 .. Len(query), query[k] = v
                   PROVE  \E j \in (i + 1) + 1 .. k : query[j] = w
      BY DEF Sooner
    <3>2. PICK j \in i + 1 .. k : query[j] = w
      BY <2>1, <2>2, <3>1 DEF Sooner
    <3>3. j # i + 1
      BY <3>1, <3>2
    <3>4. j \in (i + 1) + 1 .. k
      BY <2>1, <3>3
    <3> QED
      BY <3>2, <3>4
  <2> HIDE DEF p
  <2>10. CASE p \in R
    <3>1. Fewest[i][A] = Fewest[i + 1][A] /\ Fewest[i][B] = Fewest[i + 1][B]
      BY <2>6, <2>10, FewestCases DEF p
    <3>2. Fewest[i + 1][R \cup {w}] <= Fewest[i + 1][R \cup {v}]
      BY <2>1, <2>2, <2>9, <2>10 DEF Exchanges
    <3> QED
      BY <3>1, <3>2
  <2>11. CASE p = w
    <3>1. p \in A /\ p \notin B
      BY <2>2, <2>11
    <3>2. Fewest[i][A] = Fewest[i + 1][A]
      BY <2>6, <3>1, FewestCases DEF p
    <3>3. PICK G : Leaves(B, p, G) /\ Fewest[i][B] = 1 + Fewest[i + 1][G]
      BY <2>6, <3>1, FewestCases DEF p
    <3>4. G \in Held /\ G \subseteq B \cup {p}
      BY <2>3, <2>6, <3>1, <3>3, LeavesHeld
    <3>5. Fewest[i + 1][A] <= Fewest[i + 1][G] + Cardinality(G \ A)
      BY <2>1, <2>6, <3>4, FewestApart
    <3>6. Cardinality(G \ A) \in Nat /\ Cardinality(G \ A) <= 1
      <4>1. G \ A \subseteq {v}
        BY <2>11, <3>4
      <4>2. IsFiniteSet({v}) /\ Cardinality({v}) = 1
        BY FS_Singleton
      <4>3. Cardinality(G \ A) <= Cardinality({v}) /\ IsFiniteSet(G \ A)
        BY <4>1, <4>2, FS_Subset
      <4>4. Cardinality(G \ A) \in Nat
        BY <4>3, FS_CardinalityType
      <4> HIDE DEF A
      <4> QED
        BY <4>2, <4>3, <4>4
    <3>7. Fewest[i + 1][A] \in Nat /\ Fewest[i + 1][G] \in Nat
      BY <2>6, <2>7, <3>4 DEF Held
    <3>8. PICK a, b, g, k : a = Fewest[i + 1][A] /\ b = Fewest[i][B] /\ g = Fewest[i + 1][G] /\ k = Cardinality(G \ A)
      OBVIOUS
    <3>9. a \in Nat /\ g \in Nat /\ k \in Nat /\ k <= 1 /\ a <= g + k /\ b = 1 + g
      BY <3>3, <3>5, <3>6, <3>7, <3>8
    <3>10. a <= b
      BY <3>9
    <3> QED
      BY <3>2, <3>8, <3>10
  <2>12. CASE p \notin R /\ p # w
    <3>1. p \notin A /\ p \notin B
      BY <2>8, <2>12
    <3>2. PICK G : Leaves(B, p, G) /\ Fewest[i][B] = 1 + Fewest[i + 1][G]
      BY <2>6, <3>1, FewestCases DEF p
    <3>3. G \in Held /\ Fewest[i + 1][G] \in Nat
      BY <2>3, <2>6, <2>7, <3>1, <3>2, LeavesHeld DEF Held
    <3>4. PICK E \in SUBSET Bytes : Leaves(A, p, E) /\ Fewest[i + 1][E] <= Fewest[i + 1][G]
      <4>1. ASSUME NEW Q \in SUBSET Bytes, w \notin Q, v \notin Q, Cardinality(Q) < num_frames
            PROVE  Fewest[i + 1][Q \cup {w}] <= Fewest[i + 1][Q \cup {v}]
        BY <2>1, <2>2, <2>9, <2>12, <4>1 DEF Exchanges
      <4>2. CASE Cardinality(R) + 1 < num_frames
        <5> DEFINE Q == R \cup {p}
        <5>1. G = B \cup {p} /\ Leaves(A, p, A \cup {p})
          <6> HIDE DEF A, B
          <6> QED
            BY <2>5, <3>2, <4>2 DEF Leaves
        <5>2. A \cup {p} = Q \cup {w} /\ G = Q \cup {v}
          BY <5>1
        <5>3. Cardinality(Q) = Cardinality(R) + 1
          BY <2>4, <2>12, FS_AddElement
        <5>4. Q \in SUBSET Bytes /\ w \notin Q /\ v \notin Q
          BY <2>2, <2>3, <2>8, <2>12
        <5>5. Fewest[i + 1][Q \cup {w}] <= Fewest[i + 1][Q \cup {v}]
          <6> HIDE DEF Q, A, B
          <6> QED
            BY <4>1, <4>2, <5>3, <5>4
        <5>6. A \cup {p} \in SUBSET Bytes
          BY <2>3, <2>6
        <5>7. Fewest[i + 1][A \cup {p}] <= Fewest[i + 1][G]
          BY <5>2, <5>5, Zenon
        <5> QED
          BY <5>1, <5>6, <5>7
      <4>3. CASE ~ Cardinality(R) + 1 < num_frames
        <5>1. PICK x \in B : G = (B \ {x}) \cup {p}
          <6> HIDE DEF A, B
          <6> QED
            BY <2>5, <3>2, <4>3 DEF Leaves
        <5>2. \A y \in A : Leaves(A, p, (A \ {y}) \cup {p})
          <6> HIDE DEF A, B
          <6> QED
            BY <2>5, <4>3 DEF Leaves
        <5>3. CASE x = v
          <6>1. (A \ {w}) \cup {p} = G
            BY <2>2, <5>1, <5>3
          <6>2. Leaves(A, p, G)
            BY <5>2, <6>1
          <6>3. Fewest[i + 1][G] <= Fewest[i + 1][G]
            BY <3>3
          <6>4. G \in SUBSET Bytes
            BY <3>3 DEF Held
          <6> QED
            BY <6>2, <6>3, <6>4
        <5>4. CASE x # v
          <6> DEFINE Q == (R \ {x}) \cup {p}
          <6>1. x \in R
            BY <5>4
          <6>2. (A \ {x}) \cup {p} = Q \cup {w} /\ G = Q \cup {v}
            BY <2>2, <5>1, <6>1
          <6>3. IsFiniteSet(R \ {x}) /\ Cardinality(R \ {x}) = Cardinality(R) - 1
            BY <2>4, <6>1, FS_RemoveElement
          <6>4. Cardinality(Q) = Cardinality(R \ {x}) + 1
            BY <2>12, <6>3, FS_AddElement
          <6>5. Q \in SUBSET Bytes /\ w \notin Q /\ v \notin Q
            BY <2>2, <2>3, <2>8, <2>12
          <6>6. Cardinality(Q) < num_frames
            <7> HIDE DEF Q
            <7> QED
              BY <2>2, <2>4, <6>3, <6>4
          <6>7. Fewest[i + 1][Q \cup {w}] <= Fewest[i + 1][Q \cup {v}]
            <7> HIDE DEF Q, A, B
            <7> QED
              BY <4>1, <6>5, <6>6
          <6>8. Fewest[i + 1][(A \ {x}) \cup {p}] <= Fewest[i + 1][G]
            BY <6>2, <6>7, Zenon
          <6>9. (A \ {x}) \cup {p} \in SUBSET Bytes
            BY <2>3, <2>6
          <6>10. Leaves(A, p, (A \ {x}) \cup {p})
            BY <5>2, <6>1
          <6> QED
            BY <6>8, <6>9, <6>10
        <5> QED
          BY <5>3, <5>4
      <4> QED
        BY <4>2, <4>3
    <3>5. Fewest[i][A] <= 1 + Fewest[i + 1][E]
      BY <2>6, <3>1, <3>4, FewestCases DEF p
    <3>6. Fewest[i + 1][E] \in Nat /\ Fewest[i][A] \in Nat
      BY <2>6, <2>7
    <3> HIDE DEF A, B
    <3>7. Fewest[i][A] <= Fewest[i][B]
      BY <3>2, <3>3, <3>4, <3>5, <3>6
    <3> QED
      BY <3>7 DEF A, B
  <2> QED
    BY <2>10, <2>11, <2>12
<1>4. \A i \in 0 .. Len(query) : i \in S
  <2> HIDE DEF S
  <2> QED
    BY <1>1, <1>2, <1>3, Backwards
<1> QED
  BY <1>4

\* The search ahead finds the next reference, if there is one.
LEMMA NextUseFinds ==
  ASSUME query \in Seq(Pages), Len(query) <= Never, NEW p, NEW k \in Nat
  PROVE  /\ \A j \in (k + 1) + 1 .. Len(query) : query[j] = p => NextUse(p, k) < j
         /\ NextUse(p, k) < Len(query) => /\ NextUse(p, k) + 1 \in (k + 1) + 1 .. Len(query)
                                          /\ query[NextUse(p, k) + 1] = p
<1> DEFINE later == {j \in k + 1 .. Len(query) - 1 : query[j + 1] = p}
<1>1. Len(query) \in Nat /\ Never \in Nat
  BY DEF Never
<1>2. \A j \in (k + 1) + 1 .. Len(query) : query[j] = p => j - 1 \in later
  <2> TAKE j \in (k + 1) + 1 .. Len(query)
  <2>1. j - 1 \in k + 1 .. Len(query) - 1 /\ (j - 1) + 1 = j
    BY <1>1
  <2> QED
    BY <2>1
<1>3. CASE later = {}
  <2>1. NextUse(p, k) = Never
    BY <1>3 DEF NextUse
  <2>2. \A j \in (k + 1) + 1 .. Len(query) : query[j] # p
    BY <1>2, <1>3
  <2> HIDE DEF later
  <2> QED
    BY <1>1, <2>1, <2>2
<1>4. CASE later # {}
  <2>1. later \in SUBSET Nat
    BY <1>1
  <2>2. \E j \in later : \A i \in later : j <= i
    BY <1>4, <2>1, SmallestNumber
  <2>3. NextUse(p, k) \in later /\ \A i \in later : NextUse(p, k) <= i
    BY <1>4, <2>2 DEF NextUse
  <2>4. PICK u : u = NextUse(p, k)
    OBVIOUS
  <2>5. u \in k + 1 .. Len(query) - 1 /\ query[u + 1] = p
    BY <2>3, <2>4
  <2>6. \A j \in (k + 1) + 1 .. Len(query) : query[j] = p => u < j
    <3> TAKE j \in (k + 1) + 1 .. Len(query)
    <3>1. query[j] = p => u <= j - 1
      BY <1>2, <2>3, <2>4
    <3> QED
      BY <1>1, <2>5, <3>1
  <2>7. u + 1 \in (k + 1) + 1 .. Len(query)
    BY <1>1, <2>5
  <2> QED
    BY <2>4, <2>5, <2>6, <2>7
<1> QED
  BY <1>3, <1>4

\* All pages in memory are referenced before the victim is.
LEMMA VictimLast ==
  ASSUME Framed, num_frames > 0, Filled(num_frames), query \in Seq(Pages), Len(query) <= Never,
         NEW k \in Nat, NEW x \in Resident
  PROVE  Sooner(k + 1, x, frames[MinVictim(k)])
<1>1. PICK v : v = frames[MinVictim(k)]
  OBVIOUS
<1>2. PICK i \in Slots : x = frames[i]
  BY DEF Resident, Framed
<1>3. NextUse(x, k) <= NextUse(v, k)
  BY <1>1, <1>2, MinFindsVictim
<1>4. NextUse(x, k) \in Nat /\ NextUse(v, k) \in Nat /\ Len(query) \in Nat
  BY NextUseType
<1>5. SUFFICES ASSUME NEW j \in (k + 1) + 1 .. Len(query), query[j] = v
               PROVE  \E m \in (k + 1) + 1 .. j : query[m] = x
  BY <1>1 DEF Sooner
<1>6. NextUse(v, k) < j
  BY <1>5, NextUseFinds
<1>7. NextUse(x, k) < j /\ NextUse(x, k) < Len(query)
  BY <1>3, <1>4, <1>6
<1>8. NextUse(x, k) + 1 \in (k + 1) + 1 .. Len(query) /\ query[NextUse(x, k) + 1] = x
  BY <1>7, NextUseFinds
<1>9. NextUse(x, k) + 1 \in (k + 1) + 1 .. j
  BY <1>4, <1>7, <1>8
<1> QED
  BY <1>8, <1>9

\* Evicting it leaves a pager that needs as few misses as any other.
LEMMA VictimBest ==
  ASSUME Framed, num_frames \in Nat \ {0}, Filled(num_frames),
         query \in Seq(Pages), Len(query) <= Never,
         NEW k \in Nat, k < Len(query), query[k + 1] \notin Resident, NEW v, v = frames[MinVictim(k)]
  PROVE  /\ v \in Resident
         /\ Fewest[k][Resident] = 1 + Fewest[k + 1][(Resident \ {v}) \cup {query[k + 1]}]
<1> DEFINE H == Resident
           p == query[k + 1]
           G == (H \ {v}) \cup {p}
<1>1. k \in 0 .. Len(query) - 1 /\ k + 1 \in 0 .. Len(query) /\ k + 1 \in 1 .. Len(query) /\ Len(query) \in Nat
  OBVIOUS
<1>2. p \in Bytes
  BY <1>1, ByteFacts
<1>3. H \in SUBSET Bytes /\ IsFiniteSet(H) /\ Cardinality(H) = num_frames
  <2>1. H \in SUBSET Bytes
    BY DEF Framed, Resident
  <2>2. PICK c : c = num_frames
    OBVIOUS
  <2>3. IsFiniteSet(H) /\ Cardinality(H) = c
    BY <2>2, ResidentCount
  <2> QED
    BY <2>1, <2>2, <2>3
<1>4. v \in H
  <2>1. MinVictim(k) \in Slots
    BY MinFindsVictim
  <2>2. PICK m \in Slots : m = MinVictim(k)
    BY <2>1
  <2>3. frames[m] # FrameEmpty /\ DOMAIN frames = Slots
    BY <2>2 DEF Filled, Framed, Slots
  <2> QED
    BY <2>2, <2>3 DEF Resident
<1>5. \A x \in H : Sooner(k + 1, x, v)
  BY VictimLast
<1> HIDE DEF H, p
<1>6. p \notin H
  BY DEF H, p
<1>7. ~ Cardinality(H) < num_frames
  BY <1>3
<1>8. Leaves(H, p, G)
  BY <1>4, <1>7 DEF Leaves
<1>9. Fewest[k][H] <= 1 + Fewest[k + 1][G]
  BY <1>1, <1>3, <1>6, <1>8, FewestCases DEF p
<1>10. PICK u \in H : Fewest[k][H] = 1 + Fewest[k + 1][(H \ {u}) \cup {p}]
  <2>1. \E D : Leaves(H, p, D) /\ Fewest[k][H] = 1 + Fewest[k + 1][D]
    BY <1>1, <1>3, <1>6, FewestCases DEF p
  <2> QED
    BY <1>7, <2>1 DEF Leaves
<1>11. G \in SUBSET Bytes /\ (H \ {u}) \cup {p} \in SUBSET Bytes
  BY <1>2, <1>3
<1>12. Fewest[k + 1][G] \in Nat /\ Fewest[k + 1][(H \ {u}) \cup {p}] \in Nat
  BY <1>1, <1>11, FewestIs
<1>13. Fewest[k + 1][G] <= Fewest[k + 1][(H \ {u}) \cup {p}]
  <2>1. CASE u = v
    BY <1>12, <2>1
  <2>2. CASE u # v
    <3> DEFINE R == (H \ {u, v}) \cup {p}
    <3>1. G = R \cup {u} /\ (H \ {u}) \cup {p} = R \cup {v}
      BY <1>4, <1>10, <2>2
    <3>2. R \in SUBSET Bytes /\ u \in Bytes /\ v \in Bytes /\ u \notin R /\ v \notin R
      BY <1>2, <1>3, <1>4, <1>6, <1>10
    <3>3. Cardinality(R) < num_frames
      <4>1. IsFiniteSet(H \ {u}) /\ Cardinality(H \ {u}) = num_frames - 1
        BY <1>3, <1>10, FS_RemoveElement
      <4>2. v \in H \ {u} /\ (H \ {u}) \ {v} = H \ {u, v}
        BY <1>4, <2>2
      <4>3. IsFiniteSet(H \ {u, v}) /\ Cardinality(H \ {u, v}) = num_frames - 1 - 1
        <5> DEFINE J == H \ {u}
        <5> HIDE DEF J
        <5>1. IsFiniteSet(J \ {v}) /\ Cardinality(J \ {v}) = Cardinality(J) - 1
          BY <4>1, <4>2, FS_RemoveElement DEF J
        <5>2. J \ {v} = H \ {u, v} /\ Cardinality(J) = num_frames - 1
          BY <4>1, <4>2 DEF J
        <5> QED
          BY <5>1, <5>2
      <4>4. Cardinality(R) = num_frames - 1 - 1 + 1
        BY <1>6, <4>3, FS_AddElement
      <4> HIDE DEF R
      <4> QED
        BY <4>4
    <3>4. Sooner(k + 1, u, v)
      BY <1>5, <1>10
    <3> HIDE DEF R, G
    <3>5. Fewest[k + 1][R \cup {u}] <= Fewest[k + 1][R \cup {v}]
      BY <1>1, <2>2, <3>2, <3>3, <3>4, FewestExchange
    <3> QED
      BY <3>1, <3>5
  <2> QED
    BY <2>1, <2>2
<1>14. Fewest[k][H] = 1 + Fewest[k + 1][G]
  <2> HIDE DEF G
  <2> QED
    BY <1>9, <1>10, <1>12, <1>13
<1> QED
  BY <1>4, <1>14 DEF H, p

-----------------------------------------------------------------------------
(* MIN.                                                                      *)

\* What a page that is loaded leaves resident.
LEMMA LoadLeaves ==
  ASSUME Framed, NEW i, NEW p \in Pages, LoadAt(i, p)
  PROVE  Resident' = (Resident \ {frames[i]}) \cup {p}
<1>1. p # FrameEmpty /\ i \in Slots /\ frames' = [frames EXCEPT ![i] = p] /\ p \notin Resident
  BY ByteFacts DEF LoadAt
<1>2. /\ frames \in [Slots -> Bytes]
      /\ \A j, k \in Slots : frames[j] = frames[k] /\ frames[j] # FrameEmpty => j = k
  BY DEF Framed
<1>3. Resident = {frames[j] : j \in Slots} \ {FrameEmpty}
  BY <1>2 DEF Resident
<1>4. Resident' = {frames'[j] : j \in Slots} \ {FrameEmpty}
  BY <1>1, <1>2 DEF Resident
<1>5. \A j \in Slots : frames'[j] = IF j = i THEN p ELSE frames[j]
  BY <1>1, <1>2
<1>6. ASSUME NEW x \in Resident' PROVE x \in (Resident \ {frames[i]}) \cup {p}
  <2>1. PICK j \in Slots : x = frames'[j] /\ x # FrameEmpty
    BY <1>4
  <2>2. CASE j = i
    BY <1>5, <2>1, <2>2
  <2>3. CASE j # i
    <3>1. x = frames[j] /\ x # frames[i]
      BY <1>1, <1>2, <1>5, <2>1, <2>3
    <3> QED
      BY <1>3, <2>1, <3>1
  <2> QED
    BY <2>2, <2>3
<1>7. ASSUME NEW x \in (Resident \ {frames[i]}) \cup {p} PROVE x \in Resident'
  <2>1. CASE x = p
    BY <1>1, <1>4, <1>5, <2>1
  <2>2. CASE x # p
    <3>1. x \in Resident /\ x # frames[i]
      BY <1>7, <2>2
    <3>2. PICK j \in Slots : x = frames[j] /\ x # FrameEmpty
      BY <1>3, <3>1
    <3>3. frames'[j] = x
      BY <1>5, <3>1, <3>2
    <3> QED
      BY <1>4, <3>2, <3>3
  <2> QED
    BY <2>1, <2>2
<1> QED
  BY <1>6, <1>7

\* The misses made and the fewest still to come.
MinBest ==
  /\ Len(query) <= MaxQuery
  /\ algo = "min" /\ Active => misses + Fewest[Served][Resident] = Fewest[0][{}]

LEMMA FewestStays ==
  ASSUME num_frames' = num_frames, query' = query
  PROVE  Fewest' = Fewest
<1> DEFINE Body(f) == [i \in 0 .. Len(query) |-> [held \in SUBSET Bytes |-> FewestStep(f, i, held)]]
           Later(f) == [i \in 0 .. Len(query') |-> [held \in SUBSET Bytes |-> FewestStep(f, i, held)']]
<1>1. Fewest = CHOOSE f : f = Body(f)
  BY Zenon DEF Fewest, FewestStep, Least
<1>2. Fewest' = CHOOSE f : f = Later(f)
  BY Zenon DEF Fewest, FewestStep, Least
<1>3. \A f, i, held : FewestStep(f, i, held)' = FewestStep(f, i, held)
  BY DEF FewestStep
<1>4. \A f : Later(f) = Body(f)
  BY <1>3
<1> HIDE DEF Later, Body
<1> QED
  BY <1>1, <1>2, <1>4

LEMMA MinStaysBest ==
  ASSUME Inv, Min, MinBest, MaxQuery <= Never
  PROVE  MinBest'
<1>1. /\ pc = "access" /\ algo = "min" /\ step < Len(query) /\ num_frames > 0
      /\ Page \in Pages /\ query \in Seq(Pages) /\ step \in Nat
      /\ Framed /\ Control /\ Counting
      /\ num_frames \in Nat \ {0} /\ num_frames <= Byte \div 2
  BY Accessing DEF Min
<1>2. MinAccess(Page, step) /\ Show /\ UNCHANGED <<algo, step, query>> /\ pc' \in {"show", "wait"}
  BY DEF Min, Show
<1>3. MaxQuery \in Nat /\ Len(query) \in Nat /\ Len(query) <= Never /\ Never \in Nat
  BY <1>1, ArgsAssumption DEF MinBest, Never
<1>4. Served = step /\ Served' = step + 1 /\ Page = query[step + 1] /\ step \in 0 .. Len(query) - 1
  BY <1>1, <1>2, <1>3 DEF Served, Page
<1>5. misses + Fewest[step][Resident] = Fewest[0][{}] /\ misses \in Nat
  BY <1>1, <1>4 DEF MinBest, Active, Counting
<1>6. SUFFICES num_frames' = num_frames /\ misses' + Fewest[step + 1][Resident'] = Fewest[0][{}]
  <2>1. num_frames' = num_frames => Fewest' = Fewest
    BY <1>2, FewestStays
  <2>2. Len(query') <= MaxQuery
    BY <1>2 DEF MinBest
  <2> QED
    BY <1>4, <1>6, <2>1, <2>2 DEF MinBest
<1>7. Resident \in SUBSET Bytes
  BY <1>1 DEF Framed, Resident
<1>8. \A H \in SUBSET Bytes : Fewest[step][H] \in Nat /\ Fewest[step + 1][H] \in Nat
  BY <1>1, <1>4, FewestIs
<1>9. CASE \E i : HitAt(i, Page)
  <2>1. PICK i : HitAt(i, Page)
    BY <1>9
  <2>2. UNCHANGED <<num_frames, frames, misses>> /\ i \in Slots /\ frames[i] = Page
    BY <2>1 DEF HitAt, Hit
  <2>3. Resident' = Resident
    BY <2>2 DEF Resident
  <2>4. Page \in Resident
    <3>1. Page # FrameEmpty /\ DOMAIN frames = Slots
      BY <1>1, ByteFacts DEF Framed
    <3> QED
      BY <2>2, <3>1 DEF Resident
  <2>5. Fewest[step][Resident] = Fewest[step + 1][Resident]
    BY <1>1, <1>4, <1>7, <2>4, FewestCases
  <2> QED
    BY <1>5, <2>2, <2>3, <2>5
<1>10. CASE \E c : c < num_frames /\ Filled(c) /\ LoadAt(c, Page) /\ misses' = misses + 1
  <2>1. PICK c : c < num_frames /\ Filled(c) /\ LoadAt(c, Page) /\ misses' = misses + 1
    BY <1>10
  <2>2. num_frames' = num_frames /\ Page \notin Resident
    BY <2>1 DEF LoadAt
  <2>3. frames[c] = FrameEmpty
    <3>1. c \in Slots /\ ~ c < c
      BY <1>1, <2>1 DEF LoadAt, Slots
    <3> QED
      BY <2>1, <3>1 DEF Filled
  <2>4. Resident' = Resident \cup {Page}
    <3>1. Resident' = (Resident \ {frames[c]}) \cup {Page}
      BY <1>1, <2>1, LoadLeaves
    <3>2. FrameEmpty \notin Resident
      BY DEF Resident
    <3> QED
      BY <2>3, <3>1, <3>2
  <2>5. Cardinality(Resident) < num_frames
    BY <1>1, <2>1, ResidentCount
  <2>6. PICK G : Leaves(Resident, Page, G) /\ Fewest[step][Resident] = 1 + Fewest[step + 1][G]
    BY <1>1, <1>4, <1>7, <2>2, FewestCases
  <2>7. G = Resident'
    BY <2>4, <2>5, <2>6 DEF Leaves
  <2>8. G \in SUBSET Bytes
    BY <1>1, <1>7, <2>4, <2>7, ByteFacts
  <2>9. Fewest[step + 1][G] \in Nat
    BY <1>8, <2>8
  <2> QED
    BY <1>5, <2>1, <2>2, <2>6, <2>7, <2>9
<1>11. CASE \E i : i = MinVictim(step) /\ Filled(num_frames) /\ LoadAt(i, Page) /\ misses' = misses + 1
  <2>1. PICK i : i = MinVictim(step) /\ Filled(num_frames) /\ LoadAt(i, Page) /\ misses' = misses + 1
    BY <1>11
  <2>2. num_frames' = num_frames /\ Page \notin Resident
    BY <2>1 DEF LoadAt
  <2>3. PICK v : v = frames[i]
    OBVIOUS
  <2>4. Resident' = (Resident \ {v}) \cup {Page}
    BY <1>1, <2>1, <2>3, LoadLeaves
  <2>5. v \in Resident /\ Fewest[step][Resident] = 1 + Fewest[step + 1][(Resident \ {v}) \cup {Page}]
    BY <1>1, <1>3, <1>4, <2>1, <2>2, <2>3, VictimBest
  <2>6. (Resident \ {v}) \cup {Page} \in SUBSET Bytes
    BY <1>1, <1>7, ByteFacts
  <2>7. Fewest[step + 1][(Resident \ {v}) \cup {Page}] \in Nat
    BY <1>8, <2>6
  <2>8. PICK f : f = Fewest[step + 1][(Resident \ {v}) \cup {Page}]
    OBVIOUS
  <2>9. f \in Nat /\ Fewest[step][Resident] = 1 + f /\ Fewest[step + 1][Resident'] = f
    BY <2>4, <2>5, <2>7, <2>8
  <2> QED
    BY <1>5, <2>1, <2>2, <2>9
<1> QED
  BY <1>1, <1>2, <1>9, <1>10, <1>11, MinForms

LEMMA BestNext ==
  ASSUME Inv, [Next]_vars, MinBest, MaxQuery <= Never
  PROVE  MinBest'
<1>1. CASE ParseArgs
  <2>1. Len(query') <= MaxQuery
    <3>1. \A typed \in Seq(Int) : Len(ParseQuery(typed)) <= MaxQuery
      <4> SUFFICES ASSUME NEW typed \in Seq(Int) PROVE Len(ParseQuery(typed)) <= MaxQuery
        OBVIOUS
      <4>1. PICK n \in Nat : n = (IF Len(typed) < MaxQuery THEN Len(typed) ELSE MaxQuery) /\ n <= MaxQuery
        BY ArgsAssumption
      <4>2. ParseQuery(typed) = [k \in 1 .. n |-> Uint8(typed[k])]
        BY <4>1 DEF ParseQuery
      <4>3. Len(ParseQuery(typed)) = n
        BY <4>2
      <4> QED
        BY <4>1, <4>3
    <3>2. query' = query \/ \E a \in Args : query' = ParseQuery(a.typed)
      BY <1>1 DEF ParseArgs
    <3> QED
      BY <3>1, <3>2, ArgsAssumption DEF MinBest
  <2>2. algo' # "min"
    BY <1>1 DEF ParseArgs, Inv, Control
  <2> QED
    BY <2>1, <2>2 DEF MinBest
<1>2. CASE RunOne
  <2>1. /\ misses' = 0 /\ step' = 0 /\ pc' = "access" /\ frames' = EmptyFrames(num_frames)
        /\ UNCHANGED <<num_frames, query>>
    BY <1>2 DEF RunOne, SchedulerReset
  <2>2. Served' = 0
    BY <2>1 DEF Served
  <2>3. Resident' = {}
    BY <2>1 DEF Resident, EmptyFrames
  <2>4. num_frames \in Nat \ {0} /\ query \in Seq(Pages)
    BY <1>2, ByteFacts DEF RunOne, Inv, Control, Framed
  <2>5. Fewest' = Fewest
    BY <2>1, FewestStays
  <2>6. Fewest[0][{}] \in Nat
    <3>1. 0 \in 0 .. Len(query) /\ {} \in SUBSET Bytes
      BY <2>4
    <3> QED
      BY <2>4, <3>1, FewestIs
  <2> QED
    BY <2>1, <2>2, <2>3, <2>5, <2>6 DEF MinBest
<1>3. CASE Min
  BY <1>3, MinStaysBest
<1>4. CASE Fifo \/ Lru \/ ScAccess \/ ScBegin
  BY <1>4 DEF Fifo, Lru, ScAccess, ScBegin, Show, Referencing, MinBest
<1>5. CASE Sweep \/ ScEnd
  BY <1>5 DEF Sweep, ScEnd, Show, Inv, Control, loopVars, MinBest
<1>6. CASE Exit
  BY <1>6 DEF Exit, Active, MinBest
<1>7. CASE PrintRow \/ Enter \/ Results \/ Stopped \/ UNCHANGED vars
  <2>1. UNCHANGED <<ramVars, query, algo>>
    BY <1>7 DEF PrintRow, Enter, Results, Stopped, vars, loopVars
  <2>2. Fewest' = Fewest /\ Resident' = Resident /\ misses' = misses
    BY <2>1, FewestStays DEF Resident, ramVars
  <2>3. Active' => Served' = Served /\ Active
    BY <1>7 DEF PrintRow, Enter, Results, Stopped, vars, loopVars, Served, Active
  <2> QED
    BY <2>1, <2>2, <2>3 DEF MinBest
<1> QED
  BY <1>1, <1>2, <1>3, <1>4, <1>5, <1>6, <1>7 DEF Next

\* MIN is optimal: no way of choosing the victims serves the references with
\* fewer misses, and after each of its steps the least number is still within
\* reach (Documentation.md:120; scheduler.c:155-177), for every number of frames
\* and every reference sequence.  The key of a page that is not used again is
\* beyond every index, as MAX_QUERY is (main.c:18).
THEOREM MinIsOptimal ==
  ASSUME FitsBytes, MaxQuery <= Never
  PROVE  Spec => []MinStaysOptimal
<1>1. Init => MinBest
  BY ArgsAssumption DEF Init, MinBest, Active
<1>2. Inv /\ [Next]_vars /\ MinBest => MinBest'
  BY BestNext
<1>3. MinBest => MinStaysOptimal
  BY DEF MinBest, MinStaysOptimal, Active
<1> QED
  BY <1>1, <1>2, <1>3, Invariance, PTL DEF Spec
=============================================================================
