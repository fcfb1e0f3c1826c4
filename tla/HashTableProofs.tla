-------------------------- MODULE HashTableProofs ---------------------------
(***************************************************************************)
(* Proofs about HashTable, for any keys, values and hashes, any capacity   *)
(* and any number of failures of memory.                                   *)
(***************************************************************************)
EXTENDS HashTable, FiniteSetTheorems, SequenceTheorems, WellFoundedInduction, TLAPS

-----------------------------------------------------------------------------
(* Numbers                                                                 *)

Less == {p \in Nat \X Nat : p[1] < p[2]}

(* A set of numbers has a smallest one.                                    *)
LEMMA SmallestNumber ==
  ASSUME NEW S \in SUBSET Nat, S # {}
  PROVE  \E m \in S : \A k \in S : m <= k
<1>1. IsWellFoundedOn(Less, Nat)
  <2>1. OpToRel(<, Nat) = Less
    BY Zenon DEF OpToRel, Less
  <2> QED
    BY <2>1, NatLessThanWellFounded, Zenon
<1>2. PICK m \in S : \A k \in S : <<k, m>> \notin Less
  BY <1>1, WFMin
<1>3. ASSUME NEW k \in S PROVE m <= k
  <2>1. k \in Nat /\ m \in Nat /\ <<k, m>> \notin Less
    BY <1>2
  <2> QED
    BY <2>1 DEF Less
<1> QED
  BY <1>3

(* A number is a multiple and a remainder in one way only.                 *)
LEMMA Division ==
  ASSUME NEW a \in Nat, NEW n \in Nat \ {0}
  PROVE  a % n \in 0 .. n - 1 /\ \E t \in Nat : a = n * t + (a % n)
<1>1. a = n * (a \div n) + (a % n) /\ a \div n \in Nat /\ a % n \in 0 .. n - 1
  OBVIOUS
<1> QED
  BY <1>1

LEMMA Remainder ==
  \A n \in Nat \ {0}, t \in Nat, r \in Nat : r < n => (n * t + r) % n = r
OBVIOUS

LEMMA SameMultiple ==
  ASSUME NEW n \in Nat \ {0}, NEW s \in Int, NEW t \in Int, NEW c \in Int,
         n * s = n * t + c, -n < c, c < n
  PROVE  s = t
<1>1. CASE s = t
  BY <1>1
<1>2. CASE s > t
  <2>1. PICK d \in Nat : s = t + 1 + d
    <3>1. s - t - 1 \in Nat /\ s = t + 1 + (s - t - 1)
      BY <1>2
    <3> QED
      BY <3>1
  <2>2. n * s = n * t + n + n * d
    BY <2>1
  <2>3. n * d \in Nat /\ n * t \in Int
    BY <2>1
  <2> QED
    BY <2>2, <2>3
<1>3. CASE s < t
  <2>1. PICK d \in Nat : t = s + 1 + d
    <3>1. t - s - 1 \in Nat /\ t = s + 1 + (t - s - 1)
      BY <1>3
    <3> QED
      BY <3>1
  <2>2. n * t = n * s + n + n * d
    BY <2>1
  <2>3. n * d \in Nat /\ n * s \in Int
    BY <2>1
  <2> QED
    BY <2>2, <2>3
<1> QED
  BY <1>1, <1>2, <1>3

(* A probe sequence goes to every slot, and to each once.                  *)
LEMMA Apart ==
  ASSUME NEW n \in Nat \ {0}, NEW h \in Nat, NEW d \in 0 .. n - 1, NEW e \in 0 .. n - 1,
         (h + d) % n = (h + e) % n
  PROVE  d = e
<1>0. h + d \in Nat /\ h + e \in Nat
  OBVIOUS
<1>1. PICK s \in Nat : h + d = n * s + ((h + d) % n)
  BY <1>0, Division
<1>2. PICK t \in Nat : h + e = n * t + ((h + e) % n)
  BY <1>0, Division
<1>3. (h + d) % n \in Int
  BY <1>0, Division
<1>4. n * s \in Int /\ n * t \in Int
  OBVIOUS
<1>5. n * s = n * t + (d - e)
  BY <1>1, <1>2, <1>3, <1>4
<1>6. d - e \in Int /\ -n < d - e /\ d - e < n
  OBVIOUS
<1>7. s = t
  BY <1>5, <1>6, SameMultiple
<1> QED
  BY <1>4, <1>5, <1>7

LEMMA Reached ==
  ASSUME NEW n \in Nat \ {0}, NEW h \in Nat, NEW i \in 0 .. n - 1
  PROVE  \E d \in 0 .. n - 1 : (h + d) % n = i
<1>1. PICK r \in 0 .. n - 1, t \in Nat : h = n * t + r
  BY Division
<1>2. n * t \in Nat /\ n * (t + 1) = n * t + n
  OBVIOUS
<1>3. CASE r <= i
  <2>1. h + (i - r) = n * t + i /\ i - r \in 0 .. n - 1 /\ i \in Nat /\ i < n
    BY <1>1, <1>2, <1>3
  <2> QED
    BY <2>1, Remainder
<1>4. CASE r > i
  <2>1. h + (i - r + n) = n * (t + 1) + i /\ i - r + n \in 0 .. n - 1 /\ i \in Nat /\ i < n
    BY <1>1, <1>2, <1>4
  <2>2. t + 1 \in Nat
    OBVIOUS
  <2> QED
    BY <2>1, <2>2, Remainder
<1> QED
  BY <1>1, <1>3, <1>4

-----------------------------------------------------------------------------
(* Tables                                                                  *)

Item == [key : Keys, value : Values]

Hashing == hash \in [Keys -> Nat]

Filled(es) == {i \in Slots(es) : At(es, i).key # NULL}

(* What a table holds.                                                     *)
Items(es) == {At(es, i) : i \in Filled(es)}

Holds(es, k) == \E e \in Items(es) : e.key = k

(* The probing loop passes slots that other keys fill before it comes to   *)
(* the one at distance d.                                                  *)
Passes(es, k, d) ==
  \A c \in Slots(es) : c < d => At(es, ProbeSlot(es, k, c)).key \notin {k, NULL}

(* Every key fills one slot, and its probing loop stops there.             *)
Table(es) ==
  /\ es \in Seq(Item \cup {Vacant}) /\ Len(es) # 0
  /\ \A i, j \in Filled(es) : At(es, i).key = At(es, j).key => i = j
  /\ \A i \in Filled(es) : \E d \in Slots(es) :
       ProbeSlot(es, At(es, i).key, d) = i /\ Passes(es, At(es, i).key, d)

Roomfor(es) == Cardinality(Items(es)) < Len(es)

LEMMA Cells ==
  ASSUME NEW es \in Seq(Item \cup {Vacant}), NEW i \in Slots(es)
  PROVE  /\ Len(es) \in Nat \ {0} /\ i + 1 \in 1 .. Len(es) /\ i \in Nat
         /\ At(es, i) \in Item \cup {Vacant}
         /\ At(es, i).key # NULL => At(es, i) \in Item
         /\ At(es, i).key = NULL => At(es, i) = Vacant
<1>1. Len(es) \in Nat \ {0} /\ i + 1 \in 1 .. Len(es) /\ i \in Nat
  BY DEF Slots
<1>2. At(es, i) \in Item \cup {Vacant}
  BY <1>1 DEF At
<1>3. \A e \in Item \cup {Vacant} : /\ e.key # NULL => e \in Item
                                    /\ e.key = NULL => e = Vacant
  BY TableAssumption DEF Item, Vacant
<1> QED
  BY <1>1, <1>2, <1>3

LEMMA ProbeSlots ==
  ASSUME Hashing, NEW es \in Seq(Item \cup {Vacant}), Len(es) # 0, NEW k \in Keys
  PROVE  /\ \A d \in Slots(es) : ProbeSlot(es, k, d) \in Slots(es)
         /\ \A d, e \in Slots(es) : ProbeSlot(es, k, d) = ProbeSlot(es, k, e) => d = e
         /\ \A i \in Slots(es) : \E d \in Slots(es) : ProbeSlot(es, k, d) = i
<1>1. Len(es) \in Nat \ {0} /\ hash[k] \in Nat
  BY DEF Hashing
<1>2. \A d \in Slots(es) : hash[k] + d \in Nat
  BY <1>1 DEF Slots
<1>3. \A d \in Slots(es) : ProbeSlot(es, k, d) \in Slots(es)
  BY <1>1, <1>2, Division DEF ProbeSlot, Slots
<1>4. \A d, e \in Slots(es) : ProbeSlot(es, k, d) = ProbeSlot(es, k, e) => d = e
  BY <1>1, Apart DEF ProbeSlot, Slots
<1>5. \A i \in Slots(es) : \E d \in Slots(es) : ProbeSlot(es, k, d) = i
  BY <1>1, Reached DEF ProbeSlot, Slots
<1> QED
  BY <1>3, <1>4, <1>5

LEMMA SlotsFinite ==
  ASSUME NEW es \in Seq(Item \cup {Vacant})
  PROVE  IsFiniteSet(Slots(es)) /\ Cardinality(Slots(es)) = Len(es)
<1>1. Len(es) \in Nat
  OBVIOUS
<1>2. \A n \in Nat : n - 1 \in Int /\ (IF 0 > n - 1 THEN 0 ELSE n - 1 - 0 + 1) = n
  OBVIOUS
<1> DEFINE m == Len(es) - 1
<1>3. m \in Int /\ 0 \in Int /\ (IF 0 > m THEN 0 ELSE m - 0 + 1) = Len(es)
  BY <1>1, <1>2
<1>4. Slots(es) = 0 .. m
  BY DEF Slots
<1> HIDE DEF m
<1>5. IsFiniteSet(0 .. m) /\ Cardinality(0 .. m) = IF 0 > m THEN 0 ELSE m - 0 + 1
  BY <1>3, FS_Interval
<1> QED
  BY <1>3, <1>4, <1>5

(* A key that fills one slot only counts as one item.                      *)
LEMMA ItemsCount ==
  ASSUME NEW es, Table(es)
  PROVE  /\ IsFiniteSet(Filled(es)) /\ IsFiniteSet(Items(es))
         /\ Cardinality(Items(es)) = Cardinality(Filled(es)) /\ Cardinality(Items(es)) \in Nat
         /\ Items(es) \subseteq Item
         /\ Cardinality(Filled(es)) + Cardinality(Slots(es) \ Filled(es)) = Len(es)
<1>1. /\ IsFiniteSet(Slots(es)) /\ Cardinality(Slots(es)) = Len(es)
      /\ Filled(es) \in SUBSET Slots(es)
  BY SlotsFinite DEF Table, Filled
<1>2. IsFiniteSet(Filled(es)) /\ Cardinality(Filled(es)) \in Nat
  BY <1>1, FS_Subset, FS_CardinalityType
<1> DEFINE f == [i \in Filled(es) |-> At(es, i)]
<1>3. f \in Bijection(Filled(es), Items(es))
  <2>1. f \in Surjection(Filled(es), Items(es))
    BY DEF Surjection, Items
  <2>2. \A i, j \in Filled(es) : f[i] = f[j] => i = j
    BY DEF Table
  <2> HIDE DEF f
  <2> QED
    BY <2>1, <2>2 DEF Bijection, Injection, Surjection, IsInjective
<1> HIDE DEF f
<1>4. IsFiniteSet(Items(es)) /\ Cardinality(Items(es)) = Cardinality(Filled(es))
  BY <1>2, <1>3, FS_Bijection DEF ExistsBijection
<1>5. Items(es) \subseteq Item
  BY <1>1, Cells DEF Items, Filled, Table
<1>6. Cardinality(Slots(es) \ Filled(es)) = Len(es) - Cardinality(Filled(es))
  <2>1. Slots(es) \cap Filled(es) = Filled(es)
    BY <1>1
  <2>2. Cardinality(Slots(es) \ Filled(es))
          = Cardinality(Slots(es)) - Cardinality(Slots(es) \cap Filled(es))
    BY <1>1, FS_Difference
  <2> QED
    BY <1>1, <2>1, <2>2
<1>7. Len(es) \in Nat
  BY DEF Table
<1> QED
  BY <1>2, <1>4, <1>5, <1>6, <1>7

(* A table with fewer items than slots has a vacant slot.                  *)
LEMMA Vacancy ==
  ASSUME NEW es, Table(es), Roomfor(es)
  PROVE  \E i \in Slots(es) : At(es, i).key = NULL
<1>1. Filled(es) # Slots(es)
  <2>1. Cardinality(Slots(es)) = Len(es) /\ Len(es) \in Nat
    BY SlotsFinite DEF Table
  <2>2. Cardinality(Items(es)) = Cardinality(Filled(es)) /\ Cardinality(Items(es)) < Len(es)
    BY ItemsCount DEF Roomfor
  <2> QED
    BY <2>1, <2>2
<1> QED
  BY <1>1 DEF Filled

(* Where the probing loop stops: at the key, or at a vacant slot if the    *)
(* key is nowhere in the table.                                            *)
LEMMA ProbeStops ==
  ASSUME Hashing, NEW es, Table(es), Roomfor(es), NEW k \in Keys
  PROVE  /\ Probe(es, k) \in Slots(es)
         /\ \E d \in Slots(es) : ProbeSlot(es, k, d) = Probe(es, k) /\ Passes(es, k, d)
         /\ At(es, Probe(es, k)).key \in {k, NULL}
         /\ \A i \in Slots(es) : At(es, i).key = k => i = Probe(es, k)
<1>1. es \in Seq(Item \cup {Vacant}) /\ Len(es) # 0
  BY DEF Table
<1>2. Ends(es, k) # {} /\ Ends(es, k) \in SUBSET Slots(es) /\ Slots(es) \in SUBSET Nat
  <2>1. PICK i \in Slots(es) : At(es, i).key = NULL
    BY Vacancy
  <2>2. PICK d \in Slots(es) : ProbeSlot(es, k, d) = i
    BY <1>1, ProbeSlots
  <2> QED
    BY <2>1, <2>2 DEF Ends, Slots
<1>3. \E d \in Ends(es, k) : \A e \in Ends(es, k) : d <= e
  BY <1>2, SmallestNumber
<1>4. PICK d \in Ends(es, k) : /\ \A e \in Ends(es, k) : d <= e
                               /\ Probe(es, k) = ProbeSlot(es, k, d)
  BY <1>3 DEF Probe
<1>5. /\ d \in Slots(es) /\ d \in Nat
      /\ Probe(es, k) \in Slots(es) /\ At(es, Probe(es, k)).key \in {k, NULL}
  BY <1>1, <1>2, <1>4, ProbeSlots DEF Ends
<1>6. Passes(es, k, d)
  <2> SUFFICES ASSUME NEW c \in Slots(es), c < d, c \in Ends(es, k) PROVE FALSE
    BY DEF Passes, Ends
  <2> QED
    BY <1>2, <1>4, <1>5
<1>7. ASSUME NEW i \in Slots(es), At(es, i).key = k PROVE i = Probe(es, k)
  <2>1. i \in Filled(es)
    BY <1>7, TableAssumption DEF Filled
  <2>2. PICK c \in Slots(es) : ProbeSlot(es, k, c) = i /\ Passes(es, k, c)
    BY <1>7, <2>1 DEF Table
  <2>3. c \in Ends(es, k)
    BY <1>7, <2>2 DEF Ends
  <2>4. ~(d < c)
    BY <1>4, <1>5, <2>2 DEF Passes
  <2>5. c = d
    BY <1>2, <1>4, <1>5, <2>3, <2>4
  <2> QED
    BY <1>4, <2>2, <2>5
<1> QED
  BY <1>4, <1>5, <1>6, <1>7

(* ht_get by what the table holds.                                         *)
LEMMA GetsItem ==
  ASSUME Hashing, NEW es, Table(es), Roomfor(es), NEW k \in Keys
  PROVE  LET v == At(es, Probe(es, k)).value
         IN  /\ v \in Values => [key |-> k, value |-> v] \in Items(es)
             /\ v \notin Values => v = NULL /\ ~Holds(es, k)
             /\ \A e \in Items(es) : e.key = k => e.value = v /\ v \in Values
<1> DEFINE p == Probe(es, k)
<1>1. /\ p \in Slots(es) /\ At(es, p).key \in {k, NULL}
      /\ \A i \in Slots(es) : At(es, i).key = k => i = p
  BY ProbeStops
<1>2. NULL \notin Values /\ NULL # k
  BY TableAssumption
<1> HIDE DEF p
<1>3. /\ At(es, p).key # NULL => At(es, p) \in Item
      /\ At(es, p).key = NULL => At(es, p) = Vacant
  BY <1>1, Cells DEF Table
<1>4. \A e \in Items(es) : e.key = k => e = At(es, p)
  BY <1>1 DEF Items, Filled
<1>5. Items(es) \subseteq Item
  BY ItemsCount
<1>6. CASE At(es, p).key = NULL
  <2>1. At(es, p).value = NULL
    BY <1>3, <1>6 DEF Vacant
  <2>2. ~Holds(es, k)
    BY <1>2, <1>4, <1>6 DEF Holds
  <2> QED
    BY <1>2, <2>1, <2>2 DEF Holds, p
<1>7. CASE At(es, p).key # NULL
  <2>1. At(es, p).key = k /\ At(es, p) \in Item /\ At(es, p).value \in Values
    BY <1>1, <1>3, <1>7 DEF Item
  <2>2. At(es, p) = [key |-> k, value |-> At(es, p).value]
    BY <2>1 DEF Item
  <2>3. At(es, p) \in Items(es)
    BY <1>1, <1>7 DEF Items, Filled
  <2> QED
    BY <1>4, <2>1, <2>2, <2>3 DEF p
<1> QED
  BY <1>6, <1>7

-----------------------------------------------------------------------------
(* What the operations make of a table                                     *)

LEMMA NewIsTable ==
  ASSUME NEW n \in Nat \ {0}
  PROVE  /\ Table(NewTable(n)) /\ Len(NewTable(n)) = n
         /\ Items(NewTable(n)) = {} /\ Cardinality(Items(NewTable(n))) = 0
<1> DEFINE es == NewTable(n)
<1>1. es \in Seq(Item \cup {Vacant}) /\ Len(es) = n /\ \A i \in 1 .. n : es[i] = Vacant
  BY DEF NewTable
<1> HIDE DEF es
<1>2. Filled(es) = {}
  <2>1. \A i \in 0 .. n - 1 : i + 1 \in 1 .. n
    OBVIOUS
  <2>2. \A i \in Slots(es) : At(es, i) = Vacant
    BY <1>1, <2>1 DEF Slots, At
  <2> QED
    BY <2>2 DEF Filled, Vacant
<1>3. Table(es)
  BY <1>1, <1>2 DEF Table
<1>4. Items(es) = {}
  BY <1>2 DEF Items
<1> QED
  BY <1>1, <1>3, <1>4, FS_EmptySet DEF es

(* Setting an entry replaces the item with its key, or adds it.            *)
LEMMA SetsItem ==
  ASSUME Hashing, NEW es, Table(es), Roomfor(es), NEW k \in Keys, NEW v \in Values
  PROVE  LET new == HtSetEntry(es, k, v)
         IN  /\ Table(new) /\ Len(new) = Len(es)
             /\ Items(new) = {e \in Items(es) : e.key # k} \cup {[key |-> k, value |-> v]}
             /\ Cardinality(Items(new)) =
                  IF Holds(es, k) THEN Cardinality(Items(es)) ELSE Cardinality(Items(es)) + 1
<1> DEFINE new == HtSetEntry(es, k, v)
           item == [key |-> k, value |-> v]
<1>1. PICK p \in Slots(es), d \in Slots(es) :
        /\ p = Probe(es, k) /\ ProbeSlot(es, k, d) = p /\ Passes(es, k, d)
        /\ At(es, p).key \in {k, NULL}
        /\ \A i \in Slots(es) : At(es, i).key = k => i = p
  BY ProbeStops
<1>2. es \in Seq(Item \cup {Vacant}) /\ Len(es) \in Nat \ {0} /\ p + 1 \in 1 .. Len(es)
  BY <1>1, Cells DEF Table
<1>3. item \in Item /\ item.key = k /\ item.value = v /\ k # NULL
  BY TableAssumption DEF Item
<1>4. /\ new = [es EXCEPT ![p + 1] = item]
      /\ new \in Seq(Item \cup {Vacant}) /\ Len(new) = Len(es)
  <2>1. new = [es EXCEPT ![p + 1] = item]
    BY <1>1 DEF HtSetEntry
  <2> HIDE DEF new, item
  <2>2. \A x \in Item \cup {Vacant} : /\ [es EXCEPT ![p + 1] = x] \in Seq(Item \cup {Vacant})
                                      /\ Len([es EXCEPT ![p + 1] = x]) = Len(es)
    BY <1>2
  <2> QED
    BY <1>3, <2>1, <2>2
<1> HIDE DEF new, item
<1>5. Slots(new) = Slots(es)
  BY <1>4 DEF Slots
<1>6. \A i \in Slots(es) : At(new, i) = IF i = p THEN item ELSE At(es, i)
  <2> TAKE i \in Slots(es)
  <2>1. i + 1 \in 1 .. Len(es) /\ (i + 1 = p + 1 <=> i = p) /\ DOMAIN es = 1 .. Len(es)
    BY <1>1, <1>2 DEF Slots
  <2> QED
    BY <1>4, <2>1 DEF At
<1>7. \A c, key : ProbeSlot(new, key, c) = ProbeSlot(es, key, c)
  BY <1>4 DEF ProbeSlot
<1>8. Filled(new) = Filled(es) \cup {p}
  BY <1>1, <1>3, <1>5, <1>6 DEF Filled
<1>9. ASSUME NEW i \in Filled(es), i # p PROVE At(es, i).key # k
  BY <1>1, <1>9 DEF Filled
<1>10. \A i, j \in Filled(new) : At(new, i).key = At(new, j).key => i = j
  <2> SUFFICES ASSUME NEW i \in Filled(new), NEW j \in Filled(new), At(new, i).key = At(new, j).key
               PROVE  i = j
    OBVIOUS
  <2>1. i \in Slots(es) /\ j \in Slots(es)
    BY <1>5 DEF Filled
  <2>2. CASE i # p /\ j # p
    BY <1>6, <1>8, <2>1, <2>2 DEF Table
  <2>3. CASE i = p \/ j = p
    BY <1>3, <1>6, <1>8, <1>9, <2>1, <2>3
  <2> QED
    BY <2>2, <2>3
<1>11. ASSUME NEW i \in Filled(new)
       PROVE  \E c \in Slots(new) : /\ ProbeSlot(new, At(new, i).key, c) = i
                                    /\ Passes(new, At(new, i).key, c)
  <2>1. i \in Slots(es)
    BY <1>5 DEF Filled
  <2>2. CASE i = p
    <3>1. At(new, i).key = k
      BY <1>3, <1>6, <2>1, <2>2
    <3>2. ASSUME NEW c \in Slots(es), c < d
          PROVE  At(new, ProbeSlot(es, k, c)).key \notin {k, NULL}
      <4>1. c # d
        BY <3>2 DEF Slots
      <4>2. ProbeSlot(es, k, c) \in Slots(es) /\ ProbeSlot(es, k, c) # p
        BY <1>1, <1>2, <4>1, ProbeSlots
      <4>3. At(es, ProbeSlot(es, k, c)).key \notin {k, NULL}
        BY <1>1, <3>2 DEF Passes
      <4> QED
        BY <1>6, <4>2, <4>3
    <3>3. Passes(new, k, d)
      BY <1>5, <1>7, <3>2 DEF Passes
    <3> QED
      BY <1>1, <1>5, <1>7, <2>2, <3>1, <3>3
  <2>3. CASE i # p
    <3>1. i \in Filled(es) /\ At(new, i) = At(es, i)
      BY <1>6, <1>8, <2>1, <2>3
    <3>2. PICK key : key = At(es, i).key
      OBVIOUS
    <3>3. PICK c \in Slots(es) : ProbeSlot(es, key, c) = i /\ Passes(es, key, c)
      BY <3>1, <3>2 DEF Table
    <3>4. key \in Keys /\ key # k
      <4>1. At(es, i) \in Item
        BY <1>2, <2>1, <3>1, Cells DEF Filled
      <4> QED
        BY <1>9, <2>3, <3>1, <3>2, <4>1 DEF Item
    <3>5. ASSUME NEW b \in Slots(es), b < c
          PROVE  At(new, ProbeSlot(es, key, b)).key \notin {key, NULL}
      <4>1. ProbeSlot(es, key, b) \in Slots(es)
        BY <1>2, <3>4, ProbeSlots
      <4>2. At(es, ProbeSlot(es, key, b)).key \notin {key, NULL}
        BY <3>3, <3>5 DEF Passes
      <4> QED
        BY <1>3, <1>6, <3>4, <4>1, <4>2
    <3>6. Passes(new, key, c)
      BY <1>5, <1>7, <3>5 DEF Passes
    <3> QED
      BY <1>5, <1>7, <3>1, <3>2, <3>3, <3>6
  <2> QED
    BY <2>2, <2>3
<1>12. Table(new)
  BY <1>2, <1>4, <1>10, <1>11 DEF Table
<1>13. Items(new) = {e \in Items(es) : e.key # k} \cup {item}
  <2>1. ASSUME NEW e \in Items(new) PROVE e \in {x \in Items(es) : x.key # k} \cup {item}
    <3>1. PICK i \in Filled(new) : e = At(new, i)
      BY DEF Items
    <3>2. i \in Slots(es)
      BY <1>5 DEF Filled
    <3> QED
      BY <1>6, <1>8, <1>9, <3>1, <3>2 DEF Items
  <2>2. ASSUME NEW e \in Items(es), e.key # k PROVE e \in Items(new)
    <3>1. PICK i \in Filled(es) : e = At(es, i)
      BY DEF Items
    <3>2. i \in Slots(es)
      BY DEF Filled
    <3>3. i # p
      <4>1. At(es, p).key = NULL \/ At(es, p).key = k
        BY <1>1
      <4> QED
        BY <2>2, <3>1, <4>1 DEF Filled
    <3> QED
      BY <1>6, <1>8, <3>1, <3>2, <3>3 DEF Items
  <2>3. item \in Items(new)
    BY <1>1, <1>6, <1>8 DEF Items
  <2> QED
    BY <2>1, <2>2, <2>3
<1>14. Cardinality(Items(new)) =
         IF Holds(es, k) THEN Cardinality(Items(es)) ELSE Cardinality(Items(es)) + 1
  <2>1. /\ Cardinality(Items(new)) = Cardinality(Filled(new)) /\ IsFiniteSet(Filled(es))
        /\ Cardinality(Items(es)) = Cardinality(Filled(es))
    BY <1>12, ItemsCount
  <2>2. p \in Filled(es) <=> Holds(es, k)
    <3>1. p \in Filled(es) => At(es, p) \in Items(es) /\ At(es, p).key = k
      BY <1>1 DEF Filled, Items
    <3>2. Holds(es, k) => p \in Filled(es)
      <4>1. ASSUME NEW e \in Items(es), e.key = k PROVE p \in Filled(es)
        <5>1. PICK i \in Filled(es) : e = At(es, i)
          BY DEF Items
        <5> QED
          BY <1>9, <4>1, <5>1
      <4> QED
        BY <4>1 DEF Holds
    <3> QED
      BY <3>1, <3>2 DEF Holds
  <2>3. CASE p \in Filled(es)
    <3>1. Filled(new) = Filled(es)
      BY <1>8, <2>3
    <3> QED
      BY <2>1, <2>2, <2>3, <3>1
  <2>4. CASE p \notin Filled(es)
    <3>1. Cardinality(Filled(new)) = Cardinality(Filled(es)) + 1
      BY <1>8, <2>1, <2>4, FS_AddElement
    <3> QED
      BY <2>1, <2>2, <2>4, <3>1
  <2> QED
    BY <2>3, <2>4
<1> QED
  BY <1>4, <1>12, <1>13, <1>14 DEF new, item

-----------------------------------------------------------------------------
(* The loop of ht_expand after m slots.                                    *)
Moved(es, f, m) ==
  f = [n \in 0 .. m |->
         IF n = 0 THEN NewTable(2 * Len(es))
         ELSE IF es[n].key = NULL THEN f[n - 1]
         ELSE HtSetEntry(f[n - 1], es[n].key, es[n].value)]

LEMMA MovedExists ==
  ASSUME NEW es, Len(es) \in Nat
  PROVE  \E f : Moved(es, f, Len(es))
<1> DEFINE bad == {m \in 0 .. Len(es) : ~\E f : Moved(es, f, m)}
<1> SUFFICES ASSUME bad # {} PROVE FALSE
  OBVIOUS
<1>1. bad \in SUBSET Nat
  OBVIOUS
<1>2. PICK m \in bad : \A b \in bad : m <= b
  <2> HIDE DEF bad
  <2> QED
    BY <1>1, SmallestNumber
<1>3. m \in 0 .. Len(es) /\ m \in Nat
  OBVIOUS
<1>4. m # 0
  <2> DEFINE g == [n \in 0 .. 0 |-> NewTable(2 * Len(es))]
  <2>1. Moved(es, g, 0)
    BY DEF Moved
  <2> QED
    BY <2>1
<1>5. PICK f : Moved(es, f, m - 1)
  <2>1. m - 1 \in 0 .. Len(es) /\ ~(m <= m - 1)
    BY <1>3, <1>4
  <2>2. m - 1 \notin bad
    <3> HIDE DEF bad
    <3> QED
      BY <1>2, <2>1
  <2> QED
    BY <2>1, <2>2
<1> DEFINE next == IF es[m].key = NULL THEN f[m - 1]
                   ELSE HtSetEntry(f[m - 1], es[m].key, es[m].value)
           g == [n \in 0 .. m |-> IF n = m THEN next ELSE f[n]]
<1>6. ASSUME NEW n \in 0 .. m
      PROVE  g[n] = IF n = 0 THEN NewTable(2 * Len(es))
                    ELSE IF es[n].key = NULL THEN g[n - 1]
                    ELSE HtSetEntry(g[n - 1], es[n].key, es[n].value)
  <2>1. n # 0 => n - 1 \in 0 .. m /\ n - 1 # m
    BY <1>3
  <2>2. CASE n = m
    <3>1. g[n - 1] = f[n - 1]
      BY <1>4, <2>1, <2>2
    <3> HIDE DEF g
    <3>2. g[n] = next
      BY <1>3, <2>2 DEF g
    <3> QED
      BY <1>4, <2>2, <3>1, <3>2
  <2>3. CASE n # m
    <3>1. n \in 0 .. m - 1 /\ g[n] = f[n]
      BY <1>3, <2>3
    <3>2. n # 0 => g[n - 1] = f[n - 1]
      BY <2>1
    <3> HIDE DEF g, next
    <3>3. f[n] = IF n = 0 THEN NewTable(2 * Len(es))
                 ELSE IF es[n].key = NULL THEN f[n - 1]
                 ELSE HtSetEntry(f[n - 1], es[n].key, es[n].value)
      BY <1>5, <3>1 DEF Moved
    <3> QED
      BY <3>1, <3>2, <3>3
  <2> QED
    BY <2>2, <2>3
<1>7. g = [n \in 0 .. m |-> g[n]]
  OBVIOUS
<1> HIDE DEF g
<1>8. Moved(es, g, m)
  BY <1>6, <1>7 DEF Moved
<1> QED
  BY <1>8

LEMMA ExpandMoves ==
  ASSUME NEW es, Len(es) \in Nat
  PROVE  \E f : Moved(es, f, Len(es)) /\ HtExpand(es) = f[Len(es)]
<1>1. HtExpand(es) = (CHOOSE f : Moved(es, f, Len(es)))[Len(es)]
  BY DEF HtExpand, Moved
<1> QED
  BY <1>1, MovedExists

(* The items in the first n slots.                                         *)
First(es, n) == {es[j] : j \in {i \in 1 .. n : es[i].key # NULL}}

(* The expanded table has the same items, whatever collides in it.         *)
LEMMA Expanded ==
  ASSUME Hashing, NEW es, Table(es)
  PROVE  /\ Table(HtExpand(es)) /\ Len(HtExpand(es)) = 2 * Len(es)
         /\ Items(HtExpand(es)) = Items(es)
<1>1. es \in Seq(Item \cup {Vacant}) /\ Len(es) \in Nat \ {0}
  BY DEF Table
<1>2. PICK f : Moved(es, f, Len(es)) /\ HtExpand(es) = f[Len(es)]
  BY <1>1, ExpandMoves
<1>3. \A n \in 0 .. Len(es) :
        f[n] = IF n = 0 THEN NewTable(2 * Len(es))
               ELSE IF es[n].key = NULL THEN f[n - 1]
               ELSE HtSetEntry(f[n - 1], es[n].key, es[n].value)
  BY <1>2 DEF Moved
<1> DEFINE Good(n) == /\ Table(f[n]) /\ Len(f[n]) = 2 * Len(es)
                      /\ Items(f[n]) = First(es, n) /\ Cardinality(Items(f[n])) <= n
           bad == {n \in 0 .. Len(es) : ~Good(n)}
<1>4. Good(0)
  <2>1. 2 * Len(es) \in Nat \ {0}
    BY <1>1
  <2>2. First(es, 0) = {}
    BY DEF First
  <2>3. f[0] = NewTable(2 * Len(es))
    BY <1>1, <1>3
  <2> HIDE DEF Good
  <2>4. /\ Table(f[0]) /\ Len(f[0]) = 2 * Len(es)
        /\ Items(f[0]) = {} /\ Cardinality(Items(f[0])) = 0
    BY <2>1, <2>3, NewIsTable
  <2> QED
    BY <2>2, <2>4 DEF Good
<1>5. ASSUME NEW n \in 1 .. Len(es), Good(n - 1)
      PROVE  Good(n)
  <2>1. n \in 0 .. Len(es) /\ n # 0 /\ n - 1 \in Nat /\ n - 1 < 2 * Len(es)
    BY <1>1
  <2>2. \A i \in 1 .. n : i = n \/ i \in 1 .. n - 1
    OBVIOUS
  <2>3. \A i \in 1 .. n - 1 : i \in 1 .. n /\ i # n /\ i - 1 \in Slots(es)
    BY <1>1 DEF Slots
  <2>4. n - 1 \in Slots(es) /\ At(es, n - 1) = es[n]
    BY <1>1 DEF Slots, At
  <2>5. CASE es[n].key = NULL
    <3>1. First(es, n) = First(es, n - 1)
      BY <2>2, <2>3, <2>5 DEF First
    <3>2. f[n] = f[n - 1]
      BY <1>3, <2>1, <2>5
    <3>3. Cardinality(Items(f[n - 1])) \in Nat
      BY <1>5, ItemsCount
    <3> QED
      BY <1>5, <2>1, <3>1, <3>2, <3>3
  <2>6. CASE es[n].key # NULL
    <3>1. PICK k \in Keys, v \in Values : es[n] = [key |-> k, value |-> v]
      <4>1. es[n] \in Item
        BY <1>1, <2>4, <2>6, Cells
      <4> QED
        BY <4>1 DEF Item
    <3>2. PICK before : before = f[n - 1]
      OBVIOUS
    <3>3. f[n] = HtSetEntry(before, k, v)
      BY <1>3, <2>1, <2>6, <3>1, <3>2
    <3>4. /\ Table(before) /\ Len(before) = 2 * Len(es) /\ Items(before) = First(es, n - 1)
          /\ Cardinality(Items(before)) <= n - 1
      BY <1>5, <3>2
    <3> HIDE DEF Good
    <3>5. Roomfor(before) /\ Cardinality(Items(before)) \in Nat
      <4>1. Cardinality(Items(before)) \in Nat
        BY <3>4, ItemsCount
      <4> QED
        BY <1>1, <2>1, <3>4, <4>1 DEF Roomfor
    <3>6. /\ Table(f[n]) /\ Len(f[n]) = Len(before)
          /\ Items(f[n]) = {e \in Items(before) : e.key # k} \cup {[key |-> k, value |-> v]}
          /\ Cardinality(Items(f[n])) =
               IF Holds(before, k) THEN Cardinality(Items(before)) ELSE Cardinality(Items(before)) + 1
      BY <3>3, <3>4, <3>5, SetsItem
    <3>7. \A e \in Items(before) : e.key # k
      <4> SUFFICES ASSUME NEW i \in 1 .. n - 1, es[i].key # NULL, es[i].key = k PROVE FALSE
        BY <3>4 DEF First
      <4>1. i - 1 \in Slots(es) /\ At(es, i - 1) = es[i] /\ i # n
        BY <1>1, <2>3 DEF At
      <4>2. i - 1 \in Filled(es) /\ n - 1 \in Filled(es) /\ At(es, i - 1).key = At(es, n - 1).key
        BY <2>4, <2>6, <3>1, <4>1 DEF Filled
      <4>3. i - 1 = n - 1
        BY <4>2 DEF Table
      <4> QED
        BY <4>1, <4>3
    <3>8. First(es, n) = First(es, n - 1) \cup {es[n]}
      <4>1. \A i \in 1 .. n : es[i].key # NULL => i = n \/ i \in {j \in 1 .. n - 1 : es[j].key # NULL}
        BY <2>2
      <4>2. n \in 1 .. n
        BY <1>1
      <4>3. {j \in 1 .. n : es[j].key # NULL} = {j \in 1 .. n - 1 : es[j].key # NULL} \cup {n}
        BY <2>3, <2>6, <4>1, <4>2
      <4> QED
        BY <4>3, Zenon DEF First
    <3>9. Items(f[n]) = First(es, n)
      <4>1. {e \in Items(before) : e.key # k} = Items(before)
        BY <3>7
      <4>2. Items(before) = First(es, n - 1) /\ [key |-> k, value |-> v] = es[n]
        BY <3>1, <3>4
      <4> QED
        BY <3>6, <3>8, <4>1, <4>2
    <3>10. Cardinality(Items(f[n])) <= n
      BY <2>1, <3>4, <3>5, <3>6
    <3> QED
      BY <3>4, <3>6, <3>9, <3>10 DEF Good
  <2> QED
    BY <2>5, <2>6
<1>6. bad = {}
  <2> SUFFICES ASSUME bad # {} PROVE FALSE
    OBVIOUS
  <2> HIDE DEF Good
  <2>1. bad \in SUBSET Nat
    BY <1>1
  <2>2. PICK n \in bad : \A b \in bad : n <= b
    <3> HIDE DEF bad
    <3> QED
      BY <2>1, SmallestNumber
  <2>3. n \in 1 .. Len(es) /\ ~Good(n)
    <3>1. n \in 0 .. Len(es) /\ ~Good(n)
      OBVIOUS
    <3> QED
      BY <1>1, <1>4, <3>1
  <2>4. n - 1 \in 0 .. Len(es) /\ ~(n <= n - 1)
    BY <1>1, <2>3
  <2>5. n - 1 \notin bad
    <3> HIDE DEF bad
    <3> QED
      BY <2>2, <2>4
  <2> QED
    BY <1>5, <2>3, <2>4, <2>5
<1>7. Good(Len(es))
  <2>1. Len(es) \in 0 .. Len(es)
    BY <1>1
  <2> HIDE DEF Good
  <2> QED
    BY <1>6, <2>1
<1>8. First(es, Len(es)) = Items(es)
  <2>1. ASSUME NEW i \in 1 .. Len(es), es[i].key # NULL PROVE es[i] \in Items(es)
    <3>1. i - 1 \in Slots(es) /\ At(es, i - 1) = es[i]
      BY <1>1 DEF Slots, At
    <3> QED
      BY <2>1, <3>1 DEF Items, Filled
  <2>2. ASSUME NEW i \in Filled(es) PROVE At(es, i) \in First(es, Len(es))
    <3>1. i + 1 \in 1 .. Len(es)
      BY <1>1 DEF Filled, Slots
    <3> QED
      BY <3>1 DEF First, At, Filled
  <2> QED
    BY <2>1, <2>2 DEF First, Items
<1> QED
  BY <1>2, <1>7, <1>8

-----------------------------------------------------------------------------
(* The table in use                                                        *)

(* A table exists with no more items than half its slots, as many as were  *)
(* counted; and there is no iterator without a table.                      *)
TableInv ==
  /\ hash \in [Keys -> Hashes]
  /\ Exists => /\ Table(entries) /\ Len(entries) <= MaxCapacity
               /\ Cardinality(Items(entries)) = length
               /\ length <= Len(entries) \div 2
  /\ ~Exists => length = 0 /\ index = NULL

LEMMA Hashed == TableInv => Hashing
BY TableAssumption DEF TableInv, Hashing

LEMMA Halves ==
  ASSUME NEW n \in Nat \ {0}
  PROVE  /\ n \div 2 \in Nat /\ n \div 2 < n /\ (2 * n) \div 2 = n
OBVIOUS

LEMMA Sizes ==
  ASSUME NEW es, Table(es)
  PROVE  Len(es) \in Nat \ {0} /\ Cardinality(Items(es)) \in Nat
<1>1. Len(es) \in Nat \ {0}
  BY DEF Table
<1>2. Cardinality(Items(es)) \in Nat
  BY ItemsCount
<1> QED
  BY <1>1, <1>2

LEMMA HalfFull ==
  ASSUME NEW es, Table(es), Cardinality(Items(es)) <= Len(es) \div 2
  PROVE  Roomfor(es)
<1>1. Len(es) \in Nat \ {0} /\ Cardinality(Items(es)) \in Nat
  BY Sizes
<1>2. Len(es) \div 2 \in Nat /\ Len(es) \div 2 < Len(es)
  BY <1>1, Halves
<1> QED
  BY <1>1, <1>2 DEF Roomfor

(* The table that an entry is set in.                                      *)
LEMMA RoomyTable ==
  ASSUME TableInv, Exists
  PROVE  /\ Table(Roomy) /\ Items(Roomy) = Items(entries) /\ Roomfor(Roomy)
         /\ length \in Nat /\ length + 1 <= Len(Roomy) \div 2 /\ Len(Roomy) \in Nat \ {0}
         /\ Len(Roomy) = IF NeedsRoom THEN 2 * Len(entries) ELSE Len(entries)
<1>1. /\ Table(entries) /\ Cardinality(Items(entries)) = length /\ length <= Len(entries) \div 2
      /\ Len(entries) \in Nat \ {0} /\ length \in Nat /\ Hashing
  <2>1. /\ Table(entries) /\ Cardinality(Items(entries)) = length
        /\ length <= Len(entries) \div 2
    BY DEF TableInv
  <2> QED
    BY <2>1, Hashed, Sizes
<1>2. PICK n : n = Len(entries)
  OBVIOUS
<1>3. n \in Nat \ {0} /\ n \div 2 \in Nat /\ n \div 2 < n /\ (2 * n) \div 2 = n
  BY <1>1, <1>2, Halves
<1>4. CASE NeedsRoom
  <2>1. /\ Table(Roomy) /\ Len(Roomy) = 2 * n /\ Items(Roomy) = Items(entries)
    BY <1>1, <1>2, <1>4, Expanded DEF Roomy
  <2>2. length + 1 <= Len(Roomy) \div 2 /\ Len(Roomy) \in Nat \ {0}
    BY <1>1, <1>2, <1>3, <2>1
  <2>3. Roomfor(Roomy)
    <3>1. Cardinality(Items(Roomy)) <= Len(Roomy) \div 2
      BY <1>1, <1>2, <1>3, <2>1
    <3> QED
      BY <2>1, <3>1, HalfFull
  <2> QED
    BY <1>1, <1>2, <1>4, <2>1, <2>2, <2>3
<1>5. CASE ~NeedsRoom
  <2>1. Roomy = entries
    BY <1>5 DEF Roomy
  <2>2. length + 1 <= n \div 2
    BY <1>1, <1>2, <1>3, <1>5 DEF NeedsRoom
  <2>3. Roomfor(entries)
    BY <1>1, HalfFull
  <2> QED
    BY <1>1, <1>2, <1>5, <2>1, <2>2, <2>3
<1> QED
  BY <1>4, <1>5

(* The next state of the table, as a value.                                *)
LEMMA NextTable ==
  ASSUME NEW es, hash' = hash, entries' = es, Table(es)
  PROVE  Table(entries)' /\ Items(entries)' = Items(es) /\ Exists'
<1>1. Len(es) # 0
  BY DEF Table
<1>2. es # <<>>
  BY <1>1
<1>3. Items(entries)' = Items(es)
  BY DEF Items, Filled, Slots, At
<1>4. Table(entries)'
  BY DEF Table, Passes, ProbeSlot, Filled, Slots, At, Item, Vacant
<1> QED
  BY <1>2, <1>3, <1>4 DEF Exists

LEMMA TableInit == Init => TableInv
BY DEF Init, TableInv, Exists

(* What ht_set and its failure make of the table.                          *)
LEMMA SetTable ==
  ASSUME TableInv, NEW k \in Keys, NEW v \in Values, HtSet(k, v)
  PROVE  \E es : /\ entries' = es /\ hash' = hash /\ Table(es) /\ Roomfor(es)
                 /\ Len(es) <= MaxCapacity
                 /\ Items(es) = {e \in Items(entries) : e.key # k} \cup {[key |-> k, value |-> v]}
                 /\ Cardinality(Items(es)) =
                      IF Holds(entries, k) THEN length ELSE length + 1
                 /\ Cardinality(Items(es)) <= Len(es) \div 2
<1>1. Exists /\ hash' = hash /\ (NeedsRoom => 2 * Len(entries) <= MaxCapacity)
  BY DEF HtSet
<1>2. PICK before : before = Roomy
  OBVIOUS
<1>3. /\ Table(before) /\ Items(before) = Items(entries) /\ Roomfor(before)
      /\ length \in Nat /\ length + 1 <= Len(before) \div 2 /\ Len(before) \in Nat \ {0}
      /\ Len(before) = IF NeedsRoom THEN 2 * Len(entries) ELSE Len(entries)
  BY <1>1, <1>2, RoomyTable
<1>4. PICK es : es = HtSetEntry(before, k, v)
  OBVIOUS
<1>5. entries' = es
  BY <1>2, <1>4 DEF HtSet
<1>6. /\ Table(es) /\ Len(es) = Len(before)
      /\ Items(es) = {e \in Items(before) : e.key # k} \cup {[key |-> k, value |-> v]}
      /\ Cardinality(Items(es)) =
           IF Holds(before, k) THEN Cardinality(Items(before)) ELSE Cardinality(Items(before)) + 1
  BY <1>3, <1>4, Hashed, SetsItem
<1>7. Holds(before, k) <=> Holds(entries, k)
  BY <1>3 DEF Holds
<1>8. Cardinality(Items(before)) = length /\ Len(before) <= MaxCapacity
  BY <1>1, <1>3 DEF TableInv
<1>9. Len(before) \div 2 \in Nat
  BY <1>3, Halves
<1>10. Cardinality(Items(es)) <= Len(es) \div 2
  <2>1. Cardinality(Items(es)) = length \/ Cardinality(Items(es)) = length + 1
    BY <1>6, <1>8
  <2>2. PICK half \in Nat : half = Len(before) \div 2
    BY <1>9
  <2>3. length + 1 <= half /\ length \in Nat
    BY <1>3, <2>2
  <2>4. Cardinality(Items(es)) <= half
    BY <2>1, <2>3
  <2> QED
    BY <1>6, <2>2, <2>4
<1>11. Roomfor(es)
  BY <1>6, <1>10, HalfFull
<1> QED
  BY <1>1, <1>3, <1>5, <1>6, <1>7, <1>8, <1>10, <1>11

LEMMA FailTable ==
  ASSUME TableInv, NEW k, HtSetFails(k)
  PROVE  \E es : /\ entries' = es /\ hash' = hash /\ Table(es) /\ Roomfor(es)
                 /\ Len(es) <= MaxCapacity /\ Items(es) = Items(entries)
                 /\ Cardinality(Items(es)) = length /\ length <= Len(es) \div 2
<1>1. Exists /\ hash' = hash /\ (NeedsRoom => 2 * Len(entries) <= MaxCapacity)
  BY DEF HtSetFails
<1>2. PICK es : es = Roomy
  OBVIOUS
<1>3. /\ Table(es) /\ Items(es) = Items(entries) /\ Roomfor(es)
      /\ length \in Nat /\ length + 1 <= Len(es) \div 2 /\ Len(es) \in Nat \ {0}
      /\ Len(es) = IF NeedsRoom THEN 2 * Len(entries) ELSE Len(entries)
  BY <1>1, <1>2, RoomyTable
<1>4. Cardinality(Items(es)) = length /\ Len(es) <= MaxCapacity
  BY <1>1, <1>3 DEF TableInv
<1>5. length <= Len(es) \div 2
  <2>1. PICK half \in Nat : half = Len(es) \div 2
    BY <1>3, Halves
  <2>2. length + 1 <= half /\ length \in Nat
    BY <1>3, <2>1
  <2>3. length <= half
    BY <2>2
  <2> QED
    BY <2>1, <2>3
<1> QED
  BY <1>1, <1>2, <1>3, <1>4, <1>5 DEF HtSetFails

(* What ht_get returns of a table.                                         *)
Got(es, k) == At(es, Probe(es, k)).value

(* ht_get finds a key where it is held only.                               *)
LEMMA Found ==
  ASSUME TableInv, Exists, NEW k \in Keys
  PROVE  /\ HtGet(k) = Got(entries, k)
         /\ HtGet(k) \in Values => [key |-> k, value |-> HtGet(k)] \in Items(entries)
         /\ HtGet(k) \notin Values => HtGet(k) = NULL /\ ~Holds(entries, k)
         /\ \A e \in Items(entries) : e.key = k => e.value = HtGet(k) /\ HtGet(k) \in Values
         /\ HtGet(k) # NULL <=> Holds(entries, k)
<1>1. HtGet(k) = At(entries, Probe(entries, k)).value
  BY DEF HtGet
<1>2. Table(entries) /\ Roomfor(entries) /\ Hashing
  BY Hashed, HalfFull DEF TableInv
<1>3. NULL \notin Values
  BY TableAssumption
<1> QED
  BY <1>1, <1>2, <1>3, GetsItem DEF Got, Holds

LEMMA TableStep == TableInv /\ [Next]_vars => TableInv'
<1> SUFFICES ASSUME TableInv, [Next]_vars PROVE TableInv'
  OBVIOUS
<1>1. CASE HtCreate
  <2>1. PICK es : es = NewTable(INITIAL_CAPACITY)
    OBVIOUS
  <2>2. /\ INITIAL_CAPACITY \in Nat \ {0} /\ INITIAL_CAPACITY <= MaxCapacity
    BY TableAssumption
  <2>3. /\ Table(es) /\ Len(es) = INITIAL_CAPACITY /\ Cardinality(Items(es)) = 0
    BY <2>1, <2>2, NewIsTable
  <2>4. Table(entries)' /\ Items(entries)' = Items(es) /\ Exists' /\ entries' = es
    BY <1>1, <2>1, <2>3, NextTable DEF HtCreate
  <2>5. 0 <= Len(es) \div 2
    BY <2>2, <2>3, Halves
  <2> QED
    BY <1>1, <2>2, <2>3, <2>4, <2>5 DEF HtCreate, TableInv
<1>2. ASSUME NEW k \in Keys, HtSetFails(k) PROVE TableInv'
  <2>1. PICK es : /\ entries' = es /\ hash' = hash /\ Table(es)
                  /\ Len(es) <= MaxCapacity
                  /\ Cardinality(Items(es)) = length /\ length <= Len(es) \div 2
    BY <1>2, FailTable
  <2>2. Table(entries)' /\ Items(entries)' = Items(es) /\ Exists'
    BY <2>1, NextTable
  <2> QED
    BY <1>2, <2>1, <2>2 DEF HtSetFails, TableInv
<1>3. ASSUME NEW k \in Keys, NEW v \in Values, HtSet(k, v) PROVE TableInv'
  <2>1. PICK es : /\ entries' = es /\ hash' = hash /\ Table(es)
                  /\ Len(es) <= MaxCapacity
                  /\ Cardinality(Items(es)) = IF Holds(entries, k) THEN length ELSE length + 1
                  /\ Cardinality(Items(es)) <= Len(es) \div 2
    BY <1>3, SetTable
  <2>2. Table(entries)' /\ Items(entries)' = Items(es) /\ Exists'
    BY <2>1, NextTable
  <2>3. length' = Cardinality(Items(es))
    <3>1. HtGet(k) # NULL <=> Holds(entries, k)
      BY <1>3, Found DEF HtSet
    <3> QED
      BY <1>3, <2>1, <3>1 DEF HtSet
  <2> QED
    BY <1>3, <2>1, <2>2, <2>3 DEF TableInv
<1>4. CASE HtIterator
  <2>1. PICK es : es = entries
    OBVIOUS
  <2>2. Table(es) => Table(entries)' /\ Items(entries)' = Items(es) /\ Exists'
    BY <1>4, <2>1, NextTable DEF HtIterator, table
  <2> QED
    BY <1>4, <2>1, <2>2 DEF HtIterator, table, TableInv, Exists
<1>5. CASE HtNext \/ UNCHANGED vars
  <2>1. PICK es : es = entries
    OBVIOUS
  <2>2. hash' = hash /\ entries' = es /\ length' = length
    BY <1>5, <2>1 DEF HtNext, vars, table
  <2>3. Table(es) => Table(entries)' /\ Items(entries)' = Items(es) /\ Exists'
    BY <2>2, NextTable
  <2>4. ~Exists => index' = index
    BY <1>5 DEF HtNext, vars, iterator, TableInv
  <2>5. Exists' <=> Exists
    BY <2>1, <2>2 DEF Exists
  <2> QED
    BY <2>1, <2>2, <2>3, <2>4, <2>5 DEF TableInv
<1>6. CASE HtDestroy
  BY <1>6 DEF HtDestroy, TableInv, Exists
<1> QED
  BY <1>1, <1>2, <1>3, <1>4, <1>5, <1>6 DEF Next

-----------------------------------------------------------------------------
(* The iteration                                                           *)

(* The slots that the iterator is past.                                    *)
Past == {i \in Filled(entries) : i < index}

(* The loop of get_most_visited has seen the keys of those slots, each     *)
(* once, and has the best of them.                                         *)
IterInv ==
  /\ index \in {NULL} \cup 0 .. Len(entries)
  /\ visited \in Seq(Keys) /\ best_count \in Values \cup {0} /\ most_visited \in Keys \cup {NULL}
  /\ index # NULL =>
       /\ ToSet(visited) = {At(entries, i).key : i \in Past}
       /\ Len(visited) = Cardinality(Past)
       /\ \A i \in Past : At(entries, i).value <= best_count
       /\ visited = <<>> => best_count = 0
       /\ visited # <<>> =>
            \E i \in Past : At(entries, i) = [key |-> most_visited, value |-> best_count]

LEMMA IterInit == Init => IterInv
BY DEF Init, IterInv

(* ht_next goes from a filled slot to the next.                            *)
LEMMA NextPast ==
  ASSUME TableInv, index \in Nat, NEW i \in Slots(entries), i >= index,
         At(entries, i).key # NULL, \A j \in index .. i - 1 : At(entries, j).key = NULL,
         index' = i + 1, entries' = entries
  PROVE  /\ Past' = Past \cup {i} /\ i \notin Past
         /\ \A j \in Slots(entries) : At(entries, j)' = At(entries, j)
         /\ Past \subseteq Filled(entries) /\ Filled(entries) \subseteq Slots(entries)
         /\ i \in Filled(entries)
<1>1. Slots(entries) \subseteq Nat /\ i \in Nat
  BY DEF Slots
<1>2. Filled(entries)' = Filled(entries)
  BY DEF Filled, Slots, At
<1>3. ASSUME NEW j \in Filled(entries) PROVE j < i + 1 <=> j < index \/ j = i
  <2>1. j \in Nat /\ At(entries, j).key # NULL
    BY <1>1, <1>3 DEF Filled
  <2>2. j \notin index .. i - 1
    BY <2>1
  <2> QED
    BY <1>1, <2>1, <2>2
<1>4. i \in Filled(entries) /\ ~(i < index)
  BY <1>1 DEF Filled
<1>5. Past' = {j \in Filled(entries) : j < i + 1}
  BY <1>2 DEF Past
<1>6. Past' = Past \cup {i} /\ i \notin Past
  BY <1>3, <1>4, <1>5 DEF Past
<1> QED
  BY <1>4, <1>6 DEF Past, Filled, At

LEMMA AppendRange ==
  ASSUME NEW s \in Seq(Keys), NEW k \in Keys
  PROVE  /\ Append(s, k) \in Seq(Keys) /\ Append(s, k) # <<>>
         /\ ToSet(Append(s, k)) = ToSet(s) \cup {k}
         /\ Len(Append(s, k)) = Len(s) + 1
<1> DEFINE t == Append(s, k)
<1>1. /\ t \in Seq(Keys) /\ Len(t) = Len(s) + 1 /\ t[Len(s) + 1] = k /\ Len(s) \in Nat
      /\ \A i \in 1 .. Len(s) : t[i] = s[i]
  OBVIOUS
<1> HIDE DEF t
<1>2. DOMAIN t = 1 .. Len(s) + 1 /\ DOMAIN s = 1 .. Len(s)
  BY <1>1
<1>3. \A i \in 1 .. Len(s) + 1 : i \in 1 .. Len(s) \/ i = Len(s) + 1
  BY <1>1
<1>4. \A i \in 1 .. Len(s) : i \in 1 .. Len(s) + 1
  BY <1>1
<1>5. Len(s) + 1 \in 1 .. Len(s) + 1
  BY <1>1
<1>6. ToSet(t) = ToSet(s) \cup {k}
  BY <1>1, <1>2, <1>3, <1>4, <1>5 DEF ToSet
<1>7. t # <<>>
  BY <1>1
<1> QED
  BY <1>1, <1>6, <1>7 DEF t

LEMMA IterStep == TableInv /\ IterInv /\ [Next]_vars => IterInv'
<1> SUFFICES ASSUME TableInv, IterInv, [Next]_vars PROVE IterInv'
  OBVIOUS
<1>1. CASE HtCreate \/ \E k \in Keys : HtSetFails(k) \/ \E v \in Values : HtSet(k, v)
  <2>1. index' = NULL /\ UNCHANGED <<visited, best_count, most_visited>>
    BY <1>1 DEF HtCreate, HtSetFails, HtSet, iterator, TableInv
  <2> QED
    BY <2>1 DEF IterInv
<1>2. CASE HtIterator
  <2>1. /\ index' = 0 /\ visited' = <<>> /\ most_visited' = NULL /\ best_count' = 0
        /\ entries' = entries /\ Exists
    BY <1>2 DEF HtIterator, table
  <2>2. Len(entries) \in Nat
    BY <2>1, Sizes DEF TableInv
  <2>3. Past' = {}
    BY <2>1 DEF Past, Filled, Slots
  <2>4. Len(<<>>) = Cardinality({}) /\ ToSet(<<>>) = {}
    BY FS_EmptySet DEF ToSet
  <2>5. index' \in {NULL} \cup 0 .. Len(entries')
    BY <2>1, <2>2
  <2> QED
    BY <2>1, <2>3, <2>4, <2>5 DEF IterInv
<1>3. CASE HtNext
  <2>1. PICK i \in Slots(entries) :
          /\ i >= index /\ At(entries, i).key # NULL
          /\ \A j \in index .. i - 1 : At(entries, j).key = NULL
          /\ index' = i + 1
          /\ visited' = Append(visited, At(entries, i).key)
          /\ Best(At(entries, i))
    BY <1>3 DEF HtNext
  <2>2. index # NULL /\ entries' = entries /\ Exists
    BY <1>3 DEF HtNext, table, TableInv
  <2>3. index \in Nat
    BY <2>2 DEF IterInv
  <2>4. /\ Past' = Past \cup {i} /\ i \notin Past
        /\ \A j \in Slots(entries) : At(entries, j)' = At(entries, j)
        /\ Past \subseteq Filled(entries) /\ Filled(entries) \subseteq Slots(entries)
        /\ i \in Filled(entries)
    BY <2>1, <2>2, <2>3, NextPast
  <2>5. PICK e : e = At(entries, i)
    OBVIOUS
  <2>6. \A j \in Past \cup {i} : At(entries, j) \in Item
    BY <2>2, <2>4, Cells DEF TableInv, Table, Filled
  <2>7. e \in Item /\ e.key \in Keys /\ e.value \in Values /\ e.value \in Nat \ {0}
        /\ e = [key |-> e.key, value |-> e.value]
    <3>1. e \in Item
      BY <2>5, <2>6
    <3> QED
      BY <3>1, TableAssumption DEF Item
  <2>8. /\ visited' \in Seq(Keys) /\ visited' # <<>>
        /\ ToSet(visited') = ToSet(visited) \cup {e.key}
        /\ Len(visited') = Len(visited) + 1
    BY <2>1, <2>5, <2>7, AppendRange DEF IterInv
  <2>9. ToSet(visited') = {At(entries, j).key : j \in Past}'
    <3>1. ToSet(visited') = {At(entries, j).key : j \in Past} \cup {At(entries, i).key}
      BY <2>2, <2>5, <2>8 DEF IterInv
    <3> QED
      BY <2>4, <3>1
  <2>10. Len(visited') = Cardinality(Past')
    <3>1. IsFiniteSet(Past)
      <4>1. IsFiniteSet(Filled(entries))
        BY <2>2, ItemsCount DEF TableInv
      <4> QED
        BY <2>4, <4>1, FS_Subset
    <3>2. Cardinality(Past \cup {i}) = Cardinality(Past) + 1
      BY <2>4, <3>1, FS_AddElement
    <3> QED
      BY <2>2, <2>4, <2>8, <3>2 DEF IterInv
  <2>11. /\ best_count' \in Values \cup {0} /\ best_count' \in Nat /\ best_count \in Nat
         /\ e.value <= best_count' /\ best_count <= best_count'
         /\ most_visited' \in Keys \cup {NULL}
    <3>1. best_count \in Nat /\ best_count \in Values \cup {0}
      BY TableAssumption DEF IterInv
    <3> QED
      BY <2>1, <2>5, <2>7, <3>1 DEF Best, IterInv
  <2>12. \A j \in Past \cup {i} : At(entries, j).value <= best_count'
    <3> SUFFICES ASSUME NEW j \in Past PROVE At(entries, j).value <= best_count'
      BY <2>5, <2>11
    <3>1. At(entries, j).value <= best_count /\ At(entries, j).value \in Nat
      BY <2>2, <2>6, TableAssumption DEF IterInv, Item
    <3> QED
      BY <2>11, <3>1
  <2>13. \E j \in Past \cup {i} : At(entries, j) = [key |-> most_visited', value |-> best_count']
    <3>1. CASE e.value > best_count
      BY <2>1, <2>5, <2>7, <3>1 DEF Best
    <3>2. CASE ~(e.value > best_count)
      <4>1. most_visited' = most_visited /\ best_count' = best_count
        BY <2>1, <2>5, <3>2 DEF Best
      <4>2. visited # <<>>
        BY <2>2, <2>7, <3>2 DEF IterInv
      <4> QED
        BY <2>2, <4>1, <4>2 DEF IterInv
    <3> QED
      BY <3>1, <3>2
  <2>14. index' \in 0 .. Len(entries')
    BY <2>1, <2>2, <2>3 DEF Slots
  <2>15. /\ \A j \in Past' : At(entries, j)'.value <= best_count'
         /\ \E j \in Past' : At(entries, j)' = [key |-> most_visited', value |-> best_count']
    <3>1. \A j \in Past' : j \in Past \cup {i} /\ At(entries, j)' = At(entries, j)
      BY <2>4
    <3> QED
      BY <2>4, <2>12, <2>13, <3>1
  <2> QED
    BY <2>8, <2>9, <2>10, <2>11, <2>14, <2>15 DEF IterInv
<1>4. CASE HtDestroy
  BY <1>4 DEF HtDestroy, IterInv
<1>5. CASE UNCHANGED vars
  BY <1>5 DEF vars, table, iterator, IterInv, Past, Filled, Slots, At
<1> QED
  BY <1>1, <1>2, <1>3, <1>4, <1>5 DEF Next

-----------------------------------------------------------------------------
(* The theorems                                                            *)

(* What holds between the calls of ht.c, for every sequence of them that   *)
(* the callers make.                                                       *)
THEOREM Invariants == Spec => [](TableInv /\ IterInv)
<1>1. Init => TableInv /\ IterInv
  BY TableInit, IterInit
<1>2. TableInv /\ IterInv /\ [Next]_vars => (TableInv /\ IterInv)'
  BY TableStep, IterStep
<1> QED
  BY <1>1, <1>2, PTL DEF Spec

(* The slots and the locals of get_most_visited have their types: a slot   *)
(* is filled with a key and its value, or vacant.                          *)
THEOREM Typing == Spec => []TypeOK
<1>2. TableInv /\ IterInv => TypeOK
  <2> SUFFICES ASSUME TableInv, IterInv PROVE TypeOK
    OBVIOUS
  <2>1. CASE Exists
    <3>1. Table(entries) /\ Len(entries) <= MaxCapacity /\ length <= Len(entries) \div 2
          /\ Cardinality(Items(entries)) = length
      BY <2>1 DEF TableInv
    <3>2. Len(entries) \in Nat \ {0} /\ length \in Nat
      BY <3>1, Sizes
    <3>3. entries \in Seq([key : Keys, value : Values] \cup {Vacant})
      BY <3>1 DEF Table, Item
    <3>4. Len(entries) \in 0 .. MaxCapacity
      BY <3>1, <3>2, TableAssumption
    <3> QED
      BY <3>2, <3>3, <3>4 DEF TableInv, IterInv, TypeOK
  <2>2. CASE ~Exists
    <3>1. entries = <<>> /\ length = 0
      BY <2>2 DEF TableInv, Exists
    <3>2. Len(entries) \in 0 .. MaxCapacity
      BY <3>1, TableAssumption
    <3>3. entries \in Seq([key : Keys, value : Values] \cup {Vacant})
      BY <3>1
    <3> QED
      BY <3>1, <3>2, <3>3 DEF TableInv, IterInv, TypeOK
  <2> QED
    BY <2>1, <2>2
<1> QED
  BY <1>2, Invariants, PTL

(* At least half the slots are vacant after every call, so that the        *)
(* loops of ht_get (ht.c:68-87) and ht_set_entry (ht.c:90-122) end.        *)
THEOREM Ending == Spec => []ProbesEnd
<1>1. TableInv => ProbesEnd
  <2> SUFFICES ASSUME TableInv, Exists
               PROVE  Cardinality({i \in Slots(entries) : At(entries, i).key = NULL})
                        >= Len(entries) - Len(entries) \div 2
    BY DEF ProbesEnd
  <2>1. Table(entries) /\ length <= Len(entries) \div 2 /\ Cardinality(Items(entries)) = length
    BY DEF TableInv
  <2>2. {i \in Slots(entries) : At(entries, i).key = NULL} = Slots(entries) \ Filled(entries)
    BY DEF Filled
  <2>3. /\ Cardinality(Filled(entries)) + Cardinality(Slots(entries) \ Filled(entries))
             = Len(entries)
        /\ Cardinality(Filled(entries)) = length /\ length \in Nat
    BY <2>1, ItemsCount
  <2>4. Len(entries) \div 2 \in Nat /\ Len(entries) \in Nat
    BY <2>1, Sizes, Halves
  <2>5. Cardinality(Slots(entries) \ Filled(entries)) \in Nat
    <3>1. IsFiniteSet(Slots(entries))
      BY <2>1, SlotsFinite DEF Table
    <3> QED
      BY <3>1, FS_Difference, FS_CardinalityType
  <2> DEFINE f == Cardinality(Filled(entries))
             v == Cardinality(Slots(entries) \ Filled(entries))
             h == Len(entries) \div 2
             n == Len(entries)
  <2>6. f + v = n /\ f <= h /\ f \in Nat /\ v \in Nat /\ h \in Nat /\ n \in Nat
    BY <2>1, <2>3, <2>4, <2>5
  <2>7. Cardinality({i \in Slots(entries) : At(entries, i).key = NULL}) = v
    BY <2>2
  <2> HIDE DEF f, v, h, n
  <2>8. v >= n - h
    BY <2>6
  <2> QED
    BY <2>7, <2>8 DEF h, n
<1> QED
  BY <1>1, Invariants, PTL

(* When ht_next returns 0 (ht.c:182-197), get_most_visited has been given  *)
(* each key of the table once, and has a largest count and its key.        *)
THEOREM Complete == Spec => []IterationComplete
<1>1. TableInv /\ IterInv => IterationComplete
  <2> SUFFICES ASSUME TableInv, IterInv, Exhausted
               PROVE  /\ ToSet(visited) = {k \in Keys : HtGet(k) # NULL}
                      /\ Len(visited) = length
                      /\ \A k \in ToSet(visited) : HtGet(k) <= best_count
                      /\ visited # <<>> => HtGet(most_visited) = best_count
    BY DEF IterationComplete
  <2>1. index # NULL /\ Exists
    BY DEF Exhausted, TableInv
  <2>2. Table(entries) /\ Cardinality(Items(entries)) = length
    BY <2>1 DEF TableInv
  <2>3. Past = Filled(entries)
    <3>1. index \in Nat /\ Slots(entries) \subseteq Nat
      BY <2>1 DEF IterInv, Slots
    <3> QED
      BY <2>1, <3>1 DEF Exhausted, Past, Filled
  <2>4. \A i \in Filled(entries) : At(entries, i) \in Items(entries)
    BY DEF Items
  <2>5. Items(entries) \subseteq Item /\ Cardinality(Items(entries)) = Cardinality(Filled(entries))
    BY <2>2, ItemsCount
  <2>6. \A k \in Keys : /\ HtGet(k) # NULL <=> Holds(entries, k)
                        /\ \A e \in Items(entries) : e.key = k => e.value = HtGet(k)
    BY <2>1, Found
  <2>7. ToSet(visited) = {At(entries, i).key : i \in Filled(entries)}
    BY <2>1, <2>3 DEF IterInv
  <2>8. \A i \in Filled(entries) : /\ At(entries, i).key \in Keys
                                   /\ HtGet(At(entries, i).key) = At(entries, i).value
    BY <2>4, <2>5, <2>6 DEF Item
  <2>9. ToSet(visited) = {k \in Keys : HtGet(k) # NULL}
    <3>1. \A k \in Keys : Holds(entries, k) <=> \E i \in Filled(entries) : At(entries, i).key = k
      BY DEF Holds, Items
    <3> QED
      BY <2>6, <2>7, <2>8, <3>1
  <2>10. Len(visited) = length
    BY <2>1, <2>2, <2>3, <2>5 DEF IterInv
  <2>11. \A k \in ToSet(visited) : HtGet(k) <= best_count
    BY <2>1, <2>3, <2>7, <2>8 DEF IterInv
  <2>12. visited # <<>> => HtGet(most_visited) = best_count
    BY <2>1, <2>3, <2>8 DEF IterInv
  <2> QED
    BY <2>9, <2>10, <2>11, <2>12
<1> QED
  BY <1>1, Invariants, PTL

-----------------------------------------------------------------------------
(* The refinement                                                          *)

Dictionary == [k \in Keys |-> HtGet(k)]

(* What ht_get returns after a call.                                       *)
LEMMA NextGot ==
  ASSUME NEW es, NEW k \in Keys, hash' = hash, entries' = es, es # <<>>
  PROVE  HtGet(k)' = Got(es, k)
BY DEF HtGet, Got, Exists, Probe, Ends, ProbeSlot, Slots, At

(* ht_get returns the value that the table holds with the key.             *)
LEMMA GotIs ==
  ASSUME Hashing, NEW es, Table(es), Roomfor(es), NEW k \in Keys
  PROVE  /\ \A v \in Values : [key |-> k, value |-> v] \in Items(es) => Got(es, k) = v
         /\ ~Holds(es, k) => Got(es, k) = NULL
<1>1. /\ Got(es, k) \in Values => [key |-> k, value |-> Got(es, k)] \in Items(es)
      /\ Got(es, k) \notin Values => Got(es, k) = NULL /\ ~Holds(es, k)
      /\ \A e \in Items(es) : e.key = k => e.value = Got(es, k) /\ Got(es, k) \in Values
  BY GetsItem DEF Got
<1>2. ASSUME NEW v \in Values, [key |-> k, value |-> v] \in Items(es) PROVE Got(es, k) = v
  BY <1>1, <1>2
<1>3. ~Holds(es, k) => Got(es, k) = NULL
  BY <1>1 DEF Holds
<1> QED
  BY <1>2, <1>3

(* Two tables that hold the same items with a key give the same value.     *)
LEMMA SameGot ==
  ASSUME TableInv, Exists, NEW es, Table(es), Roomfor(es), NEW k \in Keys,
         \A e \in Item : e.key = k => (e \in Items(es) <=> e \in Items(entries))
  PROVE  Got(es, k) = HtGet(k)
<1>1. Hashing /\ Table(entries)
  BY Hashed DEF TableInv
<1>2. /\ HtGet(k) \in Values => [key |-> k, value |-> HtGet(k)] \in Items(entries)
      /\ HtGet(k) \notin Values => HtGet(k) = NULL /\ ~Holds(entries, k)
  BY Found
<1>3. CASE HtGet(k) \in Values
  <2>1. [key |-> k, value |-> HtGet(k)] \in Items(es)
    BY <1>2, <1>3 DEF Item
  <2> QED
    BY <1>1, <1>3, <2>1, GotIs
<1>4. CASE HtGet(k) \notin Values
  <2>1. Items(es) \subseteq Item
    BY ItemsCount
  <2>2. ~Holds(es, k)
    BY <1>2, <1>4, <2>1 DEF Holds
  <2> QED
    BY <1>1, <1>2, <1>4, <2>2, GotIs
<1> QED
  BY <1>3, <1>4

(* ht_set of a known key updates its value, of a new key inserts it.       *)
LEMMA SetRefines ==
  ASSUME TableInv, NEW k \in Keys, NEW v \in Values, HtSet(k, v)
  PROVE  Abstract!Update(k, v) \/ Abstract!Insert(k, v)
<1>1. Exists
  BY DEF HtSet
<1>2. PICK es : /\ entries' = es /\ hash' = hash /\ Table(es) /\ Roomfor(es)
                /\ Items(es) = {e \in Items(entries) : e.key # k}
                                 \cup {[key |-> k, value |-> v]}
  BY SetTable
<1>3. es # <<>>
  BY <1>2 DEF Table
<1>4. \A j \in Keys : HtGet(j)' = Got(es, j)
  BY <1>2, <1>3, NextGot
<1>5. Got(es, k) = v
  <2>1. [key |-> k, value |-> v] \in Items(es)
    BY <1>2
  <2> QED
    BY <1>2, <2>1, Hashed, GotIs
<1>6. ASSUME NEW j \in Keys, j # k PROVE Got(es, j) = HtGet(j)
  <2>1. \A e \in Item : e.key = j => (e \in Items(es) <=> e \in Items(entries))
    BY <1>2, <1>6
  <2> QED
    BY <1>1, <1>2, <2>1, SameGot
<1>7. Dictionary' = [Dictionary EXCEPT ![k] = v]
  <2>1. Dictionary' = [j \in Keys |-> HtGet(j)']
    BY DEF Dictionary
  <2>2. \A j \in Keys : HtGet(j)' = IF j = k THEN v ELSE HtGet(j)
    BY <1>4, <1>5, <1>6
  <2> QED
    BY <2>1, <2>2 DEF Dictionary
<1>8. Dictionary[k] = HtGet(k) /\ (HtGet(k) = NULL \/ HtGet(k) # NULL)
  BY DEF Dictionary
<1>9. length' = IF HtGet(k) = NULL THEN length + 1 ELSE length
  BY DEF HtSet
<1>10. CASE HtGet(k) = NULL
  BY <1>7, <1>8, <1>9, <1>10 DEF Abstract!Insert, Dictionary
<1>11. CASE HtGet(k) # NULL
  BY <1>7, <1>8, <1>9, <1>11 DEF Abstract!Update, Dictionary
<1> QED
  BY <1>10, <1>11

(* A failing ht_set, and a step that leaves the slots alone, changes       *)
(* nothing that the caller sees.                                           *)
LEMMA FailStutters ==
  ASSUME TableInv, NEW k \in Keys, HtSetFails(k)
  PROVE  UNCHANGED <<Dictionary, length>>
<1>1. Exists /\ length' = length
  BY DEF HtSetFails
<1>2. PICK es : /\ entries' = es /\ hash' = hash /\ Table(es) /\ Roomfor(es)
                /\ Items(es) = Items(entries)
  BY FailTable
<1>3. es # <<>>
  BY <1>2 DEF Table
<1>4. \A j \in Keys : HtGet(j)' = Got(es, j)
  BY <1>2, <1>3, NextGot
<1>5. \A j \in Keys : Got(es, j) = HtGet(j)
  BY <1>1, <1>2, SameGot
<1> QED
  BY <1>1, <1>4, <1>5 DEF Dictionary

LEMMA SlotsStutter ==
  ASSUME UNCHANGED <<hash, table>>
  PROVE  UNCHANGED <<Dictionary, length>>
<1>1. \A j \in Keys : HtGet(j)' = HtGet(j)
  BY DEF HtGet, Exists, Probe, Ends, ProbeSlot, Slots, At, table
<1> QED
  BY <1>1 DEF Dictionary, table

LEMMA EmptyDictionary ==
  /\ ~Exists => Dictionary = [k \in Keys |-> NULL]
  /\ (~Exists)' => Dictionary' = [k \in Keys |-> NULL]
BY DEF Dictionary, HtGet

LEMMA CreateStutters ==
  ASSUME TableInv, HtCreate
  PROVE  UNCHANGED <<Dictionary, length>>
<1> DEFINE es == NewTable(INITIAL_CAPACITY)
<1>1. entries' = es /\ hash' = hash /\ length' = 0 /\ length = 0 /\ ~Exists
  BY DEF HtCreate, TableInv
<1>2. Table(es) /\ Items(es) = {} /\ Roomfor(es)
  <2>1. INITIAL_CAPACITY \in Nat \ {0}
    BY TableAssumption
  <2>2. /\ Table(es) /\ Len(es) = INITIAL_CAPACITY
        /\ Items(es) = {} /\ Cardinality(Items(es)) = 0
    BY <2>1, NewIsTable
  <2> HIDE DEF es
  <2> QED
    BY <2>1, <2>2 DEF Roomfor
<1> HIDE DEF es
<1>3. es # <<>>
  BY <1>2 DEF Table
<1>4. \A j \in Keys : HtGet(j)' = Got(es, j)
  BY <1>1, <1>3, NextGot
<1>5. \A j \in Keys : Got(es, j) = NULL
  BY <1>2, Hashed, GotIs DEF Holds
<1> QED
  BY <1>1, <1>4, <1>5, EmptyDictionary DEF Dictionary

(* ht_create, ht_set, ht_get, ht_length and ht_destroy are a dictionary to *)
(* their callers, whatever the keys' hashes and whenever memory fails.     *)
THEOREM Implements == Spec => DictSpec
<1>1. Init => Abstract!Init
  BY EmptyDictionary DEF Init, Exists, Abstract!Init, Abstract!Empty, Dictionary
<1>2. TableInv /\ [Next]_vars => [Abstract!Next]_(Abstract!vars)
  <2> SUFFICES ASSUME TableInv, [Next]_vars
               PROVE  Abstract!Next \/ UNCHANGED <<Dictionary, length>>
    BY DEF Abstract!vars, Dictionary
  <2>1. CASE HtCreate
    BY <2>1, CreateStutters
  <2>2. CASE \E k \in Keys : HtSetFails(k)
    BY <2>2, FailStutters
  <2>3. CASE \E k \in Keys : \E v \in Values : HtSet(k, v)
    BY <2>3, SetRefines DEF Abstract!Next
  <2>4. CASE HtIterator \/ HtNext \/ UNCHANGED vars
    BY <2>4, SlotsStutter DEF HtIterator, HtNext, vars, table
  <2>5. CASE HtDestroy
    <3>1. (~Exists)' /\ length' = 0
      BY <2>5 DEF HtDestroy, Exists
    <3> QED
      BY <3>1, EmptyDictionary
         DEF Abstract!Next, Abstract!Destroy, Abstract!Empty, Dictionary
  <2> QED
    BY <2>1, <2>2, <2>3, <2>4, <2>5 DEF Next
<1> QED
  BY <1>1, <1>2, Invariants, PTL DEF Spec, DictSpec, Abstract!Spec
=============================================================================
