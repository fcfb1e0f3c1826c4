------------------------------ MODULE NodeList ------------------------------
(* The doubly linked lists of os/scheduler.c.  lru_remove and sc_remove are  *)
(* the same operation; LRU pushes to the front, second chance to the back.   *)
(* A list is its head, its tail and the two pointer fields of every node of  *)
(* its pool; a node is its index in the pool.                                *)
EXTENDS Integers, FiniteSets, Sequences

Nil == -1

EmptyList(pool) == [head |-> Nil, tail |-> Nil,
                    prev |-> [n \in pool |-> Nil], next |-> [n \in pool |-> Nil]]

\* p->field = v, unless p is NULL.
Link(field, p, v) == IF p = Nil THEN field ELSE [field EXCEPT ![p] = v]

Remove(l, n) ==
    LET before == l.prev[n]
        after  == l.next[n]
    IN [head |-> IF before = Nil THEN after ELSE l.head,
        tail |-> IF after = Nil THEN before ELSE l.tail,
        prev |-> [Link(l.prev, after, before) EXCEPT ![n] = Nil],
        next |-> [Link(l.next, before, after) EXCEPT ![n] = Nil]]

PushFront(l, n) ==
    [head |-> n,
     tail |-> IF l.tail = Nil THEN n ELSE l.tail,
     prev |-> Link([l.prev EXCEPT ![n] = Nil], l.head, n),
     next |-> [l.next EXCEPT ![n] = l.head]]

PushBack(l, n) ==
    [head |-> IF l.head = Nil THEN n ELSE l.head,
     tail |-> n,
     prev |-> [l.prev EXCEPT ![n] = l.tail],
     next |-> Link([l.next EXCEPT ![n] = Nil], l.tail, n)]

-----------------------------------------------------------------------------
(* l holds the nodes of the sequence s, in that order: what the pointers     *)
(* must satisfy in both directions.                                          *)
Represents(l, s) ==
    /\ \A i, j \in DOMAIN s : s[i] = s[j] => i = j
    /\ l.head = IF s = <<>> THEN Nil ELSE s[1]
    /\ l.tail = IF s = <<>> THEN Nil ELSE s[Len(s)]
    /\ \A i \in DOMAIN s :
         /\ l.next[s[i]] = IF i = Len(s) THEN Nil ELSE s[i + 1]
         /\ l.prev[s[i]] = IF i = 1 THEN Nil ELSE s[i - 1]

After(l) == [n \in DOMAIN l.next \cup {Nil} |-> IF n = Nil THEN Nil ELSE l.next[n]]

\* Where a walk from the head on is after i nodes.
Walk(l) ==
    LET at[i \in Nat] == IF i = 0 THEN l.head ELSE After(l)[at[i - 1]]
    IN at

\* How many nodes it meets, of which there are no more than in the pool.
Length(l) ==
    LET at == Walk(l)
    IN CHOOSE k \in 0 .. Cardinality(DOMAIN l.next) :
         /\ at[k] = Nil \/ k = Cardinality(DOMAIN l.next)
         /\ \A j \in 0 .. k - 1 : at[j] # Nil

Nodes(l) == LET at == Walk(l) IN [k \in 1 .. Length(l) |-> at[k - 1]]
=============================================================================
