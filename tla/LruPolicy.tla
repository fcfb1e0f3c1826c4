----------------------------- MODULE LruPolicy ------------------------------
(* scheduler_lru: a list of nodes, the most recently used page at its head.  *)
(* Nodes are taken from a static array in order and never given back.        *)
EXTENDS Ram, NodeList

VARIABLES lru_list,     \* lru_head, lru_tail and the pointers of lru_pool
          lru_node,     \* page and frame_idx of each node of lru_pool
          lru_count

lruVars == <<lru_list, lru_node, lru_count>>

LruReset ==
    /\ lru_list' = [lru_list EXCEPT !.head = Nil, !.tail = Nil]
    /\ lru_count' = 0
    /\ UNCHANGED lru_node

\* The node the search from the head stops at; Nil when it finds none.
LruFind(page) ==
    LET s    == Nodes(lru_list)
        here == {k \in DOMAIN s : lru_node[s[k]].page = page}
    IN IF here = {} THEN Nil ELSE s[CHOOSE k \in here : \A j \in here : k <= j]

\* Mutant of LruHit: the page is found but not moved to the front.
LruHitInPlace(page) ==
    /\ LruFind(page) # Nil
    /\ Hit(lru_node[LruFind(page)].frame_idx)
    /\ UNCHANGED lruVars

LruHit(page) ==
    LET n == LruFind(page) IN
    /\ n # Nil
    /\ Hit(lru_node[n].frame_idx)
    /\ lru_list' = PushFront(Remove(lru_list, n), n)
    /\ UNCHANGED <<lru_node, lru_count>>

LruFill(page) ==
    /\ LruFind(page) = Nil
    /\ Fill(page)
    /\ lru_node' = [lru_node EXCEPT ![lru_count] =
                      [page |-> page, frame_idx |-> Uint8(FindEmpty)]]
    /\ lru_list' = PushFront(lru_list, lru_count)
    /\ lru_count' = Uint8(lru_count + 1)

\* Mutant of LruEvict: the node keeps the name of the page evicted.
LruEvictKeepsName(page) ==
    LET victim == lru_list.tail IN
    /\ LruFind(page) = Nil
    /\ FindEmpty = -1
    /\ misses' = misses + 1
    /\ Replace(lru_node[victim].frame_idx, lru_node[victim].page, page)
    /\ lru_list' = PushFront(Remove(lru_list, victim), victim)
    /\ UNCHANGED <<lru_node, lru_count>>

\* Mutant of LruEvict: the node of the victim stays at the tail.
LruEvictAtTail(page) ==
    LET victim == lru_list.tail IN
    /\ LruFind(page) = Nil
    /\ FindEmpty = -1
    /\ misses' = misses + 1
    /\ Replace(lru_node[victim].frame_idx, lru_node[victim].page, page)
    /\ lru_node' = [lru_node EXCEPT ![victim].page = page]
    /\ UNCHANGED <<lru_list, lru_count>>

LruEvict(page) ==
    LET victim == lru_list.tail IN
    /\ LruFind(page) = Nil
    /\ FindEmpty = -1
    /\ misses' = misses + 1
    /\ Replace(lru_node[victim].frame_idx, lru_node[victim].page, page)
    /\ lru_node' = [lru_node EXCEPT ![victim].page = page]
    /\ lru_list' = PushFront(Remove(lru_list, victim), victim)
    /\ UNCHANGED lru_count

LruAccess(page) == LruHit(page) \/ LruFill(page) \/ LruEvict(page)

LruInit ==
    /\ lru_list = EmptyList(Bytes)
    /\ lru_node = [n \in Bytes |-> [page |-> 0, frame_idx |-> 0]]
    /\ lru_count = 0

LruTypeOK ==
    /\ lru_list \in [head : Bytes \cup {Nil}, tail : Bytes \cup {Nil},
                     prev : [Bytes -> Bytes \cup {Nil}], next : [Bytes -> Bytes \cup {Nil}]]
    /\ lru_node \in [Bytes -> [page : Bytes, frame_idx : Bytes]]
    /\ lru_count \in Bytes
    /\ Represents(lru_list, Nodes(lru_list))

\* The pages from the least to the most recently used, read in their frames.
LruOrder == LET s == Nodes(lru_list)
            IN [k \in DOMAIN s |-> frames[lru_node[s[Len(s) + 1 - k]].frame_idx]]
=============================================================================
