---------------------------- MODULE SecondChance ----------------------------
(* scheduler_second_chance: a queue of nodes with a reference bit.  The      *)
(* sweep over referenced nodes is a loop, one iteration to a step.           *)
EXTENDS Ram, NodeList

VARIABLES sc_list, sc_node, sc_count

scVars == <<sc_list, sc_node, sc_count>>

ScReset ==
    /\ sc_list' = [sc_list EXCEPT !.head = Nil, !.tail = Nil]
    /\ sc_count' = 0
    /\ UNCHANGED sc_node

ScFind(page) ==
    LET s    == Nodes(sc_list)
        here == {k \in DOMAIN s : sc_node[s[k]].page = page}
    IN IF here = {} THEN Nil ELSE s[CHOOSE k \in here : \A j \in here : k <= j]

ScHit(page) ==
    LET n == ScFind(page) IN
    /\ n # Nil
    /\ Hit(sc_node[n].frame_idx)
    /\ sc_node' = [sc_node EXCEPT ![n].ref_bit = 1]
    /\ UNCHANGED <<sc_list, sc_count>>

ScFill(page) ==
    /\ ScFind(page) = Nil
    /\ Fill(page)
    /\ sc_node' = [sc_node EXCEPT ![sc_count] =
                     [page |-> page, frame_idx |-> Uint8(FindEmpty), ref_bit |-> 0]]
    /\ sc_list' = PushBack(sc_list, sc_count)
    /\ sc_count' = Uint8(sc_count + 1)

\* The miss that must evict is counted before the sweep begins.
ScMiss(page) ==
    /\ ScFind(page) = Nil
    /\ FindEmpty = -1
    /\ misses' = misses + 1
    /\ UNCHANGED <<num_frames, frames, hits, result, scVars>>

\* Mutant of ScSweep: the bit of the page that is spared stays set.
ScSweepKeepsBit ==
    LET n == sc_list.head IN
    /\ sc_node[n].ref_bit = 1
    /\ sc_list' = PushBack(Remove(sc_list, n), n)
    /\ UNCHANGED <<ramVars, sc_node, sc_count>>

\* One iteration of the sweep: the head is spared once.
ScSweep ==
    LET n == sc_list.head IN
    /\ sc_node[n].ref_bit = 1
    /\ sc_node' = [sc_node EXCEPT ![n].ref_bit = 0]
    /\ sc_list' = PushBack(Remove(sc_list, n), n)
    /\ UNCHANGED <<ramVars, sc_count>>

\* After the sweep the head is evicted.
ScEvict(page) ==
    LET victim == sc_list.head IN
    /\ sc_node[victim].ref_bit = 0
    /\ Replace(sc_node[victim].frame_idx, sc_node[victim].page, page)
    /\ sc_node' = [sc_node EXCEPT ![victim].page = page, ![victim].ref_bit = 0]
    /\ sc_list' = PushBack(Remove(sc_list, victim), victim)
    /\ UNCHANGED <<misses, sc_count>>

ScInit ==
    /\ sc_list = EmptyList(Bytes)
    /\ sc_node = [n \in Bytes |-> [page |-> 0, frame_idx |-> 0, ref_bit |-> 0]]
    /\ sc_count = 0

ScTypeOK ==
    /\ sc_list \in [head : Bytes \cup {Nil}, tail : Bytes \cup {Nil},
                    prev : [Bytes -> Bytes \cup {Nil}], next : [Bytes -> Bytes \cup {Nil}]]
    /\ sc_node \in [Bytes -> [page : Bytes, frame_idx : Bytes, ref_bit : {0, 1}]]
    /\ sc_count \in Bytes
    /\ Represents(sc_list, Nodes(sc_list))

\* The pages from the front of the queue, and those with a second chance.
ScOrder == LET s == Nodes(sc_list)
           IN [k \in DOMAIN s |-> frames[sc_node[s[k]].frame_idx]]

ScMarked == LET s == Nodes(sc_list)
            IN {frames[sc_node[s[k]].frame_idx] : k \in {j \in DOMAIN s : sc_node[s[j]].ref_bit = 1}}
=============================================================================
