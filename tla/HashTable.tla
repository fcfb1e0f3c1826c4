----------------------------- MODULE HashTable -----------------------------
(***************************************************************************)
(* The hash table of 005Threads (ht.c): open addressing with linear        *)
(* probing, doubled when half full, and the loop of get_most_visited over  *)
(* its iterator.  The callers hold a semaphore, so a call is one step.     *)
(***************************************************************************)
EXTENDS Integers, FiniteSets, SequencesExt

CONSTANTS
  Keys, NULL,
  Values,             \* the values (counts) stored
  Hashes,             \* the values that hash_key takes
  INITIAL_CAPACITY,
  MaxCapacity         \* bound: calloc of a larger table fails

ASSUME TableAssumption ==
  /\ NULL \notin Keys \cup Nat
  /\ Values \subseteq Nat \ {0}
  /\ Hashes \subseteq Nat
  /\ INITIAL_CAPACITY \in Nat \ {0}
  /\ MaxCapacity \in Nat /\ INITIAL_CAPACITY <= MaxCapacity

(* The mask `& (capacity - 1)' of the probing loops is a remainder.        *)
ASSUME CapacityAssumption ==
  \E n \in 0 .. INITIAL_CAPACITY : INITIAL_CAPACITY = 2 ^ n

VARIABLES
  hash,          \* hash_key, fixed at the start
  entries,       \* the slots; <<>> when the table does not exist
  length,        \* number of items
  index,         \* _index of an iterator; NULL when none is in use
  visited,       \* history: the keys ht_next has returned, in order
  most_visited, best_count   \* locals of get_most_visited

table    == <<entries, length>>
iterator == <<index, visited, most_visited, best_count>>
vars     == <<hash, table, iterator>>

Slots(es)    == 0 .. Len(es) - 1
At(es, i)    == es[i + 1]
Vacant       == [key |-> NULL, value |-> NULL]
NewTable(n)  == [i \in 1 .. n |-> Vacant]
Exists       == entries # <<>>

-----------------------------------------------------------------------------
(* Slot d of the probe sequence of key k.                                  *)
ProbeSlot(es, k, d) == (hash[k] + d) % Len(es)

(* The lengths of the probe sequences that end: at the key or at a vacancy.*)
Ends(es, k) ==
  {d \in Slots(es) : At(es, ProbeSlot(es, k, d)).key \in {k, NULL}}

(* The slot where the probing loops of ht_get and ht_set_entry stop.       *)
Probe(es, k) ==
  ProbeSlot(es, k, CHOOSE d \in Ends(es, k) : \A e \in Ends(es, k) : d <= e)

HtGet(k) == IF Exists THEN At(entries, Probe(entries, k)).value ELSE NULL

(* ht_set_entry, without the count of plength and the copy of the key.     *)
HtSetEntry(es, k, v) ==
  [es EXCEPT ![Probe(es, k) + 1] = [key |-> k, value |-> v]]

(* Mutant: the entries are copied to the slots they had.                   *)
HtExpandInPlace(es) == es \o NewTable(Len(es))

(* ht_expand: the filled slots, in order, set into a table twice as large; *)
(* moved[n] are its entries after n slots.                                 *)
HtExpand(es) ==
  LET moved[n \in 0 .. Len(es)] ==
        IF n = 0 THEN NewTable(2 * Len(es))
        ELSE IF es[n].key = NULL THEN moved[n - 1]
        ELSE HtSetEntry(moved[n - 1], es[n].key, es[n].value)
  IN  moved[Len(es)]

-----------------------------------------------------------------------------
Init ==
  /\ hash \in [Keys -> Hashes]
  /\ entries = <<>>
  /\ length = 0
  /\ index = NULL
  /\ visited = <<>>
  /\ most_visited = NULL
  /\ best_count = 0

HtCreate ==
  /\ ~Exists
  /\ entries' = NewTable(INITIAL_CAPACITY)
  /\ length' = 0
  /\ UNCHANGED <<hash, iterator>>

(* Mutant: expands a full table only.                                      *)
NeedsRoomWhenFull == length >= Len(entries)

NeedsRoom == length >= Len(entries) \div 2

(* Mutant: expands a table that has room.                                  *)
RoomyAlways == HtExpand(entries)

(* The table that ht_set_entry works on.                                   *)
Roomy == IF NeedsRoom THEN HtExpand(entries) ELSE entries

(* Mutant: counts an update as a new item.                                 *)
HtSetCountsAll(k, v) ==
  /\ Exists /\ index = NULL
  /\ NeedsRoom => 2 * Len(entries) <= MaxCapacity
  /\ entries' = HtSetEntry(Roomy, k, v)
  /\ length' = length + 1
  /\ UNCHANGED <<hash, iterator>>

(* ht_set when memory suffices.  `Don't call ht_set during iteration.'     *)
HtSet(k, v) ==
  /\ Exists /\ index = NULL
  /\ NeedsRoom => 2 * Len(entries) <= MaxCapacity
  /\ entries' = HtSetEntry(Roomy, k, v)
  /\ length' = IF HtGet(k) = NULL THEN length + 1 ELSE length
  /\ UNCHANGED <<hash, iterator>>

(* strdup of a new key fails: the table may have been expanded by then.    *)
(* Where calloc fails, ht_set leaves the table as it is.                   *)
HtSetFails(k) ==
  /\ Exists /\ index = NULL
  /\ NeedsRoom => 2 * Len(entries) <= MaxCapacity
  /\ HtGet(k) = NULL
  /\ entries' = Roomy
  /\ UNCHANGED <<hash, length, iterator>>

(* ht_iterator, in get_most_visited.                                       *)
HtIterator ==
  /\ Exists /\ index = NULL
  /\ index' = 0
  /\ visited' = <<>>
  /\ most_visited' = NULL
  /\ best_count' = 0
  /\ UNCHANGED <<hash, table>>

(* Mutant: keeps the last of the keys, not the most visited.               *)
BestOfLast(e) == most_visited' = e.key /\ best_count' = e.value

(* The body of the loop of get_most_visited.                               *)
Best(e) ==
  IF e.value > best_count
  THEN most_visited' = e.key /\ best_count' = e.value
  ELSE UNCHANGED <<most_visited, best_count>>

(* ht_next moves to the next filled slot and returns 1.                    *)
HtNext ==
  /\ index # NULL
  /\ \E i \in Slots(entries) :
       /\ i >= index /\ At(entries, i).key # NULL
       /\ \A j \in index .. i - 1 : At(entries, j).key = NULL
       /\ index' = i + 1
       /\ visited' = Append(visited, At(entries, i).key)
       /\ Best(At(entries, i))
  /\ UNCHANGED <<hash, table>>

(* ht_next finds no more items and returns 0; main then destroys the table.*)
Exhausted == index # NULL /\ \A i \in Slots(entries) : i >= index => At(entries, i).key = NULL

HtDestroy ==
  /\ Exhausted
  /\ entries' = <<>>
  /\ length' = 0
  /\ index' = NULL
  /\ visited' = <<>>
  /\ most_visited' = NULL
  /\ best_count' = 0
  /\ UNCHANGED hash

Next ==
  \/ HtCreate
  \/ \E k \in Keys : HtSetFails(k) \/ \E v \in Values : HtSet(k, v)
  \/ HtIterator
  \/ HtNext
  \/ HtDestroy

Spec == Init /\ [][Next]_vars
-----------------------------------------------------------------------------
(* Properties                                                              *)

(* TYPE.                                                                   *)
TypeOK ==
  /\ hash \in [Keys -> Hashes]
  /\ entries \in Seq([key : Keys, value : Values] \cup {Vacant})
  /\ Len(entries) \in 0 .. MaxCapacity
  /\ length \in Nat
  /\ index \in {NULL} \cup 0 .. Len(entries)
  /\ visited \in Seq(Keys)
  /\ most_visited \in Keys \cup {NULL}
  /\ best_count \in Values \cup {0}

(* SAFETY.  A probing loop always has a vacant slot to stop at, so that    *)
(* ht_get of an absent key returns: whatever was set, updated, expanded,   *)
(* or left half done by a failure of strdup.                               *)
ProbesEnd ==
  Exists => Cardinality({i \in Slots(entries) : At(entries, i).key = NULL})
              >= Len(entries) - Len(entries) \div 2

(* SAFETY.  When ht_next returns 0 it has returned every key of the table  *)
(* once, and get_most_visited has found a largest count and its key.       *)
IterationComplete ==
  Exhausted =>
    /\ ToSet(visited) = {k \in Keys : HtGet(k) # NULL}
    /\ Len(visited) = length
    /\ \A k \in ToSet(visited) : HtGet(k) <= best_count
    /\ visited # <<>> => HtGet(most_visited) = best_count

(* REFINEMENT.  The table is a dictionary: a call changes what ht_get      *)
(* returns for its own key at most, and ht_length, which main prints as    *)
(* the number of unique IPs, is the number of the keys that it finds.      *)
Abstract == INSTANCE Dict WITH dict <- [k \in Keys |-> HtGet(k)], size <- length

DictSpec == Abstract!Spec
=============================================================================
