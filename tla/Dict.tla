-------------------------------- MODULE Dict --------------------------------
(***************************************************************************)
(* What ht.h promises of a hash table: a dictionary.  ht_get returns the   *)
(* value last set, or NULL; ht_length is the number of keys; a failing     *)
(* ht_set changes nothing.                                                 *)
(***************************************************************************)
EXTENDS Integers

CONSTANTS Keys, Values, NULL

VARIABLES
  dict,   \* the value of every key, NULL for a key not in the table
  size    \* the number of keys in the table

vars == <<dict, size>>

Empty == [k \in Keys |-> NULL]

Init == dict = Empty /\ size = 0

(* The value of a known key changes.                                       *)
Update(k, v) ==
  /\ dict[k] # NULL
  /\ dict' = [dict EXCEPT ![k] = v]
  /\ UNCHANGED size

(* A key comes in.                                                         *)
Insert(k, v) ==
  /\ dict[k] = NULL
  /\ dict' = [dict EXCEPT ![k] = v]
  /\ size' = size + 1

Destroy == dict' = Empty /\ size' = 0

Next == Destroy \/ \E k \in Keys, v \in Values : Update(k, v) \/ Insert(k, v)

Spec == Init /\ [][Next]_vars
=============================================================================
