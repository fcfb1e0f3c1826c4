--------------------------- MODULE EvictionQueue ----------------------------
(* What the four policies promise, with no frame, index or pointer in sight: *)
(* the resident pages in the order in which they are to go.  Every reference *)
(* is served: its page is there afterwards.  A page enters only when it is   *)
(* not there, and one leaves only when there is no room.                     *)
EXTENDS Integers, Sequences

VARIABLES policy,   \* the policy that is run
          room,     \* the number of frames
          page,     \* the page referenced now
          served,   \* whether it has been served
          queue,    \* the resident pages, the next to go first
          marked    \* the pages that get a second chance

vars == <<policy, room, page, served, queue, marked>>

Resident == {queue[k] : k \in DOMAIN queue}

Without(k) == SubSeq(queue, 1, k - 1) \o SubSeq(queue, k + 1, Len(queue))

Init == policy = "none" /\ room = 0 /\ ~served /\ queue = <<>> /\ marked = {}

\* The arguments are read.
Boot == policy = "none" /\ UNCHANGED <<policy, served, queue, marked>>

\* Another policy begins, with nothing resident.
Begin ==
    /\ policy' \in {"fifo", "min", "lru", "second_chance"} \ {policy}
    /\ queue' = <<>>
    /\ marked' = {}
    /\ ~served'
    /\ UNCHANGED room

NextReference == served /\ ~served' /\ UNCHANGED <<policy, room, queue, marked>>

Serve == ~served /\ served' /\ UNCHANGED <<policy, room, page>>

\* A hit keeps the order, except that LRU sends the page to the end.
Use == \E k \in DOMAIN queue :
    /\ Serve
    /\ queue[k] = page
    /\ queue' = IF policy = "lru" THEN Append(Without(k), page) ELSE queue
    /\ marked' = IF policy = "second_chance" THEN marked \cup {page} ELSE marked

Load ==
    /\ Serve
    /\ page \notin Resident
    /\ Len(queue) < room
    /\ queue' = Append(queue, page)
    /\ UNCHANGED marked

\* A marked page at the head is spared, once.
Spare ==
    /\ policy = "second_chance"
    /\ ~served
    /\ page \notin Resident
    /\ Len(queue) = room
    /\ queue[1] \in marked
    /\ queue' = Append(Tail(queue), queue[1])
    /\ marked' = marked \ {queue[1]}
    /\ UNCHANGED <<policy, room, page, served>>

\* MIN may evict any page; the others evict the head.
Evict ==
    /\ Serve
    /\ page \notin Resident
    /\ Len(queue) = room
    /\ IF policy = "min"
       THEN \E k \in DOMAIN queue : queue' = [queue EXCEPT ![k] = page]
       ELSE queue[1] \notin marked /\ queue' = Append(Tail(queue), page)
    /\ UNCHANGED marked

Next == Boot \/ Begin \/ NextReference \/ Use \/ Load \/ Spare \/ Evict

Spec == Init /\ [][Next]_vars
=============================================================================
