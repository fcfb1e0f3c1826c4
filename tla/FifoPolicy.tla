----------------------------- MODULE FifoPolicy -----------------------------
(* scheduler_fifo: a circular queue of frame indices, of which the first     *)
(* num_frames entries are used.                                              *)
EXTENDS Ram

VARIABLES fifo_queue, fifo_head, fifo_count

fifoVars == <<fifo_queue, fifo_head, fifo_count>>

FifoReset ==
    /\ fifo_queue' = [k \in Bytes |-> FrameEmpty]
    /\ fifo_head' = 0
    /\ fifo_count' = 0

FifoHit(page) ==
    /\ FindPage(page) # -1
    /\ Hit(FindPage(page))
    /\ UNCHANGED fifoVars

FifoFill(page) ==
    /\ FindPage(page) = -1
    /\ Fill(page)
    /\ fifo_queue' = [fifo_queue EXCEPT
                        ![(fifo_head + fifo_count) % num_frames] = Uint8(FindEmpty)]
    /\ fifo_count' = Uint8(fifo_count + 1)
    /\ UNCHANGED fifo_head

\* Mutant of FifoEvict: the head is not brought back to the start of the queue.
FifoEvictNoWrap(page) ==
    /\ FindPage(page) = -1
    /\ FindEmpty = -1
    /\ misses' = misses + 1
    /\ LET victim == fifo_queue[fifo_head]
       IN Replace(victim, frames[victim], page)
    /\ fifo_head' = fifo_head + 1
    /\ UNCHANGED <<fifo_queue, fifo_count>>

\* The frame at the head gets the new page, and becomes the last to go.
FifoEvict(page) ==
    /\ FindPage(page) = -1
    /\ FindEmpty = -1
    /\ misses' = misses + 1
    /\ LET victim == fifo_queue[fifo_head]
       IN Replace(victim, frames[victim], page)
    /\ fifo_head' = (fifo_head + 1) % num_frames
    /\ UNCHANGED <<fifo_queue, fifo_count>>

FifoAccess(page) == FifoHit(page) \/ FifoFill(page) \/ FifoEvict(page)

FifoTypeOK ==
    /\ fifo_queue \in [Bytes -> Bytes]
    /\ fifo_head \in 0 .. num_frames
    /\ num_frames > 0 => fifo_head < num_frames
    /\ fifo_count \in Bytes

\* The pages in the order in which they will be evicted.
FifoOrder == [k \in 1 .. fifo_count |->
                frames[fifo_queue[(fifo_head + k - 1) % num_frames]]]
=============================================================================
