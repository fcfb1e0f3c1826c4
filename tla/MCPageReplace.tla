---------------------------- MODULE MCPageReplace ---------------------------
(* Small instances of PageReplace.                                           *)
EXTENDS PageReplace

\* All the sequences of n references to the pages 0 .. p - 1.
Typed(p, n) == [1 .. n -> 0 .. p - 1]

Call(n, typed, name) == [n |-> n, typed |-> typed, name |-> name]

\* Three frames and four pages; the first page is one that others can be
\* smaller and larger than, and the second one is another.
ThreeFrames == {Call(3, q, "all") : q \in {q \in Typed(4, 7) : q[1] = 1 /\ q[2] \in {0, 2}}}

TwoFrames == {Call(2, q, "all") : q \in Typed(3, 5)}

\* No frame, one, as many as Byte, three written as 11; a page beyond Byte, a
\* negative number within what is read and one beyond it, no number, no policy.
OddCalls ==
    {Call(n, q, name) :
        n \in {0, 1, 8, 11},
        q \in {<<8, 1, 0>>, <<1, -1, 2>>, <<0, 1, 2, 0, 3, 1, 0, -1>>, <<>>},
        name \in {"fifo", "second_chance", "opt"}}

Calls == ThreeFrames \cup TwoFrames \cup OddCalls
=============================================================================
