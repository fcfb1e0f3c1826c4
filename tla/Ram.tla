-------------------------------- MODULE Ram --------------------------------
(* The physical frames of 010PageReplace (os/RAM.c), the two searches the    *)
(* replacement policies make over them, and the parts every policy shares.   *)
(* All the small integers of the program are bytes; Byte is 256 in the build *)
(* and scaled down in the runs, FRAME_EMPTY and int8_t with it.              *)
EXTENDS Integers, FiniteSets, Sequences

CONSTANT Byte

ASSUME ByteEven == Byte \in Nat /\ Byte >= 4 /\ Byte % 2 = 0

VARIABLES num_frames,   \* uint8_t
          frames,       \* frames[0 .. num_frames - 1]: a page or FRAME_EMPTY
          hits, misses,
          result        \* the access_result of the last access

ramVars == <<num_frames, frames, hits, misses, result>>

FrameEmpty == Byte - 1

Bytes == 0 .. Byte - 1

Uint8(n) == n % Byte

\* The conversion of an index to int8_t: the upper half becomes negative.
Int8(i) == IF i < Byte \div 2 THEN i ELSE i - Byte

-----------------------------------------------------------------------------
(* find_page: the first frame that holds page, narrowed to int8_t; -1 when   *)
(* there is none.                                                            *)
FindPage(page) ==
    IF \A i \in DOMAIN frames : frames[i] # page
    THEN -1
    ELSE Int8(CHOOSE i \in DOMAIN frames :
                /\ frames[i] = page
                /\ \A j \in DOMAIN frames : frames[j] = page => i <= j)

FindEmpty == FindPage(FrameEmpty)

(* frames[i] = page.  A negative i is a byte of the heap in front of the     *)
(* array, in the buffer stdout was given by the first printf.                *)
Store(i, page) == IF i \in DOMAIN frames THEN [frames EXCEPT ![i] = page] ELSE frames

\* What frames[i] may read: a negative i finds any byte there.
Load(i) == IF i \in DOMAIN frames THEN {frames[i]} ELSE Bytes

Result(hit, evicted, i) == [hit |-> hit, evicted |-> evicted, frame_idx |-> Uint8(i)]

NoResult == Result(FALSE, FrameEmpty, 0)

EmptyFrames(n) == [i \in 0 .. n - 1 |-> FrameEmpty]

\* A hit in frame i: counted, and nothing is loaded.
Hit(i) ==
    /\ hits' = hits + 1
    /\ result' = Result(TRUE, FrameEmpty, i)
    /\ UNCHANGED <<num_frames, frames, misses>>

\* A miss that finds a free frame.
Fill(page) ==
    /\ FindEmpty # -1
    /\ misses' = misses + 1
    /\ frames' = Store(FindEmpty, page)
    /\ result' = Result(FALSE, FrameEmpty, FindEmpty)
    /\ UNCHANGED <<num_frames, hits>>

\* page takes the frame i of the page evicted.
Replace(i, evicted, page) ==
    /\ frames' = Store(i, page)
    /\ result' = Result(FALSE, evicted, i)
    /\ UNCHANGED <<num_frames, hits>>

Resident == {frames[i] : i \in DOMAIN frames} \ {FrameEmpty}
=============================================================================
