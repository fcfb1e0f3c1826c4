--------------------------- MODULE VirtualMemory ----------------------------
(***************************************************************************)
(* 009VirtualMemory: main occupies a random part of the physical frames,   *)
(* loads a process of num_vpage pages into the first free ones, and        *)
(* translates the addresses of a file through the page table.              *)
(*                                                                         *)
(* Byte stands for 256: the build has 16-bit addresses, of which a byte is *)
(* the page or frame and a byte the offset.                                *)
(***************************************************************************)
EXTENDS Integers, FiniteSets

CONSTANTS
  NumFrames,     \* NUM_FRAMES: 100
  Byte,          \* number of values of a uint8_t
  MinFree,       \* the literal 10 of RAM_init
  PageArgs,      \* the values of -V
  Addresses,     \* the numbers in the file
  Junk,          \* what the byte behind the page table may hold
  NULL

Bytes  == 0 .. Byte - 1
Words  == 0 .. Byte * Byte - 1
Frames == 0 .. NumFrames - 1
States == {"FREE", "PREOCCUPIED", "OCCUPIED"}

ASSUME VirtualMemoryAssumption ==
  /\ NumFrames \in Nat \ {0}
  /\ Byte \in Nat
  /\ 2 * NumFrames <= Byte          \* an int8_t holds every index
  /\ MinFree \in Nat
  /\ 5 * MinFree <= 2 * NumFrames   \* so much is free after any draw
  /\ PageArgs \subseteq Int
  /\ Addresses \subseteq Int
  /\ Junk \subseteq Bytes

VARIABLES
  pc,            \* the statement main is about to execute
  num_vpage,     \* the argument, then the capacity of the page table
  occ_count,     \* frames to occupy
  frames,        \* state and v_page of each frame
  table,         \* the frame numbers of the page table, or NULL
  page,          \* i of load_process: the pages loaded
  view,          \* current_ram_view, the frames as they were last displayed
  v_addr,        \* the address that is translated
  p_addr         \* its translation, -1 if it was refused

vars == <<pc, num_vpage, occ_count, frames, table, page, view, v_addr, p_addr>>

In(state) == {f \in Frames : frames[f].state = state}

Uint8(n)  == n % Byte
Uint16(n) == n % (Byte * Byte)
Int8(b)   == IF 2 * b < Byte THEN b ELSE b - Byte

Cleared == [f \in Frames |-> [state |-> "FREE", v_page |-> 0]]

Init ==
  /\ pc = "parse"
  /\ num_vpage = 0 /\ occ_count = 0 /\ page = 0
  /\ frames = Cleared /\ view = Cleared
  /\ table = NULL
  /\ v_addr = 0 /\ p_addr = -1
-----------------------------------------------------------------------------
(* Starting up.                                                            *)

(* -V is narrowed to a byte; -help ends the program.                       *)
ParseArgs ==
  /\ pc = "parse"
  /\ \/ \E n \in PageArgs : num_vpage' = Uint8(n) /\ pc' = "draw"
     \/ pc' = "exit" /\ UNCHANGED num_vpage
  /\ UNCHANGED <<occ_count, frames, table, page, view, v_addr, p_addr>>

(* The two conditions under which RAM_init accepts a draw.                 *)
Accepted(occ) ==
  \/ num_vpage > MinFree /\ NumFrames - occ >= num_vpage
  \/ NumFrames - occ >= MinFree

Draw ==
  /\ pc = "draw"
  /\ \E occ \in NumFrames \div 10 .. (NumFrames * 3) \div 5 :
       /\ occ_count' = occ
       /\ pc' = IF Accepted(occ) THEN "init" ELSE "draw"
  /\ UNCHANGED <<num_vpage, frames, table, page, view, v_addr, p_addr>>

(* Mutant of RamInit: one frame more than was drawn is taken.              *)
RamInitOneMore ==
  /\ pc = "init"
  /\ table' \in {NULL, [i \in 0 .. num_vpage - 1 |-> 0]}
  /\ \E taken \in SUBSET Frames :
       /\ Cardinality(taken) = occ_count + 1
       /\ frames' = [f \in Frames |->
            [state |-> IF f \in taken THEN "PREOCCUPIED" ELSE "FREE", v_page |-> 0]]
  /\ view' = frames'
  /\ pc' = "load"
  /\ UNCHANGED <<num_vpage, occ_count, page, v_addr, p_addr>>

(* ram_init: the table, which there may be no memory for, and occ_count    *)
(* frames taken at random; the frames are displayed.  The assertion        *)
(* between the two is the second condition of Accepted again.              *)
RamInit ==
  /\ pc = "init"
  /\ table' \in {NULL, [i \in 0 .. num_vpage - 1 |-> 0]}
  /\ \E taken \in SUBSET Frames :
       /\ Cardinality(taken) = occ_count
       /\ frames' = [f \in Frames |->
            [state |-> IF f \in taken THEN "PREOCCUPIED" ELSE "FREE", v_page |-> 0]]
  /\ view' = frames'
  /\ pc' = "load"
  /\ UNCHANGED <<num_vpage, occ_count, page, v_addr, p_addr>>

(* Mutant of Allocate: the last free frame.                                *)
AllocateLast == CHOOSE f \in In("FREE") : \A g \in In("FREE") : g <= f

Allocate == CHOOSE f \in In("FREE") : \A g \in In("FREE") : f <= g

LoadPage ==
  /\ pc = "load"
  /\ page < num_vpage
  /\ table # NULL
  /\ In("FREE") # {}
  /\ table' = [table EXCEPT ![page] = Uint8(Allocate)]
  /\ frames' = [frames EXCEPT ![Allocate] = [state |-> "OCCUPIED", v_page |-> page]]
  /\ page' = page + 1
  /\ UNCHANGED <<pc, num_vpage, occ_count, view, v_addr, p_addr>>

(* No frame is free: the program exits with an error.                      *)
NoRoom ==
  /\ pc = "load"
  /\ page < num_vpage
  /\ In("FREE") = {}
  /\ pc' = "no room"
  /\ UNCHANGED <<num_vpage, occ_count, frames, table, page, view, v_addr, p_addr>>

(* All pages are in: the frames are displayed again, the file is opened.   *)
(* Nobody looks whether it was.                                            *)
Loaded ==
  /\ pc = "load"
  /\ page = num_vpage
  /\ view' = frames
  /\ pc' \in {"batch", "crash"}
  /\ UNCHANGED <<num_vpage, occ_count, frames, table, page, v_addr, p_addr>>

(* Neither does anybody look at the result of pt_create: the first use of  *)
(* a table that is NULL ends the program.                                  *)
Dereference ==
  /\ table = NULL
  /\ \/ pc = "load" /\ page < num_vpage /\ In("FREE") # {}
     \/ pc = "batch"
  /\ pc' = "crash"
  /\ UNCHANGED <<num_vpage, occ_count, frames, table, page, view, v_addr, p_addr>>
-----------------------------------------------------------------------------
(* The translations.                                                       *)

Vpn(a)    == Uint8(a \div Byte)
Offset(a) == a % Byte

(* Mutant of PtGetPfn: the bound is two too large.                         *)
PtGetPfnWide(vpn, behind) ==
  IF vpn > num_vpage + 1 THEN -1
  ELSE IF vpn < num_vpage THEN Int8(table[vpn])
  ELSE Int8(behind)

(* The page number equal to the capacity is let through, and reads what is *)
(* behind the entries on the heap.                                         *)
PtGetPfn(vpn, behind) ==
  IF vpn > num_vpage THEN -1
  ELSE IF vpn < num_vpage THEN Int8(table[vpn])
  ELSE Int8(behind)

(* translate                                                               *)
Physical(a, behind) ==
  LET pfn == PtGetPfn(Vpn(a), behind)
  IN IF pfn = -1 THEN -1 ELSE pfn * Byte + Offset(a)

(* One line of the file, a number of any size, is narrowed, translated and *)
(* printed.                                                                *)
Translate ==
  /\ pc = "batch"
  /\ table # NULL
  /\ \E number \in Addresses, behind \in Junk :
       /\ v_addr' = Uint16(number)
       /\ p_addr' = Physical(Uint16(number), behind)
  /\ pc' = "shown"
  /\ UNCHANGED <<num_vpage, occ_count, frames, table, page, view>>

(* The user presses Enter.                                                 *)
Enter ==
  /\ pc = "shown"
  /\ pc' = "batch"
  /\ UNCHANGED <<num_vpage, occ_count, frames, table, page, view, v_addr, p_addr>>

(* The end of the file: RAM_free.                                          *)
RamFree ==
  /\ pc = "batch"
  /\ table # NULL
  /\ table' = NULL
  /\ pc' = "exit"
  /\ UNCHANGED <<num_vpage, occ_count, frames, page, view, v_addr, p_addr>>

Stopped == pc \in {"exit", "no room", "crash"} /\ UNCHANGED vars

Next ==
  \/ ParseArgs \/ Draw \/ RamInit
  \/ LoadPage \/ NoRoom \/ Loaded \/ Dereference
  \/ Translate \/ Enter \/ RamFree
  \/ Stopped

Spec == Init /\ [][Next]_vars
-----------------------------------------------------------------------------
(* Properties                                                              *)

(* TYPE.                                                                   *)
TypeOK ==
  /\ pc \in {"parse", "draw", "init", "load", "batch", "shown", "exit", "no room", "crash"}
  /\ num_vpage \in Bytes
  /\ occ_count \in 0 .. (NumFrames * 3) \div 5
  /\ frames \in [Frames -> [state : States, v_page : Bytes]]
  /\ table = NULL \/ table \in [0 .. num_vpage - 1 -> Bytes]
  /\ page \in 0 .. num_vpage
  /\ view \in [Frames -> [state : States, v_page : Bytes]]
  /\ v_addr \in Words
  /\ p_addr \in Int

(* SAFETY.  The pages loaded so far and the frames they occupy are each    *)
(* other's inverse; the frames follow the pages in order, no free frame is *)
(* passed over, and none of the frames in use before is taken              *)
(* ("mapped one-to-one to the first available free frames",                *)
(* Documentation.md:58; mmu.c:74-88).                                      *)
OneToOne ==
  table # NULL =>
    /\ \A i \in 0 .. page - 1 :
         /\ table[i] \in In("OCCUPIED")
         /\ frames[table[i]].v_page = i
    /\ \A f \in In("OCCUPIED") :
         /\ frames[f].v_page < page
         /\ table[frames[f].v_page] = f
    /\ \A f, g \in In("OCCUPIED") :
         f < g => frames[f].v_page < frames[g].v_page
    /\ \A f \in In("OCCUPIED"), g \in In("FREE") : f < g
    /\ pc = "load" => Cardinality(In("PREOCCUPIED")) = occ_count

(* SAFETY.  The translation that is printed and the map that was displayed *)
(* before agree: the page of the address is in the frame of its            *)
(* translation, at the same offset, and the pages the process has not are  *)
(* refused.  The first page behind the table is excepted, which            *)
(* pt_get_pfn answers from the heap (page_table.c:52).                     *)
TranslationExact ==
  pc = "shown" =>
    /\ Vpn(v_addr) < num_vpage =>
         /\ p_addr \div Byte \in Frames
         /\ view[p_addr \div Byte] = [state |-> "OCCUPIED", v_page |-> Vpn(v_addr)]
         /\ Offset(p_addr) = Offset(v_addr)
    /\ Vpn(v_addr) > num_vpage => p_addr = -1

(* SAFETY.  The program gives up only if the process has more pages than   *)
(* the draw has left frames: loading wastes none (mmu.c:63-88).            *)
LoadFits == pc = "no room" => num_vpage > NumFrames - occ_count
-----------------------------------------------------------------------------
(* What the repository says of the program, and the code does not keep.    *)

(* A process that fits in the frames at all is loaded "into the remaining  *)
(* free frames" (Documentation.md:3, and "Run with defaults (49 virtual    *)
(* pages", Documentation.md:98): the draw of RAM_init leaves it room.     *)
EnoughRoom == pc # "no room"
=============================================================================
