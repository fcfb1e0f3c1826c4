------------------------ MODULE VirtualMemoryProofs -------------------------
(***************************************************************************)
(* Proofs about VirtualMemory, for any number of frames, pages and         *)
(* addresses, and whatever frames are taken at first.                      *)
(***************************************************************************)
EXTENDS VirtualMemory, FiniteSetTheorems, WellFoundedInduction, TLAPS

USE VirtualMemoryAssumption

-----------------------------------------------------------------------------
(* Arithmetic of bytes and addresses                                       *)

LEMMA ByteType == Byte \in Nat \ {0}
OBVIOUS

LEMMA ModRange ==
  ASSUME NEW B \in Nat \ {0}, NEW n \in Int
  PROVE  n % B \in 0 .. B - 1
BY SMT

LEMMA DivRange ==
  ASSUME NEW B \in Nat \ {0}, NEW n \in 0 .. B * B - 1
  PROVE  n \div B \in 0 .. B - 1
BY SMT

(* An address is put together from its two parts, and taken apart again.   *)
LEMMA DivMod ==
  ASSUME NEW B \in Nat \ {0}, NEW q \in Int, NEW r \in 0 .. B - 1
  PROVE  (q * B + r) \div B = q /\ (q * B + r) % B = r
BY SMT

LEMMA Joined ==
  ASSUME NEW B \in Nat, NEW q \in Int, NEW r \in Int
  PROVE  q * B + r \in Int
OBVIOUS

LEMMA Uint8Type == ASSUME NEW n \in Int PROVE Uint8(n) \in Bytes
BY ByteType, ModRange DEF Uint8, Bytes

LEMMA Uint8Same == ASSUME NEW b \in Bytes PROVE Uint8(b) = b
BY ByteType DEF Uint8, Bytes

LEMMA Uint16Type ==
  ASSUME NEW n \in Int
  PROVE  Uint16(n) \in Words
<1>1. Byte * Byte \in Nat \ {0}
  BY ByteType
<1> QED
  BY <1>1, ModRange DEF Uint16, Words

LEMMA VpnType ==
  ASSUME NEW a \in Words
  PROVE  /\ Vpn(a) \in Bytes
         /\ Offset(a) \in 0 .. Byte - 1
         /\ Offset(a) \in Int
<1>1. a \div Byte \in 0 .. Byte - 1
  BY ByteType, DivRange DEF Words
<1>2. a \in Int
  BY ByteType DEF Words
<1> QED
  BY <1>1, <1>2, ByteType, ModRange, Uint8Type DEF Vpn, Offset

LEMMA Int8Type == ASSUME NEW b \in Bytes PROVE Int8(b) \in Int
BY DEF Int8, Bytes

(* The number of a frame is not changed by its way through the table.      *)
LEMMA FrameNumber ==
  ASSUME NEW f \in Frames
  PROVE  /\ f \in Bytes
         /\ Int8(f) = f
         /\ f # -1
BY DEF Frames, Bytes, Int8

-----------------------------------------------------------------------------
(* Frames                                                                  *)

LEMMA FramesFinite ==
  ASSUME NEW S \in SUBSET Frames
  PROVE  IsFiniteSet(S) /\ Cardinality(S) \in Nat
<1>1. IsFiniteSet(Frames)
  BY FS_Interval DEF Frames
<1> QED
  BY <1>1, FS_Subset, FS_CardinalityType

LEMMA FramesCount == Cardinality(Frames) = NumFrames
BY FS_Interval DEF Frames

LEMMA InFrames == ASSUME NEW s PROVE In(s) \in SUBSET Frames
BY DEF In

Less == {p \in Nat \X Nat : p[1] < p[2]}

LEMMA SmallestNumber ==
  ASSUME NEW S \in SUBSET Nat, S # {}
  PROVE  \E m \in S : \A k \in S : m <= k
<1>1. IsWellFoundedOn(Less, Nat)
  <2>1. OpToRel(<, Nat) = Less
    BY Zenon DEF OpToRel, Less
  <2> QED
    BY <2>1, NatLessThanWellFounded, Zenon
<1>2. PICK m \in S : \A k \in S : <<k, m>> \notin Less
  BY <1>1, WFMin
<1>3. ASSUME NEW k \in S PROVE m <= k
  <2>1. <<k, m>> \in Nat \X Nat /\ <<k, m>> \notin Less
    BY <1>2
  <2>2. ~(k < m)
    BY <2>1 DEF Less
  <2> QED
    BY <2>2
<1> QED
  BY <1>3

(* allocate_frame finds the first of the free frames, if there is one.     *)
LEMMA AllocateFirst ==
  ASSUME In("FREE") # {}
  PROVE  /\ Allocate \in In("FREE")
         /\ \A g \in In("FREE") : Allocate <= g
<1>1. In("FREE") \in SUBSET Nat
  BY DEF In, Frames
<1>2. \E f \in In("FREE") : \A g \in In("FREE") : f <= g
  BY <1>1, SmallestNumber
<1> QED
  BY <1>2, Zenon DEF Allocate

-----------------------------------------------------------------------------
(* Type correctness.  The capacity of the table is the number of pages     *)
(* because there is no table before that number is known.                  *)

Starting == pc \in {"parse", "draw", "init"} => table = NULL /\ page = 0

TypeInv == TypeOK /\ Starting

LEMMA WordsZero == 0 \in Words /\ 0 \in Bytes
<1>1. Byte * Byte >= 1
  BY ByteType
<1> QED
  BY <1>1, ByteType DEF Words, Bytes

LEMMA NoPages == \A n \in Bytes : 0 \in 0 .. n
BY DEF Bytes

LEMMA TypeInit == Init => TypeInv
BY WordsZero DEF Init, TypeInv, TypeOK, Starting, Cleared, States

(* What pt_get_pfn answers is a number.                                    *)
LEMMA PfnType ==
  ASSUME TypeOK, table # NULL, NEW vpn \in Bytes, NEW behind \in Bytes
  PROVE  PtGetPfn(vpn, behind) \in Int
<1>1. vpn \in Int /\ num_vpage \in Int /\ Int8(behind) \in Int
  <2>1. num_vpage \in Bytes
    BY DEF TypeOK
  <2> QED
    BY <2>1, Int8Type DEF Bytes
<1>2. ASSUME vpn < num_vpage PROVE Int8(table[vpn]) \in Int
  <2>1. vpn \in 0 .. num_vpage - 1
    BY <1>1, <1>2 DEF Bytes
  <2>2. table[vpn] \in Bytes
    BY <2>1 DEF TypeOK
  <2> QED
    BY <2>2, Int8Type
<1> QED
  BY <1>1, <1>2 DEF PtGetPfn

LEMMA TypeStep == TypeInv /\ [Next]_vars => TypeOK'
<1> SUFFICES ASSUME TypeOK, Starting, [Next]_vars PROVE TypeOK'
  BY DEF TypeInv
<1> USE DEF TypeOK
<1>1. CASE ParseArgs
  <2>1. num_vpage' \in Bytes
    BY <1>1, Uint8Type DEF ParseArgs
  <2>2. table' = NULL /\ page' = 0
    BY <1>1 DEF ParseArgs, Starting
  <2>3. page' \in 0 .. num_vpage'
    BY <2>1, <2>2, NoPages
  <2> QED
    BY <1>1, <2>1, <2>2, <2>3 DEF ParseArgs
<1>2. CASE Draw
  BY <1>2 DEF Draw
<1>3. CASE RamInit
  <2>1. 0 \in Bytes
    BY WordsZero
  <2>2. table' = NULL \/ table' \in [0 .. num_vpage - 1 -> Bytes]
    BY <1>3, <2>1 DEF RamInit
  <2>3. frames' \in [Frames -> [state : States, v_page : Bytes]]
    BY <1>3, <2>1 DEF RamInit, States
  <2> QED
    BY <1>3, <2>2, <2>3 DEF RamInit
<1>4. CASE LoadPage
  <2>1. Uint8(Allocate) \in Bytes /\ Allocate \in Frames
    BY <1>4, AllocateFirst, InFrames, FrameNumber, Uint8Type DEF LoadPage, Frames
  <2>2. page \in Bytes /\ page + 1 \in 0 .. num_vpage
    BY <1>4 DEF LoadPage, Bytes
  <2>3. table' \in [0 .. num_vpage - 1 -> Bytes]
    BY <1>4, <2>1 DEF LoadPage
  <2>4. frames' \in [Frames -> [state : States, v_page : Bytes]]
    BY <1>4, <2>1, <2>2 DEF LoadPage, States
  <2> QED
    BY <1>4, <2>2, <2>3, <2>4 DEF LoadPage
<1>5. CASE NoRoom \/ Loaded \/ Dereference \/ Enter \/ RamFree
  BY <1>5 DEF NoRoom, Loaded, Dereference, Enter, RamFree
<1>6. CASE Translate
  <2>1. PICK number \in Addresses, behind \in Junk :
          LET pfn == PtGetPfn(Vpn(Uint16(number)), behind)
          IN /\ v_addr' = Uint16(number)
             /\ p_addr' = IF pfn = -1 THEN -1 ELSE pfn * Byte + Offset(Uint16(number))
    BY <1>6 DEF Translate, Physical
  <2> DEFINE a == Uint16(number)
  <2>2. a \in Words
    BY Uint16Type
  <2>3. Vpn(a) \in Bytes /\ Offset(a) \in Int
    BY <2>2, VpnType, Zenon
  <2>4. PtGetPfn(Vpn(a), behind) \in Int
    BY <1>6, <2>3, PfnType DEF Translate
  <2>5. v_addr' = a
    BY <2>1
  <2>6. p_addr' \in Int
    BY <2>1, <2>3, <2>4, ByteType, Joined
  <2> QED
    BY <1>6, <2>2, <2>5, <2>6 DEF Translate
<1>7. CASE UNCHANGED vars
  BY <1>7 DEF vars
<1> QED
  BY <1>1, <1>2, <1>3, <1>4, <1>5, <1>6, <1>7 DEF Next, Stopped

LEMMA TypeInvStep == TypeInv /\ [Next]_vars => TypeInv'
<1>1. TypeInv /\ [Next]_vars => Starting'
  BY DEF TypeInv, Starting, Next, vars, ParseArgs, Draw, RamInit, LoadPage, NoRoom,
         Loaded, Dereference, Translate, Enter, RamFree, Stopped
<1> QED
  BY <1>1, TypeStep DEF TypeInv

(* Every variable keeps its type.                                          *)
THEOREM Typing == Spec => []TypeOK
<1>1. TypeInv => TypeOK
  BY DEF TypeInv
<1> QED
  BY <1>1, TypeInit, TypeInvStep, PTL DEF Spec

-----------------------------------------------------------------------------
(* The map of pages and frames.  Counting needs the number of frames       *)
(* loaded, and the translations need to know that the display is current.  *)

Counted ==
  pc \in {"load", "no room", "batch", "shown"} =>
    /\ Cardinality(In("PREOCCUPIED")) = occ_count
    /\ Cardinality(In("OCCUPIED")) = page

Displayed ==
  /\ pc \in {"batch", "shown"} => page = num_vpage /\ view = frames
  /\ pc = "shown" => table # NULL

MapInv == OneToOne /\ Counted /\ Displayed

LEMMA MapInit == Init => MapInv
BY DEF Init, MapInv, OneToOne, Counted, Displayed

(* What ram_init leaves.                                                   *)
LEMMA RamInitMap ==
  ASSUME TypeOK, Starting, RamInit
  PROVE  MapInv'
<1>1. PICK taken \in SUBSET Frames :
        /\ Cardinality(taken) = occ_count
        /\ frames' = [f \in Frames |->
             [state |-> IF f \in taken THEN "PREOCCUPIED" ELSE "FREE", v_page |-> 0]]
  BY DEF RamInit
<1>2. In("PREOCCUPIED")' = taken /\ In("OCCUPIED")' = {}
  BY <1>1 DEF In
<1>3. page' = 0 /\ occ_count' = occ_count /\ pc' = "load"
  BY DEF RamInit, Starting
<1>4. Cardinality(In("PREOCCUPIED")') = occ_count' /\ Cardinality(In("OCCUPIED")') = page'
  BY <1>1, <1>2, <1>3, FS_EmptySet
<1>5. OneToOne'
  BY <1>2, <1>3, <1>4 DEF OneToOne
<1> QED
  BY <1>3, <1>4, <1>5 DEF MapInv, Counted, Displayed

(* One page more: the frame moves from the free ones to the occupied ones. *)
LEMMA LoadPageFrames ==
  ASSUME TypeOK, LoadPage
  PROVE  /\ Allocate \in Frames
         /\ Allocate \in In("FREE") /\ Allocate \notin In("OCCUPIED")
         /\ \A g \in In("FREE") : Allocate <= g
         /\ In("FREE")' = In("FREE") \ {Allocate}
         /\ In("OCCUPIED")' = In("OCCUPIED") \cup {Allocate}
         /\ In("PREOCCUPIED")' = In("PREOCCUPIED")
         /\ frames'[Allocate].v_page = page
         /\ \A f \in In("OCCUPIED") : frames'[f] = frames[f]
         /\ table' = [table EXCEPT ![page] = Allocate]
<1>1. /\ Allocate \in In("FREE")
      /\ \A g \in In("FREE") : Allocate <= g
  BY AllocateFirst DEF LoadPage
<1>2. Allocate \in Frames /\ frames[Allocate].state = "FREE"
  BY <1>1 DEF In
<1> DEFINE a == Allocate
<1> HIDE DEF a
<1>3. a \in Frames /\ frames[a].state = "FREE"
  BY <1>2 DEF a
<1>4. frames' = [frames EXCEPT ![a] = [state |-> "OCCUPIED", v_page |-> page]]
  BY DEF LoadPage, a
<1>5. frames \in [Frames -> [state : States, v_page : Bytes]]
  BY DEF TypeOK
<1>6. In("FREE")' = In("FREE") \ {a}
  BY <1>3, <1>4, <1>5 DEF In
<1>7. In("OCCUPIED")' = In("OCCUPIED") \cup {a}
  BY <1>3, <1>4, <1>5 DEF In
<1>8. In("PREOCCUPIED")' = In("PREOCCUPIED")
  BY <1>3, <1>4, <1>5 DEF In
<1>9. frames'[a].v_page = page /\ a \notin In("OCCUPIED")
  BY <1>3, <1>4, <1>5 DEF In
<1>10. \A f \in In("OCCUPIED") : frames'[f] = frames[f]
  BY <1>3, <1>4, <1>5 DEF In
<1>11. table' = [table EXCEPT ![page] = a]
  <2>1. Uint8(a) = a
    BY <1>3, FrameNumber, Uint8Same
  <2> QED
    BY <2>1 DEF LoadPage, a
<1> QED
  BY <1>1, <1>3, <1>6, <1>7, <1>8, <1>9, <1>10, <1>11 DEF a

LEMMA LoadPageOneToOne ==
  ASSUME TypeOK, OneToOne, Counted, LoadPage
  PROVE  OneToOne'
<1> DEFINE a == Allocate
<1> HIDE DEF a
<1>1. /\ a \in Frames /\ a \in In("FREE") /\ a \notin In("OCCUPIED")
      /\ \A g \in In("FREE") : a <= g
      /\ In("FREE")' = In("FREE") \ {a}
      /\ In("OCCUPIED")' = In("OCCUPIED") \cup {a}
      /\ In("PREOCCUPIED")' = In("PREOCCUPIED")
      /\ frames'[a].v_page = page
      /\ \A f \in In("OCCUPIED") : frames'[f] = frames[f]
      /\ table' = [table EXCEPT ![page] = a]
  BY LoadPageFrames DEF a
<1>2. /\ page' = page + 1 /\ pc' = pc /\ pc = "load" /\ occ_count' = occ_count
      /\ page \in 0 .. num_vpage - 1
      /\ table \in [0 .. num_vpage - 1 -> Bytes]
      /\ num_vpage \in Nat
  BY DEF LoadPage, TypeOK, Bytes
<1>3. /\ \A i \in 0 .. page - 1 : table[i] \in In("OCCUPIED") /\ frames[table[i]].v_page = i
      /\ \A f \in In("OCCUPIED") : frames[f].v_page < page /\ table[frames[f].v_page] = f
      /\ \A f, g \in In("OCCUPIED") : f < g => frames[f].v_page < frames[g].v_page
      /\ \A f \in In("OCCUPIED"), g \in In("FREE") : f < g
  BY DEF OneToOne, LoadPage
<1>4. \A f \in In("OCCUPIED") : frames[f].v_page \in Nat /\ f \in Nat
  <2>1. \A f \in Frames : frames[f].v_page \in Bytes /\ f \in Nat
    <3>1. frames \in [Frames -> [state : States, v_page : Bytes]]
      BY DEF TypeOK
    <3>2. \A f \in Frames : f \in Nat
      BY DEF Frames
    <3> QED
      BY <3>1, <3>2
  <2>2. Bytes \subseteq Nat
    BY DEF Bytes
  <2> QED
    BY <2>1, <2>2, InFrames
<1>5. table'[page] = a /\ \A i \in 0 .. page - 1 : table'[i] = table[i]
  BY <1>1, <1>2
<1>6. \A i \in 0 .. page' - 1 :
        table'[i] \in In("OCCUPIED")' /\ frames'[table'[i]].v_page = i
  BY <1>1, <1>2, <1>3, <1>5
<1>7. \A f \in In("OCCUPIED")' :
        frames'[f].v_page < page' /\ table'[frames'[f].v_page] = f
  BY <1>1, <1>2, <1>3, <1>4, <1>5
<1>8. \A f, g \in In("OCCUPIED")' : f < g => frames'[f].v_page < frames'[g].v_page
  <2>1. a \in Nat /\ page \in Nat /\ \A f \in In("OCCUPIED") : f < a
    BY <1>1, <1>2, <1>3 DEF Frames
  <2>2. SUFFICES ASSUME NEW f \in In("OCCUPIED") \cup {a}, NEW g \in In("OCCUPIED") \cup {a}, f < g
                 PROVE  frames'[f].v_page < frames'[g].v_page
    BY <1>1
  <2>3. f # a
    BY <2>1, <2>2, <1>4
  <2>4. CASE g = a
    BY <1>1, <1>3, <2>3, <2>4
  <2>5. CASE g # a
    BY <1>1, <1>3, <2>2, <2>3, <2>5
  <2> QED
    BY <2>4, <2>5
<1>9. \A f \in In("OCCUPIED")', g \in In("FREE")' : f < g
  <2>1. \A g \in In("FREE") : g \in Nat
    BY DEF In, Frames
  <2> QED
    BY <1>1, <1>3, <1>4, <2>1
<1>10. Cardinality(In("PREOCCUPIED")') = occ_count'
  BY <1>1, <1>2 DEF Counted
<1> QED
  BY <1>6, <1>7, <1>8, <1>9, <1>10 DEF OneToOne

LEMMA LoadPageMap ==
  ASSUME TypeOK, MapInv, LoadPage
  PROVE  MapInv'
<1>1. OneToOne'
  BY LoadPageOneToOne DEF MapInv
<1>2. Counted'
  <2>1. pc = "load" /\ pc' = "load" /\ page' = page + 1 /\ occ_count' = occ_count
    BY DEF LoadPage
  <2>2. Cardinality(In("PREOCCUPIED")) = occ_count /\ Cardinality(In("OCCUPIED")) = page
    BY <2>1 DEF MapInv, Counted
  <2>3. In("PREOCCUPIED")' = In("PREOCCUPIED")
    BY LoadPageFrames
  <2>4. Cardinality(In("OCCUPIED")') = Cardinality(In("OCCUPIED")) + 1
    <3>1. IsFiniteSet(In("OCCUPIED"))
      BY InFrames, FramesFinite
    <3> QED
      BY <3>1, LoadPageFrames, FS_AddElement
  <2> QED
    BY <2>1, <2>2, <2>3, <2>4 DEF Counted
<1>3. Displayed'
  BY DEF LoadPage, Displayed
<1> QED
  BY <1>1, <1>2, <1>3 DEF MapInv

LEMMA MapStep == TypeInv /\ MapInv /\ [Next]_vars => MapInv'
<1> SUFFICES ASSUME TypeOK, Starting, MapInv, [Next]_vars PROVE MapInv'
  BY DEF TypeInv
<1>1. CASE RamInit
  BY <1>1, RamInitMap
<1>2. CASE LoadPage
  BY <1>2, LoadPageMap
<1>3. CASE ParseArgs \/ Draw
  BY <1>3 DEF ParseArgs, Draw, Starting, MapInv, OneToOne, Counted, Displayed
<1>4. CASE RamFree
  BY <1>4 DEF RamFree, MapInv, OneToOne, Counted, Displayed
<1>5. CASE NoRoom \/ Loaded \/ Dereference \/ Translate \/ Enter \/ UNCHANGED vars
  <2>1. UNCHANGED <<frames, table, page, occ_count, num_vpage>> /\ (pc' = "load" => pc = "load")
    BY <1>5 DEF NoRoom, Loaded, Dereference, Translate, Enter, vars
  <2>2. \A s : In(s)' = In(s)
    BY <2>1 DEF In
  <2>3. OneToOne'
    BY <2>1, <2>2 DEF MapInv, OneToOne
  <2>4. Counted'
    <3>1. pc' \in {"load", "no room", "batch", "shown"} =>
            pc \in {"load", "no room", "batch", "shown"}
      BY <1>5 DEF NoRoom, Loaded, Dereference, Translate, Enter, vars
    <3> QED
      BY <2>1, <2>2, <3>1 DEF MapInv, Counted
  <2>5. Displayed'
    BY <1>5 DEF NoRoom, Loaded, Dereference, Translate, Enter, vars, MapInv, Displayed
  <2> QED
    BY <2>3, <2>4, <2>5 DEF MapInv
<1> QED
  BY <1>1, <1>2, <1>3, <1>4, <1>5 DEF Next, Stopped

LEMMA Always == Spec => [](TypeInv /\ MapInv)
<1>1. TypeInv /\ [Next]_vars => TypeInv'
  BY TypeInvStep
<1> QED
  BY <1>1, TypeInit, MapInit, MapStep, PTL DEF Spec

(* The pages and the frames they occupy are each other's inverse, in the   *)
(* order of the first free frames, and no frame in use is taken.           *)
THEOREM Mapping == Spec => []OneToOne
<1>1. MapInv => OneToOne
  BY DEF MapInv
<1> QED
  BY <1>1, Always, PTL

-----------------------------------------------------------------------------
(* Room                                                                    *)

LEMMA Numbers ==
  ASSUME TypeOK
  PROVE  occ_count \in Int /\ num_vpage \in Int /\ page \in Int
<1>1. /\ occ_count \in 0 .. (NumFrames * 3) \div 5
      /\ num_vpage \in Bytes
      /\ page \in 0 .. num_vpage
  BY DEF TypeOK
<1>2. (NumFrames * 3) \div 5 \in Int
  OBVIOUS
<1> QED
  BY <1>1, <1>2 DEF Bytes

(* When no frame is free, those in use before and those of the process are *)
(* all there are.                                                          *)
LEMMA NoneFree ==
  ASSUME TypeOK, Counted, NoRoom
  PROVE  NumFrames = occ_count + page
<1>1. /\ Cardinality(In("PREOCCUPIED")) = occ_count
      /\ Cardinality(In("OCCUPIED")) = page
  BY DEF Counted, NoRoom
<1>2. Frames = In("PREOCCUPIED") \cup In("OCCUPIED")
  <2>1. \A f \in Frames : frames[f].state \in States
    BY DEF TypeOK
  <2> QED
    BY <2>1 DEF NoRoom, In, States
<1>3. In("PREOCCUPIED") \cap In("OCCUPIED") = {}
  BY DEF In
<1>4. IsFiniteSet(In("PREOCCUPIED")) /\ IsFiniteSet(In("OCCUPIED"))
  BY InFrames, FramesFinite
<1>5. Cardinality(Frames) = occ_count + page - 0
  <2>1. Cardinality(In("PREOCCUPIED") \cap In("OCCUPIED")) = 0
    BY <1>3, FS_EmptySet
  <2> QED
    BY <1>1, <1>2, <1>4, <2>1, FS_Union
<1> QED
  BY <1>5, FramesCount, Numbers

(* The program gives up only if there are too many pages for the frames    *)
(* that the draw left: loading wastes none.                                *)
THEOREM Room == Spec => []LoadFits
<1>1. Init => LoadFits
  BY DEF Init, LoadFits
<1>2. TypeInv /\ MapInv /\ LoadFits /\ [Next]_vars => LoadFits'
  <2> SUFFICES ASSUME TypeOK, Counted, LoadFits, [Next]_vars PROVE LoadFits'
    BY DEF TypeInv, MapInv
  <2>1. CASE NoRoom
    <3>1. page < num_vpage /\ UNCHANGED <<num_vpage, occ_count>>
      BY <2>1 DEF NoRoom
    <3>2. NumFrames = occ_count + page
      BY <2>1, NoneFree
    <3>3. num_vpage > NumFrames - occ_count
      BY <3>1, <3>2, Numbers
    <3> QED
      BY <3>1, <3>3 DEF LoadFits
  <2>2. CASE ~NoRoom
    BY <2>2 DEF LoadFits, Next, vars, ParseArgs, Draw, RamInit, LoadPage, Loaded,
                Dereference, Translate, Enter, RamFree, Stopped
  <2> QED
    BY <2>1, <2>2
<1> QED
  BY <1>1, <1>2, Always, PTL DEF Spec

-----------------------------------------------------------------------------
(* Translations                                                            *)

(* What the table says of a page that was loaded.                          *)
LEMMA PfnLoaded ==
  ASSUME TypeOK, OneToOne, table # NULL, page = num_vpage,
         NEW vpn \in Bytes, vpn < num_vpage, NEW behind
  PROVE  /\ PtGetPfn(vpn, behind) = table[vpn]
         /\ table[vpn] \in Frames
         /\ frames[table[vpn]] = [state |-> "OCCUPIED", v_page |-> vpn]
<1>1. num_vpage \in Int /\ vpn \in 0 .. page - 1 /\ ~(vpn > num_vpage)
  <2>1. num_vpage \in Bytes
    BY DEF TypeOK
  <2> QED
    BY <2>1 DEF Bytes
<1>2. table[vpn] \in In("OCCUPIED") /\ frames[table[vpn]].v_page = vpn
  BY <1>1 DEF OneToOne
<1>3. table[vpn] \in Frames /\ frames[table[vpn]].state = "OCCUPIED"
  BY <1>2 DEF In
<1>4. frames[table[vpn]] \in [state : States, v_page : Bytes]
  BY <1>3 DEF TypeOK
<1>5. Int8(table[vpn]) = table[vpn]
  BY <1>3, FrameNumber
<1> QED
  BY <1>1, <1>2, <1>3, <1>4, <1>5 DEF PtGetPfn

LEMMA PfnBeyond ==
  ASSUME NEW vpn, vpn > num_vpage, NEW behind
  PROVE  PtGetPfn(vpn, behind) = -1
BY DEF PtGetPfn

LEMMA TranslateExact ==
  ASSUME TypeOK, OneToOne, Displayed, Translate
  PROVE  TranslationExact'
<1>1. PICK number \in Addresses, behind \in Junk :
        LET pfn == PtGetPfn(Vpn(Uint16(number)), behind)
        IN /\ v_addr' = Uint16(number)
           /\ p_addr' = IF pfn = -1 THEN -1 ELSE pfn * Byte + Offset(Uint16(number))
  BY DEF Translate, Physical
<1> DEFINE a == Uint16(number)
           pfn == PtGetPfn(Vpn(a), behind)
<1>2. a \in Words
  BY Uint16Type
<1>3. Vpn(a) \in Bytes /\ Offset(a) \in 0 .. Byte - 1
  BY <1>2, VpnType, Zenon
<1>4. UNCHANGED <<num_vpage, view>> /\ table # NULL /\ page = num_vpage /\ view = frames
  BY DEF Translate, Displayed
<1>5. v_addr' = a /\ p_addr' = IF pfn = -1 THEN -1 ELSE pfn * Byte + Offset(a)
  BY <1>1
<1> HIDE DEF a, pfn
<1>6. ASSUME Vpn(a) < num_vpage
      PROVE  /\ p_addr' \div Byte \in Frames
             /\ view[p_addr' \div Byte] = [state |-> "OCCUPIED", v_page |-> Vpn(a)]
             /\ Offset(p_addr') = Offset(a)
  <2>1. pfn \in Frames /\ frames[pfn] = [state |-> "OCCUPIED", v_page |-> Vpn(a)]
    BY <1>3, <1>4, <1>6, PfnLoaded DEF pfn
  <2>2. pfn \in Int /\ pfn # -1
    BY <2>1 DEF Frames
  <2>3. p_addr' = pfn * Byte + Offset(a)
    BY <1>5, <2>2
  <2>4. p_addr' \div Byte = pfn /\ p_addr' % Byte = Offset(a)
    BY <1>3, <2>2, <2>3, ByteType, DivMod
  <2> QED
    BY <1>4, <2>1, <2>4 DEF Offset
<1>7. ASSUME Vpn(a) > num_vpage PROVE p_addr' = -1
  BY <1>5, <1>7, PfnBeyond DEF pfn
<1> QED
  BY <1>4, <1>5, <1>6, <1>7 DEF TranslationExact, Vpn, Offset

(* What is printed as the translation of an address agrees with the map of *)
(* the frames displayed before, and pages the process has not are refused. *)
THEOREM Translation == Spec => []TranslationExact
<1>1. Init => TranslationExact
  BY DEF Init, TranslationExact
<1>2. TypeInv /\ MapInv /\ TranslationExact /\ [Next]_vars => TranslationExact'
  <2> SUFFICES ASSUME TypeOK, MapInv, TranslationExact, [Next]_vars PROVE TranslationExact'
    BY DEF TypeInv
  <2>1. CASE Translate
    BY <2>1, TranslateExact DEF MapInv
  <2>2. CASE UNCHANGED vars
    BY <2>2 DEF TranslationExact, vars, Vpn, Offset, Uint8
  <2>3. CASE Next /\ ~Translate /\ ~UNCHANGED vars
    BY <2>3 DEF TranslationExact, Next, ParseArgs, Draw, RamInit, LoadPage, NoRoom,
                Loaded, Dereference, Enter, RamFree, Stopped
  <2> QED
    BY <2>1, <2>2, <2>3
<1> QED
  BY <1>1, <1>2, Always, PTL DEF Spec
=============================================================================
