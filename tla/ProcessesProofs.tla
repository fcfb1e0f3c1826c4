-------------------------- MODULE ProcessesProofs ---------------------------
(* Proofs about Processes, for any number of children and of runs.         *)
EXTENDS Processes, TLAPS

USE Sizes

LEMMA Indexes ==
  /\ 0 \in Index
  /\ \A k \in Index : k \in Int /\ 0 <= k /\ k <= CHILD_PROCESSES - 1
  /\ \A k \in Index : k # CHILD_PROCESSES - 1 => k + 1 \in Index
BY DEF Index

LEMMA TypeInit == Init => TypeOK
<1> SUFFICES ASSUME Init PROVE TypeOK
  OBVIOUS
<1>1. 1 \in Runs
  BY DEF Runs
<1> QED
  BY <1>1, Indexes DEF Init, TypeOK, Parents, Children

(* The type of what the loops and the fork change.                         *)
LEMMA LoopTypes ==
  ASSUME TypeOK
  PROVE  /\ NextChild => parent' \in Parents /\ i' \in Index
         /\ NextWait => parent' \in Parents /\ i' \in Index
         /\ StackGone => i' \in Index /\ childIds' \in [Index -> Index \cup {Any, Nobody}]
BY Indexes DEF TypeOK, NextChild, NextWait, StackGone, Parents

LEMMA TypeStep == TypeOK /\ [Next]_vars => TypeOK'
<1> SUFFICES ASSUME TypeOK, [Next]_vars PROVE TypeOK'
  OBVIOUS
<1> USE DEF TypeOK, segment, families, output
<1>p. /\ {"get", "attach", "write", "print", "fork", "exit", "end", "killed"} \subseteq Parents
      /\ {"attach", "read", "exit", "ended", "reaped"} \subseteq Children
  BY DEF Parents, Children
<1>1. CASE ShmGet
  BY <1>1, <1>p DEF ShmGet
<1>2. CASE ShmAt
  BY <1>2, <1>p, Indexes DEF ShmAt
<1>3. CASE Write
  <2>1. memory' \in [Index -> Index \cup {Nothing}]
    BY <1>3 DEF Write
  <2>2. parent' \in Parents /\ i' \in Index
    BY <1>3, <1>p, Indexes DEF Write
  <2> QED
    BY <1>3, <2>1, <2>2 DEF Write
<1>4. CASE PrintSpawning
  <2>1. spawning' \in [Runs -> Nat]
    BY <1>4 DEF PrintSpawning
  <2>2. parentBuf' \in {0, 1}
    BY <1>4 DEF PrintSpawning
  <2> QED
    BY <1>4, <1>p, <2>1, <2>2 DEF PrintSpawning
<1>5. CASE Fork
  <2>1. child' \in [Runs -> [Index -> Children]]
    BY <1>5, <1>p DEF Fork
  <2>2. childBuf' \in [Runs -> [Index -> {0, 1}]]
    BY <1>5 DEF Fork
  <2>3. childIds' \in [Index -> Index \cup {Any, Nobody}]
    BY <1>5 DEF Fork
  <2> QED
    BY <1>5, <2>1, <2>2, <2>3, LoopTypes DEF Fork
<1>6. CASE ForkFails
  <2>1. childIds' \in [Index -> Index \cup {Any, Nobody}]
    BY <1>6 DEF ForkFails
  <2> QED
    BY <1>6, <2>1, LoopTypes DEF ForkFails
<1>7. CASE Wait
  <2>1. child' \in [Runs -> [Index -> Children]]
    BY <1>7, <1>p DEF Wait, Waitable
  <2> QED
    BY <1>7, <2>1, LoopTypes DEF Wait
<1>8. CASE WaitFails
  BY <1>8, LoopTypes DEF WaitFails
<1>9. CASE ShmDt
  BY <1>9, <1>p DEF ShmDt
<1>10. CASE Exit
  <2>1. spawning' \in [Runs -> Nat]
    BY <1>10 DEF Exit
  <2> QED
    BY <1>10, <1>p, <2>1, LoopTypes DEF Exit
<1>11. CASE Kill
  BY <1>11, <1>p, LoopTypes DEF Kill
<1>12. CASE Start
  <2>1. run' \in Runs
    BY <1>12 DEF Start, Runs
  <2> QED
    BY <1>12, <1>p, <2>1 DEF Start
<1>13. ASSUME NEW r \in Runs, NEW k \in Index, Child(r, k) PROVE TypeOK'
  <2>1. CASE ChildShmAt(r, k)
    <3>1. child' \in [Runs -> [Index -> Children]]
      BY <2>1, <1>p DEF ChildShmAt
    <3> QED
      BY <2>1, <3>1 DEF ChildShmAt
  <2>2. CASE ChildRead(r, k)
    <3>1. child' \in [Runs -> [Index -> Children]]
      BY <2>2, <1>p DEF ChildRead
    <3>2. got' \in [Runs -> [Index -> Index \cup {Nothing}]]
      BY <2>2 DEF ChildRead
    <3> QED
      BY <2>2, <3>1, <3>2 DEF ChildRead
  <2>3. CASE ChildExit(r, k)
    <3>1. child' \in [Runs -> [Index -> Children]]
      BY <2>3, <1>p DEF ChildExit
    <3>2. childBuf' \in [Runs -> [Index -> {0, 1}]]
      BY <2>3 DEF ChildExit
    <3>3. spawning' \in [Runs -> Nat]
      BY <2>3 DEF ChildExit
    <3> QED
      BY <2>3, <3>1, <3>2, <3>3 DEF ChildExit
  <2> QED
    BY <1>13, <2>1, <2>2, <2>3 DEF Child
<1>14. CASE UNCHANGED vars
  BY <1>14 DEF vars
<1> QED
  BY <1>1, <1>2, <1>3, <1>4, <1>5, <1>6, <1>7, <1>8, <1>9, <1>10, <1>11, <1>12, <1>13, <1>14
     DEF Next, Parent

(* Every variable keeps its type.                                          *)
THEOREM Typing == Spec => []TypeOK
BY TypeInit, TypeStep, PTL DEF Spec

-----------------------------------------------------------------------------
(* What a child reads.  Slot k never holds anything but message k once it  *)
(* was written, and all slots were before the first child was forked.      *)

Filled == \A k \in Index : memory[k] = k

Written ==
  /\ parent = "write" => \A k \in Index : k < i => memory[k] = k
  /\ parent \in {"print", "fork"} => Filled

ReadersSeeAll == \A r \in Runs, k \in Index : child[r][k] # "none" => Filled

ReadInv == Written /\ ReadersSeeAll /\ ChildrenReadTheirs

LEMMA ReadInit == Init => ReadInv
BY DEF Init, ReadInv, Written, ReadersSeeAll, ChildrenReadTheirs

(* A step that leaves the children alone, but perhaps reaps one, and keeps *)
(* the memory or fills it further.                                         *)
LEMMA ReadKept ==
  ASSUME TypeOK, ReadInv, Written', got' = got,
         Filled => Filled',
         \A r \in Runs, k \in Index : child'[r][k] \in {child[r][k], "reaped"},
         \A r \in Runs, k \in Index : child'[r][k] = "reaped" => child[r][k] # "none"
  PROVE  ReadInv'
BY DEF ReadInv, ReadersSeeAll, ChildrenReadTheirs

LEMMA ReadStep == TypeOK /\ ReadInv /\ [Next]_vars => ReadInv'
<1>0. SUFFICES ASSUME TypeOK, ReadInv, [Next]_vars PROVE ReadInv'
  OBVIOUS
<1>w. Written /\ ReadersSeeAll /\ ChildrenReadTheirs
  BY <1>0 DEF ReadInv
<1>t. memory \in [Index -> Index \cup {Nothing}] /\ i \in Index
  BY <1>0 DEF TypeOK
<1>1. CASE Write
  <2>1. /\ parent = "write"
        /\ \A k \in Index : memory'[k] = IF k = i THEN k ELSE memory[k]
    BY <1>1, <1>t DEF Write
  <2>2. UNCHANGED <<child, got>>
    BY <1>1 DEF Write, families
  <2>3. Filled => Filled'
    BY <2>1 DEF Filled
  <2>4. Written'
    <3>1. \A k \in Index : k <= i => memory'[k] = k
      BY <1>w, <1>t, <2>1, Indexes DEF Written
    <3>2. CASE i = CHILD_PROCESSES - 1
      BY <1>1, <3>1, <3>2, Indexes DEF Write, Written, Filled
    <3>3. CASE i # CHILD_PROCESSES - 1
      BY <1>1, <1>t, <3>1, <3>3, Indexes DEF Write, Written
    <3> QED
      BY <3>2, <3>3
  <2> QED
    BY <1>0, <2>2, <2>3, <2>4, ReadKept
<1>2. CASE ShmGet \/ ShmAt \/ PrintSpawning \/ ForkFails \/ WaitFails \/ ShmDt \/ Exit \/ Kill \/ Start
  <2>1. UNCHANGED <<memory, child, got>>
    BY <1>2 DEF ShmGet, ShmAt, PrintSpawning, ForkFails, WaitFails, ShmDt, Exit, Kill, Start,
                segment, families
  <2>2. \/ parent' = "write" /\ i' = 0
        \/ parent = "print" /\ parent' = "fork"
        \/ parent = "fork" /\ parent' = "fork"
        \/ parent' \notin {"write", "print", "fork"}
    BY <1>2 DEF ShmGet, ShmAt, PrintSpawning, ForkFails, WaitFails, ShmDt, Exit, Kill, Start,
                NextChild, NextWait
  <2>3. Written'
    BY <1>w, <2>1, <2>2, Indexes DEF Written, Filled
  <2>4. Filled => Filled'
    BY <2>1 DEF Filled
  <2> QED
    BY <1>0, <2>1, <2>3, <2>4, ReadKept
<1>3. CASE Fork
  <2>1. parent = "fork" /\ parent' # "write" /\ UNCHANGED <<memory, got>>
    BY <1>3 DEF Fork, NextChild, segment
  <2>2. Filled /\ Filled'
    BY <1>w, <2>1 DEF Written, Filled
  <2>3. \A r \in Runs, k \in Index : child'[r][k] \in {child[r][k], "attach"}
    BY <1>0, <1>3 DEF Fork, TypeOK
  <2> QED
    BY <1>w, <2>1, <2>2, <2>3 DEF ReadInv, Written, ReadersSeeAll, ChildrenReadTheirs
<1>4. CASE Wait
  <2>1. UNCHANGED <<memory, got>> /\ parent' \notin {"write", "print", "fork"}
    BY <1>4 DEF Wait, segment, NextWait
  <2>2. Written' /\ (Filled => Filled')
    BY <2>1 DEF Written, Filled
  <2>3. PICK k \in Index : child[run][k] = "ended" /\ child' = [child EXCEPT ![run][k] = "reaped"]
    BY <1>4 DEF Wait, Waitable
  <2>4. \A r \in Runs, j \in Index :
          child'[r][j] = IF r = run /\ j = k THEN "reaped" ELSE child[r][j]
    BY <1>0, <2>3 DEF TypeOK
  <2> QED
    BY <1>0, <2>1, <2>2, <2>3, <2>4, ReadKept
<1>5. ASSUME NEW r \in Runs, NEW k \in Index, Child(r, k) PROVE ReadInv'
  <2>1. child[r][k] # "none" /\ UNCHANGED <<memory, parent, i>>
    BY <1>5 DEF Child, ChildShmAt, ChildRead, ChildExit, segment
  <2>2. Filled /\ Filled' /\ Written'
    BY <1>w, <2>1 DEF ReadersSeeAll, Written, Filled
  <2>3. \A q \in Runs, j \in Index : child'[q][j] = "exit" => got'[q][j] = j
    <3>1. CASE ChildRead(r, k)
      <4>1. \A q \in Runs, j \in Index :
              /\ got'[q][j] = IF q = r /\ j = k THEN memory[k] ELSE got[q][j]
              /\ child'[q][j] = IF q = r /\ j = k THEN "exit" ELSE child[q][j]
        BY <1>0, <3>1 DEF ChildRead, TypeOK
      <4> QED
        BY <1>w, <2>2, <4>1 DEF ChildrenReadTheirs, Filled
    <3>2. CASE ChildShmAt(r, k) \/ ChildExit(r, k)
      <4>1. got' = got
        BY <3>2 DEF ChildShmAt, ChildExit
      <4>2. \A q \in Runs, j \in Index : child'[q][j] \in {child[q][j], "read", "ended"}
        <5>1. PICK next \in {"read", "ended"} : child' = [child EXCEPT ![r][k] = next]
          BY <3>2 DEF ChildShmAt, ChildExit
        <5>2. \A q \in Runs, j \in Index :
                child'[q][j] = IF q = r /\ j = k THEN next ELSE child[q][j]
          BY <1>0, <5>1 DEF TypeOK
        <5> QED
          BY <5>2
      <4> QED
        BY <1>w, <4>1, <4>2 DEF ChildrenReadTheirs
    <3> QED
      BY <1>5, <3>1, <3>2 DEF Child
  <2> QED
    BY <2>2, <2>3 DEF ReadInv, ReadersSeeAll, ChildrenReadTheirs
<1>6. CASE UNCHANGED vars
  <2>1. UNCHANGED <<memory, child, got, parent, i>>
    BY <1>6 DEF vars, segment, families
  <2>2. Written' /\ (Filled => Filled')
    BY <1>w, <2>1 DEF Written, Filled
  <2> QED
    BY <1>0, <2>1, <2>2, ReadKept
<1> QED
  BY <1>0, <1>1, <1>2, <1>3, <1>4, <1>5, <1>6 DEF Next, Parent

(* A child reads its own message, whoever else writes and reads.           *)
THEOREM Reading == Spec => []ChildrenReadTheirs
<1>1. ReadInv => ChildrenReadTheirs
  BY DEF ReadInv
<1> QED
  BY <1>1, TypeInit, TypeStep, ReadInit, ReadStep, PTL DEF Spec

-----------------------------------------------------------------------------
(* Who is waited for.  While the parent forks and waits, the slot of a     *)
(* child that was forked holds that child's id; so after the wait for slot *)
(* k child k has been reaped, by this wait or by one for junk before it.   *)

NotYet ==
  \A r \in Runs, k \in Index :
    child[r][k] # "none" =>
      /\ r <= run
      /\ r = run => parent \notin {"get", "attach", "write", "print"}
      /\ r = run /\ parent = "fork" => k < i

Stored == parent \in {"fork", "wait"} => \A k \in Index : child[run][k] # "none" => childIds[k] = k

Done == parent = "wait" => \A k \in Index : k < i => child[run][k] \in {"none", "reaped"}

ReapInv == NotYet /\ Stored /\ Done /\ AllReaped

LEMMA ReapInit == Init => ReapInv
BY DEF Init, ReapInv, NotYet, Stored, Done, AllReaped

(* A wait for slot i: afterwards the first i + 1 children are reaped.      *)
LEMMA Waited ==
  ASSUME TypeOK, ReapInv, parent = "wait", NextWait, run' = run, childIds' = childIds,
         \A k \in Index : child'[run][k] \in {child[run][k], "reaped"},
         \A k \in Index : child'[run][k] = "reaped" => child[run][k] # "none",
         \A r \in Runs, k \in Index : r # run => child'[r][k] = child[r][k],
         child'[run][i] \in {"none", "reaped"}
  PROVE  ReapInv'
<1>t. i \in Index /\ run \in Runs /\ i \in Int
  BY Indexes DEF TypeOK
<1>1. \A k \in Index : k <= i => child'[run][k] \in {"none", "reaped"}
  <2> SUFFICES ASSUME NEW k \in Index, k <= i PROVE child'[run][k] \in {"none", "reaped"}
    OBVIOUS
  <2>1. CASE k = i
    BY <2>1
  <2>2. CASE k < i
    BY <2>2 DEF ReapInv, Done
  <2>3. k \in Int
    BY Indexes
  <2> QED
    BY <1>t, <2>1, <2>2, <2>3
<1>2. \/ i = CHILD_PROCESSES - 1 /\ parent' = "detach"
      \/ i # CHILD_PROCESSES - 1 /\ parent' = "wait" /\ i' = i + 1
  BY DEF NextWait
<1>3. Done' /\ AllReaped'
  BY <1>t, <1>1, <1>2, Indexes DEF Done, AllReaped
<1>4. Stored'
  BY <1>t, <1>2 DEF ReapInv, Stored
<1>5. NotYet'
  BY <1>t, <1>2 DEF ReapInv, NotYet
<1> QED
  BY <1>3, <1>4, <1>5 DEF ReapInv

LEMMA ReapStep == TypeOK /\ ReapInv /\ [Next]_vars => ReapInv'
<1>0. SUFFICES ASSUME TypeOK, ReapInv, [Next]_vars PROVE ReapInv'
  OBVIOUS
<1>r. NotYet /\ Stored /\ Done /\ AllReaped
  BY <1>0 DEF ReapInv
<1>t. i \in Index /\ run \in Runs /\ i \in Int /\ run \in Int
  BY <1>0, Indexes DEF TypeOK, Runs
<1>1. CASE ShmGet \/ ShmAt \/ Write \/ PrintSpawning \/ ShmDt \/ Exit \/ Kill
  <2>1. UNCHANGED <<run, child>>
    BY <1>1 DEF ShmGet, ShmAt, Write, PrintSpawning, ShmDt, Exit, Kill, families
  <2>2. \/ parent \in {"get", "attach", "write"} /\ parent' \in {"attach", "write", "print"}
        \/ parent = "print" /\ parent' = "fork"
        \/ parent' \in {"exit", "end", "killed"}
    BY <1>1 DEF ShmGet, ShmAt, Write, PrintSpawning, ShmDt, Exit, Kill
  <2>3. NotYet'
    BY <1>r, <1>t, <2>1, <2>2 DEF NotYet
  <2>4. Stored' /\ Done' /\ AllReaped'
    BY <1>r, <1>t, <2>1, <2>2 DEF NotYet, Stored, Done, AllReaped
  <2> QED
    BY <2>3, <2>4 DEF ReapInv
<1>2. CASE Start
  <2>1. run' = run + 1 /\ parent' = "get" /\ child' = child /\ run' \in Int
    BY <1>2, <1>t DEF Start, families
  <2>2. NotYet'
    BY <1>r, <1>t, <2>1 DEF NotYet, Runs
  <2> QED
    BY <2>1, <2>2 DEF ReapInv, Stored, Done, AllReaped
<1>3. CASE Fork
  <2>1. /\ parent = "fork" /\ run' = run
        /\ \A r \in Runs, k \in Index :
             child'[r][k] = IF r = run /\ k = i THEN "attach" ELSE child[r][k]
    BY <1>0, <1>3 DEF Fork, TypeOK
  <2>2. \A k \in Index : childIds'[k] = IF k = i THEN k ELSE childIds[k]
    BY <1>0, <1>3 DEF Fork, TypeOK
  <2>3. \/ i = CHILD_PROCESSES - 1 /\ parent' = "wait" /\ i' = 0
        \/ i # CHILD_PROCESSES - 1 /\ parent' = "fork" /\ i' = i + 1
    BY <1>3 DEF Fork, NextChild
  <2>4. NotYet'
    BY <1>r, <1>t, <2>1, <2>3, Indexes DEF NotYet
  <2>5. Stored'
    BY <1>r, <1>t, <2>1, <2>2, <2>3 DEF Stored
  <2>6. Done' /\ AllReaped'
    BY <2>3, Indexes DEF Done, AllReaped
  <2> QED
    BY <2>4, <2>5, <2>6 DEF ReapInv
<1>4. CASE ForkFails
  <2>1. parent = "fork" /\ UNCHANGED <<run, child>>
    BY <1>4 DEF ForkFails, families
  <2>2. \A k \in Index : k # i => childIds'[k] = childIds[k]
    BY <1>0, <1>4 DEF ForkFails, TypeOK
  <2>3. \/ i = CHILD_PROCESSES - 1 /\ parent' = "wait" /\ i' = 0
        \/ i # CHILD_PROCESSES - 1 /\ parent' = "fork" /\ i' = i + 1
    BY <1>4 DEF ForkFails, NextChild
  <2>4. child[run][i] = "none"
    BY <1>r, <1>t, <2>1 DEF NotYet
  <2>5. NotYet'
    BY <1>r, <1>t, <2>1, <2>3, Indexes DEF NotYet
  <2>6. Stored'
    BY <1>r, <1>t, <2>1, <2>2, <2>3, <2>4 DEF Stored
  <2>7. Done' /\ AllReaped'
    BY <2>3, Indexes DEF Done, AllReaped
  <2> QED
    BY <2>5, <2>6, <2>7 DEF ReapInv
<1>5. CASE Wait
  <2>1. parent = "wait" /\ NextWait /\ UNCHANGED <<run, childIds>>
    BY <1>5 DEF Wait
  <2>2. PICK k \in Waitable(childIds[i]) :
          child[run][k] = "ended" /\ child' = [child EXCEPT ![run][k] = "reaped"]
    BY <1>5 DEF Wait
  <2>3. k \in Index /\ childIds[i] \in {k, Any}
    BY <2>2 DEF Waitable
  <2>4. \A r \in Runs, j \in Index :
          child'[r][j] = IF r = run /\ j = k THEN "reaped" ELSE child[r][j]
    BY <1>0, <2>2, <2>3 DEF TypeOK
  <2>5. child[run][i] # "none" => k = i
    BY <1>r, <1>t, <2>1, <2>3, Indexes DEF Stored, Any
  <2>6. child'[run][i] \in {"none", "reaped"}
    BY <1>t, <2>4, <2>5
  <2>7. \A j \in Index : child'[run][j] = "reaped" => child[run][j] # "none"
    BY <1>t, <2>2, <2>4
  <2> QED
    BY <1>0, <1>t, <2>1, <2>4, <2>6, <2>7, Waited
<1>6. CASE WaitFails
  <2>1. parent = "wait" /\ NextWait /\ UNCHANGED <<run, childIds, child>>
    BY <1>6 DEF WaitFails, families
  <2>2. Waitable(childIds[i]) = {}
    BY <1>6 DEF WaitFails
  <2>3. child[run][i] \in {"none", "reaped"}
    BY <1>r, <1>t, <2>1, <2>2 DEF Stored, Waitable
  <2>4. \A k \in Index : child'[run][k] = "reaped" => child[run][k] # "none"
    BY <2>1
  <2> QED
    BY <1>0, <1>t, <2>1, <2>3, <2>4, Waited
<1>7. ASSUME NEW r \in Runs, NEW k \in Index, Child(r, k) PROVE ReapInv'
  <2>1. child[r][k] \notin {"none", "reaped"} /\ UNCHANGED <<run, parent, i, childIds>>
    BY <1>7 DEF Child, ChildShmAt, ChildRead, ChildExit
  <2>2. PICK next \in {"read", "exit", "ended"} : child' = [child EXCEPT ![r][k] = next]
    BY <1>7 DEF Child, ChildShmAt, ChildRead, ChildExit
  <2>3. \A q \in Runs, j \in Index :
          child'[q][j] = IF q = r /\ j = k THEN next ELSE child[q][j]
    BY <1>0, <2>2 DEF TypeOK
  <2>4. NotYet'
    BY <1>r, <2>1, <2>3 DEF NotYet
  <2>5. Stored'
    BY <1>r, <1>t, <2>1, <2>3 DEF Stored
  <2>6. Done' /\ AllReaped'
    BY <1>r, <1>t, <2>1, <2>3 DEF Done, AllReaped
  <2> QED
    BY <2>4, <2>5, <2>6 DEF ReapInv
<1>8. CASE UNCHANGED vars
  <2>1. UNCHANGED <<run, parent, i, childIds, child>>
    BY <1>8 DEF vars, families
  <2> QED
    BY <1>r, <2>1 DEF ReapInv, NotYet, Stored, Done, AllReaped
<1> QED
  BY <1>0, <1>1, <1>2, <1>3, <1>4, <1>5, <1>6, <1>7, <1>8 DEF Next, Parent

(* When the parent says that the children have finished, each one it       *)
(* forked was reaped, whichever forks failed.                              *)
THEOREM Reaping == Spec => []AllReaped
<1>1. ReapInv => AllReaped
  BY DEF ReapInv
<1> QED
  BY <1>1, TypeInit, TypeStep, ReapInit, ReapStep, PTL DEF Spec

-----------------------------------------------------------------------------
(* Where the line "Spawning children..." is.  From the print on it was     *)
(* shown or lies in the parent's buffer; on a terminal no buffer has it.   *)

Forked == \E k \in Index : child[run][k] # "none"

Unbuffered == tty => parentBuf = 0 /\ \A r \in Runs, k \in Index : childBuf[r][k] = 0

ShownAtMostOnce ==
  tty => \A r \in Runs :
    /\ spawning[r] <= 1
    /\ r > run \/ (r = run /\ parent \in {"get", "attach", "write", "print"}) => spawning[r] = 0

Kept ==
  /\ parent \in {"fork", "wait", "detach"} => spawning[run] + parentBuf >= 1
  /\ parent = "exit" /\ Forked => spawning[run] + parentBuf >= 1
  /\ parent = "end" /\ Forked => spawning[run] >= 1

ShowInv == Unbuffered /\ ShownAtMostOnce /\ Kept

LEMMA ShowInit == Init => ShowInv
BY DEF Init, ShowInv, Unbuffered, ShownAtMostOnce, Kept

LEMMA ShowStep == TypeOK /\ ReapInv /\ ShowInv /\ [Next]_vars => ShowInv'
<1>0. SUFFICES ASSUME TypeOK, ReapInv, ShowInv, [Next]_vars PROVE ShowInv'
  OBVIOUS
<1>s. Unbuffered /\ ShownAtMostOnce /\ Kept /\ NotYet
  BY <1>0 DEF ShowInv, ReapInv
<1>t. /\ run \in Runs /\ run \in Int /\ i \in Index /\ tty \in BOOLEAN
      /\ parentBuf \in {0, 1} /\ spawning \in [Runs -> Nat]
      /\ childBuf \in [Runs -> [Index -> {0, 1}]]
      /\ Runs \subseteq Int
  BY <1>0 DEF TypeOK, Runs
<1>1. CASE ShmGet \/ ShmAt \/ Write \/ ShmDt \/ WaitFails \/ ForkFails \/ Wait
  <2>1. /\ UNCHANGED <<run, tty, parentBuf, spawning, childBuf>>
        /\ Forked' => Forked
    <3>1. CASE Wait
      <4>1. UNCHANGED <<run, tty, parentBuf, spawning, childBuf>>
        BY <3>1 DEF Wait, output
      <4>2. PICK k \in Index : child[run][k] = "ended" /\ child' = [child EXCEPT ![run][k] = "reaped"]
        BY <3>1 DEF Wait, Waitable
      <4> QED
        BY <4>1, <4>2 DEF Forked
    <3>2. CASE ~Wait
      BY <1>1, <3>2 DEF ShmGet, ShmAt, Write, ShmDt, WaitFails, ForkFails, families, output, Forked
    <3> QED
      BY <3>1, <3>2
  <2>2. \/ parent \in {"get", "attach", "write"} /\ parent' \in {"attach", "write", "print"}
        \/ parent \in {"get", "attach"} /\ parent' = "exit"
        \/ parent \in {"fork", "wait", "detach"} /\ parent' \in {"fork", "wait", "detach", "exit"}
    BY <1>1 DEF ShmGet, ShmAt, Write, ShmDt, WaitFails, ForkFails, Wait, NextChild, NextWait
  <2>3. parent \in {"get", "attach"} => ~Forked
    BY <1>s, <1>t DEF NotYet, Forked
  <2>4. Kept'
    BY <1>s, <2>1, <2>2, <2>3 DEF Kept
  <2>5. Unbuffered' /\ ShownAtMostOnce'
    BY <1>s, <2>1, <2>2 DEF Unbuffered, ShownAtMostOnce
  <2> QED
    BY <2>4, <2>5 DEF ShowInv
<1>2. CASE PrintSpawning
  <2>1. /\ parent = "print" /\ parent' = "fork" /\ UNCHANGED <<run, tty, childBuf>>
        /\ \A r \in Runs : spawning'[r] = IF tty /\ r = run THEN 1 ELSE spawning[r]
        /\ parentBuf' = IF tty THEN parentBuf ELSE 1
    BY <1>2, <1>t DEF PrintSpawning, families
  <2>2. Kept'
    BY <1>t, <2>1 DEF Kept
  <2>3. Unbuffered' /\ ShownAtMostOnce'
    BY <1>s, <1>t, <2>1 DEF Unbuffered, ShownAtMostOnce
  <2> QED
    BY <2>2, <2>3 DEF ShowInv
<1>3. CASE Fork
  <2>1. /\ parent = "fork" /\ parent' \in {"fork", "wait"}
        /\ UNCHANGED <<run, tty, parentBuf, spawning>>
        /\ \A r \in Runs, k \in Index :
             childBuf'[r][k] = IF r = run /\ k = i THEN parentBuf ELSE childBuf[r][k]
    BY <1>3, <1>t DEF Fork, NextChild, output
  <2>2. Kept'
    BY <1>s, <2>1 DEF Kept
  <2>3. Unbuffered' /\ ShownAtMostOnce'
    BY <1>s, <2>1 DEF Unbuffered, ShownAtMostOnce
  <2> QED
    BY <2>2, <2>3 DEF ShowInv
<1>4. CASE Exit
  <2>1. /\ parent = "exit" /\ parent' = "end" /\ UNCHANGED <<run, tty, child, childBuf>>
        /\ \A r \in Runs : spawning'[r] = IF r = run THEN spawning[r] + parentBuf ELSE spawning[r]
        /\ parentBuf' = 0
    BY <1>4, <1>t DEF Exit, families
  <2>2. Forked' = Forked
    BY <2>1 DEF Forked
  <2>3. Kept'
    BY <1>s, <1>t, <2>1, <2>2 DEF Kept
  <2>4. Unbuffered' /\ ShownAtMostOnce'
    BY <1>s, <1>t, <2>1 DEF Unbuffered, ShownAtMostOnce
  <2> QED
    BY <2>3, <2>4 DEF ShowInv
<1>5. CASE Kill
  <2>1. parent' = "killed" /\ parentBuf' = 0 /\ UNCHANGED <<run, tty, childBuf, spawning>>
    BY <1>5 DEF Kill, families
  <2> QED
    BY <1>s, <2>1 DEF ShowInv, Unbuffered, ShownAtMostOnce, Kept
<1>6. CASE Start
  <2>1. /\ parent' = "get" /\ run' = run + 1
        /\ UNCHANGED <<tty, parentBuf, childBuf, spawning>>
    BY <1>6 DEF Start, families, output
  <2>2. \A r \in Runs : r > run' \/ r = run' => r > run
    BY <1>t, <2>1
  <2> QED
    BY <1>s, <2>1, <2>2 DEF ShowInv, Unbuffered, ShownAtMostOnce, Kept
<1>7. ASSUME NEW r \in Runs, NEW k \in Index, Child(r, k) PROVE ShowInv'
  <2>1. /\ child[r][k] # "none" /\ UNCHANGED <<run, parent, tty, parentBuf>>
        /\ Forked' => Forked
    <3>1. child[r][k] # "none" /\ UNCHANGED <<run, parent, tty, parentBuf>>
      BY <1>7 DEF Child, ChildShmAt, ChildRead, ChildExit, output
    <3>2. PICK next : child' = [child EXCEPT ![r][k] = next]
      BY <1>7 DEF Child, ChildShmAt, ChildRead, ChildExit
    <3> QED
      BY <3>1, <3>2 DEF Forked
  <2>2. CASE ~ChildExit(r, k)
    <3>1. UNCHANGED <<childBuf, spawning>>
      BY <1>7, <2>2 DEF Child, ChildShmAt, ChildRead, output
    <3> QED
      BY <1>s, <2>1, <3>1 DEF ShowInv, Unbuffered, ShownAtMostOnce, Kept
  <2>3. CASE ChildExit(r, k)
    <3>1. /\ \A p \in Runs :
               spawning'[p] = IF p = r THEN spawning[p] + childBuf[r][k] ELSE spawning[p]
          /\ \A p \in Runs, j \in Index :
               childBuf'[p][j] = IF p = r /\ j = k THEN 0 ELSE childBuf[p][j]
      BY <1>t, <2>3 DEF ChildExit
    <3>2. Unbuffered' /\ ShownAtMostOnce'
      BY <1>s, <1>t, <2>1, <3>1 DEF Unbuffered, ShownAtMostOnce
    <3>3. spawning'[run] >= spawning[run] /\ spawning'[run] \in Nat
      <4>1. childBuf[r][k] \in {0, 1} /\ spawning[r] \in Nat /\ spawning[run] \in Nat
        BY <1>t
      <4> QED
        BY <1>t, <3>1, <4>1
    <3>4. Kept'
      BY <1>s, <1>t, <2>1, <3>3 DEF Kept
    <3> QED
      BY <3>2, <3>4 DEF ShowInv
  <2> QED
    BY <2>2, <2>3
<1>8. CASE UNCHANGED vars
  BY <1>s, <1>8 DEF vars, families, output, ShowInv, Unbuffered, ShownAtMostOnce, Kept, Forked
<1> QED
  BY <1>0, <1>1, <1>2, <1>3, <1>4, <1>5, <1>6, <1>7, <1>8 DEF Next, Parent

(* A parent that returns after it forked has shown the line it printed,    *)
(* and on a terminal no copy of its buffer shows it again, whichever forks *)
(* fail and whoever is killed (main.c:43-72).                              *)
THEOREM Spawning == Spec => []SpawningShown
<1>1. ShowInv => SpawningShown
  BY DEF ShowInv, ShownAtMostOnce, Kept, Forked, SpawningShown
<1> QED
  BY <1>1, TypeInit, TypeStep, ReapInit, ReapStep, ShowInit, ShowStep, PTL DEF Spec
=============================================================================
