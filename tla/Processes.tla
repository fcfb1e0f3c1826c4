----------------------------- MODULE Processes ------------------------------
(***************************************************************************)
(* 004Process: a parent writes one message per child into a shared memory  *)
(* segment, forks the children, and waits for them; each child reads its   *)
(* message.  The segment outlives the processes, so runs follow each other *)
(* on the same one, and children whose parent was killed read beside the   *)
(* next run.  shmget, shmat and fork may fail.                             *)
(*                                                                         *)
(* Message k is the number k.  Of what is printed the model keeps the line *)
(* "Spawning children...", which on a terminal is shown when it is         *)
(* printed, and otherwise waits in a buffer that fork copies.              *)
(***************************************************************************)
EXTENDS Integers

CONSTANTS
  CHILD_PROCESSES,
  MaxRuns            \* bound: runs of the program, one after the other

ASSUME Sizes == CHILD_PROCESSES \in Nat \ {0} /\ MaxRuns \in Nat \ {0}

Index == 0 .. CHILD_PROCESSES - 1
Runs  == 1 .. MaxRuns

VARIABLES
  exists,    \* there is a segment with the key
  memory,    \* its slots
  run,       \* number of the last run
  parent,    \* the statement its parent is to execute
  i,         \* the parent's loop index
  childIds,  \* child_ids
  child,     \* child[r][k]: the statement child k of run r is to execute
  got,       \* got[r][k]: what that child has read
  tty,       \* standard output is a terminal
  parentBuf, \* times the line lies in the parent's buffer
  childBuf,  \* and in the children's
  spawning   \* spawning[r]: times it was shown

segment  == <<exists, memory>>
families == <<child, got, childBuf>>
output   == <<tty, parentBuf, spawning>>
vars     == <<segment, run, parent, i, childIds, families, output>>

(* Values of waitpid's argument that are no child of this parent.          *)
Any    == -1
Nobody == CHILD_PROCESSES

Nothing == -1   \* a slot of zeros, a child that has not read

Parents  == {"get", "attach", "write", "print", "fork", "wait", "detach", "exit", "end", "killed"}
Children == {"none", "attach", "read", "exit", "ended", "reaped"}

Init ==
  /\ exists = FALSE /\ memory = [k \in Index |-> Nothing]
  /\ run = 1 /\ parent = "get" /\ i = 0
  /\ childIds = [k \in Index |-> Nobody]
  /\ child = [r \in Runs |-> [k \in Index |-> "none"]]
  /\ got = [r \in Runs |-> [k \in Index |-> Nothing]]
  /\ tty \in BOOLEAN
  /\ parentBuf = 0
  /\ childBuf = [r \in Runs |-> [k \in Index |-> 0]]
  /\ spawning = [r \in Runs |-> 0]
-----------------------------------------------------------------------------
(* The parent                                                              *)

(* shmget creates the segment, filled with zeros, or finds it.             *)
ShmGet ==
  /\ parent = "get"
  /\ \/ exists' = TRUE /\ parent' = "attach"
     \/ exists' = exists /\ parent' = "exit"
  /\ UNCHANGED <<memory, run, i, childIds, families, output>>

ShmAt ==
  /\ parent = "attach"
  /\ parent' \in {"write", "exit"}
  /\ i' = 0
  /\ UNCHANGED <<segment, run, childIds, families, output>>

(* Mutant: the last message is not written.                                *)
WriteOneFewer ==
  /\ parent = "write"
  /\ memory' = IF i < CHILD_PROCESSES - 1 THEN [memory EXCEPT ![i] = i] ELSE memory
  /\ IF i = CHILD_PROCESSES - 1
     THEN parent' = "print" /\ i' = 0
     ELSE parent' = parent /\ i' = i + 1
  /\ UNCHANGED <<exists, run, childIds, families, output>>

Write ==
  /\ parent = "write"
  /\ memory' = [memory EXCEPT ![i] = i]
  /\ IF i = CHILD_PROCESSES - 1
     THEN parent' = "print" /\ i' = 0
     ELSE parent' = parent /\ i' = i + 1
  /\ UNCHANGED <<exists, run, childIds, families, output>>

(* Mutant: the line has no newline, and a terminal does not show it.       *)
PrintSpawningNoNewline ==
  /\ parent = "print"
  /\ parentBuf' = 1
  /\ parent' = "fork"
  /\ UNCHANGED <<segment, run, i, childIds, families, tty, spawning>>

PrintSpawning ==
  /\ parent = "print"
  /\ IF tty
     THEN spawning' = [spawning EXCEPT ![run] = 1] /\ UNCHANGED parentBuf
     ELSE parentBuf' = 1 /\ UNCHANGED spawning
  /\ parent' = "fork"
  /\ UNCHANGED <<segment, run, i, childIds, families, tty>>

NextChild ==
  IF i = CHILD_PROCESSES - 1
  THEN parent' = "wait" /\ i' = 0
  ELSE parent' = parent /\ i' = i + 1

(* The child starts with a copy of the buffer.                             *)
Fork ==
  /\ parent = "fork"
  /\ child' = [child EXCEPT ![run][i] = "attach"]
  /\ childBuf' = [childBuf EXCEPT ![run][i] = parentBuf]
  /\ childIds' = [childIds EXCEPT ![i] = i]
  /\ NextChild
  /\ UNCHANGED <<segment, run, got, output>>

(* A failure leaves in child_ids what the stack held: for waitpid any      *)
(* child, one of them, or none.                                            *)
ForkFails ==
  /\ parent = "fork"
  /\ \E junk \in Index \cup {Any, Nobody} : childIds' = [childIds EXCEPT ![i] = junk]
  /\ NextChild
  /\ UNCHANGED <<segment, run, families, output>>

Waitable(id) ==
  {k \in Index : child[run][k] \notin {"none", "reaped"} /\ id \in {k, Any}}

(* Mutant: the loop ends one child early.                                  *)
NextWaitOneFewer ==
  IF i >= CHILD_PROCESSES - 2
  THEN parent' = "detach" /\ i' = 0
  ELSE parent' = parent /\ i' = i + 1

NextWait ==
  IF i = CHILD_PROCESSES - 1
  THEN parent' = "detach" /\ i' = 0
  ELSE parent' = parent /\ i' = i + 1

Wait ==
  /\ parent = "wait"
  /\ \E k \in Waitable(childIds[i]) :
       child[run][k] = "ended" /\ child' = [child EXCEPT ![run][k] = "reaped"]
  /\ NextWait
  /\ UNCHANGED <<segment, run, childIds, got, childBuf, output>>

(* Mutant: no answer for an id that is no child.                           *)
WaitFailsNot == FALSE /\ UNCHANGED vars

(* ECHILD                                                                  *)
WaitFails ==
  /\ parent = "wait"
  /\ Waitable(childIds[i]) = {}
  /\ NextWait
  /\ UNCHANGED <<segment, run, childIds, families, output>>

(* "Children finished execution." and shmdt; the segment remains.          *)
ShmDt ==
  /\ parent = "detach"
  /\ parent' = "exit"
  /\ UNCHANGED <<segment, run, i, childIds, families, output>>

StackGone == i' = 0 /\ childIds' = [k \in Index |-> Nobody]

(* The return from main writes out the buffer.                             *)
Exit ==
  /\ parent = "exit"
  /\ spawning' = [spawning EXCEPT ![run] = @ + parentBuf]
  /\ parentBuf' = 0
  /\ parent' = "end" /\ StackGone
  /\ UNCHANGED <<segment, run, families, tty>>

Parent == ShmGet \/ ShmAt \/ Write \/ PrintSpawning \/ Fork \/ ForkFails
            \/ Wait \/ WaitFails \/ ShmDt \/ Exit
-----------------------------------------------------------------------------
(* The children                                                            *)

(* A child whose shmat fails reads through the error value, and dies with  *)
(* its buffer.                                                             *)
ChildShmAt(r, k) ==
  /\ child[r][k] = "attach"
  /\ \E next \in {"read", "ended"} : child' = [child EXCEPT ![r][k] = next]
  /\ UNCHANGED <<segment, run, parent, i, childIds, got, childBuf, output>>

ChildRead(r, k) ==
  /\ child[r][k] = "read"
  /\ got' = [got EXCEPT ![r][k] = memory[k]]
  /\ child' = [child EXCEPT ![r][k] = "exit"]
  /\ UNCHANGED <<segment, run, parent, i, childIds, childBuf, output>>

(* shmdt, break, and the return from main.                                 *)
ChildExit(r, k) ==
  /\ child[r][k] = "exit"
  /\ spawning' = [spawning EXCEPT ![r] = @ + childBuf[r][k]]
  /\ childBuf' = [childBuf EXCEPT ![r][k] = 0]
  /\ child' = [child EXCEPT ![r][k] = "ended"]
  /\ UNCHANGED <<segment, run, parent, i, childIds, got, tty, parentBuf>>

Child(r, k) == ChildShmAt(r, k) \/ ChildRead(r, k) \/ ChildExit(r, k)
-----------------------------------------------------------------------------
(* The user                                                                *)

Kill ==
  /\ parent \notin {"end", "killed"}
  /\ parent' = "killed" /\ parentBuf' = 0 /\ StackGone
  /\ UNCHANGED <<segment, run, families, tty, spawning>>

(* The next run, when the parent of the last one is gone.                  *)
Start ==
  /\ parent \in {"end", "killed"}
  /\ run < MaxRuns
  /\ run' = run + 1 /\ parent' = "get"
  /\ UNCHANGED <<segment, i, childIds, families, output>>

Next ==
  \/ Parent \/ Kill \/ Start
  \/ \E r \in Runs, k \in Index : Child(r, k)

(* Every process is scheduled; nobody needs to kill or start one.          *)
Spec ==
  /\ Init /\ [][Next]_vars
  /\ WF_vars(Parent)
  /\ \A r \in Runs, k \in Index : WF_vars(Child(r, k))
-----------------------------------------------------------------------------
(* Properties                                                              *)

(* TYPE.                                                                   *)
TypeOK ==
  /\ exists \in BOOLEAN /\ tty \in BOOLEAN
  /\ memory \in [Index -> Index \cup {Nothing}]
  /\ run \in Runs /\ parent \in Parents /\ i \in Index
  /\ childIds \in [Index -> Index \cup {Any, Nobody}]
  /\ child \in [Runs -> [Index -> Children]]
  /\ got \in [Runs -> [Index -> Index \cup {Nothing}]]
  /\ parentBuf \in {0, 1} /\ childBuf \in [Runs -> [Index -> {0, 1}]]
  /\ spawning \in [Runs -> Nat]

(* SAFETY.  A child that has read has read its own message, also when its  *)
(* parent is gone and another run writes to the same segment.              *)
ChildrenReadTheirs ==
  \A r \in Runs, k \in Index :
    child[r][k] = "exit" => got[r][k] = k

(* SAFETY.  When the parent says that the children have finished, every    *)
(* child it forked has ended and was waited for, whatever forks failed and *)
(* whatever their slots of child_ids held (main.c:60-65).                  *)
AllReaped ==
  parent = "detach" => \A k \in Index : child[run][k] \in {"none", "reaped"}

(* SAFETY.  A parent that returns after it forked has shown the line; on a *)
(* terminal it is shown once, however many processes inherit the buffer.   *)
SpawningShown ==
  /\ tty => \A r \in Runs : spawning[r] <= 1
  /\ parent = "end" /\ (\E k \in Index : child[run][k] # "none") => spawning[run] >= 1

(* LIVENESS.  The parent ends, and so does every child.                    *)
RunEnds ==
  /\ []<>(parent \in {"end", "killed"})
  /\ \A r \in Runs, k \in Index : []<>(child[r][k] \in {"none", "ended", "reaped"})
=============================================================================
