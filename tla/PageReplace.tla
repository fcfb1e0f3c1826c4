---------------------------- MODULE PageReplace -----------------------------
(* 010PageReplace: main parses the arguments, logger_run runs the policies   *)
(* asked for one after the other over the same references, and run_one shows *)
(* each access and waits for Enter before the next.                          *)
EXTENDS FifoPolicy, MinPolicy, LruPolicy, SecondChance, TLC

CONSTANTS Args,         \* the arguments the program may be called with: the value n
                        \* of -N, the numbers of -query or of the file of -f, and
                        \* the name given to -a
          MaxQuery,     \* MAX_QUERY
          Cols          \* the frames print_ram shows in a row

ASSUME ArgsAssumption ==
    /\ \A a \in Args : a.n \in Int /\ a.typed \in Seq(Int)
    /\ MaxQuery \in Nat /\ Cols \in Nat \ {0}

VARIABLES pc,
          todo,         \* the calls of run_one still to be made
          algo,         \* the policy of the current one
          step,         \* its index in the references
          row,          \* the first frame of the row print_ram is to print
          report        \* the hits and misses printed, by policy

loopVars == <<pc, todo, algo, step, row, report>>

vars == <<ramVars, fifoVars, query, lruVars, scVars, loopVars>>

Order == <<"fifo", "min", "lru", "second_chance">>

Init ==
    /\ num_frames = 0 /\ frames = EmptyFrames(0)
    /\ hits = 0 /\ misses = 0 /\ result = NoResult
    /\ fifo_queue = [k \in Bytes |-> 0] /\ fifo_head = 0 /\ fifo_count = 0
    /\ query = <<>>
    /\ LruInit
    /\ ScInit
    /\ pc = "parse" /\ todo = <<>> /\ algo = "none" /\ step = 0 /\ row = 0
    /\ report = <<>>

-----------------------------------------------------------------------------
(* Starting up.                                                              *)

(* The numbers are narrowed to bytes; what is beyond MAX_QUERY is not read,  *)
(* and a negative number in what is read ends the program.                   *)
ParseQuery(typed) ==
    [k \in 1 .. (IF Len(typed) < MaxQuery THEN Len(typed) ELSE MaxQuery) |-> Uint8(typed[k])]

Refused(n, typed) ==
    \/ Uint8(n) < 1
    \/ ParseQuery(typed) = <<>>
    \/ \E k \in DOMAIN ParseQuery(typed) : typed[k] < 0

LoggerRun(name) ==
    IF name = "all" THEN Order
    ELSE IF name \in {Order[k] : k \in DOMAIN Order} THEN <<name>> ELSE <<>>

ParseArgs ==
    /\ pc = "parse"
    /\ \E a \in Args :
         IF Refused(a.n, a.typed)
         THEN pc' = "exit" /\ UNCHANGED <<num_frames, frames, query, todo>>
         ELSE /\ num_frames' = Uint8(a.n)
              /\ frames' = EmptyFrames(Uint8(a.n))
              /\ query' = ParseQuery(a.typed)
              /\ todo' = LoggerRun(a.name)
              /\ pc' = "run"
    /\ UNCHANGED <<hits, misses, result, fifoVars, lruVars, scVars, algo, step, row, report>>

-----------------------------------------------------------------------------
(* run_one.                                                                  *)

\* Mutant of SchedulerReset: the frames keep the pages of the previous policy.
SchedulerResetKeepsFrames ==
    /\ hits' = 0
    /\ misses' = 0
    /\ UNCHANGED frames
    /\ FifoReset
    /\ LruReset
    /\ ScReset

SchedulerReset ==
    /\ hits' = 0
    /\ misses' = 0
    /\ frames' = EmptyFrames(num_frames)
    /\ FifoReset
    /\ LruReset
    /\ ScReset

RunOne ==
    /\ pc = "run"
    /\ todo # <<>>
    /\ SchedulerReset
    /\ algo' = Head(todo)
    /\ todo' = Tail(todo)
    /\ step' = 0
    /\ row' = 0
    /\ pc' = "access"
    /\ UNCHANGED <<num_frames, result, query, report>>

Page == query[step + 1]

\* The access is done: a hit or a load into a free frame shows all frames.
Show ==
    /\ pc' = IF result'.hit \/ result'.evicted = FrameEmpty THEN "show" ELSE "wait"
    /\ row' = 0
    /\ UNCHANGED <<todo, algo, step, report, query>>

Referencing(name) == pc = "access" /\ algo = name /\ step < Len(query)

Fifo == /\ Referencing("fifo")
        /\ FifoAccess(Page)
        /\ Show
        /\ UNCHANGED <<lruVars, scVars>>

Min == /\ Referencing("min")
       /\ MinAccess(Page, step)
       /\ Show
       /\ UNCHANGED <<fifoVars, lruVars, scVars>>

Lru == /\ Referencing("lru")
       /\ LruAccess(Page)
       /\ Show
       /\ UNCHANGED <<fifoVars, scVars>>

ScAccess == /\ Referencing("second_chance")
            /\ ScHit(Page) \/ ScFill(Page)
            /\ Show
            /\ UNCHANGED <<fifoVars, lruVars>>

ScBegin == /\ Referencing("second_chance")
           /\ ScMiss(Page)
           /\ pc' = "sweep"
           /\ UNCHANGED <<fifoVars, lruVars, query, todo, algo, step, row, report>>

Sweep == /\ pc = "sweep"
         /\ ScSweep
         /\ UNCHANGED <<fifoVars, lruVars, query, loopVars>>

ScEnd == /\ pc = "sweep"
         /\ ScEvict(Page)
         /\ Show
         /\ UNCHANGED <<fifoVars, lruVars>>

\* print_ram's loop variable is a byte.
PrintRow ==
    /\ pc = "show"
    /\ IF row < num_frames
       THEN row' = Uint8(row + Cols) /\ UNCHANGED pc
       ELSE pc' = "wait" /\ UNCHANGED row
    /\ UNCHANGED <<ramVars, fifoVars, query, lruVars, scVars, todo, algo, step, report>>

\* The user presses Enter: the next reference, or the next policy.
Enter ==
    /\ pc \in {"wait", "done"}
    /\ IF pc = "wait" THEN step' = step + 1 /\ pc' = "access"
                      ELSE UNCHANGED step /\ pc' = "run"
    /\ UNCHANGED <<ramVars, fifoVars, query, lruVars, scVars, todo, algo, row, report>>

Results ==
    /\ pc = "access"
    /\ step = Len(query)
    /\ report' = (algo :> [hits |-> hits, misses |-> misses]) @@ report
    /\ pc' = "done"
    /\ UNCHANGED <<ramVars, fifoVars, query, lruVars, scVars, todo, algo, step, row>>

Exit ==
    /\ pc = "run"
    /\ todo = <<>>
    /\ pc' = "exit"
    /\ UNCHANGED <<ramVars, fifoVars, query, lruVars, scVars, todo, algo, step, row, report>>

Stopped == pc = "exit" /\ UNCHANGED vars

Next == \/ ParseArgs \/ RunOne
        \/ Fifo \/ Min \/ Lru \/ ScAccess \/ ScBegin \/ Sweep \/ ScEnd
        \/ PrintRow \/ Enter \/ Results \/ Exit \/ Stopped

Spec == Init /\ [][Next]_vars

\* The program goes on, and its user presses Enter.
FairSpec == Spec /\ WF_vars(Next)

-----------------------------------------------------------------------------
(* Properties.                                                               *)

\* Every variable keeps its type, and the pointers of the two lists always
\* agree with one another in both directions.
TypeOK ==
    /\ num_frames \in Bytes
    /\ frames \in [0 .. num_frames - 1 -> Bytes]
    /\ hits \in 0 .. Len(query) /\ misses \in 0 .. Len(query)
    /\ result \in [hit : BOOLEAN, evicted : Bytes, frame_idx : Bytes]
    /\ query \in Seq(Bytes)
    /\ FifoTypeOK
    /\ LruTypeOK
    /\ ScTypeOK
    /\ pc \in {"parse", "run", "access", "sweep", "show", "wait", "done", "exit"}
    /\ step \in 0 .. Len(query)
    /\ row \in Bytes

\* What each policy keeps of the resident pages, in its own structures, read
\* as the queue of EvictionQueue.
Queue == CASE algo = "fifo" -> FifoOrder
           [] algo = "min"  -> [k \in 1 .. Cardinality(Resident) |-> frames[k - 1]]
           [] algo = "lru"  -> LruOrder
           [] algo = "second_chance" -> ScOrder
           [] OTHER -> <<>>

Eviction == INSTANCE EvictionQueue WITH
    policy <- algo,
    room   <- num_frames,
    page   <- IF step < Len(query) THEN Page ELSE FrameEmpty,
    served <- pc \in {"show", "wait"},
    queue  <- Queue,
    marked <- IF algo = "second_chance" THEN ScMarked ELSE {}

\* The circular array, the frames and the two pointer lists do what a queue of
\* resident pages does: FIFO evicts the oldest page, LRU the least recently
\* used, second chance the first one not used since it was loaded or spared,
\* and every policy evicts only when no frame is free (scheduler.c:98-311).
EvictionSpec == Eviction!Spec

Served == IF pc \in {"show", "wait", "sweep"} THEN step + 1 ELSE step

\* The pages referenced so far under the current policy.
Referenced == {query[k] : k \in 1 .. Served}

LastUse(p) == CHOOSE k \in 1 .. Served :
                query[k] = p /\ \A j \in k + 1 .. Served : query[j] # p

\* The frames under LRU hold the num_frames pages used last, whatever the
\* order of hits and evictions that led there (scheduler.c:205-243): the
\* reason why LRU never does worse with more frames.
LruHoldsMostRecent ==
    algo = "lru" /\ pc \in {"access", "show", "wait"} =>
        Resident = {p \in Referenced :
                      Cardinality({q \in Referenced : LastUse(q) > LastUse(p)}) < num_frames}

(* The fewest misses with which a pager that has the pages of held in memory *)
(* can serve the references from index i on.                                 *)
Fewest ==
    LET fewest[i \in 0 .. Len(query)] ==
          [held \in SUBSET Bytes |->
             IF i = Len(query) THEN 0
             ELSE IF query[i + 1] \in held THEN fewest[i + 1][held]
             ELSE IF Cardinality(held) < num_frames
                  THEN 1 + fewest[i + 1][held \cup {query[i + 1]}]
             ELSE LET rest == {fewest[i + 1][(held \ {v}) \cup {query[i + 1]}] : v \in held}
                  IN 1 + (CHOOSE f \in rest : \A g \in rest : f <= g)]
    IN fewest

\* MIN never takes a step after which the least number of misses could not be
\* reached any more, so that its total is the least there is ("MIN is optimal
\* by definition", Documentation.md:120; scheduler.c:155-177).
MinStaysOptimal ==
    algo = "min" /\ pc \in {"access", "wait"} =>
        misses + Fewest[Served][Resident] = Fewest[0][{}]

\* Each reference is counted once, and the first one to a page is a miss
\* (scheduler.h:8): nothing is resident that this policy has not loaded.
\* After the access the page is in the frame that result names
\* (scheduler.h:11, "frame index that changed"): the frame each policy keeps
\* for a page is the one RAM has it in.  From 129 frames on this would fail,
\* for the index is an int8_t (scheduler.c:54).
ReferencesServed ==
    /\ pc \in {"access", "show", "wait", "done"} =>
         hits + misses = Served /\ misses >= Cardinality(Referenced)
    /\ pc \in {"show", "wait"} => frames[result.frame_idx] = query[step + 1]

\* Every run ends: the sweep stops, and so does the display of the frames.
RunEnds == <>(pc = "exit")
=============================================================================
