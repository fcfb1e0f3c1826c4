----------------------------- MODULE Scheduling -----------------------------
(* 008Scheduling: main draws threads at random and runs the four schedulers  *)
(* of os/scheduler.c on copies of them.  A step is one iteration of the loop *)
(* of a scheduler.                                                           *)
EXTENDS CpuLog, FiniteSetsExt

CONSTANTS MinThreads, MaxThreads, MaxBurst, MaxArrival, Quantum

ASSUME SchedulingAssumption ==
    /\ MinThreads \in Nat \ {0} /\ MaxThreads \in Nat
    /\ MaxBurst \in Nat \ {0} /\ MaxArrival \in Nat
    /\ Quantum \in Nat \ {0}

VARIABLES pc,
          todo,         \* the calls of run_algo still to be made
          algo,
          remaining, start, finish, waiting, turnaround,
          done,         \* the threads that have finished
          q, head,      \* the queue of RR: all that was put in, and how much was taken
          in_q,
          last_running, \* of SRTF
          report        \* the sum of the waiting times, by scheduler

threadVars == <<remaining, start, finish, waiting, turnaround, done>>

queueVars == <<q, head, in_q>>

vars == <<logVars, pc, todo, algo, threadVars, queueVars, last_running, report>>

Order == <<"fifo", "rr", "sjf", "srtf">>

Init ==
    /\ \E n \in MinThreads .. MaxThreads :
         /\ burst \in [0 .. n - 1 -> 1 .. MaxBurst]
         /\ arrival \in [0 .. n - 1 -> 0 .. MaxArrival]
    /\ time = 0 /\ gantt = <<>> /\ elog = <<>>
    /\ pc = "main" /\ todo = Order /\ algo = "none"
    /\ remaining = burst /\ start = [i \in Ids |-> -1]
    /\ finish = [i \in Ids |-> 0]
    /\ waiting = finish /\ turnaround = finish
    /\ done = {} /\ q = <<>> /\ head = 0 /\ in_q = {} /\ last_running = -1
    /\ report = <<>>

\* Mutant of RunAlgo: the threads go on from the previous scheduler's work.
RunAlgoOnUsedThreads ==
    /\ pc = "main"
    /\ todo # <<>>
    /\ algo' = Head(todo)
    /\ todo' = Tail(todo)
    /\ time' = 0 /\ gantt' = <<>> /\ elog' = <<>>
    /\ done' = {} /\ q' = <<>> /\ head' = 0 /\ in_q' = {} /\ last_running' = -1
    /\ pc' = "schedule"
    /\ UNCHANGED <<burst, arrival, remaining, start, finish, waiting, turnaround, report>>

\* run_algo: the scheduler starts with fresh copies and an empty log.
RunAlgo ==
    /\ pc = "main"
    /\ todo # <<>>
    /\ algo' = Head(todo)
    /\ todo' = Tail(todo)
    /\ time' = 0 /\ gantt' = <<>> /\ elog' = <<>>
    /\ remaining' = burst /\ start' = [i \in Ids |-> -1]
    /\ finish' = [i \in Ids |-> 0]
    /\ waiting' = finish' /\ turnaround' = finish'
    /\ done' = {} /\ q' = <<>> /\ head' = 0 /\ in_q' = {} /\ last_running' = -1
    /\ pc' = "schedule"
    /\ UNCHANGED <<burst, arrival, report>>

-----------------------------------------------------------------------------
(* What the schedulers share.                                                *)

Scheduling(name) == pc = "schedule" /\ algo = name /\ done # Ids

Ready == {i \in Ids \ done : arrival[i] <= time}

\* Mutant of Complete: the turnaround is counted from the start.
CompleteFromStart(i, t, waited) ==
    /\ finish' = [finish EXCEPT ![i] = t]
    /\ turnaround' = [turnaround EXCEPT ![i] = t - start'[i]]
    /\ waiting' = [waiting EXCEPT ![i] = waited]
    /\ done' = done \cup {i}

\* Thread i ends at time t.
Complete(i, t, waited) ==
    /\ finish' = [finish EXCEPT ![i] = t]
    /\ turnaround' = [turnaround EXCEPT ![i] = t - arrival[i]]
    /\ waiting' = [waiting EXCEPT ![i] = waited]
    /\ done' = done \cup {i}

\* FIFO and SJF: i gets the CPU for all its burst.
RunToEnd(i) ==
    /\ start' = [start EXCEPT ![i] = time]
    /\ gantt' = GanttPush(i, time, time + remaining[i])
    /\ time' = time + remaining[i]
    /\ remaining' = [remaining EXCEPT ![i] = 0]
    /\ Complete(i, time + remaining[i], time - arrival[i])

Elsewhere == UNCHANGED <<burst, arrival, pc, todo, algo, report>>

-----------------------------------------------------------------------------
(* FIFO.                                                                     *)

FifoIdle ==
    /\ Scheduling("fifo")
    /\ Ready = {}
    /\ elog' = elog \o Arrivals(time, time)
    /\ IdleUnit
    /\ UNCHANGED <<threadVars, queueVars, last_running>> /\ Elsewhere

\* Mutant of FifoSelect: the threads are taken by their number.
FifoSelectByNumber == CHOOSE i \in Ready : \A j \in Ready : i <= j

FifoSelect == FirstBy(Ready, arrival)

FifoRun ==
    /\ Scheduling("fifo")
    /\ Ready # {}
    /\ LET sel == FifoSelect IN
         /\ RunToEnd(sel)
         /\ elog' = Append(elog, Event(time, sel, "Started"))
                      \o Arrivals(time, time' - 1)
                      \o <<Event(time', sel, "Completed")>>
    /\ UNCHANGED <<queueVars, last_running>> /\ Elsewhere

-----------------------------------------------------------------------------
(* Round robin.                                                              *)

\* Mutant of RrNew: a thread that waits already is put in once more.
RrNewAgain == {i \in Ids : arrival[i] <= time /\ remaining[i] > 0}

\* The threads to be put in the queue before one is taken.
RrNew == {i \in Ids : arrival[i] <= time /\ remaining[i] > 0 /\ i \notin in_q}

RrEnqueue == q \o ByNumber(RrNew)

RrIdle ==
    /\ Scheduling("rr")
    /\ head >= Len(RrEnqueue)
    /\ elog' = elog \o Arrivals(time, time)
    /\ IdleUnit
    /\ UNCHANGED <<threadVars, queueVars, last_running>> /\ Elsewhere

\* The threads that arrive during a run and are not among the others.
RrArrived(run, others) ==
    {i \in Ids : arrival[i] \in time + 1 .. time + run /\ remaining[i] > 0} \ others

\* Mutant of RrRequeue: the preempted thread goes before those that arrived.
RrRequeueFirst(queued, came, sel, left) ==
    IF left > 0 THEN Append(queued, sel) \o ByArrival(came) ELSE queued \o ByArrival(came)

\* The threads that arrived meanwhile come before the one that is preempted.
RrRequeue(queued, came, sel, left) ==
    IF left > 0 THEN Append(queued \o ByArrival(came), sel) ELSE queued \o ByArrival(came)

\* Mutant of RunTime: the last quantum of a thread is a whole one.
RunTimeWhole(sel) == Quantum

RunTime(sel) == IF remaining[sel] < Quantum THEN remaining[sel] ELSE Quantum

RrRun ==
    /\ Scheduling("rr")
    /\ head < Len(RrEnqueue)
    /\ LET queued == RrEnqueue
           sel    == queued[head + 1]
           run    == RunTime(sel)
           left   == remaining[sel] - run
           inside == (in_q \cup RrNew) \ {sel}
           came   == RrArrived(run, inside \cup {sel})
       IN /\ q' = RrRequeue(queued, came, sel, left)
          /\ head' = head + 1
          /\ in_q' = inside \cup came \cup (IF left > 0 THEN {sel} ELSE {})
          /\ start' = [start EXCEPT ![sel] = IF start[sel] = -1 THEN time ELSE start[sel]]
          /\ gantt' = GanttPush(sel, time, time + run)
          /\ time' = time + run
          /\ remaining' = [remaining EXCEPT ![sel] = left]
          /\ IF left > 0
             THEN UNCHANGED <<finish, turnaround, waiting, done>>
             ELSE Complete(sel, time + run, time + run - arrival[sel] - burst[sel])
          /\ elog' = elog \o Arrivals(time, time)
                       \o (IF start[sel] = -1 THEN <<Event(time, sel, "Started")>> ELSE <<>>)
                       \o Arrivals(time + 1, time + run)
                       \o <<Event(time + run, sel, IF left > 0 THEN "Preempted" ELSE "Completed")>>
    /\ UNCHANGED last_running /\ Elsewhere

-----------------------------------------------------------------------------
(* Shortest job first.                                                       *)

SjfIdle ==
    /\ Scheduling("sjf")
    /\ Ready = {}
    /\ elog' = elog \o Arrivals(time, time)
    /\ IdleUnit
    /\ UNCHANGED <<threadVars, queueVars, last_running>> /\ Elsewhere

SjfRun ==
    /\ Scheduling("sjf")
    /\ Ready # {}
    /\ LET sel == FirstBy(Ready, burst) IN
         /\ RunToEnd(sel)
         /\ elog' = elog \o Arrivals(time, time)
                      \o <<Event(time, sel, "Started")>>
                      \o Arrivals(time + 1, time' - 1)
                      \o Arrivals(time', time')
                      \o <<Event(time', sel, "Completed")>>
    /\ UNCHANGED <<queueVars, last_running>> /\ Elsewhere

-----------------------------------------------------------------------------
(* Shortest remaining time first.                                            *)

\* The thread that ran before, if it has work left and is not sel.
Preempted(sel) ==
    IF last_running # -1 /\ last_running # sel /\ remaining[last_running] > 0
    THEN <<Event(time, last_running, "Preempted")>> ELSE <<>>

SrtfIdle ==
    /\ Scheduling("srtf")
    /\ Ready = {}
    /\ elog' = elog \o Arrivals(time, time) \o Preempted(-1)
    /\ IdleUnit
    /\ last_running' = -1
    /\ UNCHANGED <<threadVars, queueVars>> /\ Elsewhere

\* Mutant of SrtfSelect: the whole burst decides, not what is left of it.
SrtfSelectByBurst == FirstBy(Ready, burst)

SrtfSelect == FirstBy(Ready, remaining)

SrtfRun ==
    /\ Scheduling("srtf")
    /\ Ready # {}
    /\ LET sel == SrtfSelect IN
         /\ start' = [start EXCEPT ![sel] = IF start[sel] = -1 THEN time ELSE start[sel]]
         /\ gantt' = GanttPush(sel, time, time + 1)
         /\ time' = time + 1
         /\ remaining' = [remaining EXCEPT ![sel] = @ - 1]
         /\ IF remaining[sel] = 1
            THEN Complete(sel, time + 1, time + 1 - arrival[sel] - burst[sel])
            ELSE UNCHANGED <<finish, turnaround, waiting, done>>
         /\ elog' = elog \o Arrivals(time, time) \o Preempted(sel)
                      \o (IF start[sel] = -1 \/ last_running # sel
                          THEN <<Event(time, sel, "Started")>> ELSE <<>>)
                      \o (IF remaining[sel] = 1
                          THEN <<Event(time + 1, sel, "Completed")>> ELSE <<>>)
         /\ last_running' = sel
    /\ UNCHANGED queueVars /\ Elsewhere

-----------------------------------------------------------------------------
\* The scheduler returns, after FIFO has looked for arrivals once more.
Return ==
    /\ pc = "schedule"
    /\ done = Ids
    /\ elog' = IF algo = "fifo" THEN elog \o Arrivals(time, time) ELSE elog
    /\ report' = [a \in DOMAIN report \cup {algo} |->
                    IF a = algo THEN MapThenSumSet(LAMBDA i : waiting[i], Ids) ELSE report[a]]
    /\ pc' = "main"
    /\ UNCHANGED <<burst, arrival, time, gantt, todo, algo, threadVars, queueVars, last_running>>

Stopped == pc = "main" /\ todo = <<>> /\ UNCHANGED vars

Next == \/ RunAlgo \/ Return \/ Stopped
        \/ FifoIdle \/ FifoRun \/ RrIdle \/ RrRun \/ SjfIdle \/ SjfRun \/ SrtfIdle \/ SrtfRun

Spec == Init /\ [][Next]_vars

FairSpec == Spec /\ WF_vars(Next)

-----------------------------------------------------------------------------
(* Properties.                                                               *)

Slots(i) == {k \in DOMAIN gantt : gantt[k].thread_id = i}

Ran(i) == SumFunctionOnSet([k \in DOMAIN gantt |-> gantt[k].end - gantt[k].start], Slots(i))

Times == 0 .. MaxArrival + Cardinality(Ids) * MaxBurst

\* Every variable keeps its type.
TypeOK ==
    /\ burst \in [Ids -> 1 .. MaxBurst] /\ arrival \in [Ids -> 0 .. MaxArrival]
    /\ time \in Times
    /\ remaining \in [Ids -> 0 .. MaxBurst]
    /\ start \in [Ids -> {-1} \cup Times] /\ finish \in [Ids -> Times]
    /\ waiting \in [Ids -> Times] /\ turnaround \in [Ids -> Times]
    /\ done \subseteq Ids /\ in_q \subseteq Ids
    /\ head \in 0 .. Len(q) /\ last_running \in Ids \cup {-1}

\* Each scheduler shares out one CPU as its discipline says, never lets it
\* idle while a thread could use it, and starts from unused threads
\* (scheduler.c:67-294, main.c:29).
Cpu == INSTANCE CpuSharing WITH discipline <- algo, now <- time, left <- remaining
CpuSpec == Cpu!Spec

\* The chart output.c draws has neither gaps nor overlaps, no two slots of one
\* thread in a row, and as much of each thread as it has run
\* (scheduler.c:19-28).
ChartExact ==
    /\ \A k \in DOMAIN gantt :
         /\ gantt[k].start < gantt[k].end
         /\ gantt[k].start = IF k = 1 THEN 0 ELSE gantt[k - 1].end
         /\ k > 1 => gantt[k].thread_id # gantt[k - 1].thread_id
    /\ time = IF gantt = <<>> THEN 0 ELSE gantt[Len(gantt)].end
    /\ \A i \in Ids : Ran(i) = burst[i] - remaining[i]

\* The part of slot k between from and to.
Overlap(k, from, to) ==
    LET a == IF gantt[k].start > from THEN gantt[k].start ELSE from
        b == IF gantt[k].end < to THEN gantt[k].end ELSE to
    IN IF a < b THEN b - a ELSE 0

\* The figures of a finished thread are those the chart shows: it waited as
\* long as others ran between its arrival and its end, whichever of the two
\* formulas its scheduler uses (scheduler.c:86, 169, 212, 284).
FiguresExact == \A i \in done :
    /\ \E k \in Slots(i) : gantt[k].end = finish[i] /\ \A m \in Slots(i) : m <= k
    /\ turnaround[i] = finish[i] - arrival[i]
    /\ waiting[i] = SumFunctionOnSet([k \in DOMAIN gantt |-> Overlap(k, arrival[i], finish[i])],
                                     DOMAIN gantt \ Slots(i))

\* What is shown of a schedule is true of it, the chart and the figures.
ShownExact == ChartExact /\ FiguresExact

Waiting == ToSet(SubSeq(q, head + 1, Len(q)))

Quanta == (MaxBurst + Quantum - 1) \div Quantum

\* The threads that are ready under RR, and only they, wait in the queue, each
\* once.
ReadyQueued ==
    algo = "rr" =>
        /\ Waiting = in_q
        /\ Cardinality(in_q) = Len(q) - head
        /\ {i \in Ready : arrival[i] < time} \subseteq in_q
        /\ in_q \subseteq Ready

\* They are queued, and q is never longer than all the quanta together: 75 of
\* its 1000 places in the build (scheduler.c:120-166).
QueueExact ==
    /\ ReadyQueued
    /\ algo = "rr" => Len(q) <= Cardinality(Ids) * Quanta

LastRan(i) == Max({arrival[i]} \cup {gantt[k].end : k \in Slots(i)})

\* Under RR nobody waits longer than a quantum of every other thread, arrivals
\* and preemptions in between notwithstanding.
RrBoundedWait ==
    algo = "rr" =>
        \A i \in Ready : time - LastRan(i) <= Quantum * (Cardinality(Ids) - 1)

\* The least sum of waiting times from time t on, when left is still to be run,
\* that any way of sharing the CPU reaches that does not let it idle while a
\* thread could run.  No work is left at the last of the Times.
LeastWaiting ==
    LET least[t \in Times] ==
          [left \in [Ids -> 0 .. MaxBurst] |->
             LET ready == {i \in Ids : left[i] > 0 /\ arrival[i] <= t}
             IN IF t + 1 \notin Times THEN 0
                ELSE IF ready = {} THEN least[t + 1][left]
                ELSE Cardinality(ready) - 1
                       + Min({least[t + 1][[left EXCEPT ![i] = @ - 1]] : i \in ready})]
    IN least

\* SRTF is "Optimal for average waiting time" (Documentation.md:43).
SrtfOptimal ==
    pc = "main" /\ "srtf" \in DOMAIN report => report["srtf"] = LeastWaiting[0][burst]

Logged(i, what) == {k \in DOMAIN elog : elog[k].thread_id = i /\ elog[k].message = what}

\* The log goes forward in time; no arrival before the present is missing, and
\* under FIFO and SRTF none is there twice; a thread starts before it
\* completes, once, at the time its figures say.
LogComplete ==
    /\ \A k \in 2 .. Len(elog) : elog[k - 1].time <= elog[k].time
    /\ \A i \in Ids : arrival[i] < time =>
         /\ \E k \in Logged(i, "Arrived") : elog[k].time = arrival[i]
         /\ algo \in {"fifo", "srtf"} => Cardinality(Logged(i, "Arrived")) = 1
    /\ \A i \in done : \E k \in Logged(i, "Completed") :
         /\ elog[k].time = finish[i]
         /\ \A m \in Logged(i, "Completed") : m = k
         /\ \E m \in Logged(i, "Started") : m < k /\ elog[m].time = start[i]

\* All four schedulers return.
AllReturn == <>(pc = "main" /\ todo = <<>>)
=============================================================================
