------------------------------- MODULE CpuLog -------------------------------
(* The Gantt chart and the event log of 008Scheduling, and the threads they  *)
(* are about.                                                                *)
EXTENDS Integers, FiniteSets, Sequences, SequencesExt

VARIABLES burst, arrival,   \* of the threads main drew, by their number
          time,
          gantt,            \* the slots of gantt_t
          elog              \* the events of event_log_t

logVars == <<burst, arrival, time, gantt, elog>>

Idling == -1

Ids == DOMAIN burst

\* Mutant of GanttPush: every slot is a new one.
GanttPushAlways(tid, from, to) ==
    Append(gantt, [thread_id |-> tid, start |-> from, end |-> to])

\* gantt_push: the last slot grows when it is the same thread's.
GanttPush(tid, from, to) ==
    IF gantt # <<>> /\ gantt[Len(gantt)].thread_id = tid
    THEN [gantt EXCEPT ![Len(gantt)].end = to]
    ELSE Append(gantt, [thread_id |-> tid, start |-> from, end |-> to])

Event(t, i, what) == [time |-> t, thread_id |-> i, message |-> what]

\* i comes before j: it is less by key or, with the same key, by its number.
Before(key, i, j) == key[i] < key[j] \/ (key[i] = key[j] /\ i < j)

\* The threads of S in this order, as SetToSortSeq would have them, in a form
\* the provers know.
InOrder(S, key) == CHOOSE s \in [1 .. Cardinality(S) -> S] :
    \A k, m \in 1 .. Cardinality(S) : k < m => Before(key, s[k], s[m])

ByArrival(S) == InOrder(S, arrival)

ByNumber(S) == InOrder(S, [i \in S |-> i])

\* Mutant of Arrivals: the last instant is left out.
ArrivalsOpen(from, to) ==
    LET s == ByArrival({i \in Ids : arrival[i] \in from .. to - 1})
    IN [k \in DOMAIN s |-> Event(arrival[s[k]], s[k], "Arrived")]

\* check_arrivals: an event for each thread that arrives from .. to, by time
\* and then by number.
Arrivals(from, to) ==
    LET s == ByArrival({i \in Ids : arrival[i] \in from .. to})
    IN [k \in DOMAIN s |-> Event(arrival[s[k]], s[k], "Arrived")]

\* Mutant of IdleUnit: the clock stands still while nothing runs.
IdleUnitStandsStill ==
    /\ gantt' = GanttPush(Idling, time, time + 1)
    /\ UNCHANGED time

\* The CPU is idle for one unit.
IdleUnit ==
    /\ gantt' = GanttPush(Idling, time, time + 1)
    /\ time' = time + 1

\* The first of S by key.
FirstBy(S, key) == CHOOSE i \in S : \A j \in S : i = j \/ Before(key, i, j)
=============================================================================
