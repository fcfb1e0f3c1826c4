---------------------------- MODULE CpuSharing ------------------------------
(* What each scheduler of 008Scheduling promises: all the work of the        *)
(* threads is done on one CPU, which is given at any time to at most one     *)
(* thread that has arrived and has work left, for as long as its discipline  *)
(* allows, and is idle only while there is no such thread.                   *)
EXTENDS Integers

CONSTANT Quantum

VARIABLES discipline, arrival, burst, now, left

threads == <<arrival, burst>>

vars == <<discipline, threads, now, left>>

Ready == {i \in DOMAIN left : arrival[i] <= now /\ left[i] > 0}

Init == discipline = "none" /\ now = 0 /\ left = burst

\* The next discipline begins when no work is left, with the same threads and
\* all their work.
Begin ==
    /\ discipline' # discipline
    /\ discipline # "none" => \A i \in DOMAIN left : left[i] = 0
    /\ now' = 0
    /\ left' = burst
    /\ UNCHANGED threads

Slice(i) == IF discipline = "srtf" THEN 1
            ELSE IF discipline = "rr" /\ left[i] > Quantum THEN Quantum
            ELSE left[i]

\* Whether i may be given the CPU: FIFO serves the first to arrive, SJF the
\* one with the least work and SRTF the one with the least work left.
MayRun(i) == \A j \in Ready :
    /\ discipline = "fifo" => arrival[i] <= arrival[j]
    /\ discipline = "sjf" => burst[i] <= burst[j]
    /\ discipline = "srtf" => left[i] <= left[j]

Work == \E i \in Ready :
    /\ MayRun(i)
    /\ now' = now + Slice(i)
    /\ left' = [left EXCEPT ![i] = left[i] - Slice(i)]
    /\ UNCHANGED <<discipline, threads>>

Idle ==
    /\ Ready = {}
    /\ now' = now + 1
    /\ UNCHANGED <<discipline, threads, left>>

Next == Begin \/ Work \/ Idle

Spec == Init /\ [][Next]_vars
=============================================================================
