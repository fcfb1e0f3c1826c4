----------------------------- MODULE MinPolicy ------------------------------
(* scheduler_min: evicts the page whose next use is farthest, by looking     *)
(* ahead in the reference sequence it was given by scheduler_init.           *)
EXTENDS Ram

VARIABLE query          \* ref_seq and ref_len: the references of the run

\* Mutant of Never: the result of a search that finds nothing is the key.
NeverLowest == -1

Never == 30000          \* the key of a page that is not used again

\* The index of the first reference to p after step (indices start at 0).
NextUse(p, step) ==
    LET later == {j \in step + 1 .. Len(query) - 1 : query[j + 1] = p}
    IN IF later = {} THEN Never ELSE CHOOSE j \in later : \A k \in later : j <= k

\* Frame i is a better victim than frame j.
Better(i, j, step) ==
    LET ki == NextUse(frames[i], step)
        kj == NextUse(frames[j], step)
    IN \/ ki > kj
       \/ ki = kj /\ frames[i] < frames[j]
       \/ ki = kj /\ frames[i] = frames[j] /\ i < j

MinVictim(step) == CHOOSE i \in DOMAIN frames :
                     \A j \in DOMAIN frames : i = j \/ Better(i, j, step)

MinHit(page) == FindPage(page) # -1 /\ Hit(FindPage(page))

MinFill(page) == FindPage(page) = -1 /\ Fill(page)

MinEvict(page, step) ==
    /\ FindPage(page) = -1
    /\ FindEmpty = -1
    /\ misses' = misses + 1
    /\ LET victim_fi == Int8(MinVictim(step))
       IN \E evicted \in Load(victim_fi) : Replace(victim_fi, evicted, page)

MinAccess(page, step) == MinHit(page) \/ MinFill(page) \/ MinEvict(page, step)
=============================================================================
