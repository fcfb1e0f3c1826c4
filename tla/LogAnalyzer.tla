---------------------------- MODULE LogAnalyzer ----------------------------
(***************************************************************************)
(* The multithreaded web-log analyser of 005Threads (MULTITHREAD = 1):     *)
(* main, the worker threads and the four named semaphores that guard the   *)
(* log file, the two hash tables and the error counter.                    *)
(*                                                                         *)
(* A named semaphore lives in the kernel and survives the process, so the  *)
(* module follows several runs of the program.  A run may be killed at any *)
(* point, pthread_create and fgets may fail, and ht_set may run out of     *)
(* memory.                                                                 *)
(***************************************************************************)
EXTENDS LogEntries

CONSTANTS
  NUM_THREADS,    \* workers started by process_multithread
  MaxRuns,        \* bound: how often the program is started
  MaxFaults,      \* bound: killed runs and failures of pthread_create
  MaxAllocFails,  \* bound: failures of ht_set in a run
  MaxReadFails,   \* bound: failures of fgets in a run
  NoReport        \* no figures were printed

ASSUME ThreadsAssumption ==
  /\ NUM_THREADS \in Nat \ {0}
  /\ MaxRuns \in Nat
  /\ MaxFaults \in Nat
  /\ MaxAllocFails \in Nat
  /\ MaxReadFails \in Nat
  /\ NoReport \notin Reports

Threads  == 0 .. NUM_THREADS - 1
Tallies  == {"ip", "url", "errors"}
Sections == {"file", "ip", "url", "errors"}   \* one semaphore each

VARIABLES
  (* The kernel.                                                           *)
  sem,          \* value of each semaphore
  names,        \* semaphores whose name exists
  (* The main thread.                                                      *)
  main,         \* what main executes next; "off" when no process exists
  next_i,       \* the loop variable i of process_multithread
  report,       \* the figures of the last printf calls
  (* The workers.                                                          *)
  at,           \* the critical section a worker is in or heads for
  step,         \* its next step there: "wait", "load", "store" or "post"
  cur,          \* number of the line in `buffer'; 0 after a NULL of fgets
  entry,        \* the locals ip, url and status
  loaded,       \* the count that ht_get found (0 for NULL), or errors
  (* The globals of main.c.                                                *)
  pos,          \* lines that fgets has delivered; one more after EOF
  ip_requests, url_visits,   \* counts by key, 0 for an absent key
  errors,
  (* History: how each line was read, and the lines in each tally.         *)
  parsed, counted,
  (* Bounds.                                                               *)
  runs, faults, allocFails, readFails

kernel  == <<sem, names>>
control == <<main, next_i>>
workers == <<at, step, cur, entry, loaded>>
tables  == <<ip_requests, url_visits, errors>>
history == <<parsed, counted>>
fails   == <<allocFails, readFails>>
bounds  == <<runs, faults, fails>>
vars    == <<kernel, control, report, workers, pos, tables, history, bounds>>

NoEntry == CHOOSE e \in Junk : TRUE   \* entry of a worker not yet started

-----------------------------------------------------------------------------
Init ==
  /\ sem = [s \in Sections |-> 1]
  /\ names = {}
  /\ main = "off"
  /\ next_i = 0
  /\ report = NoReport
  /\ at = [t \in Threads |-> "none"]
  /\ step = [t \in Threads |-> "wait"]
  /\ cur = [t \in Threads |-> 0]
  /\ entry = [t \in Threads |-> NoEntry]
  /\ loaded = [t \in Threads |-> 0]
  /\ pos = 0
  /\ ip_requests = [k \in Ips |-> 0]
  /\ url_visits = [k \in Urls |-> 0]
  /\ errors = 0
  /\ parsed = Content
  /\ counted = [s \in Tallies |-> {}]
  /\ runs = 0
  /\ faults = 0
  /\ allocFails = 0
  /\ readFails = 0

(* The process and its memory are gone; the semaphores are not.            *)
ProcessEnds ==
  /\ main' = "off"
  /\ next_i' = 0
  /\ at' = [t \in Threads |-> "none"]
  /\ step' = [t \in Threads |-> "wait"]
  /\ cur' = [t \in Threads |-> 0]
  /\ entry' = [t \in Threads |-> NoEntry]
  /\ loaded' = [t \in Threads |-> 0]
  /\ pos' = 0
  /\ ip_requests' = [k \in Ips |-> 0]
  /\ url_visits' = [k \in Urls |-> 0]
  /\ errors' = 0
  /\ parsed' = Content
  /\ counted' = [s \in Tallies |-> {}]
  /\ allocFails' = 0
  /\ readFails' = 0

-----------------------------------------------------------------------------
(* main                                                                    *)

(* fopen and ht_create; the run ends at once when the file does not open.  *)
Boot ==
  /\ main = "off"
  /\ runs < MaxRuns
  /\ runs' = runs + 1
  /\ main' \in {"off", "sem_init"}
  /\ report' = NoReport
  /\ UNCHANGED <<kernel, next_i, workers, pos, tables, history, faults, fails>>

(* Mutant: frees a semaphore of an existing name without asking whether    *)
(* it was taken.                                                           *)
SemaphoresInitPosts ==
  /\ main = "sem_init"
  /\ sem' = [s \in Sections |-> IF s \in names THEN sem[s] + 1 ELSE 1]
  /\ names' = Sections
  /\ main' = "create"
  /\ UNCHANGED <<next_i, report, workers, pos, tables, history, bounds>>

(* sem_open(name, O_CREAT, 0666, 1): the value 1 is for a new name only.   *)
SemaphoresInit ==
  /\ main = "sem_init"
  /\ sem' = [s \in Sections |-> IF s \in names THEN sem[s] ELSE 1]
  /\ names' = Sections
  /\ main' = "create"
  /\ UNCHANGED <<next_i, report, workers, pos, tables, history, bounds>>

PthreadCreate ==
  /\ main = "create"
  /\ \E junk \in Junk :
       /\ at' = [at EXCEPT ![next_i] = "file"]
       /\ entry' = [entry EXCEPT ![next_i] = junk]
  /\ IF next_i + 1 < NUM_THREADS
     THEN next_i' = next_i + 1 /\ main' = "create"
     ELSE next_i' = 0 /\ main' = "join"
  /\ UNCHANGED <<kernel, report, step, cur, loaded, pos, tables, history,
                 bounds>>

(* process_multithread returns -1, and main with it.                       *)
PthreadCreateFails ==
  /\ main = "create"
  /\ faults < MaxFaults
  /\ faults' = faults + 1
  /\ ProcessEnds
  /\ UNCHANGED <<kernel, report, runs>>

(* Mutant: waits for the last worker only.                                 *)
PthreadJoinLast ==
  /\ main = "join"
  /\ at[NUM_THREADS - 1] = "done"
  /\ IF next_i + 1 < NUM_THREADS
     THEN next_i' = next_i + 1 /\ main' = "join"
     ELSE next_i' = 0 /\ main' = "clean"
  /\ UNCHANGED <<kernel, report, workers, pos, tables, history, bounds>>

PthreadJoin ==
  /\ main = "join"
  /\ at[next_i] = "done"
  /\ IF next_i + 1 < NUM_THREADS
     THEN next_i' = next_i + 1 /\ main' = "join"
     ELSE next_i' = 0 /\ main' = "clean"
  /\ UNCHANGED <<kernel, report, workers, pos, tables, history, bounds>>

SemaphoresClean ==
  /\ main = "clean"
  /\ names' = {}
  /\ main' = "report"
  /\ UNCHANGED <<sem, next_i, report, workers, pos, tables, history, bounds>>

(* get_most_visited: a URL of the largest count.  Its buffer is never set  *)
(* when the table is empty, and then names any URL, 0 times.               *)
MostVisited ==
  {u \in Urls : \A k \in Urls : url_visits[k] <= url_visits[u]}

UniqueIps == {k \in Ips : ip_requests[k] # 0}   \* ht_length(ip_requests)

(* The printf calls of main, and the end of the process.                   *)
Report ==
  /\ main = "report"
  /\ \E u \in MostVisited :
       report' = [ips    |-> Cardinality(UniqueIps),
                  url    |-> u,
                  best   |-> url_visits[u],
                  errors |-> errors]
  /\ ProcessEnds
  /\ UNCHANGED <<kernel, runs, faults>>

(* A signal, or the NULL dereference after a malloc or ht_create failed.   *)
Kill ==
  /\ main # "off"
  /\ faults < MaxFaults
  /\ faults' = faults + 1
  /\ ProcessEnds
  /\ UNCHANGED <<kernel, report, runs>>

-----------------------------------------------------------------------------
(* The workers: process_log, parse_log_entry_multit and the three          *)
(* count_..._multit functions                                              *)

Goto(t, s) ==
  /\ at' = [at EXCEPT ![t] = s]
  /\ step' = [step EXCEPT ![t] = "wait"]

Advance(t, here, new) ==
  /\ step[t] = here
  /\ step' = [step EXCEPT ![t] = new]
  /\ UNCHANGED <<at, kernel, control, report, runs, faults>>

SemWait(t) ==
  /\ at[t] \in Sections
  /\ step[t] = "wait"
  /\ sem[at[t]] > 0
  /\ sem' = [sem EXCEPT ![at[t]] = @ - 1]
  /\ step' = [step EXCEPT ![t] = "load"]
  /\ UNCHANGED <<names, control, report, at, cur, entry, loaded, pos, tables,
                 history, bounds>>

Fgets(t) ==
  /\ at[t] = "file"
  /\ Advance(t, "load", "post")
  /\ IF pos < Len(Log)
     THEN pos' = pos + 1 /\ cur' = [cur EXCEPT ![t] = pos + 1]
     ELSE pos' = Len(Log) + 1 /\ cur' = [cur EXCEPT ![t] = 0]
  /\ UNCHANGED <<entry, loaded, tables, history, fails>>

(* fgets fails to read the file, which the worker takes for its end.  The  *)
(* next call, of another worker, may succeed.                              *)
FgetsFails(t) ==
  /\ at[t] = "file"
  /\ pos <= Len(Log)
  /\ readFails < MaxReadFails
  /\ readFails' = readFails + 1
  /\ Advance(t, "load", "post")
  /\ cur' = [cur EXCEPT ![t] = 0]
  /\ UNCHANGED <<entry, loaded, pos, tables, history, allocFails>>

(* Mutant: returns at the end of the file before sem_post.                 *)
PostFileUnlessEOF(t) ==
  /\ at[t] = "file"
  /\ step[t] = "post"
  /\ IF cur[t] = 0
     THEN /\ Goto(t, "done")
          /\ UNCHANGED <<sem, entry, parsed>>
     ELSE /\ sem' = [sem EXCEPT !["file"] = @ + 1]
          /\ Goto(t, "ip")
          /\ entry' = [entry EXCEPT ![t] = Scan(Log[cur[t]], @)]
          /\ parsed' = [parsed EXCEPT ![cur[t]] = Scan(Log[cur[t]], entry[t])]
  /\ UNCHANGED <<names, control, report, cur, loaded, pos, tables, counted,
                 bounds>>

(* Mutant: tests for the end of the file as feof would, after the read.    *)
PostFileFeof(t) ==
  /\ at[t] = "file"
  /\ step[t] = "post"
  /\ sem' = [sem EXCEPT !["file"] = @ + 1]
  /\ IF cur[t] = 0 \/ pos >= Len(Log)
     THEN /\ Goto(t, "done")
          /\ UNCHANGED <<entry, parsed>>
     ELSE /\ Goto(t, "ip")
          /\ entry' = [entry EXCEPT ![t] = Scan(Log[cur[t]], @)]
          /\ parsed' = [parsed EXCEPT ![cur[t]] = Scan(Log[cur[t]], entry[t])]
  /\ UNCHANGED <<names, control, report, cur, loaded, pos, tables, counted,
                 bounds>>

(* sem_post(file_mutex), then the return on NULL or the sscanf of a line.  *)
PostFile(t) ==
  /\ at[t] = "file"
  /\ step[t] = "post"
  /\ sem' = [sem EXCEPT !["file"] = @ + 1]
  /\ IF cur[t] = 0
     THEN /\ Goto(t, "done")
          /\ UNCHANGED <<entry, parsed>>
     ELSE /\ Goto(t, "ip")
          /\ entry' = [entry EXCEPT ![t] = Scan(Log[cur[t]], @)]
          /\ parsed' = [parsed EXCEPT ![cur[t]] = Scan(Log[cur[t]], entry[t])]
  /\ UNCHANGED <<names, control, report, cur, loaded, pos, tables, counted,
                 bounds>>

(* The number that t is to increment, 0 if its key is not in the table.    *)
Current(t) ==
  IF at[t] = "ip"  THEN ip_requests[entry[t].ip] ELSE
  IF at[t] = "url" THEN url_visits[entry[t].url] ELSE errors

(* ht_get, and the read of the count it points to.                         *)
Lookup(t) ==
  /\ at[t] \in Tallies
  /\ Advance(t, "load", "store")
  /\ loaded' = [loaded EXCEPT ![t] = Current(t)]
  /\ UNCHANGED <<cur, entry, pos, tables, history, fails>>

Counted(t) ==
  counted' = [counted EXCEPT ![at[t]] = @ \cup {cur[t]}]

(* Mutant: ht_set of the count 1 for a known key too.                      *)
StoreIpOne(t) ==
  /\ at[t] = "ip"
  /\ Advance(t, "store", "post")
  /\ ip_requests' = [ip_requests EXCEPT ![entry[t].ip] = 1]
  /\ Counted(t)
  /\ UNCHANGED <<cur, entry, loaded, pos, url_visits, errors, parsed,
                 fails>>

(* The ++ of the count, or ht_set of the count 1 under a new key.          *)
StoreIp(t) ==
  /\ at[t] = "ip"
  /\ Advance(t, "store", "post")
  /\ ip_requests' = [ip_requests EXCEPT ![entry[t].ip] = loaded[t] + 1]
  /\ Counted(t)
  /\ UNCHANGED <<cur, entry, loaded, pos, url_visits, errors, parsed,
                 fails>>

StoreUrl(t) ==
  /\ at[t] = "url"
  /\ Advance(t, "store", "post")
  /\ url_visits' = [url_visits EXCEPT ![entry[t].url] = loaded[t] + 1]
  /\ Counted(t)
  /\ UNCHANGED <<cur, entry, loaded, pos, ip_requests, errors, parsed,
                 fails>>

StoreErrors(t) ==
  /\ at[t] = "errors"
  /\ Advance(t, "store", "post")
  /\ errors' = (loaded[t] + 1) % UINT16_RANGE
  /\ Counted(t)
  /\ UNCHANGED <<cur, entry, loaded, pos, ip_requests, url_visits, parsed,
                 fails>>

(* ht_set returns NULL for want of memory; the caller does not look.       *)
HtSetFails(t) ==
  /\ at[t] \in {"ip", "url"}
  /\ loaded[t] = 0
  /\ allocFails < MaxAllocFails
  /\ allocFails' = allocFails + 1
  /\ Advance(t, "store", "post")
  /\ UNCHANGED <<cur, entry, loaded, pos, tables, history, readFails>>

AfterTally(t) ==
  IF at[t] = "ip" THEN "url"
  ELSE IF at[t] = "url" /\ IsError(entry[t].status) THEN "errors"
  ELSE "file"

PostTally(t) ==
  /\ at[t] \in Tallies
  /\ step[t] = "post"
  /\ sem' = [sem EXCEPT ![at[t]] = @ + 1]
  /\ Goto(t, AfterTally(t))
  /\ UNCHANGED <<names, control, report, cur, entry, loaded, pos, tables,
                 history, bounds>>

-----------------------------------------------------------------------------
MainStep ==
  \/ SemaphoresInit
  \/ PthreadCreate
  \/ PthreadJoin
  \/ SemaphoresClean
  \/ Report

Worker(t) ==
  \/ SemWait(t)
  \/ Fgets(t)
  \/ PostFile(t)
  \/ Lookup(t)
  \/ StoreIp(t)
  \/ StoreUrl(t)
  \/ StoreErrors(t)
  \/ PostTally(t)

(* No run in progress and none to come: the system may rest.               *)
Stopped ==
  /\ main = "off"
  /\ runs = MaxRuns
  /\ UNCHANGED vars

Next ==
  \/ Boot
  \/ MainStep
  \/ PthreadCreateFails
  \/ Kill
  \/ \E t \in Threads : Worker(t) \/ FgetsFails(t) \/ HtSetFails(t)
  \/ Stopped

Spec == Init /\ [][Next]_vars

(* The operating system runs every thread that can run.  Nothing fairer is *)
(* assumed of the semaphores: the log is finite, so a thread cannot be     *)
(* overtaken for ever.                                                     *)
Fairness ==
  /\ WF_vars(MainStep)
  /\ \A t \in Threads : WF_vars(Worker(t))

FairSpec == Spec /\ Fairness
-----------------------------------------------------------------------------
(* Properties                                                              *)

(* TYPE.  The variables have the types that the declarations give them.    *)
TypeOK ==
  /\ sem \in [Sections -> Nat]
  /\ names \subseteq Sections
  /\ main \in {"off", "sem_init", "create", "join", "clean", "report"}
  /\ next_i \in Threads
  /\ at \in [Threads -> Sections \cup {"none", "done"}]
  /\ step \in [Threads -> {"wait", "load", "store", "post"}]
  /\ cur \in [Threads -> 0 .. Len(Log)]
  /\ entry \in [Threads -> Entries]
  /\ loaded \in [Threads -> Nat]
  /\ pos \in 0 .. Len(Log) + 1
  /\ ip_requests \in [Ips -> Nat]
  /\ url_visits \in [Urls -> Nat]
  /\ errors \in 0 .. UINT16_RANGE - 1
  /\ parsed \in [Lines -> Entries]
  /\ counted \in [Tallies -> SUBSET Lines]
  /\ runs \in 0 .. MaxRuns
  /\ faults \in 0 .. MaxFaults
  /\ allocFails \in 0 .. MaxAllocFails
  /\ readFails \in 0 .. MaxReadFails

Holds(t, s) == at[t] = s /\ step[t] # "wait"

(* SAFETY.  At most one worker is between sem_wait and sem_post of a       *)
(* semaphore, and the semaphore is then 0: also in a run that found the    *)
(* semaphores a killed run left behind.                                    *)
MutualExclusion ==
  \A s \in Sections : \A t \in Threads :
    Holds(t, s) => /\ sem[s] = 0
                   /\ \A u \in Threads : Holds(u, s) => u = t

(* SAFETY.  Between any two steps of any workers, each count in the tables *)
(* is the number of lines recorded under its key, and errors is the number *)
(* of error lines recorded, modulo the width of its type: no increment is  *)
(* lost or made twice.                                                     *)
TallyExact ==
  /\ \A k \in Ips :
       ip_requests[k] = Cardinality(IpLines(counted["ip"], parsed, k))
  /\ \A k \in Urls :
       url_visits[k] = Cardinality(UrlLines(counted["url"], parsed, k))
  /\ errors = Cardinality(ErrorLines(counted["errors"], parsed)) % UINT16_RANGE

(* Worker t has line i in its buffer and has yet to record it in tally s.  *)
Pending(t, i, s) ==
  /\ cur[t] = i
  /\ \/ at[t] = "file" /\ step[t] = "post"
     \/ at[t] = s /\ step[t] # "post"
     \/ at[t] = "ip" /\ s \in {"url", "errors"}
     \/ at[t] = "url" /\ s = "errors" /\ IsError(entry[t].status)

(* SAFETY.  A line that fgets delivered is, for each tally it belongs to,  *)
(* either recorded or pending with exactly one worker, never both; only a  *)
(* failure of ht_set loses one.                                            *)
LinesOnce ==
  \A i \in Lines : \A s \in Tallies :
    /\ i \in counted[s] => i <= pos /\ \A t \in Threads : ~Pending(t, i, s)
    /\ \A t, u \in Threads : Pending(t, i, s) /\ Pending(u, i, s) => t = u
    /\ i <= pos /\ i \notin counted[s] =>
         \/ allocFails > 0
         \/ s = "errors" /\ ~IsError(parsed[i].status)
         \/ \E t \in Threads : Pending(t, i, s)

(* REFINEMENT.  A run prints the exact figures of the log or none, for a   *)
(* log of well-formed lines and while memory lasts: of the whole log if no *)
(* fgets has failed, and else of as many lines as the workers have read    *)
(* (log_processor.c:39, main.c:141-144).                                   *)
Tally == INSTANCE LogTally WITH running <- main # "off", failed <- readFails > 0,
                                Exact <- ExactReports, Partial <- PrefixReports

TallySpec == Tally!Spec

(* LIVENESS.  A run that starts from semaphores of value 1 ends: all the   *)
(* workers reach the end of the log, whatever order they run in.           *)
RunEnds ==
  main = "create" /\ next_i = 0 /\ (\A s \in Sections : sem[s] = 1)
    ~> main = "off"

(* The comment of semaphores_init (log_processor.c:14): it initialises the *)
(* semaphores, so all four are free when the first worker is created.      *)
SemaphoresInitialised ==
  main = "create" /\ next_i = 0 => \A s \in Sections : sem[s] = 1
=============================================================================
