------------------------- MODULE LogAnalyzerProofs -------------------------
(***************************************************************************)
(* Proofs about LogAnalyzer, for any log, any number of threads and any    *)
(* number of runs, kills and failures of ht_set and fgets.                 *)
(***************************************************************************)
EXTENDS LogAnalyzer, FiniteSetTheorems, TLAPS

USE LogAssumption, ThreadsAssumption

-----------------------------------------------------------------------------
(* Log entries                                                             *)

(* Types of what sscanf leaves in the locals and of what the log says.     *)
LEMMA ScanType ==
  ASSUME NEW chunk \in Chunks, NEW old \in Entries
  PROVE  Scan(chunk, old) \in Entries
BY DEF Scan, Chunks, Entries

LEMMA LogLength ==
  Len(Log) \in Nat /\ \A i \in 1 .. Len(Log) : Log[i] \in Chunks
BY LogAssumption

LEMMA ContentType == Content \in [Lines -> Entries]
<1> SUFFICES ASSUME NEW i \in Lines
             PROVE  [ip |-> Log[i].ip, url |-> Log[i].url,
                     status |-> Log[i].status] \in Entries
  BY DEF Content
<1>1. Log[i] \in Chunks
  BY LogLength DEF Lines
<1> QED
  BY <1>1 DEF Chunks, Entries

(* sscanf of a well-formed line reads what the line says, whatever the     *)
(* locals held before.                                                     *)
LEMMA ScanWellFormed ==
  ASSUME WellFormed, NEW i \in Lines, NEW old
  PROVE  Scan(Log[i], old) = Content[i]
BY DEF WellFormed, Scan, Content

-----------------------------------------------------------------------------
(* Tallies                                                                 *)

LEMMA LinesFinite ==
  ASSUME NEW S \in SUBSET Lines
  PROVE  IsFiniteSet(S) /\ Cardinality(S) \in Nat
<1>1. IsFiniteSet(Lines)
  BY LogLength, FS_Interval DEF Lines
<1> QED
  BY <1>1, FS_Subset, FS_CardinalityType

(* A line that is not yet in a set of lines adds one to a tally of it.     *)
LEMMA AddLine ==
  ASSUME NEW T \in SUBSET Lines, NEW i \in Lines, i \notin T
  PROVE  /\ Cardinality(T) \in Nat
         /\ Cardinality(T \cup {i}) = Cardinality(T) + 1
<1>1. IsFiniteSet(T) /\ Cardinality(T) \in Nat
  BY LinesFinite
<1> QED
  BY <1>1, FS_AddElement

LEMMA AddIpLine ==
  ASSUME NEW S \in SUBSET Lines, NEW i \in Lines, i \notin S, NEW e, NEW k
  PROVE  /\ Cardinality(IpLines(S, e, k)) \in Nat
         /\ Cardinality(IpLines(S \cup {i}, e, k)) =
              IF e[i].ip = k THEN Cardinality(IpLines(S, e, k)) + 1
              ELSE Cardinality(IpLines(S, e, k))
<1>1. IpLines(S, e, k) \in SUBSET Lines /\ i \notin IpLines(S, e, k)
  BY DEF IpLines
<1>2. IpLines(S \cup {i}, e, k) = IF e[i].ip = k THEN IpLines(S, e, k) \cup {i}
                                   ELSE IpLines(S, e, k)
  BY DEF IpLines
<1> QED
  BY <1>1, <1>2, AddLine

LEMMA AddUrlLine ==
  ASSUME NEW S \in SUBSET Lines, NEW i \in Lines, i \notin S, NEW e, NEW k
  PROVE  /\ Cardinality(UrlLines(S, e, k)) \in Nat
         /\ Cardinality(UrlLines(S \cup {i}, e, k)) =
              IF e[i].url = k THEN Cardinality(UrlLines(S, e, k)) + 1
              ELSE Cardinality(UrlLines(S, e, k))
<1>1. UrlLines(S, e, k) \in SUBSET Lines /\ i \notin UrlLines(S, e, k)
  BY DEF UrlLines
<1>2. UrlLines(S \cup {i}, e, k) = IF e[i].url = k THEN UrlLines(S, e, k) \cup {i}
                                   ELSE UrlLines(S, e, k)
  BY DEF UrlLines
<1> QED
  BY <1>1, <1>2, AddLine

LEMMA AddErrorLine ==
  ASSUME NEW S \in SUBSET Lines, NEW i \in Lines, i \notin S, NEW e,
         IsError(e[i].status)
  PROVE  /\ Cardinality(ErrorLines(S, e)) \in Nat
         /\ Cardinality(ErrorLines(S \cup {i}, e)) =
              Cardinality(ErrorLines(S, e)) + 1
<1>1. ErrorLines(S, e) \in SUBSET Lines /\ i \notin ErrorLines(S, e)
  BY DEF ErrorLines
<1>2. ErrorLines(S \cup {i}, e) = ErrorLines(S, e) \cup {i}
  BY DEF ErrorLines
<1> QED
  BY <1>1, <1>2, AddLine

(* A tally depends only on how the lines of its set are read.              *)
LEMMA SameReading ==
  ASSUME NEW S \in SUBSET Lines, NEW e, NEW f, \A i \in S : e[i] = f[i]
  PROVE  /\ \A k : IpLines(S, e, k) = IpLines(S, f, k)
         /\ \A k : UrlLines(S, e, k) = UrlLines(S, f, k)
         /\ ErrorLines(S, e) = ErrorLines(S, f)
BY DEF IpLines, UrlLines, ErrorLines

-----------------------------------------------------------------------------
(* Counting modulo the width of a counter                                  *)

LEMMA Division ==
  ASSUME NEW n \in Nat, NEW r \in Nat \ {0}
  PROVE  /\ n = (n \div r) * r + (n % r)
         /\ n \div r \in Nat
         /\ n % r \in 0 .. r - 1
OBVIOUS

LEMMA Remainder ==
  \A q \in Nat, r \in Nat \ {0}, m \in Nat : m < r => (q * r + m) % r = m
OBVIOUS

(* Incrementing the remainder and wrapping it is incrementing the number.  *)
LEMMA WrappedIncrement ==
  ASSUME NEW n \in Nat, NEW r \in Nat \ {0}
  PROVE  ((n % r) + 1) % r = (n + 1) % r
<1> DEFINE q == n \div r
           m == n % r
<1>1. n = q * r + m /\ q \in Nat /\ m \in 0 .. r - 1
  BY Division
<1> HIDE DEF q, m
<1>2. CASE m + 1 < r
  <2>1. n + 1 = q * r + (m + 1)
    BY <1>1
  <2>2. (n + 1) % r = m + 1
    BY <1>1, <1>2, <2>1, Remainder
  <2>3. (m + 1) % r = m + 1
    BY <1>1, <1>2
  <2> QED
    BY <2>2, <2>3 DEF m
<1>3. CASE m + 1 = r
  <2>1. n + 1 = (q + 1) * r + 0
    BY <1>1, <1>3
  <2>2. (n + 1) % r = 0
    BY <1>1, <2>1, Remainder
  <2>3. r % r = 0
    OBVIOUS
  <2> QED
    BY <1>3, <2>2, <2>3 DEF m
<1> QED
  BY <1>1, <1>2, <1>3

LEMMA NoEntryType == NoEntry \in Entries
BY DEF NoEntry

-----------------------------------------------------------------------------
(* Type correctness: counted holds lines only because a worker that        *)
(* counts has a line in its buffer.                                        *)

HasLine == \A t \in Threads : at[t] \in Tallies => cur[t] # 0

TypeInv == TypeOK /\ HasLine

LEMMA TypeInit == Init => TypeInv
BY NoEntryType, ContentType, LogLength
   DEF Init, TypeInv, TypeOK, HasLine, Threads, Sections, Tallies

LEMMA TypeProcessEnds ==
  ASSUME TypeOK, ProcessEnds, sem' = sem, names' = names,
         report' = report \/ main = "report",
         runs' = runs, faults' \in 0 .. MaxFaults
  PROVE  TypeOK'
BY NoEntryType, ContentType, LogLength
   DEF ProcessEnds, TypeOK, Threads, Sections, Tallies

LEMMA TypeStep == TypeInv /\ [Next]_vars => TypeOK'
<1> SUFFICES ASSUME TypeOK, HasLine, [Next]_vars PROVE TypeOK'
  BY DEF TypeInv
<1> USE LogLength
<1>1. CASE Boot
  BY <1>1 DEF Boot, TypeOK, workers, kernel, tables, history, fails
<1>2. CASE SemaphoresInit
  BY <1>2 DEF SemaphoresInit, TypeOK, workers, tables, history, bounds, fails
<1>3. CASE PthreadCreate
  <2>1. next_i' \in Threads
    BY <1>3, SMTT(20) DEF PthreadCreate, TypeOK, Threads
  <2>2. entry' \in [Threads -> Entries] /\ main' \in {"create", "join"}
    BY <1>3 DEF PthreadCreate, TypeOK
  <2>3. at' \in [Threads -> Sections \cup {"none", "done"}]
    BY <1>3 DEF PthreadCreate, TypeOK, Sections
  <2> QED
    BY <1>3, <2>1, <2>2, <2>3
       DEF PthreadCreate, TypeOK, kernel, tables, history, bounds, fails
<1>4. CASE PthreadJoin
  <2>1. next_i' \in Threads /\ main' \in {"join", "clean"}
    BY <1>4, SMTT(20) DEF PthreadJoin, TypeOK, Threads
  <2> QED
    BY <1>4, <2>1
       DEF PthreadJoin, TypeOK, kernel, workers, tables, history, bounds, fails
<1>5. CASE SemaphoresClean
  BY <1>5 DEF SemaphoresClean, TypeOK, workers, tables, history, bounds, fails
<1>6. CASE Report
  BY <1>6, TypeProcessEnds DEF Report, kernel, TypeOK
<1>7. CASE PthreadCreateFails \/ Kill
  <2>1. faults' \in 0 .. MaxFaults
    BY <1>7 DEF PthreadCreateFails, Kill, TypeOK
  <2>2. ProcessEnds /\ UNCHANGED <<sem, names, report, runs>>
    BY <1>7 DEF PthreadCreateFails, Kill, kernel
  <2> QED
    BY <2>1, <2>2, TypeProcessEnds
<1>8. ASSUME NEW t \in Threads, Worker(t) \/ FgetsFails(t) \/ HtSetFails(t) PROVE TypeOK'
  <2> USE DEF Advance, Goto, control, kernel, tables, history, bounds, fails
  <2>1. CASE SemWait(t)
    <3>1. sem' \in [Sections -> Nat]
      BY <2>1 DEF SemWait, TypeOK
    <3>2. step' \in [Threads -> {"wait", "load", "store", "post"}]
      BY <2>1 DEF SemWait, TypeOK
    <3> QED
      BY <2>1, <3>1, <3>2 DEF SemWait, TypeOK
  <2>2. CASE Fgets(t)
    <3>1. pos' \in 0 .. Len(Log) + 1
      BY <2>2 DEF Fgets, TypeOK
    <3>2. cur' \in [Threads -> 0 .. Len(Log)]
      <4>1. PICK n \in 0 .. Len(Log) : cur' = [cur EXCEPT ![t] = n]
        <5>1. pos < Len(Log) => pos + 1 \in 0 .. Len(Log)
          BY DEF TypeOK
        <5> QED
          BY <2>2, <5>1 DEF Fgets
      <4> QED
        BY <4>1 DEF TypeOK
    <3>3. step' \in [Threads -> {"wait", "load", "store", "post"}]
      BY <2>2 DEF Fgets, TypeOK
    <3> QED
      BY <2>2, <3>1, <3>2, <3>3 DEF Fgets, TypeOK
  <2>3. CASE PostFile(t)
    <3>1. cur[t] # 0 => /\ cur[t] \in Lines
                        /\ Scan(Log[cur[t]], entry[t]) \in Entries
      BY ScanType DEF Lines, TypeOK
    <3>2. sem' \in [Sections -> Nat]
      BY <2>3 DEF PostFile, Sections, TypeOK
    <3>3. /\ at' \in [Threads -> Sections \cup {"none", "done"}]
          /\ step' \in [Threads -> {"wait", "load", "store", "post"}]
      BY <2>3 DEF PostFile, Sections, TypeOK
    <3>4. entry' \in [Threads -> Entries]
      BY <2>3, <3>1 DEF PostFile, TypeOK
    <3>5. parsed' \in [Lines -> Entries]
      BY <2>3, <3>1 DEF PostFile, TypeOK
    <3> QED
      BY <2>3, <3>2, <3>3, <3>4, <3>5 DEF PostFile, TypeOK
  <2>4. CASE Lookup(t)
    <3>1. Current(t) \in Nat
      BY <2>4 DEF Lookup, Current, Tallies, Entries, TypeOK
    <3>2. /\ loaded' \in [Threads -> Nat]
          /\ step' \in [Threads -> {"wait", "load", "store", "post"}]
      BY <2>4, <3>1 DEF Lookup, TypeOK
    <3> QED
      BY <2>4, <3>2 DEF Lookup, TypeOK
  <2>5. CASE StoreIp(t) \/ StoreUrl(t) \/ StoreErrors(t)
    <3>1. at[t] \in Tallies /\ cur[t] \in Lines
      BY <2>5 DEF StoreIp, StoreUrl, StoreErrors, Tallies, Lines, TypeOK, HasLine
    <3>2. step' \in [Threads -> {"wait", "load", "store", "post"}]
      BY <2>5 DEF StoreIp, StoreUrl, StoreErrors, TypeOK
    <3>0. /\ loaded[t] + 1 \in Nat
          /\ ip_requests \in [Ips -> Nat] /\ url_visits \in [Urls -> Nat]
      BY DEF TypeOK
    <3>3. ip_requests' \in [Ips -> Nat]
      <4>1. \/ ip_requests' = ip_requests
            \/ ip_requests' = [ip_requests EXCEPT ![entry[t].ip] = loaded[t] + 1]
        BY <2>5 DEF StoreIp, StoreUrl, StoreErrors
      <4> QED
        BY <3>0, <4>1
    <3>4. url_visits' \in [Urls -> Nat]
      <4>1. \/ url_visits' = url_visits
            \/ url_visits' = [url_visits EXCEPT ![entry[t].url] = loaded[t] + 1]
        BY <2>5 DEF StoreIp, StoreUrl, StoreErrors
      <4> QED
        BY <3>0, <4>1
    <3>5. errors' \in 0 .. UINT16_RANGE - 1
      BY <2>5, SMTT(20) DEF StoreIp, StoreUrl, StoreErrors, TypeOK
    <3>6. counted' \in [Tallies -> SUBSET Lines]
      <4>1. counted[at[t]] \cup {cur[t]} \subseteq Lines
        BY <3>1 DEF TypeOK
      <4>2. counted' = [counted EXCEPT ![at[t]] = @ \cup {cur[t]}]
        BY <2>5 DEF StoreIp, StoreUrl, StoreErrors, Counted
      <4> QED
        BY <4>1, <4>2, <3>1 DEF TypeOK
    <3> QED
      BY <2>5, <3>2, <3>3, <3>4, <3>5, <3>6
         DEF StoreIp, StoreUrl, StoreErrors, TypeOK
  <2>8. CASE PostTally(t)
    <3>1. AfterTally(t) \in Sections /\ at[t] \in Sections
      BY <2>8 DEF PostTally, AfterTally, Tallies, Sections
    <3>2. sem' \in [Sections -> Nat]
      BY <2>8, <3>1 DEF PostTally, TypeOK
    <3>3. /\ at' \in [Threads -> Sections \cup {"none", "done"}]
          /\ step' \in [Threads -> {"wait", "load", "store", "post"}]
      BY <2>8, <3>1 DEF PostTally, TypeOK
    <3> QED
      BY <2>8, <3>2, <3>3 DEF PostTally, TypeOK
  <2>9. CASE HtSetFails(t)
    <3>1. allocFails' \in 0 .. MaxAllocFails
      BY <2>9 DEF HtSetFails, TypeOK
    <3>2. step' \in [Threads -> {"wait", "load", "store", "post"}]
      BY <2>9 DEF HtSetFails, TypeOK
    <3> QED
      BY <2>9, <3>1, <3>2 DEF HtSetFails, TypeOK
  <2>10. CASE FgetsFails(t)
    <3>1. readFails' \in 0 .. MaxReadFails
      BY <2>10 DEF FgetsFails, TypeOK
    <3>2. cur' \in [Threads -> 0 .. Len(Log)]
      BY <2>10 DEF FgetsFails, TypeOK
    <3>3. step' \in [Threads -> {"wait", "load", "store", "post"}]
      BY <2>10 DEF FgetsFails, TypeOK
    <3> QED
      BY <2>10, <3>1, <3>2, <3>3 DEF FgetsFails, TypeOK
  <2> QED
    BY <1>8, <2>1, <2>2, <2>3, <2>4, <2>5, <2>8, <2>9, <2>10 DEF Worker
<1>9. CASE UNCHANGED vars
  BY <1>9 DEF vars, kernel, control, workers, tables, history, bounds, fails, TypeOK
<1> QED
  BY <1>1, <1>2, <1>3, <1>4, <1>5, <1>6, <1>7, <1>8, <1>9
     DEF Next, MainStep, Stopped

LEMMA HasLineStep == TypeInv /\ [Next]_vars => HasLine'
<1> SUFFICES ASSUME TypeOK, HasLine, [Next]_vars PROVE HasLine'
  BY DEF TypeInv
<1>1. CASE UNCHANGED <<at, cur>>
  BY <1>1 DEF HasLine
<1>2. CASE ProcessEnds
  BY <1>2 DEF ProcessEnds, HasLine, Tallies
<1>3. CASE PthreadCreate
  BY <1>3 DEF PthreadCreate, TypeOK, HasLine, Tallies
<1>4. ASSUME NEW t \in Threads, Fgets(t) \/ FgetsFails(t) PROVE HasLine'
  BY <1>4 DEF Fgets, FgetsFails, Advance, TypeOK, HasLine, Tallies
<1>5. ASSUME NEW t \in Threads, PostFile(t) PROVE HasLine'
  BY <1>5 DEF PostFile, Goto, TypeOK, HasLine, Tallies
<1>6. ASSUME NEW t \in Threads, PostTally(t) PROVE HasLine'
  BY <1>6 DEF PostTally, Goto, TypeOK, HasLine
<1> QED
  <2> USE DEF workers
  <2>1. ASSUME NEW t \in Threads, Worker(t) \/ FgetsFails(t) \/ HtSetFails(t) PROVE HasLine'
    BY <2>1, <1>1, <1>4, <1>5, <1>6
       DEF Worker, SemWait, Lookup, StoreIp, StoreUrl, StoreErrors, HtSetFails,
           Advance
  <2>2. CASE Boot \/ MainStep
    BY <2>2, <1>1, <1>2, <1>3
       DEF Boot, MainStep, SemaphoresInit, PthreadJoin, SemaphoresClean, Report
  <2>3. CASE PthreadCreateFails \/ Kill
    BY <2>3, <1>2 DEF PthreadCreateFails, Kill
  <2>4. CASE UNCHANGED vars
    BY <2>4, <1>1 DEF vars
  <2> QED
    BY <2>1, <2>2, <2>3, <2>4 DEF Next, Stopped

LEMMA TypeAlways == Spec => []TypeInv
<1>1. TypeInv /\ [Next]_vars => TypeInv'
  BY TypeStep, HasLineStep DEF TypeInv
<1> QED
  BY <1>1, TypeInit, PTL DEF Spec

(* Every variable keeps its type, for every value of the constants.        *)
THEOREM Typing == Spec => []TypeOK
BY TypeAlways, PTL DEF TypeInv

-----------------------------------------------------------------------------
(* Mutual exclusion                                                        *)

(* Which workers exist, and which have returned, as main goes on.          *)
Threading ==
  /\ main \in {"off", "sem_init"} => \A t \in Threads : at[t] = "none"
  /\ main = "create" => \A t \in Threads : t >= next_i => at[t] = "none"
  /\ main = "join" => \A t \in Threads : t < next_i => at[t] = "done"
  /\ main \in {"clean", "report"} => \A t \in Threads : at[t] = "done"
  /\ \A t \in Threads : at[t] \notin Sections => step[t] = "wait"

SemBinary == \A s \in Sections : sem[s] \in {0, 1}

MutexInv == TypeInv /\ Threading /\ SemBinary /\ MutualExclusion

(* What a step of a worker leaves alone.                                   *)
LEMMA WorkerFrame ==
  ASSUME TypeOK, NEW t \in Threads, Worker(t) \/ FgetsFails(t) \/ HtSetFails(t)
  PROVE  /\ at[t] \in Sections
         /\ at'[t] \in Sections \/ (at'[t] = "done" /\ step'[t] = "wait")
         /\ \A u \in Threads \ {t} : at'[u] = at[u] /\ step'[u] = step[u]
         /\ UNCHANGED <<names, main, next_i, report, runs, faults>>
<1> USE DEF Sections, Tallies, Advance, Goto, control, kernel, bounds
<1>1. CASE SemWait(t)
  BY <1>1 DEF SemWait, TypeOK
<1>2. CASE Fgets(t) \/ FgetsFails(t) \/ Lookup(t) \/ HtSetFails(t)
  BY <1>2 DEF Fgets, FgetsFails, Lookup, HtSetFails, TypeOK
<1>3. CASE StoreIp(t) \/ StoreUrl(t) \/ StoreErrors(t)
  BY <1>3 DEF StoreIp, StoreUrl, StoreErrors, TypeOK
<1>4. CASE PostFile(t)
  BY <1>4 DEF PostFile, TypeOK
<1>5. CASE PostTally(t)
  BY <1>5 DEF PostTally, AfterTally, TypeOK
<1> QED
  BY <1>1, <1>2, <1>3, <1>4, <1>5 DEF Worker

LEMMA ThreadingStep == TypeInv /\ Threading /\ [Next]_vars => Threading'
<1> SUFFICES ASSUME TypeOK, Threading, [Next]_vars PROVE Threading'
  BY DEF TypeInv
<1>1. CASE Boot
  BY <1>1 DEF Boot, workers, Threading
<1>2. CASE SemaphoresInit
  BY <1>2 DEF SemaphoresInit, workers, Threading
<1>3. CASE PthreadCreate
  <2>1. /\ at' = [at EXCEPT ![next_i] = "file"]
        /\ step' = step
        /\ main = "create"
    BY <1>3 DEF PthreadCreate
  <2>2. CASE main' = "create" /\ next_i' = next_i + 1
    BY <2>1, <2>2, SMTT(20) DEF Threading, TypeOK, Threads, Sections
  <2>3. CASE main' = "join" /\ next_i' = 0
    BY <2>1, <2>3 DEF Threading, TypeOK, Threads, Sections
  <2> QED
    BY <1>3, <2>2, <2>3 DEF PthreadCreate
<1>4. CASE PthreadJoin
  <2>1. main = "join" /\ at[next_i] = "done" /\ at' = at /\ step' = step
    BY <1>4 DEF PthreadJoin, workers
  <2>2. CASE main' = "join" /\ next_i' = next_i + 1
    BY <2>1, <2>2 DEF Threading, TypeOK, Threads
  <2>3. CASE main' = "clean" /\ next_i + 1 >= NUM_THREADS
    BY <2>1, <2>3 DEF Threading, TypeOK, Threads
  <2> QED
    BY <1>4, <2>2, <2>3 DEF PthreadJoin, TypeOK, Threads
<1>5. CASE SemaphoresClean
  BY <1>5 DEF SemaphoresClean, workers, Threading
<1>6. CASE ProcessEnds
  BY <1>6 DEF ProcessEnds, Threading, Sections
<1>7. ASSUME NEW t \in Threads, Worker(t) \/ FgetsFails(t) \/ HtSetFails(t) PROVE Threading'
  BY <1>7, WorkerFrame DEF Threading, Sections
<1>8. CASE UNCHANGED vars
  BY <1>8 DEF vars, control, workers, Threading
<1> QED
  BY <1>1, <1>2, <1>3, <1>4, <1>5, <1>6, <1>7, <1>8
     DEF Next, MainStep, Report, PthreadCreateFails, Kill, Stopped

(* The worker that holds a semaphore is the one that posts it.             *)
LEMMA MutexStep == MutexInv /\ [Next]_vars => SemBinary' /\ MutualExclusion'
<1> SUFFICES ASSUME TypeOK, Threading, SemBinary, MutualExclusion, [Next]_vars
             PROVE  SemBinary' /\ MutualExclusion'
  BY DEF MutexInv, TypeInv
<1>1. CASE UNCHANGED <<sem, at, step>>
  BY <1>1 DEF SemBinary, MutualExclusion, Holds
<1>2. CASE SemaphoresInit
  BY <1>2 DEF SemaphoresInit, workers, Threading, SemBinary, MutualExclusion,
              Holds, Sections
<1>3. CASE PthreadCreate
  <2>1. at[next_i] = "none" /\ step[next_i] = "wait"
    <3>1. next_i \in Threads /\ next_i >= next_i /\ main = "create"
      BY <1>3 DEF PthreadCreate, TypeOK, Threads
    <3> QED
      BY <3>1 DEF Threading, Sections
  <2>2. /\ at' = [at EXCEPT ![next_i] = "file"]
        /\ UNCHANGED <<sem, step>>
    BY <1>3 DEF PthreadCreate, kernel
  <2>3. \A u \in Threads, s \in Sections : Holds(u, s)' => Holds(u, s)
    BY <2>1, <2>2 DEF Holds, TypeOK
  <2> QED
    BY <2>2, <2>3 DEF SemBinary, MutualExclusion
<1>4. CASE ProcessEnds /\ UNCHANGED sem
  BY <1>4 DEF ProcessEnds, SemBinary, MutualExclusion, Holds
<1>5. ASSUME NEW t \in Threads, Worker(t) \/ FgetsFails(t) \/ HtSetFails(t)
      PROVE  SemBinary' /\ MutualExclusion'
  <2>1. /\ at[t] \in Sections
        /\ \A u \in Threads \ {t} : at'[u] = at[u] /\ step'[u] = step[u]
    BY <1>5, WorkerFrame
  <2>2. CASE SemWait(t)
    <3>0. sem[at[t]] = 1
      BY <2>2, <2>1 DEF SemWait, SemBinary
    <3>1. /\ step'[t] = "load" /\ at' = at
          /\ sem[at[t]] = 1
          /\ sem' = [sem EXCEPT ![at[t]] = 0]
      BY <2>2, <2>1, <3>0 DEF SemWait, TypeOK
    <3>2. \A u \in Threads : ~Holds(u, at[t])
      BY <3>1, <2>1 DEF MutualExclusion
    <3>3. \A u \in Threads, s \in Sections :
            Holds(u, s)' <=> Holds(u, s) \/ (u = t /\ s = at[t])
      BY <3>1, <2>1 DEF Holds
    <3>4. sem'[at[t]] = 0 /\ \A s \in Sections \ {at[t]} : sem'[s] = sem[s]
      BY <3>1, <2>1 DEF TypeOK
    <3> QED
      BY <3>2, <3>3, <3>4 DEF SemBinary, MutualExclusion
  <2>3. CASE PostFile(t) \/ PostTally(t)
    <3>1. /\ Holds(t, at[t])
          /\ step'[t] = "wait"
          /\ sem' = [sem EXCEPT ![at[t]] = @ + 1]
      BY <2>3 DEF PostFile, PostTally, Goto, Holds, TypeOK
    <3>2. sem[at[t]] = 0
      BY <3>1, <2>1 DEF MutualExclusion
    <3>3. \A u \in Threads, s \in Sections :
            Holds(u, s)' => u # t /\ Holds(u, s)
      BY <3>1, <2>1 DEF Holds
    <3>4. \A u \in Threads : Holds(u, at[t]) => u = t
      BY <3>1, <2>1 DEF MutualExclusion
    <3>5. sem'[at[t]] = 1 /\ \A s \in Sections \ {at[t]} : sem'[s] = sem[s]
      BY <3>1, <3>2, <2>1 DEF TypeOK
    <3> QED
      BY <3>3, <3>4, <3>5 DEF SemBinary, MutualExclusion
  <2>4. CASE sem' = sem /\ at' = at /\ step[t] # "wait" /\ step'[t] # "wait"
    BY <2>4, <2>1 DEF SemBinary, MutualExclusion, Holds
  <2> QED
    BY <1>5, <2>2, <2>3, <2>4
       DEF Worker, Fgets, FgetsFails, Lookup, StoreIp, StoreUrl, StoreErrors,
           HtSetFails, Advance, kernel, TypeOK
<1> QED
  BY <1>1, <1>2, <1>3, <1>4, <1>5
     DEF Next, MainStep, Boot, PthreadJoin, SemaphoresClean, Report,
         PthreadCreateFails, Kill, Stopped, vars, kernel, workers

LEMMA MutexAlways == Spec => []MutexInv
<1>1. Init => MutexInv
  BY TypeInit DEF Init, MutexInv, Threading, SemBinary, MutualExclusion, Holds
<1>2. MutexInv /\ [Next]_vars => MutexInv'
  BY TypeStep, HasLineStep, ThreadingStep, MutexStep DEF MutexInv, TypeInv
<1> QED
  BY <1>1, <1>2, PTL DEF Spec

(* No two workers are ever inside the same critical section, whatever a    *)
(* killed run left in the semaphores.                                      *)
THEOREM Exclusion == Spec => []MutualExclusion
BY MutexAlways, PTL DEF MutexInv

-----------------------------------------------------------------------------
(* The lines in flight                                                     *)

(* Worker t has a line in its buffer that it has not finished with.        *)
Live(t) ==
  \/ at[t] \in Tallies
  \/ at[t] = "file" /\ step[t] = "post" /\ cur[t] # 0

(* Worker t had a NULL of fgets.                                           *)
Saw(t) == at[t] = "done" \/ (at[t] = "file" /\ step[t] = "post" /\ cur[t] = 0)

(* No two workers have the same line, and no line comes from beyond pos.   *)
Distinct ==
  /\ \A t \in Threads : Live(t) => cur[t] <= pos
  /\ \A t, u \in Threads : Live(t) /\ Live(u) /\ cur[t] = cur[u] => t = u
  /\ \A t \in Threads : Saw(t) => pos = Len(Log) + 1 \/ readFails > 0

(* The locals of a worker are what it parsed, and no other worker changes  *)
(* the count it has looked up.                                             *)
Locals ==
  /\ \A t \in Threads : at[t] \in Tallies => entry[t] = parsed[cur[t]]
  /\ \A t \in Threads : at[t] = "errors" => IsError(entry[t].status)
  /\ \A t \in Threads :
       at[t] \in Tallies /\ step[t] = "store" => loaded[t] = Current(t)

(* A recorded line was delivered and no worker has yet to record it.       *)
NotTwice ==
  \A i \in Lines : \A s \in Tallies :
    i \in counted[s] => i <= pos /\ \A t \in Threads : ~Pending(t, i, s)

(* A delivered line is recorded, or a worker has yet to record it.         *)
NotLost ==
  \A i \in Lines : \A s \in Tallies :
    i <= pos /\ i \notin counted[s] =>
      \/ allocFails > 0
      \/ s = "errors" /\ ~IsError(parsed[i].status)
      \/ \E t \in Threads : Pending(t, i, s)

Faithful == WellFormed => parsed = Content

(* The figures of the last run are not those of the run in progress.       *)
Unreported == main # "off" => report = NoReport

LineInv ==
  /\ MutexInv
  /\ Distinct
  /\ Locals
  /\ NotTwice
  /\ NotLost
  /\ TallyExact
  /\ Faithful
  /\ Unreported

Reads(t) == Fgets(t) \/ FgetsFails(t)

(* A step of a worker other than fgets gives no worker a new line, and     *)
(* lets none see the end of the file.                                      *)
LEMMA LiveFrame ==
  ASSUME TypeOK, NEW t \in Threads, Worker(t) \/ FgetsFails(t) \/ HtSetFails(t), ~Reads(t)
  PROVE  /\ UNCHANGED <<cur, pos, readFails>>
         /\ \A u \in Threads : Live(u)' => Live(u)
         /\ \A u \in Threads : Saw(u)' => Saw(u)
<1>1. /\ at[t] \in Sections
      /\ \A u \in Threads \ {t} : at'[u] = at[u] /\ step'[u] = step[u]
  BY WorkerFrame
<1>2. UNCHANGED <<cur, pos, readFails>>
  BY DEF Worker, Reads, SemWait, PostFile, Lookup, StoreIp, StoreUrl, StoreErrors,
         PostTally, HtSetFails, bounds, fails
<1>3. (Live(t)' => Live(t)) /\ (Saw(t)' => Saw(t))
  <2> USE DEF Live, Saw, Tallies, Sections
  <2>1. CASE SemWait(t)
    BY <2>1, <1>1, <1>2 DEF SemWait, TypeOK
  <2>2. CASE PostFile(t)
    BY <2>2, <1>1, <1>2 DEF PostFile, Goto, TypeOK
  <2>3. CASE PostTally(t)
    BY <2>3, <1>1, <1>2 DEF PostTally, Goto, AfterTally, TypeOK
  <2>4. CASE Lookup(t) \/ StoreIp(t) \/ StoreUrl(t) \/ StoreErrors(t) \/ HtSetFails(t)
    BY <2>4, <1>1, <1>2
       DEF Lookup, StoreIp, StoreUrl, StoreErrors, HtSetFails, Advance
  <2> QED
    BY <2>1, <2>2, <2>3, <2>4 DEF Worker, Reads
<1> QED
  BY <1>1, <1>2, <1>3 DEF Live, Saw

(* The steps of main that touch no line, and those that end the process.   *)
MainMoves == Boot \/ SemaphoresInit \/ PthreadJoin \/ SemaphoresClean \/ UNCHANGED vars

LEMMA MainMovesFrame ==
  ASSUME MainMoves
  PROVE  UNCHANGED <<at, step, cur, entry, loaded, pos, ip_requests, url_visits,
                     errors, parsed, counted, allocFails, readFails>>
BY DEF MainMoves, Boot, SemaphoresInit, PthreadJoin, SemaphoresClean, vars,
       workers, tables, history, bounds, fails

LEMMA CreateFrame ==
  ASSUME TypeOK, Threading, PthreadCreate
  PROVE  /\ UNCHANGED <<step, cur, loaded, pos, ip_requests, url_visits, errors,
                        parsed, counted, allocFails, readFails>>
         /\ \A u \in Threads :
              \/ at'[u] = at[u] /\ entry'[u] = entry[u]
              \/ at[u] = "none" /\ at'[u] = "file" /\ step[u] = "wait"
<1>1. next_i \in Threads /\ next_i >= next_i /\ main = "create"
  BY DEF PthreadCreate, TypeOK, Threads
<1>2. at[next_i] = "none" /\ step[next_i] = "wait"
  BY <1>1 DEF Threading, Sections
<1> QED
  BY <1>1, <1>2 DEF PthreadCreate, tables, history, bounds, fails, TypeOK

LEMMA CreateFrame1 ==
  ASSUME PthreadCreate
  PROVE  UNCHANGED <<ip_requests, url_visits, errors, parsed, counted>>
BY DEF PthreadCreate, tables, history

LEMMA StepCases ==
  ASSUME [Next]_vars
  PROVE  \/ MainMoves \/ PthreadCreate \/ ProcessEnds
         \/ \E t \in Threads : Worker(t) \/ FgetsFails(t) \/ HtSetFails(t)
BY DEF Next, MainStep, MainMoves, Report, PthreadCreateFails, Kill, Stopped

LEMMA DistinctStep == LineInv /\ [Next]_vars => Distinct'
<1> SUFFICES ASSUME TypeOK, Threading, Distinct, [Next]_vars PROVE Distinct'
  BY DEF LineInv, MutexInv, TypeInv
<1>1. CASE MainMoves
  BY <1>1, MainMovesFrame DEF Distinct, Live, Saw
<1>2. CASE PthreadCreate
  BY <1>2, CreateFrame DEF Distinct, Live, Saw, Tallies
<1>3. CASE ProcessEnds
  BY <1>3 DEF ProcessEnds, Distinct, Live, Saw, Tallies
<1>4. ASSUME NEW t \in Threads, Reads(t) PROVE Distinct'
  <2>1. /\ at' = at /\ at[t] = "file" /\ step[t] = "load"
        /\ step' = [step EXCEPT ![t] = "post"]
    BY <1>4 DEF Reads, Fgets, FgetsFails, Advance
  <2>2. /\ \A u \in Threads \ {t} : Live(u)' = Live(u) /\ Saw(u)' = Saw(u)
        /\ \A u \in Threads \ {t} : cur'[u] = cur[u]
        /\ readFails \in Nat /\ pos \in Nat /\ (readFails > 0 => readFails' > 0)
    BY <1>4, <2>1, LogLength
       DEF Reads, Fgets, FgetsFails, fails, Live, Saw, TypeOK
  <2>3. CASE pos < Len(Log) /\ pos' = pos + 1 /\ cur' = [cur EXCEPT ![t] = pos + 1]
    <3>1. pos \in Nat /\ cur'[t] = pos + 1 /\ Live(t)' /\ ~Saw(t)'
      BY <2>1, <2>3, LogLength DEF Live, Saw, TypeOK, Tallies
    <3>2. \A u \in Threads \ {t} : cur[u] \in Nat /\ (Saw(u) => readFails > 0)
      BY <2>3, LogLength DEF Distinct, TypeOK
    <3> QED
      BY <2>2, <2>3, <3>1, <3>2 DEF Distinct
  <2>4. CASE pos' = Len(Log) + 1 /\ cur' = [cur EXCEPT ![t] = 0]
    <3>1. ~Live(t)'
      BY <2>1, <2>4 DEF Live, TypeOK, Tallies
    <3>2. \A u \in Threads \ {t} : cur[u] \in 0 .. Len(Log)
      BY DEF TypeOK
    <3> QED
      BY <2>2, <2>4, <3>1, <3>2, LogLength DEF Distinct
  <2>5. CASE pos' = pos /\ cur' = [cur EXCEPT ![t] = 0] /\ readFails' > 0
    <3>1. ~Live(t)'
      BY <2>1, <2>5 DEF Live, TypeOK, Tallies
    <3> QED
      BY <2>2, <2>5, <3>1 DEF Distinct
  <2>6. FgetsFails(t) => /\ pos' = pos /\ cur' = [cur EXCEPT ![t] = 0]
                         /\ readFails' > 0
    BY <2>2 DEF FgetsFails
  <2> QED
    BY <1>4, <2>3, <2>4, <2>5, <2>6 DEF Reads, Fgets
<1>5. ASSUME NEW t \in Threads, Worker(t) \/ FgetsFails(t) \/ HtSetFails(t), ~Reads(t)
      PROVE  Distinct'
  BY <1>5, LiveFrame DEF Distinct
<1> QED
  BY <1>1, <1>2, <1>3, <1>4, <1>5, StepCases

(* What the store of a worker changes.                                     *)
Stores(t) == StoreIp(t) \/ StoreUrl(t) \/ StoreErrors(t)

LEMMA StoreFrame ==
  ASSUME TypeOK, HasLine, NEW t \in Threads, Stores(t)
  PROVE  /\ at[t] \in Tallies /\ cur[t] \in Lines
         /\ at' = at /\ step[t] = "store" /\ step' = [step EXCEPT ![t] = "post"]
         /\ counted' = [counted EXCEPT ![at[t]] = @ \cup {cur[t]}]
         /\ UNCHANGED <<cur, entry, loaded, pos, parsed, allocFails>>
BY DEF Stores, StoreIp, StoreUrl, StoreErrors, Advance, Counted, Tallies, Lines,
       TypeOK, HasLine, fails

(* What reading a line from the buffer changes.                            *)
LEMMA ParseFrame ==
  ASSUME TypeOK, NEW t \in Threads, PostFile(t), cur[t] # 0
  PROVE  /\ cur[t] \in Lines /\ Live(t)
         /\ at[t] = "file" /\ step[t] = "post"
         /\ at' = [at EXCEPT ![t] = "ip"] /\ step' = [step EXCEPT ![t] = "wait"]
         /\ parsed' = [parsed EXCEPT ![cur[t]] = entry'[t]]
         /\ entry'[t] = Scan(Log[cur[t]], entry[t])
         /\ \A u \in Threads \ {t} : entry'[u] = entry[u]
         /\ UNCHANGED <<cur, loaded, pos, ip_requests, url_visits, errors,
                        counted, allocFails>>
BY DEF PostFile, Goto, TypeOK, Lines, Live, tables, bounds, fails

(* The steps of a worker that record no line and read none.                *)
Moves(t) ==
  SemWait(t) \/ Lookup(t) \/ PostTally(t) \/ Reads(t) \/ (PostFile(t) /\ cur[t] = 0)

LEMMA WorkerCases ==
  ASSUME NEW t \in Threads, Worker(t) \/ FgetsFails(t) \/ HtSetFails(t)
  PROVE  Moves(t) \/ Stores(t) \/ HtSetFails(t) \/ (PostFile(t) /\ cur[t] # 0)
BY DEF Worker, Moves, Stores, Reads

LEMMA MovesFrame ==
  ASSUME NEW t \in Threads, Moves(t) \/ HtSetFails(t)
  PROVE  UNCHANGED <<entry, ip_requests, url_visits, errors, parsed, counted>>
BY DEF Moves, HtSetFails, SemWait, Lookup, PostTally, Reads, Fgets, FgetsFails,
       PostFile, tables, history

LEMMA LocalsStep == LineInv /\ [Next]_vars => Locals'
<1> SUFFICES ASSUME TypeOK, HasLine, Threading, MutualExclusion, Distinct,
                    Locals, [Next]_vars
             PROVE  Locals'
  BY DEF LineInv, MutexInv, TypeInv
<1>1. CASE MainMoves
  BY <1>1, MainMovesFrame DEF Locals, Current
<1>2. CASE PthreadCreate
  BY <1>2, CreateFrame DEF Locals, Current, Tallies
<1>3. CASE ProcessEnds
  BY <1>3 DEF ProcessEnds, Locals, Tallies
<1>4. ASSUME NEW t \in Threads, Moves(t) \/ HtSetFails(t) PROVE Locals'
  <2>1. /\ \A u \in Threads \ {t} : at'[u] = at[u] /\ step'[u] = step[u]
        /\ UNCHANGED <<entry, ip_requests, url_visits, errors, parsed, counted>>
    BY <1>4, WorkerFrame, MovesFrame DEF Moves, Worker, Reads
  <2>2. \A u \in Threads \ {t} : cur'[u] = cur[u] /\ loaded'[u] = loaded[u]
    BY <1>4 DEF Moves, HtSetFails, SemWait, Lookup, PostTally, Reads, Fgets,
                FgetsFails, PostFile, TypeOK
  <2>3. at'[t] \in Tallies => at[t] \in Tallies /\ cur'[t] = cur[t]
    BY <1>4 DEF Moves, HtSetFails, SemWait, Lookup, PostTally, Reads, Fgets,
                FgetsFails, PostFile, TypeOK, Tallies, Goto, Advance
  <2>4. at'[t] = "errors" => at[t] = "errors" \/ IsError(entry[t].status)
    BY <1>4 DEF Moves, HtSetFails, SemWait, Lookup, PostTally, AfterTally, Reads,
                Fgets, FgetsFails, PostFile, TypeOK, Goto, Advance
  <2>5. step'[t] = "store" => loaded'[t] = Current(t)'
    BY <1>4, <2>1 DEF Moves, HtSetFails, SemWait, Lookup, PostTally, Reads, Fgets,
                FgetsFails, PostFile, TypeOK, Goto, Advance, Current
  <2> QED
    BY <2>1, <2>2, <2>3, <2>4, <2>5 DEF Locals, Current
<1>5. ASSUME NEW t \in Threads, Stores(t) PROVE Locals'
  <2>1. Holds(t, at[t])
    BY <1>5, StoreFrame DEF Holds
  <2>2. \A u \in Threads \ {t} :
          at[u] \in Tallies /\ step[u] = "store" => at[u] # at[t]
    BY <2>1, <1>5, StoreFrame DEF MutualExclusion, Holds, Tallies, Sections
  <2>3. \A u \in Threads \ {t} :
          at[u] \in Tallies /\ at[u] # at[t] => Current(u)' = Current(u)
    BY <1>5, StoreFrame DEF Stores, StoreIp, StoreUrl, StoreErrors, Current, Tallies
  <2>4. /\ at' = at /\ step' = [step EXCEPT ![t] = "post"]
        /\ UNCHANGED <<cur, entry, loaded, parsed>>
    BY <1>5, StoreFrame
  <2>5. step'[t] = "post" /\ \A u \in Threads \ {t} : step'[u] = step[u]
    BY <2>4 DEF TypeOK
  <2> QED
    BY <2>2, <2>3, <2>4, <2>5 DEF Locals
<1>6. ASSUME NEW t \in Threads, PostFile(t), cur[t] # 0 PROVE Locals'
  <2>1. \A u \in Threads \ {t} : at[u] \in Tallies => cur[u] # cur[t]
    BY <1>6, ParseFrame DEF Distinct, Live
  <2>2. /\ at' = [at EXCEPT ![t] = "ip"] /\ step' = [step EXCEPT ![t] = "wait"]
        /\ parsed' = [parsed EXCEPT ![cur[t]] = entry'[t]]
        /\ UNCHANGED <<cur, loaded, ip_requests, url_visits, errors>>
        /\ \A u \in Threads \ {t} : entry'[u] = entry[u]
        /\ cur[t] \in Lines
    BY <1>6, ParseFrame
  <2>3. \A u \in Threads \ {t} :
          at[u] \in Tallies => parsed'[cur[u]] = parsed[cur[u]]
    BY <2>1, <2>2 DEF TypeOK, HasLine, Lines
  <2>4. parsed'[cur[t]] = entry'[t]
    BY <2>2 DEF TypeOK
  <2>5. \A u \in Threads \ {t} : Current(u)' = Current(u)
    BY <2>2 DEF Current, TypeOK
  <2>6. \A u \in Threads \ {t} : at'[u] = at[u] /\ step'[u] = step[u]
    BY <2>2 DEF TypeOK
  <2>7. at'[t] = "ip" /\ step'[t] = "wait"
    BY <2>2 DEF TypeOK
  <2> QED
    BY <2>2, <2>3, <2>4, <2>5, <2>6, <2>7 DEF Locals, Tallies
<1> QED
  BY <1>1, <1>2, <1>3, <1>4, <1>5, <1>6, StepCases, WorkerCases

LEMMA NotTwiceStep == LineInv /\ [Next]_vars => NotTwice'
<1> SUFFICES ASSUME TypeOK, HasLine, Threading, Distinct, NotTwice, [Next]_vars
             PROVE  NotTwice'
  BY DEF LineInv, MutexInv, TypeInv
<1>1. CASE MainMoves
  BY <1>1, MainMovesFrame DEF NotTwice, Pending
<1>2. CASE PthreadCreate
  BY <1>2, CreateFrame DEF NotTwice, Pending, Tallies
<1>3. CASE ProcessEnds
  BY <1>3 DEF ProcessEnds, NotTwice
<1>4. ASSUME NEW t \in Threads, Reads(t) PROVE NotTwice'
  <2>1. /\ UNCHANGED <<at, entry, counted>>
        /\ at[t] = "file"
        /\ step' = [step EXCEPT ![t] = "post"]
    BY <1>4 DEF Reads, Fgets, FgetsFails, Advance, history, fails
  <2>2. \A u \in Threads \ {t}, i \in Lines, s \in Tallies :
          Pending(u, i, s)' => Pending(u, i, s)
    BY <1>4, <2>1 DEF Reads, Fgets, FgetsFails, Pending, TypeOK
  <2>3. \A i \in Lines : cur'[t] = i => ~(i <= pos)
    BY <1>4, LogLength DEF Reads, Fgets, FgetsFails, TypeOK, Lines
  <2>4. \A i \in Lines : i <= pos => i <= pos'
    BY <1>4, LogLength DEF Reads, Fgets, FgetsFails, TypeOK, Lines
  <2> QED
    BY <2>1, <2>2, <2>3, <2>4 DEF NotTwice, Pending
<1>5. ASSUME NEW t \in Threads, Worker(t) \/ FgetsFails(t) \/ HtSetFails(t), ~Reads(t)
      PROVE  NotTwice'
  <2>1. /\ \A u \in Threads \ {t} : at'[u] = at[u] /\ step'[u] = step[u]
        /\ UNCHANGED <<cur, pos>>
    BY <1>5, WorkerFrame, LiveFrame
  <2>2. \A u \in Threads \ {t}, i \in Lines, s \in Tallies :
          Pending(u, i, s)' => Pending(u, i, s)
    <3>1. \A u \in Threads \ {t} : entry'[u] = entry[u]
      BY <1>5, WorkerCases, MovesFrame, StoreFrame, ParseFrame
    <3> QED
      BY <2>1, <3>1 DEF Pending
  <2>3. \A i \in Lines, s \in Tallies : Pending(t, i, s)' => Pending(t, i, s)
    <3> USE DEF Pending, Tallies
    <3>1. CASE SemWait(t) \/ Lookup(t)
      BY <2>1, <3>1 DEF SemWait, Lookup, Advance, TypeOK
    <3>2. CASE PostTally(t)
      BY <2>1, <3>2 DEF PostTally, AfterTally, Goto, TypeOK
    <3>3. CASE HtSetFails(t)
      BY <2>1, <3>3 DEF HtSetFails, Advance, TypeOK
    <3>4. CASE Stores(t)
      BY <2>1, <3>4, StoreFrame DEF TypeOK
    <3>5. CASE PostFile(t) /\ cur[t] # 0
      BY <2>1, <3>5, ParseFrame DEF TypeOK
    <3>6. CASE PostFile(t) /\ cur[t] = 0
      BY <2>1, <3>6 DEF Lines
    <3> QED
      BY <1>5, <3>1, <3>2, <3>3, <3>4, <3>5, <3>6, WorkerCases DEF Moves
  <2>4. CASE counted' = counted
    BY <2>1, <2>2, <2>3, <2>4 DEF NotTwice
  <2>5. CASE Stores(t)
    <3>1. \A i \in Lines, s \in Tallies :
            i \in counted'[s] => i \in counted[s] \/ (i = cur[t] /\ s = at[t])
      BY <2>5, StoreFrame DEF TypeOK
    <3>2. cur[t] <= pos /\ Live(t)
      BY <2>5, StoreFrame DEF Live, Distinct
    <3>3. \A u \in Threads : ~Pending(u, cur[t], at[t])'
      <4>1. ~Pending(t, cur[t], at[t])'
        BY <2>5, <2>1, StoreFrame DEF Pending, TypeOK, Tallies
      <4>2. \A u \in Threads \ {t} : cur[u] = cur[t] => ~Live(u)
        BY <3>2 DEF Distinct
      <4>3. \A u \in Threads \ {t} : Pending(u, cur[t], at[t]) => Live(u)
        BY <2>5, StoreFrame DEF Pending, Live, Tallies, HasLine
      <4> QED
        BY <4>1, <4>2, <4>3, <2>2, <2>5, StoreFrame DEF Pending
    <3> SUFFICES ASSUME NEW i \in Lines, NEW s \in Tallies, i \in counted'[s]
                 PROVE  i <= pos' /\ \A u \in Threads : ~Pending(u, i, s)'
      BY DEF NotTwice
    <3>4. CASE i = cur[t] /\ s = at[t]
      <4>1. at' = at /\ cur' = cur
        BY <2>5, StoreFrame
      <4> QED
        BY <3>4, <3>2, <3>3, <2>1, <4>1 DEF Pending
    <3>5. CASE i \in counted[s]
      BY <3>5, <2>1, <2>2, <2>3 DEF NotTwice
    <3> QED
      BY <3>1, <3>4, <3>5
  <2> QED
    BY <1>5, <2>4, <2>5, WorkerCases, MovesFrame, ParseFrame
<1> QED
  BY <1>1, <1>2, <1>3, <1>4, <1>5, StepCases

LEMMA NotLostStep == LineInv /\ [Next]_vars => NotLost'
<1> SUFFICES ASSUME TypeOK, HasLine, Threading, Locals, NotLost, [Next]_vars
             PROVE  NotLost'
  BY DEF LineInv, MutexInv, TypeInv
<1>1. CASE MainMoves
  BY <1>1, MainMovesFrame DEF NotLost, Pending
<1>2. CASE PthreadCreate
  <2>1. \A u \in Threads, i \in Lines, s \in Tallies :
          Pending(u, i, s) => Pending(u, i, s)'
    BY <1>2, CreateFrame DEF Pending, Tallies
  <2> QED
    BY <1>2, CreateFrame, <2>1 DEF NotLost
<1>3. CASE ProcessEnds
  BY <1>3 DEF ProcessEnds, NotLost, Lines
<1>4. ASSUME NEW t \in Threads, Reads(t) PROVE NotLost'
  <2>1. /\ UNCHANGED <<at, entry, counted, parsed, allocFails>>
        /\ at[t] = "file" /\ step[t] = "load"
        /\ step' = [step EXCEPT ![t] = "post"]
    BY <1>4 DEF Reads, Fgets, FgetsFails, Advance, history, fails
  <2>2. \A u \in Threads, i \in Lines, s \in Tallies :
          Pending(u, i, s) => Pending(u, i, s)'
    BY <1>4, <2>1 DEF Reads, Fgets, FgetsFails, Pending, TypeOK, Tallies
  <2>3. \A i \in Lines : i <= pos' => i <= pos \/ cur'[t] = i
    BY <1>4, LogLength DEF Reads, Fgets, FgetsFails, TypeOK, Lines
  <2>4. \A i \in Lines, s \in Tallies : cur'[t] = i => Pending(t, i, s)'
    BY <2>1 DEF Pending, TypeOK
  <2> QED
    BY <2>1, <2>2, <2>3, <2>4 DEF NotLost
<1>5. ASSUME NEW t \in Threads, Worker(t) \/ FgetsFails(t) \/ HtSetFails(t), ~Reads(t)
      PROVE  NotLost'
  <2>1. /\ \A u \in Threads \ {t} : at'[u] = at[u] /\ step'[u] = step[u]
        /\ UNCHANGED <<cur, pos>>
    BY <1>5, WorkerFrame, LiveFrame
  <2>2. \A u \in Threads \ {t}, i \in Lines, s \in Tallies :
          Pending(u, i, s) => Pending(u, i, s)'
    <3>1. \A u \in Threads \ {t} : entry'[u] = entry[u]
      BY <1>5, WorkerCases, MovesFrame, StoreFrame, ParseFrame
    <3> QED
      BY <2>1, <3>1 DEF Pending
  <2>3. CASE Moves(t)
    <3>1. UNCHANGED <<entry, parsed, counted, allocFails>>
      BY <2>3, <1>5, MovesFrame
         DEF Moves, SemWait, Lookup, PostTally, PostFile, bounds, fails
    <3>2. \A i \in Lines, s \in Tallies : Pending(t, i, s) =>
            Pending(t, i, s)' \/ (s = "errors" /\ ~IsError(parsed[i].status))
      <4> USE DEF Pending, Tallies
      <4>1. CASE SemWait(t) \/ Lookup(t)
        BY <4>1, <2>1 DEF SemWait, Lookup, Advance, TypeOK
      <4>2. CASE PostTally(t)
        BY <4>2, <2>1, <3>1 DEF PostTally, AfterTally, Goto, TypeOK, Locals
      <4>3. CASE PostFile(t) /\ cur[t] = 0
        BY <4>3 DEF Lines
      <4> QED
        BY <2>3, <1>5, <4>1, <4>2, <4>3 DEF Moves
    <3> QED
      BY <3>1, <3>2, <2>1, <2>2 DEF NotLost
  <2>4. CASE Stores(t)
    <3>1. \A i \in Lines, s \in Tallies :
            Pending(t, i, s) => Pending(t, i, s)' \/ i \in counted'[s]
      BY <2>4, <2>1, StoreFrame DEF Pending, TypeOK, Tallies
    <3>2. \A s \in Tallies : counted[s] \subseteq counted'[s]
      <4>1. /\ at[t] \in Tallies
            /\ counted' = [counted EXCEPT ![at[t]] = @ \cup {cur[t]}]
        BY <2>4, StoreFrame
      <4>2. \A s \in Tallies :
              counted'[s] = IF s = at[t] THEN counted[s] \cup {cur[t]}
                            ELSE counted[s]
        BY <4>1 DEF TypeOK
      <4> QED
        BY <4>2
    <3>3. UNCHANGED <<parsed, allocFails, pos>>
      BY <2>4, StoreFrame
    <3> SUFFICES ASSUME NEW i \in Lines, NEW s \in Tallies,
                        i <= pos, i \notin counted'[s]
                 PROVE  \/ allocFails > 0
                        \/ s = "errors" /\ ~IsError(parsed[i].status)
                        \/ \E u \in Threads : Pending(u, i, s)'
      BY <3>3 DEF NotLost
    <3> QED
      BY <3>1, <3>2, <2>2 DEF NotLost
  <2>5. CASE HtSetFails(t)
    BY <2>5 DEF HtSetFails, NotLost, TypeOK
  <2>6. CASE PostFile(t) /\ cur[t] # 0
    <3>1. \A i \in Lines, s \in Tallies : Pending(t, i, s) => Pending(t, i, s)'
      BY <2>6, <2>1, ParseFrame DEF Pending, TypeOK, Tallies
    <3>2. \A s \in Tallies : Pending(t, cur[t], s)'
      BY <2>6, ParseFrame DEF Pending, TypeOK, Tallies
    <3>3. \A i \in Lines : i # cur[t] => parsed'[i] = parsed[i]
      BY <2>6, ParseFrame DEF TypeOK
    <3>4. UNCHANGED <<counted, allocFails>>
      BY <2>6, ParseFrame
    <3> QED
      BY <3>1, <3>2, <3>3, <3>4, <2>1, <2>2 DEF NotLost
  <2> QED
    BY <1>5, <2>3, <2>4, <2>5, <2>6, WorkerCases
<1> QED
  BY <1>1, <1>2, <1>3, <1>4, <1>5, StepCases

LEMMA TallyStep == LineInv /\ [Next]_vars => TallyExact'
<1> SUFFICES ASSUME TypeOK, HasLine, Locals, NotTwice, TallyExact, [Next]_vars
             PROVE  TallyExact'
  BY DEF LineInv, MutexInv, TypeInv
<1>1. CASE UNCHANGED <<ip_requests, url_visits, errors, parsed, counted>>
  BY <1>1 DEF TallyExact
<1>2. CASE ProcessEnds
  <2>1. /\ \A k \in Ips : IpLines({}, Content, k) = {}
        /\ \A k \in Urls : UrlLines({}, Content, k) = {}
        /\ ErrorLines({}, Content) = {}
    BY DEF IpLines, UrlLines, ErrorLines
  <2>2. Cardinality({}) = 0 /\ 0 % UINT16_RANGE = 0
    BY FS_EmptySet
  <2> QED
    BY <1>2, <2>1, <2>2 DEF ProcessEnds, TallyExact, Tallies
<1>3. ASSUME NEW t \in Threads, Stores(t) PROVE TallyExact'
  <2>1. /\ cur[t] \in Lines /\ at[t] \in Tallies /\ step[t] = "store"
        /\ counted' = [counted EXCEPT ![at[t]] = @ \cup {cur[t]}]
        /\ parsed' = parsed
    BY <1>3, StoreFrame
  <2>2. cur[t] \notin counted[at[t]]
    <3>1. Pending(t, cur[t], at[t])
      BY <2>1 DEF Pending
    <3> QED
      BY <2>1, <3>1 DEF NotTwice
  <2>3. /\ entry[t] = parsed[cur[t]]
        /\ loaded[t] = Current(t)
        /\ at[t] = "errors" => IsError(entry[t].status)
    BY <2>1 DEF Locals
  <2>4. \A s \in Tallies : counted[s] \in SUBSET Lines
    BY DEF TypeOK
  <2>5. CASE StoreIp(t)
    <3>1. /\ at[t] = "ip"
          /\ UNCHANGED <<url_visits, errors>>
          /\ counted'["url"] = counted["url"]
          /\ counted'["errors"] = counted["errors"]
          /\ counted'["ip"] = counted["ip"] \cup {cur[t]}
      BY <2>5, <2>1 DEF StoreIp, TypeOK, Tallies
    <3>2. \A k \in Ips : ip_requests'[k] =
            IF parsed[cur[t]].ip = k THEN ip_requests[k] + 1 ELSE ip_requests[k]
      BY <2>5, <2>3, <3>1 DEF StoreIp, Current, TypeOK
    <3>3. \A k \in Ips :
            ip_requests'[k] = Cardinality(IpLines(counted'["ip"], parsed, k))
      BY <2>1, <2>2, <2>4, <3>1, <3>2, AddIpLine DEF TallyExact, Tallies
    <3> QED
      BY <2>1, <3>1, <3>3 DEF TallyExact
  <2>6. CASE StoreUrl(t)
    <3>1. /\ at[t] = "url"
          /\ UNCHANGED <<ip_requests, errors>>
          /\ counted'["ip"] = counted["ip"]
          /\ counted'["errors"] = counted["errors"]
          /\ counted'["url"] = counted["url"] \cup {cur[t]}
      BY <2>6, <2>1 DEF StoreUrl, TypeOK, Tallies
    <3>2. \A k \in Urls : url_visits'[k] =
            IF parsed[cur[t]].url = k THEN url_visits[k] + 1 ELSE url_visits[k]
      BY <2>6, <2>3, <3>1 DEF StoreUrl, Current, TypeOK
    <3>3. \A k \in Urls :
            url_visits'[k] = Cardinality(UrlLines(counted'["url"], parsed, k))
      BY <2>1, <2>2, <2>4, <3>1, <3>2, AddUrlLine DEF TallyExact, Tallies
    <3> QED
      BY <2>1, <3>1, <3>3 DEF TallyExact
  <2>7. CASE StoreErrors(t)
    <3>1. /\ at[t] = "errors"
          /\ UNCHANGED <<ip_requests, url_visits>>
          /\ counted'["ip"] = counted["ip"]
          /\ counted'["url"] = counted["url"]
          /\ counted'["errors"] = counted["errors"] \cup {cur[t]}
      BY <2>7, <2>1 DEF StoreErrors, TypeOK, Tallies
    <3> DEFINE n == Cardinality(ErrorLines(counted["errors"], parsed))
    <3>2. /\ n \in Nat
          /\ Cardinality(ErrorLines(counted'["errors"], parsed)) = n + 1
      <4>1. /\ counted["errors"] \in SUBSET Lines /\ cur[t] \in Lines
            /\ cur[t] \notin counted["errors"] /\ IsError(parsed[cur[t]].status)
        BY <2>1, <2>2, <2>3, <2>4, <3>1 DEF Tallies
      <4>2. /\ n \in Nat
            /\ Cardinality(ErrorLines(counted["errors"] \cup {cur[t]}, parsed)) = n + 1
        BY <4>1, AddErrorLine, ZenonT(20)
      <4> QED
        BY <3>1, <4>2
    <3>3. errors' = ((n % UINT16_RANGE) + 1) % UINT16_RANGE
      BY <2>7, <2>3, <3>1 DEF StoreErrors, Current, TallyExact
    <3> HIDE DEF n
    <3>4. errors' = (n + 1) % UINT16_RANGE
      BY <3>2, <3>3, WrappedIncrement
    <3> QED
      BY <2>1, <3>1, <3>2, <3>4 DEF TallyExact
  <2> QED
    BY <1>3, <2>5, <2>6, <2>7 DEF Stores
<1>4. ASSUME NEW t \in Threads, PostFile(t), cur[t] # 0 PROVE TallyExact'
  <2>1. /\ cur[t] \in Lines /\ at[t] = "file" /\ step[t] = "post"
        /\ parsed' = [parsed EXCEPT ![cur[t]] = entry'[t]]
        /\ UNCHANGED <<ip_requests, url_visits, errors, counted>>
    BY <1>4, ParseFrame
  <2>2. \A s \in Tallies : cur[t] \notin counted[s]
    <3>1. \A s \in Tallies : Pending(t, cur[t], s)
      BY <2>1 DEF Pending
    <3> QED
      BY <2>1, <3>1 DEF NotTwice
  <2>3. \A s \in Tallies : /\ counted[s] \in SUBSET Lines
                           /\ \A i \in counted[s] : parsed[i] = parsed'[i]
    BY <2>1, <2>2 DEF TypeOK
  <2>4. /\ \A k : IpLines(counted["ip"], parsed, k) =
                  IpLines(counted["ip"], parsed', k)
        /\ \A k : UrlLines(counted["url"], parsed, k) =
                  UrlLines(counted["url"], parsed', k)
        /\ ErrorLines(counted["errors"], parsed) =
             ErrorLines(counted["errors"], parsed')
    BY <2>3, SameReading DEF Tallies
  <2> QED
    BY <2>1, <2>4 DEF TallyExact
<1> QED
  BY <1>1, <1>2, <1>3, <1>4, StepCases, WorkerCases, MainMovesFrame, CreateFrame1,
     MovesFrame

LEMMA FaithfulStep == LineInv /\ [Next]_vars => Faithful'
<1> SUFFICES ASSUME TypeOK, HasLine, Faithful, WellFormed, [Next]_vars
             PROVE  parsed' = Content
  BY DEF LineInv, MutexInv, TypeInv, Faithful
<1>1. parsed = Content
  BY DEF Faithful
<1>2. CASE UNCHANGED parsed
  BY <1>1, <1>2
<1>3. CASE ProcessEnds
  BY <1>3 DEF ProcessEnds
<1>4. ASSUME NEW t \in Threads, PostFile(t), cur[t] # 0 PROVE parsed' = Content
  <2>1. /\ cur[t] \in Lines
        /\ parsed' = [parsed EXCEPT ![cur[t]] = Content[cur[t]]]
    <3>1. /\ cur[t] \in Lines
          /\ parsed' = [parsed EXCEPT ![cur[t]] = entry'[t]]
          /\ entry'[t] = Scan(Log[cur[t]], entry[t])
      BY <1>4, ParseFrame
    <3>2. Scan(Log[cur[t]], entry[t]) = Content[cur[t]]
      BY <3>1, ScanWellFormed
    <3> QED
      BY <3>1, <3>2
  <2> QED
    BY <1>1, <2>1 DEF TypeOK, Content
<1>5. ASSUME NEW t \in Threads, Stores(t) PROVE parsed' = parsed
  BY <1>5, StoreFrame
<1> QED
  BY <1>1, <1>3, <1>4, <1>5, StepCases, WorkerCases, MainMovesFrame,
     CreateFrame1, MovesFrame

LEMMA UnreportedStep == LineInv /\ [Next]_vars => Unreported'
<1> SUFFICES ASSUME TypeOK, Unreported, [Next]_vars PROVE Unreported'
  BY DEF LineInv, MutexInv, TypeInv
<1>1. CASE Boot \/ MainStep
  BY <1>1 DEF Boot, MainStep, SemaphoresInit, PthreadCreate, PthreadJoin,
              SemaphoresClean, Report, ProcessEnds, Unreported
<1>2. CASE PthreadCreateFails \/ Kill
  BY <1>2 DEF PthreadCreateFails, Kill, ProcessEnds, Unreported
<1>3. ASSUME NEW t \in Threads, Worker(t) \/ FgetsFails(t) \/ HtSetFails(t) PROVE Unreported'
  BY <1>3, WorkerFrame DEF Unreported
<1>4. CASE UNCHANGED vars
  BY <1>4 DEF vars, control, Unreported
<1> QED
  BY <1>1, <1>2, <1>3, <1>4 DEF Next, Stopped

LEMMA LineInit == Init => LineInv
<1> SUFFICES ASSUME Init PROVE LineInv
  OBVIOUS
<1>1. MutexInv
  BY TypeInit DEF Init, MutexInv, Threading, SemBinary, MutualExclusion, Holds
<1>2. Distinct /\ Locals /\ Faithful /\ Unreported
  BY DEF Init, Distinct, Locals, Faithful, Unreported, Live, Saw, Tallies
<1>3. NotTwice /\ NotLost
  BY LogLength DEF Init, NotTwice, NotLost, Lines
<1>4. TallyExact
  <2>1. /\ \A k \in Ips : IpLines({}, Content, k) = {}
        /\ \A k \in Urls : UrlLines({}, Content, k) = {}
        /\ ErrorLines({}, Content) = {}
    BY DEF IpLines, UrlLines, ErrorLines
  <2>2. Cardinality({}) = 0 /\ 0 % UINT16_RANGE = 0
    BY FS_EmptySet
  <2> QED
    BY <2>1, <2>2 DEF Init, TallyExact, Tallies
<1> QED
  BY <1>1, <1>2, <1>3, <1>4 DEF LineInv

LEMMA LineStep == LineInv /\ [Next]_vars => LineInv'
<1> SUFFICES ASSUME LineInv, [Next]_vars PROVE LineInv'
  OBVIOUS
<1>1. MutexInv'
  BY TypeStep, HasLineStep, ThreadingStep, MutexStep
     DEF LineInv, MutexInv, TypeInv
<1>2. /\ Distinct' /\ Locals' /\ NotTwice' /\ NotLost' /\ TallyExact'
      /\ Faithful' /\ Unreported'
  BY DistinctStep, LocalsStep, NotTwiceStep, NotLostStep, TallyStep,
     FaithfulStep, UnreportedStep
<1> QED
  BY <1>1, <1>2 DEF LineInv

LEMMA LineAlways == Spec => []LineInv
BY LineInit, LineStep, PTL DEF Spec

(* No increment is lost or made twice: the counts are those of the lines   *)
(* recorded, at every step of every interleaving.                          *)
THEOREM Exactness == Spec => []TallyExact
BY LineAlways, PTL DEF LineInv

(* Every line delivered is recorded once in each tally it belongs to, or   *)
(* is on its way there with one worker, unless memory ran out.             *)
THEOREM Accounting == Spec => []LinesOnce
<1>1. LineInv => LinesOnce
  <2> SUFFICES ASSUME LineInv, NEW i \in Lines, NEW s \in Tallies,
                      NEW t \in Threads, NEW u \in Threads,
                      Pending(t, i, s), Pending(u, i, s)
               PROVE  t = u
    BY DEF LineInv, NotTwice, NotLost, LinesOnce
  <2>1. Live(t) /\ Live(u) /\ cur[t] = cur[u]
    BY DEF Pending, Live, Tallies, Lines
  <2> QED
    BY <2>1 DEF LineInv, Distinct
<1> QED
  BY <1>1, LineAlways, PTL

-----------------------------------------------------------------------------
(* The analyser implements LogTally                                        *)

(* Once main has joined all workers, every line that fgets has delivered   *)
(* is in its tallies.                                                      *)
LEMMA AllRecorded ==
  ASSUME LineInv, main = "report", allocFails = 0
  PROVE  \E n \in 0 .. Len(Log) :
           /\ counted["ip"] = 1 .. n
           /\ counted["url"] = 1 .. n
           /\ counted["errors"] \subseteq 1 .. n
           /\ \A i \in 1 .. n : IsError(parsed[i].status) => i \in counted["errors"]
           /\ readFails = 0 => n = Len(Log)
<1>1. \A t \in Threads : at[t] = "done"
  BY DEF LineInv, MutexInv, Threading
<1>2. pos = Len(Log) + 1 \/ readFails > 0
  <2>1. 0 \in Threads
    BY DEF Threads
  <2> QED
    BY <1>1, <2>1 DEF LineInv, Distinct, Saw
<1>3. \A t \in Threads, i \in Lines, s \in Tallies : ~Pending(t, i, s)
  BY <1>1 DEF Pending, Tallies
<1>4. PICK n \in 0 .. Len(Log) :
        /\ \A i \in Lines : i <= pos <=> i \in 1 .. n
        /\ readFails = 0 => n = Len(Log)
  <2>1. pos \in 0 .. Len(Log) + 1 /\ Len(Log) \in Nat
    BY LogLength DEF LineInv, MutexInv, TypeInv, TypeOK
  <2>2. CASE pos = Len(Log) + 1
    BY <2>1, <2>2 DEF Lines
  <2>3. CASE pos # Len(Log) + 1
    <3>1. pos \in 0 .. Len(Log) /\ readFails # 0
      BY <1>2, <2>1, <2>3
    <3>2. \A i \in Lines : i <= pos <=> i \in 1 .. pos
      BY <2>1 DEF Lines
    <3> QED
      BY <3>1, <3>2
  <2> QED
    BY <2>2, <2>3
<1>5. \A i \in 1 .. n, s \in Tallies :
        i \in counted[s] \/ (s = "errors" /\ ~IsError(parsed[i].status))
  <2>1. \A i \in 1 .. n : i \in Lines
    BY LogLength DEF Lines
  <2> QED
    BY <1>3, <1>4, <2>1 DEF LineInv, NotLost
<1>6. \A s \in Tallies : counted[s] \subseteq 1 .. n
  <2>1. \A s \in Tallies : counted[s] \subseteq Lines
    BY DEF LineInv, MutexInv, TypeInv, TypeOK
  <2> QED
    BY <1>4, <2>1 DEF LineInv, NotTwice
<1> QED
  BY <1>4, <1>5, <1>6 DEF Tallies

LEMMA ReportExact ==
  ASSUME WellFormed, LineInv, allocFails = 0, Report
  PROVE  \E n \in 0 .. Len(Log) : /\ IsExact(report', 1 .. n, Content)
                                  /\ readFails = 0 => n = Len(Log)
<1>1. PICK n \in 0 .. Len(Log) :
        /\ counted["ip"] = 1 .. n
        /\ counted["url"] = 1 .. n
        /\ counted["errors"] \subseteq 1 .. n
        /\ \A i \in 1 .. n : IsError(parsed[i].status) => i \in counted["errors"]
        /\ readFails = 0 => n = Len(Log)
  BY AllRecorded DEF Report
<1> DEFINE First == 1 .. n
<1>2. parsed = Content /\ TallyExact /\ TypeOK
  BY DEF LineInv, Faithful, MutexInv, TypeInv
<1>3. \A k \in Ips : ip_requests[k] = Cardinality(IpLines(First, Content, k))
  BY <1>1, <1>2 DEF TallyExact
<1>4. \A k \in Urls : url_visits[k] = Cardinality(UrlLines(First, Content, k))
  BY <1>1, <1>2 DEF TallyExact
<1>5. errors = Cardinality(ErrorLines(First, Content)) % UINT16_RANGE
  <2>1. ErrorLines(counted["errors"], parsed) = ErrorLines(First, Content)
    BY <1>1, <1>2 DEF ErrorLines
  <2> QED
    BY <1>2, <2>1 DEF TallyExact
<1>6. UniqueIps = {k \in Ips : IpLines(First, Content, k) # {}}
  <2>1. \A k \in Ips : Cardinality(IpLines(First, Content, k)) = 0
                       <=> IpLines(First, Content, k) = {}
    <3>1. First \subseteq Lines
      BY LogLength DEF Lines
    <3>2. \A k \in Ips : IpLines(First, Content, k) \in SUBSET Lines
      BY <3>1 DEF IpLines
    <3> QED
      BY <3>2, LinesFinite, FS_EmptySet
  <2> QED
    BY <1>3, <2>1 DEF UniqueIps
<1>7. PICK u \in MostVisited :
        report' = [ips |-> Cardinality(UniqueIps), url |-> u,
                   best |-> url_visits[u], errors |-> errors]
  BY DEF Report
<1>8. IsExact(report', First, Content)
  <2> HIDE DEF First
  <2> QED
    BY <1>4, <1>5, <1>6, <1>7 DEF IsExact, MostVisited
<1> QED
  BY <1>1, <1>8

(* What the refinement needs besides: no failure of ht_set has happened.   *)
LEMMA NoAllocFails ==
  ASSUME MaxAllocFails = 0, TypeOK
  PROVE  allocFails = 0
BY DEF TypeOK

(* A run that prints figures prints those of the whole log or, when a      *)
(* worker took a failure of fgets for the end of the file, those of its    *)
(* first lines: for every well-formed log, any number of workers and any   *)
(* number of killed runs before it, as long as memory lasts.               *)
THEOREM Implements ==
  ASSUME WellFormed, MaxAllocFails = 0
  PROVE  Spec => TallySpec
<1>1. Init => Tally!Init
  BY DEF Init, Tally!Init
<1>2. LineInv /\ [Next]_vars => [Tally!Next]_Tally!vars
  <2> SUFFICES ASSUME LineInv, [Next]_vars PROVE [Tally!Next]_Tally!vars
    OBVIOUS
  <2> USE DEF Tally!Next, Tally!vars
  <2>1. CASE Report
    <3>1. PICK n \in 0 .. Len(Log) : /\ IsExact(report', 1 .. n, Content)
                                     /\ readFails = 0 => n = Len(Log)
      BY <2>1, ReportExact, NoAllocFails DEF LineInv, MutexInv, TypeInv
    <3>2. report' \in Reports
      <4>1. Cardinality(UniqueIps) \in Nat
        BY FS_Subset, FS_CardinalityType DEF UniqueIps
      <4>2. errors \in Nat /\ url_visits \in [Urls -> Nat]
        BY DEF LineInv, MutexInv, TypeInv, TypeOK
      <4> QED
        BY <2>1, <4>1, <4>2 DEF Report, MostVisited, Reports
    <3>3. readFails \in Nat
      BY DEF LineInv, MutexInv, TypeInv, TypeOK
    <3>4. report' \in (IF readFails > 0 THEN PrefixReports ELSE ExactReports)
      BY <3>1, <3>2, <3>3 DEF ExactReports, PrefixReports, Lines
    <3>5. main = "report" /\ main' = "off" /\ readFails' = 0
      BY <2>1 DEF Report, ProcessEnds
    <3> QED
      BY <3>4, <3>5 DEF Tally!Publish
  <2>2. CASE PthreadCreateFails \/ Kill
    <3>1. main # "off" /\ main' = "off" /\ report' = report /\ readFails' = 0
      BY <2>2 DEF PthreadCreateFails, Kill, ProcessEnds
    <3>2. report = NoReport
      BY <3>1 DEF LineInv, Unreported
    <3> QED
      BY <3>1, <3>2 DEF Tally!Abort
  <2>3. CASE Boot
    BY <2>3 DEF Boot, fails, Tally!Begin
  <2>4. CASE SemaphoresInit \/ PthreadCreate \/ PthreadJoin \/ SemaphoresClean
    BY <2>4 DEF SemaphoresInit, PthreadCreate, PthreadJoin, SemaphoresClean,
                bounds, fails
  <2>5. ASSUME NEW t \in Threads, Worker(t) \/ FgetsFails(t) \/ HtSetFails(t)
        PROVE  Tally!ReadFails \/ UNCHANGED <<main # "off", readFails > 0, report>>
    <3>1. at[t] \in Sections /\ UNCHANGED <<main, report>>
      BY <2>5, WorkerFrame DEF LineInv, MutexInv, TypeInv
    <3>2. main # "off"
      BY <3>1 DEF LineInv, MutexInv, Threading, Sections
    <3>3. CASE FgetsFails(t)
      <4>1. readFails' > 0
        BY <3>3 DEF FgetsFails, LineInv, MutexInv, TypeInv, TypeOK
      <4> QED
        BY <3>1, <3>2, <4>1 DEF Tally!ReadFails
    <3>4. CASE ~FgetsFails(t)
      <4>1. readFails' = readFails
        BY <2>5, <3>4 DEF Worker, SemWait, Fgets, PostFile, Lookup, StoreIp,
           StoreUrl, StoreErrors, PostTally, HtSetFails, bounds, fails
      <4> QED
        BY <3>1, <4>1
    <3> QED
      BY <3>3, <3>4
  <2>6. CASE UNCHANGED vars
    BY <2>6 DEF vars, control, bounds, fails
  <2> QED
    BY <2>1, <2>2, <2>3, <2>4, <2>5, <2>6 DEF Next, MainStep, Stopped
<1> QED
  BY <1>1, <1>2, LineAlways, PTL DEF TallySpec, Tally!Spec, Spec
=============================================================================
