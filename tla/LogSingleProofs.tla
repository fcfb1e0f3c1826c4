-------------------------- MODULE LogSingleProofs --------------------------
(***************************************************************************)
(* Proofs about LogSingle, for any log, any contents of the uninitialised  *)
(* locals and any number of runs, kills and failures of ht_set and fgets.  *)
(***************************************************************************)
EXTENDS LogSingle, FiniteSetTheorems, TLAPS

USE LogAssumption, SingleAssumption

-----------------------------------------------------------------------------
(* Log entries                                                             *)

(* Types of what sscanf leaves in the locals and of what the log says.     *)
LEMMA ScanType ==
  ASSUME NEW chunk \in Chunks, NEW old \in Entries
  PROVE  Scan(chunk, old) \in Entries
BY DEF Scan, Chunks, Entries

LEMMA LogLength ==
  Len(Log) \in Nat /\ \A i \in 1 .. Len(Log) : Log[i] \in Chunks
BY LogAssumption

-----------------------------------------------------------------------------
(* Tallies                                                                 *)

LEMMA LinesFinite ==
  ASSUME NEW S \in SUBSET Lines
  PROVE  IsFiniteSet(S) /\ Cardinality(S) \in Nat
<1>1. IsFiniteSet(Lines)
  BY LogLength, FS_Interval DEF Lines
<1> QED
  BY <1>1, FS_Subset, FS_CardinalityType

(* A line that is not yet in a set of lines adds one to a tally of it.     *)
LEMMA AddLine ==
  ASSUME NEW T \in SUBSET Lines, NEW i \in Lines, i \notin T
  PROVE  /\ Cardinality(T) \in Nat
         /\ Cardinality(T \cup {i}) = Cardinality(T) + 1
<1>1. IsFiniteSet(T) /\ Cardinality(T) \in Nat
  BY LinesFinite
<1> QED
  BY <1>1, FS_AddElement

LEMMA AddIpLine ==
  ASSUME NEW S \in SUBSET Lines, NEW i \in Lines, i \notin S, NEW e, NEW k
  PROVE  /\ Cardinality(IpLines(S, e, k)) \in Nat
         /\ Cardinality(IpLines(S \cup {i}, e, k)) =
              IF e[i].ip = k THEN Cardinality(IpLines(S, e, k)) + 1
              ELSE Cardinality(IpLines(S, e, k))
<1>1. IpLines(S, e, k) \in SUBSET Lines /\ i \notin IpLines(S, e, k)
  BY DEF IpLines
<1>2. IpLines(S \cup {i}, e, k) = IF e[i].ip = k THEN IpLines(S, e, k) \cup {i}
                                   ELSE IpLines(S, e, k)
  BY DEF IpLines
<1> QED
  BY <1>1, <1>2, AddLine

LEMMA AddUrlLine ==
  ASSUME NEW S \in SUBSET Lines, NEW i \in Lines, i \notin S, NEW e, NEW k
  PROVE  /\ Cardinality(UrlLines(S, e, k)) \in Nat
         /\ Cardinality(UrlLines(S \cup {i}, e, k)) =
              IF e[i].url = k THEN Cardinality(UrlLines(S, e, k)) + 1
              ELSE Cardinality(UrlLines(S, e, k))
<1>1. UrlLines(S, e, k) \in SUBSET Lines /\ i \notin UrlLines(S, e, k)
  BY DEF UrlLines
<1>2. UrlLines(S \cup {i}, e, k) = IF e[i].url = k THEN UrlLines(S, e, k) \cup {i}
                                   ELSE UrlLines(S, e, k)
  BY DEF UrlLines
<1> QED
  BY <1>1, <1>2, AddLine

LEMMA AddErrorLine ==
  ASSUME NEW S \in SUBSET Lines, NEW i \in Lines, i \notin S, NEW e,
         IsError(e[i].status)
  PROVE  /\ Cardinality(ErrorLines(S, e)) \in Nat
         /\ Cardinality(ErrorLines(S \cup {i}, e)) =
              Cardinality(ErrorLines(S, e)) + 1
<1>1. ErrorLines(S, e) \in SUBSET Lines /\ i \notin ErrorLines(S, e)
  BY DEF ErrorLines
<1>2. ErrorLines(S \cup {i}, e) = ErrorLines(S, e) \cup {i}
  BY DEF ErrorLines
<1> QED
  BY <1>1, <1>2, AddLine

(* A tally depends only on how the lines of its set are read.              *)
LEMMA SameReading ==
  ASSUME NEW S \in SUBSET Lines, NEW e, NEW f, \A i \in S : e[i] = f[i]
  PROVE  /\ \A k : IpLines(S, e, k) = IpLines(S, f, k)
         /\ \A k : UrlLines(S, e, k) = UrlLines(S, f, k)
         /\ ErrorLines(S, e) = ErrorLines(S, f)
BY DEF IpLines, UrlLines, ErrorLines

-----------------------------------------------------------------------------
(* Counting modulo the width of a counter                                  *)

LEMMA Division ==
  ASSUME NEW n \in Nat, NEW r \in Nat \ {0}
  PROVE  /\ n = (n \div r) * r + (n % r)
         /\ n \div r \in Nat
         /\ n % r \in 0 .. r - 1
OBVIOUS

LEMMA Remainder ==
  \A q \in Nat, r \in Nat \ {0}, m \in Nat : m < r => (q * r + m) % r = m
OBVIOUS

(* Incrementing the remainder and wrapping it is incrementing the number.  *)
LEMMA WrappedIncrement ==
  ASSUME NEW n \in Nat, NEW r \in Nat \ {0}
  PROVE  ((n % r) + 1) % r = (n + 1) % r
<1> DEFINE q == n \div r
           m == n % r
<1>1. n = q * r + m /\ q \in Nat /\ m \in 0 .. r - 1
  BY Division
<1> HIDE DEF q, m
<1>2. CASE m + 1 < r
  <2>1. n + 1 = q * r + (m + 1)
    BY <1>1
  <2>2. (n + 1) % r = m + 1
    BY <1>1, <1>2, <2>1, Remainder
  <2>3. (m + 1) % r = m + 1
    BY <1>1, <1>2
  <2> QED
    BY <2>2, <2>3 DEF m
<1>3. CASE m + 1 = r
  <2>1. n + 1 = (q + 1) * r + 0
    BY <1>1, <1>3
  <2>2. (n + 1) % r = 0
    BY <1>1, <2>1, Remainder
  <2>3. r % r = 0
    OBVIOUS
  <2> QED
    BY <1>3, <2>2, <2>3 DEF m
<1> QED
  BY <1>1, <1>2, <1>3

LEMMA NoEntryType == NoEntry \in Entries
BY DEF NoEntry

-----------------------------------------------------------------------------
(* Type correctness, with: a line has been read while it is counted.       *)

Counting == main \in {"count_ip", "count_url", "count_errors"}

TypeInv == TypeOK /\ (Counting => Len(parsed) > 0)

LEMMA TypeInit == Init => TypeInv
<1> SUFFICES ASSUME Init PROVE TypeInv
  OBVIOUS
<1>1. readFailed \in BOOLEAN
  BY Zenon DEF Init
<1>2. /\ parsed = <<>> /\ ipLost = {} /\ urlLost = {} /\ main = "off"
      /\ entry \in Entries /\ errors = 0 /\ runs = 0 /\ allocFails = 0
      /\ ip_requests = [k \in Ips |-> 0] /\ url_visits = [k \in Urls |-> 0]
  BY NoEntryType DEF Init
<1> QED
  BY <1>1, <1>2, LogLength DEF TypeInv, TypeOK, Counting, LinesRead

LEMMA EndsType == TypeInv /\ ProcessEnds /\ runs' = runs => TypeInv'
<1> SUFFICES ASSUME TypeInv, ProcessEnds, runs' = runs PROVE TypeInv'
  OBVIOUS
<1>1. readFailed' \in BOOLEAN
  BY Zenon DEF ProcessEnds
<1>2. /\ parsed' = <<>> /\ ipLost' = {} /\ urlLost' = {} /\ main' = "off"
      /\ entry' \in Entries /\ errors' = 0 /\ allocFails' = 0
      /\ ip_requests' = [k \in Ips |-> 0] /\ url_visits' = [k \in Urls |-> 0]
  BY NoEntryType DEF ProcessEnds
<1> QED
  BY <1>1, <1>2, LogLength DEF TypeInv, TypeOK, Counting, LinesRead

LEMMA TypeStep == TypeInv /\ [Next]_vars => TypeInv'
<1>0. SUFFICES ASSUME TypeInv, [Next]_vars PROVE TypeInv'
  OBVIOUS
<1>1. CASE Boot
  BY <1>0, <1>1 DEF Boot, TypeInv, TypeOK, Counting, LinesRead, tables, lost
<1>2. CASE ParseLogEntry
  <2>1. CASE Len(parsed) < Len(Log) /\ main' = "count_ip"
    <3>1. parsed \in Seq(Entries) /\ Len(parsed) \in Nat
      BY <1>0 DEF TypeInv, TypeOK
    <3>2. Log[Len(parsed) + 1] \in Chunks
      BY <2>1, <3>1, LogLength
    <3>3. entry' \in Entries
      BY <1>0, <1>2, <2>1, <3>2, ScanType DEF ParseLogEntry, TypeInv, TypeOK
    <3>4. parsed' = Append(parsed, entry')
      BY <1>2, <2>1 DEF ParseLogEntry
    <3>5. parsed' \in Seq(Entries) /\ Len(parsed') = Len(parsed) + 1
      BY <3>1, <3>3, <3>4
    <3>6. main' = "count_ip" /\ UNCHANGED <<tables, lost, readFailed, report, bounds>>
      BY <1>2, <2>1 DEF ParseLogEntry
    <3> QED
      BY <1>0, <2>1, <3>1, <3>3, <3>5, <3>6, LogLength
         DEF TypeInv, TypeOK, Counting, LinesRead, tables, lost, bounds
  <2>2. CASE main' = "report"
    BY <1>0, <1>2, <2>2
       DEF ParseLogEntry, TypeInv, TypeOK, Counting, LinesRead, tables, lost, bounds
  <2> QED
    BY <1>2, <2>1, <2>2 DEF ParseLogEntry
<1>3. CASE CountIpRequest
  <2>1. entry.ip \in Ips /\ Len(parsed) \in LinesRead
    BY <1>0, <1>3 DEF CountIpRequest, TypeInv, TypeOK, Entries, Counting, LinesRead
  <2>2. ip_requests' \in [Ips -> Nat]
    BY <1>0, <1>3, <2>1, SMTT(20) DEF CountIpRequest, Bump, TypeInv, TypeOK
  <2>3. ipLost' \subseteq LinesRead /\ allocFails' \in 0 .. MaxAllocFails
    BY <1>0, <1>3, <2>1 DEF CountIpRequest, Bump, TypeInv, TypeOK
  <2> QED
    BY <1>0, <1>3, <2>2, <2>3 DEF CountIpRequest, TypeInv, TypeOK, Counting, LinesRead
<1>4. CASE CountUrlVisits
  <2>1. entry.url \in Urls /\ Len(parsed) \in LinesRead
    BY <1>0, <1>4 DEF CountUrlVisits, TypeInv, TypeOK, Entries, Counting, LinesRead
  <2>2. url_visits' \in [Urls -> Nat]
    <3>1. \/ url_visits' = [url_visits EXCEPT ![entry.url] = @ + 1]
          \/ url_visits' = url_visits
      BY <1>4 DEF CountUrlVisits, Bump
    <3>2. url_visits \in [Urls -> Nat]
      BY <1>0 DEF TypeInv, TypeOK
    <3> QED
      BY <2>1, <3>1, <3>2
  <2>3. urlLost' \subseteq LinesRead /\ allocFails' \in 0 .. MaxAllocFails
    BY <1>0, <1>4, <2>1 DEF CountUrlVisits, Bump, TypeInv, TypeOK
  <2>4. main' \in {"parse", "count_errors"}
    BY <1>4 DEF CountUrlVisits
  <2>5. Len(parsed) > 0
    BY <1>0, <1>4 DEF CountUrlVisits, TypeInv, Counting
  <2> QED
    BY <1>0, <1>4, <2>2, <2>3, <2>4, <2>5
       DEF CountUrlVisits, TypeInv, TypeOK, Counting, LinesRead
<1>5. CASE CountErrors
  <2>1. errors' \in 0 .. UINT16_RANGE - 1
    BY <1>0, <1>5 DEF CountErrors, TypeInv, TypeOK
  <2> QED
    BY <1>0, <1>5, <2>1
       DEF CountErrors, TypeInv, TypeOK, Counting, LinesRead, lost, bounds
<1>6. CASE Report
  BY <1>0, <1>6, EndsType DEF Report
<1>7. CASE Kill
  BY <1>0, <1>7, EndsType DEF Kill
<1>8. CASE UNCHANGED vars
  BY <1>0, <1>8 DEF vars, tables, lost, bounds, TypeInv, TypeOK, Counting, LinesRead
<1> QED
  BY <1>0, <1>1, <1>2, <1>3, <1>4, <1>5, <1>6, <1>7, <1>8 DEF Next, Step, Stopped

LEMMA TypeAlways == Spec => []TypeInv
BY TypeInit, TypeStep, PTL DEF Spec

(* Every variable keeps its type, and the program reads no line that the   *)
(* file has not.                                                           *)
THEOREM Typing == Spec => []TypeOK
BY TypeAlways, PTL DEF TypeInv

-----------------------------------------------------------------------------
(* What makes the counts inductive: between two heads of the loop the last *)
(* line read is in some of the tables already and in the others not yet.   *)

(* The lines that have passed a statement when main is before it at p.     *)
Passed(p) == IF main \in p THEN 1 .. Len(parsed) - 1 ELSE 1 .. Len(parsed)

PassedIp  == Passed({"count_ip"})
PassedUrl == Passed({"count_ip", "count_url"})
PassedAll == Passed({"count_ip", "count_url", "count_errors"})

IpInv ==
  /\ ipLost \subseteq PassedIp
  /\ \A k \in Ips : ip_requests[k] = Cardinality(IpLines(PassedIp \ ipLost, parsed, k))

UrlInv ==
  /\ urlLost \subseteq PassedUrl
  /\ \A k \in Urls : url_visits[k] = Cardinality(UrlLines(PassedUrl \ urlLost, parsed, k))

ErrorInv == errors = Cardinality(ErrorLines(PassedAll, parsed)) % UINT16_RANGE

LostInv == Cardinality(ipLost) + Cardinality(urlLost) = allocFails

(* The locals hold the line being counted, which is an error where errors  *)
(* are counted; the report comes at the end of the file, or what is taken  *)
(* for it.                                                                 *)
EntryInv ==
  /\ Counting => entry = parsed[Len(parsed)]
  /\ main = "count_errors" => IsError(entry.status)
  /\ main = "report" => Len(parsed) = Len(Log) \/ readFailed

CountInv == TypeInv /\ IpInv /\ UrlInv /\ ErrorInv /\ LostInv /\ EntryInv

LEMMA Nothing ==
  /\ \A e, k : IpLines({}, e, k) = {}
  /\ \A e, k : UrlLines({}, e, k) = {}
  /\ \A e : ErrorLines({}, e) = {}
  /\ Cardinality({}) = 0 /\ 0 % UINT16_RANGE = 0
BY FS_EmptySet DEF IpLines, UrlLines, ErrorLines

LEMMA EmptyCounts ==
  ASSUME main = "off", parsed = <<>>, ipLost = {}, urlLost = {}, allocFails = 0,
         ip_requests = [k \in Ips |-> 0], url_visits = [k \in Urls |-> 0], errors = 0
  PROVE  IpInv /\ UrlInv /\ ErrorInv /\ LostInv /\ EntryInv
<1>1. 1 .. Len(parsed) = {}
  OBVIOUS
<1>2. PassedIp = {} /\ PassedUrl = {} /\ PassedAll = {}
  BY <1>1 DEF PassedIp, PassedUrl, PassedAll, Passed
<1>3. PassedIp \ ipLost = {} /\ PassedUrl \ urlLost = {}
  BY <1>2
<1>4. IpInv
  BY <1>2, <1>3, Nothing DEF IpInv
<1>5. UrlInv
  BY <1>2, <1>3, Nothing DEF UrlInv
<1>6. ErrorInv
  BY <1>2, Nothing DEF ErrorInv
<1>7. LostInv
  BY Nothing DEF LostInv
<1>8. EntryInv
  BY DEF EntryInv, Counting
<1> QED
  BY <1>4, <1>5, <1>6, <1>7, <1>8

LEMMA CountInit == Init => CountInv
<1> SUFFICES ASSUME Init PROVE CountInv
  OBVIOUS
<1>1. IpInv /\ UrlInv /\ ErrorInv /\ LostInv /\ EntryInv
  BY EmptyCounts DEF Init
<1> QED
  BY <1>1, TypeInit DEF CountInv

LEMMA EndsEmpty == ProcessEnds => (IpInv /\ UrlInv /\ ErrorInv /\ LostInv /\ EntryInv)'
<1> SUFFICES ASSUME ProcessEnds
             PROVE  (IpInv /\ UrlInv /\ ErrorInv /\ LostInv /\ EntryInv)'
  OBVIOUS
<1>1. (1 .. Len(parsed))' = {}
  BY DEF ProcessEnds
<1>2. PassedIp' = {} /\ PassedUrl' = {} /\ PassedAll' = {}
  BY <1>1 DEF PassedIp, PassedUrl, PassedAll, Passed, ProcessEnds
<1>3. (PassedIp \ ipLost)' = {} /\ (PassedUrl \ urlLost)' = {}
  BY <1>2
<1>4. IpInv'
  BY <1>2, <1>3, Nothing DEF IpInv, ProcessEnds
<1>5. UrlInv'
  BY <1>2, <1>3, Nothing DEF UrlInv, ProcessEnds
<1>6. ErrorInv'
  BY <1>2, Nothing DEF ErrorInv, ProcessEnds
<1>7. LostInv'
  BY Nothing DEF LostInv, ProcessEnds
<1>8. EntryInv'
  BY DEF EntryInv, Counting, ProcessEnds
<1> QED
  BY <1>4, <1>5, <1>6, <1>7, <1>8

(* A line is read: no count changes, and none of the lines before is read  *)
(* differently.                                                            *)
LEMMA ParseCounts ==
  ASSUME CountInv, ParseLogEntry, Len(parsed) < Len(Log), main' = "count_ip"
  PROVE  (IpInv /\ UrlInv /\ ErrorInv /\ LostInv /\ EntryInv)'
<1> DEFINE n == Len(parsed)
<1>1. /\ main = "parse" /\ main' = "count_ip"
      /\ parsed' = Append(parsed, entry')
      /\ UNCHANGED <<ip_requests, url_visits, errors, ipLost, urlLost, allocFails>>
  BY DEF ParseLogEntry, tables, lost, bounds
<1>2. parsed \in Seq(Entries) /\ n \in Nat
  BY DEF CountInv, TypeInv, TypeOK
<1>3. Len(parsed') = n + 1 /\ parsed'[n + 1] = entry' /\ \A i \in 1 .. n : parsed'[i] = parsed[i]
  BY <1>1, <1>2
<1>4. PassedIp = 1 .. n /\ PassedUrl = 1 .. n /\ PassedAll = 1 .. n
  BY <1>1 DEF PassedIp, PassedUrl, PassedAll, Passed
<1>5. PassedIp' = 1 .. n /\ PassedUrl' = 1 .. n /\ PassedAll' = 1 .. n
  <2>1. Len(parsed') - 1 = n
    BY <1>2, <1>3
  <2> QED
    BY <1>1, <2>1 DEF PassedIp, PassedUrl, PassedAll, Passed
<1>6. 1 .. n \in SUBSET Lines
  BY <1>2, LogLength DEF Lines
<1> HIDE DEF n
<1>7. IpInv'
  <2>1. 1 .. n \ ipLost \in SUBSET Lines /\ \A i \in 1 .. n \ ipLost : parsed'[i] = parsed[i]
    BY <1>3, <1>6
  <2>2. \A k : IpLines(1 .. n \ ipLost, parsed', k) = IpLines(1 .. n \ ipLost, parsed, k)
    BY <2>1, SameReading
  <2> QED
    BY <1>1, <1>4, <1>5, <2>2 DEF CountInv, IpInv
<1>8. UrlInv'
  <2>1. 1 .. n \ urlLost \in SUBSET Lines /\ \A i \in 1 .. n \ urlLost : parsed'[i] = parsed[i]
    BY <1>3, <1>6
  <2>2. \A k : UrlLines(1 .. n \ urlLost, parsed', k) = UrlLines(1 .. n \ urlLost, parsed, k)
    BY <2>1, SameReading
  <2> QED
    BY <1>1, <1>4, <1>5, <2>2 DEF CountInv, UrlInv
<1>9. ErrorInv'
  <2>1. ErrorLines(1 .. n, parsed') = ErrorLines(1 .. n, parsed)
    BY <1>3, <1>6, SameReading
  <2> QED
    BY <1>1, <1>4, <1>5, <2>1 DEF CountInv, ErrorInv
<1>10. LostInv'
  BY <1>1 DEF CountInv, LostInv
<1>11. EntryInv'
  BY <1>1, <1>3 DEF EntryInv, Counting, n
<1> QED
  BY <1>7, <1>8, <1>9, <1>10, <1>11

(* One line is the last one read, and those before it are the others.      *)
LEMMA LastLine ==
  ASSUME TypeInv, Counting
  PROVE  /\ Len(parsed) \in Lines
         /\ 1 .. Len(parsed) - 1 \in SUBSET Lines
         /\ Len(parsed) \notin 1 .. Len(parsed) - 1
         /\ 1 .. Len(parsed) = (1 .. Len(parsed) - 1) \cup {Len(parsed)}
<1>1. Len(parsed) \in Nat /\ Len(parsed) > 0 /\ Len(parsed) <= Len(Log)
  BY DEF TypeInv, TypeOK
<1> QED
  BY <1>1, LogLength DEF Lines

(* A line leaves the failures of ht_set or joins the counts.               *)
LEMMA IpCounts ==
  ASSUME CountInv, CountIpRequest
  PROVE  (IpInv /\ UrlInv /\ ErrorInv /\ LostInv /\ EntryInv)'
<1> DEFINE n == Len(parsed)
           before == 1 .. n - 1
<1>0. /\ main = "count_ip" /\ main' = "count_url"
      /\ UNCHANGED <<entry, parsed, url_visits, errors, urlLost>>
      /\ Bump(ip_requests, ipLost, entry.ip)
  BY DEF CountIpRequest
<1>1. /\ n \in Lines /\ before \in SUBSET Lines
      /\ n \notin before /\ 1 .. n = before \cup {n}
  BY <1>0, LastLine DEF CountInv, Counting
<1>2. PassedIp = before /\ PassedUrl = before /\ PassedAll = before
  BY <1>0 DEF PassedIp, PassedUrl, PassedAll, Passed
<1>3. PassedIp' = 1 .. n /\ PassedUrl' = before /\ PassedAll' = before
  BY <1>0 DEF PassedIp, PassedUrl, PassedAll, Passed
<1>4. entry = parsed[n]
  BY <1>0 DEF CountInv, EntryInv, Counting
<1> HIDE DEF n, before
<1>5. entry.ip \in Ips /\ ip_requests \in [Ips -> Nat] /\ allocFails \in Nat
  BY DEF CountInv, TypeInv, TypeOK, Entries
<1>6. /\ ipLost \subseteq before
      /\ \A k \in Ips : ip_requests[k] = Cardinality(IpLines(before \ ipLost, parsed, k))
  BY <1>2 DEF CountInv, IpInv
<1>7. CASE /\ ip_requests' = [ip_requests EXCEPT ![entry.ip] = @ + 1]
           /\ UNCHANGED <<ipLost, allocFails>>
  <2>1. before \ ipLost \in SUBSET Lines /\ n \notin before \ ipLost
    BY <1>1
  <2>2. 1 .. n \ ipLost = (before \ ipLost) \cup {n}
    BY <1>1, <1>6
  <2>3. \A k : Cardinality(IpLines(1 .. n \ ipLost, parsed, k)) =
                IF parsed[n].ip = k THEN Cardinality(IpLines(before \ ipLost, parsed, k)) + 1
                ELSE Cardinality(IpLines(before \ ipLost, parsed, k))
    BY <1>1, <2>1, <2>2, AddIpLine
  <2>4. \A k \in Ips : ip_requests'[k] = Cardinality(IpLines(1 .. n \ ipLost, parsed, k))
    BY <1>4, <1>5, <1>6, <1>7, <2>3
  <2>5. IpInv'
    BY <1>0, <1>1, <1>3, <1>6, <1>7, <2>4 DEF IpInv
  <2>6. LostInv'
    BY <1>0, <1>7 DEF CountInv, LostInv
  <2> QED
    BY <1>0, <1>2, <1>3, <2>5, <2>6
       DEF CountInv, UrlInv, ErrorInv, EntryInv, Counting
<1>8. CASE /\ allocFails' = allocFails + 1
           /\ ipLost' = ipLost \cup {n}
           /\ UNCHANGED ip_requests
  <2>1. 1 .. n \ ipLost' = before \ ipLost
    BY <1>1, <1>6, <1>8
  <2>2. IpInv'
    BY <1>0, <1>1, <1>3, <1>6, <1>8, <2>1 DEF IpInv
  <2>3. ipLost \in SUBSET Lines /\ n \notin ipLost
    BY <1>1, <1>6
  <2>4. Cardinality(ipLost) \in Nat /\ Cardinality(ipLost') = Cardinality(ipLost) + 1
    BY <1>1, <1>8, <2>3, AddLine
  <2>5. Cardinality(urlLost) \in Nat
    BY <1>1, <1>2, LinesFinite DEF CountInv, UrlInv
  <2>6. LostInv'
    BY <1>0, <1>5, <1>8, <2>4, <2>5 DEF CountInv, LostInv
  <2> QED
    BY <1>0, <1>2, <1>3, <2>2, <2>6
       DEF CountInv, UrlInv, ErrorInv, EntryInv, Counting
<1> QED
  BY <1>0, <1>7, <1>8 DEF Bump, n

LEMMA UrlCounts ==
  ASSUME CountInv, CountUrlVisits
  PROVE  (IpInv /\ UrlInv /\ ErrorInv /\ LostInv /\ EntryInv)'
<1> DEFINE n == Len(parsed)
           before == 1 .. n - 1
<1>0. /\ main = "count_url"
      /\ main' = IF IsError(entry.status) THEN "count_errors" ELSE "parse"
      /\ UNCHANGED <<entry, parsed, ip_requests, errors, ipLost>>
      /\ Bump(url_visits, urlLost, entry.url)
  BY DEF CountUrlVisits
<1>1. /\ n \in Lines /\ before \in SUBSET Lines
      /\ n \notin before /\ 1 .. n = before \cup {n}
  BY <1>0, LastLine DEF CountInv, Counting
<1>2. PassedIp = 1 .. n /\ PassedUrl = before /\ PassedAll = before
  BY <1>0 DEF PassedIp, PassedUrl, PassedAll, Passed
<1>3. /\ PassedIp' = 1 .. n /\ PassedUrl' = 1 .. n
      /\ PassedAll' = IF IsError(entry.status) THEN before ELSE 1 .. n
  BY <1>0 DEF PassedIp, PassedUrl, PassedAll, Passed
<1>4. entry = parsed[n]
  BY <1>0 DEF CountInv, EntryInv, Counting
<1> HIDE DEF n, before
<1>5. entry.url \in Urls /\ url_visits \in [Urls -> Nat] /\ allocFails \in Nat
  BY DEF CountInv, TypeInv, TypeOK, Entries
<1>6. /\ urlLost \subseteq before
      /\ \A k \in Urls : url_visits[k] = Cardinality(UrlLines(before \ urlLost, parsed, k))
  BY <1>2 DEF CountInv, UrlInv
<1>7. UrlInv' /\ LostInv'
  <2>1. CASE /\ url_visits' = [url_visits EXCEPT ![entry.url] = @ + 1]
             /\ UNCHANGED <<urlLost, allocFails>>
    <3>1. before \ urlLost \in SUBSET Lines /\ n \notin before \ urlLost
      BY <1>1
    <3>2. 1 .. n \ urlLost = (before \ urlLost) \cup {n}
      BY <1>1, <1>6
    <3>3. \A k : Cardinality(UrlLines(1 .. n \ urlLost, parsed, k)) =
                  IF parsed[n].url = k THEN Cardinality(UrlLines(before \ urlLost, parsed, k)) + 1
                  ELSE Cardinality(UrlLines(before \ urlLost, parsed, k))
      BY <1>1, <3>1, <3>2, AddUrlLine
    <3>4. \A k \in Urls : url_visits'[k] = Cardinality(UrlLines(1 .. n \ urlLost, parsed, k))
      BY <1>4, <1>5, <1>6, <2>1, <3>3
    <3>5. UrlInv'
      BY <1>0, <1>1, <1>3, <1>6, <2>1, <3>4 DEF UrlInv
    <3>6. LostInv'
      BY <1>0, <2>1 DEF CountInv, LostInv
    <3> QED
      BY <3>5, <3>6
  <2>2. CASE /\ allocFails' = allocFails + 1
             /\ urlLost' = urlLost \cup {n}
             /\ UNCHANGED url_visits
    <3>1. 1 .. n \ urlLost' = before \ urlLost
      BY <1>1, <1>6, <2>2
    <3>2. UrlInv'
      BY <1>0, <1>1, <1>3, <1>6, <2>2, <3>1 DEF UrlInv
    <3>3. urlLost \in SUBSET Lines /\ n \notin urlLost
      BY <1>1, <1>6
    <3>4. Cardinality(urlLost) \in Nat /\ Cardinality(urlLost') = Cardinality(urlLost) + 1
      BY <1>1, <2>2, <3>3, AddLine
    <3>5. Cardinality(ipLost) \in Nat
      BY <1>1, <1>2, LinesFinite DEF CountInv, IpInv
    <3>6. LostInv'
      BY <1>0, <1>5, <2>2, <3>4, <3>5 DEF CountInv, LostInv
    <3> QED
      BY <3>2, <3>6
  <2> QED
    BY <1>0, <2>1, <2>2 DEF Bump, n
<1>8. IpInv'
  BY <1>0, <1>2, <1>3 DEF CountInv, IpInv
<1>9. ErrorInv'
  <2>1. CASE IsError(entry.status)
    BY <1>0, <1>2, <1>3, <2>1 DEF CountInv, ErrorInv
  <2>2. CASE ~IsError(entry.status)
    <3>1. ErrorLines(1 .. n, parsed) = ErrorLines(before, parsed)
      BY <1>1, <1>4, <2>2 DEF ErrorLines
    <3> QED
      BY <1>0, <1>2, <1>3, <2>2, <3>1 DEF CountInv, ErrorInv
  <2> QED
    BY <2>1, <2>2
<1>10. EntryInv'
  <2>1. CASE IsError(entry.status)
    BY <1>0, <1>4, <2>1 DEF EntryInv, Counting, n
  <2>2. CASE ~IsError(entry.status)
    BY <1>0, <2>2 DEF EntryInv, Counting
  <2> QED
    BY <2>1, <2>2
<1> QED
  BY <1>7, <1>8, <1>9, <1>10

LEMMA ErrorCounts ==
  ASSUME CountInv, CountErrors
  PROVE  (IpInv /\ UrlInv /\ ErrorInv /\ LostInv /\ EntryInv)'
<1> DEFINE n == Len(parsed)
           before == 1 .. n - 1
<1>0. /\ main = "count_errors" /\ main' = "parse"
      /\ errors' = (errors + 1) % UINT16_RANGE
      /\ UNCHANGED <<entry, parsed, ip_requests, url_visits, ipLost, urlLost, allocFails>>
  BY DEF CountErrors, lost, bounds
<1>1. /\ n \in Lines /\ before \in SUBSET Lines
      /\ n \notin before /\ 1 .. n = before \cup {n}
  BY <1>0, LastLine DEF CountInv, Counting
<1>2. PassedIp = 1 .. n /\ PassedUrl = 1 .. n /\ PassedAll = before
  BY <1>0 DEF PassedIp, PassedUrl, PassedAll, Passed
<1>3. PassedIp' = 1 .. n /\ PassedUrl' = 1 .. n /\ PassedAll' = 1 .. n
  BY <1>0 DEF PassedIp, PassedUrl, PassedAll, Passed
<1>4. IsError(parsed[n].status)
  BY <1>0 DEF CountInv, EntryInv, Counting
<1> HIDE DEF n, before
<1>5. /\ Cardinality(ErrorLines(before, parsed)) \in Nat
      /\ Cardinality(ErrorLines(1 .. n, parsed)) = Cardinality(ErrorLines(before, parsed)) + 1
  <2>1. /\ Cardinality(ErrorLines(before, parsed)) \in Nat
        /\ Cardinality(ErrorLines(before \cup {n}, parsed))
             = Cardinality(ErrorLines(before, parsed)) + 1
    BY <1>1, <1>4, AddErrorLine, ZenonT(20)
  <2> QED
    BY <1>1, <2>1
<1>6. errors' = Cardinality(ErrorLines(1 .. n, parsed)) % UINT16_RANGE
  <2>1. errors = Cardinality(ErrorLines(before, parsed)) % UINT16_RANGE
    BY <1>2 DEF CountInv, ErrorInv
  <2> QED
    BY <1>0, <1>5, <2>1, WrappedIncrement
<1>7. ErrorInv'
  BY <1>0, <1>3, <1>6 DEF ErrorInv
<1>8. IpInv' /\ UrlInv' /\ LostInv'
  BY <1>0, <1>2, <1>3 DEF CountInv, IpInv, UrlInv, LostInv
<1>9. EntryInv'
  BY <1>0 DEF EntryInv, Counting
<1> QED
  BY <1>7, <1>8, <1>9

(* Nothing is counted outside the loop.                                    *)
LEMMA QuietCounts ==
  ASSUME CountInv, ~Counting, ~Counting',
         UNCHANGED <<parsed, tables, lost, allocFails>>,
         main' = "report" => Len(parsed) = Len(Log) \/ readFailed'
  PROVE  (IpInv /\ UrlInv /\ ErrorInv /\ LostInv /\ EntryInv)'
<1>1. PassedIp' = PassedIp /\ PassedUrl' = PassedUrl /\ PassedAll' = PassedAll
  BY DEF PassedIp, PassedUrl, PassedAll, Passed, Counting
<1> QED
  BY <1>1 DEF CountInv, IpInv, UrlInv, ErrorInv, LostInv, EntryInv, Counting, tables, lost

LEMMA CountStep == CountInv /\ [Next]_vars => CountInv'
<1>0. SUFFICES ASSUME CountInv, [Next]_vars
               PROVE  (IpInv /\ UrlInv /\ ErrorInv /\ LostInv /\ EntryInv)'
  BY TypeStep DEF CountInv
<1>1. CASE Boot
  BY <1>0, <1>1, QuietCounts DEF Boot, Counting
<1>2. CASE ParseLogEntry
  <2>1. CASE Len(parsed) < Len(Log) /\ main' = "count_ip"
    BY <1>0, <1>2, <2>1, ParseCounts
  <2>2. CASE main' = "report"
    <3>1. Len(parsed) = Len(Log) \/ readFailed'
      <4>1. Len(parsed) < Len(Log) => readFailed' \in {TRUE}
        BY <1>2, <2>2 DEF ParseLogEntry
      <4>2. Len(parsed) < Len(Log) => readFailed'
        BY <4>1, Zenon
      <4>3. Len(parsed) \in Nat /\ Len(parsed) <= Len(Log)
        BY <1>0 DEF CountInv, TypeInv, TypeOK
      <4> QED
        BY <4>2, <4>3, LogLength
    <3> QED
      BY <1>0, <1>2, <2>2, <3>1, QuietCounts DEF ParseLogEntry, Counting, bounds
  <2> QED
    BY <1>2, <2>1, <2>2 DEF ParseLogEntry
<1>3. CASE CountIpRequest
  BY <1>0, <1>3, IpCounts
<1>4. CASE CountUrlVisits
  BY <1>0, <1>4, UrlCounts
<1>5. CASE CountErrors
  BY <1>0, <1>5, ErrorCounts
<1>6. CASE Report \/ Kill
  BY <1>6, EndsEmpty DEF Report, Kill
<1>7. CASE UNCHANGED vars
  <2>1. PassedIp' = PassedIp /\ PassedUrl' = PassedUrl /\ PassedAll' = PassedAll
    BY <1>7 DEF vars, PassedIp, PassedUrl, PassedAll, Passed
  <2> QED
    BY <1>0, <1>7, <2>1
       DEF vars, tables, lost, bounds, CountInv, IpInv, UrlInv, ErrorInv, LostInv,
           EntryInv, Counting
<1> QED
  BY <1>0, <1>1, <1>2, <1>3, <1>4, <1>5, <1>6, <1>7 DEF Next, Step, Stopped

LEMMA CountAlways == Spec => []CountInv
BY CountInit, CountStep, PTL DEF Spec

(* At the head of the loop the counts are those of the lines read, less    *)
(* one line for each failure of ht_set (log_processor.c:74-164).           *)
THEOREM Counts == Spec => []CountsAreOfLinesRead
<1>1. CountInv => CountsAreOfLinesRead
  BY DEF CountInv, IpInv, UrlInv, ErrorInv, LostInv, CountsAreOfLinesRead,
         PassedIp, PassedUrl, PassedAll, Passed, LinesRead
<1> QED
  BY <1>1, CountAlways, PTL

-----------------------------------------------------------------------------
(* The figures                                                             *)

LEMMA NobodyLost ==
  ASSUME CountInv, allocFails = 0
  PROVE  ipLost = {} /\ urlLost = {}
<1>1. ipLost \in SUBSET Lines /\ urlLost \in SUBSET Lines
  BY LogLength DEF CountInv, TypeInv, TypeOK, LinesRead, Lines
<1>2. /\ IsFiniteSet(ipLost) /\ Cardinality(ipLost) \in Nat
      /\ IsFiniteSet(urlLost) /\ Cardinality(urlLost) \in Nat
  BY <1>1, LinesFinite
<1>3. Cardinality(ipLost) = 0 /\ Cardinality(urlLost) = 0
  BY <1>2 DEF CountInv, LostInv
<1> QED
  BY <1>2, <1>3, FS_EmptySet

LEMMA ReportExact ==
  ASSUME CountInv, Report, allocFails = 0
  PROVE  IsExact(report', LinesRead, parsed)
<1>1. main = "report"
  BY DEF Report
<1>2. /\ \A k \in Ips : ip_requests[k] = Cardinality(IpLines(LinesRead, parsed, k))
      /\ \A k \in Urls : url_visits[k] = Cardinality(UrlLines(LinesRead, parsed, k))
      /\ errors = Cardinality(ErrorLines(LinesRead, parsed)) % UINT16_RANGE
  <2>1. PassedIp = LinesRead /\ PassedUrl = LinesRead /\ PassedAll = LinesRead
    BY <1>1 DEF PassedIp, PassedUrl, PassedAll, Passed, LinesRead
  <2>2. LinesRead \ {} = LinesRead
    OBVIOUS
  <2> QED
    BY <2>1, <2>2, NobodyLost DEF CountInv, IpInv, UrlInv, ErrorInv
<1>3. PICK u \in MostVisited :
        report' = [ips    |-> Cardinality({k \in Ips : ip_requests[k] # 0}),
                   url    |-> u,
                   best   |-> url_visits[u],
                   errors |-> errors]
  BY DEF Report
<1>4. {k \in Ips : ip_requests[k] # 0} = {k \in Ips : IpLines(LinesRead, parsed, k) # {}}
  <2> SUFFICES ASSUME NEW k \in Ips
               PROVE  ip_requests[k] # 0 <=> IpLines(LinesRead, parsed, k) # {}
    OBVIOUS
  <2>1. IpLines(LinesRead, parsed, k) \in SUBSET Lines
    BY LogLength DEF IpLines, CountInv, TypeInv, TypeOK, LinesRead, Lines
  <2>2. IsFiniteSet(IpLines(LinesRead, parsed, k))
    BY <2>1, LinesFinite
  <2> QED
    BY <1>2, <2>2, FS_EmptySet
<1>5. u \in Urls /\ \A k \in Urls : url_visits[k] <= url_visits[u]
  BY DEF MostVisited
<1> QED
  BY <1>2, <1>3, <1>4, <1>5 DEF IsExact

LEMMA ReportStep ==
  CountInv /\ [Next]_vars =>
    (report' \notin {report, NoReport} => Report)
BY DEF Next, Step, Stopped, Boot, ParseLogEntry, CountIpRequest, CountUrlVisits,
       CountErrors, Kill, vars

(* What a run prints is true of the lines it has read, of cut and blank    *)
(* ones as sscanf reads them, unless memory failed; and these are all the  *)
(* lines of the log, unless a failed fgets was taken for its end           *)
(* (log_processor.c:39, main.c:136-148).                                   *)
THEOREM Reporting == Spec => ReportIsOfLinesRead
<1>1. ASSUME CountInv, [Next]_vars, report' \notin {report, NoReport}
      PROVE  /\ Len(parsed) = Len(Log) \/ readFailed
             /\ allocFails = 0 => IsExact(report', LinesRead, parsed)
  <2>1. Report
    BY <1>1, ReportStep
  <2>2. Len(parsed) = Len(Log) \/ readFailed
    BY <1>1, <2>1 DEF Report, CountInv, EntryInv
  <2> QED
    BY <1>1, <2>1, <2>2, ReportExact
<1>2. CountInv /\ [Next]_vars =>
        [report' \notin {report, NoReport} =>
           /\ Len(parsed) = Len(Log) \/ readFailed
           /\ allocFails = 0 => IsExact(report', LinesRead, parsed)]_vars
  BY <1>1
<1> QED
  BY <1>2, CountAlways, PTL DEF Spec, ReportIsOfLinesRead
=============================================================================
