----------------------------- MODULE LogSingle -----------------------------
(***************************************************************************)
(* The log analyser as it is built by default (MULTITHREAD = 0): main runs *)
(* process_single_thread.  It uses no semaphores, so a killed run leaves   *)
(* nothing behind.                                                         *)
(***************************************************************************)
EXTENDS LogEntries

CONSTANTS
  MaxRuns,        \* bound: how often the program is started
  MaxAllocFails,  \* bound: failures of ht_set in a run
  NoReport       \* no figures were printed

ASSUME SingleAssumption ==
  /\ MaxRuns \in Nat
  /\ MaxAllocFails \in Nat
  /\ NoReport \notin Reports

VARIABLES
  main,          \* the function main is about to call; "off": no process
  entry,         \* the locals ip, url and status
  parsed,        \* the entry each line read was taken for; its length is the
                 \* position in the file
  ipLost,        \* history: lines whose IP ht_set had no memory for
  urlLost,       \* history: lines whose URL it had none for
  readFailed,    \* history: the loop ended because fgets failed
  ip_requests, url_visits, errors,
  report,        \* the figures printed by the last run
  runs, allocFails

tables == <<ip_requests, url_visits, errors>>
bounds == <<runs, allocFails>>
lost   == <<ipLost, urlLost>>
vars   == <<main, entry, parsed, tables, lost, readFailed, report, bounds>>

NoEntry == CHOOSE e \in Junk : TRUE   \* outside process_single_thread

Init ==
  /\ main = "off"
  /\ entry = NoEntry
  /\ parsed = <<>>
  /\ ipLost = {}
  /\ urlLost = {}
  /\ readFailed = FALSE
  /\ ip_requests = [k \in Ips |-> 0]
  /\ url_visits = [k \in Urls |-> 0]
  /\ errors = 0
  /\ report = NoReport
  /\ runs = 0
  /\ allocFails = 0

(* The process and its memory are gone.                                    *)
ProcessEnds ==
  /\ main' = "off"
  /\ entry' = NoEntry
  /\ parsed' = <<>>
  /\ ipLost' = {}
  /\ urlLost' = {}
  /\ readFailed' = FALSE
  /\ ip_requests' = [k \in Ips |-> 0]
  /\ url_visits' = [k \in Urls |-> 0]
  /\ errors' = 0
  /\ allocFails' = 0

(* main, up to the call of process_single_thread.                          *)
Boot ==
  /\ main = "off"
  /\ runs < MaxRuns
  /\ runs' = runs + 1
  /\ report' = NoReport
  /\ \/ main' = "parse" /\ entry' \in Junk
     \/ UNCHANGED <<main, entry>>             \* fopen failed
  /\ UNCHANGED <<parsed, tables, lost, readFailed, allocFails>>

(* fgets returns a line, or NULL: at the end of the file, or when it fails *)
(* to read it.                                                             *)
ParseLogEntry ==
  /\ main = "parse"
  /\ \/ /\ Len(parsed) < Len(Log)
        /\ entry' = Scan(Log[Len(parsed) + 1], entry)
        /\ parsed' = Append(parsed, entry')
        /\ main' = "count_ip"
        /\ UNCHANGED readFailed
     \/ /\ main' = "report"
        /\ readFailed' \in (IF Len(parsed) < Len(Log) THEN {TRUE} ELSE BOOLEAN)
        /\ UNCHANGED <<parsed, entry>>
  /\ UNCHANGED <<tables, lost, report, bounds>>

(* Mutant: the count is made even if ht_set reports a failure.             *)
BumpLate(table, missing, k) ==
  \/ table' = [table EXCEPT ![k] = @ + 1] /\ UNCHANGED <<missing, allocFails>>
  \/ /\ table[k] = 0
     /\ allocFails < MaxAllocFails
     /\ allocFails' = allocFails + 1
     /\ missing' = missing \cup {Len(parsed)}
     /\ table' = [table EXCEPT ![k] = 1]

(* The count of a known key goes up; a new key may find no memory, and the *)
(* caller of ht_set does not look: the line is then missing from the table.*)
Bump(table, missing, k) ==
  \/ table' = [table EXCEPT ![k] = @ + 1] /\ UNCHANGED <<missing, allocFails>>
  \/ /\ table[k] = 0
     /\ allocFails < MaxAllocFails
     /\ allocFails' = allocFails + 1
     /\ missing' = missing \cup {Len(parsed)}
     /\ UNCHANGED table

CountIpRequest ==
  /\ main = "count_ip"
  /\ Bump(ip_requests, ipLost, entry.ip)
  /\ main' = "count_url"
  /\ UNCHANGED <<entry, parsed, url_visits, errors, urlLost, readFailed, report, runs>>

(* Mutant: an error range that includes 600.                               *)
CountUrlVisitsTo600 ==
  /\ main = "count_url"
  /\ Bump(url_visits, urlLost, entry.url)
  /\ main' = IF entry.status \in 400 .. 600 THEN "count_errors" ELSE "parse"
  /\ UNCHANGED <<entry, parsed, ip_requests, errors, ipLost, readFailed, report, runs>>

CountUrlVisits ==
  /\ main = "count_url"
  /\ Bump(url_visits, urlLost, entry.url)
  /\ main' = IF IsError(entry.status) THEN "count_errors" ELSE "parse"
  /\ UNCHANGED <<entry, parsed, ip_requests, errors, ipLost, readFailed, report, runs>>

CountErrors ==
  /\ main = "count_errors"
  /\ errors' = (errors + 1) % UINT16_RANGE
  /\ main' = "parse"
  /\ UNCHANGED <<entry, parsed, ip_requests, url_visits, lost, readFailed, report, bounds>>

MostVisited ==
  {u \in Urls : \A k \in Urls : url_visits[k] <= url_visits[u]}

Report ==
  /\ main = "report"
  /\ \E u \in MostVisited :
       report' = [ips    |-> Cardinality({k \in Ips : ip_requests[k] # 0}),
                  url    |-> u,
                  best   |-> url_visits[u],
                  errors |-> errors]
  /\ ProcessEnds
  /\ UNCHANGED runs

Kill ==
  /\ main # "off"
  /\ ProcessEnds
  /\ UNCHANGED <<report, runs>>

Step ==
  \/ ParseLogEntry
  \/ CountIpRequest
  \/ CountUrlVisits
  \/ CountErrors
  \/ Report

Stopped == main = "off" /\ runs = MaxRuns /\ UNCHANGED vars

Next == Boot \/ Step \/ Kill \/ Stopped

Spec == Init /\ [][Next]_vars
-----------------------------------------------------------------------------
(* Properties                                                              *)

LinesRead == 1 .. Len(parsed)

(* TYPE.                                                                   *)
TypeOK ==
  /\ main \in {"off", "parse", "count_ip", "count_url", "count_errors", "report"}
  /\ entry \in Entries
  /\ parsed \in Seq(Entries) /\ Len(parsed) <= Len(Log)
  /\ ip_requests \in [Ips -> Nat]
  /\ url_visits \in [Urls -> Nat]
  /\ errors \in 0 .. UINT16_RANGE - 1
  /\ ipLost \subseteq LinesRead /\ urlLost \subseteq LinesRead
  /\ readFailed \in BOOLEAN
  /\ runs \in 0 .. MaxRuns
  /\ allocFails \in 0 .. MaxAllocFails

(* SAFETY.  At the head of the loop the counts are those of the lines      *)
(* read, each taken for what sscanf made of it over the line before, less  *)
(* the lines that met a failure of ht_set: one line, and no more, for each *)
(* failure.  The errors are exact, modulo their width.                     *)
CountsAreOfLinesRead ==
  main \in {"parse", "report"} =>
    /\ \A k \in Ips :
         ip_requests[k] = Cardinality(IpLines(LinesRead \ ipLost, parsed, k))
    /\ \A k \in Urls :
         url_visits[k] = Cardinality(UrlLines(LinesRead \ urlLost, parsed, k))
    /\ Cardinality(ipLost) + Cardinality(urlLost) = allocFails
    /\ errors = Cardinality(ErrorLines(LinesRead, parsed)) % UINT16_RANGE

(* ACTION.  Figures are printed after the last line of the file, or else   *)
(* after fgets has failed to read one; while memory lasts they are those   *)
(* of all the lines read before, the URL printed being one that no other   *)
(* exceeds (log_processor.c:39, main.c:141-144).                           *)
ReportIsOfLinesRead ==
  [][report' \notin {report, NoReport} =>
       /\ Len(parsed) = Len(Log) \/ readFailed
       /\ allocFails = 0 => IsExact(report', LinesRead, parsed)]_vars
=============================================================================
