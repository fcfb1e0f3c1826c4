----------------------------- MODULE LogEntries -----------------------------
(***************************************************************************)
(* The data of the web-log analyser (005Threads): the lines of the log,    *)
(* what sscanf makes of one of them, and the tallies of a set of lines.    *)
(*                                                                         *)
(* A log is the sequence of chunks that the fgets calls that succeed       *)
(* return, one after the other.  A chunk of which sscanf converts only the *)
(* first `fields' items (a blank line, a foreign line, the tail of a line  *)
(* longer than the 99 characters of `buffer', or what a failed fgets has   *)
(* left of one) leaves the other variables of the caller as they were.     *)
(***************************************************************************)
EXTENDS Integers, Sequences, FiniteSets

CONSTANTS
  Ips, Urls,     \* the strings that occur as IP and as URL
  Log,           \* the chunks of the log file, in file order
  Junk,          \* what the uninitialised locals ip, url, status may hold
  UINT16_RANGE   \* number of values of a uint16_t: 65536 in the program

Entries == [ip : Ips, url : Urls, status : Nat]

Chunks == [ip : Ips, url : Urls, status : Nat, fields : 0 .. 3]

ASSUME LogAssumption ==
  /\ IsFiniteSet(Ips)
  /\ IsFiniteSet(Urls)
  /\ Log \in Seq(Chunks)
  /\ Junk \subseteq Entries
  /\ Junk # {}
  /\ UINT16_RANGE \in Nat \ {0}

Lines == 1 .. Len(Log)

(* sscanf of one chunk over the previous contents of the three variables.  *)
Scan(chunk, old) ==
  [ip     |-> IF chunk.fields >= 1 THEN chunk.ip     ELSE old.ip,
   url    |-> IF chunk.fields >= 2 THEN chunk.url    ELSE old.url,
   status |-> IF chunk.fields >= 3 THEN chunk.status ELSE old.status]

(* The status test of process_log and process_single_thread.               *)
IsError(status) == status >= 400 /\ status < 600

(* Every chunk carries all three items.                                    *)
WellFormed == \A i \in Lines : Log[i].fields = 3

(* What the log says, line by line.                                        *)
Content == [i \in Lines |-> [ip     |-> Log[i].ip,
                             url    |-> Log[i].url,
                             status |-> Log[i].status]]

-----------------------------------------------------------------------------
(* Tallies of a set S of lines under a reading e of the lines.             *)

IpLines(S, e, k)  == {i \in S : e[i].ip = k}
UrlLines(S, e, k) == {i \in S : e[i].url = k}
ErrorLines(S, e)  == {i \in S : IsError(e[i].status)}

(* The figures that main prints: the number of IPs, the most visited URL   *)
(* with its count, and the number of errors.                               *)
Reports == [ips : Nat, url : Urls, best : Nat, errors : Nat]

(* They are those of the lines S under the reading e.                      *)
IsExact(r, S, e) ==
  /\ r.ips = Cardinality({k \in Ips : IpLines(S, e, k) # {}})
  /\ r.best = Cardinality(UrlLines(S, e, r.url))
  /\ \A k \in Urls : Cardinality(UrlLines(S, e, k)) <= r.best
  /\ r.errors = Cardinality(ErrorLines(S, e)) % UINT16_RANGE

(* The figures of the whole log, and those of its first lines.             *)
ExactReports  == {r \in Reports : IsExact(r, Lines, Content)}
PrefixReports == {r \in Reports : \E n \in 0 .. Len(Log) : IsExact(r, 1 .. n, Content)}
=============================================================================
