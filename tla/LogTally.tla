------------------------------ MODULE LogTally ------------------------------
(***************************************************************************)
(* What the log analyser promises, whatever threads it uses: a run either  *)
(* prints the exact figures of the log, in one step, or prints nothing.    *)
(* They are the figures of the whole log, unless reading has failed: then  *)
(* they may be those of its first lines, and nothing tells them apart.     *)
(***************************************************************************)
CONSTANTS
  Exact,     \* the reports that are true of the log
  Partial,   \* those that are true of its first lines, however many
  NoReport   \* no figures were printed

VARIABLES
  running,   \* is a run in progress?
  failed,    \* has the run failed to read a line?
  report     \* the figures printed by the last run

vars == <<running, failed, report>>

Init == running = FALSE /\ failed = FALSE /\ report = NoReport

(* A run begins, or fails to open the log file.                            *)
Begin ==
  /\ running = FALSE
  /\ running' \in BOOLEAN
  /\ report' = NoReport
  /\ UNCHANGED failed

ReadFails ==
  /\ running = TRUE
  /\ failed' = TRUE
  /\ UNCHANGED <<running, report>>

(* A run prints its figures and ends.                                      *)
Publish ==
  /\ running = TRUE
  /\ report' \in (IF failed THEN Partial ELSE Exact)
  /\ running' = FALSE /\ failed' = FALSE

(* A run ends without figures.                                             *)
Abort ==
  /\ running = TRUE
  /\ report' = NoReport
  /\ running' = FALSE /\ failed' = FALSE

Next == Begin \/ ReadFails \/ Publish \/ Abort

Spec == Init /\ [][Next]_vars
=============================================================================
