----------------------------- MODULE Compilation -----------------------------
(***************************************************************************)
(* What a run of the compiler promises to the scripts that call it (they   *)
(* look at the exit status and hand the standard output on): a rejection   *)
(* is explained, an accepted program comes with its IR and without a word  *)
(* against it, and the compiler says nothing about the bodies of a program *)
(* that it has found an error in.                                          *)
(***************************************************************************)

VARIABLES
  status,   \* of the process: running, or how it ended
  stdout    \* the kinds of text on its standard output

About == {"remark", "complaint", "IR"}   \* said of the generated functions

Init == status = "running" /\ stdout = {}

Report ==
  /\ status = "running"
  /\ stdout \cap About = {}
  /\ stdout' = stdout \cup {"error"}
  /\ UNCHANGED status

Reject ==
  /\ status = "running"
  /\ "error" \in stdout
  /\ status' = "exit1"
  /\ UNCHANGED stdout

(* Text about the functions may come late, or with the exit.               *)
Generate ==
  /\ status = "running"
  /\ "error" \notin stdout
  /\ \E said \in SUBSET About : stdout' = stdout \cup said
  /\ status' \in {"running", "exit0"}
  /\ status' = "exit0" => "IR" \in stdout'

Abort ==
  /\ status = "running"
  /\ "IR" \notin stdout
  /\ status' = "abort"
  /\ UNCHANGED stdout

(* One step may both report the last error and exit.                       *)
ReportAndReject ==
  /\ status = "running"
  /\ stdout \cap About = {}
  /\ stdout' = stdout \cup {"error"}
  /\ status' = "exit1"

Next == Report \/ Reject \/ ReportAndReject \/ Generate \/ Abort

Spec == Init /\ [][Next]_<<status, stdout>>
=============================================================================
