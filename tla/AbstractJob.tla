---------------------------- MODULE AbstractJob ----------------------------
(***************************************************************************)
(* What a host's job service promises to the operator, stated without    *)
(* processes, pid files or scripts.  spec.md section 3 names the job's    *)
(* states NOT_STARTED -> RUNNING -> STOPPED; here the service keeps only   *)
(* whether a workload is running on the host and which command the        *)
(* operator issued last.                                                  *)
(*                                                                         *)
(*   - a workload starts only while the last command is a run;            *)
(*   - a workload may finish on its own at any time;                      *)
(*   - a stop command takes effect atomically: when it completes, no      *)
(*     workload is running on the host.                                   *)
(*                                                                         *)
(* JobLifecycle is shown to implement this module by the refinement       *)
(* mapping in MCJobLifecycle.                                             *)
(***************************************************************************)

VARIABLES
    running,    \* a workload of the service is executing on the host
    lastCmd     \* "none", "run" or "stop": the operator's last command

vars == <<running, lastCmd>>

TypeOK ==
    /\ running \in BOOLEAN
    /\ lastCmd \in {"none", "run", "stop"}

Init ==
    /\ running = FALSE
    /\ lastCmd = "none"

\* The operator issues a run; nothing executes yet.
IssueRun ==
    /\ lastCmd' = "run"
    /\ UNCHANGED running

\* The workload of the last run begins executing.
Start ==
    /\ lastCmd = "run"
    /\ ~running
    /\ running' = TRUE
    /\ UNCHANGED lastCmd

\* The workload ends by itself.
Finish ==
    /\ running
    /\ running' = FALSE
    /\ UNCHANGED lastCmd

\* A stop completes: whatever ran is gone.
Stop ==
    /\ lastCmd' = "stop"
    /\ running' = FALSE

Next == IssueRun \/ Start \/ Finish \/ Stop

Spec == Init /\ [][Next]_vars

=============================================================================
