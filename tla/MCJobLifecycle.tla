--------------------------- MODULE MCJobLifecycle ---------------------------
(* Model-checking instance of JobLifecycle for one host.  Pid is a set of  *)
(* model values in the cfg: five pids fit two jobs (shell and workload     *)
(* each) and a foreign process without reuse; the liveness run uses four. *)
EXTENDS JobLifecycle, TLC

\* Pids are interchangeable: the OS may allocate any free one.
PidSymmetry == Permutations(Pid)

\* Refinement mapping onto the operator's view of the service: the host
\* runs a job while some live process is a workload, and the last command
\* is the one JobLifecycle records in lastOp.
Abs == INSTANCE AbstractJob WITH
    running <- \E p \in Live : IsWorkload(p),
    lastCmd <- lastOp

\* Under the one-job-at-a-time discipline, every step of the run and stop
\* scripts, the shells, workloads and foreign processes is a step of the
\* abstract job service: a workload only starts under a run command, and a
\* completed stop (pid branch or pkill fallback of generate_stop_script)
\* leaves no workload running.
AbsSpec == Abs!Spec
=============================================================================
