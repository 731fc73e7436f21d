---------------------------- MODULE JobLifecycle ----------------------------
(***************************************************************************)
(* What the per-host scripts written by NativeCompressBackend do when the  *)
(* execution collaborator runs them on one host                           *)
(* (src/flagscale/runner/backend/backend_native_compress.py).              *)
(*                                                                         *)
(*   run script   : `nohup bash -c "$cmd; sync" >> out & echo $! > pid`    *)
(*                  (background), `bash -c "$cmd; sync" >> out` (fore-    *)
(*                  ground) or `bash -c "$cmd; sync"` (with_test)          *)
(*   stop script  : `if [ -f pid ]; then pid=$(cat pid); pkill -P $pid;   *)
(*                   else pkill -f 'python'; fi`                           *)
(*                                                                         *)
(* The processes of the host are a function from pids to records.  A job   *)
(* is one execution of the run script: its `bash -c` supervising shell and *)
(* the workload (python) the shell forks.  Unrelated python processes of   *)
(* other users ("foreign") come and go, and the OS may hand a freed pid to *)
(* a new process when PidReuse is TRUE.                                    *)
(***************************************************************************)
EXTENDS Naturals, FiniteSets

CONSTANTS
    Pid,            \* the pids the host can allocate
    NoPid,          \* model value: no process / file absent / parent is init
    Empty,          \* model value: pid file truncated by `>` but not yet written
    Modes,          \* run-script modes the generator is called with
    MaxRuns,        \* bound on run-script executions
    MaxStops,       \* bound on stop-script executions
    PidReuse,       \* may the OS give a freed pid to a new process?
    MaxReboots,     \* bound on reboots of the host
    OperatorWaits,  \* commands do not overlap, and a stop waits for the workload to start
    SequentialJobs  \* run only when no process of an earlier job is alive

ASSUME Modes \subseteq {"background", "foreground", "test"} /\ Modes # {}
ASSUME MaxRuns \in Nat /\ MaxStops \in Nat /\ MaxReboots \in Nat
ASSUME PidReuse \in BOOLEAN /\ OperatorWaits \in BOOLEAN /\ SequentialJobs \in BOOLEAN

VARIABLES
    runScript,   \* NoPid before generation, else the mode it was generated with
    stopScript,  \* has the stop script been generated?
    proc,        \* [Pid -> Free \cup ProcRec]: the process table of the host
    used,        \* pids ever allocated (forbids reuse when ~PidReuse)
    pidFile,     \* host_<rank>_<host>.pid: NoPid (absent), Empty, or a pid
    runner,      \* the run script being executed
    stopper,     \* the stop script being executed
    runs,        \* run-script executions started (also the id of the last job)
    stops,       \* stop-script executions started
    lastOp,      \* "none", "run" (a run script started) or "stop" (a stop script finished)
    reboots      \* reboots of the host so far

vars == <<runScript, stopScript, proc, used, pidFile, runner, stopper, runs, stops, lastOp,
          reboots>>

Free == [kind |-> "free"]
Jobs == 1..MaxRuns
\* A live process: a job's supervising shell (with its program counter), the
\* job's workload, or a foreign python process (job 0).
ProcRec ==
    [kind: {"shell"}, pc: {"start", "wait", "sync"}, parent: {NoPid}, job: Jobs]
    \cup [kind: {"workload"}, parent: Pid \cup {NoPid}, job: Jobs]
    \cup [kind: {"foreign"}, parent: Pid \cup {NoPid}, job: {0}]

Live == {p \in Pid : proc[p] # Free}
IsShell(p) == p \in Pid /\ proc[p] # Free /\ proc[p].kind = "shell"
IsWorkload(p) == proc[p] # Free /\ proc[p].kind = "workload"
IsForeign(p) == proc[p] # Free /\ proc[p].kind = "foreign"
ChildrenOf(p) == {c \in Live : proc[c].parent = p}
\* Everything `pkill -f 'python'` matches: the workload, the shell whose
\* command line is `bash -c "python ...; sync"`, and foreign python processes.
PythonProcs == Live
\* The pids the OS may give to a new process.
FreshPids == {p \in Pid : proc[p] = Free /\ (PidReuse \/ p \notin used)}

\* The host after SIGTERM kills the processes in S: their pids are freed,
\* their children are re-parented to init, and a shell whose workload died
\* goes on to run `sync`.
AfterKill(S) ==
    [p \in Pid |->
        IF p \in S THEN Free
        ELSE IF proc[p] = Free THEN Free
        ELSE IF proc[p].kind = "shell" /\ proc[p].pc = "wait"
                /\ \A c \in ChildrenOf(p) : c \in S
             THEN [proc[p] EXCEPT !.pc = "sync"]
        ELSE IF proc[p].parent \in S THEN [proc[p] EXCEPT !.parent = NoPid]
        ELSE proc[p]]

Init ==
    /\ runScript = NoPid
    /\ stopScript = FALSE
    /\ proc = [p \in Pid |-> Free]
    /\ used = {}
    /\ pidFile = NoPid
    /\ runner = [pc |-> "idle", shell |-> NoPid, mode |-> NoPid]
    /\ stopper = [pc |-> "idle", target |-> NoPid]
    /\ runs = 0
    /\ stops = 0
    /\ lastOp = "none"
    /\ reboots = 0

(***************************************************************************)
(* generate_run_script / generate_stop_script: the file is written,        *)
(* fsync'ed and chmod'ed before the call returns, replacing any older one. *)
(***************************************************************************)
GenerateRunScript(m) ==
    /\ runScript' = m
    /\ UNCHANGED <<reboots, stopScript, proc, used, pidFile, runner, stopper, runs, stops, lastOp>>

GenerateStopScript ==
    /\ stopScript' = TRUE
    /\ UNCHANGED <<reboots, runScript, proc, used, pidFile, runner, stopper, runs, stops, lastOp>>

(***************************************************************************)
(* The run script.  `bash -c "$cmd; sync"` is forked first; in background  *)
(* mode the script then truncates the pid file and writes $! into it; in   *)
(* the other modes it waits for the shell.  A new job starts only from an  *)
(* idle runner, at the operator's will.                                    *)
(***************************************************************************)
\* Mutant: `nohup $cmd &` without the `bash -c` wrapper, so $! is the
\* workload itself.
RunnerSpawnUnwrapped ==
    /\ runScript # NoPid
    /\ runner.pc = "idle"
    /\ runs < MaxRuns
    /\ \E s \in FreshPids :
        /\ proc' = [proc EXCEPT ![s] = [kind |-> "workload", parent |-> NoPid, job |-> runs + 1]]
        /\ used' = used \cup {s}
        /\ runner' = [pc |-> IF runScript = "background" THEN "spawned" ELSE "waiting",
                      shell |-> s, mode |-> runScript]
    /\ runs' = runs + 1
    /\ lastOp' = "run"
    /\ UNCHANGED <<reboots, runScript, stopScript, pidFile, stopper, stops>>

RunnerSpawn ==
    /\ runScript # NoPid
    /\ runner.pc = "idle"
    /\ runs < MaxRuns
    /\ OperatorWaits => stopper.pc = "idle"
    /\ SequentialJobs => \A p \in Live : proc[p].job = 0
    /\ \E s \in FreshPids :
        /\ proc' = [proc EXCEPT ![s] = [kind |-> "shell", pc |-> "start",
                                        parent |-> NoPid, job |-> runs + 1]]
        /\ used' = used \cup {s}
        /\ runner' = [pc |-> IF runScript = "background" THEN "spawned" ELSE "waiting",
                      shell |-> s, mode |-> runScript]
    /\ runs' = runs + 1
    /\ lastOp' = "run"
    /\ UNCHANGED <<reboots, runScript, stopScript, pidFile, stopper, stops>>

\* `> pid` opens the file with O_TRUNC ...
RunnerTruncatePidFile ==
    /\ runner.pc = "spawned"
    /\ pidFile' = Empty
    /\ runner' = [runner EXCEPT !.pc = "truncated"]
    /\ UNCHANGED <<reboots, runScript, stopScript, proc, used, stopper, runs, stops, lastOp>>

\* ... and `echo $!` writes the shell's pid; the run script then exits.
RunnerWritePid ==
    /\ runner.pc = "truncated"
    /\ pidFile' = runner.shell
    /\ runner' = [pc |-> "idle", shell |-> NoPid, mode |-> NoPid]
    /\ UNCHANGED <<reboots, runScript, stopScript, proc, used, stopper, runs, stops, lastOp>>

\* Foreground and with_test: the script returns when its shell has exited.
RunnerReturn ==
    /\ runner.pc = "waiting"
    /\ ~(IsShell(runner.shell) /\ proc[runner.shell].job = runs)
    /\ runner' = [pc |-> "idle", shell |-> NoPid, mode |-> NoPid]
    /\ UNCHANGED <<reboots, runScript, stopScript, proc, used, pidFile, stopper, runs, stops, lastOp>>

(***************************************************************************)
(* The supervising shell `bash -c "$cmd; sync"` and its workload.          *)
(***************************************************************************)
ShellForkWorkload(s) ==
    /\ IsShell(s) /\ proc[s].pc = "start"
    /\ \E w \in FreshPids :
        /\ proc' = [proc EXCEPT ![s].pc = "wait",
                                ![w] = [kind |-> "workload", parent |-> s, job |-> proc[s].job]]
        /\ used' = used \cup {w}
    /\ UNCHANGED <<reboots, runScript, stopScript, pidFile, runner, stopper, runs, stops, lastOp>>

\* The workload finishes or crashes on its own.
WorkloadExit(w) ==
    /\ IsWorkload(w)
    /\ proc' = AfterKill({w})
    /\ UNCHANGED <<reboots, runScript, stopScript, used, pidFile, runner, stopper, runs, stops, lastOp>>

\* Mutant: `bash -c "$cmd & sync"`, the shell does not wait for $cmd.
ShellExitEarly(s) ==
    /\ IsShell(s) /\ proc[s].pc \in {"wait", "sync"}
    /\ proc' = [p \in Pid |-> IF p = s THEN Free
                              ELSE IF proc[p] # Free /\ proc[p].parent = s
                                   THEN [proc[p] EXCEPT !.parent = NoPid]
                              ELSE proc[p]]
    /\ UNCHANGED <<reboots, runScript, stopScript, used, pidFile, runner, stopper, runs, stops, lastOp>>

\* After `$cmd` the shell runs `sync` and exits.
ShellExit(s) ==
    /\ IsShell(s) /\ proc[s].pc = "sync"
    /\ proc' = [proc EXCEPT ![s] = Free]
    /\ UNCHANGED <<reboots, runScript, stopScript, used, pidFile, runner, stopper, runs, stops, lastOp>>

(***************************************************************************)
(* The stop script.  `[ -f pid ]`, `cat pid` and `pkill` are three steps;  *)
(* the pid file can change and processes can come and go between them.    *)
(***************************************************************************)
StopCheckPidFile ==
    /\ stopScript
    /\ stopper.pc = "idle"
    /\ stops < MaxStops
    /\ OperatorWaits => /\ runner.pc \in {"idle", "waiting"}
                        /\ \A s \in Live : IsShell(s) => proc[s].pc # "start"
    /\ stops' = stops + 1
    /\ IF pidFile # NoPid
       THEN /\ stopper' = [stopper EXCEPT !.pc = "tested"]
            /\ UNCHANGED <<reboots, proc, lastOp>>
       ELSE \* fallback: `pkill -f 'python'`; the after_stop hook ends the script
            /\ proc' = AfterKill(PythonProcs)
            /\ lastOp' = "stop"
            /\ UNCHANGED stopper
    /\ UNCHANGED <<reboots, runScript, stopScript, used, pidFile, runner, runs>>

\* `pid=$(cat pid)`: an empty file yields the empty string.
StopReadPid ==
    /\ stopper.pc = "tested"
    /\ stopper' = [pc |-> "read", target |-> IF pidFile = NoPid THEN Empty ELSE pidFile]
    /\ UNCHANGED <<reboots, runScript, stopScript, proc, used, pidFile, runner, runs, stops, lastOp>>

\* Mutant: `kill $pid` signals the recorded pid instead of its children.
StopKillRecorded ==
    /\ stopper.pc = "read"
    /\ proc' = IF stopper.target \in Pid THEN AfterKill({stopper.target}) ELSE proc
    /\ stopper' = [pc |-> "idle", target |-> NoPid]
    /\ lastOp' = "stop"
    /\ UNCHANGED <<reboots, runScript, stopScript, used, pidFile, runner, runs, stops>>

\* `pkill -P $pid` signals the children of the recorded pid, not the pid
\* itself; `pkill -P` with an empty argument fails and signals nothing.
StopKillChildren ==
    /\ stopper.pc = "read"
    /\ proc' = IF stopper.target \in Pid THEN AfterKill(ChildrenOf(stopper.target)) ELSE proc
    /\ stopper' = [pc |-> "idle", target |-> NoPid]
    /\ lastOp' = "stop"
    /\ UNCHANGED <<reboots, runScript, stopScript, used, pidFile, runner, runs, stops>>

(***************************************************************************)
(* Unrelated python processes of the host.                                 *)
(***************************************************************************)
ForeignStart ==
    /\ \E p \in FreshPids, parent \in {NoPid} \cup {q \in Live : IsForeign(q)} :
        /\ proc' = [proc EXCEPT ![p] = [kind |-> "foreign", parent |-> parent, job |-> 0]]
        /\ used' = used \cup {p}
    /\ UNCHANGED <<reboots, runScript, stopScript, pidFile, runner, stopper, runs, stops, lastOp>>

ForeignExit(p) ==
    /\ IsForeign(p)
    /\ proc' = AfterKill({p})
    /\ UNCHANGED <<reboots, runScript, stopScript, used, pidFile, runner, stopper, runs, stops, lastOp>>

(***************************************************************************)
(* The host reboots.  Every process dies and the new boot allocates pids   *)
(* afresh; the files on disk (both scripts and the pid file, written, or   *)
(* truncated by `> pid` and not yet written) stay as they were.            *)
(***************************************************************************)
Reboot ==
    /\ reboots < MaxReboots
    /\ reboots' = reboots + 1
    /\ proc' = [p \in Pid |-> Free]
    /\ used' = {}
    /\ runner' = [pc |-> "idle", shell |-> NoPid, mode |-> NoPid]
    /\ stopper' = [pc |-> "idle", target |-> NoPid]
    /\ UNCHANGED <<runScript, stopScript, pidFile, runs, stops, lastOp>>

Next ==
    \/ \E m \in Modes : GenerateRunScript(m)
    \/ GenerateStopScript
    \/ RunnerSpawn \/ RunnerTruncatePidFile \/ RunnerWritePid \/ RunnerReturn
    \/ \E p \in Pid : ShellForkWorkload(p) \/ WorkloadExit(p) \/ ShellExit(p) \/ ForeignExit(p)
    \/ StopCheckPidFile \/ StopReadPid \/ StopKillChildren
    \/ ForeignStart
    \/ Reboot

\* The shells, the started scripts and the OS make progress; the operator,
\* the workload and foreign processes need not.
Fairness ==
    /\ WF_vars(RunnerTruncatePidFile) /\ WF_vars(RunnerWritePid) /\ WF_vars(RunnerReturn)
    /\ \A p \in Pid : WF_vars(ShellForkWorkload(p)) /\ WF_vars(ShellExit(p))
    /\ WF_vars(StopReadPid) /\ WF_vars(StopKillChildren)

Spec == Init /\ [][Next]_vars /\ Fairness

-----------------------------------------------------------------------------
TypeOK ==
    /\ runScript \in Modes \cup {NoPid}
    /\ stopScript \in BOOLEAN
    /\ proc \in [Pid -> {Free} \cup ProcRec]
    /\ used \subseteq Pid
    /\ pidFile \in Pid \cup {NoPid, Empty}
    /\ runner \in [pc: {"idle", "spawned", "truncated", "waiting"},
                   shell: Pid \cup {NoPid}, mode: Modes \cup {NoPid}]
    /\ stopper \in [pc: {"idle", "tested", "read"}, target: Pid \cup {NoPid, Empty}]
    /\ runs \in 0..MaxRuns /\ stops \in 0..MaxStops
    /\ lastOp \in {"none", "run", "stop"}
    /\ reboots \in 0..MaxReboots

\* `pkill -P $pid` can only reach a workload through its parent: every live
\* workload is a child of the live supervising shell of its own job.  A kill
\* that took the shell but not the workload, or a shell that exits before
\* `$cmd` returns, would leave a workload no stop script can find.
NoOrphanWorkload ==
    \A w \in Live :
        IsWorkload(w) => /\ IsShell(proc[w].parent)
                         /\ proc[proc[w].parent].job = proc[w].job

\* A stop script that reads the pid of a shell whose workload is running
\* eventually leaves no process of that job alive: pkill -P ends the
\* workload, the shell runs `sync` and exits.
RecordedJobHalts ==
    \A j \in Jobs :
        (/\ stopper.pc = "read" /\ IsShell(stopper.target)
         /\ proc[stopper.target].job = j /\ proc[stopper.target].pc = "wait")
        ~> \A p \in Live : proc[p].job # j

\* Once a stop script has finished, and until the next run script starts,
\* no workload is running on the host (JobLifecycleState RUNNING -> STOPPED).
StopHaltsJob ==
    lastOp = "stop" => \A p \in Live : ~IsWorkload(p)

\* The pid-file branch of the stop script (`pkill -P $pid`) never kills an
\* unrelated process; only the documented `pkill -f 'python'` fallback may
\* (and a reboot, which ends every process).
PidBranchSparesForeign ==
    [][stopper.pc = "read" /\ stopper'.pc = "idle" /\ reboots' = reboots
        => \A p \in Pid : IsForeign(p) => proc'[p] # Free]_vars

=============================================================================
