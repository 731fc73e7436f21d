------------------------------- MODULE Launch -------------------------------
(***************************************************************************)
(* `flagscale compress` driving the compress backend.  Each process is a  *)
(* CLI invocation (CliDispatch) started in some working directory: it     *)
(* computes the action, resolves the config (resolve_config looks for     *)
(* <cwd>/examples/<model>/conf/compress.yaml unless --config is given),   *)
(* and run_task hands (config, action) to flagscale.run, which runs the   *)
(* backend in the same process and working directory (ArtifactLayout).    *)
(* The backend's end is the end of run_task: a normal return, or an       *)
(* exception when parse_hostfile raises.                                  *)
(***************************************************************************)
EXTENDS Naturals, Sequences, FiniteSets

CONSTANTS
    None, ExitCodes, Outcomes, Cmds, ToolCodes,             \* CliDispatch
    Machines, LocalHost, NoHostfile, Missing, Hostfiles,     \* ArtifactLayout
    Roots, Cwds, ExpDirs, LogDirs, MaxInvocations,
    ConfigDirs,     \* working directories holding examples/<model>/conf
    ConfigFlags,    \* whether --config is passed: subset of BOOLEAN
    MaxProcesses,   \* flagscale processes started (a bound of the model)
    MaxIoErrors     \* failed script writes (a bound of the fault model)

\* Each process invokes the backend at most once, so the backend's
\* invocation bound never stops a started process half way.
ASSUME /\ ConfigDirs \subseteq Cwds /\ ConfigFlags \subseteq BOOLEAN
       /\ MaxProcesses <= MaxInvocations

VARIABLES
    cmd, flags, phase, action, handedOff, ended, exit, toolRc, ckpt, image,
    hostfile, noShared, expCfg, logCfg, pc, bcmd, layout, pool, todo,
    scripts, invs,
    cwd,        \* working directory of the current process
    explicit,   \* the current process passed --config
    procs,      \* flagscale processes started
    ioErrors    \* script writes that failed so far

cliVars == <<cmd, flags, phase, action, handedOff, ended, exit, toolRc, ckpt, image>>
layoutVars == <<hostfile, noShared, expCfg, logCfg, pc, bcmd, layout, pool, todo,
                scripts, invs>>
vars == <<cliVars, layoutVars, cwd, explicit, procs, ioErrors>>

Cli == INSTANCE CliDispatch
Layout == INSTANCE ArtifactLayout WITH cmd <- bcmd

\* resolve_config: an explicit --config path (taken to exist), or the
\* example config under the working directory.
ConfigFound(d, x) == x \/ d \in ConfigDirs

\* How flagscale.run ends for run_task.
Returned == [kind |-> "return", code |-> None]
Raised == [kind |-> "config_error", code |-> None]

Init ==
    /\ Cli!Init
    /\ Layout!Init
    /\ cwd \in Cwds
    /\ explicit = FALSE
    /\ procs = 0
    /\ ioErrors = 0

\* `flagscale compress <model> [--stop] [--config ...]` started in d.
Start(fs, d, x) ==
    /\ procs < MaxProcesses
    /\ Cli!InvokeTask("compress", fs)
    /\ cwd' = d /\ explicit' = x /\ procs' = procs + 1
    /\ UNCHANGED <<layoutVars, ioErrors>>

Resolve ==
    /\ Cli!ResolveConfig(ConfigFound(cwd, explicit))
    /\ UNCHANGED <<layoutVars, cwd, explicit, procs, ioErrors>>

\* run_task calls flagscale.run, which builds the backend (_prepare); a
\* missing hostfile raises out of run_task.
Handoff ==
    /\ phase = "handoff"
    /\ Layout!Invoke(action, cwd)
    /\ IF hostfile = Missing THEN Cli!RunTask(Raised) ELSE UNCHANGED cliVars
    /\ UNCHANGED <<cwd, explicit, procs, ioErrors>>

GenerateRun(i) ==
    /\ Layout!GenerateRunScript(i)
    /\ UNCHANGED <<cliVars, cwd, explicit, procs, ioErrors>>

GenerateStop(i) ==
    /\ Layout!GenerateStopScript(i)
    /\ UNCHANGED <<cliVars, cwd, explicit, procs, ioErrors>>

\* Writing the script of entry i raises; the exception leaves flagscale.run
\* and run_task reports it as a config error.
GenerateError(i) ==
    /\ ioErrors < MaxIoErrors
    /\ Layout!GenerateFails(i)
    /\ Cli!RunTask(Raised)
    /\ ioErrors' = ioErrors + 1
    /\ UNCHANGED <<cwd, explicit, procs>>

\* The per-host loop ends and flagscale.run returns to run_task.
Return ==
    /\ Layout!Finish
    /\ Cli!RunTask(Returned)
    /\ UNCHANGED <<cwd, explicit, procs, ioErrors>>

\* Between two processes the operator may rewrite the hostfile: every
\* process parses it afresh in _prepare.
EditHostfile(h) ==
    /\ phase = "idle"
    /\ hostfile' = h
    /\ UNCHANGED <<cliVars, noShared, expCfg, logCfg, pc, bcmd, layout, pool,
                   todo, scripts, invs, cwd, explicit, procs, ioErrors>>

Restart ==
    /\ Cli!Restart
    /\ UNCHANGED <<layoutVars, cwd, explicit, procs, ioErrors>>

Next ==
    \/ \E fs \in {{}, {"stop"}}, d \in Cwds, x \in ConfigFlags : Start(fs, d, x)
    \/ Resolve
    \/ Handoff
    \/ \E i \in DOMAIN pool : GenerateRun(i)
    \/ \E i \in DOMAIN pool : GenerateStop(i)
    \/ \E i \in DOMAIN pool : GenerateError(i)
    \/ Return
    \/ Restart
    \/ \E h \in Hostfiles \cup {NoHostfile, Missing} : EditHostfile(h)

Spec == Init /\ [][Next]_vars

=============================================================================
