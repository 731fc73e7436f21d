---------------------------- MODULE CliDispatch ----------------------------
(***************************************************************************)
(* One invocation of the `flagscale` command line (src/flagscale/cli.py):  *)
(* the intent flags of a task command become an action, the config is      *)
(* resolved, and run_task hands (config, action) to flagscale.run, whose   *)
(* end (return, SystemExit or exception) becomes the process exit code.    *)
(* Each invocation is a fresh process: Restart begins the next one.        *)
(***************************************************************************)
EXTENDS Integers, FiniteSets, Sequences

CONSTANTS
    None,        \* model value: no exit yet / nothing handed off / exit code None
    ExitCodes,   \* non-zero exit codes flagscale.run may end with
    Outcomes,    \* how flagscale.run may end: subset of OutcomeKinds
    Cmds,        \* the task commands invoked in this model
    ToolCodes    \* return codes of install.sh / run_tests.sh (negative: signal)

TaskCommands == {"train", "serve", "inference", "rl", "compress"}
Commands == TaskCommands \cup {"run"}
Actions == {"run", "dryrun", "test", "stop", "query", "auto_tune"}
\* The intent flags each command declares, named by the action they select.
CmdFlags == [train |-> {"stop", "dryrun", "test", "query", "auto_tune"},
             serve |-> {"stop", "test", "auto_tune"},
             inference |-> {"stop", "dryrun", "test"},
             rl |-> {"stop", "dryrun", "test"},
             compress |-> {"stop", "dryrun"},
             run |-> {}]
\* flagscale.run returns, calls sys.exit(code) (code None, 0 or non-zero),
\* or raises an exception; "exec_error" is an exception that carries the
\* non-zero exit status of a handed-off script.
OutcomeKinds == {"return", "exit_none", "exit_0", "exit_code", "config_error", "exec_error"}

ASSUME ExitCodes \subseteq Nat \ {0} /\ ExitCodes # {}
ASSUME Outcomes \subseteq OutcomeKinds /\ Outcomes # {}
ASSUME Cmds \subseteq TaskCommands
ASSUME ToolCodes \subseteq Int
ToolCommands == {"install", "test"}

VARIABLES
    cmd,        \* the command being run
    flags,      \* the intent flags set on its command line
    phase,      \* "idle", "resolving", "handoff", "done"
    action,     \* the action string computed from the flags
    handedOff,  \* the action passed to flagscale.run, or None
    ended,      \* how flagscale.run ended: [kind, code], or None
    exit,       \* the process exit code, or None while running
    toolRc,     \* return code of the install or test script, or None
    ckpt,       \* the checkpoint directory: "absent", "empty", "partial",
                \* "complete" (it outlives the process)
    image       \* the docker image has been pulled (outlives the process)

vars == <<cmd, flags, phase, action, handedOff, ended, exit, toolRc, ckpt, image>>
task == <<cmd, flags, phase, action, handedOff, ended, exit>>

(***************************************************************************)
(* get_action: the flags in list order; more than one set is an error.     *)
(***************************************************************************)
FlagOrder == <<"stop", "dryrun", "test", "query", "auto_tune">>

\* The names of the set flags, in list order (`set_flags`).
SetFlags(fs) == SelectSeq(FlagOrder, LAMBDA f : f \in fs)

\* Mutant: an off-by-one in `len(set_flags) > 1`.
GetActionFailsAtThree(fs) == Len(SetFlags(fs)) > 2
\* Mutant: the tune flag listed as ("tune", tune) instead of ("auto_tune", tune).
GetActionTuneName(fs) ==
    IF SetFlags(fs) # <<>>
    THEN IF Head(SetFlags(fs)) = "auto_tune" THEN "tune" ELSE Head(SetFlags(fs))
    ELSE "run"

GetActionFails(fs) == Len(SetFlags(fs)) > 1
GetAction(fs) == IF SetFlags(fs) # <<>> THEN Head(SetFlags(fs)) ELSE "run"

\* serve: `"stop" if stop else ("test" if test else ("auto_tune" if tune else "run"))`
ServeAction(fs) ==
    IF "stop" \in fs THEN "stop"
    ELSE IF "test" \in fs THEN "test"
    ELSE IF "auto_tune" \in fs THEN "auto_tune" ELSE "run"

\* compress: `"stop" if stop else ("dryrun" if dryrun else "run")`
CompressAction(fs) ==
    IF "stop" \in fs THEN "stop" ELSE IF "dryrun" \in fs THEN "dryrun" ELSE "run"

\* The action a task command computes from its flags (an error for get_action
\* with several flags is decided separately by GetActionFails).
CommandAction(c, fs) ==
    CASE c = "serve" -> ServeAction(fs)
      [] c = "compress" -> CompressAction(fs)
      [] OTHER -> GetAction(fs)

UsesGetAction(c) == c \in {"train", "inference", "rl"}

\* run_task: `except SystemExit as e: if e.code and e.code != 0: raise`;
\* `except Exception` goes to _handle_config_error, which exits 1.
RunTaskExit(o) ==
    CASE o.kind = "exit_code" -> o.code
      [] o.kind \in {"config_error", "exec_error"} -> 1
      [] OTHER -> 0

Init ==
    /\ cmd = None /\ flags = {} /\ phase = "idle" /\ action = None
    /\ handedOff = None /\ ended = None /\ exit = None
    /\ toolRc = None /\ ckpt = "absent" /\ image = FALSE

(***************************************************************************)
(* A task command (train, serve, inference, rl, compress) parses its flags *)
(* and computes its action before it resolves the config.                  *)
(***************************************************************************)
InvokeTask(c, fs) ==
    /\ phase = "idle"
    /\ cmd' = c /\ flags' = fs
    /\ IF UsesGetAction(c) /\ GetActionFails(fs)
       THEN /\ exit' = 1 /\ phase' = "done" /\ UNCHANGED action
       ELSE /\ action' = CommandAction(c, fs) /\ phase' = "resolving"
            /\ UNCHANGED exit
    /\ UNCHANGED <<handedOff, ended>>
    /\ UNCHANGED <<toolRc, ckpt, image>>

\* `flagscale run --action a`: the action comes from the Action enum.
InvokeRun(a) ==
    /\ phase = "idle"
    /\ cmd' = "run" /\ flags' = {} /\ action' = a /\ phase' = "resolving"
    /\ UNCHANGED <<handedOff, ended, exit>>
    /\ UNCHANGED <<toolRc, ckpt, image>>

\* resolve_config (or run_cmd's two existence checks): a missing yaml file
\* ends the process with exit code 1 before anything is handed off.
ResolveConfig(exists) ==
    /\ phase = "resolving"
    /\ IF exists THEN phase' = "handoff" /\ UNCHANGED exit
                 ELSE phase' = "done" /\ exit' = 1
    /\ UNCHANGED <<cmd, flags, action, handedOff, ended>>
    /\ UNCHANGED <<toolRc, ckpt, image>>

\* run_task: sys.argv is set to the config and `action=<action>`, then
\* flagscale.run's main is called and its end decides the exit code.
RunTask(o) ==
    /\ phase = "handoff"
    /\ handedOff' = action
    /\ ended' = o
    /\ exit' = RunTaskExit(o)
    /\ phase' = "done"
    /\ UNCHANGED <<cmd, flags, action>>
    /\ UNCHANGED <<toolRc, ckpt, image>>

(***************************************************************************)
(* The tool commands.  `raise typer.Exit(code)` ends the process with      *)
(* status code mod 256: a script killed by a signal returns -signal.       *)
(***************************************************************************)
ProcessExit(code) == code % 256

\* `if result.returncode != 0: raise typer.Exit(result.returncode)`
ToolExit(rc) == IF rc # 0 THEN ProcessExit(rc) ELSE 0

\* A tool script run: a missing script exits 1; otherwise the arguments
\* are assembled from the options and the script runs to its return code.
InvokeTool(c, found, rc) ==
    /\ phase = "idle"
    /\ cmd' = c /\ phase' = "done"
    /\ IF found THEN toolRc' = rc /\ exit' = ToolExit(rc)
                ELSE exit' = 1 /\ UNCHANGED toolRc
    /\ UNCHANGED <<flags, action, handedOff, ended, ckpt, image>>

\* `flagscale install`: tools/install/install.sh under the cwd.
Install(found, rc) == InvokeTool("install", found, rc)

\* `flagscale test`: tests/test_utils/runners/run_tests.sh under the cwd.
RunTests(found, rc) == InvokeTool("test", found, rc)

\* Mutant: `git lfs pull` run without check=True.
PullLfsUnchecked(dockerOk, cloneOk, lfsOk) ==
    LET dir == IF ckpt = "absent" THEN "empty" ELSE ckpt
        cloned == dockerOk /\ cloneOk /\ dir = "empty"
    IN  /\ phase = "idle"
        /\ cmd' = "pull" /\ phase' = "done"
        /\ image' = (image \/ dockerOk)
        /\ ckpt' = CASE ~cloned -> dir
                      [] lfsOk -> "complete"
                      [] OTHER -> "partial"
        /\ exit' = IF cloned THEN 0 ELSE 1
        /\ UNCHANGED <<flags, action, handedOff, ended, toolRc>>

\* pull: create the checkpoint directory if it does not exist, then
\* `docker pull`, `git clone <ckpt> <dir>` (which fails unless the directory
\* is empty) and `git lfs pull`, each ending the process with exit 1 when
\* it fails.  A clone that fails leaves the directory empty; an lfs pull
\* that fails leaves the cloned files with their large files missing.
Pull(dockerOk, cloneOk, lfsOk) ==
    LET dir == IF ckpt = "absent" THEN "empty" ELSE ckpt
        cloned == dockerOk /\ cloneOk /\ dir = "empty"
    IN  /\ phase = "idle"
        /\ cmd' = "pull" /\ phase' = "done"
        /\ image' = (image \/ dockerOk)
        /\ ckpt' = CASE ~cloned -> dir
                      [] lfsOk -> "complete"
                      [] OTHER -> "partial"
        /\ exit' = IF cloned /\ lfsOk THEN 0 ELSE 1
        /\ UNCHANGED <<flags, action, handedOff, ended, toolRc>>

\* `flagscale --version` (eager): prints the version and exits 0 before
\* any command runs.
Version ==
    /\ phase = "idle"
    /\ cmd' = "version" /\ phase' = "done" /\ exit' = 0
    /\ UNCHANGED <<flags, action, handedOff, ended, toolRc, ckpt, image>>

\* The next `flagscale` process; the checkpoint directory and the docker
\* image stay.
Restart ==
    /\ phase = "done"
    /\ cmd' = None /\ flags' = {} /\ phase' = "idle" /\ action' = None
    /\ handedOff' = None /\ ended' = None /\ exit' = None /\ toolRc' = None
    /\ UNCHANGED <<ckpt, image>>

RunOutcomes ==
    {[kind |-> k, code |-> None] : k \in Outcomes \ {"exit_code", "exec_error"}}
    \cup {[kind |-> k, code |-> c] : k \in Outcomes \cap {"exit_code", "exec_error"}, c \in ExitCodes}

Next ==
    \/ \E c \in Cmds : \E fs \in SUBSET CmdFlags[c] : InvokeTask(c, fs)
    \/ \E a \in Actions : InvokeRun(a)
    \/ \E b \in BOOLEAN : ResolveConfig(b)
    \/ \E o \in RunOutcomes : RunTask(o)
    \/ \E found \in BOOLEAN, rc \in ToolCodes : Install(found, rc)
    \/ \E found \in BOOLEAN, rc \in ToolCodes : RunTests(found, rc)
    \/ \E d, c, l \in BOOLEAN : Pull(d, c, l)
    \/ Version
    \/ Restart

Spec == Init /\ [][Next]_vars

-----------------------------------------------------------------------------
TypeOK ==
    /\ cmd \in Commands \cup ToolCommands \cup {"pull", "version", None}
    /\ flags \subseteq {"stop", "dryrun", "test", "query", "auto_tune"}
    /\ phase \in {"idle", "resolving", "handoff", "done"}
    /\ action \in Actions \cup {None}
    /\ handedOff \in Actions \cup {None}
    /\ ended \in RunOutcomes \cup {None}
    /\ exit \in ExitCodes \cup {0, 1, None} \cup {ProcessExit(r) : r \in ToolCodes}
    /\ toolRc \in ToolCodes \cup {None}
    /\ ckpt \in {"absent", "empty", "partial", "complete"}
    /\ image \in BOOLEAN

\* determineAction (spec 4.5): a task command hands off only when at most one
\* intent flag is set, and then the action is that flag's (or "run" when
\* none is); two or more flags end in ConflictingFlags.
SingleIntent ==
    handedOff # None /\ cmd \in TaskCommands =>
        /\ Cardinality(flags) <= 1
        /\ handedOff = IF flags = {} THEN "run" ELSE CHOOSE f \in flags : TRUE

\* Error policy (spec 7): the exit status of a handed-off run that failed is
\* the process exit status, unchanged; a run that ended normally exits 0;
\* a config error exits 1.
ExitStatusPreserved ==
    exit # None /\ ended # None =>
        exit = CASE ended.kind \in {"exit_code", "exec_error"} -> ended.code
                 [] ended.kind = "config_error" -> 1
                 [] OTHER -> 0

\* pull: exit status 0 means the image is pulled and the checkpoint is
\* complete, large files included, whatever earlier pulls left behind.
PullSucceededComplete ==
    cmd = "pull" /\ exit = 0 => image /\ ckpt = "complete"

=============================================================================
