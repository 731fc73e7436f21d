--------------------------- MODULE ArtifactLayout ---------------------------
(***************************************************************************)
(* Where the compress backend puts a job's artifacts.  An invocation of    *)
(* the backend (a run or a stop, each a separate process started from     *)
(* some working directory) resolves the experiment and logging            *)
(* directories (_update_config_compress), parses the hostfile (_prepare), *)
(* and then generates one script per host entry (generate_run_script,     *)
(* generate_stop_script).  A run script later writes the job's pid file   *)
(* and appends its output on the machine it runs on; a stop script reads  *)
(* the pid file.                                                          *)
(*                                                                         *)
(* Paths are sequences of segments whose first segment is either a root   *)
(* (a model value of Roots: an absolute directory) or a relative name.    *)
(* File names keep only what distinguishes them: the kind of file and the *)
(* node rank and host embedded in the name.                               *)
(***************************************************************************)
EXTENDS Naturals, Sequences, FiniteSets

CONSTANTS
    Machines,       \* hosts of the cluster
    LocalHost,      \* the entry parse_hostfile synthesises without a hostfile
    NoHostfile,     \* experiment.runner.hostfile is not set
    Missing,        \* a hostfile path that does not exist
    Hostfiles,      \* hostfile contents to consider: sequences of Machines
    Roots,          \* absolute directories; invocations start in one of them
    Cwds,           \* working directories an invocation may start from
    ExpDirs,        \* values of experiment.exp_dir
    LogDirs,        \* values of compress.system.logging.log_dir (or None)
    None,
    MaxInvocations

ASSUME Cwds \subseteq Roots

VARIABLES
    hostfile,   \* deployment: the hostfile (a sequence, NoHostfile or Missing)
    noShared,   \* deployment: experiment.runner.no_shared_fs
    expCfg,     \* deployment: configured experiment directory
    logCfg,     \* deployment: configured log directory override
    pc,         \* "idle" between invocations, "gen" while generating
    cmd,        \* "run" or "stop": what the current invocation generates
    layout,     \* resolved directories of the current invocation
    pool,       \* parsed host entries of the current invocation
    todo,       \* indices of pool not yet generated
    scripts,    \* every script generated so far (records)
    invs        \* invocations started

vars == <<hostfile, noShared, expCfg, logCfg, pc, cmd, layout, pool, todo,
          scripts, invs>>

deployment == <<hostfile, noShared, expCfg, logCfg>>

-----------------------------------------------------------------------------
(* PathResolver, ExperimentLayout and HostPool live in                     *)
(* flagscale/runner/utils.py; they are modelled from spec.md 4.1-4.3.     *)

IsAbs(p) == p[1] \in Roots

\* resolve_path: absolute inputs pass through, relative ones join the cwd.
ResolvePath(p, cwd) == IF IsAbs(p) THEN p ELSE <<cwd>> \o p

\* setup_exp_dir: the configured root resolved against the cwd.
SetupExpDir(cwd) == ResolvePath(expCfg, cwd)

\* setup_logging_dirs: explicit log_dir (resolved) or <exp>/<subdir>, and
\* the scripts and pids directories under it.
SetupLoggingDirs(exp, subdir, cwd) ==
    LET log == IF logCfg # None THEN ResolvePath(logCfg, cwd)
                                ELSE Append(exp, subdir)
    IN  [log |-> log, scripts |-> Append(log, "scripts"),
         pids |-> Append(log, "pids")]

\* parse_hostfile: one local entry without a hostfile, ranks in line order.
ParseHostfile(hf) ==
    IF hf = NoHostfile THEN <<[host |-> LocalHost, rank |-> 0]>>
    ELSE [i \in DOMAIN hf |-> [host |-> hf[i], rank |-> i - 1]]

-----------------------------------------------------------------------------
(* The backend.                                                            *)

\* _update_config_compress: the experiment directory, then the logging
\* directories under "compress_logs".  The tensorboard and wandb
\* directories it also resolves are written into no script path below.
UpdateConfigCompress(cwd) ==
    SetupLoggingDirs(SetupExpDir(cwd), "compress_logs", cwd)

Name(kind, e) == [kind |-> kind, rank |-> e.rank, host |-> e.host]

\* The output file: one shared name when no_shared_fs is set, a name per
\* rank and host otherwise.
OutputFile(lay, e) ==
    IF noShared THEN Append(lay.log, [kind |-> "output"])
                ELSE Append(lay.log, Name("output", e))

PidFile(lay, e) == Append(lay.pids, Name("pid", e))

\* An invocation starts: _prepare resolves the layout, then parses the
\* hostfile; a missing hostfile raises and nothing is generated.
Invoke(c, cwd) ==
    /\ pc = "idle"
    /\ invs < MaxInvocations
    /\ invs' = invs + 1
    /\ cmd' = c
    /\ layout' = UpdateConfigCompress(cwd)
    /\ IF hostfile = Missing
         THEN /\ pool' = <<>>
              /\ todo' = {}
              /\ UNCHANGED pc
         ELSE /\ pool' = ParseHostfile(hostfile)
              /\ todo' = DOMAIN pool'
              /\ pc' = "gen"
    /\ UNCHANGED <<deployment, scripts>>

\* generate_run_script for one host entry: the paths the script writes.
GenerateRunScript(i) ==
    /\ pc = "gen" /\ cmd = "run" /\ i \in todo
    /\ LET e == pool[i]
       IN  scripts' = scripts \cup
             {[inv |-> invs, kind |-> "run", entry |-> e,
               path |-> Append(layout.scripts, Name("run", e)),
               pid |-> PidFile(layout, e), out |-> OutputFile(layout, e)]}
    /\ todo' = todo \ {i}
    /\ UNCHANGED <<deployment, pc, cmd, layout, pool, invs>>

\* Mutant: the stop script names the pid file by host only.
GenerateStopScriptNoRank(i) ==
    /\ pc = "gen" /\ cmd = "stop" /\ i \in todo
    /\ LET e == pool[i]
       IN  scripts' = scripts \cup
             {[inv |-> invs, kind |-> "stop", entry |-> e,
               path |-> Append(layout.scripts, Name("stop", e)),
               pid |-> Append(layout.pids, [kind |-> "pid", host |-> e.host]),
               out |-> None]}
    /\ todo' = todo \ {i}
    /\ UNCHANGED <<deployment, pc, cmd, layout, pool, invs>>

\* generate_stop_script for one host entry: the pid file it checks.
GenerateStopScript(i) ==
    /\ pc = "gen" /\ cmd = "stop" /\ i \in todo
    /\ LET e == pool[i]
       IN  scripts' = scripts \cup
             {[inv |-> invs, kind |-> "stop", entry |-> e,
               path |-> Append(layout.scripts, Name("stop", e)),
               pid |-> PidFile(layout, e), out |-> None]}
    /\ todo' = todo \ {i}
    /\ UNCHANGED <<deployment, pc, cmd, layout, pool, invs>>

\* Creating the scripts directory or opening the script of entry i fails
\* (os.makedirs or open(..., "w") raises OSError): the exception leaves
\* the per-host loop; the scripts of earlier entries stay on disk.
GenerateFails(i) ==
    /\ pc = "gen" /\ i \in todo
    /\ pc' = "idle"
    /\ todo' = {}
    /\ UNCHANGED <<deployment, cmd, layout, pool, scripts, invs>>

\* The per-host loop ends.
Finish ==
    /\ pc = "gen" /\ todo = {}
    /\ pc' = "idle"
    /\ UNCHANGED <<deployment, cmd, layout, pool, todo, scripts, invs>>

Init ==
    /\ hostfile \in Hostfiles \cup {NoHostfile, Missing}
    /\ noShared \in BOOLEAN
    /\ expCfg \in ExpDirs
    /\ logCfg \in LogDirs
    /\ pc = "idle"
    /\ cmd = "run"
    /\ layout = None
    /\ pool = <<>>
    /\ todo = {}
    /\ scripts = {}
    /\ invs = 0

Next ==
    \/ \E c \in {"run", "stop"}, cwd \in Cwds : Invoke(c, cwd)
    \/ \E i \in DOMAIN pool : GenerateRunScript(i)
    \/ \E i \in DOMAIN pool : GenerateStopScript(i)
    \/ Finish

Spec == Init /\ [][Next]_vars

-----------------------------------------------------------------------------
(* Type invariant.                                                         *)

Entry == [host : Machines \cup {LocalHost}, rank : Nat]

TypeOK ==
    /\ pc \in {"idle", "gen"}
    /\ cmd \in {"run", "stop"}
    /\ todo \subseteq DOMAIN pool
    /\ \A i \in DOMAIN pool : pool[i] \in Entry
    /\ \A s \in scripts : s.inv \in 1..invs /\ s.entry \in Entry
    /\ invs \in 0..MaxInvocations

=============================================================================
