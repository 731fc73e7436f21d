# TLA+ models of the FlagScale job lifecycle core

This directory holds TLA+ models of the parts of FlagScale (`src/`) that start and stop jobs, dispatch the command line, and install the package. Each model is checked with TLC. Every definition is translated from the Python source. `PROJECT.json` maps each definition to the lines it models. It also lists every run, mutant, finding and hazard.

## 1. Inventory

### Components

| Component | Source | State it keeps | Operations |
|---|---|---|---|
| **ScriptGenerator** (NativeCompressBackend) | `src/flagscale/runner/backend/backend_native_compress.py` | On disk: `host_<rank>_<host>_run.sh` and `_stop.sh` under `scripts_dir`. At run time on each host: the pid file `pids/host_<rank>_<host>.pid`, the output file, and the host's process table. | `generate_run_script` (74-132), `generate_stop_script` (134-164), `_prepare` (63-72), `_update_config_compress` (35-53), `_get_args_llmcompressor` (18-32) |
| **Generated run/stop scripts** (the behaviour encoded in the files) | same file, lines 101-127 and 150-159 | pid file, supervising shell `bash -c "$cmd; sync"`, workload child | run: background, foreground or with_test; stop: `pkill -P $(cat pid)`, or `pkill -f 'python'` when no pid file exists |
| **ActionDispatcher / CLI** | `src/flagscale/cli.py` | per process: `sys.argv` (overwritten by `run_task`), the exit status | `get_action` (83-100), `train`/`serve`/`inference`/`rl`/`compress` (162-259), `run_cmd` (118-154), `resolve_config` (21-40), `run_task` (57-80), `install`/`run_tests`/`pull` (278-418) |
| **ExperimentLayout** | `_update_config_compress` (backend 35-53). `setup_exp_dir` and `setup_logging_dirs` live in `flagscale/runner/utils`, which is not under `src/`. Their behaviour is fixed by the spec and `tests/unit_tests/runner/test_path_utils.py`. | `exp_dir`, `log_dir`, `scripts_dir`, `pids_dir`, `tensorboard_dir`, `wandb_save_dir`, written back into the config | set up directories, then back-fill the config |
| **PathResolver** | `resolve_path` and `get_cwd_dir`, not under `src/` (spec 4.1, `test_path_utils.py`) | none | resolve a path, optionally warn or raise when it is missing |
| **HostPool** | `parse_hostfile`, not under `src/` (spec 4.3) | none (a ranked list) | parse a hostfile |
| **Packaging** | `src/setup.py` | module-level `EXTRAS`, `PIP_OPTIONS`, `PKG_OPTIONS` | `parse_requirements` (recursive `-r` includes, pending per-package options), `build_extras`, `get_pip_install_cmd`, `_auto_install_annotated_packages` |
| **TrainConfig schema** | `src/flagscale/train/train_config.py` | none | pydantic validation |
| **Test runners** | `src/tests/test_utils/runners/*.py`, `src/tests/conftest.py` | none | parse JSON/YAML test lists; compare logs with gold values |
| **run.py** | `src/run.py` | none | wrapper that calls `flagscale.run.main` |

### How the components interact

Data flows one way. The CLI resolves a config and hands `(config, action)` to `flagscale.run`. The backend then does four things in order:
1. It lays out the directories (`_update_config_compress`).
2. It parses the hostfile into `resources`.
3. It generates a run script or a stop script for each host.
4. It passes the scripts to an external executor (SSH or a scheduler).

The hosts never talk to each other. They coordinate only through files:
- the run script records `$!`, the pid of the supervising `bash -c` shell, in the pid file;
- the stop script reads that pid back and kills its children;
- when the pid file is absent, the stop script kills every process matching `python`.

### Hard behaviours

- **Interleaving of the run and stop scripts on one host.** In background mode the run script returns as soon as it has written `$!`. The shell may not have forked the workload yet. The pid file is truncated and then written in two steps. The stop script tests for the file, reads it and calls `pkill` in three steps. Processes start and exit between any two of these steps.
- **Stale state.** Nothing deletes the pid file:
  - the workload does not when it exits;
  - the stop script does not;
  - foreground and with_test runs never write one.

  A pid that was recorded once is later used as if it were current.
- **Pid reuse.** The OS may give a freed pid to an unrelated process.
- **Overwrites.** A second background run overwrites the pid file of the first.
- **Error propagation in the CLI.** `run_task` catches `SystemExit`. It lets a non-zero code through, swallows 0 and None, and turns every other exception into exit status 1.
- **Recursive requirement files** (`setup.py`). `-r` includes recurse with no cycle check. Pending per-package options are local to each call.

### What makes each component correct

- **Lifecycle:**
  - a stop ends the job it was issued for;
  - the pid-file branch never touches unrelated processes;
  - a workload is always reachable as a child of the recorded pid.
- **CLI:** the intent flags are mutually exclusive (spec 4.5), and a failed run's exit status reaches the shell unchanged (spec 7).
- **Layout and artifacts:** the ranks of one job never append to the same physical output file; a stop script, generated by a later process, checks the pid file that its host's run script writes.
- **Packaging:**
  - an annotated package is excluded from `extras_require`;
  - it is installed exactly once;
  - its options apply to the next package line only;
  - only the annotated packages of the requested extras are auto-installed (the note above `setup()`).

## 2. Plan

Modules are listed in order of importance. Items 1 to 4 and 6 are built. Item 5 is built as the composition of the CLI with the backend (`Launch`); the per-host instance of `JobLifecycle` is not.

1. **`JobLifecycle`** (done). Models what the generated scripts do on one host. It covers the run script in three modes, the supervising shell and the workload, the pid file (absent, truncated or written), the stop script's three steps, unrelated python processes, and optional pid reuse. `MCJobLifecycle` instantiates it with pids as model values and pid symmetry.
2. **`CliDispatch`** (done). Models one `flagscale` invocation per process: flags to action, config resolution, and hand-off with the exit-status mapping.
3. **`ArtifactLayout`** (done). Models the cross-host side of generation: `_prepare` and `_update_config_compress`, the spec-modelled `setup_exp_dir`, `setup_logging_dirs`, `resolve_path` and `parse_hostfile`, and the paths `generate_run_script` and `generate_stop_script` compute for every host entry, on shared or local disks. Paths are sequences of segments; no normaliser is needed because no configured path contains `..`.
4. **`Packaging`** (done). Models `parse_requirements` as a RECURSIVE operator over every small requirements tree, checked against a reference reading. It also models `build_extras`, `get_pip_install_cmd`, and the `seen` loop of `_auto_install_annotated_packages`, including the failure of one install.
5. **`Launch`** (done, composition). Instantiates `CliDispatch` and `ArtifactLayout` with `INSTANCE ... WITH` and drives the backend from `flagscale compress`. `launch.cfg` explores it, with no property (section 4 says why). Instantiating `JobLifecycle` once per host as well is left out (section 5).
6. **`AbstractJob`** (done). States what the job service promises on one host (spec 3): a workload starts only under a run command, and a completed stop leaves none running. `MCJobLifecycle` maps `JobLifecycle` onto it with `INSTANCE ... WITH`, and `stop_halts` checks the refinement.

## 3. Modules and how they map to the code

### `JobLifecycle.tla`

| Variable | Code |
|---|---|
| `runScript` | The mode (`background`, `foreground` or `test`) of the run script on disk. `generate_run_script` rewrites it. |
| `stopScript` | Whether the stop script exists. |
| `proc` | The host's process table. Each pid is either free or holds a supervising shell (`pc`: `start`, `wait` or `sync`), a workload, or a foreign python process. Each process records its parent and its job number. |
| `pidFile` | The pid file: `NoPid` (absent), `Empty` (after the `>` truncation), or the pid written by `echo $!`. |
| `runner` / `stopper` | The program counters of the run script and the stop script being executed. |
| `reboots` | Reboots of the host so far (bound `MaxReboots`). |
| `runs`, `stops`, `lastOp` | Bounded counters, plus a history variable that records whether the last command finished was a stop. |

Actions:
- `GenerateRunScript`, `GenerateStopScript`.
- `RunnerSpawn`: the `nohup bash -c` or `bash -c` fork.
- `RunnerTruncatePidFile` and `RunnerWritePid`: `> pid` and `echo $!`.
- `RunnerReturn`: a foreground or with_test run returns.
- `ShellForkWorkload`, `WorkloadExit`, `ShellExit`: `$cmd; sync`.
- `StopCheckPidFile`: the `[ -f ]` test, including the `pkill -f 'python'` fallback.
- `StopReadPid`: `$(cat pid)`.
- `StopKillChildren`: `pkill -P`.
- `ForeignStart` and `ForeignExit`.
- `Reboot` (the fault model): every process dies, the run and stop scripts stop executing, and the new boot allocates pids afresh (`used` is emptied). The files on disk stay as they were: both scripts and the pid file, which may be empty if the reboot fell between `> pid` and `echo $!`. Like the Raft restart of the reference specifications, it is bounded by a counter and has no fairness.

`AfterKill(S)` gives the effect of SIGTERM on a set of processes:
- their pids are freed;
- their children are re-parented to init;
- a shell whose workload died moves on to `sync`.

Two constants describe how the operator drives the scripts:
- `OperatorWaits`: commands do not overlap, and a stop is issued only after the workload has started;
- `SequentialJobs`: a new run starts only after the previous job is gone.

### `AbstractJob.tla` and the refinement

`AbstractJob` has two variables: `running` (a workload of the service executes on the host) and `lastCmd` (`none`, `run` or `stop`). Its actions are `IssueRun`, `Start` (only while `lastCmd = "run"`), `Finish` and `Stop`, which sets `running` to FALSE in the same step as it records the command. `MCJobLifecycle` defines

    Abs == INSTANCE AbstractJob WITH running <- \E p \in Live : IsWorkload(p), lastCmd <- lastOp

and `AbsSpec == Abs!Spec`. Under the mapping, `RunnerSpawn` is `IssueRun`, `ShellForkWorkload` is `Start`, `WorkloadExit` is `Finish`, the two completing steps of the stop script (`StopCheckPidFile` fallback and `StopKillChildren`) are `Stop`, and every other step stutters.

### `ArtifactLayout.tla`

The deployment (`hostfile`, `noShared`, `expCfg`, `logCfg`) is chosen in `Init` and never changes in `ArtifactLayout` itself; `Launch` lets the operator rewrite the hostfile between processes. Each invocation of the backend is a new process started from a working directory in `Cwds`:
- `Invoke(c, cwd)` is `_prepare`: `UpdateConfigCompress` resolves `exp_dir` and the logging directories, then `ParseHostfile` builds the pool; a missing hostfile raises and nothing is generated;
- `GenerateRunScript(i)` and `GenerateStopScript(i)` record, for pool entry `i`, the script path and the pid and output paths written into it (`PidFile`, `OutputFile`);
- `GenerateFails(i)`: `os.makedirs` or `open(..., "w")` raises for entry `i` and the exception leaves the loop;
- `Finish` ends the per-host loop (`BackendBase.run`, spec 4.4, modelled from the spec).

### `Launch.tla` (composition)

`Cli == INSTANCE CliDispatch` and `Layout == INSTANCE ArtifactLayout WITH cmd <- bcmd` share nothing but the steps that join them. Each `flagscale compress` process is:
- `Start(fs, d, x)`: `compress` with or without `--stop`, started in working directory `d`, with (`x`) or without `--config` (cli.py 249-256);
- `Resolve`: `resolve_config`. `ConfigFound` is true for an explicit `--config` or when `d` holds `examples/<model>/conf` (`ConfigDirs`); otherwise the process exits 1;
- `Handoff`: `run_task` calls `flagscale.run`, which runs `_prepare` in the same process and directory (`Layout!Invoke`); a missing hostfile raises out of `run_task` and ends the process as a config error;
- `GenerateRun(i)`, `GenerateStop(i)`: the backend's per-host loop;
- `GenerateError(i)`: creating the scripts directory or opening the script of entry `i` raises (`ArtifactLayout!GenerateFails`). The scripts of earlier entries stay on disk, and `run_task` turns the exception into exit 1. At most `MaxIoErrors` writes fail;
- `Return`: the loop ends, `flagscale.run` returns, and `run_task` exits 0;
- `Restart`: the next process;
- `EditHostfile(h)`: between two processes the operator rewrites the hostfile, which the next `_prepare` parses afresh.

`procs` counts the processes (bound `MaxProcesses`, at most the backend's `MaxInvocations`, so no started process is stopped by the bound).

### `Packaging.tla`

A requirements line is abstracted to one of five kinds:
- `Pkg(p)`: a package specifier;
- `Annot(o)`: a `# [--o]` annotation (a bracket with several options acts like several annotations in a row);
- `Opt(o)`: a pip option line;
- `Inc(f)`: `-r f`;
- `Skip`: a blank line, an ordinary comment, or a bracket whose words do not all start with `--`.

`content` maps each file to its lines, or to `Absent`. `Init` picks `content` from every tree `MCPackaging` allows. The other variables are:
- `extras`, `pipOptions`, `pkgOptions`: `EXTRAS`, `PIP_OPTIONS` and `PKG_OPTIONS`;
- `built`: how many extras `build_extras` has parsed;
- `phase`: `build`, `install`, `done`, `imported` (not `__main__`), or `crashed` (RecursionError);
- `todo`, `cur`, `pending`, `seen`, `attempts`: the install loop.

Pure operators:
- `ParseRequirements`, `ParseLines`, `ParseLine`, `PkgLine`, `IncludeLine`: `parse_requirements`, line by line;
- `GetPipInstallCmd`: `get_pip_install_cmd`, with the sorted option tuple as a bag.

Actions:
- `BuildExtra`: one extra of `build_extras`;
- `SetupDone`: the `__main__` check;
- `NextExtra`: the outer install loop;
- `InstallSkip`: `seen`;
- `InstallPkg`: one `pip install`, which may fail.

`Items`, `RefDeps`, `RefPkgOpts` and `RefPipOpts` are a reference reading of the tree, written from the docstring and `test_setup.py`, not from the loop:
- includes are expanded in place;
- a package's options are the annotations in its own file since the previous package line;
- when a package is annotated twice, the annotation read last counts.

### `CliDispatch.tla`

The variables are:
- `cmd`, `flags`: the command and its intent flags;
- `phase`: `idle`, `resolving`, `handoff`, `done`;
- `action`, `handedOff`: the computed action and the action passed to `flagscale.run`;
- `ended`: how `flagscale.run` ended;
- `exit`: the exit status.

Actions:
- `InvokeTask`: the five task commands, with `get_action` or the priority chains of `serve` and `compress`;
- `InvokeRun`: `flagscale run --action`;
- `ResolveConfig`;
- `RunTask`: `run_task`, with `RunTaskExit` for the `SystemExit`/`Exception` handling;
- `Install`, `RunTests`: the script lookup (exit 1 when missing) and `raise typer.Exit(returncode)`, through `InvokeTool` and `ToolExit`; `ProcessExit` is the status mod 256 that `sys.exit` gives a negative code. The argument list is abstracted away;
- `Pull`: mkdir, `docker pull`, `git clone`, `git lfs pull`, each failing with exit 1. The checkpoint directory (`ckpt`: absent, empty, partial, complete) and the pulled image (`image`) outlive the process;
- `Version`: the eager `--version` callback;
- `Restart`: the next process; `ckpt` and `image` stay.

## 4. Runs

`Launch` and `ArtifactLayout` have no run. `launch.cfg` explores their composition (three processes, two working directories, hostfiles edited between processes, one failed script write, about 1.6 million states), but each property found for them either restates a guard of the model or depends on a hostfile or working directory that nothing in the spec, a comment or a test constrains. What TLC finds there is recorded as hazards in `PROJECT.json` (backend_native_compress.py 36, 79, 88 and 101).

| Run | Cfg | Expect | What it shows |
|---|---|---|---|
| `lifecycle` | `lifecycle.cfg` | pass | With all three modes, two jobs, two stops, an unrestricted operator and no pid reuse: every workload stays a child of its own job's shell (`NoOrphanWorkload`) and when the stop script reads the pid of a shell whose workload is running, every process of that job eventually exits (`RecordedJobHalts`, under weak fairness of the shells and started scripts). |
| `stop_halts` | `stop_halts.cfg` | pass | Background jobs only. If the operator waits for each command and runs one job at a time, `JobLifecycle` implements `AbstractJob` (`AbsSpec`), with one host reboot at any point (a reboot maps to the abstract `Finish`): workloads start only under a run, and a finished stop leaves none running. |
| `stop_race` | `stop_race.cfg` | violation | A stop issued while the run script is still writing the pid file reads an empty pid. `pkill -P ""` signals nothing and the workload keeps running. The same happens when the stop comes before `bash -c` has forked the workload. |
| `stop_stale_pidfile` | `stop_stale_pidfile.cfg` | violation | A background job ends. A with_test job starts and writes no pid file. The stop reads the stale pid, kills nothing, and the test workload keeps running. |
| `pid_reuse` | `pid_reuse.cfg` | violation | A background run writes its pid file and the host reboots. The file survives, the new boot gives the recorded shell pid to an unrelated process, and the stop's `pkill -P` kills that process's child (`PidBranchSparesForeign`). No pid is reused within a boot; with `PidReuse = TRUE` and no reboot TLC finds the same violation. |
| `cli_dispatch` | `cli_dispatch.cfg` | pass | For `train`, `inference` and `rl`, at most one intent flag reaches `flagscale.run`, and it becomes the action (`SingleIntent`). Over successive processes, `pull` exits 0 only with the image pulled and a complete checkpoint, whatever an earlier failed pull left (`PullSucceededComplete`). |
| `cli_flag_priority` | `cli_flag_priority.cfg` | violation | `serve --stop --test` hands off `stop` without raising ConflictingFlags. `compress --stop --dryrun` does the same. |
| `cli_exec_error` | `cli_exec_error.cfg` | violation | An exception from `flagscale.run` that carries a failed script's exit status becomes exit status 1, reported as a config error. |
| `packaging` | `packaging.cfg` | pass | Over every tree in `MCPackaging`, including cyclic includes and a missing `dev.txt`, three things hold. The tables agree with the reference reading (`ExtrasFollowAnnotations`). `get_pip_install_cmd` installs exactly the tree's packages, each with its own options (`InstallCmdCovers`). The install loop calls pip once per annotated package, with the first extra's options (`AttemptedOnceEach`). |
| `packaging_pip_options` | `packaging_pip_options.cfg` | violation | A `base.txt` that holds only an index URL puts `cuda` in `PIP_OPTIONS` but not in `EXTRAS`. This contradicts `test_pip_options_keys_subset_of_extras`. |
| `autoinstall_scope` | `autoinstall_scope.cfg` | violation | Run for `".[cuda-train]"`, setup.py auto-installs a package annotated only in `cuda`. The note at setup.py 177-182 says otherwise. |
| `pkg_separate_commands` | `pkg_separate_commands.cfg` | violation | In a `cuda-train` whose only package is annotated, `EXTRAS` has the extra with no packages, so `get_pip_install_cmd` issues one `pip install <options> <pkg>` and no `.[cuda-train]` command. The result has no `&&`, which `test_pkg_options_extras_produce_separate_commands` asserts for every extra of `PKG_OPTIONS` (`SeparateCommands`). |

### Bounds, and why they are enough

- **Pids.** `lifecycle` uses four pids without symmetry, because it also checks a liveness property: two jobs (a shell and a workload each), or one job and foreign processes. Five pids with the liveness check take more than five minutes. `stop_halts` and the violation runs use five: two jobs plus a foreign process, or, after a reboot, a foreign parent and its child on the recorded shell pid. One reboot (`MaxReboots = 1`) is enough: a second only repeats the first on an empty process table. `lifecycle`, `stop_race` and `stop_stale_pidfile` use none, so that their findings do not depend on a reboot.
- **Jobs and stops.** `MaxRuns = 2` and `MaxStops = 2` are the least bounds that reach a second run after a stop. That is the shape of the stale-pid-file error. A second background run overwriting a live job's pid file gives the same `StopHaltsJob` failure: take the `stop_halts` constants with `SequentialJobs = FALSE`. It is not kept as a separate run.
- **Requirements trees.** The tree has three files:
  - `base.txt` (extra `cuda`) has up to 2 lines and may include `train.txt`;
  - `train.txt` (`cuda-train`) has up to 3 lines and may include `base.txt`;
  - `dev.txt` (`dev`) has up to 1 line, may include `base.txt`, and may be absent.

  The lines use two packages, one annotation option and one pip option. That is enough for the cases that need several lines:
  - annotation, include, package;
  - annotation, package, package;
  - a package annotated in two extras;
  - a cycle;
  - an options-only file.

  The packages are interchangeable, so symmetry over them is used.
- **Exit codes.** `{1, 2}` tells a preserved status apart from one rewritten to 1. The tool scripts return 0, 2 or -9 (SIGKILL), so a negative code is reached.
- **Artifact layout.** Three machines give a pool of three with distinct ranks and hosts. Hostfiles `<<m1, m2>>` and `<<m2, m1>>` give the same machine two ranks across deployments. Three processes reach run, stop, run. Two working directories are used, one holding `examples/` (`ConfigDirs = {c1}`) and one not, without `--config`: `resolve_config` then lets only the first reach the backend. With `--config` (`ConfigFlags = {FALSE, TRUE}`) a relative `exp_dir` makes the stop check another pid file (a hazard in `PROJECT.json`). Hostfiles list each machine once; one that lists a machine twice makes two ranks append to one output file under `no_shared_fs`. In `launch.cfg`, the hostfile may change between processes, which reaches a run on `<<m1>>` followed by a stop on `<<m2, m1>>`: the same machine under another rank. One failed script write (`MaxIoErrors = 1`) reaches a failure at every position of every pool of every process; a second only adds more of the same and would take `launch.cfg` (about 1.6 million states, under two minutes) past five minutes.
- **Pull.** `Restart` is unbounded, and the checkpoint directory has four states, so every sequence of pulls is explored.
- **Symmetry.** Permutations of the pid model values are used in the violation runs. This is sound because allocation picks any free pid and nothing compares pids. Symmetry is not used in `lifecycle` (liveness) or `stop_halts` (a temporal property), where it is not needed.

### Fairness

Weak fairness is assumed only for steps the OS and bash guarantee once they are enabled:
- a started run script finishes writing the pid file, or returns after its shell exits;
- a shell forks its workload, and exits after `sync`;
- a started stop script reads the pid and calls `pkill`.

`Launch` checks no liveness property and assumes no fairness.

No fairness is assumed for the operator's commands, for the workload (it may run forever), or for foreign processes. The `JobLifecycle` runs set `CHECK_DEADLOCK FALSE`: once the bounded commands are used up and the jobs have ended, the host really is idle.

## 5. Not modelled, and why

- **Whole components:**
  - `train_config.py` is pydantic validation with no state;
  - the test-runner helpers are JSON/YAML parsing and log comparison;
  - `run.py` is a wrapper.
- **Parts of the CLI:** the argument lists of `install` and `test`, and `serve`'s extra `cli_args` (`if port:` drops only port 0, which would ask for an ephemeral port), are formatting.
- **Parts of the layout:** directory creation (`os.makedirs`, the script's `mkdir -p` lines), the tensorboard and wandb defaults, hostfile comment and slot syntax, and `resolve_path`'s existence checks. No property reads them.
- **Parts of the script behaviour:**
  - the workload's own children (torchrun workers) are not modelled: `pkill -P` only reaches direct children, and they would be grandchildren;
  - the `before_start` and `after_stop` hooks have no state and are not modelled;
  - a non-python workload (`cmd` without `python`) is not modelled.
- **Parts of setup.py:**
  - `_get_version`, `_get_pip_verbosity` and `_get_clean_env` only shape the command line and environment;
  - the directory listing of `build_extras` is the fixed `ExtraFiles` list;
  - repeated executions of setup.py by a build backend are not modelled (a hazard in `PROJECT.json`).
- **Per-host job composition:** `Launch` stops at the scripts a process generates; running them is `JobLifecycle`, one host at a time. Instantiating `JobLifecycle` for every host of a pool multiplies its state space (some 10^5 states per host) past what TLC explores in minutes, and the hosts share nothing but the scripts' paths, which `ArtifactLayout` already computes.
- **The fail-fast promise of spec 7:** spec 7 says no invocation leaves a partial script set. The per-host loop that would enforce it is `BackendBase.run`, which is not under `src/`. `Launch` models that loop from the spec, and the code's `generate_*_script` raises per host. So the partial set TLC reaches (a hazard in `PROJECT.json`) is not claimed as a finding.
- **A run script rewritten while it runs:** `generate_run_script` rewrites the script in place, and bash resumes a running script at its byte offset (a hazard in `PROJECT.json`). What executes then depends on the lengths of the two texts, which the model abstracts away.
