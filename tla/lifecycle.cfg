\* All modes, two jobs, two stops, an operator who may act at any moment,
\* no pid reuse within the window.  Four pids hold two jobs (shell and
\* workload each) or one job and foreign processes; no symmetry, since
\* RecordedJobHalts is a liveness property.
CONSTANTS
    Pid = {p1, p2, p3, p4}
    NoPid = NoPid
    Empty = Empty
    Modes = {"background", "foreground", "test"}
    MaxRuns = 2
    MaxStops = 2
    PidReuse = FALSE
    MaxReboots = 0
    OperatorWaits = FALSE
    SequentialJobs = FALSE
SPECIFICATION Spec
INVARIANTS
    NoOrphanWorkload
PROPERTIES
    RecordedJobHalts
CHECK_DEADLOCK FALSE
