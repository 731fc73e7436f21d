\* An operator who runs one job at a time and stops it only after the run
\* script returned and the workload started: background jobs only.
CONSTANTS
    Pid = {p1, p2, p3, p4, p5}
    NoPid = NoPid
    Empty = Empty
    Modes = {"background"}
    MaxRuns = 2
    MaxStops = 2
    PidReuse = FALSE
    MaxReboots = 1
    OperatorWaits = TRUE
    SequentialJobs = TRUE
SPECIFICATION Spec
PROPERTY AbsSpec
CHECK_DEADLOCK FALSE
