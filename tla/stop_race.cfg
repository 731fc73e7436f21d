\* Stop issued right after the background run script returned, before
\* `bash -c` has forked the workload.
CONSTANTS
    Pid = {p1, p2, p3, p4, p5}
    NoPid = NoPid
    Empty = Empty
    Modes = {"background"}
    MaxRuns = 1
    MaxStops = 2
    PidReuse = FALSE
    MaxReboots = 0
    OperatorWaits = FALSE
    SequentialJobs = TRUE
SPECIFICATION Spec
INVARIANT StopHaltsJob
SYMMETRY PidSymmetry
CHECK_DEADLOCK FALSE
