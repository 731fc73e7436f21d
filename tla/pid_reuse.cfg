\* The host reboots between a background run and its stop; within a boot
\* no pid is reused.
CONSTANTS
    Pid = {p1, p2, p3, p4, p5}
    NoPid = NoPid
    Empty = Empty
    Modes = {"background"}
    MaxRuns = 1
    MaxStops = 2
    PidReuse = FALSE
    MaxReboots = 1
    OperatorWaits = FALSE
    SequentialJobs = FALSE
SPECIFICATION Spec
PROPERTY PidBranchSparesForeign
SYMMETRY PidSymmetry
CHECK_DEADLOCK FALSE
