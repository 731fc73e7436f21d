\* A background job, then a with_test job, one at a time, each stopped
\* after it started: the test run leaves the old pid file in place.
CONSTANTS
    Pid = {p1, p2, p3, p4, p5}
    NoPid = NoPid
    Empty = Empty
    Modes = {"background", "test"}
    MaxRuns = 2
    MaxStops = 2
    PidReuse = FALSE
    MaxReboots = 0
    OperatorWaits = TRUE
    SequentialJobs = TRUE
SPECIFICATION Spec
INVARIANT StopHaltsJob
SYMMETRY PidSymmetry
CHECK_DEADLOCK FALSE
