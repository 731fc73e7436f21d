\* `flagscale compress` and `flagscale compress --stop`, without --config,
\* from the repository root c1 or another directory r1, over every
\* deployment MCLaunch lists.
CONSTANTS
    m1 = m1
    m2 = m2
    m3 = m3
    r1 = r1
    c1 = c1
    LocalHost = LocalHost
    NoHostfile = NoHostfile
    Missing = Missing
    None = None
    ExitCodes <- MCExitCodes
    Outcomes = {"return", "config_error"}
    Cmds = {"compress"}
    ToolCodes = {0}
    Machines <- MCMachines
    Hostfiles <- MCHostfiles
    Roots <- MCRoots
    Cwds = {c1, r1}
    ExpDirs <- MCExpDirs
    LogDirs <- MCLogDirs
    MaxInvocations = 3
    ConfigDirs = {c1}
    ConfigFlags = {FALSE}
    MaxProcesses = 3
    MaxIoErrors = 1
SPECIFICATION Spec
CHECK_DEADLOCK FALSE
