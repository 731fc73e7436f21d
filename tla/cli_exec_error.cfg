\* flagscale.run raises an exception carrying the failed script's status.
CONSTANTS
    None = None
    ExitCodes <- MCExitCodes
    ToolCodes <- MCToolCodes
    Outcomes = {"return", "exec_error"}
    Cmds = {"train"}
SPECIFICATION Spec
INVARIANT ExitStatusPreserved
