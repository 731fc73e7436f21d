\* Commands that use get_action; flagscale.run ends in every way but an
\* exception carrying an exit status.
CONSTANTS
    None = None
    ExitCodes <- MCExitCodes
    ToolCodes <- MCToolCodes
    Outcomes = {"return", "exit_none", "exit_0", "exit_code", "config_error"}
    Cmds = {"train", "inference", "rl"}
SPECIFICATION Spec
INVARIANTS
    TypeOK
    SingleIntent
    PullSucceededComplete
