\* serve and compress pick their action by a priority chain.
CONSTANTS
    None = None
    ExitCodes <- MCExitCodes
    ToolCodes <- MCToolCodes
    Outcomes = {"return"}
    Cmds = {"serve", "compress"}
SPECIFICATION Spec
INVARIANT SingleIntent
