SPECIFICATION Spec
CONSTANTS
    Cmds <- TwoCmds
    MaxLines = 8
INVARIANTS
    CloudConfigGetsCommands
CHECK_DEADLOCK FALSE
