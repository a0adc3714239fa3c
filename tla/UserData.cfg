SPECIFICATION Spec
CONSTANTS
    Cmds <- TwoCmds
    MaxLines = 8
INVARIANTS
    BareMetalRunsFirst
    InstanceRunsFirst
CHECK_DEADLOCK FALSE
