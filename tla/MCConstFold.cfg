CONSTANTS
    Commands <- MCCommands
    MaxCommands = 3
    ExecTm = 2
SPECIFICATION Spec
INVARIANTS
    FoldedSame
    OnlyRaises
    OnlyValueDiffers
CHECK_DEADLOCK FALSE
