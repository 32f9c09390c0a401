CONSTANTS
    Uses <- StacksAndQueues
    Sizes <- LiteralSizes
    MaxOps = 12
SPECIFICATION Spec
INVARIANTS
    WellFormed
    Contents
    Shallow
CHECK_DEADLOCK FALSE
