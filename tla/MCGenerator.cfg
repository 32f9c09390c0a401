CONSTANTS
    MaxCompare = 3
    MaxSpurious = 2
SPECIFICATION FairSpec
INVARIANTS
    TypeOK
    OwnAnswer
    Turns
    HangOnlyIfDropped
PROPERTIES
    SortEnds
    ImplementsCoroutine
CHECK_DEADLOCK FALSE
