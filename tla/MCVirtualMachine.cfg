CONSTANTS
    MaxTaskStack = 3
    MaxCalcStack = 4
    MaxScopeStack = 2
    CompileTime = FALSE
    MaxEvals = 2
SPECIFICATION FairSpec
INVARIANTS
    TypeOK
    CurTaskIsTop
    TaskLimit
    ExceptionFirst
    NoStaleTask
    FramesBalanced
PROPERTIES
    TimeStopEnds
