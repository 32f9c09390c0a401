CONSTANTS
    MaxTaskStack = 4
    MaxCalcStack = 4
    MaxScopeStack = 3
    CompileTime = TRUE
    MaxEvals = 2
SPECIFICATION Spec
INVARIANTS
    CurTaskIsTop
    FramesBalanced
CHECK_DEADLOCK FALSE
