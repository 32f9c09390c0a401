CONSTANTS
    MaxTaskStack = 4
    MaxCalcStack = 4
    MaxScopeStack = 3
    CompileTime = TRUE
    MaxEvals = 1
SPECIFICATION Spec
INVARIANT HandlerSees
CHECK_DEADLOCK FALSE
