CONSTANTS
    MaxTaskStack = 3
    MaxCalcStack = 3
    MaxScopeStack = 3
    CompileTime = FALSE
    MaxEvals = 3
SPECIFICATION ConsoleSpec
INVARIANTS
    ConsoleTypeOK
    ResetRecovers
    OneResult
