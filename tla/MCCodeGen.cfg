CONSTANTS
    Programs <- MCPrograms
    Bases <- MCBases
    FreshStorePos <- MCFresh
    Spreads <- MCSpreads
    MaxCalcStack = 14
    MaxScopeStack = 4
SPECIFICATION Spec
INVARIANTS
    TypeOK
    OneValueLeft
    CallerUntouched
    OwnList
    NoPileUp
CHECK_DEADLOCK FALSE
