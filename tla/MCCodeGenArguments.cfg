CONSTANTS
    Programs <- MCCalls
    Bases <- MCBases
    FreshStorePos <- MCFresh
    Spreads <- MCSpreads
    MaxCalcStack = 14
    MaxScopeStack = 4
SPECIFICATION Spec
INVARIANTS
    OwnList
CHECK_DEADLOCK FALSE
