CONSTANTS
    Tasks <- MCTasks
    Elements = {40, 50}
    Undefined = Undefined
    Words = 64
    MaxSteps = 4
SPECIFICATION Spec
INVARIANTS
    InOrder
    ResultMeant
    RootBracketed
    AsksBounded
CHECK_DEADLOCK FALSE
