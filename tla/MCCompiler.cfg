CONSTANTS
    Scripts <- MCScripts
SPECIFICATION Spec
INVARIANTS
    
    LinesTrue
    
CHECK_DEADLOCK FALSE
