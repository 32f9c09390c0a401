CONSTANTS
    n1 = n1
    n2 = n2
    n3 = n3
    n4 = n4
    Names <- MCNames
    Values = {1, 2}
    Bases <- MCBases
    HashSizes <- MCHashSizes
    MaxHash = 3
SPECIFICATION Spec
SYMMETRY MCSymmetry
INVARIANTS
    TypeOK
    NeverFull
    Findable
PROPERTIES
    ImplementsMap
