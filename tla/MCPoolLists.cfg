SPECIFICATION ListSpec
SYMMETRY NodeSymmetry
CONSTANTS
    Nodes = {n1, n2, n3}
    Null = Null
    MaxItems = 3
    MaxPools = 2
INVARIANTS
    WellLinked
PROPERTIES
    ImplementsSequences
    SpecifyIsCommand
