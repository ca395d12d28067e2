CONSTANTS
    Cells = {c1, c2}
    DefaultAlgos = {"BTC"}
    MaxCommands = 2
    MaxFaults = 1
SYMMETRY CellSymmetry
SPECIFICATION Spec
CONSTRAINT Looked
INVARIANTS
    PoolsWellFormed
    CellsHaveNodePools
    UpdatedRowsAreLoaded
