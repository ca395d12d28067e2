\* Five statements that fail, to be checked one at a time: three of comments, and
\* two without the exceptions that CellsHaveNodePools and UpdatedRowsAreLoaded make.
CONSTANTS
    Cells = {c1, c2}
    DefaultAlgos = {"BTC"}
    MaxCommands = 2
    MaxFaults = 1
SYMMETRY CellSymmetry
SPECIFICATION Spec
INVARIANT PoolsAreLoaded
\* INVARIANT ChangedAreSent
\* INVARIANT OnlySpecifiedCells
\* INVARIANT AllCellsAreTold
\* INVARIANT UnreadRowsAreLoaded
