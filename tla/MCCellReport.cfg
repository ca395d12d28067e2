SPECIFICATION Spec
SYMMETRY CellSymmetry
CONSTANTS
    Cells = {c1,c2,c3}
    c1 = c1
    c2 = c2
    c3 = c3
    PackSize = 2
    MaxSendLen = 3
INVARIANTS
    ReportWellFormed
    CountIsOfTold
    WalkExcludesLogin
PROPERTIES
    RoundCovers
