CONSTANTS
    MaxPools = 1
    MaxItems = 2
    MaxOrders = 3
SPECIFICATION Spec
INVARIANTS
    TableHoldsDefaults
    CellListsFit
