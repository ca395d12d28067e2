CONSTANTS
    MaxPools = 2
    MaxItems = 3
    MaxOrders = 2
SPECIFICATION Spec
INVARIANT CellGetsOneOrder
