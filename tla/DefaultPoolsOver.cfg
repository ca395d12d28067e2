\* Refuted, checked one at a time
CONSTANTS
    MaxPools = 2
    MaxItems = 3
    MaxOrders = 2
SPECIFICATION Spec
INVARIANT AtMostMaxPools
\* INVARIANT NoListOutgrows
\* INVARIANT TableIsGiven
