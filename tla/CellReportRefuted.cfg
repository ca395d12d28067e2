\* Three statements of comments that fail, to be checked one at a time.
SPECIFICATION Spec
CONSTANTS
    Cells = {c1, c2, c3}
    c1 = c1
    c2 = c2
    c3 = c3
    PackSize = 1
    MaxSendLen = 4
PROPERTY NewAreTold
\* PROPERTY RoundCoversAlways
\* INVARIANT NoFreedNode
