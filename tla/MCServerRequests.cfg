CONSTANTS
  Cells = {a, b}
  Unknown = {x, y}
  LongIds = {y}
  All = All
  a = a
  b = b
  x = x
  y = y
  Requests <- MCRequests
  MaxRequests = 3
SPECIFICATION Spec
INVARIANT AnswerAccounts
PROPERTY RequestsEndUnlessLeaked
