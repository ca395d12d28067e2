CONSTANTS
  Cells = {a, b}
  Unknown = {x, y}
  LongIds = {y}
  All = All
  a = a
  b = b
  x = x
  y = y
  Requests <- MCFew
  MaxRequests = 2
SPECIFICATION Spec
PROPERTY RequestsEnd
