SPECIFICATION FairSpec
CONSTANTS
  Cells = {c1}
  Addrs = {a1, a2}
  Versions = {v1}
INVARIANTS
  TypeOK
  DirtyIsFlagged
  RowsHaveNodes
  HandlersHaveNodes
PROPERTIES
  AlarmSettles
  PendingIsWritten
