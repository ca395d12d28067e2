SPECIFICATION Spec
CONSTANTS
  Cells = {c1}
  Kinds = {2}
  Slots = {u1}
  MaxSeq = 1
  All = All
  Nobody = Nobody
INVARIANT IdleMeansPolled
