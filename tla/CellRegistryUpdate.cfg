SPECIFICATION Spec
CONSTANTS
  Cells = {c1}
  Addrs = {a1, a2}
  Versions = {v1, v2}
\* Refuted, checked one at a time
PROPERTY UpdateAfterInsert
\* INVARIANT AnsweredNodeStays
