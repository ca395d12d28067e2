SPECIFICATION Spec
CONSTANTS
  Cells = {c1}
  Kinds = {4}
  Slots = {u1}
  MaxSeq = 2
  All = All
  Nobody = Nobody
\* Refuted, checked one at a time
INVARIANT SuccessIsAnswered
\* INVARIANT NoLateReplyCounts
