SPECIFICATION FairSpec
CONSTANTS
  Cells = {c1}
  Kinds = {2}
  Slots = {u1}
  MaxSeq = 2
  All = All
  Nobody = Nobody
PROPERTY ShellAnswers
