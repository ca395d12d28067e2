\* Refuted, checked one at a time: two statements of comments, and two without
\* the exceptions that SteadyAreNamed makes
CONSTANTS
  Cells = {a, b}
  Unknown = {x, y}
  LongIds = {y}
  All = All
  a = a
  b = b
  x = x
  y = y
  Requests <- MCFew
  MaxRequests = 2
SPECIFICATION Spec
PROPERTY SuccessIsOfAll
\* PROPERTY EmptyMeansAll
\* INVARIANT NoLateAnswerCounts
\* INVARIANT NoLoginHidesFailures
