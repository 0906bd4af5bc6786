SPECIFICATION Spec
CONSTANTS
  Lines <- MCLines
  Later <- MCLater
  MaxRuns = 1
  Documents <- MCDocuments
  MaxChunks = 2
CHECK_DEADLOCK FALSE
INVARIANTS UntouchedIsNotSent
