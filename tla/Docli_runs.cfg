SPECIFICATION FairSpec
CONSTANTS
  Lines <- MCLines
  Later <- MCLater
  MaxRuns = 2
  Documents <- MCDocuments
  MaxChunks = 2
CHECK_DEADLOCK FALSE
INVARIANTS TypeOK SentIsWhatWasSet AnswersThisLine PrintsTheDocument ZeroMeansDone
PROPERTIES QuietAfterInterrupt InterruptedEnds RunEnds
