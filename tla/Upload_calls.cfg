SPECIFICATION FairSpec
CONSTANTS
  MaxFiles = 2
  Pieces = 2
CHECK_DEADLOCK FALSE
INVARIANTS TypeOK CleanEndIsWhole OkIsWhole
PROPERTIES CallReturns ProducerEnds
