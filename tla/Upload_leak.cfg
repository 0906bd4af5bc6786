SPECIFICATION FairSpec
CONSTANTS
  MaxFiles = 1
  Pieces = 1
CHECK_DEADLOCK FALSE
PROPERTIES EveryProducerEnds
