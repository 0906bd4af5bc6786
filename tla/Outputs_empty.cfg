SPECIFICATION Spec
CONSTANTS
  Runs = {r1}
  Formats = {md, json}
  MaxFormats = 2
  Absent = Absent
  Empty = Empty
  Torn = Torn
CHECK_DEADLOCK FALSE
INVARIANTS NothingWrittenIfOneIsEmpty
