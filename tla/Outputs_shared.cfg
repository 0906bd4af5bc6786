SPECIFICATION Spec
CONSTANTS
  Runs = {r1, r2}
  Formats = {md, json}
  MaxFormats = 2
  Absent = Absent
  Empty = Empty
  Torn = Torn
SYMMETRY Symmetry
CHECK_DEADLOCK FALSE
INVARIANTS TypeOK OkIsDelivered FailureLeavesNothing StatusIsReported
