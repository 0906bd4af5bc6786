SPECIFICATION Spec
CONSTANTS
  Runs = {r1, r2}
  Servers = {s1}
  Builds = {b1}
  Paths = {p1}
  Names = {n1}
  Base <- OneName
  URLs = {}
  Bodies = {x, y}
  Options = {o1, o2}
  Unencodable = {}
  Statuses = {"success"}
  TTL = 0
  Lag = 0
  MaxClock = 0
  None = None
  Missing = Missing
  Absent = Absent
  Torn = Torn
SYMMETRY Symmetry
INVARIANTS TypeOK CacheIsOptional KeyedByContentUnlessEdited HitMatchesRequest
