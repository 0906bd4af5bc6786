SPECIFICATION Spec
CONSTANTS
  Runs = {r1, r2}
  Servers = {s1}
  Builds = {b1, b2}
  Paths = {}
  Names = {}
  Base <- OneName
  URLs = {u1}
  Bodies = {x}
  Options = {o1}
  Unencodable = {}
  Statuses = {"success"}
  TTL = 0
  Lag = 0
  MaxClock = 1
  None = None
  Missing = Missing
  Absent = Absent
  Torn = Torn
SYMMETRY Symmetry
INVARIANTS MisfiledOnlyWithinTTL
PROPERTIES VersionsAreFresh
