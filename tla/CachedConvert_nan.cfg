SPECIFICATION Spec
CONSTANTS
  Runs = {r1}
  Servers = {s1}
  Builds = {b1}
  Paths = {p1, p2}
  Names = {p1, p2}
  Base <- OwnNames
  URLs = {}
  Bodies = {x}
  Options = {o1}
  Unencodable = {o1}
  Statuses = {"success"}
  TTL = 0
  Lag = 0
  MaxClock = 0
  None = None
  Missing = Missing
  Absent = Absent
  Torn = Torn
INVARIANTS HitMatchesRequest
