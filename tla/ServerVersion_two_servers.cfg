SPECIFICATION VersionSpec
CONSTANTS
  Runs = {r1, r2}
  Servers = {s1, s2}
  Builds = {b1, b2}
  TTL = 1
  Lag = 1
  MaxClock = 1
  None = None
  Absent = Absent
  Torn = Torn
INVARIANTS VersionIsTheServers
