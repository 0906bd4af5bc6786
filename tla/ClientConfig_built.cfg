SPECIFICATION Spec
CONSTANTS
  Clients = {c1, c2}
  Custom = {h1}
  NoClient = NoClient
  Timeouts = {t0, t1}
  DefaultTimeout = t0
  Roots = {r0, r1}
  NoRoot = NoRoot
  DefaultRoot = r0
  Keys = {k1}
  NoKey = NoKey
  MaxOptions = 2
CHECK_DEADLOCK FALSE
INVARIANTS TypeOK BuiltAsAsked
