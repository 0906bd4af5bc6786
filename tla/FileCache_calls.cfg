SPECIFICATION FairSpec
CONSTANTS
  Clients = {c1, c2}
  Keys = {k1}
  Responses = {r1, r2}
  Files = {f1, f2}
INVARIANTS TypeOK NoPartialEntry WritersAreAlone NoLeakedTemp
PROPERTIES EntriesAreImmutable ImplementsAtomicCache CallsReturn
