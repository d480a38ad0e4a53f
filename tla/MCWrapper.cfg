SPECIFICATION SpecFair
CONSTANTS
  Prefixes = {p1, p2}
  Callbacks = {c1, c2}
  Interests = {i1}
  None = None
  MaxDeaths = 2
  MaxOps = 3
  MaxQueue = 1
INVARIANTS
  FiltersMatchRecord
  QuietAfterShutdown
PROPERTIES
  ShutdownCompletes
CHECK_DEADLOCK FALSE
