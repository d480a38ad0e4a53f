SPECIFICATION SpecFair
CONSTANTS
  Jobs = {j1, j2, j3}
  PoolSize = 2
  MaxStarts = 2
  None = None
INVARIANTS
  Fifo
  NoLostWakeup
  QuietWhenStopped
PROPERTIES
  ImplementsPool
  EveryJobTaken
  ShutdownReturns
CHECK_DEADLOCK FALSE
