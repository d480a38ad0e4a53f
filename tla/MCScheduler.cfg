SPECIFICATION SpecFair
CONSTANTS
  one1 = one1
  one2 = one2
  per = per
  A = A
  B = B
  None = None
  Tasks <- MCTasks
  Tags <- MCTags
  Tag <- MCTag
  Periodic <- MCPeriodic
  MaxOps = 4
  MaxStarts = 2
INVARIANTS
  TimersFollowMap
  RunsOncePerReset
PROPERTIES
  RegisteredTaskRuns
CHECK_DEADLOCK FALSE
