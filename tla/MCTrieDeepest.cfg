SPECIFICATION Spec
CONSTANTS
  a = a
  b = b
  Names <- MCNames
  Pre <- MCPre
  Preds <- MCPreds
  Root <- MCRoot
  NoNode = NoNode
  Policies = {"lru", "fifo", "lfu", "persistent", "counting"}
  Sizes = {0, 1, 2}
  MaxStored = 3
  MaxFreq = 1
INVARIANT DeepestIsBelow
