SPECIFICATION Spec
CONSTANTS
  Names = {a, b, c}
  NoEntry = NoEntry
  Writers = {w1, w2}
  MaxSize = 2
  Interval = 1
  Freshness = {0, 1}
  MaxTime = 3
SYMMETRY Symmetry
INVARIANTS
  ListInOrderOfUse
  StaleAtMostOneInterval
CHECK_DEADLOCK FALSE
