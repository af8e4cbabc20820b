SPECIFICATION LearnFairSpec
CONSTANTS
  Closers = {"c1"}
  Grid = {}
  MaxClosed = 10
  Days = {0}
  MinTrades = 5
PROPERTIES
  TradesReachTraining
CHECK_DEADLOCK FALSE
