SPECIFICATION Spec
CONSTANTS
  A = A
  B = B
  Symbols = {A, B}
  MaxTrades = 2
  EntryQty = 4
  MinRemaining = 2
  MaxOrders = 2
  Signals <- MCSignals
  SignalOf <- TwoSymbols
  EntrySides = {"BUY"}
  MaxPositions = 1
  PortfolioMayFail = FALSE
  Handlers = {}
  Reconcilers = {job}
  ReconcilerJob = job
  ManagerScheduled = FALSE
  MaxCrashes = 0
INVARIANT
  PositionsWithinLimit
