SPECIFICATION Spec
CONSTANTS
  A = A
  B = B
  Symbols = {A}
  MaxTrades = 1
  EntryQty = 4
  MinRemaining = 2
  MaxOrders = 2
  Signals <- NoSignals
  SignalOf <- NoSignalOf
  EntrySides = {"BUY"}
  MaxPositions = 1
  PortfolioMayFail = FALSE
  Handlers = {h1}
  Reconcilers = {job}
  ReconcilerJob = job
  ManagerScheduled = TRUE
  MaxCrashes = 0
INVARIANT
  ExitsOnlyOpenTrades
