SPECIFICATION Spec
CONSTANTS
  A = A
  B = B
  Symbols = {A}
  MaxTrades = 2
  EntryQty = 4
  MinRemaining = 2
  MaxOrders = 2
  Signals <- MCSignals
  SignalOf <- SameSymbol
  EntrySides = {"BUY"}
  MaxPositions = 1
  PortfolioMayFail = TRUE
  Handlers = {h1}
  Reconcilers = {job}
  ReconcilerJob = job
  ManagerScheduled = FALSE
  MaxCrashes = 0
INVARIANTS
  TypeOK
  RowsMatchOrders
  BatchIsPending
PROPERTIES
  TableIsLedger
