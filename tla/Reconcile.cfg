SPECIFICATION FairSpec
CONSTANTS
  A = A
  B = B
  Symbols = {A}
  MaxTrades = 2
  EntryQty = 4
  MinRemaining = 2
  MaxOrders = 2
  Signals <- NoSignals
  SignalOf <- NoSignalOf
  EntrySides = {"BUY"}
  MaxPositions = 1
  PortfolioMayFail = TRUE
  Handlers = {h1}
  Reconcilers = {job}
  ReconcilerJob = job
  ManagerScheduled = FALSE
  MaxCrashes = 1
INVARIANT
  RowsMatchOrders
PROPERTIES
  OrphanAdopted
  GhostClosed
