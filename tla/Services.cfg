SPECIFICATION ServicesSpec
CONSTANTS
  Jobs = {j1, j2, j3}
  Workers = {w1, w2}
  MaxDbErrors = 1
  MaxCrashes = 1
  MaxAlerts = 2
  MaxTold = 2
  MaxFaults = 1
  Askers = {t1, t2}
  Tickers = {"A", "B"}
  MaxQuestions = 2
  MaxPresses = 1
  Scans = {"s1", "s2"}
  MaxMissed = 3
  Writers = {u1, u2}
  HasKey = TRUE
  MaxSettings = 2
  MaxReboots = 1
  StopLoss = 4
  TakeProfit = 24
  Buffer = 1
  Gains <- GainsV
  Shares = 5
  MaxRefusals = 1
  FeatureSets <- FeatureSetsV
  Multipliers <- MultipliersV
  Portfolios = {0, 3}
  Symbols = {"SPY", "A", "B"}
  Protected = {"SPY"}
  Discoverers = {"d1", "d2"}
  MaxRotations = 2
  Listed = {"SPY", "B"}
  TopN = 1
  Movers = {"GLD", "AAPL"}
  Pairs = {"AAPL"}
  MaxScans = 2
  Closers = {"c1", "c2"}
  Grid <- GridV
  MaxClosed = 1
  Days = {0, 7, 8, 30}
  MinTrades = 5
  MaxCommands = 3
  MaxWrites = 1
  Readers = {r1, r2}
  Ttl <- TtlV
  Probers = {p1, p2}
  Probed = {"STK_US", "CRYPTO"}
  Nobody98 = nobody
  Callers = {c1, c2}
  Nothing = nothing
  MaxApprovals = 2
  Builders = {b1, b2}
  ReportSymbols = {"A"}
  Full = 1
  Retention = 1
  MaxReports = 2
  LastDay = 2
INVARIANTS
  ServicesTypeOK
  SuccessMeansReturned
  AskedOrdersHaveAnApproval
  MissedIsQueued
  SecretsStaySealed
  ProfitIsLocked
  TradesAreAnalysed
  ProtectedStayApproved
  HeldStayActive
  StrongIsAgreed
  ToldOnceADay
  FreshEnough
  IdIsFreed
  OnePressOneOrder
  LinksLive
PROPERTIES
  TerminalIsFinal
  NoNoticeAfterMark
  MeasuredOnce
  JobsKeepBoard
  EveryJobEnds
  MovedAlertsFire
  EveryQuestionEnds
  ConnectionComesBack
  LossIsCut
  HeldBecomesTradable
  EveryCommandEnds
CHECK_DEADLOCK FALSE
