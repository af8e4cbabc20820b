SPECIFICATION FairSpec
CONSTANTS
  Handlers = {h1, h2}
  Breaker = breaker
  EnvMode = "paper"
  MaxRequests = 2
  MaxRestarts = 1
INVARIANTS
  TypeOK
  SafetyJobsRun
PROPERTIES
  LossStopsTrading
