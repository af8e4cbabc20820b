SPECIFICATION Spec
CONSTANTS
  Handlers = {h1}
  Breaker = breaker
  EnvMode = "paper"
  MaxRequests = 1
  MaxRestarts = 1
PROPERTY
  PausedAfterRestart
