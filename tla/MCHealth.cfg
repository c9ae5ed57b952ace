SPECIFICATION SpecHealth
CONSTANTS
  Requests = {r1, r2}
  N = 1
  Attempts = 1
  OnStatus = {}
  OnConnectError = FALSE
  Threshold = 2
  Cooldown = 1
  CounterMax = 4
  MaxTime = 2
  UnhealthyThreshold = 2
  HealthyThreshold = 2
SYMMETRY RequestSymmetry
INVARIANTS FailedProbesTrip GoodProbesRecover
