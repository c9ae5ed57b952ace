\* Three requests: two trip the breakers of two backends, the third meets them.
SPECIFICATION FairSpec
CONSTANTS
  Requests = {r1, r2, r3}
  N = 2
  Attempts = 2
  OnStatus = {"server_error"}
  OnConnectError = TRUE
  Threshold = 1
  Cooldown = 1
  CounterMax = 2
  MaxTime = 1
INVARIANTS
  TypeOK RetriesWithinPolicy OneOutcomePerForward RejectedByEveryBackend FailuresRotateOut
  RoundRobinEven OpenBackendLeftAlone
PROPERTIES EveryRequestEnds
