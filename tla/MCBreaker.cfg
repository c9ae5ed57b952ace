\* Three callers, trip after two failures, a counter that wraps.
CONSTANTS
  Threads = {t1, t2, t3}
  Threshold = 2
  Cooldown = 2
  CounterMax = 3
  MaxTime = 3
  MaxFailures = 4
SYMMETRY ThreadSymmetry
SPECIFICATION Spec
INVARIANTS TypeOK CountExact ArmedWhenTripped RearmedByNextFailure
PROPERTIES RejectsOnlyWithinCooldown
