SPECIFICATION Spec
CONSTANTS
  Requests = {r1, r2}
  Buckets = 1
  Statuses = {"1xx", "2xx"}
SYMMETRY RequestSymmetry
INVARIANTS HistogramMonotone CountersReconcile
