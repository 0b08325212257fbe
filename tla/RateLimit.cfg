SPECIFICATION Spec
CONSTANTS
  r1 = r1
  r2 = r2
  Replicas = {r1, r2}
  Limit = 2
  Window = 2
  MaxRequests = 3
  MaxClock = 4
  MaxRestarts = 1
SYMMETRY Symmetry
CHECK_DEADLOCK FALSE
INVARIANT ReplicaBound
INVARIANT SharedBound
