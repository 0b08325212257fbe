SPECIFICATION Spec
CONSTANTS
  MaxTerminals = 2
  MaxViewers = 1
  MaxArrivals = 5
  MaxChunks = 1
CHECK_DEADLOCK FALSE
INVARIANT OutputStaysHome
