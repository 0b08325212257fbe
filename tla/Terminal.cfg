SPECIFICATION FairSpec
CONSTANTS
  MaxTerminals = 2
  MaxViewers = 3
  MaxChunks = 1
  MaxArrivals = 5
CHECK_DEADLOCK FALSE
INVARIANT DescriptorsOwned
INVARIANT LiveReadsOwn
PROPERTY ShutdownStopsAll
PROPERTY StreamEnds
