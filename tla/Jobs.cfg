SPECIFICATION FairSpec
CONSTANTS
  a1 = a1
  a2 = a2
  w1 = w1
  Admins = {a1, a2}
  Watchers = {w1}
  MaxLogs = 2
  MaxLines = 2
CHECK_DEADLOCK FALSE
INVARIANTS
  CancelReachesInstaller
  FinishedIsStopped
  CompletedMeansExitedZero
  SentInOrder
PROPERTIES
  NeverReopened
  JobSettles
  WatchEnds
