SPECIFICATION FairSpec
CONSTANTS
  NTasks = 3
  Delay <- Delays
  Total <- Totals
CHECK_DEADLOCK FALSE
INVARIANTS
  DataOutlivesThreads
  PrintsOncePerDelay
PROPERTY LoadingEnds
