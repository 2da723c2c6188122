SPECIFICATION FairSpec
CONSTANT Period <- Periods
CHECK_DEADLOCK FALSE
INVARIANTS
  OneTickThread
PROPERTIES
  TimersKeepGoing
