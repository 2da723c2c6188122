SPECIFICATION LoggerFairSpec
CONSTANTS
  Thread = {t1, t2}
  MaxCalls = 4
CHECK_DEADLOCK FALSE
INVARIANTS
  OneMessageShort
PROPERTIES
  SomeCallReturns
