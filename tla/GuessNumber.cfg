SPECIFICATION Spec
CONSTANTS
  upperRangeLimit = 3
  Number = {0, 1, 2, 3, 4}
  Count = {0, 1, 2}
CHECK_DEADLOCK FALSE
INVARIANT FirstParameterIsFirstGuess
