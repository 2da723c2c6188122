SPECIFICATION FairSpec
CONSTANTS
  Writer = {w1, w2}
  Frame = {black, red}
  Chunks = 2
  Blank = black
CHECK_DEADLOCK FALSE
INVARIANTS
  BufferOutlivesCalls
  PinMatchesTransfer
  SettledScreenIsBuffer
PROPERTIES
  WritesReturn
