\* The string converter: two writers, and messages shorter and longer than
\* the buffer.
SPECIFICATION ConverterSpec
CHECK_DEADLOCK FALSE  \* an oops and an overrun end the run of the module
SYMMETRY ProcessSymmetry

CONSTANTS
  p1 = p1
  p2 = p2
  Process <- TwoProcesses
  SizeT = 16  \* not used
  Messages <- SomeMessages
  BUFFER_SIZE = 4

INVARIANTS
  MessageIsConverted
