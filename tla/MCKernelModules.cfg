\* The kernel modules, one at a time, with two processes.
SPECIFICATION Spec
CHECK_DEADLOCK FALSE  \* a load that failed and an oops end the run of a module
SYMMETRY ProcessSymmetry

CONSTANTS
  p1 = p1
  p2 = p2
  Process <- TwoProcesses
  SizeT = 16
  BufferBytes = 2
  Lengths = {1, 3}
  MaxMessages = 2
  Asked = {1, 3}
  Longest = 2
  MaxGot = 2
  HZ = 2
  Jiffies = 6
  Day = 2
  AskedOfTracker = {1}
  MaxJiffies = 6
  Numbers <- SomeNumbers
  Factors <- SomeFactors
  Hundredths = 100
  MinorRanges <- SomeMinorRanges
  Jobs <- TwoJobs
  Base = 3
  MaxSeconds = 2
  user1 = user1
  user2 = user2
  user3 = user3
  Nowhere = Nowhere
  UserBlocks <- ThreeBlocks
  ReminderBlocks <- FiveBlocks

INVARIANTS
  MailboxWhenAlone
  LeavesBufferOnlyByUncutLength
  ReaderGetsText
  LastUseIsTold
  ResultIsCurrent
  OneHolderAndNodesDriven
  NothingRunsUnloaded
  ShownTimeIsNotBehind
  TestsStayInTheirMemory
