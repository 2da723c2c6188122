SPECIFICATION Spec
CONSTANTS
  n1 = n1  n2 = n2
  u1 = u1  u2 = u2
  r1 = r1  r2 = r2  r3 = r3  r4 = r4
  UserName <- Names
  UserBlock <- Users
  ReminderBlock <- Blocks
  Times <- MixedTimes
  Floor <- Lowest
SYMMETRY Symmetry
INVARIANTS
  NoDanglingPointers
  NoLeak
  ListsAgree
  SortedByTime
