SPECIFICATION ViewFairSpec
CONSTANTS
  valenti = valenti  alex = alex
  u1 = u1  u2 = u2
  r1 = r1  r2 = r2  r3 = r3
  UserName <- Names
  UserBlock <- UserBlocks
  ReminderBlock <- Blocks
  Times <- Seconds
  Floor = 0
  Users <- AddedUsers
  Script <- AddedReminders
CHECK_DEADLOCK FALSE
INVARIANTS
  ButtonsMatchQueue
  ClicksAndScrollsFindTheirTarget
PROPERTY EveryReminderIsAnnounced
