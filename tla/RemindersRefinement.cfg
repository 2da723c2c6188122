SPECIFICATION FairSpec
CONSTANTS
  UserName = {n1, n2}
  UserBlock = {u1, u2}
  ReminderBlock = {r1, r2, r3}
  Times = {1, 2}
  Horizon = 2
  Floor = 0
INVARIANT NoneOverdue
PROPERTIES
  ImplementsCalendar
  EveryReminderEnds
