-------------------------- MODULE MCRemindersView --------------------------
(* A smaller createSimpleNotificationsModel: two of its users, the first   *)
(* added twice as there, and three reminders, two of them due in the same  *)
(* tick.  Time is scaled down: five seconds are one tick.                  *)
EXTENDS RemindersView

CONSTANTS valenti, alex, u1, u2, r1, r2, r3

Names == {valenti, alex}
UserBlocks == {u1, u2}
Blocks == {r1, r2, r3}
Seconds == {2, 3}

AddedUsers == << valenti, alex, valenti >>
AddedReminders == <<
  [name |-> valenti, time |-> 2], [name |-> alex, time |-> 3], [name |-> valenti, time |-> 3] >>
=============================================================================
