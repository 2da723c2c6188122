------------------------ MODULE RemindersRefinement ------------------------
(***************************************************************************)
(* The reminders model implements the calendar: adding, removing, ticking  *)
(* and cleaning up on the linked lists is scheduling, cancelling, passing  *)
(* of time and closing on the calendar, and the loop of handle_timer_tick  *)
(* announces each reminder exactly in the tick it was set for, and those   *)
(* set for one tick in the order they were added.                          *)
(***************************************************************************)
EXTENDS Reminders

CONSTANT Horizon  \* at least every time clients ask for

ASSUME HorizonAssumption == Horizon \in Nat

\* What each name in use lists.
NamesIn(us) == {us[u].user_name : u \in DOMAIN us}
AgendaOf(us) ==
  [n \in NamesIn(us) |->
     us[CHOOSE u \in DOMAIN us : us[u].user_name = n].notifications_list]

\* The ticks that each position of reminders_list still waits, the number
\* of positions that wait at most k of them, and those that wait k.
TicksLeft == [i \in DOMAIN reminders_list |-> Left(i)]
Within(left, k) == Cardinality({i \in DOMAIN left : left[i] <= k})
Waiting(s, left, k) == SubSeq(s, Within(left, k - 1) + 1, Within(left, k))

\* The calendar that the lists stand for.  While users are already gone and
\* reminders are being freed it is closed.
Agenda == AgendaOf(user)
Due ==
  [k \in 0 .. Horizon |-> IF closing THEN << >> ELSE Waiting(reminders_list, TicksLeft, k)]

Refined == INSTANCE Calendar WITH
  Name <- UserName, Item <- ReminderBlock, agenda <- Agenda, due <- Due

\* Every step of the library is a step of the calendar or leaves it alone.
ImplementsCalendar == Refined!Spec
=============================================================================
