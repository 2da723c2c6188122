------------------------------ MODULE Reminders ------------------------------
(***************************************************************************)
(* The reminders model: the library behind the notification screen         *)
(* (final_task, reminders_model.c) and behind the task 8 program and       *)
(* kernel module.  It keeps two intrusive lists, users_list and            *)
(* reminders_list, and in every user a third one with the reminders of     *)
(* that user.  All blocks are malloc'ed; every reminder hangs in two lists *)
(* at once and points back to its user.                                    *)
(*                                                                         *)
(* The heap is a pair of functions, user and reminder, whose domains are   *)
(* the blocks that are allocated now: malloc extends a domain with any     *)
(* block that is not in it, free removes one.  A list is the sequence of   *)
(* the blocks linked in it (LinkedList.tla shows that the pointers do      *)
(* represent a sequence).                                                  *)
(*                                                                         *)
(* The library is single-threaded, so a call is one action, except         *)
(* handle_timer_tick: its loop calls out to the application for every      *)
(* reminder that expires, in the middle of the walk, and therefore it is   *)
(* one step per reminder visited.                                          *)
(***************************************************************************)
EXTENDS Integers, Sequences, FiniteSets, SequencesExt

CONSTANTS
  UserName,       \* the names clients pass in
  UserBlock,      \* the addresses malloc may return for a user_t
  ReminderBlock,  \* the addresses malloc may return for a reminder_t
  Times,          \* the times clients pass to add_user_reminder
  Floor           \* a bound: no tick starts once a remaining time is this low

ASSUME RemindersAssumption == Times \subseteq Int /\ Floor \in Int

VARIABLES
  users_list,      \* the users, oldest first
  reminders_list,  \* all pending reminders, the next one to expire first
  user,            \* allocated user blocks -> user_t
  reminder,        \* allocated reminder blocks -> reminder_t
  tick,            \* 0, or the position handle_timer_tick visits next
  closing          \* cleanup_users has run, cleanup_reminders is next

vars == <<users_list, reminders_list, user, reminder, tick, closing>>

-----------------------------------------------------------------------------
(* The heap: a block is allocated by Put and freed by Drop.                *)

Put(f, x, v) == [y \in DOMAIN f \cup {x} |-> IF y = x THEN v ELSE f[y]]
DropNothing(f, x) == f           \* mutant: a forgotten free
Drop(f, x) == [y \in DOMAIN f \ {x} |-> f[y]]
NoBlocks == [y \in {} |-> {}]

user_t == [user_name : UserName, notifications_list : Seq(ReminderBlock)]
reminder_t == [belongs_to : UserBlock, ellapse_time : Int]

Init ==
  /\ users_list = << >>
  /\ reminders_list = << >>
  /\ user = NoBlocks
  /\ reminder = NoBlocks
  /\ tick = 0
  /\ closing = FALSE

\* No call of the library is running and its lists are in use.
Idle == tick = 0 /\ ~closing

\* find_user_entry returns the entry at position i of users_list.
FindUserEntry(i, name) ==
  /\ i \in DOMAIN users_list
  /\ user[users_list[i]].user_name = name
  /\ \A j \in 1 .. i - 1 : user[users_list[j]].user_name # name

IsUserExists(name) == \E i \in DOMAIN users_list : user[users_list[i]].user_name = name

\* insert_reminder_entry_to_global_list puts a reminder due in t ticks at
\* position k: before the first entry that is due strictly later.
InsertPositionLast(k, t) == k = Len(reminders_list) + 1  \* mutant: plain list_add_tail
InsertPositionLifo(k, t) ==                              \* mutant: >= for >
  /\ k \in 1 .. Len(reminders_list) + 1
  /\ \A j \in 1 .. k - 1 : reminder[reminders_list[j]].ellapse_time < t
  /\ k <= Len(reminders_list) => reminder[reminders_list[k]].ellapse_time >= t
InsertPosition(k, t) ==
  /\ k \in 1 .. Len(reminders_list) + 1
  /\ \A j \in 1 .. k - 1 : reminder[reminders_list[j]].ellapse_time <= t
  /\ k <= Len(reminders_list) => reminder[reminders_list[k]].ellapse_time > t

\* list_del on the user_notify_list of r, which hangs in the list of u.
UnlinkedFirst(u, r) ==                                   \* mutant: deletes the first entry
  [user EXCEPT ![u].notifications_list = Tail(@)]
Unlinked(u, r) == [user EXCEPT ![u].notifications_list = RemoveFirst(@, r)]

\* The tick that decrements ellapse_time now brings it to 0.
BecomesDueLate(r) == reminder[r].ellapse_time = 0        \* mutant: tests, then decrements
BecomesDueNever(r) == FALSE                              \* mutant: expiry is lost
BecomesDue(r) == reminder[r].ellapse_time - 1 = 0

-----------------------------------------------------------------------------
(* The calls of the library.                                               *)

\* A known name or a failing malloc changes nothing.
AddNewUser(name) ==
  /\ Idle
  /\ \/ UNCHANGED <<users_list, user>>
     \/ /\ ~IsUserExists(name)
        /\ \E u \in UserBlock \ DOMAIN user :
             /\ user' = Put(user, u, [user_name |-> name, notifications_list |-> << >>])
             /\ users_list' = Append(users_list, u)
  /\ UNCHANGED <<reminders_list, reminder, tick, closing>>

\* An unknown name or a failing malloc changes nothing.
AddUserReminder(name, t) ==
  /\ Idle
  /\ \/ UNCHANGED <<reminders_list, user, reminder>>
     \/ \E i \in DOMAIN users_list, r \in ReminderBlock \ DOMAIN reminder,
           k \in 1 .. Len(reminders_list) + 1 :
          LET u == users_list[i] IN
          /\ FindUserEntry(i, name)
          /\ InsertPosition(k, t)
          /\ user' = [user EXCEPT ![u].notifications_list = Append(@, r)]
          /\ reminders_list' = InsertAt(reminders_list, k, r)
          /\ reminder' = Put(reminder, r, [belongs_to |-> u, ellapse_time |-> t])
  /\ UNCHANGED <<users_list, tick, closing>>

\* The reminders of the user stay where they are.
RemoveUser(name) ==
  /\ Idle
  /\ \/ ~IsUserExists(name) /\ UNCHANGED <<users_list, user>>
     \/ \E i \in DOMAIN users_list :
          /\ FindUserEntry(i, name)
          /\ users_list' = RemoveAt(users_list, i)
          /\ user' = Drop(user, users_list[i])
  /\ UNCHANGED <<reminders_list, reminder, tick, closing>>

\* Reminders of a user are numbered from 1 in the order they were added.
RemoveUserNotification(name, number) ==
  /\ Idle
  /\ \/ /\ \A i \in DOMAIN users_list :
             FindUserEntry(i, name) =>
               number \notin DOMAIN user[users_list[i]].notifications_list
        /\ UNCHANGED <<reminders_list, user, reminder>>
     \/ \E i \in DOMAIN users_list, p \in DOMAIN reminders_list :
          LET u == users_list[i] IN
          /\ FindUserEntry(i, name)
          /\ number \in DOMAIN user[u].notifications_list
          /\ reminders_list[p] = user[u].notifications_list[number]
          /\ user' = Unlinked(u, reminders_list[p])
          /\ reminders_list' = RemoveAt(reminders_list, p)
          /\ reminder' = Drop(reminder, reminders_list[p])
  /\ UNCHANGED <<users_list, tick, closing>>

\* handle_timer_tick enters its loop.
TickStart ==
  /\ Idle
  /\ \A r \in DOMAIN reminder : reminder[r].ellapse_time > Floor
  /\ tick' = 1
  /\ UNCHANGED <<users_list, reminders_list, user, reminder, closing>>

\* The loop visits a reminder that does not become due.
CountDown ==
  /\ tick \in DOMAIN reminders_list
  /\ LET r == reminders_list[tick] IN
       /\ ~BecomesDue(r)
       /\ reminder' = [reminder EXCEPT ![r].ellapse_time = @ - 1]
  /\ tick' = tick + 1
  /\ UNCHANGED <<users_list, reminders_list, user, closing>>

\* The loop visits a reminder that becomes due: handle_reminder_expired
\* unlinks it from both lists, tells the application, and frees it.  What
\* was the next entry has moved to this position.
Expire ==
  /\ tick \in DOMAIN reminders_list
  /\ LET r == reminders_list[tick]
         u == reminder[r].belongs_to IN
       /\ BecomesDue(r)
       /\ reminders_list' = RemoveAt(reminders_list, tick)
       /\ user' = Unlinked(u, r)
       /\ reminder' = Drop(reminder, r)
  /\ UNCHANGED <<users_list, tick, closing>>

TickEnd ==
  /\ tick = Len(reminders_list) + 1
  /\ tick' = 0
  /\ UNCHANGED <<users_list, reminders_list, user, reminder, closing>>

CleanupUsers ==
  /\ Idle
  /\ users_list' = << >>
  /\ user' = NoBlocks
  /\ closing' = TRUE
  /\ UNCHANGED <<reminders_list, reminder, tick>>

CleanupReminders ==
  /\ closing
  /\ reminders_list' = << >>
  /\ reminder' = NoBlocks
  /\ closing' = FALSE
  /\ UNCHANGED <<users_list, user, tick>>

-----------------------------------------------------------------------------
(* What clients call.  No caller removes a user who still has reminders    *)
(* (remove_user would leave their belongs_to dangling), and every caller   *)
(* that has reminders left follows cleanup_users by cleanup_reminders.     *)

ClientRemovesUserUnasked(name) == RemoveUser(name)       \* mutant: reminders are not looked at
ClientRemovesUser(name) ==
  /\ \A i \in DOMAIN users_list :
       FindUserEntry(i, name) => user[users_list[i]].notifications_list = << >>
  /\ RemoveUser(name)

Next ==
  \/ \E name \in UserName : AddNewUser(name)
  \/ \E name \in UserName, t \in Times : AddUserReminder(name, t)
  \/ \E name \in UserName : ClientRemovesUser(name)
  \/ \E name \in UserName, number \in 0 .. Len(reminders_list) + 1 :
       RemoveUserNotification(name, number)
  \/ TickStart
  \/ CountDown
  \/ Expire
  \/ TickEnd
  \/ CleanupUsers
  \/ CleanupReminders

Spec == Init /\ [][Next]_vars

\* Both timers keep calling handle_timer_tick, and a call that has begun
\* runs to its end, as does a clean-up.
Fairness ==
  /\ WF_vars(TickStart)
  /\ WF_vars(CountDown \/ Expire \/ TickEnd)
  /\ WF_vars(CleanupReminders)

FairSpec == Spec /\ Fairness

-----------------------------------------------------------------------------
(* Invariants.                                                             *)

\* The type invariant: the shape of the lists and of the allocated blocks,
\* and the loop of handle_timer_tick never runs past the end of its list.
TypeOK ==
  /\ users_list \in Seq(UserBlock)
  /\ reminders_list \in Seq(ReminderBlock)
  /\ DOMAIN user \subseteq UserBlock /\ user \in [DOMAIN user -> user_t]
  /\ DOMAIN reminder \subseteq ReminderBlock /\ reminder \in [DOMAIN reminder -> reminder_t]
  /\ tick \in 0 .. Len(reminders_list) + 1
  /\ closing \in BOOLEAN

\* Every block that is linked in a list, or that a reminder of a running
\* library points back to, is allocated: no walk and no list_del follows a
\* pointer to freed memory.
NoDanglingPointers ==
  /\ Range(users_list) \subseteq DOMAIN user
  /\ Range(reminders_list) \subseteq DOMAIN reminder
  /\ \A u \in DOMAIN user : Range(user[u].notifications_list) \subseteq DOMAIN reminder
  /\ ~closing => \A r \in DOMAIN reminder : reminder[r].belongs_to \in DOMAIN user

\* Every allocated block can still be reached from the list heads, so the
\* clean-up calls free everything (what task8/report.txt says of the tests).
NoLeak ==
  /\ DOMAIN user \subseteq Range(users_list)
  /\ DOMAIN reminder \subseteq Range(reminders_list)

\* The two lists a reminder hangs in agree: a reminder is pending exactly
\* when the user it belongs to lists it, and no list holds a block twice.
ListsAgree ==
  /\ IsInjective(users_list)
  /\ IsInjective(reminders_list)
  /\ \A u \in DOMAIN user :
       /\ IsInjective(user[u].notifications_list)
       /\ \A r \in DOMAIN reminder :
            reminder[r].belongs_to = u <=> r \in Range(user[u].notifications_list)

\* The time left of the reminder at position i once the running tick, if
\* any, has reached it.
Left(i) ==
  LET left == reminder[reminders_list[i]].ellapse_time IN
  IF tick # 0 /\ i >= tick THEN left - 1 ELSE left

\* reminders_list is sorted by the time left, also in the middle of a tick
\* and after any mix of insertions, removals and ticks.
SortedByTime ==
  \A i, j \in DOMAIN reminders_list : i < j => Left(i) <= Left(j)

\* Users can be told apart by their names (is_user_exists).
UniqueNames ==
  \A u, v \in DOMAIN user : user[u].user_name = user[v].user_name => u = v

\* If clients ask for positive times, no reminder is ever overdue: one
\* whose time has run out is gone, even while a tick is under way.
NoneOverdue ==
  (\A t \in Times : t > 0) => \A r \in DOMAIN reminder : reminder[r].ellapse_time > 0

\* Every reminder set for a positive time is eventually announced or removed.
EveryReminderEnds ==
  \A r \in ReminderBlock :
    (r \in DOMAIN reminder /\ reminder[r].ellapse_time > 0) ~> (r \notin DOMAIN reminder)
=============================================================================
