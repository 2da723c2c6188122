--------------------------- MODULE KernelReminders ---------------------------
(***************************************************************************)
(* The kernel module of task 8: a copy of the reminders model that takes   *)
(* its memory from kmalloc and tells nobody what it does                   *)
(* (kernel_module/reminders_model.c), and an init function that runs four  *)
(* tests of it and then fails, so that the module is gone again            *)
(* (tests.h, module_main.c).                                               *)
(*                                                                         *)
(* Reminders.tla has the lists of this code as sequences.  Here they are   *)
(* pointers in memory, which the functions walk and change by way of       *)
(* ListNodes, so that a pointer that was left behind in freed memory, or   *)
(* to it, can be followed.  A walk that changes the list it is on takes    *)
(* one step for each entry.  What is only printed is left out.             *)
(***************************************************************************)
EXTENDS ListNodes, Integers, Sequences, FiniteSets, SequencesExt

CONSTANTS
  user1, user2, user3,
  UserBlocks, ReminderBlocks   \* what kmalloc has to give: numbers

ASSUME KernelRemindersAssumption ==
  /\ UserBlocks \subseteq Nat \ {0} /\ ReminderBlocks \subseteq Nat \ {0}
  /\ UserBlocks \cap ReminderBlocks = {}
  /\ IsFiniteSet(UserBlocks) /\ IsFiniteSet(ReminderBlocks)

VARIABLES
  heap,      \* next and prev of every list_head, and the allocated blocks with their data
  test_call, \* the position in Tests of the call that is made, or is made next
  pos        \* where the walk of that call stands, if it is on its way

reminderTestVars == <<heap, test_call, pos>>

-----------------------------------------------------------------------------
(* Memory.                                                                 *)

\* A list_head is a field of a block.
users_list == <<0, "users_list">>
reminders_list == <<0, "reminders_list">>
InFreedMemory == <<0, "freed">>   \* what a pointer read from a freed block points to
ListOfUsers(u) == <<u, "list">>
NotificationsList(u) == <<u, "notifications_list">>
Queued(r) == <<r, "list">>
UserNotify(r) == <<r, "user_notify_list">>

FieldsOf(b) == IF b \in UserBlocks THEN {ListOfUsers(b), NotificationsList(b)}
               ELSE {Queued(b), UserNotify(b)}
BlockOf(node) == node[1]
Fields == UNION {FieldsOf(b) : b \in UserBlocks \cup ReminderBlocks}
Nodes == {users_list, reminders_list, InFreedMemory} \cup Fields
NoWalk == <<0, "no walk">>

ASSUME NowhereIsNoNode == Nowhere \notin Nodes

IsFreed(h, node) == node \notin {users_list, reminders_list} /\ BlockOf(node) \notin DOMAIN h.block

Filled(h, b, pointer, blocks) ==
  LET fill(f) == [x \in Nodes |-> IF x \in FieldsOf(b) THEN pointer ELSE f[x]]
  IN [next |-> fill(h.next), prev |-> fill(h.prev), block |-> blocks]
Kmalloc(h, b, data) ==
  Filled(h, b, Nowhere, [c \in DOMAIN h.block \cup {b} |-> IF c = b THEN data ELSE h.block[c]])
Kfree(h, b) == Filled(h, b, InFreedMemory, [c \in DOMAIN h.block \ {b} |-> h.block[c]])

Smallest(S) == {i \in S : \A j \in S : i <= j}
\* The block that kmalloc gives, if it has one.
FirstFree(h, blocks) == Smallest(blocks \ DOMAIN h.block)

\* Where a walk along next stands after k steps, and where it ends: back at
\* its head, or where it has lost its way.
Stands(h, head) ==
  LET at[k \in 0 .. Cardinality(Nodes)] == IF k = 0 THEN head ELSE h.next[at[k - 1]] IN at
Ends(h, head) ==
  CHOOSE k \in 1 .. Cardinality(Nodes) :
    /\ Stands(h, head)[k] \in {head, InFreedMemory, Nowhere}
    /\ \A j \in 1 .. k - 1 : Stands(h, head)[j] \notin {head, InFreedMemory, Nowhere}
Comes(h, head) == Stands(h, head)[Ends(h, head)] = head
\* The entries of a list_for_each, or of a list_for_each_safe that only looks.
Entries(h, head) == [k \in 1 .. Ends(h, head) - 1 |-> Stands(h, head)[k]]

-----------------------------------------------------------------------------
(* The functions of reminders_model.c, on a heap.                          *)

\* find_user_entry: the first with the name, or none.
FindUserEntry(h, name) ==
  LET users == Entries(h, users_list)
  IN {BlockOf(users[i]) :
        i \in Smallest({k \in DOMAIN users : h.block[BlockOf(users[k])].user_name = name})}

\* insert_reminder_entry_to_global_list.
InsertedInQueue(h, r) ==
  LET queue == Entries(h, reminders_list)
      later == Smallest({k \in DOMAIN queue :
                 h.block[BlockOf(queue[k])].ellapse_time > h.block[r].ellapse_time})
  IN AddTail(h, Queued(r), IF later = {} THEN reminders_list ELSE queue[CHOOSE k \in later : TRUE])

\* Nothing changes when the name is known or there is no memory.
AddNewUser(name) ==
  \/ UNCHANGED heap
  \/ /\ FindUserEntry(heap, name) = {}
     /\ \E u \in FirstFree(heap, UserBlocks) :
          heap' = AddTail(INIT_LIST_HEAD(Kmalloc(heap, u, [user_name |-> name]),
                                         NotificationsList(u)),
                          ListOfUsers(u), users_list)

AddUserReminder(name, actual_time) ==
  \/ UNCHANGED heap
  \/ \E u \in FindUserEntry(heap, name), r \in FirstFree(heap, ReminderBlocks) :
       LET new == Kmalloc(heap, r, [ellapse_time |-> actual_time, belongs_to |-> u])
           ready == INIT_LIST_HEAD(INIT_LIST_HEAD(new, Queued(r)), UserNotify(r))
       IN heap' = InsertedInQueue(AddTail(ready, UserNotify(r), NotificationsList(u)), r)

\* remove_user_notification: the reminder must be found in both lists.
RemoveUserNotification(name, number) ==
  LET found == {r \in ReminderBlocks :
        /\ \E u \in FindUserEntry(heap, name) :
             LET mine == Entries(heap, NotificationsList(u))
             IN number \in DOMAIN mine /\ mine[number] = UserNotify(r)
        /\ Queued(r) \in Range(Entries(heap, reminders_list))}
  IN heap' = IF found = {} THEN heap
             ELSE LET r == CHOOSE x \in found : TRUE
                  IN Kfree(Del(Del(heap, UserNotify(r)), Queued(r)), r)

\* handle_reminder_expired: out of the queue, out of the list of its user if
\* it is there, and freed.
ExpiredStaysWithUser(h, r) == Kfree(Del(h, Queued(r)), r)   \* mutant: one list is forgotten
Expired(h, r) ==
  LET alone == Del(h, Queued(r))
      mine == Entries(alone, NotificationsList(h.block[r].belongs_to))
  IN Kfree(IF UserNotify(r) \in Range(mine) THEN Del(alone, UserNotify(r)) ELSE alone, r)

\* What the walks of remove_user, cleanup_users, cleanup_reminders and
\* handle_timer_tick do to the entry e.  A user goes without its reminders.
EntryFreed(h, e) == Kfree(Del(h, e), BlockOf(e))
RemoveUser(h, e, name) ==
  IF h.block[BlockOf(e)].user_name = name THEN EntryFreed(h, e) ELSE h
HandleTimerTick(h, e) ==
  LET r == BlockOf(e)
      later == [h EXCEPT !.block[r].ellapse_time = @ - 1]
  IN IF later.block[r].ellapse_time = 0 THEN Expired(later, r) ELSE later

-----------------------------------------------------------------------------
(* The tests, and the module that runs them.                               *)

Three == << <<"user", user1>>, <<"user", user2>>, <<"user", user3>> >>

Test1 == Three \o <<
  <<"remove", user2>>,
  <<"reminder", user1, 1000>>, <<"reminder", user1, 100>>, <<"reminder", user1, 500>>,
  <<"reminder", user3, 40>>, <<"reminder", user3, 150>>,
  <<"notification", user1, 3>>, <<"users">>, <<"reminders">> >>
Test2 == Three \o Three \o Three \o << <<"users">> >>
Test3 == <<
  <<"user", user1>>, <<"reminder", user1, 1000>>, <<"reminder", user1, 100>>,
  <<"notification", user1, 2>>, <<"notification", user1, 1>>, <<"users">>, <<"reminders">> >>
Test4 == <<
  <<"user", user1>>, <<"reminder", user1, 2>>, <<"reminder", user1, 1>>, <<"tick">>, <<"tick">>,
  <<"reminder", user1, 4>>, <<"tick">>, <<"tick">>, <<"tick">>, <<"tick">> >>

\* reminder_module_init, which then returns -1.
Tests == Test1 \o Test2 \o Test3 \o Test4

\* The calls that look first and then make one change, if any.
Call(c) ==
  \/ c[1] = "user" /\ AddNewUser(c[2])
  \/ c[1] = "reminder" /\ AddUserReminder(c[2], c[3])
  \/ c[1] = "notification" /\ RemoveUserNotification(c[2], c[3])

\* The calls that are a walk, each with the list it is on.
Walked(c) == IF c[1] \in {"remove", "users"} THEN users_list ELSE reminders_list
VisitEntry(c, e) ==
  \/ c[1] = "remove" /\ heap' = RemoveUser(heap, e, c[2])
  \/ c[1] \in {"users", "reminders"} /\ heap' = EntryFreed(heap, e)
  \/ c[1] = "tick" /\ heap' = HandleTimerTick(heap, e)

RemindersInit ==
  /\ LET new == [x \in Nodes |-> IF x \in {users_list, reminders_list} THEN x ELSE InFreedMemory]
     IN heap = [next |-> new, prev |-> new, block |-> << >>]
  /\ test_call = 1
  /\ pos = NoWalk

CallMade ==
  /\ Call(Tests[test_call])
  /\ test_call' = test_call + 1
  /\ UNCHANGED pos

\* list_for_each_safe has read the next pointer before the entry is visited.
WalkStarts ==
  /\ Tests[test_call][1] \in {"remove", "users", "reminders", "tick"} /\ pos = NoWalk
  /\ pos' = heap.next[Walked(Tests[test_call])]
  /\ UNCHANGED <<heap, test_call>>
WalkGoesOn ==
  /\ pos \notin {NoWalk, Walked(Tests[test_call])}
  /\ VisitEntry(Tests[test_call], pos)
  /\ pos' = heap.next[pos]
  /\ UNCHANGED test_call
WalkEnds ==
  /\ pos = Walked(Tests[test_call])
  /\ test_call' = test_call + 1
  /\ pos' = NoWalk
  /\ UNCHANGED heap

RemindersNext ==
  /\ test_call <= Len(Tests)
  /\ CallMade \/ WalkStarts \/ WalkGoesOn \/ WalkEnds

RemindersSpec == RemindersInit /\ [][RemindersNext]_reminderTestVars

-----------------------------------------------------------------------------
(* The property.                                                           *)

\* Whatever allocations fail, no call of the tests writes to memory that was
\* freed, nor does a walk come there: every list leads back to its head, also
\* while a walk frees the entry it stands on, and the walk stays on its list.
\* A reminder in the queue has a user, except while test1 or test3 cleans up.
\* And when the module is gone, the memory that is lost with its lists is
\* one user of test4, who has no clean-up.
TestsStayInTheirMemory ==
  LET live == {b \in UserBlocks : b \in DOMAIN heap.block}
      queue == Range(Entries(heap, reminders_list))
      over == test_call > Len(Tests)
      call == Tests[test_call][1]
  IN /\ \A x \in Nodes : IsFreed(heap, x) =>
          heap.next[x] = InFreedMemory /\ heap.prev[x] = InFreedMemory
     /\ \A head \in {users_list, reminders_list} \cup {NotificationsList(u) : u \in live} :
          /\ Comes(heap, head)
          /\ \A e \in Range(Entries(heap, head)) : ~IsFreed(heap, e)
     /\ pos # NoWalk =>
          LET head == Walked(Tests[test_call])
          IN ~over /\ pos \in Range(Entries(heap, head)) \cup {head}
     /\ \A e \in queue : \/ heap.block[BlockOf(e)].belongs_to \in live
                         \/ ~over /\ call = "users" /\ pos # NoWalk
                         \/ ~over /\ call = "reminders"
     /\ over => \A b \in DOMAIN heap.block : b \in UserBlocks /\ heap.block[b].user_name = user1
=============================================================================
