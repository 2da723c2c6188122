---------------------------- MODULE RemindersView ----------------------------
(***************************************************************************)
(* The notification screen (final_task, example.cpp, RemindersViewModel)   *)
(* on top of the reminders model: one button per pending reminder, a       *)
(* message box for every reminder that expires, a label once none is left, *)
(* and a timer that scrolls through the buttons.  The view reads the model *)
(* through callbacks it is given in the middle of handle_timer_tick.       *)
(*                                                                         *)
(* Everything runs in the thread of lv_task_handler, so a timer callback   *)
(* or an input event starts only when no other is running; the tick        *)
(* callback is the loop of handle_timer_tick, step by step.                *)
(***************************************************************************)
EXTENDS Reminders

CONSTANTS
  Users,     \* the names createSimpleNotificationsModel adds, in order
  Script     \* the reminders it adds, in order: [name, time]

ASSUME ViewAssumption ==
  Users \in Seq(UserName) /\ Script \in Seq([name : UserName, time : Times])

VARIABLES
  stage,      \* of the view: "build", "connect", "run", "close", "gone"
  done,       \* how many calls of createSimpleNotificationsModel are done
  connector,  \* the method behind the static slot that both callbacks taking
              \* a reminder share: "none", "create" or "remove"
  buttons,    \* the user data of the children of the list, in order
  label,      \* m_emptyListLabel is shown
  boxes,      \* open message boxes, the one on top last: [kind, about]
  index, direction   \* of the automatic scrolling

widgets == <<buttons, label, boxes>>
scroll == <<index, direction>>
viewVars == <<vars, stage, done, connector, widgets, scroll>>

ViewInit ==
  /\ Init
  /\ stage = "build" /\ done = 0 /\ connector = "none"
  /\ buttons = << >> /\ label = FALSE /\ boxes = << >>
  /\ index = 0 /\ direction = "forward"

-----------------------------------------------------------------------------
(* The constructor.                                                        *)

\* createSimpleNotificationsModel, one call after the other.
Populate ==
  /\ stage = "build"
  /\ done < Len(Users) + Len(Script)
  /\ IF done < Len(Users)
     THEN AddNewUser(Users[done + 1])
     ELSE LET call == Script[done + 1 - Len(Users)] IN AddUserReminder(call.name, call.time)
  /\ done' = done + 1
  /\ UNCHANGED <<stage, connector, widgets, scroll>>

\* createNotification for every reminder in the queue.  With no reminder at
\* all, because every malloc failed, there is no first child to scroll to;
\* that start is left out.
ShowList ==
  /\ stage = "build"
  /\ done = Len(Users) + Len(Script) /\ reminders_list # << >>
  /\ connector' = "create"
  /\ buttons' = reminders_list
  /\ stage' = "connect"
  /\ UNCHANGED <<vars, done, label, boxes, scroll>>

\* The other callbacks are obtained, and both timers are started.
ConnectLate ==                                 \* mutant: the slot is not re-targeted
  /\ stage = "connect"
  /\ stage' = "run"
  /\ UNCHANGED <<vars, done, connector, widgets, scroll>>
Connect ==
  /\ stage = "connect"
  /\ connector' = "remove"
  /\ stage' = "run"
  /\ UNCHANGED <<vars, done, widgets, scroll>>

-----------------------------------------------------------------------------
(* The tick of the notification timer, and what it calls back.             *)

\* checkIsListEmpty, called when the queue is q.
ListEmpty(q) == q = << >>

\* slotNotificationIsAboutToBeRemoved looks for the button of r.
WithoutButton(r) == RemoveFirst(buttons, r)

AboutToBeRemoved(r) ==
  IF Contains(buttons, r)
  THEN /\ buttons' = WithoutButton(r)
       /\ boxes' = Append(boxes, [kind |-> "expired", about |-> r])
       /\ label' = ListEmpty(reminders_list')
  ELSE UNCHANGED widgets

CreateNotification(r) ==
  /\ buttons' = Append(buttons, r)
  /\ UNCHANGED <<label, boxes>>

Tick ==
  /\ stage = "run"
  /\ TickStart \/ CountDown \/ TickEnd
  /\ UNCHANGED <<stage, done, connector, widgets, scroll>>

TickExpires ==
  /\ stage = "run"
  /\ Expire
  /\ LET r == reminders_list[tick] IN
       IF connector = "remove" THEN AboutToBeRemoved(r) ELSE CreateNotification(r)
  /\ UNCHANGED <<stage, done, connector, scroll>>

-----------------------------------------------------------------------------
(* The scroll timer and the user.                                          *)

ShouldScrollStale == Len(reminders_list) > 1   \* mutant: index is not looked at
ShouldScroll == Len(reminders_list) > 1 /\ index < Len(reminders_list)

AtLast == index + 1 = Len(reminders_list)

\* slotAutoScrollTimerExpired scrolls to child number index and moves on.
AutoScroll ==
  /\ stage = "run" /\ tick = 0
  /\ ShouldScroll
  /\ \/ /\ direction = "forward" /\ ~AtLast
        /\ index' = index + 1 /\ UNCHANGED direction
     \/ /\ direction = "forward" /\ AtLast
        /\ direction' = "backward" /\ UNCHANGED index
     \/ /\ direction = "backward" /\ index = 0
        /\ direction' = "forward" /\ UNCHANGED index
     \/ /\ direction = "backward" /\ index > 0
        /\ index' = index - 1 /\ UNCHANGED direction
  /\ UNCHANGED <<vars, stage, done, connector, widgets>>

\* onNotificationButtonClicked, where a pointer device exists.  Message
\* boxes are modal: buttons cannot be clicked behind one.
Click(i) ==
  /\ stage = "run" /\ tick = 0
  /\ boxes = << >>
  /\ i \in DOMAIN buttons
  /\ boxes' = << [kind |-> "info", about |-> buttons[i]] >>
  /\ UNCHANGED <<vars, stage, done, connector, buttons, label, scroll>>

\* messageBoxDefaultCallback closes the box that was clicked.
CloseBox ==
  /\ stage = "run" /\ tick = 0
  /\ boxes # << >>
  /\ boxes' = Front(boxes)
  /\ UNCHANGED <<vars, stage, done, connector, buttons, label, scroll>>

-----------------------------------------------------------------------------
(* The destructor frees the model first, then deletes the timers.  The     *)
(* widgets go later (lv_obj_del_async), but nothing is dispatched to them. *)

DestroyUsers ==
  /\ stage = "run"
  /\ CleanupUsers
  /\ stage' = "close"
  /\ UNCHANGED <<done, connector, widgets, scroll>>

DestroyReminders ==
  /\ stage = "close"
  /\ CleanupReminders
  /\ stage' = "gone"
  /\ UNCHANGED <<done, connector, widgets, scroll>>

ViewNext ==
  \/ Populate \/ ShowList \/ Connect
  \/ Tick \/ TickExpires
  \/ AutoScroll
  \/ \E i \in DOMAIN buttons : Click(i)
  \/ CloseBox
  \/ DestroyUsers \/ DestroyReminders

ViewSpec == ViewInit /\ [][ViewNext]_viewVars

\* The constructor and the destructor run through; lv_task_handler keeps
\* serving the notification timer.
ViewFairness ==
  /\ WF_viewVars(Populate) /\ WF_viewVars(ShowList) /\ WF_viewVars(Connect)
  /\ WF_viewVars(Tick \/ TickExpires)
  /\ WF_viewVars(DestroyReminders)

ViewFairSpec == ViewSpec /\ ViewFairness

-----------------------------------------------------------------------------
(* Properties.                                                             *)

Live == stage \in {"connect", "run"}

\* The buttons are the queue, in its order, also while a tick is removing
\* reminders: no button is left over whose user data is freed memory, and
\* none is missing; "Notification list is empty" is shown exactly while it is.
ButtonsMatchQueue ==
  Live => buttons = reminders_list /\ (label <=> reminders_list = << >>)

\* The view never uses the library outside its protocol: what a button
\* shows when clicked, its reminder and that reminder's user, is allocated;
\* and the automatic scrolling never asks for a child the list does not
\* have, however many reminders have expired since it last moved.
ClicksAndScrollsFindTheirTarget ==
  /\ Live => \A i \in DOMAIN buttons :
               /\ buttons[i] \in DOMAIN reminder
               /\ reminder[buttons[i]].belongs_to \in DOMAIN user
  /\ stage = "run" /\ ShouldScroll => index + 1 \in DOMAIN buttons

\* Every reminder of the script is announced in a message box of its own,
\* unless the view is destroyed first.
EveryReminderIsAnnounced ==
  \A r \in ReminderBlock :
    (stage = "run" /\ r \in DOMAIN reminder) ~>
      (stage # "run" \/ [kind |-> "expired", about |-> r] \in Range(boxes))
=============================================================================
