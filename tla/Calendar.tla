------------------------------ MODULE Calendar ------------------------------
(***************************************************************************)
(* What the reminders model promises, with no lists, blocks or loops: a    *)
(* calendar of reminders by the number of ticks they still have to wait,   *)
(* and the agenda of every registered name.  Reminders that are due are    *)
(* announced one at a time, oldest first, and time does not pass while     *)
(* one of them waits.                                                      *)
(***************************************************************************)
EXTENDS Integers, Sequences, SequencesExt

CONSTANTS
  Name,      \* the names that can be registered
  Item,      \* the reminders that can be scheduled
  Horizon    \* the longest time a reminder is scheduled for

VARIABLES
  agenda,  \* registered names -> their reminders, in the order they were made
  due      \* 0..Horizon -> the reminders that wait that long, oldest first

vars == <<agenda, due>>

Clear == [k \in 0 .. Horizon |-> << >>]
Nothing == [n \in {} |-> << >>]

Init == agenda = Nothing /\ due = Clear

Scheduled == UNION {Range(agenda[n]) : n \in DOMAIN agenda}

Register(n) ==
  /\ n \notin DOMAIN agenda
  /\ agenda' = [m \in DOMAIN agenda \cup {n} |-> IF m = n THEN << >> ELSE agenda[m]]
  /\ UNCHANGED due

Leave(n) ==
  /\ n \in DOMAIN agenda /\ agenda[n] = << >>
  /\ agenda' = [m \in DOMAIN agenda \ {n} |-> agenda[m]]
  /\ UNCHANGED due

Schedule(n, r, k) ==
  /\ n \in DOMAIN agenda /\ r \notin Scheduled
  /\ agenda' = [agenda EXCEPT ![n] = Append(@, r)]
  /\ due' = [due EXCEPT ![k] = Append(@, r)]

Cancel(n, r) ==
  /\ n \in DOMAIN agenda /\ r \in Range(agenda[n])
  /\ agenda' = [agenda EXCEPT ![n] = RemoveFirst(@, r)]
  /\ due' = [k \in 0 .. Horizon |-> RemoveFirst(due[k], r)]

\* One tick passes.
Pass ==
  /\ due[0] = << >>
  /\ due' = [k \in 0 .. Horizon |-> IF k < Horizon THEN due[k + 1] ELSE << >>]
  /\ UNCHANGED agenda

\* The oldest reminder that is due is announced and forgotten.
Announce ==
  /\ due[0] # << >>
  /\ agenda' = [n \in DOMAIN agenda |-> RemoveFirst(agenda[n], Head(due[0]))]
  /\ due' = [due EXCEPT ![0] = Tail(@)]

Close == agenda' = Nothing /\ due' = Clear

Next ==
  \/ \E n \in Name : Register(n) \/ Leave(n)
  \/ \E n \in Name, r \in Item, k \in 1 .. Horizon : Schedule(n, r, k)
  \/ \E n \in Name, r \in Item : Cancel(n, r)
  \/ Pass
  \/ Announce
  \/ Close

Spec == Init /\ [][Next]_vars
=============================================================================
