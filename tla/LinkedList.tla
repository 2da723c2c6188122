----------------------------- MODULE LinkedList -----------------------------
(***************************************************************************)
(* The intrusive circular list of linked_list.h, at the level of its       *)
(* pointers, with the ways the reminders model and the dice game use it:   *)
(* list_add_tail to the head or before an entry of a list_for_each walk,   *)
(* list_del of a linked entry, and list_for_each_safe walks that delete    *)
(* the entry they stand on.                                                *)
(*                                                                         *)
(* items and seen are history variables, no code reads them: items is the  *)
(* order the insertions and deletions should have produced, seen is what   *)
(* the walk under way (or the last one) has visited.                       *)
(***************************************************************************)
EXTENDS Integers, Sequences, SequencesExt

CONSTANTS
  Node,     \* the list_heads embedded in entries
  Root,     \* the list_head that is the list itself
  Poison    \* LIST_POISON1 and LIST_POISON2: nothing may follow it

ASSUME LinkedListAssumption == Root \notin Node /\ Poison \notin Node \cup {Root}

VARIABLES
  next, prev,  \* the fields of every list_head
  walk,        \* "none", "each" (list_for_each) or "safe" (list_for_each_safe)
  pos, n,      \* the cursors of the walk
  items, seen  \* history variables

vars == <<next, prev, walk, pos, n, items, seen>>
fields == <<next, prev>>

Place == Node \cup {Root}

\* LIST_HEAD(head): an empty list; the entries are not initialised yet.
Init ==
  /\ next = [x \in Place |-> IF x = Root THEN Root ELSE Poison]
  /\ prev = next
  /\ walk = "none" /\ pos = Root /\ n = Root
  /\ items = << >> /\ seen = << >>

-----------------------------------------------------------------------------
(* The primitives.  before and after are known to be neighbours.           *)

ListAddNoBack(x, before, after) ==             \* mutant: after->prev is not set
  /\ next' = [next EXCEPT ![x] = after, ![before] = x]
  /\ prev' = [prev EXCEPT ![x] = before]
ListAdd(x, before, after) ==
  /\ next' = [next EXCEPT ![x] = after, ![before] = x]
  /\ prev' = [prev EXCEPT ![after] = x, ![x] = before]

ListAddTailAfter(x, place) == ListAdd(x, place, next[place])  \* mutant: list_add
ListAddTail(x, place) == ListAdd(x, prev[place], place)

\* list_del: its neighbours point to each other, then the entry is poisoned.
ListDel(x) ==
  /\ next' = [next EXCEPT ![prev[x]] = next[x], ![x] = Poison]
  /\ prev' = [prev EXCEPT ![next[x]] = prev[x], ![x] = Poison]

\* The successor a walk goes to: list_for_each_safe has saved it in n.
SuccessorNow == next[pos]                      \* mutant: list_for_each for _safe
Successor == IF walk = "safe" THEN n ELSE next[pos]

-----------------------------------------------------------------------------
\* The history: x is inserted before place, and x is removed.
Position(place) ==
  IF place = Root THEN Len(items) + 1
  ELSE CHOOSE k \in DOMAIN items : items[k] = place

InsertBefore(x, place) ==
  /\ x \in Node \ Range(items)
  /\ ListAddTail(x, place)
  /\ items' = InsertAt(items, Position(place), x)

Delete(x) ==
  /\ ListDel(x)
  /\ items' = RemoveAt(items, Position(x))

\* list_add_tail(new, head): add_new_user, add_user_reminder.
AddLast(x) ==
  /\ walk = "none"
  /\ InsertBefore(x, Root)
  /\ UNCHANGED <<walk, pos, n, seen>>

\* list_del of an entry found by other means (handle_reminder_expired).
DeleteFound(x) ==
  /\ walk = "none"
  /\ x \in Range(items)
  /\ Delete(x)
  /\ UNCHANGED <<walk, pos, n, seen>>

Start(kind) ==
  /\ walk = "none"
  /\ walk' = kind
  /\ pos' = next[Root]
  /\ n' = IF kind = "safe" THEN next[next[Root]] ELSE n
  /\ seen' = << >>
  /\ UNCHANGED <<fields, items>>

\* The loop body of a list_for_each walk may insert before pos and return
\* (insert_reminder_entry_to_global_list).
InsertHere(x) ==
  /\ walk = "each" /\ pos # Root
  /\ InsertBefore(x, pos)
  /\ walk' = "none"
  /\ UNCHANGED <<pos, n, seen>>

\* The loop body of a list_for_each_safe walk may delete and free its entry.
DeleteHere ==
  /\ walk = "safe" /\ pos # Root /\ pos \in Range(items)
  /\ Delete(pos)
  /\ UNCHANGED <<walk, pos, n, seen>>

\* The body is done: on to the next entry.
Advance ==
  /\ walk # "none" /\ pos # Root
  /\ pos' = Successor
  /\ n' = IF walk = "safe" /\ Successor \in Place THEN next[Successor] ELSE n
  /\ seen' = Append(seen, pos)
  /\ UNCHANGED <<fields, items, walk>>

\* break or return out of the loop, or its condition turned false.
Leave ==
  /\ walk # "none"
  /\ walk' = "none"
  /\ UNCHANGED <<fields, pos, n, items, seen>>

Next ==
  \/ \E x \in Node : AddLast(x) \/ DeleteFound(x) \/ InsertHere(x)
  \/ \E kind \in {"each", "safe"} : Start(kind)
  \/ DeleteHere
  \/ Advance
  \/ Leave

Spec == Init /\ [][Next]_vars

-----------------------------------------------------------------------------
(* Invariants.                                                             *)

TypeOK ==
  /\ next \in [Place -> Place \cup {Poison}]
  /\ prev \in [Place -> Place \cup {Poison}]
  /\ walk \in {"none", "each", "safe"}
  /\ pos \in Place
  /\ n \in Place \cup {Poison}
  /\ items \in Seq(Node)
  /\ seen \in Seq(Node)

\* Position i of the ring: the head is at 0 and again behind the last entry.
At(i) == IF i \in 1 .. Len(items) THEN items[i] ELSE Root

\* The pointers form one ring through the head: next leads through exactly
\* the entries that were inserted and not deleted, in the right order, and
\* prev leads back the same way.
RingIsItems ==
  /\ IsInjective(items)
  /\ \A i \in 0 .. Len(items) : next[At(i)] = At(i + 1) /\ prev[At(i + 1)] = At(i)

\* A list_del'ed entry is poisoned until it is inserted again: a second
\* list_del or a walk over it would fault instead of corrupting the list.
DeletedIsPoisoned ==
  \A x \in Node \ Range(items) : next[x] = Poison /\ prev[x] = Poison

\* A walk never goes astray: the entry it goes to next is linked, or is the
\* head, even if the body has deleted the entry the walk stands on.
WalkStaysOnRing ==
  walk # "none" /\ pos # Root => Successor \in Range(items) \cup {Root}

\* A walk that arrives at the head has visited every entry that is left, and
\* none twice.
WalkIsComplete ==
  /\ IsInjective(seen)
  /\ walk # "none" /\ pos = Root => Range(items) \subseteq Range(seen)
=============================================================================
