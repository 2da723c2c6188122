------------------------------ MODULE ListNodes ------------------------------
(***************************************************************************)
(* The operations of linked_list.h (exercise4/linked_list; the same file   *)
(* is in task8 and the final task), statement by statement.  A memory m    *)
(* has the fields next and prev of every list_head.  The statements are    *)
(* carried out in their order, since the list_heads they touch may be the  *)
(* same.                                                                   *)
(***************************************************************************)
CONSTANT
  Nowhere        \* LIST_POISON1, LIST_POISON2, and a pointer never set

SetNext(m, x, y) == [m EXCEPT !.next[x] = y]
SetPrev(m, x, y) == [m EXCEPT !.prev[x] = y]

INIT_LIST_HEAD(m, x) == SetPrev(SetNext(m, x, x), x, x)

AddBetween(m, new, prev, next) ==
  SetNext(SetPrev(SetNext(SetPrev(m, next, new), new, next), new, prev), prev, new)
Add(m, new, head) == AddBetween(m, new, head, m.next[head])
AddTail(m, new, head) == AddBetween(m, new, m.prev[head], head)

Join(m, prev, next) == SetNext(SetPrev(m, next, prev), prev, next)
Unlink(m, x) == Join(m, m.prev[x], m.next[x])
Del(m, x) == SetPrev(SetNext(Unlink(m, x), x, Nowhere), x, Nowhere)
DelInit(m, x) == INIT_LIST_HEAD(Unlink(m, x), x)

Replace(m, old, new) ==
  LET a == SetNext(m, new, m.next[old])
      b == SetPrev(a, a.next[new], new)
      c == SetPrev(b, new, b.prev[old])
  IN SetNext(c, c.prev[new], new)

SwapHasty(m, x, y) ==                   \* mutant: neighbours are not looked at
  Add(Replace(Del(m, y), x, y), x, m.prev[y])
Swap(m, x, y) ==
  Add(Replace(Del(m, y), x, y), x, IF m.prev[y] = x THEN y ELSE m.prev[y])

Move(m, x, head) == Add(Unlink(m, x), x, head)
MoveTail(m, x, head) == AddTail(Unlink(m, x), x, head)

BulkMoveTail(m, head, first, last) ==
  LET a == SetNext(m, m.prev[first], m.next[last])
      b == SetPrev(a, a.next[last], a.prev[first])
      c == SetNext(b, b.prev[head], first)
      d == SetPrev(c, first, c.prev[head])
  IN SetPrev(SetNext(d, last, head), head, last)

IsFirst(m, x, head) == m.prev[x] = head
IsLast(m, x, head) == m.next[x] = head
IsEmpty(m, head) == m.next[head] = head
RotateLeft(m, head) == IF IsEmpty(m, head) THEN m ELSE MoveTail(m, m.next[head], head)
RotateToFront(m, x, head) == MoveTail(m, head, x)
IsSingular(m, head) == ~IsEmpty(m, head) /\ m.next[head] = m.prev[head]

CutPosition(m, list, head, entry) ==
  LET first == m.next[entry]
      a == SetNext(m, list, m.next[head])
      b == SetPrev(SetPrev(a, a.next[list], list), list, entry)
      c == SetNext(SetNext(b, entry, list), head, first)
  IN IF IsEmpty(m, head) \/ (IsSingular(m, head) /\ m.next[head] # entry /\ head # entry)
     THEN m
     ELSE IF entry = head THEN INIT_LIST_HEAD(m, list) ELSE SetPrev(c, first, head)

CutBefore(m, list, head, entry) ==
  LET a == SetNext(m, list, m.next[head])
      b == SetPrev(SetPrev(a, a.next[list], list), list, a.prev[entry])
      c == SetNext(SetNext(b, b.prev[list], list), head, entry)
  IN IF m.next[head] = entry THEN INIT_LIST_HEAD(m, list) ELSE SetPrev(c, entry, head)

SpliceBetween(m, list, prev, next) ==
  LET first == m.next[list]
      last == m.prev[list]
  IN SetPrev(SetNext(SetNext(SetPrev(m, first, prev), prev, first), last, next), next, last)
Splice(m, list, head) ==
  IF IsEmpty(m, list) THEN m ELSE SpliceBetween(m, list, head, m.next[head])
SpliceTail(m, list, head) ==
  IF IsEmpty(m, list) THEN m ELSE SpliceBetween(m, list, m.prev[head], head)

\* The *_init forms: a list that was empty needs no reinitialisation.
Reinitialised(before, m, list) == IF IsEmpty(before, list) THEN m ELSE INIT_LIST_HEAD(m, list)
=============================================================================
