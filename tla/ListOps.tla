------------------------------- MODULE ListOps -------------------------------
(***************************************************************************)
(* Every operation of linked_list.h on the pointers of several lists       *)
(* (ListNodes), each beside the sequences it promises.  The module         *)
(* LinkedList goes deeper into the few that the programs use, with the     *)
(* walks over them.                                                        *)
(***************************************************************************)
EXTENDS Lists, Integers, Sequences, SequencesExt

VARIABLES
  memory,        \* the fields next and prev of every list_head
  lists          \* history: the entries each list should have, in order

listVars == <<memory, lists>>

ListsInit ==
  /\ lists = [h \in Anchor |-> << >>]
  /\ memory = [next |-> [x \in ListHead |-> IF x \in Anchor THEN x ELSE Nowhere],
               prev |-> [x \in ListHead |-> IF x \in Anchor THEN x ELSE Nowhere]]

-----------------------------------------------------------------------------
(* The operations, with what they do to the sequences.                     *)

Linked == UNION {Range(lists[h]) : h \in Anchor}
ListOf(x) == CHOOSE h \in Anchor : x \in Range(lists[h])
PlaceIn(x) == CHOOSE i \in DOMAIN lists[ListOf(x)] : lists[ListOf(x)][i] = x
Without(x) == [lists EXCEPT ![ListOf(x)] = RemoveAt(@, PlaceIn(x))]

ListAddFirst(x, h) ==
  /\ x \notin Linked
  /\ memory' = Add(memory, x, h) /\ lists' = [lists EXCEPT ![h] = <<x>> \o @]
ListAddLast(x, h) ==
  /\ x \notin Linked
  /\ memory' = AddTail(memory, x, h) /\ lists' = [lists EXCEPT ![h] = @ \o <<x>>]
ListDelete(x) ==
  /\ x \in Linked
  /\ memory' \in {Del(memory, x), DelInit(memory, x)} /\ lists' = Without(x)
\* list_replace, of which list_replace_init also cleans the old entry.
ListReplace(x, y) ==
  /\ x \in Linked /\ y \notin Linked
  /\ memory' \in {Replace(memory, x, y), INIT_LIST_HEAD(Replace(memory, x, y), x)}
  /\ lists' = [lists EXCEPT ![ListOf(x)][PlaceIn(x)] = y]
ListSwap(x, y) ==
  /\ x \in Linked /\ y \in Linked \ {x}
  /\ memory' = Swap(memory, x, y)
  /\ lists' = [h \in Anchor |-> [i \in DOMAIN lists[h] |->
       CASE lists[h][i] = x -> y [] lists[h][i] = y -> x [] OTHER -> lists[h][i]]]
ListMove(x, h) ==
  /\ x \in Linked
  /\ \/ memory' = Move(memory, x, h) /\ lists' = [Without(x) EXCEPT ![h] = <<x>> \o @]
     \/ memory' = MoveTail(memory, x, h) /\ lists' = [Without(x) EXCEPT ![h] = @ \o <<x>>]
ListBulkMoveTail(h, i, j) ==
  /\ i \in DOMAIN lists[h] /\ j \in i .. Len(lists[h])
  /\ memory' = BulkMoveTail(memory, h, lists[h][i], lists[h][j])
  /\ lists' = [lists EXCEPT ![h] =
       SubSeq(@, 1, i - 1) \o SubSeq(@, j + 1, Len(@)) \o SubSeq(@, i, j)]
ListRotateLeft(h) ==
  /\ memory' = RotateLeft(memory, h)
  /\ lists' = [lists EXCEPT ![h] = IF @ = << >> THEN @ ELSE Tail(@) \o <<Head(@)>>]
ListRotateToFront(h, i) ==
  /\ i \in DOMAIN lists[h]
  /\ memory' = RotateToFront(memory, lists[h][i], h)
  /\ lists' = [lists EXCEPT ![h] = SubSeq(@, i, Len(@)) \o SubSeq(@, 1, i - 1)]

\* Cutting and splicing between two different lists.  A list to cut into is
\* "a list you do not care about losing its data": its entries are dropped,
\* except that nothing happens to it when there is nothing to cut.
ListCutPosition(g, h, i) ==
  /\ g # h /\ i \in 0 .. Len(lists[h])
  /\ memory' = CutPosition(memory, g, h, IF i = 0 THEN h ELSE lists[h][i])
  /\ lists' = IF lists[h] = << >> THEN lists
              ELSE [lists EXCEPT ![g] = SubSeq(lists[h], 1, i),
                                 ![h] = SubSeq(@, i + 1, Len(@))]
ListCutBefore(g, h, i) ==
  /\ g # h /\ i \in 1 .. Len(lists[h]) + 1
  /\ memory' = CutBefore(memory, g, h, IF i > Len(lists[h]) THEN h ELSE lists[h][i])
  /\ lists' = [lists EXCEPT ![g] = SubSeq(lists[h], 1, i - 1), ![h] = SubSeq(@, i, Len(@))]

\* list_splice_init and list_splice_tail_init; list_splice and
\* list_splice_tail leave the list they emptied to INIT_LIST_HEAD.
ListSplice(g, h) ==
  /\ g # h
  /\ \/ /\ memory' = Reinitialised(memory, Splice(memory, g, h), g)
        /\ lists' = [lists EXCEPT ![g] = << >>, ![h] = lists[g] \o @]
     \/ /\ memory' = Reinitialised(memory, SpliceTail(memory, g, h), g)
        /\ lists' = [lists EXCEPT ![g] = << >>, ![h] = @ \o lists[g]]

ListsNext ==
  \E h \in Anchor :
    \/ \E x \in Entry : ListAddFirst(x, h) \/ ListAddLast(x, h) \/ ListDelete(x) \/ ListMove(x, h)
    \/ \E x, y \in Entry : ListReplace(x, y) \/ ListSwap(x, y)
    \/ \E i, j \in DOMAIN lists[h] : ListBulkMoveTail(h, i, j)
    \/ ListRotateLeft(h)
    \/ \E i \in 0 .. Len(lists[h]) + 1 :
         \/ ListRotateToFront(h, i)
         \/ \E g \in Anchor : ListCutPosition(g, h, i) \/ ListCutBefore(g, h, i)
    \/ \E g \in Anchor : ListSplice(g, h)

ListsSpec == ListsInit /\ [][ListsNext]_listVars

-----------------------------------------------------------------------------
(* The property.                                                           *)

\* After any sequence of legal calls each ring is the list it should be, in
\* both directions, whatever neighbours the arguments were; and list_empty,
\* list_is_singular, list_is_first and list_is_last tell its length and ends.
RingsAreLists ==
  \A h \in Anchor :
    LET ring == <<h>> \o lists[h] \o <<h>>
        n == Len(lists[h])
    IN /\ \A i \in 1 .. n + 1 : /\ memory.next[ring[i]] = ring[i + 1]
                                /\ memory.prev[ring[i + 1]] = ring[i]
       /\ IsEmpty(memory, h) <=> n = 0
       /\ IsSingular(memory, h) <=> n = 1
       /\ \A i \in 1 .. n : /\ IsFirst(memory, lists[h][i], h) <=> i = 1
                            /\ IsLast(memory, lists[h][i], h) <=> i = n
=============================================================================
