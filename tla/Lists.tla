-------------------------------- MODULE Lists --------------------------------
(***************************************************************************)
(* What the list_heads of linked_list.h are: lists, and entries of lists.  *)
(***************************************************************************)
EXTENDS ListNodes

CONSTANTS
  Anchor, Entry  \* list_heads that are lists, and those embedded in entries

ASSUME ListOpsAssumption == Anchor \cap Entry = {} /\ Nowhere \notin Anchor \cup Entry

ListHead == Anchor \cup Entry
=============================================================================
