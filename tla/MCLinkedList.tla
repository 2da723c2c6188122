---------------------------- MODULE MCLinkedList ----------------------------
(* Values for the constants of LinkedList.                                 *)
EXTENDS LinkedList

CONSTANTS a, b, c, d

Nodes == {a, b, c, d}

Symmetry == Permutations(Nodes)
=============================================================================
