---------------------------- MODULE MCReminders ----------------------------
(* Values for the constants of Reminders.                                  *)
EXTENDS Reminders

CONSTANTS n1, n2, u1, u2, r1, r2, r3, r4

Names == {n1, n2}
Users == {u1, u2}
Blocks == {r1, r2, r3, r4}
MixedTimes == {-1, 0, 1, 2}

Lowest == -2

Symmetry == Permutations(Names) \cup Permutations(Users) \cup Permutations(Blocks)
=============================================================================
