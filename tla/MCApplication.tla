-------------------------- MODULE MCApplication --------------------------
(* Values for the constants of Application: the refresh is the fastest of  *)
(* the timers, as 30, 1000 and 1500 ms are in the program.                 *)
EXTENDS Application

Periods == [refresh |-> 1, remind |-> 2, scroll |-> 3]
=============================================================================
