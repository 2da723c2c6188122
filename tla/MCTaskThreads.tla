--------------------------- MODULE MCTaskThreads ---------------------------
(* The three tasks of test_module, in units of 10 ms.                      *)
EXTENDS TaskThreads

Delays == << 7, 4, 1 >>
Totals == << 10, 10, 10 >>
=============================================================================
