------------------------------- MODULE Kernel -------------------------------
(***************************************************************************)
(* What the kernel modules of the course have in common.                   *)
(***************************************************************************)
EXTENDS Integers

CONSTANTS
  Process,       \* processes that use a device or a file
  SizeT          \* 2^64, the values of a size_t

Nul == "nul"
Shorter(a, b) == IF a < b THEN a ELSE b
=============================================================================
