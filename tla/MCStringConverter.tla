------------------------- MODULE MCStringConverter -------------------------
(***************************************************************************)
(* The string converter with two processes, whose writes may overlap.      *)
(***************************************************************************)
EXTENDS StringConverter

CONSTANTS p1, p2

TwoProcesses == {p1, p2}
\* Nothing in the module depends on which process it is.
ProcessSymmetry == Permutations(TwoProcesses)

\* One that is too long for the buffer, and is cut to it or, by a fault, to
\* anything shorter; and one behind which the rest of the first shows.
SomeMessages == {<<"c">>, <<" ", "b", "a", " ", "b">>}
=============================================================================
