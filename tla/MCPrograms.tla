----------------------------- MODULE MCPrograms -----------------------------
(***************************************************************************)
(* The small programs of the course, side by side.  They share nothing:    *)
(* one of them runs, the others stay as they are, so that a single run of  *)
(* the model checker explores them all.                                    *)
(***************************************************************************)
EXTENDS RunLength, DiceGame, Buttons, CounterApp, Drawing, ListOps, TLC

VARIABLE program

vars == <<program, runLengthVars, diceVars, buttonsVars, counterVars, drawingVars,
        listVars>>

Init ==
  /\ program \in {"RunLength", "DiceGame", "Buttons", "CounterApp", "Drawing", "ListOps"}
  /\ RunLengthInit
  /\ DiceInit
  /\ ButtonsInit
  /\ CounterInit
  /\ DrawingInit
  /\ ListsInit

Next ==
  \/ /\ program = "RunLength" /\ RunLengthNext
     /\ UNCHANGED <<program, diceVars, buttonsVars, counterVars, drawingVars, listVars>>
  \/ /\ program = "DiceGame" /\ DiceNext
     /\ UNCHANGED <<program, runLengthVars, buttonsVars, counterVars, drawingVars,
                    listVars>>
  \/ /\ program = "Buttons" /\ ButtonsNext
     /\ UNCHANGED <<program, runLengthVars, diceVars, counterVars, drawingVars, listVars>>
  \/ /\ program = "CounterApp" /\ CounterNext
     /\ UNCHANGED <<program, runLengthVars, diceVars, buttonsVars, drawingVars, listVars>>
  \/ /\ program = "Drawing" /\ DrawingNext
     /\ UNCHANGED <<program, runLengthVars, diceVars, buttonsVars, counterVars, listVars>>
  \/ /\ program = "ListOps" /\ ListsNext
     /\ UNCHANGED <<program, runLengthVars, diceVars, buttonsVars, counterVars,
                    drawingVars>>

Spec == Init /\ [][Next]_vars

-----------------------------------------------------------------------------
(* Values for the constants.                                              *)

CONSTANTS h1, h2, e1, e2, e3, e4

TwoLists == {h1, h2}
FourEntries == {e1, e2, e3, e4}
\* Nothing in ListOps depends on which list or entry it is.
ListSymmetry == Permutations(TwoLists) \cup Permutations(FourEntries)

\* Codes less that of '0': the letters a and b, the digit 1, the end of a line.
a == 49
b == 50
one == 1
Characters == {a, b, one, NewLine}

\* Every text of up to four characters, runs around 9, 10 and the end of the
\* buffer, and lines whose encoding is as long as the buffer or longer.
SomeTexts ==
  UNION {[1 .. n -> Characters] : n \in 0 .. 4}
    \cup {[i \in 1 .. n |-> IF i <= k THEN a ELSE b] : n \in 8 .. 14, k \in {1, 9, 10, 11, 14}}
    \cup {[i \in 1 .. n |-> IF i = k THEN NewLine ELSE IF i % 2 = 0 THEN a ELSE b] :
            n \in 5 .. 13, k \in {0, 4, 13}}

SomeNumbers == {-1, 1, 2}
SomeFaces == {1, 6}

\* Up to more characters than fit, all the same or alternating.
SomeStrings == {[i \in 1 .. n |-> IF i % k = 0 THEN "b" ELSE "a"] : n \in 0 .. 8, k \in {1, 2, 9}}
TwoGlyphs == [ch \in {"a", "b"} |-> IF ch = "a" THEN {<<0, 0>>, <<1, 1>>} ELSE {<<1, 0>>}]
=============================================================================
