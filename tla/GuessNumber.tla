---------------------------- MODULE GuessNumber ----------------------------
(***************************************************************************)
(* The guessing game of task 2 (src/task2/guess_the_number.sh).  The three *)
(* parameters of the script, each asked for when it is missing, are the    *)
(* first guess, the upper range and how often the player may guess again.  *)
(* The functions share global variables: what the player compares with the *)
(* random number is kept in toCompareCmdNumber throughout.                 *)
(*                                                                         *)
(* A parameter and an answer to a prompt are modelled alike, as numbers.   *)
(***************************************************************************)
EXTENDS Integers

CONSTANTS
  upperRangeLimit,
  Number,          \* what players enter as guesses and ranges
  Count            \* how often they want to guess again

lowerRangeMin == 1

VARIABLES
  phase,           \* "value", "range", "count", "play", "compare", "guess",
                   \*   "again", "won" or "lost"
  toCompareCmdNumber, upperRange, numberOfGuessings,
  randomNumber, attemptsCounter,
  given            \* history: the first guess, until it has been compared

vars == <<phase, toCompareCmdNumber, upperRange, numberOfGuessings,
          randomNumber, attemptsCounter, given>>

Init ==
  /\ phase = "value"
  /\ toCompareCmdNumber = 0 /\ upperRange = 0 /\ numberOfGuessings = 0
  /\ randomNumber = 0 /\ attemptsCounter = 0
  /\ given = {}

ProcessEnteredUsersValue(n) ==
  /\ phase = "value"
  /\ phase' = "range"
  /\ toCompareCmdNumber' = n
  /\ given' = {n}
  /\ UNCHANGED <<upperRange, numberOfGuessings, randomNumber, attemptsCounter>>

\* The range takes the place of the first guess.
CheckAvailableUpperRange(n) ==
  /\ phase = "range"
  /\ phase' = "count"
  /\ toCompareCmdNumber' = n
  /\ upperRange' = IF n \in lowerRangeMin .. upperRangeLimit THEN n ELSE upperRangeLimit
  /\ UNCHANGED <<numberOfGuessings, randomNumber, attemptsCounter, given>>

CheckNumberOfGuessings(k) ==
  /\ phase = "count"
  /\ phase' = "play"
  /\ numberOfGuessings' = k
  /\ UNCHANGED <<toCompareCmdNumber, upperRange, randomNumber, attemptsCounter, given>>

\* generateRandomValue.
PlayGameLoop ==
  /\ phase = "play"
  /\ phase' = "compare"
  /\ randomNumber' \in 1 .. upperRange
  /\ attemptsCounter' = 1
  /\ UNCHANGED <<toCompareCmdNumber, upperRange, numberOfGuessings, given>>

\* checkEnteredValues and the message about its result.
CheckEnteredValues ==
  /\ phase = "compare"
  /\ given' = {}
  /\ \/ toCompareCmdNumber = randomNumber /\ phase' = "again"
     \/ toCompareCmdNumber # randomNumber /\ attemptsCounter <= numberOfGuessings /\ phase' = "guess"
     \/ toCompareCmdNumber # randomNumber /\ attemptsCounter > numberOfGuessings /\ phase' = "lost"
  /\ UNCHANGED <<toCompareCmdNumber, upperRange, numberOfGuessings, randomNumber, attemptsCounter>>

NewGuess(n) ==
  /\ phase = "guess"
  /\ phase' = "compare"
  /\ toCompareCmdNumber' = n
  /\ attemptsCounter' = attemptsCounter + 1
  /\ UNCHANGED <<upperRange, numberOfGuessings, randomNumber, given>>

\* "Play new game?"
PlayAgain ==
  /\ phase = "again"
  /\ phase' \in {"play", "won"}
  /\ UNCHANGED <<toCompareCmdNumber, upperRange, numberOfGuessings, randomNumber,
                 attemptsCounter, given>>

Next ==
  \/ \E n \in Number :
       ProcessEnteredUsersValue(n) \/ CheckAvailableUpperRange(n) \/ NewGuess(n)
  \/ \E k \in Count : CheckNumberOfGuessings(k)
  \/ PlayGameLoop \/ CheckEnteredValues \/ PlayAgain

Spec == Init /\ [][Next]_vars

-----------------------------------------------------------------------------

\* The random number is first compared with the number that was given as the
\* first parameter of the command line, as src/task2/readme.md:6 demands.
FirstParameterIsFirstGuess ==
  phase = "compare" /\ given # {} => toCompareCmdNumber \in given
=============================================================================
