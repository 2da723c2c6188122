------------------------------- MODULE DiceGame -------------------------------
(***************************************************************************)
(* The dice game of exercise 4: main.c parses the arguments, game_core.c   *)
(* keeps the players and their throws in lists of lists (the copy of       *)
(* linked_list.h beside it), plays and frees everything.                   *)
(*                                                                         *)
(* A list is a sequence; a node is in memory while it is in `heap`.        *)
(***************************************************************************)
EXTENDS Integers, Sequences, SequencesExt, FiniteSets

CONSTANTS
  Numbers,     \* what atoi can make of an option's argument
  Faces        \* what a die can show; 1 .. 6 in the code

ASSUME DiceGameAssumption == Numbers \subseteq Int

VARIABLES
  game,                                     \* "none", "append", "play", "score", "cleanup", "exit"
  num_players, num_dices, num_game_iterations,
  players_list,                             \* the ids in the order of the list
  dice_list,                                \* the throws of each player, in order
  player_it,                                \* the place in players_list that is next
  iteration,                                \* how many iterations are over
  heap,                                     \* nodes: << id >> a player, << id, k >> its k-th die
  score                                     \* the sums print_scoretable has printed

arguments == <<num_players, num_dices, num_game_iterations>>
diceVars == <<game, arguments, players_list, dice_list, player_it, iteration, heap, score>>

DiceInit ==
  /\ game = "none"
  /\ num_players = 0 /\ num_dices = 0 /\ num_game_iterations = 0
  /\ players_list = << >> /\ dice_list = << >>
  /\ player_it = 1 /\ iteration = 0
  /\ heap = {} /\ score = << >>

-----------------------------------------------------------------------------
(* Setting up.                                                             *)

\* main: an option that is not given leaves its zero; too few arguments or an
\* unknown option end the program.
ParseArguments ==
  /\ game = "none"
  /\ \/ game' = "exit" /\ UNCHANGED arguments
     \/ /\ game' = "append"
        /\ num_players' \in Numbers \cup {0}
        /\ num_dices' \in Numbers \cup {0}
        /\ num_game_iterations' \in Numbers \cup {0}
  /\ UNCHANGED <<players_list, dice_list, player_it, iteration, heap, score>>

PlayersMissing == Len(players_list) < num_players

\* append_player_to_game, numbered from one.
AppendPlayer ==
  /\ game = "append" /\ PlayersMissing
  /\ LET id == Len(players_list) + 1
     IN /\ players_list' = Append(players_list, id)
        /\ dice_list' = Append(dice_list, << >>)
        /\ heap' = heap \cup {<< id >>}
  /\ UNCHANGED <<game, arguments, player_it, iteration, score>>

AppendingDone ==
  /\ game = "append" /\ ~PlayersMissing
  /\ game' = "play"
  /\ UNCHANGED <<arguments, players_list, dice_list, player_it, iteration, heap, score>>

-----------------------------------------------------------------------------
(* play_game_iteration: every player throws all dice, in turn.             *)

ThrownThisTurn(id) == Len(dice_list[id]) - iteration * num_dices
MoreThrows(id) == ThrownThisTurn(id) < num_dices

Playing == game = "play" /\ iteration < num_game_iterations

\* player_add_new_dice.
Throw ==
  /\ Playing /\ player_it <= Len(players_list)
  /\ LET id == players_list[player_it]
     IN /\ MoreThrows(id)
        /\ \E face \in Faces : dice_list' = [dice_list EXCEPT ![id] = Append(@, face)]
        /\ heap' = heap \cup {<< id, Len(dice_list[id]) + 1 >>}
  /\ UNCHANGED <<game, arguments, players_list, player_it, iteration, score>>

NextPlayer ==
  /\ Playing /\ player_it <= Len(players_list)
  /\ ~MoreThrows(players_list[player_it])
  /\ player_it' = player_it + 1
  /\ UNCHANGED <<game, arguments, players_list, dice_list, iteration, heap, score>>

NextIteration ==
  /\ Playing /\ player_it > Len(players_list)
  /\ iteration' = iteration + 1 /\ player_it' = 1
  /\ UNCHANGED <<game, arguments, players_list, dice_list, heap, score>>

-----------------------------------------------------------------------------
(* end_game.                                                               *)

player_get_dice_sum(id) == FoldLeft(+, 0, dice_list[id])

\* print_scoretable and print_players_history.
PrintScoretable ==
  /\ game = "play" /\ iteration >= num_game_iterations
  /\ score' = [k \in DOMAIN players_list |-> player_get_dice_sum(players_list[k])]
  /\ game' = "cleanup"
  /\ UNCHANGED <<arguments, players_list, dice_list, player_it, iteration, heap>>

\* player_dtor of the first player, after list_del: its dice, then itself.
DestroyedFirstDieKept(id) ==            \* mutant: the walk starts behind the first die
  {<< id >>} \cup {<< id, k >> : k \in 2 .. Len(dice_list[id])}
Destroyed(id) == {<< id >>} \cup {<< id, k >> : k \in 1 .. Len(dice_list[id])}

CleanupPlayer ==
  /\ game = "cleanup" /\ players_list # << >>
  /\ heap' = heap \ Destroyed(Head(players_list))
  /\ dice_list' = [dice_list EXCEPT ![Head(players_list)] = << >>]
  /\ players_list' = Tail(players_list)
  /\ UNCHANGED <<game, arguments, player_it, iteration, score>>

CleanupDone ==
  /\ game = "cleanup" /\ players_list = << >>
  /\ game' = "exit"
  /\ UNCHANGED <<arguments, players_list, dice_list, player_it, iteration, heap, score>>

DiceNext ==
  \/ ParseArguments \/ AppendPlayer \/ AppendingDone
  \/ Throw \/ NextPlayer \/ NextIteration
  \/ PrintScoretable \/ CleanupPlayer \/ CleanupDone

DiceSpec == DiceInit /\ [][DiceNext]_diceVars

-----------------------------------------------------------------------------
(* The property.                                                           *)

Asked(n) == IF n < 0 THEN 0 ELSE n

\* Whoever is asked for takes part with exactly as many throws as were asked
\* for, a negative number counting as none; and what is in memory is what the
\* lists reach, so that the exit leaves nothing behind.
GameIsFair ==
  LET dice == {<< id, k >> : id \in Range(players_list),
                             k \in 1 .. Asked(num_dices) * Asked(num_game_iterations)}
  IN /\ game = "cleanup" =>
          /\ Len(score) = Asked(num_players)
          /\ heap = {<< id >> : id \in Range(players_list)} \cup dice
     /\ \A node \in heap : Head(node) \in Range(players_list)
=============================================================================
