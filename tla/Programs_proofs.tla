--------------------------- MODULE Programs_proofs ---------------------------
(***************************************************************************)
(* Proofs about programs of the course: the counter program on the board,  *)
(* for any cells and any size of a message, the dice game, for any numbers *)
(* its arguments may hold, the three pollers of buttons, for any history   *)
(* of samples, the drawing of rectangles and of text, for any size of a    *)
(* screen and any strings, every operation on linked lists, for any lists  *)
(* and entries, and the run-length codec, for any texts and any size of a  *)
(* buffer.                                                                 *)
(***************************************************************************)
EXTENDS CounterApp, DiceGame, Buttons, Drawing, ListOps, RunLength, RingLemmas, FiniteSetTheorems,
        SequenceTheorems, TLAPS

(***************************************************************************)
(* The counter program.                                                    *)
(***************************************************************************)

Line == [Cell -> Int]

(* What is sent is the whole frame, whatever the size of a message: there  *)
(* are enough of them for the last cell.                                   *)
LEMMA WholeFrameIsSent == \A frame \in Line : Shown(frame) = frame
<1> SUFFICES ASSUME NEW frame \in Line PROVE Shown(frame) = frame
  OBVIOUS
<1>1. ASSUME NEW c \in Cell PROVE (c - 1) \div DataSize < Sent
  <2> DEFINE d == DataSize
             low == (c - 1) \div d
             high == (Cells - 1) \div d
  <2>1. d \in Nat /\ d > 0 /\ Cells \in Nat /\ c - 1 \in Nat /\ Cells - 1 \in Nat
        /\ c - 1 <= Cells - 1
    BY CounterAppAssumption DEF Cell
  <2>2. low \in Int /\ high \in Int
    BY <2>1
  <2>3. d * low <= c - 1 /\ Cells - 1 < d * high + d
    BY <2>1
  <2>4. low <= high
    <3> HIDE DEF d, low, high
    <3>1. SUFFICES ASSUME high + 1 <= low PROVE FALSE
      BY <2>2
    <3>2. d * (high + 1) <= d * low
      BY <2>1, <2>2, <3>1
    <3>3. d * (high + 1) = d * high + d
      BY <2>1, <2>2
    <3>4. d * high \in Int /\ d * low \in Int
      BY <2>1, <2>2
    <3>5. QED
      BY <2>1, <2>3, <3>2, <3>3, <3>4
  <2>5. QED
    BY <2>2, <2>4 DEF Sent
<1>2. QED
  BY <1>1 DEF Shown, Line

LEMMA DigitsOf ==
  ASSUME NEW n \in Nat
  PROVE  /\ Digits(n) \in Seq(Nat) /\ Len(Digits(n)) \in 1 .. 2
         /\ \A c \in 1 .. Len(Digits(n)) : Digits(n)[c] \in Nat
<1>1. n \div 10 \in Nat /\ n % 10 \in Nat
  OBVIOUS
<1>2. QED
  BY <1>1 DEF Digits

(* The inductive invariant: what is sent is what was drawn; the frame      *)
(* starts with the digits of the number that was drawn last, which is the  *)
(* counter unless that has changed since, and as many cells of it are used *)
(* as the longest number needed.                                           *)
CounterInv ==
  /\ counter_value \in Nat /\ longest \in Nat
  /\ counter_rect_invalidated \in BOOLEAN
  /\ frame_buffer \in Line /\ lcd = frame_buffer
  /\ \A c \in Cell : frame_buffer[c] = Background <=> c > longest
  /\ ~counter_rect_invalidated =>
       /\ Len(Digits(counter_value)) <= longest
       /\ \A c \in Cell : c <= Len(Digits(counter_value)) =>
            frame_buffer[c] = Digits(counter_value)[c]

LEMMA CounterInitInv == CounterInit => CounterInv
BY CounterAppAssumption DEF CounterInit, CounterInv, Line, Cell, Background

LEMMA ButtonsKeepCounter == CounterInv /\ ProcessButtons => CounterInv'
<1> SUFFICES ASSUME CounterInv, ProcessButtons PROVE CounterInv'
  OBVIOUS
<1>1. PICK pin \in [ButtonPin -> {"0", "1", "failed"}] :
        LET click == [b \in ButtonPin |-> Click(buttons[b], pin[b])]
        IN /\ counter_value' = AfterControl(AfterDown(AfterUp(
                counter_value, click["up"]), click["down"]), click["control"])
           /\ counter_rect_invalidated' =
                (counter_rect_invalidated \/ \E b \in ButtonPin : click[b] = "short")
  BY DEF ProcessButtons
<1> DEFINE click == [b \in ButtonPin |-> Click(buttons[b], pin[b])]
<1> HIDE DEF click
<1>2. /\ counter_value' = AfterControl(AfterDown(AfterUp(
           counter_value, click["up"]), click["down"]), click["control"])
      /\ counter_rect_invalidated' =
           (counter_rect_invalidated \/ \E b \in ButtonPin : click[b] = "short")
  BY <1>1 DEF click
<1>3. UNCHANGED <<frame_buffer, lcd, longest>>
  BY DEF ProcessButtons
<1>4. counter_value' \in Nat
  BY <1>2 DEF CounterInv, AfterControl, AfterDown, AfterUp
<1>5. counter_rect_invalidated' \in BOOLEAN
  BY <1>2
<1>6. ~counter_rect_invalidated' =>
        ~counter_rect_invalidated /\ counter_value' = counter_value
  <2>1. SUFFICES ASSUME ~counter_rect_invalidated'
                 PROVE  ~counter_rect_invalidated /\ counter_value' = counter_value
    OBVIOUS
  <2>2. ~counter_rect_invalidated /\ \A b \in ButtonPin : click[b] # "short"
    BY <1>2, <2>1
  <2>3. counter_value' = counter_value
    BY <1>2, <2>2 DEF ButtonPin, AfterControl, AfterDown, AfterUp
  <2>4. QED
    BY <2>2, <2>3
<1>7. Digits(counter_value') = Digits(counter_value)'
  BY DEF Digits
<1>8. QED
  BY <1>3, <1>4, <1>5, <1>6, Zenon DEF CounterInv, Line

LEMMA DrawingKeepsCounter == CounterInv /\ DrawCounter => CounterInv'
<1> SUFFICES ASSUME CounterInv, DrawCounter PROVE CounterInv'
  OBVIOUS
<1>1. CASE ~counter_rect_invalidated
  BY <1>1, Zenon DEF DrawCounter, CounterInv, Line
<1>2. CASE counter_rect_invalidated
  <2> DEFINE digits == Digits(counter_value)
  <2>1. /\ frame_buffer' = Put(frame_buffer, digits) /\ lcd' = Shown(frame_buffer')
        /\ counter_rect_invalidated' = FALSE /\ longest' = Max({longest, Len(digits)})
        /\ counter_value' = counter_value
    BY <1>2 DEF DrawCounter
  <2>2. /\ counter_value \in Nat /\ longest \in Nat /\ frame_buffer \in Line
        /\ \A c \in Cell : frame_buffer[c] = Background <=> c > longest
    BY DEF CounterInv
  <2>3. digits \in Seq(Nat) /\ Len(digits) \in 1 .. 2 /\ \A c \in 1 .. Len(digits) : digits[c] \in Nat
    BY <2>2, DigitsOf
  <2> HIDE DEF digits
  <2>4. longest' \in Nat /\ longest' >= longest /\ longest' >= Len(digits)
        /\ (longest' = longest \/ longest' = Len(digits))
    <3>1. \E m \in {longest, Len(digits)} : \A k \in {longest, Len(digits)} : m >= k
      BY <2>2, <2>3
    <3>2. QED
      BY <2>1, <2>2, <2>3, <3>1 DEF Max
  <2>5. frame_buffer' \in Line
    BY <2>1, <2>2, <2>3 DEF Put, Line, Cell
  <2>6. lcd' = frame_buffer'
    BY <2>1, <2>5, WholeFrameIsSent
  <2>7. \A c \in Cell : frame_buffer'[c] = IF c <= Len(digits) THEN digits[c] ELSE frame_buffer[c]
    BY <2>1 DEF Put
  <2>8. \A c \in Cell : frame_buffer'[c] = Background <=> c > longest'
    BY <2>2, <2>3, <2>4, <2>7, CounterAppAssumption DEF Cell, Background
  <2>9. \A c \in Cell : c <= Len(digits) => frame_buffer'[c] = digits[c]
    BY <2>7
  <2>10. digits = Digits(counter_value')
    BY <2>1 DEF digits
  <2>11. QED
    BY <2>1, <2>2, <2>4, <2>5, <2>6, <2>8, <2>9, <2>10, Zenon DEF CounterInv
<1>3. QED
  BY <1>1, <1>2

LEMMA CounterStep == CounterInv /\ [CounterNext]_counterVars => CounterInv'
<1> SUFFICES ASSUME CounterInv, [CounterNext]_counterVars PROVE CounterInv'
  OBVIOUS
<1>1. CASE ProcessButtons
  BY <1>1, ButtonsKeepCounter
<1>2. CASE DrawCounter
  BY <1>2, DrawingKeepsCounter
<1>3. CASE DrawTime
  <2>1. lcd' = frame_buffer /\ UNCHANGED <<counter_value, counter_rect_invalidated,
                                           frame_buffer, longest>>
    BY <1>3, WholeFrameIsSent DEF DrawTime, CounterInv
  <2>2. QED
    BY <2>1, Zenon DEF CounterInv, Line
<1>4. CASE Start \/ DrawIp \/ Leave \/ UNCHANGED counterVars
  <2>1. UNCHANGED <<counter_value, counter_rect_invalidated, frame_buffer, lcd, longest>>
    BY <1>4 DEF Start, DrawIp, Leave, counterVars
  <2>2. QED
    BY <2>1, Zenon DEF CounterInv, Line
<1>5. QED
  BY <1>1, <1>2, <1>3, <1>4 DEF CounterNext

(* Whatever the buttons do, the display of the counter program starts with *)
(* the digits of the counter after every round, and shows behind them what *)
(* a longer number left and no more.                                       *)
THEOREM CounterIsShown == CounterSpec => []DisplayShowsCounter
<1>1. CounterInv => DisplayShowsCounter
  BY DEF CounterInv, DisplayShowsCounter
<1>2. QED
  BY CounterInitInv, CounterStep, <1>1, PTL DEF CounterSpec

(***************************************************************************)
(* The dice game.                                                          *)
(***************************************************************************)

Rounds == iteration * Asked(num_dices)

DiceShape ==
  /\ num_players \in Int /\ num_dices \in Int /\ num_game_iterations \in Int
  /\ players_list \in Seq(Nat) /\ dice_list \in Seq(Seq(Faces))
  /\ player_it \in Nat \ {0} /\ iteration \in Nat

(* Players are numbered in the order of the list, and leave it in front.   *)
Numbered ==
  /\ Len(players_list) <= Len(dice_list)
  /\ \A k \in 1 .. Len(players_list) :
       players_list[k] = Len(dice_list) - Len(players_list) + k

(* What is in memory is what the destructors of the players would free.    *)
Reached == heap = UNION {Destroyed(id) : id \in Range(players_list)}

(* How far everybody has got.                                              *)
Turns ==
  /\ game \in {"none", "append", "play", "score", "cleanup", "exit"}
  /\ game = "none" => players_list = << >> /\ dice_list = << >>
  /\ game \in {"none", "append"} => player_it = 1 /\ iteration = 0
  /\ game = "append" =>
       /\ Len(players_list) = Len(dice_list) /\ Len(players_list) <= Asked(num_players)
       /\ \A id \in 1 .. Len(dice_list) : Len(dice_list[id]) = 0
  /\ game = "play" =>
       /\ Len(players_list) = Len(dice_list) /\ Len(players_list) = Asked(num_players)
       /\ iteration <= Asked(num_game_iterations)
       /\ \A id \in 1 .. Len(dice_list) :
            /\ id < player_it => Len(dice_list[id]) = Rounds + Asked(num_dices)
            /\ id > player_it => Len(dice_list[id]) = Rounds
            /\ Len(dice_list[id]) \in Rounds .. Rounds + Asked(num_dices)
            /\ iteration >= num_game_iterations => Len(dice_list[id]) = Rounds
  /\ game = "cleanup" =>
       /\ Len(score) = Asked(num_players)
       /\ \A id \in Range(players_list) :
            Len(dice_list[id]) = Asked(num_dices) * Asked(num_game_iterations)
  /\ game = "exit" => players_list = << >>

(* The inductive invariant.                                                *)
DiceInv == DiceShape /\ Numbered /\ Reached /\ Turns

LEMMA AskedIsNat == \A n \in Int : Asked(n) \in Nat
BY DEF Asked

LEMMA RoundsIsNat == DiceShape => Rounds \in Nat /\ Asked(num_dices) \in Nat
<1> SUFFICES ASSUME DiceShape PROVE Rounds \in Nat /\ Asked(num_dices) \in Nat
  OBVIOUS
<1>1. Asked(num_dices) \in Nat /\ iteration \in Nat
  BY AskedIsNat DEF DiceShape
<1>2. QED
  BY <1>1 DEF Rounds

LEMMA RangeOfNumbers ==
  ASSUME NEW s \in Seq(Nat), NEW g \in Int, \A k \in 1 .. Len(s) : s[k] = g + k
  PROVE  Range(s) = g + 1 .. g + Len(s)
<1>1. Len(s) \in Nat /\ DOMAIN s = 1 .. Len(s)
  BY LenProperties
<1>2. ASSUME NEW i \in g + 1 .. g + Len(s) PROVE i \in Range(s)
  <2>1. i - g \in 1 .. Len(s) /\ i = g + (i - g)
    BY <1>1
  <2>2. s[i - g] = i
    BY <2>1
  <2>3. QED
    BY <1>1, <2>1, <2>2 DEF Range
<1>3. ASSUME NEW i \in Range(s) PROVE i \in g + 1 .. g + Len(s)
  <2>1. PICK k \in 1 .. Len(s) : i = s[k]
    BY <1>1 DEF Range
  <2>2. QED
    BY <1>1, <2>1
<1>4. QED
  BY <1>2, <1>3

(* The players of the list are entries of dice_list.                       *)
LEMMA PlayersHaveDice ==
  ASSUME DiceShape, Numbered
  PROVE  /\ Len(players_list) \in Nat /\ Len(dice_list) \in Nat
         /\ DOMAIN players_list = 1 .. Len(players_list)
         /\ Range(players_list) =
              Len(dice_list) - Len(players_list) + 1 .. Len(dice_list)
         /\ Range(players_list) \subseteq 1 .. Len(dice_list)
         /\ \A id \in 1 .. Len(dice_list) :
              dice_list[id] \in Seq(Faces) /\ Len(dice_list[id]) \in Nat
<1>1. Len(players_list) \in Nat /\ Len(dice_list) \in Nat
      /\ DOMAIN players_list = 1 .. Len(players_list)
  BY LenProperties DEF DiceShape
<1>4. Range(players_list) = Len(dice_list) - Len(players_list) + 1 .. Len(dice_list)
  <2> DEFINE g == Len(dice_list) - Len(players_list)
  <2>1. players_list \in Seq(Nat) /\ g \in Int
        /\ \A k \in 1 .. Len(players_list) : players_list[k] = g + k
    BY <1>1 DEF DiceShape, Numbered
  <2>2. g + Len(players_list) = Len(dice_list)
    BY <1>1
  <2> HIDE DEF g
  <2>3. Range(players_list) = g + 1 .. g + Len(players_list)
    BY <2>1, RangeOfNumbers
  <2>4. QED
    BY <2>2, <2>3 DEF g
<1>5. Range(players_list) \subseteq 1 .. Len(dice_list)
  BY <1>1, <1>4 DEF Numbered
<1>6. \A id \in 1 .. Len(dice_list) :
         dice_list[id] \in Seq(Faces) /\ Len(dice_list[id]) \in Nat
  BY ElementOfSeq, LenProperties DEF DiceShape
<1>7. QED
  BY <1>1, <1>4, <1>5, <1>6

LEMMA DiceInitInv == DiceInit => DiceInv
<1> SUFFICES ASSUME DiceInit PROVE DiceInv
  OBVIOUS
<1>1. DiceShape /\ Numbered
  BY EmptySeq DEF DiceInit, DiceShape, Numbered
<1>2. Range(players_list) = {}
  BY DEF DiceInit, Range
<1>3. Reached
  BY <1>2 DEF DiceInit, Reached
<1>4. Turns
  BY DEF DiceInit, Turns
<1>5. QED
  BY <1>1, <1>3, <1>4 DEF DiceInv

LEMMA ReachedFrom ==
  ASSUME \A x : x \in heap' <=> \E i \in Range(players_list') : x \in Destroyed(i)'
  PROVE  Reached'
BY DEF Reached

LEMMA ReachedStays ==
  ASSUME Reached, heap' = heap, players_list' = players_list, dice_list' = dice_list
  PROVE  Reached'
BY DEF Reached, Destroyed

LEMMA ParseKeeps == DiceInv /\ ParseArguments => DiceInv'
<1> SUFFICES ASSUME DiceInv, ParseArguments PROVE DiceInv'
  OBVIOUS
<1>1. /\ game = "none"
      /\ UNCHANGED <<players_list, dice_list, player_it, iteration, heap, score>>
      /\ players_list = << >> /\ dice_list = << >> /\ player_it = 1 /\ iteration = 0
  BY DEF ParseArguments, DiceInv, Turns
<1>2. num_players' \in Int /\ num_dices' \in Int /\ num_game_iterations' \in Int
      /\ game' \in {"append", "exit"}
  <2>1. num_players \in Int /\ num_dices \in Int /\ num_game_iterations \in Int
    BY DEF DiceInv, DiceShape
  <2>2. \A n \in Numbers \cup {0} : n \in Int
    BY DiceGameAssumption
  <2>3. CASE game' = "exit" /\ UNCHANGED arguments
    BY <2>1, <2>3 DEF arguments
  <2>4. CASE /\ game' = "append" /\ num_players' \in Numbers \cup {0}
             /\ num_dices' \in Numbers \cup {0} /\ num_game_iterations' \in Numbers \cup {0}
    BY <2>2, <2>4
  <2>5. QED
    BY <2>3, <2>4 DEF ParseArguments
<1>3. DiceShape' /\ Numbered'
  BY <1>1, <1>2 DEF DiceInv, DiceShape, Numbered
<1>4. Reached'
  BY <1>1, ReachedStays DEF DiceInv
<1>5. Len(<< >>) = 0 /\ Asked(num_players') \in Nat
  BY <1>2, AskedIsNat
<1>6. Turns'
  BY <1>1, <1>2, <1>5 DEF Turns
<1>7. QED
  BY <1>3, <1>4, <1>6 DEF DiceInv

LEMMA AppendKeeps == DiceInv /\ AppendPlayer => DiceInv'
<1> SUFFICES ASSUME DiceInv, AppendPlayer PROVE DiceInv'
  OBVIOUS
<1> DEFINE n == Len(players_list)
           id == n + 1
<1>0. DiceShape /\ Numbered /\ Reached /\ Turns
  BY DEF DiceInv
<1>1. /\ game = "append" /\ n < num_players
      /\ players_list' = Append(players_list, id)
      /\ dice_list' = Append(dice_list, << >>)
      /\ heap' = heap \cup {<< id >>}
      /\ UNCHANGED <<game, arguments, player_it, iteration, score>>
  BY DEF AppendPlayer, PlayersMissing
<1>2. /\ n \in Nat /\ Len(dice_list) = n /\ n <= Asked(num_players)
      /\ \A i \in 1 .. n : Len(dice_list[i]) = 0
      /\ player_it = 1 /\ iteration = 0
      /\ \A k \in 1 .. n : players_list[k] = k
      /\ players_list \in Seq(Nat) /\ dice_list \in Seq(Seq(Faces))
      /\ Range(players_list) = 1 .. n
  <2>1. /\ n \in Nat /\ Len(dice_list) = n /\ n <= Asked(num_players)
        /\ \A i \in 1 .. n : Len(dice_list[i]) = 0
        /\ player_it = 1 /\ iteration = 0
        /\ players_list \in Seq(Nat) /\ dice_list \in Seq(Seq(Faces))
    BY <1>0, <1>1, PlayersHaveDice DEF Turns, DiceShape
  <2>2. \A k \in 1 .. n : players_list[k] = k
    BY <1>0, <2>1 DEF Numbered
  <2>3. Range(players_list) = 1 .. n
    BY <1>0, <2>1, PlayersHaveDice
  <2>4. QED
    BY <2>1, <2>2, <2>3
<1> HIDE DEF n
<1>3. /\ players_list' \in Seq(Nat) /\ Len(players_list') = n + 1
      /\ \A k \in 1 .. n + 1 : players_list'[k] = k
  <2>1. players_list \in Seq(Nat) /\ Len(players_list) = n /\ id \in Nat
    BY <1>2 DEF n
  <2>2. QED
    BY <1>1, <1>2, <2>1
<1>4. /\ dice_list' \in Seq(Seq(Faces)) /\ Len(dice_list') = n + 1
      /\ \A i \in 1 .. n : dice_list'[i] = dice_list[i]
      /\ dice_list'[n + 1] = << >>
  <2>1. << >> \in Seq(Faces)
    OBVIOUS
  <2>2. QED
    BY <1>1, <1>2, <2>1
<1>5. DiceShape'
  BY <1>0, <1>1, <1>3, <1>4 DEF DiceShape, arguments
<1>6. Numbered'
  BY <1>2, <1>3, <1>4 DEF Numbered
<1>7. Range(players_list') = 1 .. n + 1
  <2>1. DOMAIN players_list' = 1 .. n + 1
    BY <1>3, LenProperties
  <2>2. QED
    BY <1>2, <1>3, <2>1 DEF Range
<1>8. Reached'
  <2>1. \A i \in 1 .. n : Destroyed(i)' = Destroyed(i)
    BY <1>4 DEF Destroyed
  <2>2. \A i : i = n + 1 => Destroyed(i)' = {<< i >>}
    <3>1. 1 .. Len(<< >>) = {}
      OBVIOUS
    <3>2. QED
      BY <1>4, <3>1 DEF Destroyed
  <2>3. n + 1 \in 1 .. n + 1 /\ \A i : i \in 1 .. n + 1 <=> i \in 1 .. n \/ i = n + 1
    BY <1>2
  <2>4. heap = UNION {Destroyed(i) : i \in 1 .. n}
    BY <1>0, <1>2 DEF Reached
  <2>5. \A x : x \in heap' <=> \E i \in 1 .. n + 1 : x \in Destroyed(i)'
    <3> TAKE x
    <3>1. x \in heap <=> \E i \in 1 .. n : x \in Destroyed(i)'
      BY <2>1, <2>4
    <3>2. x \in heap' <=> x \in heap \/ x = << n + 1 >>
      BY <1>1
    <3>3. x = << n + 1 >> <=> \A i : i = n + 1 => x \in Destroyed(i)'
      BY <2>2
    <3>4. QED
      BY <2>3, <3>1, <3>2, <3>3, Zenon
  <2>6. QED
    BY <1>7, <2>5, ReachedFrom
<1>9. Turns'
  <2>1. n + 1 <= Asked(num_players)
    BY <1>0, <1>1, <1>2 DEF Asked, DiceShape
  <2>2. \A i \in 1 .. n + 1 : Len(dice_list'[i]) = 0
    <3>1. ASSUME NEW i \in 1 .. n + 1 PROVE Len(dice_list'[i]) = 0
      <4>1. CASE i = n + 1
        BY <1>4, <4>1, EmptySeq
      <4>2. CASE i # n + 1
        <5>1. i \in 1 .. n
          BY <1>2, <4>2
        <5>2. QED
          BY <1>2, <1>4, <5>1, Zenon
      <4>3. QED
        BY <4>1, <4>2
    <3>2. QED
      BY <3>1
  <2>3. QED
    BY <1>1, <1>2, <1>3, <1>4, <2>1, <2>2 DEF Turns, arguments, Asked
<1>10. QED
  BY <1>5, <1>6, <1>8, <1>9 DEF DiceInv

(* Steps that leave the lists and what is in memory as they are.           *)
LEMMA ListsStay ==
  ASSUME DiceInv, UNCHANGED <<arguments, players_list, dice_list, heap>>,
         player_it' \in Nat \ {0}, iteration' \in Nat
  PROVE  DiceShape' /\ Numbered' /\ Reached'
<1>1. DiceShape' /\ Numbered'
  BY DEF DiceInv, DiceShape, Numbered, arguments
<1>2. Reached'
  BY ReachedStays DEF DiceInv
<1>3. QED
  BY <1>1, <1>2

LEMMA BeginsToPlay == DiceInv /\ AppendingDone => DiceInv'
<1> SUFFICES ASSUME DiceInv, AppendingDone PROVE DiceInv'
  OBVIOUS
<1>1. /\ game = "append" /\ game' = "play" /\ ~(Len(players_list) < num_players)
      /\ UNCHANGED <<arguments, players_list, dice_list, player_it, iteration, heap, score>>
  BY DEF AppendingDone, PlayersMissing
<1>2. DiceShape /\ Numbered /\ Turns
  BY DEF DiceInv
<1>3. DiceShape' /\ Numbered' /\ Reached'
  BY <1>1, <1>2, ListsStay DEF DiceShape
<1>4. /\ Len(players_list) = Len(dice_list) /\ Len(players_list) = Asked(num_players)
      /\ iteration = 0 /\ player_it = 1
      /\ \A id \in 1 .. Len(dice_list) : Len(dice_list[id]) = 0
  <2>1. /\ Len(players_list) = Len(dice_list) /\ Len(players_list) <= Asked(num_players)
        /\ iteration = 0 /\ player_it = 1
        /\ \A id \in 1 .. Len(dice_list) : Len(dice_list[id]) = 0
    BY <1>1, <1>2 DEF Turns
  <2>2. Len(players_list) = Asked(num_players)
    <3>1. /\ Len(players_list) \in Nat /\ num_players \in Int
          /\ ~(Len(players_list) < num_players) /\ Len(players_list) <= Asked(num_players)
      BY <1>1, <1>2, <2>1, PlayersHaveDice DEF DiceShape
    <3>2. QED
      BY <3>1 DEF Asked
  <2>3. QED
    BY <2>1, <2>2
<1>5. Asked(num_dices) \in Nat /\ Asked(num_game_iterations) \in Nat
  BY <1>2, AskedIsNat DEF DiceShape
<1>6. Rounds = 0
  BY <1>4, <1>5 DEF Rounds
<1>7. UNCHANGED <<num_players, num_dices, num_game_iterations>>
  BY <1>1 DEF arguments
<1>8. Turns'
  BY <1>1, <1>4, <1>5, <1>6, <1>7 DEF Turns, Rounds, Asked
<1>9. QED
  BY <1>3, <1>8 DEF DiceInv

(* The loop over the dice of a turn ends when there are as many as asked   *)
(* for; a negative number is reached from the start.                       *)
LEMMA EndOfTurn ==
  ASSUME DiceShape, Numbered, NEW id \in 1 .. Len(dice_list),
         Len(dice_list[id]) \in Rounds .. Rounds + Asked(num_dices)
  PROVE  /\ MoreThrows(id) => /\ Asked(num_dices) = num_dices
                              /\ Len(dice_list[id]) < Rounds + Asked(num_dices)
         /\ ~MoreThrows(id) => Len(dice_list[id]) = Rounds + Asked(num_dices)
<1>1. Rounds \in Nat /\ Asked(num_dices) \in Nat /\ Len(dice_list[id]) \in Nat
  BY RoundsIsNat, PlayersHaveDice
<1>2. num_dices \in Int /\ iteration \in Nat
  BY DEF DiceShape
<1>3. CASE num_dices >= 0
  <2>1. Asked(num_dices) = num_dices /\ Rounds = iteration * num_dices
    BY <1>2, <1>3 DEF Asked, Rounds
  <2>2. MoreThrows(id) <=> Len(dice_list[id]) - Rounds < num_dices
    BY <2>1, Zenon DEF MoreThrows, ThrownThisTurn
  <2>3. /\ Len(dice_list[id]) - Rounds < num_dices =>
             Len(dice_list[id]) < Rounds + Asked(num_dices)
        /\ ~(Len(dice_list[id]) - Rounds < num_dices) =>
             Len(dice_list[id]) = Rounds + Asked(num_dices)
    <3>1. Asked(num_dices) = num_dices
      BY <2>1
    <3>2. QED
      BY <1>1, <1>2, <3>1
  <2>4. QED
    BY <2>1, <2>2, <2>3
<1>4. CASE num_dices < 0
  <2>1. Asked(num_dices) = 0 /\ Rounds = 0
    BY <1>2, <1>4 DEF Asked, Rounds
  <2> DEFINE due == iteration * num_dices
  <2>2. due <= 0 /\ due \in Int
    BY <1>2, <1>4
  <2> HIDE DEF due
  <2>3. ~MoreThrows(id)
    <3>1. SUFFICES ASSUME Len(dice_list[id]) - due < num_dices PROVE FALSE
      BY DEF MoreThrows, ThrownThisTurn, due
    <3>2. QED
      BY <1>1, <1>2, <1>4, <2>2, <3>1
  <2>4. QED
    BY <1>1, <2>1, <2>3
<1>5. QED
  BY <1>2, <1>3, <1>4

(* Who plays, in a turn.                                                   *)
LEMMA WhoPlays ==
  ASSUME DiceInv, Playing, player_it <= Len(players_list)
  PROVE  /\ player_it \in 1 .. Len(dice_list) /\ players_list[player_it] = player_it
         /\ Len(dice_list) = Len(players_list)
         /\ Range(players_list) = 1 .. Len(dice_list)
<1>0. DiceShape /\ Numbered /\ Turns /\ game = "play"
  BY DEF DiceInv, Playing
<1>1. Len(players_list) = Len(dice_list) /\ Len(dice_list) \in Nat /\ player_it \in Nat \ {0}
  BY <1>0, PlayersHaveDice DEF Turns, DiceShape
<1>2. player_it \in 1 .. Len(dice_list) /\ player_it \in 1 .. Len(players_list)
  BY <1>1
<1>3. players_list[player_it] = player_it
  BY <1>0, <1>1, <1>2 DEF Numbered
<1>4. Range(players_list) = 1 .. Len(dice_list)
  BY <1>0, <1>1, PlayersHaveDice
<1>5. QED
  BY <1>1, <1>2, <1>3, <1>4

LEMMA ThrowKeeps == DiceInv /\ Throw => DiceInv'
<1> SUFFICES ASSUME DiceInv, Throw PROVE DiceInv'
  OBVIOUS
<1> DEFINE id == player_it
           len == Len(dice_list[id])
<1>0. DiceShape /\ Numbered /\ Reached /\ Turns
  BY DEF DiceInv
<1>1. /\ Playing /\ player_it <= Len(players_list)
      /\ UNCHANGED <<game, arguments, players_list, player_it, iteration, score>>
  BY DEF Throw
<1>2. /\ id \in 1 .. Len(dice_list) /\ players_list[id] = id
      /\ Len(dice_list) = Len(players_list) /\ Range(players_list) = 1 .. Len(dice_list)
  BY <1>1, WhoPlays
<1>3. PICK face \in Faces : dice_list' = [dice_list EXCEPT ![id] = Append(dice_list[id], face)]
  BY <1>2 DEF Throw
<1>4. MoreThrows(id) /\ heap' = heap \cup {<< id, len + 1 >>}
  BY <1>2 DEF Throw
<1>5. dice_list \in Seq(Seq(Faces)) /\ dice_list[id] \in Seq(Faces) /\ len \in Nat
  BY <1>0, <1>2, PlayersHaveDice DEF DiceShape
<1>6. Append(dice_list[id], face) \in Seq(Faces) /\ Len(Append(dice_list[id], face)) = len + 1
  BY <1>5
<1>7. /\ dice_list' \in Seq(Seq(Faces)) /\ Len(dice_list') = Len(dice_list)
      /\ \A i \in 1 .. Len(dice_list) :
           dice_list'[i] = IF i = id THEN Append(dice_list[id], face) ELSE dice_list[i]
  BY <1>2, <1>3, <1>5, <1>6, ExceptSeq
<1>8. \A i \in 1 .. Len(dice_list) :
        Len(dice_list'[i]) = IF i = id THEN len + 1 ELSE Len(dice_list[i])
  BY <1>6, <1>7
<1>9. DiceShape' /\ Numbered'
  BY <1>0, <1>1, <1>7 DEF DiceShape, Numbered, arguments
<1>10. Reached'
  <2>1. \A i \in 1 .. Len(dice_list) : i # id => Destroyed(i)' = Destroyed(i)
    BY <1>8 DEF Destroyed
  <2>2. \A i : i = id => Destroyed(i)' = Destroyed(i) \cup {<< id, len + 1 >>}
    <3>1. 1 .. len + 1 = (1 .. len) \cup {len + 1}
      BY <1>5
    <3>2. Len(dice_list'[id]) = len + 1
      BY <1>2, <1>8
    <3>3. \A i : i = id =>
            Destroyed(i)' = {<< id >>} \cup {<< id, k >> : k \in 1 .. len + 1}
      BY <3>2 DEF Destroyed
    <3>4. Destroyed(id) = {<< id >>} \cup {<< id, k >> : k \in 1 .. len}
      BY DEF Destroyed
    <3>5. QED
      BY <3>1, <3>3, <3>4
  <2>3. heap = UNION {Destroyed(i) : i \in 1 .. Len(dice_list)}
    BY <1>0, <1>2 DEF Reached
  <2>4. ASSUME NEW x
        PROVE  x \in heap' <=> \E i \in 1 .. Len(dice_list) : x \in Destroyed(i)'
    <3>1. x \in heap <=> \E i \in 1 .. Len(dice_list) : x \in Destroyed(i)
      BY <2>3
    <3>2. x \in heap' <=> x \in heap \/ x = << id, len + 1 >>
      BY <1>4
    <3>3. \A i \in 1 .. Len(dice_list) : i # id =>
            (x \in Destroyed(i)' <=> x \in Destroyed(i))
      BY <2>1
    <3>4. \A i : i = id =>
            (x \in Destroyed(i)' <=> x \in Destroyed(i) \/ x = << id, len + 1 >>)
      BY <2>2
    <3> HIDE DEF id, len
    <3>5. id \in 1 .. Len(dice_list)
      BY <1>2
    <3>6. QED
      BY <3>1, <3>2, <3>3, <3>4, <3>5, Zenon
  <2>5. Range(players_list') = 1 .. Len(dice_list)
    BY <1>1, <1>2
  <2>6. QED
    BY <2>4, <2>5, ReachedFrom
<1>11. Turns'
  <2>1. game = "play" /\ game' = "play" /\ iteration < num_game_iterations
    BY <1>1 DEF Playing
  <2>2. Rounds \in Nat /\ Asked(num_dices) \in Nat
    BY <1>0, RoundsIsNat
  <2>3. len \in Rounds .. Rounds + Asked(num_dices)
    BY <1>0, <1>2, <2>1 DEF Turns
  <2>4. len + 1 \in Rounds .. Rounds + Asked(num_dices)
    BY <1>0, <1>2, <1>4, <1>5, <2>2, <2>3, EndOfTurn
  <2>5. UNCHANGED <<num_players, num_dices, num_game_iterations, iteration, player_it,
                    players_list, Rounds>>
    BY <1>1 DEF arguments, Rounds, Asked
  <2>6. ASSUME NEW i \in 1 .. Len(dice_list)
        PROVE  /\ i < player_it => Len(dice_list'[i]) = Rounds + Asked(num_dices)
               /\ i > player_it => Len(dice_list'[i]) = Rounds
               /\ Len(dice_list'[i]) \in Rounds .. Rounds + Asked(num_dices)
    <3>1. CASE i = id
      BY <1>0, <1>8, <2>4, <3>1 DEF DiceShape
    <3>2. CASE i # id
      BY <1>0, <1>8, <2>1, <3>2 DEF Turns
    <3>3. QED
      BY <3>1, <3>2
  <2>7. ~(iteration >= num_game_iterations)
    BY <1>0, <2>1 DEF DiceShape
  <2>8. /\ Len(players_list) = Len(dice_list) /\ Len(players_list) = Asked(num_players)
        /\ iteration <= Asked(num_game_iterations)
    BY <1>0, <2>1 DEF Turns
  <2>9. Asked(num_dices)' = Asked(num_dices) /\ Asked(num_players)' = Asked(num_players)
        /\ Asked(num_game_iterations)' = Asked(num_game_iterations)
    BY <2>5 DEF Asked
  <2>10. QED
    BY <1>7, <2>1, <2>5, <2>6, <2>7, <2>8, <2>9 DEF Turns
<1>12. QED
  BY <1>9, <1>10, <1>11 DEF DiceInv

LEMMA NextPlayerKeeps == DiceInv /\ NextPlayer => DiceInv'
<1> SUFFICES ASSUME DiceInv, NextPlayer PROVE DiceInv'
  OBVIOUS
<1>0. DiceShape /\ Numbered /\ Turns
  BY DEF DiceInv
<1>1. /\ Playing /\ player_it <= Len(players_list)
      /\ player_it' = player_it + 1
      /\ UNCHANGED <<game, arguments, players_list, dice_list, iteration, heap, score>>
  BY DEF NextPlayer
<1>2. /\ player_it \in 1 .. Len(dice_list) /\ players_list[player_it] = player_it
  BY <1>1, WhoPlays
<1>3. ~MoreThrows(player_it)
  BY <1>2 DEF NextPlayer
<1>4. DiceShape' /\ Numbered' /\ Reached'
  <2>1. player_it' \in Nat \ {0} /\ iteration' \in Nat
    BY <1>0, <1>1 DEF DiceShape
  <2>2. QED
    BY <1>1, <2>1, ListsStay
<1>5. Turns'
  <2>1. game = "play" /\ game' = "play" /\ iteration < num_game_iterations
    BY <1>1 DEF Playing
  <2>2. Rounds \in Nat /\ Asked(num_dices) \in Nat
    BY <1>0, RoundsIsNat
  <2>3. /\ Len(players_list) = Len(dice_list) /\ Len(players_list) = Asked(num_players)
        /\ iteration <= Asked(num_game_iterations)
        /\ \A i \in 1 .. Len(dice_list) :
             /\ i < player_it => Len(dice_list[i]) = Rounds + Asked(num_dices)
             /\ i > player_it => Len(dice_list[i]) = Rounds
             /\ Len(dice_list[i]) \in Rounds .. Rounds + Asked(num_dices)
    BY <1>0, <2>1 DEF Turns
  <2>4. Len(dice_list[player_it]) = Rounds + Asked(num_dices)
    BY <1>0, <1>2, <1>3, <2>3, EndOfTurn
  <2>5. /\ Rounds' = Rounds /\ Asked(num_dices)' = Asked(num_dices)
        /\ Asked(num_players)' = Asked(num_players)
        /\ Asked(num_game_iterations)' = Asked(num_game_iterations)
        /\ UNCHANGED <<iteration, num_game_iterations, players_list, dice_list>>
    BY <1>1 DEF arguments, Rounds, Asked
  <2>6. \A i \in 1 .. Len(dice_list) :
             /\ i < player_it + 1 => Len(dice_list[i]) = Rounds + Asked(num_dices)
             /\ i > player_it + 1 => Len(dice_list[i]) = Rounds
    BY <1>2, <2>3, <2>4
  <2>7. ~(iteration >= num_game_iterations)
    BY <1>0, <2>1 DEF DiceShape
  <2>8. QED
    BY <1>1, <2>1, <2>3, <2>5, <2>6, <2>7 DEF Turns
<1>6. QED
  BY <1>4, <1>5 DEF DiceInv

LEMMA NextIterationKeeps == DiceInv /\ NextIteration => DiceInv'
<1> SUFFICES ASSUME DiceInv, NextIteration PROVE DiceInv'
  OBVIOUS
<1>0. DiceShape /\ Numbered /\ Turns
  BY DEF DiceInv
<1>1. /\ game = "play" /\ iteration < num_game_iterations /\ player_it > Len(players_list)
      /\ iteration' = iteration + 1 /\ player_it' = 1
      /\ UNCHANGED <<game, arguments, players_list, dice_list, heap, score>>
  BY DEF NextIteration, Playing
<1>2. DiceShape' /\ Numbered' /\ Reached'
  <2>1. player_it' \in Nat \ {0} /\ iteration' \in Nat
    BY <1>0, <1>1 DEF DiceShape
  <2>2. QED
    BY <1>1, <2>1, ListsStay
<1>3. Turns'
  <2>1. /\ Len(players_list) = Len(dice_list) /\ Len(players_list) = Asked(num_players)
        /\ \A i \in 1 .. Len(dice_list) :
              i < player_it => Len(dice_list[i]) = Rounds + Asked(num_dices)
    BY <1>0, <1>1 DEF Turns
  <2>2. Rounds \in Nat /\ Asked(num_dices) \in Nat /\ iteration \in Nat
        /\ player_it \in Nat /\ Len(dice_list) \in Nat /\ num_game_iterations \in Int
    BY <1>0, RoundsIsNat, PlayersHaveDice DEF DiceShape
  <2>3. \A i \in 1 .. Len(dice_list) : Len(dice_list[i]) = Rounds + Asked(num_dices)
    BY <1>1, <2>1, <2>2
  <2>4. Rounds' = Rounds + Asked(num_dices)
    <3>1. Rounds' = (iteration + 1) * Asked(num_dices)
      BY <1>1 DEF Rounds, Asked, arguments
    <3>2. QED
      BY <2>2, <3>1 DEF Rounds
  <2>5. iteration + 1 <= Asked(num_game_iterations)
    BY <1>1, <2>2 DEF Asked
  <2>6. /\ Asked(num_dices)' = Asked(num_dices) /\ Asked(num_players)' = Asked(num_players)
        /\ Asked(num_game_iterations)' = Asked(num_game_iterations)
        /\ UNCHANGED <<players_list, dice_list>>
    BY <1>1 DEF arguments, Asked
  <2>7. \A i \in 1 .. Len(dice_list) :
          Len(dice_list[i]) = Rounds' /\ ~(i < 1)
          /\ Len(dice_list[i]) \in Rounds' .. Rounds' + Asked(num_dices)
    BY <2>2, <2>3, <2>4
  <2>8. QED
    BY <1>1, <2>1, <2>5, <2>6, <2>7 DEF Turns
<1>4. QED
  BY <1>2, <1>3 DEF DiceInv

LEMMA PrintKeeps == DiceInv /\ PrintScoretable => DiceInv'
<1> SUFFICES ASSUME DiceInv, PrintScoretable PROVE DiceInv'
  OBVIOUS
<1>0. DiceShape /\ Numbered /\ Turns
  BY DEF DiceInv
<1>1. /\ game = "play" /\ iteration >= num_game_iterations /\ game' = "cleanup"
      /\ score' = [k \in DOMAIN players_list |-> player_get_dice_sum(players_list[k])]
      /\ UNCHANGED <<arguments, players_list, dice_list, player_it, iteration, heap>>
  BY DEF PrintScoretable
<1>2. DiceShape' /\ Numbered' /\ Reached'
  BY <1>0, <1>1, ListsStay DEF DiceShape
<1>3. Turns'
  <2>1. /\ Len(players_list) = Asked(num_players)
        /\ iteration <= Asked(num_game_iterations)
        /\ \A id \in 1 .. Len(dice_list) : Len(dice_list[id]) = Rounds
    BY <1>0, <1>1 DEF Turns
  <2>2. Len(score') = Asked(num_players)
    <3>1. DOMAIN players_list = 1 .. Len(players_list) /\ Len(players_list) \in Nat
      BY <1>0, PlayersHaveDice
    <3>2. score' = [k \in 1 .. Len(players_list) |-> player_get_dice_sum(players_list[k])]
      BY <1>1, <3>1
    <3>3. Len(score') = Len(players_list)
      BY <3>1, <3>2
    <3>4. QED
      BY <2>1, <3>3
  <2>3. iteration = Asked(num_game_iterations)
    BY <1>0, <1>1, <2>1 DEF Asked, DiceShape
  <2>4. Rounds = Asked(num_dices) * Asked(num_game_iterations)
    <3>1. Asked(num_dices) \in Nat /\ iteration \in Nat
      BY <1>0, RoundsIsNat DEF DiceShape
    <3>2. QED
      BY <2>3, <3>1 DEF Rounds
  <2>5. \A id \in Range(players_list) :
          Len(dice_list[id]) = Asked(num_dices) * Asked(num_game_iterations)
    BY <1>0, <2>1, <2>4, PlayersHaveDice
  <2>6. /\ Asked(num_dices)' = Asked(num_dices) /\ Asked(num_players)' = Asked(num_players)
        /\ Asked(num_game_iterations)' = Asked(num_game_iterations)
        /\ UNCHANGED <<players_list, dice_list>>
    BY <1>1 DEF arguments, Asked
  <2>7. QED
    BY <1>1, <2>2, <2>5, <2>6 DEF Turns
<1>4. QED
  BY <1>2, <1>3 DEF DiceInv

LEMMA CleanupKeeps == DiceInv /\ CleanupPlayer => DiceInv'
<1> SUFFICES ASSUME DiceInv, CleanupPlayer PROVE DiceInv'
  OBVIOUS
<1> DEFINE n == Len(players_list)
           first == Head(players_list)
           gone == Len(dice_list) - n
<1>0. DiceShape /\ Numbered /\ Reached /\ Turns
  BY DEF DiceInv
<1>1. /\ game = "cleanup" /\ players_list # << >>
      /\ heap' = heap \ Destroyed(first)
      /\ dice_list' = [dice_list EXCEPT ![first] = << >>]
      /\ players_list' = Tail(players_list)
      /\ UNCHANGED <<game, arguments, player_it, iteration, score>>
  BY DEF CleanupPlayer
<1>2. /\ n \in Nat \ {0} /\ Len(dice_list) \in Nat /\ gone \in Nat
      /\ Range(players_list) = gone + 1 .. Len(dice_list)
      /\ \A k \in 1 .. n : players_list[k] = gone + k
      /\ players_list \in Seq(Nat) /\ dice_list \in Seq(Seq(Faces))
  <2>1. players_list \in Seq(Nat) /\ dice_list \in Seq(Seq(Faces))
    BY <1>0 DEF DiceShape
  <2>2. n \in Nat \ {0}
    BY <1>1, <2>1, EmptySeq
  <2>3. Len(dice_list) \in Nat /\ n <= Len(dice_list)
    BY <1>0, PlayersHaveDice DEF Numbered
  <2>4. QED
    BY <1>0, <2>1, <2>2, <2>3, PlayersHaveDice DEF Numbered
<1>3. first = gone + 1
  BY <1>2
<1> HIDE DEF n, first, gone
<1>4. /\ players_list' \in Seq(Nat) /\ Len(players_list') = n - 1
      /\ \A k \in 1 .. n - 1 : players_list'[k] = gone + 1 + k
  <2>1. /\ Tail(players_list) \in Seq(Nat) /\ Len(Tail(players_list)) = n - 1
        /\ \A k \in 1 .. Len(Tail(players_list)) : Tail(players_list)[k] = players_list[k + 1]
    BY <1>1, <1>2, HeadTailProperties DEF n
  <2>2. \A k \in 1 .. n - 1 : players_list[k + 1] = gone + 1 + k
    BY <1>2
  <2>3. QED
    BY <1>1, <2>1, <2>2
<1>5. first \in 1 .. Len(dice_list) /\ Len(dice_list) = gone + n
  BY <1>2, <1>3 DEF gone
<1>6. /\ dice_list' \in Seq(Seq(Faces)) /\ Len(dice_list') = Len(dice_list)
      /\ \A i \in 1 .. Len(dice_list) : i # first => dice_list'[i] = dice_list[i]
  <2>1. << >> \in Seq(Faces)
    OBVIOUS
  <2>2. QED
    BY <1>1, <1>2, <1>5, <2>1, ExceptSeq
<1>7. DiceShape'
  BY <1>0, <1>1, <1>4, <1>6 DEF DiceShape, arguments
<1>8. Numbered'
  <2>1. Len(dice_list') - (n - 1) = gone + 1 /\ n - 1 <= Len(dice_list')
    BY <1>2, <1>5, <1>6
  <2>2. QED
    BY <1>4, <2>1 DEF Numbered
<1>9. Range(players_list') = gone + 2 .. Len(dice_list)
  <2>1. gone + 1 \in Int
    BY <1>2
  <2>2. Range(players_list') = gone + 1 + 1 .. gone + 1 + (n - 1)
    BY <1>4, <2>1, RangeOfNumbers
  <2>3. QED
    BY <1>2, <1>5, <2>2
<1>10. /\ Range(players_list') \subseteq Range(players_list) \ {first}
       /\ Range(players_list) \subseteq Range(players_list') \cup {first}
       /\ Range(players_list') \subseteq 1 .. Len(dice_list)
  BY <1>2, <1>3, <1>9
<1>11. Reached'
  <2>1. \A i \in Range(players_list') : Destroyed(i)' = Destroyed(i)
    BY <1>6, <1>10 DEF Destroyed
  <2>2. \A i \in Range(players_list') : Destroyed(i) \cap Destroyed(first) = {}
    BY <1>10 DEF Destroyed
  <2>3. heap = UNION {Destroyed(i) : i \in Range(players_list)}
    BY <1>0 DEF Reached
  <2>4. first \in Range(players_list)
    BY <1>2, <1>3, <1>5
  <2>5. heap' = UNION {Destroyed(i) : i \in Range(players_list')}
    BY <1>1, <1>10, <2>2, <2>3, <2>4
  <2>6. QED
    BY <2>1, <2>5, ReachedFrom
<1>12. Turns'
  <2>1. /\ Len(score) = Asked(num_players)
        /\ \A id \in Range(players_list) :
             Len(dice_list[id]) = Asked(num_dices) * Asked(num_game_iterations)
    BY <1>0, <1>1 DEF Turns
  <2>2. \A id \in Range(players_list') :
             Len(dice_list'[id]) = Asked(num_dices) * Asked(num_game_iterations)
    BY <1>6, <1>10, <2>1
  <2>3. /\ Asked(num_dices)' = Asked(num_dices) /\ Asked(num_players)' = Asked(num_players)
        /\ Asked(num_game_iterations)' = Asked(num_game_iterations)
    BY <1>1 DEF arguments, Asked
  <2>4. QED
    BY <1>1, <2>1, <2>2, <2>3 DEF Turns
<1>13. QED
  BY <1>7, <1>8, <1>11, <1>12 DEF DiceInv

LEMMA CleanupDoneKeeps == DiceInv /\ CleanupDone => DiceInv'
<1> SUFFICES ASSUME DiceInv, CleanupDone PROVE DiceInv'
  OBVIOUS
<1>1. /\ players_list = << >> /\ game' = "exit"
      /\ UNCHANGED <<arguments, players_list, dice_list, player_it, iteration, heap, score>>
  BY DEF CleanupDone
<1>2. DiceShape' /\ Numbered' /\ Reached'
  BY <1>1, ListsStay DEF DiceInv, DiceShape
<1>3. Turns'
  BY <1>1 DEF Turns
<1>4. QED
  BY <1>2, <1>3 DEF DiceInv

LEMMA DiceStep == DiceInv /\ [DiceNext]_diceVars => DiceInv'
<1> SUFFICES ASSUME DiceInv, [DiceNext]_diceVars PROVE DiceInv'
  OBVIOUS
<1>1. CASE UNCHANGED diceVars
  <2>1. UNCHANGED <<game, arguments, players_list, dice_list, player_it, iteration, heap, score>>
    BY <1>1 DEF diceVars
  <2>2. DiceShape' /\ Numbered' /\ Reached'
    BY <2>1, ListsStay DEF DiceInv, DiceShape
  <2>3. Turns'
    BY <2>1, Zenon DEF DiceInv, Turns, Rounds, Asked, arguments
  <2>4. QED
    BY <2>2, <2>3 DEF DiceInv
<1>2. QED
  BY <1>1, ParseKeeps, AppendKeeps, BeginsToPlay, ThrowKeeps, NextPlayerKeeps,
     NextIterationKeeps, PrintKeeps, CleanupKeeps, CleanupDoneKeeps DEF DiceNext

(* The dice game is fair and leaves nothing in memory, whatever it is      *)
(* asked for and whatever the dice show.                                   *)
THEOREM EverybodyPlays == DiceSpec => []GameIsFair
<1>1. DiceInv => GameIsFair
  <2> SUFFICES ASSUME DiceInv PROVE GameIsFair
    OBVIOUS
  <2>1. heap = UNION {Destroyed(id) : id \in Range(players_list)}
    BY DEF DiceInv, Reached
  <2>2. ASSUME NEW node \in heap PROVE Head(node) \in Range(players_list)
    BY <2>1 DEF Destroyed
  <2>3. ASSUME game = "cleanup"
        PROVE  /\ Len(score) = Asked(num_players)
               /\ heap = {<< id >> : id \in Range(players_list)}
                    \cup {<< id, k >> : id \in Range(players_list),
                            k \in 1 .. Asked(num_dices) * Asked(num_game_iterations)}
    <3> DEFINE all == Asked(num_dices) * Asked(num_game_iterations)
    <3>1. /\ Len(score) = Asked(num_players)
          /\ \A id \in Range(players_list) : Len(dice_list[id]) = all
      BY <2>3 DEF DiceInv, Turns
    <3> HIDE DEF all
    <3>2. \A id \in Range(players_list) :
            Destroyed(id) = {<< id >>} \cup {<< id, k >> : k \in 1 .. all}
      BY <3>1 DEF Destroyed
    <3>3. heap = {<< id >> : id \in Range(players_list)}
                    \cup {<< id, k >> : id \in Range(players_list), k \in 1 .. all}
      BY <2>1, <3>2
    <3>4. QED
      BY <3>1, <3>3 DEF all
  <2>4. QED
    BY <2>2, <2>3 DEF GameIsFair
<1>2. QED
  BY DiceInitInv, DiceStep, <1>1, PTL DEF DiceSpec

(***************************************************************************)
(* The buttons.                                                            *)
(***************************************************************************)

Pin == {"0", "1", "failed"}

(* Counting one poll more.                                                 *)
LEMMA CountNext ==
  ASSUME NEW n \in Nat, NEW A, A \subseteq 1 .. n
  PROVE  /\ IsFiniteSet(A) /\ Cardinality(A) \in Nat
         /\ Cardinality(A \cup {n + 1}) = Cardinality(A) + 1
<1>1. IsFiniteSet(1 .. n)
  BY FS_Interval
<1>2. IsFiniteSet(A)
  BY <1>1, FS_Subset
<1>3. n + 1 \notin A
  OBVIOUS
<1>4. QED
  BY <1>2, <1>3, FS_AddElement, FS_CardinalityType

LEMMA NoneCounted == Cardinality({}) = 0
  BY FS_EmptySet

(* The last of some polls.                                                 *)
LEMMA LastIsThere ==
  ASSUME NEW n \in Nat, NEW T, T \subseteq 1 .. n, T # {}
  PROVE  Max(T) \in T /\ \A x \in T : x <= Max(T)
<1> DEFINE Back == {n - x : x \in T}
<1>1. Back \subseteq Nat /\ Back # {}
  <2>1. \A x \in T : n - x \in Nat
    OBVIOUS
  <2>2. QED
    BY <2>1, Zenon
<1>2. PICK b \in Back : \A c \in Back : b <= c
  BY <1>1, Least
<1>3. PICK x \in T : b = n - x
  OBVIOUS
<1>4. \A y \in T : x >= y
  <2> TAKE y \in T
  <2>1. n - y \in Back
    OBVIOUS
  <2>2. n - x <= n - y
    BY <1>2, <1>3, <2>1
  <2>3. x \in Int /\ y \in Int
    OBVIOUS
  <2>4. QED
    BY <2>2, <2>3
<1>5. Max(T) \in T /\ \A y \in T : Max(T) >= y
  BY <1>4 DEF Max
<1>6. QED
  BY <1>5

(* What the polls of a history were, one poll later.                       *)
Polled(s, pin, t, n) == t = Append(s, pin) /\ n = Len(s)

LEMMA KnownNext ==
  ASSUME NEW s \in Seq(Pin), NEW pin \in Pin, NEW t, NEW n, Polled(s, pin, t, n)
  PROVE  /\ \A i \in 1 .. n + 1 : KnownBefore(t, i) = KnownBefore(s, i)
         /\ KnownBefore(t, n + 2) = IF pin = "failed" THEN KnownBefore(s, n + 1) ELSE pin
<1> DEFINE Known(q, i) == {j \in 1 .. i - 1 : q[j] # "failed"}
<1>0. /\ n \in Nat /\ t \in Seq(Pin) /\ Len(t) = n + 1
      /\ \A j \in 1 .. n : t[j] = s[j]
      /\ t[n + 1] = pin
  BY AppendProperties, LenProperties DEF Polled
<1>1. ASSUME NEW q, NEW i
      PROVE  KnownBefore(q, i) = IF Known(q, i) = {} THEN "unset" ELSE q[Max(Known(q, i))]
  BY DEF KnownBefore
<1>2. ASSUME NEW i \in 1 .. n + 1
      PROVE  KnownBefore(t, i) = KnownBefore(s, i)
  <2>1. Known(t, i) = Known(s, i)
    BY <1>0
  <2>2. Known(s, i) \subseteq 1 .. n
    BY <1>0
  <2>3. Known(s, i) # {} => Max(Known(s, i)) \in 1 .. n
    BY <1>0, <2>2, LastIsThere
  <2> HIDE DEF Known
  <2>4. QED
    BY <1>0, <1>1, <2>1, <2>3
<1>3. CASE pin = "failed"
  <2>1. Known(t, n + 2) = Known(s, n + 1)
    <3>1. \A j : j \in 1 .. n + 2 - 1 <=> j \in 1 .. n \/ j = n + 1
      BY <1>0
    <3>2. \A j : j \in 1 .. n + 1 - 1 <=> j \in 1 .. n
      BY <1>0
    <3>3. QED
      BY <1>0, <1>3, <3>1, <3>2
  <2>2. Known(s, n + 1) \subseteq 1 .. n
    BY <1>0
  <2>3. Known(s, n + 1) # {} => Max(Known(s, n + 1)) \in 1 .. n
    BY <1>0, <2>2, LastIsThere
  <2> HIDE DEF Known
  <2>4. QED
    BY <1>0, <1>1, <1>2, <1>3, <2>1, <2>3
<1>4. CASE pin # "failed"
  <2>1. n + 1 \in Known(t, n + 2) /\ Known(t, n + 2) \subseteq 1 .. n + 1
    BY <1>0, <1>4
  <2>2. Max(Known(t, n + 2)) = n + 1
    <3>1. /\ Max(Known(t, n + 2)) \in Known(t, n + 2)
          /\ \A x \in Known(t, n + 2) : x <= Max(Known(t, n + 2))
      <4>1. n + 1 \in Nat
        BY <1>0
      <4> HIDE DEF Known
      <4>2. QED
        BY <2>1, <4>1, LastIsThere
    <3> HIDE DEF Known
    <3>2. QED
      BY <1>0, <2>1, <3>1
  <2> HIDE DEF Known
  <2>3. QED
    BY <1>0, <1>1, <1>2, <1>4, <2>1, <2>2
<1>5. QED
  BY <1>2, <1>3, <1>4

LEMMA SinceNext ==
  ASSUME NEW s \in Seq(Pin), NEW pin \in Pin, NEW t, NEW n, Polled(s, pin, t, n), NEW v
  PROVE  /\ \A i \in 1 .. n + 1 : Since(t, i, v) = Since(s, i, v)
         /\ Since(t, n + 2, v) = IF pin = v THEN {} ELSE Since(s, n + 1, v) \cup {n + 1}
         /\ Since(s, n + 1, v) \subseteq 1 .. n
<1>0. n \in Nat /\ (\A j \in 1 .. n : t[j] = s[j]) /\ t[n + 1] = pin
  BY AppendProperties, LenProperties DEF Polled
<1>1. \A i \in 1 .. n + 1 : Since(t, i, v) = Since(s, i, v)
  BY <1>0 DEF Since
<1>2. Since(s, n + 1, v) \subseteq 1 .. n
  BY <1>0 DEF Since
<1>3. CASE pin = v
  <2>1. \A j \in 1 .. n + 2 - 1 : n + 1 \in j .. n + 2 - 1
    BY <1>0
  <2>2. QED
    BY <1>0, <1>1, <1>2, <1>3, <2>1 DEF Since
<1>4. CASE pin # v
  <2>1. \A j : j \in Since(t, n + 2, v) <=> j \in Since(s, n + 1, v) \cup {n + 1}
    <3> TAKE j
    <3>1. CASE j = n + 1
      BY <1>0, <1>4, <3>1 DEF Since
    <3>2. CASE j \in 1 .. n
      <4>1. \A k : k \in j .. n + 2 - 1 <=> k \in j .. n + 1 - 1 \/ k = n + 1
        BY <1>0, <3>2
      <4>2. \A k \in j .. n + 1 - 1 : t[k] = s[k]
        BY <1>0, <3>2
      <4>3. j \in 1 .. n + 2 - 1 /\ j \in 1 .. n + 1 - 1 /\ j # n + 1
        BY <1>0, <3>2
      <4>4. QED
        BY <1>0, <1>4, <4>1, <4>2, <4>3 DEF Since
    <3>3. CASE j # n + 1 /\ j \notin 1 .. n
      BY <1>0, <3>3 DEF Since
    <3>4. QED
      BY <3>1, <3>2, <3>3
  <2>2. QED
    BY <1>1, <1>2, <1>4, <2>1
<1>5. QED
  BY <1>1, <1>2, <1>3, <1>4

LEMMA LowNext ==
  ASSUME NEW s \in Seq(Pin), NEW pin \in Pin, NEW t, NEW n, Polled(s, pin, t, n)
  PROVE  /\ \A i \in 1 .. n + 1 : Low(t, i) = Low(s, i)
         /\ Low(s, n + 1) \in Nat
         /\ Low(t, n + 2) = CASE pin = "1" -> 0
                              [] pin = "0" -> Low(s, n + 1) + 1
                              [] OTHER -> Low(s, n + 1)
<1> DEFINE Zeros(q, i) == {j \in Since(q, i, "1") : q[j] = "0"}
<1>0. n \in Nat /\ (\A j \in 1 .. n : t[j] = s[j]) /\ t[n + 1] = pin
  BY AppendProperties, LenProperties DEF Polled
<1>1. /\ \A i \in 1 .. n + 1 : Since(t, i, "1") = Since(s, i, "1")
      /\ Since(t, n + 2, "1") = IF pin = "1" THEN {} ELSE Since(s, n + 1, "1") \cup {n + 1}
      /\ Since(s, n + 1, "1") \subseteq 1 .. n
  BY SinceNext
<1>2. \A q, i : Low(q, i) = Cardinality(Zeros(q, i))
  BY DEF Low
<1>3. ASSUME NEW i \in 1 .. n + 1 PROVE Zeros(t, i) = Zeros(s, i)
  <2>1. \A j \in Since(s, i, "1") : j \in 1 .. n
    BY <1>0 DEF Since
  <2>2. QED
    BY <1>0, <1>1, <2>1
<1>4. Zeros(s, n + 1) \subseteq 1 .. n
  BY <1>1
<1>5. Zeros(t, n + 2) = CASE pin = "1" -> {}
                          [] pin = "0" -> Zeros(s, n + 1) \cup {n + 1}
                          [] OTHER -> Zeros(s, n + 1)
  <2>1. \A j \in Since(s, n + 1, "1") : j \in 1 .. n /\ t[j] = s[j]
    BY <1>0, <1>1
  <2>2. CASE pin = "1"
    BY <1>1, <2>2
  <2>3. CASE pin = "0"
    BY <1>0, <1>1, <2>1, <2>3
  <2>4. CASE pin = "failed"
    BY <1>0, <1>1, <2>1, <2>4
  <2>5. QED
    BY <2>2, <2>3, <2>4 DEF Pin
<1> HIDE DEF Zeros
<1>6. Cardinality(Zeros(s, n + 1)) \in Nat
      /\ Cardinality(Zeros(s, n + 1) \cup {n + 1}) = Cardinality(Zeros(s, n + 1)) + 1
  BY <1>0, <1>4, CountNext
<1>7. \A i \in 1 .. n + 1 : Low(t, i) = Low(s, i)
  BY <1>2, <1>3
<1>8. Low(t, n + 2) = CASE pin = "1" -> 0
                        [] pin = "0" -> Low(s, n + 1) + 1
                        [] OTHER -> Low(s, n + 1)
  BY <1>2, <1>5, <1>6, NoneCounted DEF Pin
<1>9. QED
  BY <1>2, <1>6, <1>7, <1>8

LEMMA HighNext ==
  ASSUME NEW s \in Seq(Pin), NEW pin \in Pin, NEW t, NEW n, Polled(s, pin, t, n)
  PROVE  /\ \A i \in 1 .. n + 1 : High(t, i) = High(s, i)
         /\ High(s, n + 1) \in Nat
         /\ High(t, n + 2) = CASE pin = "0" -> 0
                               [] pin # "0" /\ KnownBefore(t, n + 2) = "1" -> High(s, n + 1) + 1
                               [] OTHER -> High(s, n + 1)
<1> DEFINE Ones(q, i) == {j \in Since(q, i, "0") : KnownBefore(q, j + 1) = "1"}
<1>0. n \in Nat /\ (\A j \in 1 .. n : t[j] = s[j]) /\ t[n + 1] = pin
  BY AppendProperties, LenProperties DEF Polled
<1>1. /\ \A i \in 1 .. n + 1 : Since(t, i, "0") = Since(s, i, "0")
      /\ Since(t, n + 2, "0") = IF pin = "0" THEN {} ELSE Since(s, n + 1, "0") \cup {n + 1}
      /\ Since(s, n + 1, "0") \subseteq 1 .. n
  BY SinceNext
<1>2. \A q, i : High(q, i) = Cardinality(Ones(q, i))
  BY DEF High
<1>3. \A j \in 1 .. n : KnownBefore(t, j + 1) = KnownBefore(s, j + 1)
  <2>1. \A i \in 1 .. n + 1 : KnownBefore(t, i) = KnownBefore(s, i)
    BY KnownNext
  <2>2. \A j \in 1 .. n : j + 1 \in 1 .. n + 1
    BY <1>0
  <2>3. QED
    BY <2>1, <2>2
<1>4. ASSUME NEW i \in 1 .. n + 1 PROVE Ones(t, i) = Ones(s, i)
  <2>1. \A j \in Since(s, i, "0") : j \in 1 .. n
    BY <1>0 DEF Since
  <2>2. QED
    BY <1>1, <1>3, <2>1
<1>5. Ones(s, n + 1) \subseteq 1 .. n
  BY <1>1
<1>6. (n + 1) + 1 = n + 2
  BY <1>0
<1>7. Ones(t, n + 2) = CASE pin = "0" -> {}
                         [] pin # "0" /\ KnownBefore(t, n + 2) = "1" -> Ones(s, n + 1) \cup {n + 1}
                         [] OTHER -> Ones(s, n + 1)
  <2>1. \A j \in Since(s, n + 1, "0") : KnownBefore(t, j + 1) = KnownBefore(s, j + 1)
    BY <1>1, <1>3
  <2>2. CASE pin = "0"
    BY <1>1, <2>2
  <2>3. CASE pin # "0" /\ KnownBefore(t, n + 2) = "1"
    BY <1>1, <1>6, <2>1, <2>3
  <2>4. CASE pin # "0" /\ KnownBefore(t, n + 2) # "1"
    BY <1>1, <1>6, <2>1, <2>4
  <2>5. QED
    BY <2>2, <2>3, <2>4
<1> HIDE DEF Ones
<1>8. Cardinality(Ones(s, n + 1)) \in Nat
      /\ Cardinality(Ones(s, n + 1) \cup {n + 1}) = Cardinality(Ones(s, n + 1)) + 1
  BY <1>0, <1>5, CountNext
<1>9. \A i \in 1 .. n + 1 : High(t, i) = High(s, i)
  BY <1>2, <1>4
<1>10. High(t, n + 2) = CASE pin = "0" -> 0
                          [] pin # "0" /\ KnownBefore(t, n + 2) = "1" -> High(s, n + 1) + 1
                          [] OTHER -> High(s, n + 1)
  BY <1>2, <1>7, <1>8, NoneCounted
<1>11. QED
  BY <1>2, <1>8, <1>9, <1>10

(* The polls at which an event is due, one poll later.                     *)
LEMMA PressesNext ==
  ASSUME NEW s \in Seq(Pin), NEW pin \in Pin, NEW t, NEW n, Polled(s, pin, t, n)
  PROVE  /\ ShortPresses(s) \subseteq 1 .. n /\ LongPresses(s) \subseteq 1 .. n
         /\ ShortPresses(t) = IF pin = "1" /\ Low(s, n + 1) \in 1 .. ShortClick - 1
                              THEN ShortPresses(s) \cup {n + 1} ELSE ShortPresses(s)
         /\ LongPresses(t) = IF pin = "1" /\ Low(s, n + 1) > LongClick
                             THEN LongPresses(s) \cup {n + 1} ELSE LongPresses(s)
<1>0. n \in Nat /\ (\A j \in 1 .. n : t[j] = s[j]) /\ t[n + 1] = pin /\ Len(t) = n + 1
  BY AppendProperties, LenProperties DEF Polled
<1>1. (\A i \in 1 .. n : Low(t, i) = Low(s, i)) /\ Low(t, n + 1) = Low(s, n + 1)
  <2>1. \A i \in 1 .. n + 1 : Low(t, i) = Low(s, i)
    BY LowNext
  <2>2. n + 1 \in 1 .. n + 1 /\ \A i \in 1 .. n : i \in 1 .. n + 1
    BY <1>0
  <2>3. QED
    BY <2>1, <2>2
<1>2. n = Len(s) /\ \A i : i \in 1 .. Len(t) <=> i \in 1 .. n \/ i = n + 1
  BY <1>0 DEF Polled
<1>3. n + 1 \notin 1 .. n
  BY <1>0
<1>4. ShortPresses(t) = IF pin = "1" /\ Low(s, n + 1) \in 1 .. ShortClick - 1
                        THEN ShortPresses(s) \cup {n + 1} ELSE ShortPresses(s)
  <2> DEFINE Due(l) == l \in 1 .. ShortClick - 1
  <2>1. \A q : ShortPresses(q) = {i \in 1 .. Len(q) : q[i] = "1" /\ Due(Low(q, i))}
    BY DEF ShortPresses
  <2> HIDE DEF Due
  <2>2. ShortPresses(t) = IF pin = "1" /\ Due(Low(s, n + 1))
                          THEN ShortPresses(s) \cup {n + 1} ELSE ShortPresses(s)
    BY <1>0, <1>1, <1>2, <1>3, <2>1, Zenon
  <2>3. QED
    BY <2>2 DEF Due
<1>5. LongPresses(t) = IF pin = "1" /\ Low(s, n + 1) > LongClick
                       THEN LongPresses(s) \cup {n + 1} ELSE LongPresses(s)
  <2> DEFINE Due(l) == l > LongClick
  <2>1. \A q : LongPresses(q) = {i \in 1 .. Len(q) : q[i] = "1" /\ Due(Low(q, i))}
    BY DEF LongPresses
  <2> HIDE DEF Due
  <2>2. LongPresses(t) = IF pin = "1" /\ Due(Low(s, n + 1))
                         THEN LongPresses(s) \cup {n + 1} ELSE LongPresses(s)
    BY <1>0, <1>1, <1>2, <1>3, <2>1, Zenon
  <2>3. QED
    BY <2>2 DEF Due
<1>6. ShortPresses(s) \subseteq 1 .. n /\ LongPresses(s) \subseteq 1 .. n
  BY <1>2 DEF ShortPresses, LongPresses
<1>7. QED
  BY <1>4, <1>5, <1>6

LEMMA LetGoNext ==
  ASSUME NEW s \in Seq(Pin), NEW pin \in Pin, NEW t, NEW n, Polled(s, pin, t, n)
  PROVE  /\ LetGo(s) \subseteq 1 .. n
         /\ LetGo(t) = IF pin = "0" /\ KnownBefore(s, n + 1) = "1"
                       THEN LetGo(s) \cup {n + 1} ELSE LetGo(s)
         /\ Endings(t) = IF /\ pin = "0" /\ KnownBefore(s, n + 1) = "1"
                            /\ High(s, n + 1) >= LongPress
                         THEN Endings(s) \cup {n + 1} ELSE Endings(s)
<1>0. n \in Nat /\ (\A j \in 1 .. n : t[j] = s[j]) /\ t[n + 1] = pin /\ Len(t) = n + 1
  BY AppendProperties, LenProperties DEF Polled
<1>1. /\ \A i \in 1 .. n : High(t, i) = High(s, i) /\ KnownBefore(t, i) = KnownBefore(s, i)
      /\ High(t, n + 1) = High(s, n + 1) /\ KnownBefore(t, n + 1) = KnownBefore(s, n + 1)
  <2>1. \A i \in 1 .. n + 1 : High(t, i) = High(s, i)
    BY HighNext
  <2>2. \A i \in 1 .. n + 1 : KnownBefore(t, i) = KnownBefore(s, i)
    BY KnownNext
  <2>3. n + 1 \in 1 .. n + 1 /\ \A i \in 1 .. n : i \in 1 .. n + 1
    BY <1>0
  <2>4. QED
    BY <2>1, <2>2, <2>3
<1>2. n = Len(s) /\ \A i : i \in 1 .. Len(t) <=> i \in 1 .. n \/ i = n + 1
  BY <1>0 DEF Polled
<1>3. n + 1 \notin 1 .. n
  BY <1>0
<1>4. LetGo(t) = IF pin = "0" /\ KnownBefore(s, n + 1) = "1"
                 THEN LetGo(s) \cup {n + 1} ELSE LetGo(s)
  BY <1>0, <1>1, <1>2, <1>3, Zenon DEF LetGo
<1>5. LetGo(s) \subseteq 1 .. n
  BY <1>2 DEF LetGo
<1>6. Endings(t) = IF /\ pin = "0" /\ KnownBefore(s, n + 1) = "1"
                      /\ High(s, n + 1) >= LongPress
                   THEN Endings(s) \cup {n + 1} ELSE Endings(s)
  <2> DEFINE Ends(h) == h >= LongPress
  <2>1. \A q : Endings(q) = {i \in LetGo(q) : Ends(High(q, i))}
    BY DEF Endings
  <2> HIDE DEF Ends
  <2>2. \A i \in LetGo(s) : High(t, i) = High(s, i)
    BY <1>1, <1>5
  <2>3. Endings(t) = IF pin = "0" /\ KnownBefore(s, n + 1) = "1" /\ Ends(High(s, n + 1))
                     THEN Endings(s) \cup {n + 1} ELSE Endings(s)
    BY <1>1, <1>4, <2>1, <2>2, Zenon
  <2>4. QED
    BY <2>3 DEF Ends
<1>7. QED
  BY <1>4, <1>5, <1>6

LEMMA BeforeEndingsNext ==
  ASSUME NEW s \in Seq(Pin), NEW pin \in Pin, NEW t, NEW n, Polled(s, pin, t, n)
  PROVE  /\ BeforeEndings(s) \subseteq 1 .. n
         /\ BeforeEndings(t) =
              IF /\ Endings(s) = {} /\ pin = "0" /\ KnownBefore(s, n + 1) = "1"
                 /\ ~(High(s, n + 1) >= LongPress)
              THEN BeforeEndings(s) \cup {n + 1} ELSE BeforeEndings(s)
<1>0. n \in Nat
  BY AppendProperties, LenProperties DEF Polled
<1>1. /\ LetGo(s) \subseteq 1 .. n
      /\ LetGo(t) = IF pin = "0" /\ KnownBefore(s, n + 1) = "1"
                    THEN LetGo(s) \cup {n + 1} ELSE LetGo(s)
      /\ Endings(t) = IF /\ pin = "0" /\ KnownBefore(s, n + 1) = "1"
                         /\ High(s, n + 1) >= LongPress
                      THEN Endings(s) \cup {n + 1} ELSE Endings(s)
  BY LetGoNext
<1>2. Endings(s) \subseteq 1 .. n
  BY <1>1 DEF Endings
<1>3. \A q : BeforeEndings(q) = {i \in LetGo(q) : \A j \in Endings(q) : i < j}
  BY DEF BeforeEndings
<1>4. \A i \in LetGo(s) : i \in 1 .. n /\ i < n + 1
  BY <1>0, <1>1
<1>5. \A j \in Endings(s) : ~(n + 1 < j)
  BY <1>0, <1>2
<1>6. ~(n + 1 < n + 1)
  BY <1>0
<1> DEFINE Falls == pin = "0" /\ KnownBefore(s, n + 1) = "1"
           Ends == High(s, n + 1) >= LongPress
<1>7. /\ LetGo(t) = IF Falls THEN LetGo(s) \cup {n + 1} ELSE LetGo(s)
      /\ Endings(t) = IF Falls /\ Ends THEN Endings(s) \cup {n + 1} ELSE Endings(s)
  BY <1>1
<1>8. BeforeEndings(s) \subseteq 1 .. n
  BY <1>3, <1>4
<1> DEFINE m == n + 1
<1> SUFFICES BeforeEndings(t) = IF Endings(s) = {} /\ Falls /\ ~Ends
                                THEN BeforeEndings(s) \cup {m} ELSE BeforeEndings(s)
  BY <1>8
<1>9. /\ \A i \in LetGo(s) : i < m
      /\ \A j \in Endings(s) : ~(m < j)
      /\ ~(m < m)
      /\ LetGo(t) = IF Falls THEN LetGo(s) \cup {m} ELSE LetGo(s)
      /\ Endings(t) = IF Falls /\ Ends THEN Endings(s) \cup {m} ELSE Endings(s)
  BY <1>4, <1>5, <1>6, <1>7
<1> HIDE DEF Falls, Ends, m
<1>10. CASE ~Falls
  BY <1>3, <1>9, <1>10
<1>11. CASE Falls /\ Ends
  BY <1>3, <1>9, <1>11, Zenon
<1>12. CASE Falls /\ ~Ends
  BY <1>3, <1>9, <1>12, Zenon
<1>13. QED
  BY <1>10, <1>11, <1>12

(* The script, field by field.                                             *)
Scripts == [value : {"unset", "0", "1"}, previous : {"0", "1"}, pressed : Nat,
            printed : Nat, exited : BOOLEAN]
Runs(v, pr, pd, pt) ==
  [value |-> v, previous |-> pr, pressed |-> pd, printed |-> pt, exited |-> FALSE]
Ended(v, pr, pd, pt) ==
  [value |-> v, previous |-> pr, pressed |-> pd, printed |-> pt, exited |-> TRUE]

LEMMA ScriptAfterIs ==
  ASSUME NEW s, s.exited = FALSE, NEW pin, NEW w, w = IF pin = "failed" THEN s.value ELSE pin
  PROVE  LET after == ScriptAfter(s, pin)
         IN /\ w = "1" /\ s.previous = "1" =>
                 after = Runs(w, "1", s.pressed + 1, s.printed)
            /\ w = "1" /\ s.previous # "1" => after = Runs(w, "1", 1, s.printed)
            /\ w # "1" /\ s.pressed >= LongPress =>
                 after = Ended(w, s.previous, s.pressed, s.printed)
            /\ w # "1" /\ ~(s.pressed >= LongPress) /\ s.pressed > 0 =>
                 after = Runs(w, "0", 0, s.printed + 1)
            /\ w # "1" /\ ~(s.pressed >= LongPress) /\ ~(s.pressed > 0) =>
                 after = Runs(w, s.previous, s.pressed, s.printed)
  BY Zenon DEF ScriptAfter, Runs, Ended
(* What each program knows of the pin; what task 4 and the script count is *)
(* the stretch of polls it stands for.                                     *)
ButtonsInv ==
  /\ samples \in Seq(Pin)
  /\ LET next == Len(samples) + 1
         known == KnownBefore(samples, next)
     IN /\ button \in [press_count : Nat, button_state : {"None", "kPressed", "kReleased"}]
        /\ button.press_count = Low(samples, next)
        /\ button.press_count > 0 => button.button_state = "kPressed"
        /\ clicks \in [{"short", "long", "none"} -> Nat]
        /\ port \in [state : {"unknown", "Pressed", "Released"}, clicks : Nat]
        /\ port.state = "Pressed" <=> known = "1"
        /\ script \in Scripts
        /\ ~script.exited =>
             /\ script.value = known
             /\ script.pressed = High(samples, next)
             /\ script.previous = "1" <=> known = "1"
             /\ script.pressed > 0 <=> known = "1"
  /\ EventsMatchHistory

LEMMA InitButtonsInv == ButtonsInit => ButtonsInv
<1> SUFFICES ASSUME ButtonsInit PROVE ButtonsInv
  OBVIOUS
<1>1. samples = << >> /\ samples \in Seq(Pin) /\ Len(samples) = 0 /\ Len(samples) + 1 = 1
  BY DEF ButtonsInit
<1>2. 1 .. 1 - 1 = {} /\ 1 .. 0 = {}
  OBVIOUS
<1>3. KnownBefore(samples, 1) = "unset"
  BY <1>2 DEF KnownBefore
<1>4. Low(samples, 1) = 0 /\ High(samples, 1) = 0
  BY <1>2, NoneCounted DEF Low, High, Since
<1>5. LetGo(samples) = {} /\ ShortPresses(samples) = {} /\ LongPresses(samples) = {}
  BY <1>1, <1>2 DEF LetGo, ShortPresses, LongPresses
<1>6. Endings(samples) = {} /\ BeforeEndings(samples) = {}
  BY <1>5 DEF Endings, BeforeEndings
<1>7. EventsMatchHistory
  BY <1>5, <1>6, NoneCounted DEF ButtonsInit, EventsMatchHistory
<1>8. QED
  BY <1>1, <1>3, <1>4, <1>7 DEF ButtonsInv, ButtonsInit, NoButtonYet, Scripts

LEMMA PollButtonsInv == ButtonsInv /\ Poll => ButtonsInv'
<1> SUFFICES ASSUME ButtonsInv, Poll PROVE ButtonsInv'
  OBVIOUS
<1>1. PICK pin \in Pin :
        /\ samples' = Append(samples, pin)
        /\ clicks' = [clicks EXCEPT ![Click(button, pin)] = @ + 1]
        /\ button' = ButtonAfter(button, pin)
        /\ port' = PortAfter(port, pin)
        /\ script' = ScriptAfter(script, pin)
  BY DEF Poll, Pin
<1> DEFINE s == samples
           t == samples'
           n == Len(samples)
           known == KnownBefore(s, n + 1)
           known1 == KnownBefore(t, n + 2)
           low == Low(s, n + 1)
           high == High(s, n + 1)
<1>2. s \in Seq(Pin) /\ Polled(s, pin, t, n)
  BY <1>1 DEF ButtonsInv, Polled
<1>3. n \in Nat /\ t \in Seq(Pin) /\ Len(t) + 1 = n + 2
  <2>1. n \in Nat /\ t \in Seq(Pin) /\ Len(t) = n + 1
    BY <1>2, AppendProperties, LenProperties DEF Polled
  <2>2. QED
    BY <2>1
<1>4. known1 = IF pin = "failed" THEN known ELSE pin
  BY <1>2, KnownNext
<1>5. low \in Nat /\ Low(t, n + 2) = CASE pin = "1" -> 0 [] pin = "0" -> low + 1 [] OTHER -> low
  BY <1>2, LowNext
<1>6. high \in Nat /\ High(t, n + 2) = CASE pin = "0" -> 0
                                        [] pin # "0" /\ known1 = "1" -> high + 1
                                        [] OTHER -> high
  BY <1>2, HighNext
<1>7. /\ ShortPresses(s) \subseteq 1 .. n /\ LongPresses(s) \subseteq 1 .. n
      /\ ShortPresses(t) = IF pin = "1" /\ low \in 1 .. ShortClick - 1
                           THEN ShortPresses(s) \cup {n + 1} ELSE ShortPresses(s)
      /\ LongPresses(t) = IF pin = "1" /\ low > LongClick
                          THEN LongPresses(s) \cup {n + 1} ELSE LongPresses(s)
  BY <1>2, PressesNext
<1>8. /\ LetGo(s) \subseteq 1 .. n
      /\ LetGo(t) = IF pin = "0" /\ known = "1" THEN LetGo(s) \cup {n + 1} ELSE LetGo(s)
      /\ Endings(t) = IF pin = "0" /\ known = "1" /\ high >= LongPress
                      THEN Endings(s) \cup {n + 1} ELSE Endings(s)
  BY <1>2, LetGoNext
<1>9. /\ BeforeEndings(s) \subseteq 1 .. n
      /\ BeforeEndings(t) =
           IF Endings(s) = {} /\ pin = "0" /\ known = "1" /\ ~(high >= LongPress)
           THEN BeforeEndings(s) \cup {n + 1} ELSE BeforeEndings(s)
  BY <1>2, BeforeEndingsNext
<1>10. \A A : A \subseteq 1 .. n =>
         Cardinality(A) \in Nat /\ Cardinality(A \cup {n + 1}) = Cardinality(A) + 1
  BY <1>3, CountNext
<1>11. /\ button \in [press_count : Nat, button_state : {"None", "kPressed", "kReleased"}]
       /\ button.press_count = low
       /\ button.press_count > 0 => button.button_state = "kPressed"
       /\ clicks \in [{"short", "long", "none"} -> Nat]
       /\ port \in [state : {"unknown", "Pressed", "Released"}, clicks : Nat]
       /\ port.state = "Pressed" <=> known = "1"
       /\ script \in Scripts
       /\ ~script.exited =>
            /\ script.value = known
            /\ script.pressed = high
            /\ script.previous = "1" <=> known = "1"
            /\ script.pressed > 0 <=> known = "1"
  BY DEF ButtonsInv
<1>111. /\ script.value \in {"unset", "0", "1"} /\ script.previous \in {"0", "1"}
        /\ script.pressed \in Nat /\ script.printed \in Nat /\ script.exited \in BOOLEAN
  BY <1>11 DEF Scripts
<1>12. /\ clicks["short"] = Cardinality(ShortPresses(s))
       /\ clicks["long"] = Cardinality(LongPresses(s))
       /\ port.clicks = Cardinality(LetGo(s))
       /\ script.exited <=> Endings(s) # {}
       /\ script.printed = Cardinality(BeforeEndings(s))
  BY DEF ButtonsInv, EventsMatchHistory
<1>13. pin \in {"0", "1", "failed"}
  BY DEF Pin
<1> DEFINE low1 == Low(t, n + 2)
           high1 == High(t, n + 2)
<1> HIDE DEF s, t, n, known, known1, low, high, low1, high1
<1>14. /\ button' \in [press_count : Nat, button_state : {"None", "kPressed", "kReleased"}]
       /\ button'.press_count = low1
       /\ button'.press_count > 0 => button'.button_state = "kPressed"
  BY <1>1, <1>5, <1>11, <1>13 DEF ButtonAfter, low1
<1>15. /\ port' \in [state : {"unknown", "Pressed", "Released"}, clicks : Nat]
       /\ port'.state = "Pressed" <=> known1 = "1"
       /\ port'.clicks = Cardinality(LetGo(t))
  <2>1. /\ port' \in [state : {"unknown", "Pressed", "Released"}, clicks : Nat]
        /\ port'.state = "Pressed" <=> known1 = "1"
        /\ port'.clicks = IF pin = "0" /\ known = "1" THEN port.clicks + 1 ELSE port.clicks
    BY <1>1, <1>4, <1>11, <1>13 DEF PortAfter
  <2>2. QED
    BY <1>8, <1>10, <1>12, <2>1
<1>16. /\ clicks' \in [{"short", "long", "none"} -> Nat]
       /\ clicks'["short"] = Cardinality(ShortPresses(t))
       /\ clicks'["long"] = Cardinality(LongPresses(t))
  <2>1. Click(button, pin) = CASE pin = "1" /\ low \in 1 .. ShortClick - 1 -> "short"
                               [] pin = "1" /\ low > LongClick -> "long"
                               [] OTHER -> "none"
    <3>1. button.press_count = low /\ (low > 0 => button.button_state = "kPressed")
      BY <1>11
    <3>2. CASE pin = "1" /\ low > 0
      BY <1>5, <3>1, <3>2, PinEventsAssumption DEF Click
    <3>3. CASE pin = "1" /\ low = 0
      BY <3>1, <3>3, PinEventsAssumption DEF Click
    <3>4. CASE pin # "1"
      BY <3>4 DEF Click
    <3>5. QED
      BY <1>5, <3>2, <3>3, <3>4
  <2>2. ~(low \in 1 .. ShortClick - 1 /\ low > LongClick)
    BY <1>5, PinEventsAssumption
  <2>3. CASE pin = "1" /\ low \in 1 .. ShortClick - 1
    BY <1>1, <1>7, <1>10, <1>11, <1>12, <2>1, <2>2, <2>3
  <2>4. CASE pin = "1" /\ low > LongClick
    BY <1>1, <1>7, <1>10, <1>11, <1>12, <2>1, <2>2, <2>4
  <2>5. CASE ~(pin = "1" /\ low \in 1 .. ShortClick - 1) /\ ~(pin = "1" /\ low > LongClick)
    BY <1>1, <1>7, <1>11, <1>12, <2>1, <2>5
  <2>6. QED
    BY <2>3, <2>4, <2>5
<1> DEFINE w == IF pin = "failed" THEN script.value ELSE pin
<1>17. /\ script' \in Scripts
       /\ script'.exited <=> Endings(t) # {}
       /\ script'.printed = Cardinality(BeforeEndings(t))
       /\ ~script'.exited =>
            /\ script'.value = known1
            /\ script'.pressed = high1
            /\ script'.previous = "1" <=> known1 = "1"
            /\ script'.pressed > 0 <=> known1 = "1"
  <2>1. CASE script.exited
    <3>1. script' = script /\ Endings(s) # {}
      BY <1>1, <1>12, <2>1 DEF ScriptAfter
    <3>2. Endings(t) # {} /\ BeforeEndings(t) = BeforeEndings(s)
      BY <1>8, <1>9, <3>1
    <3>3. QED
      BY <1>11, <1>12, <2>1, <3>1, <3>2
  <2>2. CASE ~script.exited
    <3>0. Endings(s) = {} /\ script.value = known /\ script.pressed = high
      BY <1>11, <1>12, <2>2
    <3>1. w = known1 /\ w \in {"unset", "0", "1"}
      BY <1>4, <1>111, <1>13, <3>0
    <3>2. script.exited = FALSE /\ script.printed \in Nat /\ script.previous \in {"0", "1"}
      BY <1>111, <2>2
    <3> HIDE DEF w
    <3>3. CASE known1 = "1"
      <4>1. pin # "0" /\ Endings(t) = {} /\ BeforeEndings(t) = BeforeEndings(s)
            /\ high1 = high + 1
        BY <1>4, <1>6, <1>8, <1>9, <1>13, <3>0, <3>3 DEF high1
      <4>2. script.previous # "1" => high = 0
        BY <1>6, <1>11, <2>2, <3>0
      <4>3. script' = Runs("1", "1", high + 1, script.printed)
        <5>1. w = "1" => /\ script.previous = "1" =>
                              script' = Runs("1", "1", high + 1, script.printed)
                         /\ script.previous # "1" =>
                              script' = Runs("1", "1", 1, script.printed)
          BY <1>1, <3>0, <3>2, ScriptAfterIs DEF w
        <5>2. script.previous # "1" => high + 1 = 1
          BY <4>2
        <5>3. QED
          BY <3>1, <3>3, <5>1, <5>2
      <4>4. /\ script'.value = "1" /\ script'.previous = "1" /\ script'.pressed = high + 1
            /\ script'.printed = script.printed /\ script'.exited = FALSE /\ script' \in Scripts
        <5>1. high + 1 \in Nat
          BY <1>6
        <5>2. QED
          BY <3>2, <4>3, <5>1 DEF Runs, Scripts
      <4>5. script'.pressed > 0
        BY <1>6, <4>4
      <4>6. QED
        BY <1>12, <3>3, <4>1, <4>4, <4>5, Zenon
    <3>4. CASE known1 # "1" /\ high >= LongPress
      <4>1. known = "1" /\ pin = "0"
        BY <1>4, <1>6, <1>11, <1>13, <2>2, <3>0, <3>4, ButtonsAssumption
      <4>2. Endings(t) # {} /\ BeforeEndings(t) = BeforeEndings(s)
        BY <1>8, <1>9, <3>4, <4>1
      <4>3. script' = Ended(w, script.previous, script.pressed, script.printed)
        BY <1>1, <3>0, <3>1, <3>2, <3>4, ScriptAfterIs DEF w
      <4>4. script'.printed = script.printed /\ script'.exited = TRUE /\ script' \in Scripts
        BY <1>6, <1>111, <3>0, <3>1, <4>3 DEF Ended, Scripts
      <4>5. QED
        BY <1>12, <4>2, <4>4, Zenon
    <3>5. CASE known1 # "1" /\ ~(high >= LongPress) /\ high > 0
      <4>1. known = "1" /\ pin = "0" /\ known1 = "0"
        BY <1>4, <1>6, <1>11, <1>13, <2>2, <3>0, <3>5
      <4>2. Endings(t) = {} /\ BeforeEndings(t) = BeforeEndings(s) \cup {n + 1} /\ high1 = 0
        BY <1>6, <1>8, <1>9, <3>0, <3>5, <4>1 DEF high1
      <4>3. Cardinality(BeforeEndings(t)) = script.printed + 1
        BY <1>9, <1>10, <1>12, <4>2
      <4>4. script' = Runs(w, "0", 0, script.printed + 1)
        BY <1>1, <3>0, <3>1, <3>2, <3>5, ScriptAfterIs DEF w
      <4>5. /\ script'.value = w /\ script'.previous = "0" /\ script'.pressed = 0
            /\ script'.printed = script.printed + 1 /\ script'.exited = FALSE
            /\ script' \in Scripts
        <5>1. script.printed + 1 \in Nat /\ 0 \in Nat
          BY <3>2
        <5>2. QED
          BY <3>1, <4>4, <5>1 DEF Runs, Scripts
      <4>6. ~(script'.pressed > 0)
        BY <4>5
      <4>7. QED
        BY <3>1, <3>5, <4>2, <4>3, <4>5, <4>6, Zenon
    <3>6. CASE known1 # "1" /\ ~(high >= LongPress) /\ ~(high > 0)
      <4>1. known # "1" /\ script.previous = "0" /\ pin # "1" /\ high = 0
        BY <1>4, <1>6, <1>11, <1>111, <1>13, <2>2, <3>0, <3>6
      <4>2. Endings(t) = {} /\ BeforeEndings(t) = BeforeEndings(s) /\ high1 = 0
        BY <1>6, <1>8, <1>9, <1>13, <3>0, <3>6, <4>1 DEF high1
      <4>3. script' = Runs(w, "0", 0, script.printed)
        BY <1>1, <3>0, <3>1, <3>2, <3>6, <4>1, ScriptAfterIs, ZenonT(30) DEF w
      <4>4. /\ script'.value = w /\ script'.previous = "0" /\ script'.pressed = 0
            /\ script'.printed = script.printed /\ script'.exited = FALSE
            /\ script' \in Scripts
        BY <3>1, <3>2, <4>3 DEF Runs, Scripts
      <4>5. ~(script'.pressed > 0)
        BY <4>4
      <4>6. QED
        BY <1>12, <3>1, <3>6, <4>2, <4>4, <4>5, Zenon
    <3>7. QED
      BY <3>3, <3>4, <3>5, <3>6
  <2>3. QED
    BY <2>1, <2>2
<1>18. Endings(t) # {} <=> script'.exited
  BY <1>17
<1>19. EventsMatchHistory'
  BY <1>15, <1>16, <1>17 DEF EventsMatchHistory, t
<1>20. /\ samples' \in Seq(Pin) /\ Len(samples') + 1 = n + 2
       /\ known1 = KnownBefore(samples', n + 2)
       /\ low1 = Low(samples', n + 2) /\ high1 = High(samples', n + 2)
  BY <1>3 DEF known1, low1, high1, t
<1>21. QED
  BY <1>14, <1>15, <1>16, <1>17, <1>19, <1>20 DEF ButtonsInv

(* Every event of the three programs stands for one press in the history   *)
(* of the pin, of the length its handler asks for, whatever the samples    *)
(* (process_pin_event, PortWrapper::updateButtonState, time_script.sh).    *)
THEOREM EveryPressIsAnEvent == ButtonsSpec => []EventsMatchHistory
<1>1. ButtonsInv /\ [ButtonsNext]_buttonsVars => ButtonsInv'
  <2>1. ASSUME ButtonsInv, UNCHANGED buttonsVars PROVE ButtonsInv'
    BY <2>1 DEF buttonsVars, ButtonsInv, EventsMatchHistory
  <2>2. QED
    BY <2>1, PollButtonsInv DEF ButtonsNext
<1>2. QED
  BY <1>1, InitButtonsInv, PTL DEF ButtonsSpec, ButtonsInv

(***************************************************************************)
(* The drawing calls.                                                      *)
(***************************************************************************)

(* The address of a pixel on the screen is in the frame buffer, and the    *)
(* addresses of a rectangle are those of its places.                       *)
LEMMA OnScreen ==
  ASSUME NEW x \in 0 .. Width - 1, NEW y \in 0 .. Height - 1
  PROVE  At(x, y) \in Address
<1> DEFINE f == Width * Height
           p == Width * y
           q == Width * (FontHeight + Height)
<1>1. Width \in Nat /\ Height \in Nat /\ FontHeight \in Nat /\ Width > 0
  BY DrawingAssumption
<1>2. p \in Nat /\ q \in Nat /\ f \in Nat
  BY <1>1
<1>3. p <= Width * (Height - 1) /\ Width * (Height - 1) = f - Width
  BY <1>1
<1>4. x \in Nat /\ x <= Width - 1
  BY <1>1
<1>5. At(x, y) = x + p /\ Address = 0 .. f + q - 1
  BY DEF At, Address, FrameSize
<1> HIDE DEF f, p, q
<1>6. p <= f - Width
  BY <1>1, <1>2, <1>3
<1>7. QED
  BY <1>1, <1>2, <1>4, <1>5, <1>6

LEMMA Offset ==
  ASSUME NEW x \in Nat, NEW y \in Nat, NEW i \in Nat, NEW j \in Nat
  PROVE  At(x, y) + At(i, j) = At(x + i, y + j)
<1>1. Width \in Nat
  BY DrawingAssumption
<1>2. Width * (y + j) = Width * y + Width * j /\ Width * y \in Nat /\ Width * j \in Nat
  BY <1>1
<1> DEFINE p == Width * y
           q == Width * j
           r == Width * (y + j)
<1>3. r = p + q /\ p \in Nat /\ q \in Nat
  BY <1>2
<1>4. At(x, y) = x + p /\ At(i, j) = i + q /\ At(x + i, y + j) = (x + i) + r
  BY DEF At
<1> HIDE DEF p, q, r
<1>5. QED
  BY <1>3, <1>4

(* A number is its quotient and its rest in one way.                       *)
LEMMA QuotientAndRest ==
  ASSUME NEW d \in Nat \ {0}, NEW q \in Nat, NEW r \in 0 .. d - 1
  PROVE  (d * q + r) \div d = q /\ (d * q + r) % d = r
<1> DEFINE n == d * q + r
           k == n \div d
           m == n % d
<1>1. d * q \in Nat /\ n \in Nat /\ r \in Nat /\ r < d
  OBVIOUS
<1>2. k \in Nat /\ m \in Nat /\ m < d /\ n = d * k + m
  <2> HIDE DEF n
  <2>1. QED
    BY <1>1
<1> DEFINE a == d * q
           b == d * k
<1>3. a \in Nat /\ b \in Nat /\ a + r = b + m
  BY <1>1, <1>2
<1>4. ~(k < q)
  <2>1. SUFFICES ASSUME k + 1 <= q PROVE FALSE
    BY <1>2
  <2>2. d * (k + 1) <= d * q
    BY <1>2, <2>1
  <2>3. d * (k + 1) = b + d
    BY <1>2
  <2>4. b + d <= a
    BY <2>2, <2>3
  <2> HIDE DEF a, b, k, m
  <2>5. QED
    BY <1>1, <1>2, <1>3, <2>4
<1>5. ~(q < k)
  <2>1. SUFFICES ASSUME q + 1 <= k PROVE FALSE
    BY <1>2
  <2>2. d * (q + 1) <= d * k
    BY <1>2, <2>1
  <2>3. d * (q + 1) = a + d
    OBVIOUS
  <2>4. a + d <= b
    BY <2>2, <2>3
  <2> HIDE DEF a, b, k, m
  <2>5. QED
    BY <1>1, <1>2, <1>3, <2>4
<1>6. k = q
  <2> HIDE DEF k
  <2>1. QED
    BY <1>2, <1>4, <1>5
<1>7. a = b
  BY <1>6
<1>8. m = r
  <2> HIDE DEF a, b, m
  <2>1. QED
    BY <1>1, <1>2, <1>3, <1>7
<1>9. QED
  BY <1>6, <1>8

(* The addresses of the character at a column and a line.                  *)
Box(x, y) == {At(x + i, y + j) : i \in 0 .. FontWidth - 1, j \in 0 .. FontHeight - 1}

(* They are those for which lcd_put_char finds a place within the glyph.   *)
LEMMA InTheBox ==
  ASSUME NEW x \in Nat, NEW y \in Nat, NEW a \in Nat
  PROVE  a \in Box(x, y) <=>
           /\ ~(a < At(x, y))
           /\ ~((a - At(x, y)) % Width >= FontWidth)
           /\ ~((a - At(x, y)) \div Width >= FontHeight)
<1> DEFINE s == At(x, y)
           d == a - s
<1>1. /\ Width \in Nat \ {0} /\ FontWidth \in Nat /\ FontHeight \in Nat /\ FontWidth <= Width
  BY DrawingAssumption
<1>2. s \in Nat
  BY <1>1 DEF At
<1>3. ASSUME a \in Box(x, y)
      PROVE  ~(a < s) /\ ~(d % Width >= FontWidth) /\ ~(d \div Width >= FontHeight)
  <2>1. PICK i \in 0 .. FontWidth - 1, j \in 0 .. FontHeight - 1 : a = At(x + i, y + j)
    BY <1>3 DEF Box
  <2>2. i \in Nat /\ j \in Nat /\ i \in 0 .. Width - 1
    BY <1>1
  <2>3. a = s + At(i, j)
    BY <2>1, <2>2, Offset
  <2>4. At(i, j) = Width * j + i /\ Width * j \in Nat
    BY <1>1, <2>2 DEF At
  <2> DEFINE p == Width * j
  <2>5. d = p + i /\ ~(a < s)
    <3> HIDE DEF s, p
    <3>1. QED
      BY <1>2, <2>2, <2>3, <2>4 DEF p
  <2>6. (p + i) \div Width = j /\ (p + i) % Width = i
    BY <1>1, <2>2, QuotientAndRest
  <2> HIDE DEF s, d, p
  <2>7. QED
    BY <1>1, <2>1, <2>5, <2>6
<1>4. ASSUME ~(a < s), ~(d % Width >= FontWidth), ~(d \div Width >= FontHeight)
      PROVE  a \in Box(x, y)
  <2> DEFINE i == d % Width
             j == d \div Width
  <2>1. d \in Nat
    <3> HIDE DEF s
    <3>1. QED
      BY <1>2, <1>4
  <2>2. i \in Nat /\ j \in Nat /\ d = Width * j + i
    <3> HIDE DEF d
    <3>1. QED
      BY <1>1, <2>1
  <2>3. i \in 0 .. FontWidth - 1 /\ j \in 0 .. FontHeight - 1
    <3> HIDE DEF d
    <3>1. QED
      BY <1>1, <1>4, <2>2
  <2> HIDE DEF i, j
  <2>4. At(i, j) = d
    BY <1>1, <2>2 DEF At
  <2>5. s + At(i, j) = At(x + i, y + j)
    BY <2>2, Offset
  <2>6. a = At(x + i, y + j)
    <3> HIDE DEF s
    <3>1. QED
      BY <1>2, <2>1, <2>4, <2>5
  <2>7. QED
    BY <2>3, <2>6 DEF Box
<1>5. QED
  BY <1>3, <1>4

(* A character on a line of the screen, or on the first one below it, is   *)
(* within the memory, and leaves the frame buffer if it is the latter.     *)
LEMMA BoxInMemory ==
  ASSUME NEW x \in Nat, NEW y \in Nat, x + FontWidth <= Width, y <= Height
  PROVE  /\ Box(x, y) \subseteq Address
         /\ (\E a \in Box(x, y) : a >= FrameSize) <=> ~(y + FontHeight <= Height)
<1>1. /\ Width \in Nat /\ Height \in Nat /\ FontWidth \in Nat \ {0} /\ FontHeight \in Nat \ {0}
  BY DrawingAssumption
<1> DEFINE f == Width * Height
           g == Width * (FontHeight + Height)
<1>2. f \in Nat /\ g \in Nat /\ FrameSize = f /\ Address = 0 .. f + g - 1
  BY <1>1 DEF FrameSize, Address
<1>3. ASSUME NEW i \in 0 .. FontWidth - 1, NEW j \in 0 .. FontHeight - 1
      PROVE  /\ At(x + i, y + j) \in Address
             /\ y + FontHeight <= Height => ~(At(x + i, y + j) >= FrameSize)
  <2> DEFINE p == Width * (y + j)
  <2>1. p \in Nat /\ At(x + i, y + j) = (x + i) + p
    BY <1>1 DEF At
  <2>2. x + i \in Nat /\ x + i <= Width - 1
    BY <1>1
  <2>3. p <= g - Width
    <3>1. y + j <= FontHeight + Height - 1
      BY <1>1
    <3>2. Width * (y + j) <= Width * (FontHeight + Height - 1)
      BY <1>1, <3>1
    <3>3. Width * (FontHeight + Height - 1) = g - Width
      BY <1>1
    <3>4. QED
      BY <3>2, <3>3
  <2>4. ASSUME y + FontHeight <= Height PROVE p <= f - Width
    <3>1. y + j <= Height - 1
      BY <1>1, <2>4
    <3>2. Width * (y + j) <= Width * (Height - 1)
      BY <1>1, <3>1
    <3>3. Width * (Height - 1) = f - Width
      BY <1>1
    <3>4. QED
      BY <3>2, <3>3
  <2> HIDE DEF p, f, g
  <2>5. QED
    BY <1>1, <1>2, <2>1, <2>2, <2>3, <2>4
<1>4. ASSUME ~(y + FontHeight <= Height)
      PROVE  \E a \in Box(x, y) : a >= FrameSize
  <2> DEFINE j == FontHeight - 1
             p == Width * (y + j)
  <2>1. j \in 0 .. FontHeight - 1 /\ 0 \in 0 .. FontWidth - 1 /\ y + j >= Height
    BY <1>1, <1>4
  <2>2. Width * (y + j) >= Width * Height /\ p \in Nat
    BY <1>1, <2>1
  <2>3. At(x + 0, y + j) = x + p
    BY DEF At
  <2> HIDE DEF p, f, g
  <2>4. At(x + 0, y + j) >= FrameSize
    BY <1>2, <2>2, <2>3 DEF p, f
  <2> HIDE DEF j
  <2>5. At(x + 0, y + j) \in Box(x, y)
    BY <2>1 DEF Box
  <2>6. QED
    BY <2>4, <2>5
<1>5. QED
  BY <1>3, <1>4 DEF Box

(* lcd_put_char draws the box of its character, and nothing else.          *)
LEMMA CharacterIsDrawn ==
  ASSUME NEW x \in Nat, NEW y \in Nat, x + FontWidth <= Width, y <= Height, NEW ch, NEW frame
  PROVE  {a \in Address : PutChar(frame, x, y, ch)[a] # "blank"} =
           {a \in Address : frame[a] # "blank"} \cup Box(x, y)
<1> DEFINE s == At(x, y)
           Out(a) == a < s \/ (a - s) % Width >= FontWidth \/ (a - s) \div Width >= FontHeight
<1>1. \A a \in Address : a \in Box(x, y) <=> ~Out(a)
  <2> TAKE a \in Address
  <2>1. a \in Nat
    BY DEF Address
  <2>2. QED
    BY <2>1, InTheBox
<1> DEFINE c == PutChar(frame, x, y, ch)
<1>2. \A a \in Address : IF Out(a) THEN c[a] = frame[a] ELSE c[a] \in {"color", "bgcolor"}
  BY DEF PutChar
<1>3. Box(x, y) \subseteq Address
  BY BoxInMemory
<1> HIDE DEF Out, c
<1>4. QED
  BY <1>1, <1>2, <1>3 DEF c

(* The layout of a text: how many characters fit in a line, how many lines *)
(* on the screen, and where each character goes.                           *)
StartsOnScreen == drawing.x + FontWidth <= Width /\ drawing.y + FontHeight <= Height
PerLine == (Width - drawing.x) \div FontWidth
OnLines == (Height - drawing.y) \div FontHeight
BoxOf(k) == Box(drawing.x + FontWidth * (k % PerLine), drawing.y + FontHeight * (k \div PerLine))

(* How far the loop of lcd_put_string has got: the character it has drawn  *)
(* last is in column c of line l, and what is drawn is what comes before   *)
(* it.                                                                     *)
TextSoFar ==
  drawing.op = "string" =>
    /\ drawing.x \in 0 .. Width /\ drawing.y \in 0 .. Height /\ drawing.string \in Strings
    /\ DOMAIN drawing = {"op", "x", "y", "string", "local_x", "local_y", "i", "returned"}
    /\ drawing.i \in 0 .. Len(drawing.string)
    /\ StartsOnScreen =>
         /\ \/ drawing.i = 0 /\ drawing.local_x = drawing.x /\ drawing.local_y = drawing.y
            \/ \E l \in 0 .. OnLines, c \in 0 .. PerLine - 1 :
                 /\ drawing.i = PerLine * l + c + 1
                 /\ drawing.local_x = drawing.x + FontWidth * (c + 1)
                 /\ drawing.local_y = drawing.y + FontHeight * l
                 /\ l = OnLines => c = 0
         /\ Drawn = UNION {BoxOf(k) : k \in 0 .. drawing.i - 1}
         /\ drawing.returned => drawing.i = Len(drawing.string) \/ Stops(drawing.local_y)

(* What fits: a character after c + 1 others of its line, and a line after *)
(* l others.                                                               *)
LEMMA Fitting ==
  ASSUME NEW d \in Nat \ {0}, NEW n \in Nat, NEW at \in Nat, at + d <= n, NEW c \in Nat
  PROVE  /\ (n - at) \div d \in Nat \ {0}
         /\ at + d * (c + 1) + d > n <=> c + 1 >= (n - at) \div d
         /\ at + d * c + d > n <=> c >= (n - at) \div d
         /\ c <= (n - at) \div d => at + d * c <= n
<1> DEFINE m == n - at
           q == m \div d
<1>1. m \in Nat /\ m >= d /\ d > 0
  OBVIOUS
<1>2. q \in Nat /\ d * q <= m /\ m < d * q + d
  <2> HIDE DEF m
  <2>1. m = d * (m \div d) + (m % d) /\ m \div d \in Nat /\ m % d \in Nat /\ m % d < d
    BY <1>1
  <2>2. QED
    BY <2>1
<1>3. ASSUME NEW k \in Nat
      PROVE  d * k <= m <=> k <= q
  <2>1. ASSUME k <= q PROVE d * k <= d * q
    BY <1>2, <2>1
  <2>2. ASSUME q + 1 <= k PROVE d * q + d <= d * k
    <3>1. d * (q + 1) <= d * k
      BY <1>2, <2>2
    <3>2. d * (q + 1) = d * q + d
      BY <1>2
    <3>3. QED
      BY <3>1, <3>2
  <2> DEFINE a == d * q
             b == d * k
  <2>3. a \in Nat /\ b \in Nat
    BY <1>2
  <2> HIDE DEF m, q, a, b
  <2>4. a <= m /\ m < a + d /\ (k <= q => b <= a) /\ (q + 1 <= k => a + d <= b)
    BY <1>2, <2>1, <2>2 DEF a, b
  <2>5. b <= m <=> k <= q
    BY <1>1, <1>2, <2>3, <2>4
  <2>6. QED
    BY <2>5 DEF b
<1>4. q # 0
  <2>1. d * 1 <= m <=> 1 <= q
    BY <1>3
  <2> HIDE DEF m, q
  <2>2. QED
    BY <1>1, <1>2, <2>1
<1>5. d * (c + 1) = d * c + d /\ d * (c + 2) = d * (c + 1) + d /\ d * c \in Nat /\ d * (c + 1) \in Nat
      /\ d * (c + 2) \in Nat
  OBVIOUS
<1>6. /\ d * c <= m <=> c <= q
      /\ d * (c + 1) <= m <=> c + 1 <= q
      /\ d * (c + 2) <= m <=> c + 2 <= q
  BY <1>3
<1> DEFINE a == d * c
           b == d * (c + 1)
           e == d * (c + 2)
<1>7. a \in Nat /\ b \in Nat /\ e \in Nat /\ b = a + d /\ e = b + d
  BY <1>5
<1>8. (a <= m <=> c <= q) /\ (b <= m <=> c + 1 <= q) /\ (e <= m <=> c + 2 <= q)
  BY <1>6
<1> HIDE DEF a, b, e, q
<1>9. /\ at + b + d > n <=> c + 1 >= q
      /\ at + a + d > n <=> c >= q
      /\ c <= q => at + a <= n
  BY <1>2, <1>7, <1>8
<1>10. QED
  BY <1>2, <1>4, <1>9 DEF a, b, q

(* The place of the next character: behind the last one, or at the start   *)
(* of the next line.                                                       *)
LEMMA NextPlace ==
  ASSUME TextSoFar, StartsOnScreen, drawing.op = "string", ~Stops(drawing.local_y)
  PROVE  LET wraps == drawing.local_x + FontWidth > Width
         IN \E l \in 0 .. OnLines, c \in 0 .. PerLine - 1 :
              /\ drawing.i = PerLine * l + c
              /\ (IF wraps THEN drawing.x ELSE drawing.local_x) = drawing.x + FontWidth * c
              /\ (IF wraps THEN drawing.local_y + FontHeight ELSE drawing.local_y) =
                   drawing.y + FontHeight * l
              /\ l = OnLines => c = 0
<1> DEFINE x == drawing.x
           y == drawing.y
           i == drawing.i
           u == drawing.local_x
           v == drawing.local_y
           wraps == u + FontWidth > Width
           At2(l, c) == /\ i = PerLine * l + c
                        /\ (IF wraps THEN x ELSE u) = x + FontWidth * c
                        /\ (IF wraps THEN v + FontHeight ELSE v) = y + FontHeight * l
                        /\ l = OnLines => c = 0
<1>1. /\ Width \in Nat /\ Height \in Nat /\ FontWidth \in Nat \ {0} /\ FontHeight \in Nat \ {0}
      /\ x \in Nat /\ y \in Nat
  BY DrawingAssumption DEF TextSoFar
<1>2. x + FontWidth <= Width /\ y + FontHeight <= Height
  BY DEF StartsOnScreen
<1>3. PerLine \in Nat \ {0} /\ OnLines \in Nat \ {0}
  <2>1. PerLine \in Nat \ {0}
    BY <1>1, <1>2, Fitting, 0 \in Nat DEF PerLine
  <2>2. OnLines \in Nat \ {0}
    BY <1>1, <1>2, Fitting, 0 \in Nat DEF OnLines
  <2>3. QED
    BY <2>1, <2>2
<1>4. ~(v + FontHeight > Height)
  BY DEF Stops
<1>5. \/ i = 0 /\ u = x /\ v = y
      \/ \E l \in 0 .. OnLines, c \in 0 .. PerLine - 1 :
           /\ i = PerLine * l + c + 1
           /\ u = x + FontWidth * (c + 1)
           /\ v = y + FontHeight * l
  BY DEF TextSoFar
<1>6. CASE i = 0 /\ u = x /\ v = y
  <2>1. ~wraps
    BY <1>1, <1>2, <1>6
  <2>2. PerLine * 0 + 0 = 0 /\ x + FontWidth * 0 = x /\ y + FontHeight * 0 = y
    BY <1>1, <1>3
  <2>3. At2(0, 0)
    BY <1>6, <2>1, <2>2
  <2>4. 0 \in 0 .. OnLines /\ 0 \in 0 .. PerLine - 1
    BY <1>3
  <2> HIDE DEF At2
  <2>5. \E l \in 0 .. OnLines, c \in 0 .. PerLine - 1 : At2(l, c)
    BY <2>3, <2>4
  <2>6. QED
    BY <2>5 DEF At2
<1>7. ASSUME NEW l \in 0 .. OnLines, NEW c \in 0 .. PerLine - 1,
             i = PerLine * l + c + 1, u = x + FontWidth * (c + 1), v = y + FontHeight * l
      PROVE  \E m \in 0 .. OnLines, e \in 0 .. PerLine - 1 : At2(m, e)
  <2>1. l \in Nat /\ c \in Nat /\ l < OnLines
    <3>1. l \in Nat /\ c \in Nat
      BY <1>3
    <3>2. y + FontHeight * l + FontHeight > Height <=> l >= (Height - y) \div FontHeight
      BY <1>1, <1>2, <3>1, Fitting
    <3>3. ~(l >= OnLines)
      BY <1>4, <1>7, <3>2 DEF OnLines
    <3>4. QED
      BY <1>3, <3>1, <3>3
  <2>2. wraps <=> c + 1 >= PerLine
    <3>1. x + FontWidth * (c + 1) + FontWidth > Width <=> c + 1 >= (Width - x) \div FontWidth
      BY <1>1, <1>2, <2>1, Fitting
    <3>2. QED
      BY <1>7, <3>1 DEF PerLine
  <2>3. CASE wraps
    <3>1. c + 1 = PerLine
      BY <1>3, <2>1, <2>2, <2>3
    <3>2. PerLine * (l + 1) = PerLine * l + PerLine /\ PerLine * l \in Nat
      BY <1>3, <2>1
    <3>3. i = PerLine * (l + 1) + 0
      <4> DEFINE a == PerLine * l
                 b == PerLine * (l + 1)
      <4>1. b = a + PerLine /\ a \in Nat /\ i = a + c + 1
        BY <1>7, <3>2
      <4> HIDE DEF a, b, i
      <4>2. i = b + 0
        BY <1>3, <2>1, <3>1, <4>1
      <4>3. QED
        BY <4>2 DEF b
    <3>4. v + FontHeight = y + FontHeight * (l + 1)
      <4>1. FontHeight * (l + 1) = FontHeight * l + FontHeight /\ FontHeight * l \in Nat
        BY <1>1, <2>1
      <4> DEFINE a == FontHeight * l
                 b == FontHeight * (l + 1)
      <4>2. b = a + FontHeight /\ a \in Nat /\ v = y + a
        BY <1>7, <4>1
      <4> HIDE DEF a, b, v
      <4>3. v + FontHeight = y + b
        BY <1>1, <4>2
      <4>4. QED
        BY <4>3 DEF b
    <3>5. x = x + FontWidth * 0
      BY <1>1
    <3>6. At2(l + 1, 0)
      BY <2>3, <3>3, <3>4, <3>5
    <3>7. l + 1 \in 0 .. OnLines /\ 0 \in 0 .. PerLine - 1
      BY <1>3, <2>1
    <3> HIDE DEF At2
    <3>8. QED
      BY <3>6, <3>7
  <2>4. CASE ~wraps
    <3>1. c + 1 \in 0 .. PerLine - 1 /\ l # OnLines
      BY <1>3, <2>1, <2>2, <2>4
    <3>2. i = PerLine * l + (c + 1)
      <4> DEFINE a == PerLine * l
      <4>1. i = a + c + 1 /\ a \in Nat
        BY <1>3, <1>7, <2>1
      <4> HIDE DEF a, i
      <4>2. i = a + (c + 1)
        BY <2>1, <4>1
      <4>3. QED
        BY <4>2 DEF a
    <3>3. At2(l, c + 1)
      BY <1>7, <2>4, <3>1, <3>2
    <3> HIDE DEF At2
    <3>4. QED
      BY <3>1, <3>3
  <2>5. QED
    BY <2>3, <2>4
<1>8. \E l \in 0 .. OnLines, c \in 0 .. PerLine - 1 : At2(l, c)
  <2> HIDE DEF At2
  <2>1. ASSUME i = 0 /\ u = x /\ v = y PROVE \E l \in 0 .. OnLines, c \in 0 .. PerLine - 1 : At2(l, c)
    BY <1>6, <2>1 DEF At2
  <2>2. QED
    BY <1>5, <1>7, <2>1
<1>9. QED
  BY <1>8

LEMMA NextCharacterSoFar == TextSoFar /\ NextCharacter => TextSoFar'
<1> SUFFICES ASSUME TextSoFar, NextCharacter PROVE TextSoFar'
  OBVIOUS
<1> DEFINE x == drawing.x
           y == drawing.y
           i == drawing.i
           wraps == drawing.local_x + FontWidth > Width
           x1 == IF wraps THEN x ELSE drawing.local_x
           y1 == IF wraps THEN drawing.local_y + FontHeight ELSE drawing.local_y
           ch == drawing.string[i + 1]
<1>1. /\ drawing.op = "string" /\ i < Len(drawing.string) /\ ~Stops(drawing.local_y)
      /\ pixels' = PutChar(pixels, x1, y1, ch)
      /\ drawing' = [drawing EXCEPT !.local_x = x1 + FontWidth, !.local_y = y1, !.i = @ + 1]
      /\ ~drawing.returned
  BY DEF NextCharacter
<1>2. /\ x \in 0 .. Width /\ y \in 0 .. Height /\ drawing.string \in Strings
      /\ DOMAIN drawing = {"op", "x", "y", "string", "local_x", "local_y", "i", "returned"}
      /\ i \in 0 .. Len(drawing.string)
  BY <1>1 DEF TextSoFar
<1>3. /\ drawing'.op = "string" /\ drawing'.x = x /\ drawing'.y = y
      /\ drawing'.string = drawing.string /\ drawing'.returned = drawing.returned
      /\ drawing'.local_x = x1 + FontWidth /\ drawing'.local_y = y1 /\ drawing'.i = i + 1
      /\ DOMAIN drawing' = DOMAIN drawing
  <2> HIDE DEF x1, y1
  <2>1. QED
    BY <1>1, <1>2
<1>4. Len(drawing.string) \in Nat /\ i \in Nat /\ i + 1 \in 0 .. Len(drawing.string)
  <2>1. drawing.string \in Seq(DOMAIN Glyph)
    BY <1>2, DrawingAssumption
  <2>2. Len(drawing.string) \in Nat
    BY <2>1, LenProperties
  <2>3. QED
    BY <1>1, <1>2, <2>2
<1>5. /\ StartsOnScreen' = StartsOnScreen /\ PerLine' = PerLine /\ OnLines' = OnLines
      /\ \A k : BoxOf(k)' = BoxOf(k)
  BY <1>3 DEF StartsOnScreen, PerLine, OnLines, BoxOf
<1>6. SUFFICES ASSUME StartsOnScreen
               PROVE  /\ \E l \in 0 .. OnLines, c \in 0 .. PerLine - 1 :
                           /\ i + 1 = PerLine * l + c + 1
                           /\ x1 + FontWidth = x + FontWidth * (c + 1)
                           /\ y1 = y + FontHeight * l
                           /\ l = OnLines => c = 0
                      /\ Drawn' = UNION {BoxOf(k) : k \in 0 .. i}
  <2>1. (i + 1) - 1 = i
    BY <1>4
  <2> HIDE DEF x, y, i, x1, y1
  <2>2. QED
    BY <1>1, <1>2, <1>3, <1>4, <1>5, <1>6, <2>1 DEF TextSoFar, x, y
<1>7. /\ Width \in Nat /\ Height \in Nat /\ FontWidth \in Nat \ {0} /\ FontHeight \in Nat \ {0}
      /\ x \in Nat /\ y \in Nat /\ x + FontWidth <= Width /\ y + FontHeight <= Height
  BY <1>2, <1>6, DrawingAssumption DEF StartsOnScreen
<1>8. PerLine \in Nat \ {0} /\ OnLines \in Nat \ {0}
  <2>1. PerLine \in Nat \ {0}
    BY <1>7, Fitting, 0 \in Nat DEF PerLine
  <2>2. OnLines \in Nat \ {0}
    BY <1>7, Fitting, 0 \in Nat DEF OnLines
  <2>3. QED
    BY <2>1, <2>2
<1>9. PICK l \in 0 .. OnLines, c \in 0 .. PerLine - 1 :
        /\ i = PerLine * l + c /\ x1 = x + FontWidth * c /\ y1 = y + FontHeight * l
        /\ l = OnLines => c = 0
  BY <1>1, <1>6, NextPlace
<1>10. l \in Nat /\ c \in Nat /\ l <= OnLines /\ c < PerLine
  BY <1>8
<1>11. i + 1 = PerLine * l + c + 1 /\ x1 + FontWidth = x + FontWidth * (c + 1)
  <2>1. FontWidth * (c + 1) = FontWidth * c + FontWidth /\ FontWidth * c \in Nat
    BY <1>7, <1>10
  <2> DEFINE a == FontWidth * c
             b == FontWidth * (c + 1)
  <2>2. b = a + FontWidth /\ a \in Nat /\ x1 = x + a
    BY <1>9, <2>1
  <2> HIDE DEF a, b, x1
  <2>3. x1 + FontWidth = x + b
    BY <1>7, <2>2
  <2>4. QED
    BY <1>9, <2>3 DEF b
<1>12. x1 \in Nat /\ y1 \in Nat /\ x1 + FontWidth <= Width /\ y1 <= Height
  <2>1. x + FontWidth * c + FontWidth > Width <=> c >= PerLine
    BY <1>7, <1>10, Fitting DEF PerLine
  <2>2. y + FontHeight * l <= Height
    BY <1>7, <1>10, Fitting DEF OnLines
  <2>3. FontWidth * c \in Nat /\ FontHeight * l \in Nat
    BY <1>7, <1>10
  <2>4. x1 \in Nat /\ y1 \in Nat
    BY <1>7, <1>9, <2>3
  <2>5. ~(x1 + FontWidth > Width)
    BY <1>8, <1>9, <1>10, <2>1
  <2> HIDE DEF x1, y1
  <2>6. QED
    BY <1>7, <1>9, <2>2, <2>4, <2>5
<1>13. BoxOf(i) = Box(x1, y1)
  <2>1. (PerLine * l + c) \div PerLine = l /\ (PerLine * l + c) % PerLine = c
    BY <1>8, <1>10, QuotientAndRest
  <2>2. i \div PerLine = l /\ i % PerLine = c
    BY <1>9, <2>1
  <2> HIDE DEF i, x1, y1
  <2>3. QED
    BY <1>9, <2>2 DEF BoxOf
<1> HIDE DEF x1, y1, i, ch
<1>14. Drawn' = Drawn \cup BoxOf(i)
  <2>1. {a \in Address : PutChar(pixels, x1, y1, ch)[a] # "blank"} =
          {a \in Address : pixels[a] # "blank"} \cup Box(x1, y1)
    BY <1>12, CharacterIsDrawn
  <2>2. QED
    BY <1>1, <1>13, <2>1 DEF Drawn
<1>15. Drawn = UNION {BoxOf(k) : k \in 0 .. i - 1}
  BY <1>1, <1>6 DEF TextSoFar, i
<1>16. 0 .. i = (0 .. i - 1) \cup {i}
  BY <1>4
<1>17. Drawn' = UNION {BoxOf(k) : k \in 0 .. i}
  BY <1>14, <1>15, <1>16
<1>18. QED
  BY <1>9, <1>11, <1>17

(* The line a character is on.                                             *)
LEMMA LineOf ==
  ASSUME NEW d \in Nat \ {0}, NEW k \in Nat, NEW n \in Nat
  PROVE  /\ k \div d \in Nat /\ k % d \in 0 .. d - 1
         /\ k \div d >= n <=> k >= d * n
         /\ k <= d * n => k \div d <= n
<1> DEFINE q == k \div d
           r == k % d
           a == d * q
           b == d * n
<1>1. q \in Nat /\ r \in Nat /\ r < d /\ k = a + r /\ a \in Nat /\ b \in Nat
  OBVIOUS
<1>2. ASSUME n <= q PROVE b <= a
  BY <1>1, <1>2
<1>3. ASSUME q + 1 <= n PROVE a + d <= b
  <2>1. d * (q + 1) <= d * n
    BY <1>1, <1>3
  <2>2. d * (q + 1) = a + d
    BY <1>1
  <2>3. QED
    BY <2>1, <2>2
<1>4. ASSUME n + 1 <= q PROVE b + d <= a
  <2>1. d * (n + 1) <= d * q
    BY <1>1, <1>4
  <2>2. d * (n + 1) = b + d
    OBVIOUS
  <2>3. QED
    BY <2>1, <2>2
<1> HIDE DEF q, r, a, b
<1>5. q \in Nat /\ r \in 0 .. d - 1 /\ (q >= n <=> k >= b) /\ (k <= b => q <= n)
  BY <1>1, <1>2, <1>3, <1>4
<1>6. QED
  BY <1>5 DEF q, r, b

(* When the loop has ended, all that fits has been drawn, and one          *)
(* character more if there is one.                                         *)
LEMMA LaidOut == TextSoFar => TextIsLaidOut
<1> SUFFICES ASSUME TextSoFar, drawing.op = "string", drawing.returned, StartsOnScreen
             PROVE  TextIsLaidOut
  BY DEF TextIsLaidOut, StartsOnScreen
<1> DEFINE x == drawing.x
           y == drawing.y
           i == drawing.i
           n == Len(drawing.string)
           per == PerLine
           lines == OnLines
           all == per * lines
           shown == IF n > all THEN all + 1 ELSE n
<1>1. /\ Width \in Nat /\ Height \in Nat /\ FontWidth \in Nat \ {0} /\ FontHeight \in Nat \ {0}
      /\ x \in Nat /\ y \in Nat
  BY DrawingAssumption DEF TextSoFar
<1>2. x + FontWidth <= Width /\ y + FontHeight <= Height
  BY DEF StartsOnScreen
<1>3. per \in Nat \ {0} /\ lines \in Nat \ {0}
  <2>1. PerLine \in Nat \ {0}
    BY <1>1, <1>2, Fitting, 0 \in Nat DEF PerLine
  <2>2. OnLines \in Nat \ {0}
    BY <1>1, <1>2, Fitting, 0 \in Nat DEF OnLines
  <2>3. QED
    BY <2>1, <2>2
<1>4. n \in Nat /\ i \in 0 .. n /\ i \in Nat
  <2>1. drawing.string \in Seq(DOMAIN Glyph)
    BY DrawingAssumption DEF TextSoFar
  <2>2. n \in Nat
    BY <2>1, LenProperties
  <2>3. QED
    BY <2>2 DEF TextSoFar
<1>5. i = n \/ drawing.local_y + FontHeight > Height
  BY DEF TextSoFar, Stops
<1>6. Drawn = UNION {BoxOf(k) : k \in 0 .. i - 1}
  BY DEF TextSoFar
<1>7. \/ i = 0 /\ drawing.local_y = y
      \/ \E l \in 0 .. lines, c \in 0 .. per - 1 :
           i = per * l + c + 1 /\ drawing.local_y = y + FontHeight * l /\ (l = lines => c = 0)
  BY DEF TextSoFar
<1>8. all \in Nat
  BY <1>3
<1>9. i = shown
  <2>1. CASE i = 0 /\ drawing.local_y = y
    BY <1>1, <1>2, <1>4, <1>5, <1>8, <2>1
  <2>2. ASSUME NEW l \in 0 .. lines, NEW c \in 0 .. per - 1,
               i = per * l + c + 1, drawing.local_y = y + FontHeight * l, l = lines => c = 0
        PROVE  i = shown
    <3>1. l \in Nat /\ c \in Nat /\ l <= lines /\ c < per
      BY <1>3
    <3>2. y + FontHeight * l + FontHeight > Height <=> l >= lines
      BY <1>1, <1>2, <3>1, Fitting DEF OnLines
    <3>3. CASE l = lines
      <4>1. i = all + 0 + 1
        BY <2>2, <3>3
      <4> HIDE DEF i, n, all
      <4>2. QED
        BY <1>4, <1>8, <4>1
    <3>4. CASE l # lines
      <4>1. l + 1 <= lines /\ i = n
        BY <1>3, <1>5, <2>2, <3>1, <3>2, <3>4
      <4>2. per * (l + 1) <= per * lines
        BY <1>3, <3>1, <4>1
      <4>3. per * (l + 1) = per * l + per /\ per * l \in Nat
        BY <1>3, <3>1
      <4> DEFINE a == per * l
      <4>4. a + per <= all /\ i = a + c + 1 /\ a \in Nat
        BY <2>2, <4>2, <4>3
      <4> HIDE DEF a, i, n, all, per
      <4>5. QED
        BY <1>3, <1>4, <1>8, <3>1, <4>1, <4>4
    <3>5. QED
      BY <3>3, <3>4
  <2> HIDE DEF i, n, all, per, lines
  <2>3. QED
    BY <1>7, <2>1, <2>2
<1>10. ASSUME NEW k \in 0 .. i - 1
       PROVE  (\E a \in BoxOf(k) : a >= FrameSize) <=> k >= all
  <2>1. k \in Nat /\ k <= all
    <3> HIDE DEF i, n, all
    <3>1. QED
      BY <1>4, <1>8, <1>9
  <2> DEFINE q == k \div per
             r == k % per
  <2>2. q \in Nat /\ r \in Nat /\ r < per /\ (q >= lines <=> k >= all) /\ q <= lines
    <3>1. /\ k \div PerLine \in Nat /\ k % PerLine \in 0 .. PerLine - 1
          /\ k \div PerLine >= OnLines <=> k >= PerLine * OnLines
          /\ k <= PerLine * OnLines => k \div PerLine <= OnLines
      BY <1>3, <2>1, LineOf
    <3>2. QED
      BY <1>3, <2>1, <3>1
  <2> HIDE DEF q, r, all
  <2>3. /\ x + FontWidth * r + FontWidth > Width <=> r + 1 > per
        /\ y + FontHeight * q + FontHeight > Height <=> q >= lines
        /\ y + FontHeight * q <= Height
    <3>1. x + FontWidth * r + FontWidth > Width <=> r >= per
      BY <1>1, <1>2, <2>2, Fitting DEF PerLine
    <3>2. /\ y + FontHeight * q + FontHeight > Height <=> q >= lines
          /\ y + FontHeight * q <= Height
      BY <1>1, <1>2, <2>2, Fitting DEF OnLines
    <3>3. QED
      BY <1>3, <2>2, <3>1, <3>2
  <2> DEFINE u == x + FontWidth * r
             v == y + FontHeight * q
  <2>4. u \in Nat /\ v \in Nat
    BY <1>1, <2>2
  <2>5. BoxOf(k) = Box(u, v)
    BY DEF BoxOf, q, r
  <2>6. u + FontWidth <= Width /\ v <= Height /\ (v + FontHeight <= Height <=> ~(q >= lines))
    <3>1. /\ ~(u + FontWidth > Width) /\ v <= Height
          /\ v + FontHeight > Height <=> q >= lines
      BY <1>3, <2>2, <2>3
    <3> HIDE DEF u, v
    <3>2. QED
      BY <1>1, <2>4, <3>1
  <2> HIDE DEF u, v
  <2>7. (\E a \in Box(u, v) : a >= FrameSize) <=> ~(v + FontHeight <= Height)
    BY <2>4, <2>6, BoxInMemory
  <2>8. QED
    BY <2>2, <2>5, <2>6, <2>7, Zenon
<1>11. (\E a \in Drawn : a >= FrameSize) <=> n > all
  <2>1. (\E a \in Drawn : a >= FrameSize) <=> \E k \in 0 .. i - 1 : \E a \in BoxOf(k) : a >= FrameSize
    BY <1>6
  <2>2. (\E a \in Drawn : a >= FrameSize) <=> \E k \in 0 .. i - 1 : k >= all
    BY <1>10, <2>1
  <2> HIDE DEF i, n, all
  <2>3. (\E k \in 0 .. i - 1 : k >= all) <=> n > all
    <3>1. ASSUME n > all PROVE all \in 0 .. i - 1 /\ all >= all
      BY <1>4, <1>8, <1>9, <3>1
    <3>2. ASSUME NEW k \in 0 .. i - 1, k >= all PROVE n > all
      BY <1>4, <1>8, <1>9, <3>2
    <3>3. QED
      BY <3>1, <3>2
  <2>4. QED
    BY <2>2, <2>3
<1> DEFINE Painted == {At(x + FontWidth * (k % per) + e, y + FontHeight * (k \div per) + j) :
                       k \in 0 .. shown - 1, e \in 0 .. FontWidth - 1, j \in 0 .. FontHeight - 1}
<1>12. UNION {BoxOf(k) : k \in 0 .. shown - 1} = Painted
  <2> HIDE DEF shown
  <2>1. QED
    BY DEF BoxOf, Box
<1>13. Drawn = Painted
  <2> HIDE DEF i, shown, Painted
  <2>1. QED
    BY <1>6, <1>9, <1>12
<1>14. QED
  BY <1>11, <1>13 DEF TextIsLaidOut, PerLine, OnLines

(* Until a call is made the screen is blank.                               *)
DrawnInv ==
  /\ drawing.op = "none" => pixels = [a \in Address |-> "blank"]
  /\ RectangleIsClipped
  /\ TextSoFar

LEMMA RectangleDrawnInv ==
  ASSUME DrawnInv, NEW x \in 0 .. Width, NEW y \in 0 .. Height,
         NEW w \in 0 .. Width + 2, NEW h \in 0 .. Height + 2, FillRectangle(x, y, w, h)
  PROVE  DrawnInv'
<1>1. Width \in Nat /\ Height \in Nat
  BY DrawingAssumption
<1> DEFINE cw == Clipped(x, w, Width)
           ch == Clipped(y, h, Height)
           Columns == (x .. x + w - 1) \cap (0 .. Width - 1)
           Lines == (y .. y + h - 1) \cap (0 .. Height - 1)
           filled == {At(x, y) + At(i, j) : i \in 0 .. cw - 1, j \in 0 .. ch - 1}
<1>2. /\ drawing' = [op |-> "rectangle", x |-> x, y |-> y, w |-> w, h |-> h]
      /\ pixels = [a \in Address |-> "blank"]
      /\ pixels' = IF x >= Width \/ y >= Height THEN pixels
                   ELSE [a \in Address |-> IF a \in filled THEN "color" ELSE pixels[a]]
  BY DEF FillRectangle, DrawnInv
<1>3. SUFFICES ASSUME x + w # Width + 1, y + h # Height + 1
               PROVE  Drawn' = {At(px, py) : px \in Columns, py \in Lines}
  BY <1>2 DEF DrawnInv, RectangleIsClipped, TextSoFar
<1>4. CASE x >= Width \/ y >= Height
  <2>1. Columns = {} \/ Lines = {}
    BY <1>1, <1>4
  <2>2. Drawn' = {}
    BY <1>2, <1>4 DEF Drawn
  <2> HIDE DEF Columns, Lines
  <2>3. QED
    BY <2>1, <2>2
<1>5. CASE ~(x >= Width \/ y >= Height)
  <2>0. x \in 0 .. Width - 1 /\ y \in 0 .. Height - 1 /\ w \in Nat /\ h \in Nat
        /\ x \in Nat /\ y \in Nat
    BY <1>1, <1>5
  <2>1. /\ cw \in Nat /\ ch \in Nat
        /\ \A i \in 0 .. cw - 1 : x + i \in Columns
        /\ \A p \in Columns : p - x \in 0 .. cw - 1 /\ x + (p - x) = p
        /\ \A j \in 0 .. ch - 1 : y + j \in Lines
        /\ \A p \in Lines : p - y \in 0 .. ch - 1 /\ y + (p - y) = p
    <3>1. /\ cw \in Nat
          /\ \A i \in 0 .. cw - 1 : x + i \in Columns
          /\ \A p \in Columns : p - x \in 0 .. cw - 1 /\ x + (p - x) = p
      BY <1>1, <1>3, <2>0, DrawingAssumption DEF Clipped
    <3>2. /\ ch \in Nat
          /\ \A j \in 0 .. ch - 1 : y + j \in Lines
          /\ \A p \in Lines : p - y \in 0 .. ch - 1 /\ y + (p - y) = p
      BY <1>1, <1>3, <2>0, DrawingAssumption DEF Clipped
    <3>3. QED
      BY <3>1, <3>2
  <2>2. /\ \A p \in Columns : p \in 0 .. Width - 1
        /\ \A p \in Lines : p \in 0 .. Height - 1
    OBVIOUS
  <2> DEFINE I == 0 .. cw - 1
             J == 0 .. ch - 1
  <2>3. \A i \in I, j \in J : At(x, y) + At(i, j) = At(x + i, y + j)
    <3>1. \A i \in I : i \in Nat
      BY <2>1
    <3>2. \A j \in J : j \in Nat
      BY <2>1
    <3> HIDE DEF I, J
    <3>3. QED
      BY <2>0, <3>1, <3>2, Offset
  <2> HIDE DEF cw, ch, Columns, Lines
  <2>4. /\ \A i \in I : x + i \in Columns
        /\ \A p \in Columns : p - x \in I /\ x + (p - x) = p
        /\ \A j \in J : y + j \in Lines
        /\ \A p \in Lines : p - y \in J /\ y + (p - y) = p
    BY <2>1
  <2>5. filled = {At(x, y) + At(i, j) : i \in I, j \in J}
    OBVIOUS
  <2> HIDE DEF filled, I, J
  <2>6. \A a \in filled : a \in {At(px, py) : px \in Columns, py \in Lines}
    BY <2>3, <2>4, <2>5
  <2>7. \A px \in Columns, py \in Lines : At(px, py) \in filled
    <3> TAKE px \in Columns, py \in Lines
    <3>1. px - x \in I /\ py - y \in J /\ x + (px - x) = px /\ y + (py - y) = py
      BY <2>4
    <3>2. At(x, y) + At(px - x, py - y) = At(px, py)
      BY <2>3, <3>1
    <3>3. QED
      BY <2>5, <3>1, <3>2
  <2>8. \A px \in Columns, py \in Lines : At(px, py) \in Address
    BY <2>2, OnScreen
  <2>9. \A a : a \in Drawn' <=> a \in Address /\ a \in filled
    <3>1. pixels' = [a \in Address |-> IF a \in filled THEN "color" ELSE "blank"]
      BY <1>2, <1>5
    <3>2. QED
      BY <3>1 DEF Drawn
  <2>10. QED
    BY <2>6, <2>7, <2>8, <2>9
<1>6. QED
  BY <1>4, <1>5

LEMMA PixelDrawnInv ==
  ASSUME DrawnInv, NEW x \in 0 .. Width, NEW y \in 0 .. Height, DrawPixel(x, y)
  PROVE  DrawnInv'
<1>1. Width \in Nat /\ Height \in Nat
  BY DrawingAssumption
<1>2. /\ drawing' = [op |-> "pixel", x |-> x, y |-> y, w |-> 1, h |-> 1]
      /\ pixels = [a \in Address |-> "blank"]
      /\ pixels' = IF x >= Width \/ y >= Height THEN pixels
                   ELSE [pixels EXCEPT ![At(x, y)] = "color"]
  BY DEF DrawPixel, DrawnInv
<1> DEFINE Columns == (x .. x + 1 - 1) \cap (0 .. Width - 1)
           Lines == (y .. y + 1 - 1) \cap (0 .. Height - 1)
<1>3. SUFFICES ASSUME x + 1 # Width + 1, y + 1 # Height + 1
               PROVE  Drawn' = {At(px, py) : px \in Columns, py \in Lines}
  BY <1>2 DEF DrawnInv, RectangleIsClipped, TextSoFar
<1>4. x \in 0 .. Width - 1 /\ y \in 0 .. Height - 1 /\ ~(x >= Width \/ y >= Height)
  BY <1>1, <1>3
<1>5. Columns = {x} /\ Lines = {y}
  BY <1>1, <1>4
<1>6. At(x, y) \in Address
  BY <1>4, OnScreen
<1>7. Drawn' = {At(x, y)}
  BY <1>2, <1>4, <1>6 DEF Drawn
<1> HIDE DEF Columns, Lines
<1>8. QED
  BY <1>5, <1>7

LEMMA StringDrawnInv ==
  ASSUME DrawnInv, NEW x \in 0 .. Width, NEW y \in 0 .. Height, NEW string \in Strings,
         PutString(x, y, string)
  PROVE  DrawnInv'
<1>1. /\ drawing' = [op |-> "string", x |-> x, y |-> y, string |-> string,
                     local_x |-> x, local_y |-> y, i |-> 0, returned |-> FALSE]
      /\ pixels' = [a \in Address |-> "blank"]
  BY DEF PutString, DrawnInv
<1>2. Len(string) \in Nat
  BY DrawingAssumption, LenProperties
<1>3. Drawn' = {} /\ \A k \in 0 .. 0 - 1 : FALSE
  BY <1>1 DEF Drawn
<1>4. TextSoFar'
  <2>1. UNION {BoxOf(k)' : k \in 0 .. 0 - 1} = {}
    BY <1>3
  <2>2. QED
    BY <1>1, <1>2, <1>3, <2>1 DEF TextSoFar
<1>5. QED
  BY <1>1, <1>4 DEF DrawnInv, RectangleIsClipped

LEMMA ReturnDrawnInv == DrawnInv /\ StringReturns => DrawnInv'
<1> SUFFICES ASSUME DrawnInv, StringReturns PROVE DrawnInv'
  OBVIOUS
<1>1. /\ drawing.op = "string" /\ pixels' = pixels
      /\ drawing.i = Len(drawing.string) \/ Stops(drawing.local_y)
      /\ drawing' = [drawing EXCEPT !.returned = TRUE] /\ TextSoFar
  BY DEF DrawnInv, StringReturns
<1>2. DOMAIN drawing = {"op", "x", "y", "string", "local_x", "local_y", "i", "returned"}
  BY <1>1 DEF TextSoFar
<1>3. /\ drawing'.op = "string" /\ drawing'.x = drawing.x /\ drawing'.y = drawing.y
      /\ drawing'.string = drawing.string /\ drawing'.local_x = drawing.local_x
      /\ drawing'.local_y = drawing.local_y /\ drawing'.i = drawing.i
      /\ DOMAIN drawing' = DOMAIN drawing
  BY <1>1, <1>2
<1>4. /\ StartsOnScreen' = StartsOnScreen /\ PerLine' = PerLine /\ OnLines' = OnLines
      /\ Drawn' = Drawn /\ \A k : BoxOf(k)' = BoxOf(k)
  BY <1>1, <1>3 DEF StartsOnScreen, PerLine, OnLines, BoxOf, Drawn
<1>5. TextSoFar'
  BY <1>1, <1>2, <1>3, <1>4 DEF TextSoFar, Stops
<1>6. QED
  BY <1>3, <1>5 DEF DrawnInv, RectangleIsClipped

(* Rectangles and pixels are drawn where they meet the screen and nowhere  *)
(* else, unless they end one place behind it; a text fills the lines it    *)
(* has room for, and one character more is drawn below them if there is    *)
(* one (lcd_fill_rectangle, lcd_draw_pixel, lcd_put_string).               *)
THEOREM EveryCallDrawsAsAsked == DrawingSpec => []DrawnAsAsked
<1>1. DrawingInit => DrawnInv
  BY DEF DrawingInit, DrawnInv, RectangleIsClipped, TextSoFar
<1>2. DrawnInv /\ [DrawingNext]_drawingVars => DrawnInv'
  <2> SUFFICES ASSUME DrawnInv, [DrawingNext]_drawingVars PROVE DrawnInv'
    OBVIOUS
  <2>1. CASE UNCHANGED drawingVars
    BY <2>1 DEF drawingVars, DrawnInv, RectangleIsClipped, Drawn, TextSoFar, StartsOnScreen,
               PerLine, OnLines, BoxOf, Stops
  <2>2. ASSUME NEW x \in 0 .. Width, NEW y \in 0 .. Height,
               \/ DrawPixel(x, y)
               \/ \E w \in 0 .. Width + 2, h \in 0 .. Height + 2 : FillRectangle(x, y, w, h)
               \/ \E string \in Strings : PutString(x, y, string)
        PROVE  DrawnInv'
    BY <2>2, PixelDrawnInv, RectangleDrawnInv, StringDrawnInv
  <2>3. CASE NextCharacter
    <3>1. TextSoFar' /\ drawing.op = "string"
      BY <2>3, NextCharacterSoFar DEF DrawnInv, NextCharacter
    <3>2. DOMAIN drawing = {"op", "x", "y", "string", "local_x", "local_y", "i", "returned"}
      BY <3>1 DEF DrawnInv, TextSoFar
    <3>3. drawing'.op = "string"
      BY <2>3, <3>1, <3>2 DEF NextCharacter
    <3>4. QED
      BY <3>1, <3>3 DEF DrawnInv, RectangleIsClipped
  <2>4. CASE StringReturns
    BY <2>4, ReturnDrawnInv
  <2>5. QED
    BY <2>1, <2>2, <2>3, <2>4, Zenon DEF DrawingNext
<1>3. DrawnInv => DrawnAsAsked
  BY LaidOut DEF DrawnInv, DrawnAsAsked
<1>4. QED
  BY <1>1, <1>2, <1>3, PTL DEF DrawingSpec

(***************************************************************************)
(* The operations on linked lists, each as a change of rings (RingLemmas). *)
(***************************************************************************)

LEMMA ReplaceIs ==
  ASSUME NEW m \in Memories, NEW x \in ListHead, NEW y \in ListHead,
         NEW p \in ListHead, NEW q \in ListHead, Link(m, p, x), Link(m, x, q),
         x # y, x # p, x # q, y # p, y # q
  PROVE  /\ Replace(m, x, y) \in Memories
         /\ Changed(m, Replace(m, x, y), {y, p}, {y, q})
         /\ Link(Replace(m, x, y), p, y) /\ Link(Replace(m, x, y), y, q)
<1> DEFINE a == SetNext(m, y, q)
           b == SetPrev(a, q, y)
           c == SetPrev(b, y, p)
           d == SetNext(c, p, y)
<1>0. /\ y \in Target /\ p \in Target /\ q \in Target
      /\ NextOf(m, x) = q /\ PrevOf(m, x) = p
  BY DEF Target, Link
<1>1. m.next[x] = q
  BY <1>0 DEF NextOf
<1>2. /\ a \in Memories /\ NextOf(a, y) = q
      /\ \A z \in ListHead \ {y} : NextOf(a, z) = NextOf(m, z)
      /\ \A z \in ListHead : PrevOf(a, z) = PrevOf(m, z)
  BY <1>0, NextIsSet
<1> HIDE DEF a
<1>3. a.next[y] = q
  BY <1>2 DEF NextOf
<1>4. /\ b \in Memories /\ PrevOf(b, q) = y
      /\ \A z \in ListHead \ {q} : PrevOf(b, z) = PrevOf(a, z)
      /\ \A z \in ListHead : NextOf(b, z) = NextOf(a, z)
  BY <1>0, <1>2, PrevIsSet, SMTT(30)
<1> HIDE DEF b
<1>5. b.prev[x] = p
  <2>1. PrevOf(b, x) = p
    BY <1>0, <1>2, <1>4
  <2>2. QED
    BY <2>1 DEF PrevOf
<1>6. /\ c \in Memories /\ PrevOf(c, y) = p
      /\ \A z \in ListHead \ {y} : PrevOf(c, z) = PrevOf(b, z)
      /\ \A z \in ListHead : NextOf(c, z) = NextOf(b, z)
  BY <1>0, <1>4, PrevIsSet, SMTT(30)
<1> HIDE DEF c
<1>7. c.prev[y] = p
  BY <1>6 DEF PrevOf
<1>8. /\ d \in Memories /\ NextOf(d, p) = y
      /\ \A z \in ListHead \ {p} : NextOf(d, z) = NextOf(c, z)
      /\ \A z \in ListHead : PrevOf(d, z) = PrevOf(c, z)
  BY <1>0, <1>6, NextIsSet, SMTT(30)
<1>9. Replace(m, x, y) = d
  BY <1>1, <1>3, <1>5, <1>7, Zenon DEF Replace, a, b, c
<1> HIDE DEF d
<1>10. Changed(m, d, {y, p}, {y, q})
  BY <1>2, <1>4, <1>6, <1>8 DEF Changed
<1>11. Link(d, p, y) /\ Link(d, y, q)
  BY <1>2, <1>4, <1>6, <1>8 DEF Link
<1>12. QED
  BY <1>8, <1>9, <1>10, <1>11

(* list_replace.                                                           *)
LEMMA EntryIsReplaced ==
  ASSUME NEW m, NEW L, RingsInv(m, L), NEW h \in Anchor,
         NEW x \in Entry, NEW s \in Seq(Entry), NEW t \in Seq(Entry),
         L[h] = With(s, x, t), NEW y \in Entry, InNone(L, y)
  PROVE  /\ RingsInv(Replace(m, x, y), [L EXCEPT ![h] = With(s, y, t)])
         /\ InNone([L EXCEPT ![h] = With(s, y, t)], x)
<1> DEFINE d == Rest(h, s, t)
           m2 == Replace(m, x, y)
           k == With(s, x, t)
           l == With(s, y, t)
           o == <<x>>
           u == <<y>>
<1>1. /\ m \in Memories /\ x \in ListHead /\ y \in ListHead /\ L \in [Anchor -> Seq(Entry)]
      /\ Ring(m, <<h>> \o k)
  BY EntriesAreHeads DEF RingsInv
<1>2. d \in Seq(ListHead) /\ d # << >> /\ Range(d) = {h} \cup Range(s \o t)
  BY RestIs
<1>3. /\ o \in Seq(ListHead) /\ o # << >> /\ FirstOf(o) = x /\ LastOf(o) = x /\ Range(o) = {x}
  BY <1>1, OneIs
<1>4. /\ u \in Seq(ListHead) /\ u # << >> /\ FirstOf(u) = y /\ LastOf(u) = y
      /\ Range(u) = {y} /\ IsInjective(u) /\ Segment(m, u)
  BY <1>1, OneIs
<1>5. /\ Range(k) = {x} \cup Range(s \o t)
      /\ l \in Seq(Entry) /\ Range(l) = {y} \cup Range(s \o t)
  BY ListWithEntry
<1>6. Ring(m, o \o d)
  BY <1>1, SeenFrom
<1>7. Ring(m2, u \o d) <=> Ring(m2, <<h>> \o l)
  BY <1>1, SeenFrom
<1>8. L[h] = k /\ y # h /\ \A g \in Anchor : y \notin Nodes(L, g)
  BY ListOpsAssumption DEF InNone, Nodes
<1> HIDE DEF d, o, u, k, l
<1>9. /\ Segment(m, d) /\ IsInjective(d) /\ Range(o) \cap Range(d) = {}
      /\ Link(m, LastOf(o), FirstOf(d)) /\ Link(m, LastOf(d), FirstOf(o))
  BY <1>2, <1>3, <1>6, RingOfTwo, Zenon
<1>10. /\ LastOf(d) \in ListHead /\ FirstOf(d) \in ListHead
       /\ LastOf(d) \in Range(d) /\ FirstOf(d) \in Range(d)
  BY <1>2, EndsOfSegment
<1>11. /\ x \notin Range(d) /\ Nodes(L, h) = {x} \cup Range(d) /\ y \notin Range(d) /\ x # y
  BY <1>2, <1>3, <1>5, <1>8, <1>9 DEF Nodes
<1>12. /\ m2 \in Memories /\ Changed(m, m2, {y, LastOf(d)}, {y, FirstOf(d)})
       /\ Link(m2, LastOf(d), y) /\ Link(m2, y, FirstOf(d))
  <2>1. Link(m, x, FirstOf(d)) /\ Link(m, LastOf(d), x)
    BY <1>3, <1>9
  <2>2. x # LastOf(d) /\ x # FirstOf(d) /\ y # LastOf(d) /\ y # FirstOf(d) /\ x # y
    BY <1>10, <1>11
  <2>3. QED
    BY <1>1, <1>10, <2>1, <2>2, ReplaceIs
<1> HIDE DEF m2
<1>13. Ring(m2, u \o d)
  <2>1. Range(u) \cap Range(d) = {}
    BY <1>4, <1>11
  <2>2. /\ Changed(m, m2, {LastOf(u), LastOf(d)}, {FirstOf(u), FirstOf(d)})
        /\ Link(m2, LastOf(d), FirstOf(u)) /\ Link(m2, LastOf(u), FirstOf(d))
    BY <1>4, <1>12
  <2>3. QED
    BY <1>2, <1>4, <1>9, <2>1, <2>2, Closed
<1>14. RingsInv(m2, [L EXCEPT ![h] = l])
  <2> DEFINE X == {y}
             N == {y, LastOf(d)}
             Q == {y, FirstOf(d)}
  <2>1. Range(l) \subseteq Nodes(L, h) \cup X
    BY <1>5, <1>8 DEF Nodes
  <2>2. Within(L, h, X, N, Q, l)
    BY <1>8, <1>10, <1>11, <2>1 DEF Within
  <2>3. Changed(m, m2, N, Q) /\ Ring(m2, <<h>> \o l)
    BY <1>7, <1>12, <1>13
  <2> HIDE DEF X, N, Q
  <2>4. QED
    BY <1>5, <1>12, <2>2, <2>3, OneRelinked
<1>15. InNone([L EXCEPT ![h] = l], x)
  <2>1. x \notin Range(l)
    BY <1>2, <1>5, <1>11
  <2>2. x \in Range(L[h])
    BY <1>5, <1>8
  <2>3. \A g \in Anchor \ {h} : x \notin Range(L[g])
    BY <2>2 DEF RingsInv
  <2>4. QED
    BY <1>1, <2>1, <2>3 DEF InNone
<1>16. QED
  BY <1>14, <1>15 DEF m2, l

PutAt(f, i, v) == [f EXCEPT ![i] = v]
PutInside(f, a, i, v) == [f EXCEPT ![a][i] = v]

LEMMA OneReplaced ==
  ASSUME NEW S, NEW s \in Seq(S), NEW t \in Seq(S), NEW x \in S, NEW y \in S
  PROVE  PutAt(With(s, x, t), Len(s) + 1, y) = With(s, y, t)
<1> DEFINE n == Len(s)
           k == Len(t)
           One(z) == <<z>> \o t
           All(z) == s \o One(z)
<1>1. n \in Nat /\ k \in Nat
  BY LenProperties
<1>2. ASSUME NEW z \in S
      PROVE  /\ All(z) \in Seq(S) /\ Len(All(z)) = (n + 1) + k
             /\ \A j \in 1 .. (n + 1) + k :
                  All(z)[j] = IF j <= n THEN s[j] ELSE IF j = n + 1 THEN z ELSE t[j - (n + 1)]
  <2> DEFINE o == <<z>>
             u == o \o t
  <2>1. o \in Seq(S) /\ Len(o) = 1 /\ o[1] = z
    OBVIOUS
  <2> HIDE DEF o
  <2>2. /\ u \in Seq(S) /\ Len(u) = 1 + k
        /\ \A j \in 1 .. 1 + k : u[j] = IF j <= 1 THEN o[j] ELSE t[j - 1]
    <3>1. /\ u \in Seq(S) /\ Len(u) = Len(o) + Len(t)
          /\ \A j \in 1 .. Len(o) + Len(t) :
               u[j] = IF j <= Len(o) THEN o[j] ELSE t[j - Len(o)]
      BY <2>1, ConcatProperties, Zenon
    <3>2. QED
      BY <2>1, <3>1
  <2> HIDE DEF u
  <2>3. /\ s \o u \in Seq(S) /\ Len(s \o u) = n + (1 + k)
        /\ \A j \in 1 .. n + (1 + k) : (s \o u)[j] = IF j <= n THEN s[j] ELSE u[j - n]
    <3>1. /\ s \o u \in Seq(S) /\ Len(s \o u) = Len(s) + Len(u)
          /\ \A j \in 1 .. Len(s) + Len(u) :
               (s \o u)[j] = IF j <= Len(s) THEN s[j] ELSE u[j - Len(s)]
      BY <2>2, ConcatProperties, Zenon
    <3>2. QED
      BY <2>2, <3>1
  <2>4. s \o u = All(z)
    BY DEF u, o
  <2> HIDE DEF All, n, k
  <2>5. ASSUME NEW j \in 1 .. (n + 1) + k
        PROVE  All(z)[j] = IF j <= n THEN s[j] ELSE IF j = n + 1 THEN z ELSE t[j - (n + 1)]
    <3>1. All(z)[j] = IF j <= n THEN s[j] ELSE u[j - n]
      BY <1>1, <2>3, <2>4
    <3>2. CASE j <= n
      BY <3>1, <3>2
    <3>3. CASE j = n + 1
      <4>1. j - n = 1 /\ ~(j <= n) /\ 1 \in 1 .. 1 + k
        BY <1>1, <3>3
      <4>2. QED
        BY <2>1, <2>2, <3>1, <3>3, <4>1
    <3>4. CASE j > n + 1
      <4>1. /\ j - n \in 1 .. 1 + k /\ ~(j - n <= 1) /\ ~(j <= n) /\ j # n + 1
            /\ (j - n) - 1 = j - (n + 1)
        BY <1>1, <3>4
      <4>2. u[j - n] = t[(j - n) - 1]
        BY <2>2, <4>1
      <4>3. QED
        BY <3>1, <4>1, <4>2
    <3>5. QED
      BY <1>1, <3>2, <3>3, <3>4
  <2>6. Len(All(z)) = (n + 1) + k
    BY <1>1, <2>3, <2>4
  <2>7. QED
    BY <2>3, <2>4, <2>5, <2>6
<1> DEFINE v == [All(x) EXCEPT ![n + 1] = y]
           N == (n + 1) + k
<1>3. /\ All(x) \in [1 .. N -> S] /\ All(y) \in [1 .. N -> S] /\ n + 1 \in 1 .. N
  <2>1. /\ All(x) \in Seq(S) /\ Len(All(x)) = N /\ All(y) \in Seq(S) /\ Len(All(y)) = N
    BY <1>2
  <2> HIDE DEF All, n, k, N
  <2>2. /\ All(x) \in [1 .. N -> S] /\ All(y) \in [1 .. N -> S]
    BY <2>1, LenProperties
  <2>3. n + 1 \in 1 .. N
    BY <1>1 DEF N
  <2>4. QED
    BY <2>2, <2>3
<1>4. \A j \in 1 .. N : j # n + 1 => All(x)[j] = All(y)[j]
  BY <1>2
<1>5. All(y)[n + 1] = y
  <2>1. ~(n + 1 <= n)
    BY <1>1
  <2>2. QED
    BY <1>2, <1>3, <2>1
<1> HIDE DEF All, n, N
<1>6. v \in [1 .. N -> S] /\ \A j \in 1 .. N : v[j] = All(y)[j]
  BY <1>3, <1>4, <1>5
<1>7. v = All(y)
  BY <1>3, <1>6
<1>8. QED
  BY <1>7 DEF All, n, PutAt, With

LEMMA Placed ==
  ASSUME RingsInv(memory, lists), NEW x \in Linked
  PROVE  /\ x \in Entry
         /\ \E h \in Anchor, s \in Seq(Entry), t \in Seq(Entry) :
              /\ lists[h] = With(s, x, t)
              /\ Without(x) = [lists EXCEPT ![h] = s \o t]
              /\ \A y \in Entry : PutInside(lists, ListOf(x), PlaceIn(x), y) =
                                  [lists EXCEPT ![h] = With(s, y, t)]
<1> DEFINE h == ListOf(x)
           l == lists[h]
           i == PlaceIn(x)
           s == SubSeq(l, 1, i - 1)
           t == SubSeq(l, i + 1, Len(l))
<1>1. h \in Anchor /\ x \in Range(l)
  BY DEF Linked, ListOf
<1>2. lists \in [Anchor -> Seq(Entry)] /\ l \in Seq(Entry)
  BY <1>1 DEF RingsInv
<1>3. i \in DOMAIN l /\ l[i] = x
  BY <1>1 DEF PlaceIn, Range
<1>4. Without(x) = [lists EXCEPT ![h] = s \o t]
  BY DEF Without, RemoveAt
<1> HIDE DEF h, i, l
<1>5. /\ s \in Seq(Entry) /\ t \in Seq(Entry) /\ x \in Entry /\ l = With(s, x, t)
  BY <1>2, <1>3, SplitAt, ZenonT(30) DEF With
<1>6. i = Len(s) + 1
  <2>1. Len(l) \in Nat /\ i \in 1 .. Len(l) /\ \A j \in 1 .. Len(l) : l[j] \in Entry
    BY <1>2, <1>3, LenProperties, ElementOfSeq
  <2>2. /\ 1 \in Int /\ i - 1 \in Int /\ \A j \in 1 .. i - 1 : l[j] \in Entry
    BY <2>1
  <2>3. Len(s) = IF 1 <= i - 1 THEN (i - 1) - 1 + 1 ELSE 0
    BY <2>2, SubSeqProperties
  <2>4. QED
    BY <2>1, <2>3
<1>7. PICK a \in Seq(Entry), b \in Seq(Entry) :
        l = With(a, x, b) /\ i = Len(a) + 1 /\ Without(x) = [lists EXCEPT ![h] = a \o b]
  BY <1>4, <1>5, <1>6
<1>8. ASSUME NEW y \in Entry
      PROVE  PutInside(lists, h, i, y) = [lists EXCEPT ![h] = With(a, y, b)]
  <2>1. x \in Entry
    BY <1>5
  <2>2. PutAt(With(a, x, b), Len(a) + 1, y) = With(a, y, b)
    BY <2>1, OneReplaced
  <2>3. PutAt(l, i, y) = With(a, y, b)
    BY <1>7, <2>2
  <2>4. PutInside(lists, h, i, y) = [lists EXCEPT ![h] = PutAt(l, i, y)]
    BY DEF l, PutAt, PutInside
  <2>5. QED
    BY <2>3, <2>4
<1>9. lists[h] = With(a, x, b)
  BY <1>7 DEF l
<1>10. PICK g \in Anchor : g = h
  BY <1>1
<1>11. /\ lists[g] = With(a, x, b)
       /\ Without(x) = [lists EXCEPT ![g] = a \o b]
       /\ \A y \in Entry : PutInside(lists, h, i, y) =
                           [lists EXCEPT ![g] = With(a, y, b)]
  BY <1>7, <1>8, <1>9, <1>10
<1>12. QED
  BY <1>5, <1>11, ZenonT(30) DEF h, i

LEMMA NotLinked == ASSUME NEW x PROVE x \notin Linked <=> InNone(lists, x)
BY DEF Linked, InNone

(* The steps.                                                              *)
LEMMA AddFirstKept ==
  ASSUME RingsInv(memory, lists), NEW x \in Entry, NEW h \in Anchor, ListAddFirst(x, h)
  PROVE  RingsInv(memory', lists')
<1>1. InNone(lists, x)
  BY NotLinked DEF ListAddFirst
<1>2. memory' = Add(memory, x, h) /\ lists' = [lists EXCEPT ![h] = <<x>> \o lists[h]]
  BY DEF ListAddFirst
<1>3. QED
  BY <1>1, <1>2, FirstIsAdded

LEMMA AddLastKept ==
  ASSUME RingsInv(memory, lists), NEW x \in Entry, NEW h \in Anchor, ListAddLast(x, h)
  PROVE  RingsInv(memory', lists')
<1>1. InNone(lists, x)
  BY NotLinked DEF ListAddLast
<1>2. memory' = AddTail(memory, x, h) /\ lists' = [lists EXCEPT ![h] = lists[h] \o <<x>>]
  BY DEF ListAddLast
<1>3. QED
  BY <1>1, <1>2, LastIsAdded

LEMMA UnlinkedIs ==
  ASSUME RingsInv(memory, lists), NEW x \in Linked
  PROVE  /\ RingsInv(Unlink(memory, x), Without(x)) /\ InNone(Without(x), x) /\ x \in Entry
         /\ Without(x) \in [Anchor -> Seq(Entry)]
<1>1. x \in Entry
  BY Placed
<1>2. PICK h \in Anchor, s \in Seq(Entry), t \in Seq(Entry) :
        lists[h] = With(s, x, t) /\ Without(x) = [lists EXCEPT ![h] = s \o t]
  BY Placed
<1>3. RingsInv(Unlink(memory, x), Without(x)) /\ InNone(Without(x), x)
  <2>1. /\ RingsInv(Unlink(memory, x), [lists EXCEPT ![h] = s \o t])
        /\ InNone([lists EXCEPT ![h] = s \o t], x)
    BY <1>1, <1>2, EntryIsUnlinked
  <2>2. QED
    BY <1>2, <2>1
<1>4. QED
  BY <1>1, <1>3 DEF RingsInv

LEMMA DeleteKept ==
  ASSUME RingsInv(memory, lists), NEW x \in Entry, ListDelete(x)
  PROVE  RingsInv(memory', lists')
<1> DEFINE m == Unlink(memory, x)
<1>1. /\ x \in Linked /\ lists' = Without(x)
      /\ \/ memory' = SetPrev(SetNext(m, x, Nowhere), x, Nowhere)
         \/ memory' = SetPrev(SetNext(m, x, x), x, x)
  BY DEF ListDelete, Del, DelInit, INIT_LIST_HEAD
<1>2. RingsInv(m, Without(x)) /\ InNone(Without(x), x)
  BY <1>1, UnlinkedIs
<1>3. Nowhere \in Target /\ x \in Target
  BY EntriesAreHeads DEF Target
<1> HIDE DEF m
<1>4. /\ RingsInv(SetPrev(SetNext(m, x, Nowhere), x, Nowhere), Without(x))
      /\ RingsInv(SetPrev(SetNext(m, x, x), x, x), Without(x))
  BY <1>2, <1>3, FreeEntryIsInit
<1>5. QED
  BY <1>1, <1>4

LEMMA MoveKept ==
  ASSUME RingsInv(memory, lists), NEW x \in Entry, NEW h \in Anchor, ListMove(x, h)
  PROVE  RingsInv(memory', lists')
<1> DEFINE m == Unlink(memory, x)
           L == Without(x)
<1>1. /\ x \in Linked
      /\ \/ memory' = Add(m, x, h) /\ lists' = [L EXCEPT ![h] = <<x>> \o L[h]]
         \/ memory' = AddTail(m, x, h) /\ lists' = [L EXCEPT ![h] = L[h] \o <<x>>]
  BY DEF ListMove, Move, MoveTail
<1>2. RingsInv(m, L) /\ InNone(L, x)
  BY <1>1, UnlinkedIs
<1> HIDE DEF m, L
<1>3. /\ RingsInv(Add(m, x, h), [L EXCEPT ![h] = <<x>> \o L[h]])
      /\ RingsInv(AddTail(m, x, h), [L EXCEPT ![h] = L[h] \o <<x>>])
  BY <1>2, FirstIsAdded, LastIsAdded
<1>4. QED
  BY <1>1, <1>3

LEMMA ReplaceKept ==
  ASSUME RingsInv(memory, lists), NEW x \in Entry, NEW y \in Entry, ListReplace(x, y)
  PROVE  RingsInv(memory', lists')
<1> DEFINE m == Replace(memory, x, y)
<1>1. /\ x \in Linked /\ y \notin Linked
      /\ lists' = PutInside(lists, ListOf(x), PlaceIn(x), y)
      /\ \/ memory' = m
         \/ memory' = SetPrev(SetNext(m, x, x), x, x)
  BY DEF ListReplace, INIT_LIST_HEAD, PutInside
<1>2. PICK h \in Anchor, s \in Seq(Entry), t \in Seq(Entry) :
        /\ lists[h] = With(s, x, t)
        /\ \A z \in Entry : PutInside(lists, ListOf(x), PlaceIn(x), z) =
                            [lists EXCEPT ![h] = With(s, z, t)]
  BY <1>1, Placed
<1>3. lists' = [lists EXCEPT ![h] = With(s, y, t)]
  BY <1>1, <1>2
<1>4. InNone(lists, y)
  BY <1>1, NotLinked
<1>5. RingsInv(m, lists') /\ InNone(lists', x)
  BY <1>2, <1>3, <1>4, EntryIsReplaced
<1>6. x \in Target
  BY EntriesAreHeads DEF Target
<1> HIDE DEF m
<1>7. RingsInv(SetPrev(SetNext(m, x, x), x, x), lists')
  BY <1>5, <1>6, FreeEntryIsInit
<1>8. QED
  BY <1>1, <1>5, <1>7

LEMMA JoinOtherWay ==
  ASSUME NEW m \in Memories, NEW x \in ListHead, NEW y \in ListHead
  PROVE  SetPrev(SetNext(m, x, y), y, x) = Join(m, x, y)
<1> DEFINE m2 == [next |-> [m.next EXCEPT ![x] = y], prev |-> [m.prev EXCEPT ![y] = x]]
           a == [next |-> [m.next EXCEPT ![x] = y], prev |-> m.prev]
           b == [next |-> m.next, prev |-> [m.prev EXCEPT ![y] = x]]
<1>1. m = [next |-> m.next, prev |-> m.prev]
  BY DEF Memories
<1>2. SetNext(m, x, y) = a /\ SetPrev(m, y, x) = b
  BY <1>1 DEF SetNext, SetPrev
<1>3. SetPrev(a, y, x) = m2 /\ SetNext(b, x, y) = m2
  BY DEF SetNext, SetPrev
<1>4. QED
  BY <1>2, <1>3, Zenon DEF Join

LEMMA TwoJoined ==
  ASSUME NEW m \in Memories, NEW p \in ListHead, NEW f \in ListHead,
         NEW l \in ListHead, NEW q \in ListHead, p # l, f # q
  PROVE  /\ Join(Join(m, p, f), l, q) \in Memories
         /\ Changed(m, Join(Join(m, p, f), l, q), {p, l}, {f, q})
         /\ Link(Join(Join(m, p, f), l, q), p, f) /\ Link(Join(Join(m, p, f), l, q), l, q)
<1> DEFINE a == Join(m, p, f)
           b == Join(a, l, q)
<1>1. a \in Memories /\ Changed(m, a, {p}, {f}) /\ Link(a, p, f)
  BY JoinIs
<1> HIDE DEF a
<1>2. b \in Memories /\ Changed(a, b, {l}, {q}) /\ Link(b, l, q)
  BY <1>1, JoinIs
<1> HIDE DEF b
<1>3. Changed(m, b, {p, l}, {f, q}) /\ Link(b, p, f)
  BY <1>1, <1>2 DEF Changed, Link
<1>4. QED
  BY <1>2, <1>3 DEF a, b

(* A segment joined into a ring with another, or with itself.              *)
LEMMA JoinedToRing ==
  ASSUME NEW m \in Memories, NEW s \in Seq(ListHead), NEW t \in Seq(ListHead),
         s # << >>, IsInjective(s), Segment(m, s), t # << >>, IsInjective(t), Segment(m, t),
         Range(s) \cap Range(t) = {}
  PROVE  LET m2 == Join(Join(m, LastOf(t), FirstOf(s)), LastOf(s), FirstOf(t))
         IN /\ m2 \in Memories /\ Ring(m2, s \o t)
            /\ Changed(m, m2, Range(s) \cup Range(t), Range(s) \cup Range(t))
<1> DEFINE m2 == Join(Join(m, LastOf(t), FirstOf(s)), LastOf(s), FirstOf(t))
<1>1. /\ LastOf(s) \in Range(s) /\ FirstOf(s) \in Range(s)
      /\ LastOf(t) \in Range(t) /\ FirstOf(t) \in Range(t)
      /\ LastOf(s) \in ListHead /\ FirstOf(s) \in ListHead
      /\ LastOf(t) \in ListHead /\ FirstOf(t) \in ListHead
  BY EndsOfSegment
<1>2. LastOf(t) # LastOf(s) /\ FirstOf(s) # FirstOf(t)
  BY <1>1
<1>3. /\ m2 \in Memories
      /\ Changed(m, m2, {LastOf(t), LastOf(s)}, {FirstOf(s), FirstOf(t)})
      /\ Link(m2, LastOf(t), FirstOf(s)) /\ Link(m2, LastOf(s), FirstOf(t))
  BY <1>1, <1>2, TwoJoined
<1> HIDE DEF m2
<1>4. {LastOf(t), LastOf(s)} = {LastOf(s), LastOf(t)}
  OBVIOUS
<1>5. Ring(m2, s \o t)
  BY <1>3, <1>4, Closed
<1>6. Changed(m, m2, Range(s) \cup Range(t), Range(s) \cup Range(t))
  BY <1>1, <1>3 DEF Changed
<1>7. QED
  BY <1>3, <1>5, <1>6 DEF m2

LEMMA JoinedToItself ==
  ASSUME NEW m \in Memories, NEW t \in Seq(ListHead),
         t # << >>, IsInjective(t), Segment(m, t)
  PROVE  LET m2 == Join(m, LastOf(t), FirstOf(t))
         IN m2 \in Memories /\ Ring(m2, t) /\ Changed(m, m2, {LastOf(t)}, {FirstOf(t)})
<1> DEFINE m2 == Join(m, LastOf(t), FirstOf(t))
<1>1. LastOf(t) \in ListHead /\ FirstOf(t) \in ListHead
  BY EndsOfSegment
<1>2. /\ m2 \in Memories /\ Changed(m, m2, {LastOf(t)}, {FirstOf(t)})
      /\ Link(m2, LastOf(t), FirstOf(t))
  BY <1>1, JoinIs
<1> HIDE DEF m2
<1>3. Segment(m2, t)
  BY <1>2, SegmentIsKept
<1>4. Ring(m2, t)
  BY <1>2, <1>3 DEF Ring
<1>5. QED
  BY <1>2, <1>4 DEF m2

LEMMA RotateLeftKept ==
  ASSUME RingsInv(memory, lists), NEW h \in Anchor, ListRotateLeft(h)
  PROVE  RingsInv(memory', lists')
<1> DEFINE l == lists[h]
<1>1. l \in Seq(Entry) /\ lists \in [Anchor -> Seq(Entry)]
  BY DEF RingsInv
<1>2. CASE l = << >>
  <2>1. memory.next[h] = h
    BY <1>2, EndsOfList
  <2>2. memory' = memory /\ lists' = lists
    BY <1>1, <1>2, <2>1 DEF ListRotateLeft, RotateLeft, IsEmpty
  <2>3. QED
    BY <2>2
<1>3. CASE l # << >>
  <2> DEFINE x == l[1]
             e == SubSeq(l, 1, 1 - 1)
             t == SubSeq(l, 1 + 1, Len(l))
             L1 == [lists EXCEPT ![h] = e \o t]
             m1 == Unlink(memory, x)
  <2>1. Len(l) \in Nat /\ Len(l) # 0 /\ DOMAIN l = 1 .. Len(l)
    BY <1>1, <1>3, EmptySeq, LenProperties
  <2>2. 1 \in DOMAIN l
    BY <2>1
  <2>3. /\ e \in Seq(Entry) /\ t \in Seq(Entry) /\ x \in Entry /\ l = With(e, x, t)
    BY <1>1, <2>2, SplitAt DEF With
  <2>4. e = << >> /\ t = Tail(l) /\ Head(l) = x
    BY <1>1, <1>3, <2>1, SubSeqEmpty, TailIsSubSeq
  <2>5. memory.next[h] = x /\ memory.next[h] # h
    BY <1>3, EndsOfList DEF FirstOf
  <2>6. memory' = AddTail(m1, x, h)
    BY <2>5 DEF ListRotateLeft, RotateLeft, IsEmpty, MoveTail
  <2>7. RingsInv(m1, L1) /\ InNone(L1, x)
    <3> HIDE DEF e, t, x
    <3>1. QED
      BY <2>3, EntryIsUnlinked
  <2>8. RingsInv(memory', [L1 EXCEPT ![h] = L1[h] \o <<x>>])
    <3> HIDE DEF L1, m1, x
    <3>1. QED
      BY <2>3, <2>6, <2>7, LastIsAdded
  <2>9. lists' = [L1 EXCEPT ![h] = L1[h] \o <<x>>]
    <3>1. lists' = [lists EXCEPT ![h] = Tail(l) \o <<Head(l)>>]
      BY <1>3 DEF ListRotateLeft
    <3>2. e \o t = t
      BY <2>3, <2>4, ConcatEmptySeq
    <3> DEFINE u == Tail(l) \o <<Head(l)>>
    <3>3. L1 = [lists EXCEPT ![h] = t] /\ L1[h] = t
      BY <1>1, <3>2
    <3>4. L1[h] \o <<x>> = u
      BY <2>4, <3>3
    <3> HIDE DEF u, L1, t, x
    <3>5. [L1 EXCEPT ![h] = u] = [lists EXCEPT ![h] = u]
      BY <1>1, <3>3
    <3>6. QED
      BY <3>1, <3>4, <3>5 DEF u
  <2>10. QED
    BY <2>8, <2>9
<1>4. QED
  BY <1>2, <1>3

LEMMA RotateToFrontKept ==
  ASSUME RingsInv(memory, lists), NEW h \in Anchor, NEW i, ListRotateToFront(h, i)
  PROVE  RingsInv(memory', lists')
<1> DEFINE l == lists[h]
           x == l[i]
           s == SubSeq(l, 1, i - 1)
           t == SubSeq(l, i + 1, Len(l))
           u == <<x>> \o t
           k == u \o s
           o == <<h>>
           m1 == Unlink(memory, h)
           m2 == AddTail(m1, h, x)
<1>1. l \in Seq(Entry) /\ lists \in [Anchor -> Seq(Entry)] /\ i \in DOMAIN l
  BY DEF RingsInv, ListRotateToFront
<1>2. /\ s \in Seq(Entry) /\ t \in Seq(Entry) /\ x \in Entry
      /\ l = s \o u /\ SubSeq(l, i, Len(l)) = u
  BY <1>1, SplitAt
<1>3. memory' = m2 /\ lists' = [lists EXCEPT ![h] = k]
  BY <1>2 DEF ListRotateToFront, RotateToFront, MoveTail
<1>4. u \in Seq(Entry) /\ u # << >> /\ FirstOf(u) = x
  <2>1. <<x>> \in Seq(Entry) /\ <<x>> # << >> /\ FirstOf(<<x>>) = x
    BY <1>2, OneIs
  <2> DEFINE q == <<x>>
  <2> HIDE DEF q, x, t
  <2>2. q \o t \in Seq(Entry) /\ q \o t # << >> /\ FirstOf(q \o t) = FirstOf(q)
    BY <1>2, <2>1, CatIs, EndsOfCat DEF q
  <2>3. QED
    BY <2>1, <2>2 DEF q
<1> HIDE DEF u, s, t, x
<1>5. /\ k \in Seq(Entry) /\ k # << >> /\ FirstOf(k) = x /\ Range(k) = Range(l)
      /\ s \in Seq(ListHead) /\ u \in Seq(ListHead) /\ k \in Seq(ListHead) /\ l \in Seq(ListHead)
  <2>1. k \in Seq(Entry) /\ k # << >> /\ FirstOf(k) = FirstOf(u) /\ Range(k) = Range(u) \cup Range(s)
    BY <1>2, <1>4, CatIs, EndsOfCat
  <2>2. Range(l) = Range(s) \cup Range(u)
    BY <1>2, <1>4, CatIs
  <2>3. QED
    BY <1>1, <1>2, <1>4, <2>1, <2>2, EntriesAreHeads
<1>6. /\ o \in Seq(ListHead) /\ o # << >> /\ FirstOf(o) = h /\ LastOf(o) = h
      /\ Range(o) = {h} /\ IsInjective(o) /\ h \in ListHead /\ \A m : Segment(m, o)
  <2>1. h \in ListHead
    BY DEF ListHead
  <2>2. QED
    BY <2>1, OneIs
<1>7. memory \in Memories /\ Ring(memory, o \o l)
  BY DEF RingsInv
<1>8. l # << >>
  BY <1>1, EmptySeq, LenProperties
<1> HIDE DEF o
<1>9. /\ Segment(memory, l) /\ IsInjective(l) /\ Range(o) \cap Range(l) = {}
      /\ Link(memory, LastOf(o), FirstOf(l)) /\ Link(memory, LastOf(l), FirstOf(o))
  BY <1>5, <1>6, <1>7, <1>8, RingOfTwo, Zenon
<1>10. m1 = Join(memory, LastOf(l), FirstOf(l))
  <2>1. Link(memory, h, FirstOf(l)) /\ Link(memory, LastOf(l), h)
    BY <1>6, <1>9
  <2>2. QED
    BY <2>1 DEF Link, NextOf, PrevOf, Unlink
<1>11. m1 \in Memories /\ Ring(m1, l) /\ Changed(memory, m1, {LastOf(l)}, {FirstOf(l)})
  BY <1>5, <1>7, <1>8, <1>9, <1>10, JoinedToItself
<1> HIDE DEF m1, l
<1>12. Ring(m1, k)
  BY <1>2, <1>5, <1>11, RingTurned
<1> HIDE DEF k
<1>13. Segment(m1, k) /\ IsInjective(k) /\ Link(m1, LastOf(k), FirstOf(k))
  BY <1>12 DEF Ring
<1>14. m2 = AddBetween(m1, h, LastOf(k), FirstOf(k))
  BY <1>5, <1>13 DEF AddTail, Link, PrevOf
<1>15. /\ LastOf(k) \in Range(k) /\ FirstOf(k) \in Range(k)
       /\ LastOf(k) \in ListHead /\ FirstOf(k) \in ListHead
       /\ LastOf(l) \in Range(l) /\ FirstOf(l) \in Range(l)
  BY <1>5, <1>8, EndsOfSegment
<1>16. h \notin Range(k)
  BY <1>5, <1>6, <1>9
<1>17. /\ m2 \in Memories /\ Changed(m1, m2, {h, LastOf(k)}, {h, FirstOf(k)})
       /\ Link(m2, LastOf(k), h) /\ Link(m2, h, FirstOf(k))
  <2>1. h # LastOf(k) /\ h # FirstOf(k)
    BY <1>15, <1>16
  <2> DEFINE a == LastOf(k)
             b == FirstOf(k)
  <2>2. a \in ListHead /\ b \in ListHead /\ h # a /\ h # b /\ h \in ListHead /\ m1 \in Memories
    BY <1>6, <1>11, <1>15, <2>1
  <2>3. m2 = AddBetween(m1, h, a, b)
    BY <1>14
  <2> HIDE DEF a, b, m2
  <2>4. /\ m2 \in Memories /\ Changed(m1, m2, {h, a}, {h, b}) /\ Link(m2, a, h) /\ Link(m2, h, b)
    BY <2>2, <2>3, BetweenIsAdded
  <2>5. QED
    BY <2>4 DEF a, b
<1> HIDE DEF m2
<1>18. Ring(m2, o \o k)
  <2>1. Range(o) \cap Range(k) = {}
    BY <1>6, <1>16
  <2>2. /\ Changed(m1, m2, {LastOf(o), LastOf(k)}, {FirstOf(o), FirstOf(k)})
        /\ Link(m2, LastOf(k), FirstOf(o)) /\ Link(m2, LastOf(o), FirstOf(k))
        /\ Segment(m1, o)
    BY <1>6, <1>17
  <2>3. QED
    BY <1>5, <1>6, <1>13, <2>1, <2>2, Closed
<1>19. RingsInv(m2, [lists EXCEPT ![h] = k])
  <2> DEFINE N == Nodes(lists, h)
             X == {}
  <2>1. N = {h} \cup Range(l)
    BY DEF Nodes, l
  <2>2. Changed(memory, m2, N, N)
    BY <1>5, <1>11, <1>15, <1>17, <2>1 DEF Changed
  <2>3. Within(lists, h, X, N, N, k)
    BY <1>5, <2>1 DEF Within
  <2>4. Ring(m2, <<h>> \o k)
    BY <1>18 DEF o
  <2> HIDE DEF N, X
  <2>5. QED
    BY <1>5, <1>17, <2>2, <2>3, <2>4, OneRelinked
<1>20. QED
  BY <1>3, <1>19

(* A ring with a segment put in at a place of a list.                      *)
LEMMA SegmentSeenFrom ==
  ASSUME NEW m, NEW h \in Anchor, NEW s \in Seq(Entry), NEW p \in Seq(Entry), NEW t \in Seq(Entry)
  PROVE  Ring(m, p \o Rest(h, s, t)) <=> Ring(m, <<h>> \o (s \o (p \o t)))
<1> DEFINE u == <<h>> \o s
<1>1. /\ h \in ListHead /\ s \in Seq(ListHead) /\ p \in Seq(ListHead) /\ t \in Seq(ListHead)
      /\ u \in Seq(ListHead)
  BY HeadAndList DEF ListHead
<1>2. p \o t \in Seq(ListHead)
  BY <1>1, CatIs
<1>3. Ring(m, <<h>> \o (s \o (p \o t))) <=> Ring(m, (p \o t) \o (<<h>> \o s))
  BY <1>1, <1>2, RingFrom
<1>4. (p \o t) \o u = p \o (t \o u)
  BY <1>1, ConcatAssociative
<1>5. QED
  BY <1>3, <1>4 DEF Rest

(* What two lists should be may change at once.                            *)
BothSet(L, g, k, h, l) == [L EXCEPT ![g] = k, ![h] = l]

LEMMA TwoRelinked ==
  ASSUME NEW m, NEW L, RingsInv(m, L), NEW m2 \in Memories,
         NEW g \in Anchor, NEW h \in Anchor, g # h,
         NEW k \in Seq(Entry), NEW l \in Seq(Entry),
         Ring(m2, <<g>> \o k), Ring(m2, <<h>> \o l),
         Changed(m, m2, Nodes(L, g) \cup Nodes(L, h), Nodes(L, g) \cup Nodes(L, h)),
         Range(k) \cup Range(l) \subseteq Nodes(L, g) \cup Nodes(L, h),
         Range(k) \cap Range(l) = {}
  PROVE  RingsInv(m2, BothSet(L, g, k, h, l))
<1> DEFINE L2 == BothSet(L, g, k, h, l)
           X == Nodes(L, g) \cup Nodes(L, h)
           H == {g, h}
<1>1. L \in [Anchor -> Seq(Entry)]
  BY DEF RingsInv
<1>2. /\ L2 \in [Anchor -> Seq(Entry)] /\ L2[g] = k /\ L2[h] = l
      /\ \A f \in Anchor \ H : L2[f] = L[f]
  BY <1>1 DEF BothSet
<1>3. \A f \in Anchor \ H : Nodes(L, f) \cap X = {}
  <2> TAKE f \in Anchor \ H
  <2>1. f \in Anchor /\ f # g /\ f # h
    OBVIOUS
  <2>2. Nodes(L, f) \cap Nodes(L, g) = {} /\ Nodes(L, f) \cap Nodes(L, h) = {}
    BY <2>1, NodesApart
  <2>3. QED
    BY <2>2
<1>4. \A f \in Anchor \ H : Range(L2[f]) \cap Range(k) = {} /\ Range(L2[f]) \cap Range(l) = {}
  BY <1>2, <1>3 DEF Nodes
<1> HIDE DEF L2
<1>5. Untouched(L, L2, H, X, X)
  BY <1>2, <1>3 DEF Untouched
<1>6. Remade(m2, L2, H)
  <2>1. \A f \in H : Ring(m2, <<f>> \o L2[f])
    BY <1>2
  <2>2. ASSUME NEW e \in H, NEW f \in Anchor, f # e PROVE Range(L2[f]) \cap Range(L2[e]) = {}
    <3>1. CASE f \in H
      BY <1>2, <2>2, <3>1
    <3>2. CASE f \notin H
      BY <1>2, <1>4, <3>2
    <3>3. QED
      BY <3>1, <3>2
  <2>3. QED
    BY <2>1, <2>2 DEF Remade
<1>7. Changed(m, m2, X, X) /\ H \in SUBSET Anchor
  OBVIOUS
<1> HIDE DEF X, H
<1>8. RingsInv(m2, L2)
  BY <1>2, <1>5, <1>6, <1>7, Relinked
<1>9. QED
  BY <1>8 DEF L2

(* Joining the entries of one list into another and initialising the first. *)
LEMMA SplicedIn ==
  ASSUME NEW m, NEW L, RingsInv(m, L), NEW g \in Anchor, NEW h \in Anchor, g # h,
         L[g] # << >>, NEW s \in Seq(Entry), NEW t \in Seq(Entry), L[h] = s \o t
  PROVE  RingsInv(INIT_LIST_HEAD(SpliceBetween(m, g, LastOf(Rest(h, s, t)), FirstOf(Rest(h, s, t))), g),
                  BothSet(L, g, << >>, h, s \o (L[g] \o t)))
<1> DEFINE p == L[g]
           d == Rest(h, s, t)
           m1 == Join(Join(m, LastOf(d), FirstOf(p)), LastOf(p), FirstOf(d))
           m2 == INIT_LIST_HEAD(m1, g)
           l == s \o (p \o t)
           e == << >>
           U == Range(p) \cup Range(d)
           X == Nodes(L, g) \cup Nodes(L, h)
<1>1. /\ m \in Memories /\ Ring(m, <<h>> \o (s \o t)) /\ h \in ListHead /\ g \in ListHead
  BY DEF RingsInv, ListHead
<1>2. /\ IsInjective(p) /\ Segment(m, p) /\ p \in Seq(ListHead) /\ p \in Seq(Entry) /\ p # << >>
  BY ListIsSegment
<1>3. /\ d \in Seq(ListHead) /\ d # << >> /\ Range(d) = {h} \cup Range(s \o t)
      /\ Range(s \o t) = Range(s) \cup Range(t)
  BY RestIs
<1>4. Ring(m, d)
  BY <1>1, SeenFrom
<1>5. Range(d) = Nodes(L, h) /\ Range(p) \subseteq Nodes(L, g)
  BY <1>3 DEF Nodes
<1>6. Nodes(L, g) \cap Nodes(L, h) = {} /\ g \in Nodes(L, g) /\ g \notin Range(p)
  <2>1. g \notin Range(p)
    BY <1>2, RangeOfEntries, ListOpsAssumption
  <2>2. QED
    BY <2>1, NodesApart DEF Nodes
<1>7. /\ m.next[g] = FirstOf(p) /\ m.prev[g] = LastOf(p)
  BY <1>2, EndsOfList
<1>8. /\ l \in Seq(Entry) /\ Range(l) = Range(s) \cup (Range(p) \cup Range(t))
  <2> DEFINE u == p \o t
  <2>1. u \in Seq(Entry) /\ Range(u) = Range(p) \cup Range(t)
    BY <1>2, CatIs
  <2> HIDE DEF u, p
  <2>2. s \o u \in Seq(Entry) /\ Range(s \o u) = Range(s) \cup Range(u)
    BY <2>1, CatIs
  <2>3. QED
    BY <2>1, <2>2 DEF u
<1>9. Ring(m2, p \o d) <=> Ring(m2, <<h>> \o l)
  BY <1>2, SegmentSeenFrom
<1>10. /\ LastOf(d) \in ListHead /\ FirstOf(d) \in ListHead /\ FirstOf(p) \in ListHead /\ LastOf(p) \in ListHead
  BY <1>2, <1>3, EndsOfSegment
<1> HIDE DEF d, p, l, X
<1>11. m1 = SpliceBetween(m, g, LastOf(d), FirstOf(d))
  <2> DEFINE a == Join(m, LastOf(d), FirstOf(p))
  <2>1. a \in Memories
    BY <1>1, <1>10, JoinIs
  <2>2. a = SetNext(SetPrev(m, FirstOf(p), LastOf(d)), LastOf(d), FirstOf(p))
    BY DEF Join
  <2> HIDE DEF a
  <2>3. SetPrev(SetNext(a, LastOf(p), FirstOf(d)), FirstOf(d), LastOf(p)) = Join(a, LastOf(p), FirstOf(d))
    BY <1>10, <2>1, JoinOtherWay
  <2>4. QED
    BY <1>7, <2>2, <2>3, Zenon DEF SpliceBetween, a
<1>12. IsInjective(d) /\ Segment(m, d)
  BY <1>4 DEF Ring
<1>13. Range(p) \cap Range(d) = {}
  BY <1>5, <1>6
<1>14. m1 \in Memories /\ Ring(m1, p \o d) /\ Changed(m, m1, U, U)
  BY <1>1, <1>2, <1>3, <1>12, <1>13, JoinedToRing
<1> HIDE DEF m1
<1>15. m2 \in Memories /\ Changed(m1, m2, {g}, {g}) /\ Ring(m2, <<g>> \o e)
  BY <1>14, HeadIsInit
<1> HIDE DEF m2, e
<1>16. Ring(m2, p \o d)
  <2>1. Range(p \o d) = Range(p) \cup Range(d)
    BY <1>2, <1>3, CatIs
  <2>2. g \notin Range(p \o d)
    BY <1>5, <1>6, <2>1
  <2> DEFINE c == p \o d
             G == {g}
  <2>3. Range(c) \cap G = {} /\ Changed(m1, m2, G, G) /\ Ring(m1, c)
    BY <1>14, <1>15, <2>2
  <2> HIDE DEF c, G
  <2>4. Ring(m2, c)
    BY <2>3, RingIsKept
  <2>5. QED
    BY <2>4 DEF c
<1>17. Changed(m, m2, X, X)
  BY <1>5, <1>6, <1>14, <1>15 DEF Changed, X
<1>18. Range(e) = {} /\ e \in Seq(Entry)
  BY DEF e, Range
<1>19. Range(e) \cup Range(l) \subseteq X /\ Range(e) \cap Range(l) = {}
  BY <1>3, <1>5, <1>8, <1>18 DEF X
<1>20. RingsInv(m2, BothSet(L, g, e, h, l))
  BY <1>8, <1>9, <1>15, <1>16, <1>17, <1>18, <1>19, TwoRelinked DEF X
<1>21. QED
  BY <1>11, <1>20 DEF m2, e, l, d, p

LEMMA SpliceKept ==
  ASSUME RingsInv(memory, lists), NEW g \in Anchor, NEW h \in Anchor, ListSplice(g, h)
  PROVE  RingsInv(memory', lists')
<1> DEFINE p == lists[g]
           l == lists[h]
           e == << >>
<1>1. /\ g # h /\ lists \in [Anchor -> Seq(Entry)] /\ p \in Seq(Entry) /\ l \in Seq(Entry)
      /\ e \in Seq(Entry)
  BY DEF RingsInv, ListSplice
<1>2. /\ memory.next[g] = IF p = << >> THEN g ELSE FirstOf(p)
      /\ p # << >> => FirstOf(p) # g
      /\ memory.next[h] = IF l = << >> THEN h ELSE FirstOf(l)
      /\ memory.prev[h] = IF l = << >> THEN h ELSE LastOf(l)
  BY EndsOfList
<1>3. IsEmpty(memory, g) <=> p = << >>
  BY <1>2 DEF IsEmpty
<1>4. /\ e \o p = p /\ p \o e = p /\ e \o l = l /\ l \o e = l
  BY <1>1, ConcatEmptySeq
<1>5. /\ LastOf(Rest(h, e, l)) = h /\ FirstOf(Rest(h, l, e)) = h
      /\ FirstOf(Rest(h, e, l)) = IF l = << >> THEN h ELSE FirstOf(l)
      /\ LastOf(Rest(h, l, e)) = IF l = << >> THEN h ELSE LastOf(l)
  BY <1>1, EndsOfRest
<1>6. CASE memory' = Reinitialised(memory, Splice(memory, g, h), g) /\
           lists' = [lists EXCEPT ![g] = << >>, ![h] = lists[g] \o @]
  <2>1. lists' = BothSet(lists, g, e, h, p \o l)
    BY <1>1, <1>6 DEF BothSet
  <2>2. CASE p = << >>
    <3>1. memory' = memory
      BY <1>3, <1>6, <2>2 DEF Reinitialised, Splice
    <3>2. lists' = lists
      BY <1>1, <1>4, <2>1, <2>2 DEF BothSet
    <3>3. QED
      BY <3>1, <3>2
  <2>3. CASE p # << >>
    <3>1. memory' = INIT_LIST_HEAD(SpliceBetween(memory, g, LastOf(Rest(h, e, l)),
                                                 FirstOf(Rest(h, e, l))), g)
      BY <1>2, <1>3, <1>5, <1>6, <2>3 DEF Reinitialised, Splice
    <3>2. e \o (p \o l) = p \o l
      <4>1. p \o l \in Seq(Entry)
        BY <1>1, CatIs
      <4>2. QED
        BY <4>1, ConcatEmptySeq
    <3>3. lists[h] = e \o l
      BY <1>4
    <3> HIDE DEF e, l
    <3>4. RingsInv(INIT_LIST_HEAD(SpliceBetween(memory, g, LastOf(Rest(h, e, l)),
                                                FirstOf(Rest(h, e, l))), g),
                   BothSet(lists, g, << >>, h, e \o (lists[g] \o l)))
      BY <1>1, <2>3, <3>3, SplicedIn
    <3>5. QED
      BY <2>1, <3>1, <3>2, <3>4 DEF e
  <2>4. QED
    BY <2>2, <2>3
<1>7. CASE memory' = Reinitialised(memory, SpliceTail(memory, g, h), g) /\
           lists' = [lists EXCEPT ![g] = << >>, ![h] = @ \o lists[g]]
  <2>1. lists' = BothSet(lists, g, e, h, l \o p)
    BY <1>1, <1>7 DEF BothSet
  <2>2. CASE p = << >>
    <3>1. memory' = memory
      BY <1>3, <1>7, <2>2 DEF Reinitialised, SpliceTail
    <3>2. lists' = lists
      BY <1>1, <1>4, <2>1, <2>2 DEF BothSet
    <3>3. QED
      BY <3>1, <3>2
  <2>3. CASE p # << >>
    <3>1. memory' = INIT_LIST_HEAD(SpliceBetween(memory, g, LastOf(Rest(h, l, e)),
                                                 FirstOf(Rest(h, l, e))), g)
      BY <1>2, <1>3, <1>5, <1>7, <2>3 DEF Reinitialised, SpliceTail
    <3>2. p \o e = p
      BY <1>4
    <3>3. lists[h] = l \o e
      BY <1>4
    <3> HIDE DEF e, l
    <3>4. RingsInv(INIT_LIST_HEAD(SpliceBetween(memory, g, LastOf(Rest(h, l, e)),
                                                FirstOf(Rest(h, l, e))), g),
                   BothSet(lists, g, << >>, h, l \o (lists[g] \o e)))
      BY <1>1, <2>3, <3>3, SplicedIn
    <3>5. QED
      BY <2>1, <3>1, <3>2, <3>4 DEF e
  <2>4. QED
    BY <2>2, <2>3
<1>8. QED
  BY <1>6, <1>7 DEF ListSplice

(* The pointers of a cut: the entries from first to last go to the list g, *)
(* and those from next on stay in h.                                       *)
CutOff(m, g, first, last, h, next) == Join(Join(Join(m, g, first), last, g), h, next)

LEMMA CutIs ==
  ASSUME NEW m, NEW L, RingsInv(m, L), NEW g \in Anchor, NEW h \in Anchor, g # h,
         NEW p \in Seq(Entry), p # << >>, NEW q \in Seq(Entry), L[h] = p \o q
  PROVE  RingsInv(CutOff(m, g, FirstOf(p), LastOf(p), h, FirstOf(Rest(h, << >>, q))),
                  BothSet(L, g, p, h, q))
<1> DEFINE e == << >>
           d == Rest(h, e, q)
           o == <<g>>
           m1 == Join(Join(m, LastOf(o), FirstOf(p)), LastOf(p), FirstOf(o))
           m2 == Join(m1, LastOf(d), FirstOf(d))
           X == Nodes(L, g) \cup Nodes(L, h)
           U == Range(p) \cup Range(o)
           N == {LastOf(d)}
           Q == {FirstOf(d)}
<1>1. /\ m \in Memories /\ Ring(m, <<h>> \o L[h]) /\ h \in ListHead /\ g \in ListHead
  BY DEF RingsInv, ListHead
<1>2. /\ p \in Seq(ListHead) /\ e \in Seq(Entry) /\ p \o q \in Seq(Entry)
      /\ Range(p \o q) = Range(p) \cup Range(q)
  BY EntriesAreHeads, CatIs
<1>3. e \o q = q /\ e \o (p \o q) = p \o q
  BY <1>2, ConcatEmptySeq
<1>4. /\ d \in Seq(ListHead) /\ d # << >> /\ Range(d) = {h} \cup Range(q) /\ LastOf(d) = h
  <2>1. d \in Seq(ListHead) /\ d # << >> /\ Range(d) = {h} \cup Range(e \o q)
    <3> HIDE DEF e
    <3>1. QED
      BY <1>2, RestIs
  <2>2. LastOf(d) = h
    BY <1>2, EndsOfRest
  <2>3. QED
    BY <1>3, <2>1, <2>2
<1>5. Ring(m, p \o d)
  BY <1>1, <1>2, <1>3, SegmentSeenFrom
<1>6. Ring(m2, d) <=> Ring(m2, <<h>> \o q)
  BY <1>1, <1>2, <1>3, SeenFrom
<1>7. /\ o \in Seq(ListHead) /\ o # << >> /\ FirstOf(o) = g /\ LastOf(o) = g
      /\ Range(o) = {g} /\ IsInjective(o) /\ Segment(m, o)
  BY <1>1, OneIs
<1> HIDE DEF d, o, e
<1>8. /\ Segment(m, p) /\ Segment(m, d) /\ IsInjective(p) /\ IsInjective(d)
      /\ Range(p) \cap Range(d) = {}
  BY <1>2, <1>4, <1>5, RingOfTwo, Zenon
<1>9. /\ Nodes(L, h) = {h} \cup (Range(p) \cup Range(q)) /\ g \in Nodes(L, g)
      /\ Nodes(L, g) \cap Nodes(L, h) = {}
  BY <1>2, NodesApart DEF Nodes
<1>10. Range(p) \cap Range(o) = {} /\ Range(d) \cap Range(o) = {}
  BY <1>4, <1>7, <1>9
<1>11. m1 \in Memories /\ Ring(m1, p \o o) /\ Changed(m, m1, U, U)
  BY <1>1, <1>2, <1>7, <1>8, <1>10, JoinedToRing
<1> HIDE DEF m1
<1>12. Range(d) \cap U = {} /\ LastOf(d) \in Range(d) /\ FirstOf(d) \in Range(d)
  BY <1>4, <1>8, <1>10, EndsOfSegment
<1>13. Segment(m1, d)
  <2> HIDE DEF U
  <2>1. QED
    BY <1>4, <1>8, <1>11, <1>12, SegmentIsKept
<1>14. m2 \in Memories /\ Ring(m2, d) /\ Changed(m1, m2, N, Q)
  BY <1>4, <1>8, <1>11, <1>13, JoinedToItself
<1> HIDE DEF m2
<1>15. Ring(m2, <<g>> \o p)
  <2>1. Ring(m1, o \o p)
    BY <1>2, <1>7, <1>11, RingTurned
  <2>2. Range(o \o p) = Range(o) \cup Range(p)
    BY <1>2, <1>7, CatIs
  <2>3. Range(o \o p) \cap N = {} /\ Range(o \o p) \cap Q = {}
    BY <1>8, <1>10, <1>12, <2>2
  <2> DEFINE c == o \o p
  <2> HIDE DEF c, N, Q
  <2>4. Ring(m2, c)
    BY <1>14, <2>1, <2>3, RingIsKept DEF c
  <2>5. QED
    BY <2>4 DEF c, o
<1>16. Changed(m, m2, X, X)
  BY <1>4, <1>7, <1>9, <1>11, <1>12, <1>14 DEF Changed
<1>17. Range(p) \cup Range(q) \subseteq X /\ Range(p) \cap Range(q) = {}
  BY <1>4, <1>8, <1>9
<1>18. Ring(m2, <<h>> \o q)
  BY <1>6, <1>14
<1>19. RingsInv(m2, BothSet(L, g, p, h, q))
  BY <1>14, <1>15, <1>16, <1>17, <1>18, TwoRelinked
<1>20. CutOff(m, g, FirstOf(p), LastOf(p), h, FirstOf(d)) = m2
  BY <1>4, <1>7 DEF CutOff, m1, m2
<1>21. QED
  BY <1>19, <1>20 DEF d, e

(* The sequence s, cut behind its first i elements into p and q.           *)
IsSplit(S, s, i, p, q) ==
  /\ p \in Seq(S) /\ q \in Seq(S) /\ p \o q = s
  /\ i = 0 => p = << >> /\ q = s
  /\ i # 0 => p # << >> /\ LastOf(p) = s[i] /\ FirstOf(p) = FirstOf(s)
  /\ i # Len(s) => q # << >> /\ FirstOf(q) = s[i + 1]
  /\ i = Len(s) => q = << >>

LEMMA SplitAfter ==
  ASSUME NEW S, NEW s \in Seq(S), NEW i \in 0 .. Len(s)
  PROVE  IsSplit(S, s, i, SubSeq(s, 1, i), SubSeq(s, i + 1, Len(s)))
<1> DEFINE n == Len(s)
           p == SubSeq(s, 1, i)
           q == SubSeq(s, i + 1, n)
<1>1. n \in Nat /\ i \in 0 .. n /\ i \in Int /\ 1 \in Int /\ i + 1 \in Int /\ n \in Int
      /\ \A j \in 1 .. n : s[j] \in S
  BY LenProperties, ElementOfSeq
<1>2. (\A j \in 1 .. i : s[j] \in S) /\ (\A j \in i + 1 .. n : s[j] \in S)
  BY <1>1
<1>3. /\ p \in Seq(S) /\ Len(p) = (IF 1 <= i THEN i - 1 + 1 ELSE 0)
      /\ \A j \in 1 .. i - 1 + 1 : p[j] = s[1 + j - 1]
  BY <1>1, <1>2, SubSeqProperties
<1>4. /\ q \in Seq(S) /\ Len(q) = (IF i + 1 <= n THEN n - (i + 1) + 1 ELSE 0)
      /\ \A j \in 1 .. n - (i + 1) + 1 : q[j] = s[i + 1 + j - 1]
  BY <1>1, <1>2, SubSeqProperties
<1>5. p \o q = s
  <2>1. 1 \in 1 .. n + 1 /\ i \in 1 - 1 .. n /\ n \in i .. n
    BY <1>1
  <2>2. p \o q = SubSeq(s, 1, n)
    BY <2>1, ConcatAdjacentSubSeq
  <2>3. QED
    BY <2>2, SubSeqFull
<1>6. i = 0 => p = << >> /\ q = s
  BY <1>1, SubSeqEmpty, SubSeqFull
<1>7. i = n => q = << >>
  BY <1>1, SubSeqEmpty
<1> HIDE DEF p, q, n
<1>8. ASSUME i # 0 PROVE p # << >> /\ LastOf(p) = s[i] /\ FirstOf(p) = FirstOf(s)
  <2>1. Len(p) = i /\ i \in 1 .. i - 1 + 1 /\ 1 \in 1 .. i - 1 + 1 /\ 1 + i - 1 = i /\ 1 + 1 - 1 = 1
    BY <1>1, <1>3, <1>8
  <2>2. p[i] = s[i] /\ p[1] = s[1]
    BY <1>3, <2>1
  <2>3. p # << >>
    BY <1>3, <1>8, <2>1, EmptySeq
  <2>4. QED
    BY <2>1, <2>2, <2>3 DEF LastOf, FirstOf
<1>9. ASSUME i # n PROVE q # << >> /\ FirstOf(q) = s[i + 1]
  <2>1. Len(q) # 0 /\ 1 \in 1 .. n - (i + 1) + 1 /\ i + 1 + 1 - 1 = i + 1
    BY <1>1, <1>4, <1>9
  <2>2. q[1] = s[i + 1]
    BY <1>4, <2>1
  <2>3. q # << >>
    BY <1>4, <2>1, EmptySeq
  <2>4. QED
    BY <2>2, <2>3 DEF FirstOf
<1>10. QED
  BY <1>3, <1>4, <1>5, <1>6, <1>7, <1>8, <1>9 DEF p, q, n, IsSplit

LEMMA ListIsEmptied ==
  ASSUME NEW m, NEW L, RingsInv(m, L), NEW g \in Anchor, NEW h \in Anchor, g # h
  PROVE  RingsInv(INIT_LIST_HEAD(m, g), BothSet(L, g, << >>, h, L[h]))
<1> DEFINE m2 == INIT_LIST_HEAD(m, g)
           e == << >>
           l == L[h]
           G == {g}
           X == Nodes(L, g) \cup Nodes(L, h)
<1>1. m \in Memories /\ l \in Seq(Entry) /\ Ring(m, <<h>> \o l) /\ e \in Seq(Entry) /\ Range(e) = {}
  BY DEF RingsInv, Range
<1>2. m2 \in Memories /\ Changed(m, m2, G, G) /\ Ring(m2, <<g>> \o e)
  BY <1>1, HeadIsInit
<1>3. /\ g \notin Nodes(L, h) /\ Nodes(L, h) = {h} \cup Range(l) /\ g \in Nodes(L, g)
      /\ Range(<<h>> \o l) = {h} \cup Range(l)
  BY <1>1, NodesApart, HeadAndList DEF Nodes
<1> HIDE DEF m2, e, l
<1>4. Ring(m2, <<h>> \o l)
  <2> DEFINE c == <<h>> \o l
  <2>1. Range(c) \cap G = {} /\ Ring(m, c)
    BY <1>1, <1>3
  <2> HIDE DEF c, G
  <2>2. Ring(m2, c)
    BY <1>2, <2>1, RingIsKept
  <2>3. QED
    BY <2>2 DEF c
<1>5. Changed(m, m2, X, X)
  BY <1>2, <1>3 DEF Changed
<1>6. Range(e) \cup Range(l) \subseteq X /\ Range(e) \cap Range(l) = {}
  BY <1>1, <1>3
<1>7. RingsInv(m2, BothSet(L, g, e, h, l))
  BY <1>1, <1>2, <1>4, <1>5, <1>6, TwoRelinked
<1>8. QED
  BY <1>7 DEF m2, e, l

LEMMA CutChain ==
  ASSUME NEW m \in Memories, NEW g \in ListHead, NEW f \in ListHead, NEW e \in ListHead,
         NEW h \in ListHead, NEW n \in ListHead
  PROVE  SetPrev(SetNext(SetNext(SetPrev(SetPrev(SetNext(m, g, f), f, g), g, e), e, g), h, n), n, h)
           = CutOff(m, g, f, e, h, n)
<1> DEFINE a == Join(m, g, f)
           b == Join(a, e, g)
           c == Join(b, h, n)
<1>1. a = SetPrev(SetNext(m, g, f), f, g) /\ a \in Memories
  BY JoinOtherWay, JoinIs
<1> HIDE DEF a
<1>2. b = SetNext(SetPrev(a, g, e), e, g) /\ b \in Memories
  BY <1>1, JoinIs DEF Join
<1> HIDE DEF b
<1>3. c = SetPrev(SetNext(b, h, n), n, h)
  BY <1>2, JoinOtherWay
<1>4. c = CutOff(m, g, f, e, h, n)
  BY DEF CutOff, b, a
<1> HIDE DEF c
<1>5. QED
  BY <1>1, <1>2, <1>3, <1>4, Zenon

(* Where a list is cut: behind its first entries p, which are not none.    *)
LEMMA CutNeighbours ==
  ASSUME NEW m, NEW L, RingsInv(m, L), NEW h \in Anchor,
         NEW p \in Seq(Entry), p # << >>, NEW q \in Seq(Entry), L[h] = p \o q
  PROVE  LET next == FirstOf(Rest(h, << >>, q))
         IN /\ m.next[LastOf(p)] = next /\ m.prev[next] = LastOf(p)
            /\ next = IF q = << >> THEN h ELSE FirstOf(q)
            /\ m.next[h] = FirstOf(p) /\ FirstOf(p) # next /\ LastOf(p) # h
            /\ FirstOf(p) \in ListHead /\ LastOf(p) \in ListHead /\ next \in ListHead
<1> DEFINE e == << >>
           d == Rest(h, e, q)
<1>1. /\ m \in Memories /\ Ring(m, <<h>> \o L[h]) /\ h \in ListHead
  BY DEF RingsInv, ListHead
<1>2. /\ p \in Seq(ListHead) /\ e \in Seq(Entry) /\ p \o q \in Seq(Entry)
      /\ p \o q # << >> /\ FirstOf(p \o q) = FirstOf(p)
  BY EntriesAreHeads, CatIs, EndsOfCat
<1>3. e \o (p \o q) = p \o q
  BY <1>2, ConcatEmptySeq
<1>4. FirstOf(d) = IF q = << >> THEN h ELSE FirstOf(q)
  BY <1>2, EndsOfRest
<1>5. d \in Seq(ListHead) /\ d # << >>
  <2> HIDE DEF e
  <2>1. QED
    BY <1>2, RestIs
<1>6. Ring(m, p \o d)
  BY <1>1, <1>2, <1>3, SegmentSeenFrom
<1>7. m.next[h] = FirstOf(p)
  <2>1. L[h] # << >> /\ FirstOf(L[h]) = FirstOf(p)
    BY <1>2
  <2>2. QED
    BY <2>1, EndsOfList, ZenonT(30)
<1>8. LastOf(p) # h
  <2>1. h \notin Range(p)
    BY RangeOfEntries, ListOpsAssumption
  <2>2. QED
    BY <1>2, <2>1, EndsOfSegment
<1> HIDE DEF d
<1>9. Link(m, LastOf(p), FirstOf(d)) /\ Range(p) \cap Range(d) = {}
  BY <1>2, <1>5, <1>6, RingOfTwo, Zenon
<1>10. /\ FirstOf(p) \in ListHead /\ LastOf(p) \in ListHead /\ FirstOf(d) \in ListHead
       /\ FirstOf(p) \in Range(p) /\ FirstOf(d) \in Range(d)
  BY <1>2, <1>5, EndsOfSegment
<1>11. QED
  BY <1>4, <1>7, <1>8, <1>9, <1>10 DEF Link, NextOf, PrevOf, d, e

LEMMA CutPositionKept ==
  ASSUME RingsInv(memory, lists), NEW g \in Anchor, NEW h \in Anchor, NEW i \in Nat,
         ListCutPosition(g, h, i)
  PROVE  RingsInv(memory', lists')
<1> DEFINE l == lists[h]
           p == SubSeq(l, 1, i)
           q == SubSeq(l, i + 1, Len(l))
           entry == IF i = 0 THEN h ELSE l[i]
<1>1. /\ g # h /\ i \in 0 .. Len(l) /\ memory' = CutPosition(memory, g, h, entry)
      /\ lists' = IF l = << >> THEN lists ELSE [lists EXCEPT ![g] = p, ![h] = q]
  BY DEF ListCutPosition
<1>2. lists \in [Anchor -> Seq(Entry)] /\ l \in Seq(Entry) /\ memory \in Memories
  BY DEF RingsInv
<1>3. /\ p \in Seq(Entry) /\ q \in Seq(Entry) /\ p \o q = l
      /\ i = 0 => p = << >> /\ q = l
      /\ i # 0 => p # << >> /\ LastOf(p) = l[i] /\ FirstOf(p) = FirstOf(l)
  <2> HIDE DEF l
  <2>1. IsSplit(Entry, l, i, p, q)
    BY <1>1, <1>2, SplitAfter
  <2> HIDE DEF p, q
  <2>2. QED
    BY <2>1 DEF IsSplit
<1>4. /\ memory.next[h] = IF l = << >> THEN h ELSE FirstOf(l)
      /\ memory.prev[h] = IF l = << >> THEN h ELSE LastOf(l)
      /\ l # << >> => FirstOf(l) # h
  BY EndsOfList
<1>5. lists' = IF l = << >> THEN lists ELSE BothSet(lists, g, p, h, q)
  BY <1>1 DEF BothSet
<1>6. CASE l = << >>
  <2>1. memory' = memory
    BY <1>1, <1>4, <1>6 DEF CutPosition, IsEmpty
  <2>2. QED
    BY <1>5, <1>6, <2>1
<1>7. CASE l # << >> /\ i = 0
  <2>1. ~IsEmpty(memory, h) /\ entry = h
    BY <1>4, <1>7 DEF IsEmpty
  <2>2. memory' = INIT_LIST_HEAD(memory, g)
    BY <1>1, <2>1 DEF CutPosition
  <2>3. RingsInv(INIT_LIST_HEAD(memory, g), BothSet(lists, g, << >>, h, lists[h]))
    BY <1>1, ListIsEmptied
  <2>4. QED
    BY <1>3, <1>5, <1>7, <2>2, <2>3
<1>8. CASE l # << >> /\ i # 0
  <2> DEFINE next == FirstOf(Rest(h, << >>, q))
             f == FirstOf(p)
             e == LastOf(p)
             a == SetNext(memory, g, f)
             b == SetPrev(SetPrev(a, f, g), g, e)
             c == SetNext(SetNext(b, e, g), h, next)
  <2>1. entry = e /\ p # << >> /\ l = p \o q /\ f = FirstOf(l)
    BY <1>3, <1>8
  <2>2. /\ memory.next[e] = next /\ memory.next[h] = f /\ e # h
        /\ f \in ListHead /\ e \in ListHead /\ next \in ListHead
    <3> HIDE DEF p, q
    <3>1. QED
      BY <1>3, <2>1, CutNeighbours
  <2>3. ~IsEmpty(memory, h)
    BY <1>4, <1>8 DEF IsEmpty
  <2>4. ~(IsSingular(memory, h) /\ memory.next[h] # entry /\ h # entry)
    <3> SUFFICES ASSUME IsSingular(memory, h) PROVE f = e
      BY <2>1, <2>2
    <3>1. FirstOf(l) = LastOf(l)
      BY <1>4, <1>8 DEF IsSingular
    <3>2. /\ Len(l) \in Nat /\ Len(l) # 0 /\ DOMAIN l = 1 .. Len(l)
          /\ \A x, y \in DOMAIN l : l[x] = l[y] => x = y
      BY <1>2, <1>8, ListIsSegment, LenProperties, EmptySeq DEF IsInjective
    <3>3. 1 = Len(l)
      <4>1. 1 \in DOMAIN l /\ Len(l) \in DOMAIN l /\ l[1] = l[Len(l)]
        BY <3>1, <3>2 DEF FirstOf, LastOf
      <4>2. QED
        BY <3>2, <4>1
    <3>4. i = 1
      BY <1>1, <1>8, <3>3
    <3>5. QED
      BY <1>3, <1>8, <2>1, <3>4 DEF FirstOf
  <2>5. a.next[g] = f
    <3>1. g \in ListHead /\ f \in Target
      BY <2>2 DEF ListHead, Target
    <3> HIDE DEF f
    <3>2. NextOf(a, g) = f
      BY <1>2, <3>1, NextIsSet
    <3>3. QED
      BY <3>2 DEF NextOf
  <2>6. memory' = SetPrev(c, next, h)
    <3> HIDE DEF f, e, next, entry, l
    <3>1. memory' = CutPosition(memory, g, h, e) /\ e # h
      BY <1>1, <2>1, <2>2
    <3>2. CutPosition(memory, g, h, e) = SetPrev(c, next, h)
      BY <2>1, <2>2, <2>3, <2>4, <2>5, Zenon DEF CutPosition
    <3>3. QED
      BY <3>1, <3>2
  <2>7. SetPrev(c, next, h) = CutOff(memory, g, f, e, h, next)
    <3>1. g \in ListHead /\ h \in ListHead
      BY DEF ListHead
    <3> HIDE DEF f, e, next
    <3>2. QED
      BY <1>2, <2>2, <3>1, CutChain
  <2>8. RingsInv(CutOff(memory, g, f, e, h, next), BothSet(lists, g, p, h, q))
    <3>1. lists[h] = p \o q
      BY <2>1
    <3> HIDE DEF p, q
    <3>2. QED
      BY <1>1, <1>3, <2>1, <3>1, CutIs
  <2>9. QED
    BY <1>5, <1>8, <2>6, <2>7, <2>8
<1>9. QED
  BY <1>6, <1>7, <1>8

LEMMA CutBeforeKept ==
  ASSUME RingsInv(memory, lists), NEW g \in Anchor, NEW h \in Anchor, NEW i \in Nat,
         ListCutBefore(g, h, i)
  PROVE  RingsInv(memory', lists')
<1> DEFINE l == lists[h]
           k == i - 1
           p == SubSeq(l, 1, k)
           q == SubSeq(l, k + 1, Len(l))
           entry == IF i > Len(l) THEN h ELSE l[i]
           next == FirstOf(Rest(h, << >>, q))
           f == FirstOf(p)
           e == LastOf(p)
           a == SetNext(memory, g, f)
           b == SetPrev(SetPrev(a, f, g), g, e)
           c == SetNext(SetNext(b, e, g), h, next)
<1>1. g # h /\ i \in 1 .. Len(l) + 1 /\ memory' = CutBefore(memory, g, h, entry)
  BY DEF ListCutBefore
<1>2. lists \in [Anchor -> Seq(Entry)] /\ l \in Seq(Entry) /\ memory \in Memories /\ Len(l) \in Nat
  BY LenProperties DEF RingsInv
<1>3. k \in 0 .. Len(l) /\ k + 1 = i
  BY <1>1, <1>2
<1>4. /\ p \in Seq(Entry) /\ q \in Seq(Entry) /\ p \o q = l
      /\ k = 0 => p = << >> /\ q = l
      /\ k # 0 => p # << >>
      /\ k # Len(l) => q # << >> /\ FirstOf(q) = l[k + 1]
      /\ k = Len(l) => q = << >>
  <2> HIDE DEF l, k
  <2>1. IsSplit(Entry, l, k, p, q)
    BY <1>2, <1>3, SplitAfter
  <2> HIDE DEF p, q
  <2>2. QED
    BY <2>1 DEF IsSplit
<1>5. lists' = BothSet(lists, g, p, h, q)
  BY <1>3 DEF ListCutBefore, BothSet
<1>6. entry = IF q = << >> THEN h ELSE FirstOf(q)
  <2> HIDE DEF k, q, l
  <2>1. CASE i > Len(l)
    <3>1. k = Len(l)
      BY <1>2, <1>3, <2>1
    <3>2. QED
      BY <1>4, <2>1, <3>1
  <2>2. CASE ~(i > Len(l))
    <3>1. k # Len(l)
      BY <1>1, <1>2, <1>3, <2>2
    <3>2. QED
      BY <1>3, <1>4, <2>2, <3>1
  <2>3. QED
    BY <2>1, <2>2
<1>7. CASE k = 0
  <2>1. memory.next[h] = IF l = << >> THEN h ELSE FirstOf(l)
    BY EndsOfList
  <2>2. memory.next[h] = entry
    BY <1>4, <1>6, <1>7, <2>1
  <2>3. memory' = INIT_LIST_HEAD(memory, g)
    BY <1>1, <2>2 DEF CutBefore
  <2>4. RingsInv(INIT_LIST_HEAD(memory, g), BothSet(lists, g, << >>, h, lists[h]))
    BY <1>1, ListIsEmptied
  <2>5. QED
    BY <1>4, <1>5, <1>7, <2>3, <2>4
<1>8. CASE k # 0
  <2>1. p # << >> /\ l = p \o q
    BY <1>4, <1>8
  <2>2. /\ memory.prev[next] = e /\ memory.next[h] = f /\ f # next
        /\ next = IF q = << >> THEN h ELSE FirstOf(q)
        /\ f \in ListHead /\ e \in ListHead /\ next \in ListHead
    <3> HIDE DEF p, q
    <3>1. QED
      BY <1>4, <2>1, CutNeighbours
  <2>3. entry = next
    BY <1>6, <2>2
  <2>4. a.next[g] = f /\ a.prev[next] = e /\ b.prev[g] = e
    <3>1. g \in ListHead /\ g \in Target /\ f \in Target /\ e \in Target
      BY <2>2 DEF ListHead, Target
    <3> HIDE DEF f, e, next
    <3>2. /\ NextOf(a, g) = f /\ a \in Memories
          /\ \A z \in ListHead : PrevOf(a, z) = PrevOf(memory, z)
      BY <1>2, <3>1, NextIsSet
    <3>3. PrevOf(memory, next) = e
      BY <2>2 DEF PrevOf
    <3>4. PrevOf(a, next) = e
      BY <2>2, <3>2, <3>3
    <3> HIDE DEF a
    <3>5. SetPrev(a, f, g) \in Memories
      BY <2>2, <3>1, <3>2, PrevIsSet
    <3>6. PrevOf(b, g) = e
      BY <3>1, <3>5, PrevIsSet
    <3>7. QED
      BY <3>2, <3>4, <3>6 DEF NextOf, PrevOf
  <2>5. memory' = SetPrev(c, next, h)
    <3> HIDE DEF f, e, next, entry, l
    <3>1. memory' = CutBefore(memory, g, h, next) /\ memory.next[h] # next
      BY <1>1, <2>2, <2>3
    <3>2. CutBefore(memory, g, h, next) = SetPrev(c, next, h)
      BY <2>2, <2>4, <3>1, Zenon DEF CutBefore
    <3>3. QED
      BY <3>1, <3>2
  <2>6. SetPrev(c, next, h) = CutOff(memory, g, f, e, h, next)
    <3>1. g \in ListHead /\ h \in ListHead
      BY DEF ListHead
    <3> HIDE DEF f, e, next
    <3>2. QED
      BY <1>2, <2>2, <3>1, CutChain
  <2>7. RingsInv(CutOff(memory, g, f, e, h, next), BothSet(lists, g, p, h, q))
    <3>1. lists[h] = p \o q
      BY <2>1
    <3> HIDE DEF p, q
    <3>2. QED
      BY <1>1, <1>4, <2>1, <3>1, CutIs
  <2>8. QED
    BY <1>5, <2>5, <2>6, <2>7
<1>9. QED
  BY <1>7, <1>8

(* A segment p of the list of h is taken out of its ring and joined to the *)
(* end of what is left.                                                    *)
CanMoveToTail(m, L, h, s, p, t) ==
  LET d == Rest(h, s, t)
      m1 == Join(m, LastOf(d), FirstOf(d))
      e == m1.prev[h]
  IN /\ RingsInv(Join(Join(m1, e, FirstOf(p)), LastOf(p), h), [L EXCEPT ![h] = (s \o t) \o p])
     /\ m.prev[FirstOf(p)] = LastOf(d) /\ m.next[LastOf(p)] = FirstOf(d)
     /\ LastOf(p) # LastOf(d)
     /\ {h, e, FirstOf(p), LastOf(p), FirstOf(d), LastOf(d)} \subseteq ListHead

LEMMA MovedToTail ==
  ASSUME NEW m, NEW L, RingsInv(m, L), NEW h \in Anchor, NEW s \in Seq(Entry),
         NEW p \in Seq(Entry), p # << >>, NEW t \in Seq(Entry), L[h] = s \o (p \o t)
  PROVE  CanMoveToTail(m, L, h, s, p, t)
<1> DEFINE d == Rest(h, s, t)
           k == s \o t
           o == <<h>>
           c == o \o k
           m1 == Join(m, LastOf(d), FirstOf(d))
           e == m1.prev[h]
           m2 == Join(Join(m1, LastOf(c), FirstOf(p)), LastOf(p), FirstOf(c))
           X == Nodes(L, h)
<1>1. m \in Memories /\ Ring(m, <<h>> \o L[h]) /\ h \in ListHead
  BY DEF RingsInv, ListHead
<1>2. /\ p \in Seq(ListHead) /\ k \in Seq(Entry) /\ d \in Seq(ListHead) /\ d # << >>
      /\ Range(d) = {h} \cup Range(k) /\ Range(k) = Range(s) \cup Range(t)
  BY EntriesAreHeads, RestIs
<1>3. /\ c \in Seq(ListHead) /\ c # << >> /\ FirstOf(c) = h /\ Range(c) = {h} \cup Range(k)
  <2>1. o \in Seq(ListHead) /\ o # << >> /\ FirstOf(o) = h
    BY <1>1, OneIs
  <2>2. c \in Seq(ListHead) /\ c # << >> /\ Range(c) = {h} \cup Range(k)
    BY <1>2, HeadAndList
  <2>3. k \in Seq(ListHead)
    BY <1>2, EntriesAreHeads
  <2> HIDE DEF o, k
  <2>4. FirstOf(c) = FirstOf(o)
    BY <2>1, <2>3, EndsOfCat
  <2>5. QED
    BY <2>1, <2>2, <2>4
<1>4. Ring(m, p \o d)
  BY <1>1, SegmentSeenFrom
<1>5. /\ X = {h} \cup Range(L[h]) /\ Range(L[h]) = Range(s) \cup (Range(p) \cup Range(t))
      /\ (s \o t) \o p \in Seq(Entry) /\ Range((s \o t) \o p) = (Range(s) \cup Range(t)) \cup Range(p)
  <2>1. p \o t \in Seq(Entry) /\ Range(p \o t) = Range(p) \cup Range(t)
    BY CatIs
  <2>2. Range(s \o (p \o t)) = Range(s) \cup Range(p \o t)
    BY <2>1, CatIs
  <2>3. k \o p \in Seq(Entry) /\ Range(k \o p) = Range(k) \cup Range(p)
    <3> HIDE DEF k
    <3>1. QED
      BY <1>2, CatIs
  <2>4. QED
    BY <1>2, <2>1, <2>2, <2>3 DEF Nodes
<1> HIDE DEF d, c
<1>6. /\ Segment(m, p) /\ Segment(m, d) /\ IsInjective(p) /\ IsInjective(d)
      /\ Link(m, LastOf(p), FirstOf(d)) /\ Link(m, LastOf(d), FirstOf(p))
      /\ Range(p) \cap Range(d) = {}
  BY <1>2, <1>4, RingOfTwo, Zenon
<1>7. m1 \in Memories /\ Ring(m1, d) /\ Changed(m, m1, {LastOf(d)}, {FirstOf(d)})
  BY <1>1, <1>2, <1>6, JoinedToItself
<1>8. /\ LastOf(d) \in Range(d) /\ FirstOf(d) \in Range(d)
      /\ LastOf(p) \in Range(p) /\ FirstOf(p) \in Range(p)
      /\ LastOf(c) \in Range(c) /\ FirstOf(c) \in Range(c)
      /\ {h, LastOf(c), FirstOf(p), LastOf(p), FirstOf(d), LastOf(d)} \subseteq ListHead
  BY <1>1, <1>2, <1>3, EndsOfSegment
<1> HIDE DEF m1
<1>9. Ring(m1, c)
  BY <1>7, SeenFrom DEF c, d, ListHead
<1>10. Segment(m1, c) /\ IsInjective(c) /\ Link(m1, LastOf(c), h)
  BY <1>3, <1>9 DEF Ring
<1>11. Segment(m1, p)
  <2> DEFINE N == {LastOf(d)}
             P == {FirstOf(d)}
  <2>1. /\ \A x \in N : x \notin Range(p) \/ x = LastOf(p)
        /\ \A x \in P : x \notin Range(p) \/ x = FirstOf(p)
    BY <1>6, <1>8
  <2>2. Changed(m, m1, N, P)
    BY <1>7
  <2> HIDE DEF N, P
  <2>3. QED
    BY <1>2, <1>6, <2>1, <2>2, SegmentIsKept
<1>12. e = LastOf(c)
  BY <1>10 DEF Link, PrevOf
<1>13. /\ m2 \in Memories /\ Ring(m2, p \o c)
       /\ Changed(m1, m2, Range(p) \cup Range(c), Range(p) \cup Range(c))
  <2>1. Range(p) \cap Range(c) = {}
    BY <1>2, <1>3, <1>6
  <2>2. QED
    BY <1>2, <1>3, <1>6, <1>7, <1>10, <1>11, <2>1, JoinedToRing
<1> HIDE DEF m2
<1>14. Ring(m2, c \o p)
  BY <1>2, <1>3, <1>13, RingTurned
<1>15. Ring(m2, <<h>> \o ((s \o t) \o p))
  <2>1. o \in Seq(ListHead) /\ k \in Seq(ListHead)
    BY <1>1, <1>2, EntriesAreHeads, OneIs
  <2> HIDE DEF o, k
  <2>2. c \o p = o \o (k \o p)
    BY <1>2, <2>1, ConcatAssociative, SMTT(30) DEF c
  <2>3. QED
    BY <1>14, <2>2 DEF o, k
<1>16. RingsInv(m2, [L EXCEPT ![h] = k \o p])
  <2> DEFINE Y == {}
  <2>1. Changed(m, m2, X, X)
    BY <1>2, <1>3, <1>5, <1>7, <1>8, <1>13 DEF Changed
  <2>2. Within(L, h, Y, X, X, k \o p)
    BY <1>2, <1>5 DEF Within
  <2>3. Ring(m2, <<h>> \o (k \o p)) /\ k \o p \in Seq(Entry)
    BY <1>5, <1>15
  <2> HIDE DEF Y, X, k
  <2>4. QED
    BY <1>13, <2>1, <2>2, <2>3, OneRelinked
<1>17. m2 = Join(Join(m1, e, FirstOf(p)), LastOf(p), h)
  BY <1>3, <1>12 DEF m2
<1>18. /\ m.prev[FirstOf(p)] = LastOf(d) /\ m.next[LastOf(p)] = FirstOf(d)
  BY <1>6 DEF Link, NextOf, PrevOf
<1>19. LastOf(p) # LastOf(d)
  BY <1>6, <1>8
<1>20. {h, e, FirstOf(p), LastOf(p), FirstOf(d), LastOf(d)} \subseteq ListHead
  BY <1>8, <1>12
<1>21. QED
  BY <1>16, <1>17, <1>18, <1>19, <1>20 DEF d, m1, CanMoveToTail

LEMMA BulkChain ==
  ASSUME NEW m \in Memories, NEW p \in ListHead, NEW n \in ListHead, NEW f \in ListHead,
         NEW l \in ListHead, NEW h \in ListHead,
         m.prev[f] = p, m.next[l] = n, l # p,
         Join(m, p, n).prev[h] \in ListHead
  PROVE  BulkMoveTail(m, h, f, l) = Join(Join(Join(m, p, n), Join(m, p, n).prev[h], f), l, h)
<1> DEFINE a == SetNext(m, p, n)
           b == SetPrev(a, n, p)
           e == b.prev[h]
           c == SetNext(b, e, f)
           d == SetPrev(c, f, e)
<1>1. n \in Target /\ p \in Target /\ f \in Target /\ a \in Memories /\ b = Join(m, p, n)
  BY NextIsSet, JoinOtherWay DEF Target
<1>2. a.next[l] = n /\ a.prev[f] = p
  <2>1. NextOf(a, l) = NextOf(m, l) /\ PrevOf(a, f) = PrevOf(m, f)
    BY <1>1, NextIsSet
  <2>2. QED
    BY <2>1 DEF NextOf, PrevOf
<1>3. b \in Memories /\ e \in ListHead
  BY <1>1, JoinIs
<1> HIDE DEF b
<1>4. c.prev[h] = e
  <2> HIDE DEF e
  <2>1. PrevOf(c, h) = PrevOf(b, h)
    BY <1>1, <1>3, NextIsSet
  <2>2. QED
    BY <2>1 DEF PrevOf, e
<1>5. d = Join(b, e, f)
  BY <1>1, <1>3, JoinOtherWay
<1>6. BulkMoveTail(m, h, f, l) = SetPrev(SetNext(d, l, h), h, l)
  BY <1>2, <1>4 DEF BulkMoveTail, b
<1>7. d \in Memories
  BY <1>3, <1>5, JoinIs
<1> HIDE DEF d, e
<1>8. SetPrev(SetNext(d, l, h), h, l) = Join(d, l, h)
  BY <1>7, JoinOtherWay
<1>9. QED
  BY <1>1, <1>5, <1>6, <1>8 DEF e

(* A list cut in three.                                                    *)
LEMMA SplitInThree ==
  ASSUME NEW S, NEW s \in Seq(S), NEW i \in DOMAIN s, NEW j \in i .. Len(s)
  PROVE  LET a == SubSeq(s, 1, i - 1)
             b == SubSeq(s, i, j)
             c == SubSeq(s, j + 1, Len(s))
         IN /\ a \in Seq(S) /\ b \in Seq(S) /\ c \in Seq(S) /\ s = a \o (b \o c)
            /\ b # << >> /\ FirstOf(b) = s[i] /\ LastOf(b) = s[j]
<1> DEFINE n == Len(s)
           a == SubSeq(s, 1, i - 1)
           b == SubSeq(s, i, j)
           c == SubSeq(s, j + 1, n)
<1>1. /\ n \in Nat /\ i \in 1 .. n /\ j \in i .. n /\ \A x \in 1 .. n : s[x] \in S
  BY LenProperties, ElementOfSeq
<1>2. /\ i \in Int /\ i - 1 \in Int /\ j \in Int /\ j + 1 \in Int /\ n \in Int /\ 1 \in Int
      /\ \A x \in 1 .. i - 1 : s[x] \in S
      /\ \A x \in i .. j : s[x] \in S
      /\ \A x \in j + 1 .. n : s[x] \in S
  BY <1>1
<1>3. a \in Seq(S) /\ c \in Seq(S)
  BY <1>2, SubSeqProperties
<1>4. /\ b \in Seq(S) /\ Len(b) = (IF i <= j THEN j - i + 1 ELSE 0)
      /\ \A x \in 1 .. j - i + 1 : b[x] = s[i + x - 1]
  BY <1>2, SubSeqProperties
<1>5. s = a \o (b \o c)
  <2>1. i \in 1 .. n + 1 /\ j \in i - 1 .. n /\ n \in j .. n
    BY <1>1
  <2>2. b \o c = SubSeq(s, i, n)
    BY <2>1, ConcatAdjacentSubSeq
  <2>3. 1 \in 1 .. n + 1 /\ i - 1 \in 1 - 1 .. n /\ n \in i - 1 .. n /\ (i - 1) + 1 = i
    BY <1>1
  <2>4. a \o SubSeq(s, (i - 1) + 1, n) = SubSeq(s, 1, n)
    BY <2>3, ConcatAdjacentSubSeq
  <2>5. QED
    BY <2>2, <2>3, <2>4, SubSeqFull
<1> HIDE DEF a, c
<1>6. Len(b) = j - i + 1 /\ 1 \in 1 .. j - i + 1 /\ Len(b) \in 1 .. j - i + 1 /\ Len(b) # 0
      /\ i + 1 - 1 = i /\ i + Len(b) - 1 = j
  BY <1>1, <1>4
<1>7. b[1] = s[i] /\ b[Len(b)] = s[j]
  BY <1>4, <1>6
<1>8. b # << >>
  BY <1>4, <1>6, EmptySeq
<1>9. QED
  BY <1>3, <1>4, <1>5, <1>7, <1>8 DEF FirstOf, LastOf, a, c

LEMMA BulkMoveTailKept ==
  ASSUME RingsInv(memory, lists), NEW h \in Anchor, NEW i, NEW j, ListBulkMoveTail(h, i, j)
  PROVE  RingsInv(memory', lists')
<1> DEFINE l == lists[h]
           s == SubSeq(l, 1, i - 1)
           p == SubSeq(l, i, j)
           t == SubSeq(l, j + 1, Len(l))
           d == Rest(h, s, t)
           m1 == Join(memory, LastOf(d), FirstOf(d))
           e == m1.prev[h]
<1>1. /\ i \in DOMAIN l /\ j \in i .. Len(l)
      /\ memory' = BulkMoveTail(memory, h, l[i], l[j])
      /\ lists' = [lists EXCEPT ![h] = (s \o t) \o p]
  BY DEF ListBulkMoveTail
<1>2. l \in Seq(Entry) /\ memory \in Memories
  BY DEF RingsInv
<1>3. /\ s \in Seq(Entry) /\ p \in Seq(Entry) /\ t \in Seq(Entry) /\ l = s \o (p \o t)
      /\ p # << >> /\ FirstOf(p) = l[i] /\ LastOf(p) = l[j]
  <2> HIDE DEF l
  <2>1. QED
    BY <1>1, <1>2, SplitInThree
<1>4. /\ RingsInv(Join(Join(m1, e, FirstOf(p)), LastOf(p), h), [lists EXCEPT ![h] = (s \o t) \o p])
      /\ memory.prev[FirstOf(p)] = LastOf(d) /\ memory.next[LastOf(p)] = FirstOf(d)
      /\ LastOf(p) # LastOf(d)
      /\ {h, e, FirstOf(p), LastOf(p), FirstOf(d), LastOf(d)} \subseteq ListHead
  <2>1. lists[h] = s \o (p \o t)
    BY <1>3
  <2> HIDE DEF s, p, t
  <2>2. CanMoveToTail(memory, lists, h, s, p, t)
    BY <1>3, <2>1, MovedToTail
  <2>3. QED
    BY <2>2 DEF CanMoveToTail
<1>5. BulkMoveTail(memory, h, FirstOf(p), LastOf(p)) = Join(Join(m1, e, FirstOf(p)), LastOf(p), h)
  <2> HIDE DEF d, p
  <2>1. QED
    BY <1>2, <1>4, BulkChain
<1>6. QED
  BY <1>1, <1>3, <1>4, <1>5

(* Lists in which entries are renamed, one by one.                         *)
Mapped(f, s) == [i \in DOMAIN s |-> f[s[i]]]

LEMMA MappedIs ==
  ASSUME NEW f \in [Entry -> Entry], NEW s \in Seq(Entry)
  PROVE  /\ Mapped(f, s) \in Seq(Entry) /\ Len(Mapped(f, s)) = Len(s)
         /\ \A i \in 1 .. Len(s) : Mapped(f, s)[i] = f[s[i]]
         /\ Mapped(f, s) = << >> <=> s = << >>
         /\ s # << >> => LastOf(Mapped(f, s)) = f[LastOf(s)]
<1> DEFINE u == Mapped(f, s)
<1>1. DOMAIN s = 1 .. Len(s) /\ Len(s) \in Nat /\ \A i \in 1 .. Len(s) : s[i] \in Entry
  BY LenProperties, ElementOfSeq
<1>2. u = [i \in 1 .. Len(s) |-> f[s[i]]] /\ \A i \in 1 .. Len(s) : f[s[i]] \in Entry
  BY <1>1 DEF Mapped
<1>3. u \in [1 .. Len(s) -> Entry]
  BY <1>2
<1>4. u \in Seq(Entry)
  BY <1>1, <1>3, SeqDef
<1>5. Len(u) = Len(s)
  <2>1. DOMAIN u = 1 .. Len(s) /\ DOMAIN u = 1 .. Len(u) /\ Len(u) \in Nat
    BY <1>3, <1>4, LenProperties
  <2>2. QED
    BY <1>1, <2>1
<1>6. \A i \in 1 .. Len(s) : u[i] = f[s[i]]
  BY <1>2
<1> HIDE DEF u
<1>7. u = << >> <=> s = << >>
  BY <1>4, <1>5, EmptySeq
<1>8. s # << >> => LastOf(u) = f[LastOf(s)]
  <2>1. s # << >> => Len(s) \in 1 .. Len(s)
    BY <1>1, EmptySeq
  <2>2. QED
    BY <1>5, <1>6, <2>1 DEF LastOf
<1>9. QED
  BY <1>4, <1>5, <1>6, <1>7, <1>8 DEF u

LEMMA MappedAlike ==
  ASSUME NEW f \in [Entry -> Entry], NEW g \in [Entry -> Entry], NEW s \in Seq(Entry),
         \A z \in Range(s) : f[z] = g[z]
  PROVE  Mapped(f, s) = Mapped(g, s)
<1>1. \A i \in DOMAIN s : f[s[i]] = g[s[i]]
  BY DEF Range
<1>2. QED
  BY <1>1 DEF Mapped

LEMMA MappedToItself ==
  ASSUME NEW f \in [Entry -> Entry], NEW s \in Seq(Entry), \A z \in Range(s) : f[z] = z
  PROVE  Mapped(f, s) = s
<1>1. \A i \in 1 .. Len(s) : s[i] \in Range(s)
  BY LenProperties DEF Range
<1>2. /\ Mapped(f, s) \in Seq(Entry) /\ Len(Mapped(f, s)) = Len(s)
      /\ \A i \in 1 .. Len(s) : Mapped(f, s)[i] = f[s[i]]
  BY MappedIs
<1>3. \A i \in 1 .. Len(s) : Mapped(f, s)[i] = s[i]
  BY <1>1, <1>2
<1>4. QED
  BY <1>2, <1>3, SeqEqual

LEMMA MappedCat ==
  ASSUME NEW f \in [Entry -> Entry], NEW s \in Seq(Entry), NEW t \in Seq(Entry)
  PROVE  Mapped(f, s \o t) = Mapped(f, s) \o Mapped(f, t)
<1> DEFINE n == Len(s)
           k == Len(t)
           a == Mapped(f, s)
           b == Mapped(f, t)
           u == s \o t
<1>1. /\ u \in Seq(Entry) /\ Len(u) = n + k /\ n \in Nat /\ k \in Nat
      /\ \A i \in 1 .. n + k : u[i] = IF i <= n THEN s[i] ELSE t[i - n]
  BY ConcatProperties, LenProperties
<1>2. /\ a \in Seq(Entry) /\ Len(a) = n /\ \A i \in 1 .. n : a[i] = f[s[i]]
  BY MappedIs
<1>3. /\ b \in Seq(Entry) /\ Len(b) = k /\ \A i \in 1 .. k : b[i] = f[t[i]]
  BY MappedIs
<1> HIDE DEF a, b, u, n, k
<1>4. /\ Mapped(f, u) \in Seq(Entry) /\ Len(Mapped(f, u)) = n + k
      /\ \A i \in 1 .. n + k : Mapped(f, u)[i] = f[u[i]]
  <2>1. /\ Mapped(f, u) \in Seq(Entry) /\ Len(Mapped(f, u)) = Len(u)
        /\ \A i \in 1 .. Len(u) : Mapped(f, u)[i] = f[u[i]]
    BY <1>1, MappedIs
  <2>2. QED
    BY <1>1, <2>1
<1>5. /\ a \o b \in Seq(Entry) /\ Len(a \o b) = n + k
      /\ \A i \in 1 .. n + k : (a \o b)[i] = IF i <= n THEN a[i] ELSE b[i - n]
  <2>1. /\ a \o b \in Seq(Entry) /\ Len(a \o b) = Len(a) + Len(b)
        /\ \A i \in 1 .. Len(a) + Len(b) : (a \o b)[i] = IF i <= Len(a) THEN a[i] ELSE b[i - Len(a)]
    BY <1>2, <1>3, ConcatProperties
  <2>2. QED
    BY <1>2, <1>3, <2>1
<1>6. \A i \in 1 .. n + k : Mapped(f, u)[i] = (a \o b)[i]
  <2> TAKE i \in 1 .. n + k
  <2>1. CASE i <= n
    <3>1. i \in 1 .. n /\ u[i] = s[i] /\ (a \o b)[i] = a[i]
      BY <1>1, <1>5, <2>1
    <3>2. a[i] = f[s[i]]
      BY <1>2, <3>1
    <3>3. QED
      BY <1>4, <3>1, <3>2
  <2>2. CASE ~(i <= n)
    <3>1. i - n \in 1 .. k /\ u[i] = t[i - n] /\ (a \o b)[i] = b[i - n]
      BY <1>1, <1>5, <2>2
    <3>2. b[i - n] = f[t[i - n]]
      BY <1>3, <3>1
    <3>3. QED
      BY <1>4, <3>1, <3>2
  <2>3. QED
    BY <2>1, <2>2
<1>7. Mapped(f, u) = a \o b
  BY <1>4, <1>5, <1>6, SeqEqual
<1>8. QED
  BY <1>7 DEF a, b, u

LEMMA MappedWith ==
  ASSUME NEW f \in [Entry -> Entry], NEW s \in Seq(Entry), NEW x \in Entry, NEW t \in Seq(Entry)
  PROVE  Mapped(f, With(s, x, t)) = With(Mapped(f, s), f[x], Mapped(f, t))
<1> DEFINE o == <<x>>
           v == <<f[x]>>
           u == o \o t
<1>1. Mapped(f, o) = v
  <2>1. DOMAIN o = {1} /\ o[1] = x
    OBVIOUS
  <2>2. Mapped(f, o) = [i \in {1} |-> f[x]]
    BY <2>1 DEF Mapped
  <2>3. v = [i \in {1} |-> f[x]]
    OBVIOUS
  <2>4. QED
    BY <2>2, <2>3
<1>2. o \in Seq(Entry) /\ u \in Seq(Entry)
  BY OneIs, ListWithEntry
<1> HIDE DEF o, v
<1>3. Mapped(f, u) = v \o Mapped(f, t)
  BY <1>1, <1>2, MappedCat
<1> HIDE DEF u
<1>4. Mapped(f, s \o u) = Mapped(f, s) \o Mapped(f, u)
  BY <1>2, MappedCat
<1>5. QED
  BY <1>3, <1>4 DEF u, v, o, With

InPlaceOf(x, y) == [z \in Entry |-> IF z = x THEN y ELSE z]

(* list_replace, by what becomes of every list.                            *)
LEMMA ReplacedEverywhere ==
  ASSUME NEW m, NEW L, RingsInv(m, L), NEW x \in Entry, ~InNone(L, x),
         NEW y \in Entry, InNone(L, y)
  PROVE  LET L2 == [h \in Anchor |-> Mapped(InPlaceOf(x, y), L[h])]
         IN RingsInv(Replace(m, x, y), L2) /\ InNone(L2, x)
<1> DEFINE f == InPlaceOf(x, y)
           L2 == [h \in Anchor |-> Mapped(f, L[h])]
<1>1. L \in [Anchor -> Seq(Entry)] /\ \A g, h \in Anchor : g # h => Range(L[g]) \cap Range(L[h]) = {}
  BY DEF RingsInv
<1>2. PICK h \in Anchor : x \in Range(L[h])
  BY DEF InNone
<1>3. PICK s \in Seq(Entry), t \in Seq(Entry) : L[h] = With(s, x, t)
  BY <1>1, <1>2, EntryInList
<1>4. /\ RingsInv(Replace(m, x, y), [L EXCEPT ![h] = With(s, y, t)])
      /\ InNone([L EXCEPT ![h] = With(s, y, t)], x)
  BY <1>3, EntryIsReplaced
<1>5. /\ InNone([L EXCEPT ![h] = s \o t], x) /\ Range(s \o t) = Range(s) \cup Range(t)
  BY <1>3, EntryIsUnlinked, CatIs, ZenonT(30)
<1>6. x \notin Range(s) /\ x \notin Range(t)
  BY <1>1, <1>5 DEF InNone
<1>7. f \in [Entry -> Entry] /\ f[x] = y /\ \A z \in Entry : z # x => f[z] = z
  BY DEF InPlaceOf
<1> HIDE DEF f
<1>8. Mapped(f, L[h]) = With(s, y, t)
  <2>1. Range(s) \subseteq Entry /\ Range(t) \subseteq Entry
    BY RangeOfEntries
  <2>2. (\A z \in Range(s) : f[z] = z) /\ \A z \in Range(t) : f[z] = z
    BY <1>6, <1>7, <2>1
  <2>3. Mapped(f, s) = s /\ Mapped(f, t) = t
    BY <1>7, <2>2, MappedToItself
  <2>4. Mapped(f, With(s, x, t)) = With(Mapped(f, s), f[x], Mapped(f, t))
    BY <1>7, MappedWith
  <2>5. QED
    BY <1>3, <1>7, <2>3, <2>4
<1>9. ASSUME NEW g \in Anchor, g # h PROVE Mapped(f, L[g]) = L[g]
  <2>1. L[g] \in Seq(Entry) /\ x \notin Range(L[g])
    BY <1>1, <1>2, <1>9
  <2>2. Range(L[g]) \subseteq Entry
    BY <2>1, RangeOfEntries
  <2>3. \A z \in Range(L[g]) : f[z] = z
    BY <1>7, <2>1, <2>2
  <2>4. QED
    BY <1>7, <2>1, <2>3, MappedToItself
<1>10. L2 = [L EXCEPT ![h] = With(s, y, t)]
  BY <1>1, <1>8, <1>9
<1>11. QED
  BY <1>4, <1>10 DEF f

LEMMA SwapKept ==
  ASSUME RingsInv(memory, lists), NEW x \in Entry, NEW y \in Entry, ListSwap(x, y)
  PROVE  RingsInv(memory', lists')
<1> DEFINE f == InPlaceOf(x, y)
           both == [z \in Entry |-> CASE z = x -> y [] z = y -> x [] OTHER -> z]
           m0 == Unlink(memory, y)
           m1 == SetPrev(SetNext(m0, y, Nowhere), y, Nowhere)
           m2 == Replace(m1, x, y)
<1>1. /\ x \in Linked /\ y \in Linked /\ y # x
      /\ memory' = Add(m2, x, IF memory.prev[y] = x THEN y ELSE memory.prev[y])
      /\ lists' = [h \in Anchor |-> [i \in DOMAIN lists[h] |->
           CASE lists[h][i] = x -> y [] lists[h][i] = y -> x [] OTHER -> lists[h][i]]]
  BY DEF ListSwap, Swap, Del
<1>2. lists \in [Anchor -> Seq(Entry)] /\ \A g, h \in Anchor : g # h => Range(lists[g]) \cap Range(lists[h]) = {}
  BY DEF RingsInv
<1>3. /\ both \in [Entry -> Entry] /\ f \in [Entry -> Entry]
      /\ both[y] = x /\ f[x] = y
      /\ \A z \in Entry : z # x => f[z] = z
      /\ \A z \in Entry : z # y => both[z] = f[z]
  BY <1>1 DEF InPlaceOf
<1>4. lists' = [h \in Anchor |-> Mapped(both, lists[h])]
  <2>1. ASSUME NEW h \in Anchor
        PROVE  [i \in DOMAIN lists[h] |->
                  CASE lists[h][i] = x -> y [] lists[h][i] = y -> x [] OTHER -> lists[h][i]]
               = Mapped(both, lists[h])
    <3>1. \A i \in DOMAIN lists[h] : lists[h][i] \in Entry
      BY <1>2, ElementOfSeq, LenProperties
    <3>2. QED
      BY <3>1 DEF Mapped
  <2>2. QED
    BY <1>1, <2>1
<1> HIDE DEF both, f
<1>5. PICK h \in Anchor : y \in Range(lists[h])
  BY <1>1 DEF Linked
<1>6. PICK s \in Seq(Entry), t \in Seq(Entry) : lists[h] = With(s, y, t)
  BY <1>2, <1>5, EntryInList
<1> DEFINE L1 == [lists EXCEPT ![h] = s \o t]
           L2 == [g \in Anchor |-> Mapped(f, L1[g])]
           a == Mapped(f, s)
           b == Mapped(f, t)
<1>7. RingsInv(m0, L1) /\ InNone(L1, y)
  BY <1>6, EntryIsUnlinked
<1>8. RingsInv(m1, L1)
  <2>1. Nowhere \in Target
    BY DEF Target
  <2> HIDE DEF m0, L1
  <2>2. QED
    BY <1>7, <2>1, FreeEntryIsInit
<1>9. /\ s \o t \in Seq(Entry) /\ Range(s \o t) = Range(s) \cup Range(t)
      /\ L1[h] = s \o t /\ \A g \in Anchor \ {h} : L1[g] = lists[g]
  BY <1>2, CatIs
<1>10. y \notin Range(s) /\ y \notin Range(t)
  BY <1>7, <1>9 DEF InNone
<1>11. ~InNone(L1, x)
  <2>1. PICK g \in Anchor : x \in Range(lists[g])
    BY <1>1 DEF Linked
  <2>2. CASE g = h
    <3>1. Range(lists[h]) = {y} \cup Range(s \o t)
      BY <1>6, ListWithEntry
    <3>2. x \in Range(L1[h])
      BY <1>1, <1>9, <2>1, <2>2, <3>1
    <3>3. QED
      BY <3>2 DEF InNone
  <2>3. CASE g # h
    <3>1. x \in Range(L1[g])
      BY <1>9, <2>1, <2>3
    <3>2. QED
      BY <3>1 DEF InNone
  <2>4. QED
    BY <2>2, <2>3
<1>12. RingsInv(m2, L2) /\ InNone(L2, x)
  <2> HIDE DEF m1, L1
  <2>1. QED
    BY <1>7, <1>8, <1>11, ReplacedEverywhere DEF f
<1>13. L2[h] = a \o b /\ a \in Seq(Entry) /\ b \in Seq(Entry)
  <2>1. Mapped(f, s \o t) = a \o b
    BY <1>3, MappedCat
  <2>2. a \in Seq(Entry) /\ b \in Seq(Entry)
    BY <1>3, MappedIs
  <2>3. L2[h] = Mapped(f, L1[h])
    OBVIOUS
  <2> HIDE DEF L1, L2, a, b
  <2>4. QED
    BY <1>9, <2>1, <2>2, <2>3
<1> DEFINE p == LastOf(Rest(h, a, b))
           q == FirstOf(Rest(h, a, b))
           L3 == [L2 EXCEPT ![h] = With(a, x, b)]
<1>14. RingsInv(AddBetween(m2, x, p, q), L3) /\ Link(m2, p, q)
  <2> HIDE DEF L2, m2, a, b
  <2>1. QED
    BY <1>12, <1>13, EntryIsAdded
<1>15. AddBetween(m2, x, p, q) = Add(m2, x, p)
  BY <1>14 DEF Add, Link, NextOf
<1>16. p = IF memory.prev[y] = x THEN y ELSE memory.prev[y]
  <2>1. memory.prev[y] = IF s = << >> THEN h ELSE LastOf(s)
    BY <1>6, EntryBefore
  <2>2. p = IF a = << >> THEN h ELSE LastOf(a)
    <3> HIDE DEF a, b
    <3>1. QED
      BY <1>13, EndsOfRest
  <2>3. /\ a = << >> <=> s = << >>
        /\ s # << >> => LastOf(a) = f[LastOf(s)]
    BY <1>3, MappedIs
  <2>4. s # << >> => LastOf(s) \in Entry
    <3>1. s # << >> => Len(s) \in 1 .. Len(s)
      BY LenProperties, EmptySeq
    <3>2. QED
      BY <3>1, ElementOfSeq DEF LastOf
  <2>5. h # x
    BY ListOpsAssumption
  <2> HIDE DEF a, p
  <2>6. CASE s = << >>
    BY <2>1, <2>2, <2>3, <2>5, <2>6
  <2>7. CASE s # << >>
    <3>1. p = f[LastOf(s)] /\ memory.prev[y] = LastOf(s) /\ LastOf(s) \in Entry
      BY <2>1, <2>2, <2>3, <2>4, <2>7
    <3>2. QED
      BY <1>3, <3>1
  <2>8. QED
    BY <2>6, <2>7
<1>17. L3 = [g \in Anchor |-> Mapped(both, lists[g])]
  <2>1. Range(s) \subseteq Entry /\ Range(t) \subseteq Entry
    BY RangeOfEntries
  <2>2. (\A z \in Range(s) : both[z] = f[z]) /\ \A z \in Range(t) : both[z] = f[z]
    BY <1>3, <1>10, <2>1
  <2>3. Mapped(both, s) = a /\ Mapped(both, t) = b
    BY <1>3, <2>2, MappedAlike
  <2>4. Mapped(both, With(s, y, t)) = With(Mapped(both, s), both[y], Mapped(both, t))
    BY <1>3, MappedWith
  <2>5. Mapped(both, lists[h]) = With(a, x, b)
    <3> HIDE DEF a, b
    <3>1. QED
      BY <1>3, <1>6, <2>3, <2>4
  <2>6. ASSUME NEW g \in Anchor, g # h PROVE L2[g] = Mapped(both, lists[g])
    <3>1. lists[g] \in Seq(Entry) /\ y \notin Range(lists[g]) /\ L1[g] = lists[g]
      BY <1>2, <1>5, <1>9, <2>6
    <3>2. Range(lists[g]) \subseteq Entry
      BY <3>1, RangeOfEntries
    <3>3. \A z \in Range(lists[g]) : both[z] = f[z]
      BY <1>3, <3>1, <3>2
    <3>4. Mapped(both, lists[g]) = Mapped(f, lists[g])
      BY <1>3, <3>1, <3>3, MappedAlike
    <3>5. L2[g] = Mapped(f, L1[g])
      OBVIOUS
    <3>6. QED
      BY <3>1, <3>4, <3>5
  <2>7. DOMAIN L2 = Anchor
    OBVIOUS
  <2> HIDE DEF L2, a, b
  <2>8. L3 = [g \in Anchor |-> IF g = h THEN With(a, x, b) ELSE L2[g]]
    BY <2>7
  <2>9. QED
    BY <2>5, <2>6, <2>8
<1>18. QED
  <2>1. memory' = AddBetween(m2, x, p, q)
    BY <1>1, <1>15, <1>16
  <2>2. lists' = L3
    BY <1>4, <1>17
  <2>3. QED
    BY <1>14, <2>1, <2>2

LEMMA RingsAtStart == ListsInit => RingsInv(memory, lists)
<1> SUFFICES ASSUME ListsInit PROVE RingsInv(memory, lists)
  OBVIOUS
<1> DEFINE e == << >>
           n == [x \in ListHead |-> IF x \in Anchor THEN x ELSE Nowhere]
<1>1. lists = [h \in Anchor |-> e] /\ memory = [next |-> n, prev |-> n]
  BY DEF ListsInit
<1>2. e \in Seq(Entry) /\ Range(e) = {}
  BY DEF Range
<1>3. n \in [ListHead -> Target] /\ \A h \in Anchor : n[h] = h /\ h \in ListHead
  BY DEF ListHead, Target
<1> HIDE DEF n
<1>4. memory \in Memories /\ memory.next = n /\ memory.prev = n
  BY <1>1, <1>3 DEF Memories
<1>5. ASSUME NEW h \in Anchor PROVE Ring(memory, <<h>> \o e)
  <2> DEFINE o == <<h>>
  <2>1. /\ o \in Seq(ListHead) /\ o # << >> /\ FirstOf(o) = h /\ LastOf(o) = h
        /\ IsInjective(o) /\ Segment(memory, o)
    BY <1>3, OneIs
  <2>2. Link(memory, h, h)
    BY <1>3, <1>4 DEF Link, NextOf, PrevOf
  <2>3. o \o e = o
    BY <2>1, ConcatEmptySeq
  <2> HIDE DEF o
  <2>4. Ring(memory, o)
    BY <2>1, <2>2 DEF Ring
  <2>5. QED
    BY <2>3, <2>4 DEF o
<1> HIDE DEF e
<1>6. \A h \in Anchor : lists[h] = e
  BY <1>1
<1>7. lists \in [Anchor -> Seq(Entry)]
  BY <1>1, <1>2
<1>8. \A g, h \in Anchor : g # h => Range(lists[g]) \cap Range(lists[h]) = {}
  BY <1>2, <1>6
<1>9. \A h \in Anchor : Ring(memory, <<h>> \o lists[h])
  BY <1>5, <1>6
<1>10. QED
  BY <1>4, <1>7, <1>8, <1>9 DEF RingsInv

LEMMA RingsKept == RingsInv(memory, lists) /\ [ListsNext]_listVars => RingsInv(memory', lists')
<1> SUFFICES ASSUME RingsInv(memory, lists), [ListsNext]_listVars PROVE RingsInv(memory', lists')
  OBVIOUS
<1>1. CASE UNCHANGED listVars
  BY <1>1 DEF listVars
<1>2. ASSUME NEW h \in Anchor, NEW x \in Entry,
             ListAddFirst(x, h) \/ ListAddLast(x, h) \/ ListDelete(x) \/ ListMove(x, h)
      PROVE  RingsInv(memory', lists')
  BY <1>2, AddFirstKept, AddLastKept, DeleteKept, MoveKept
<1>3. ASSUME NEW x \in Entry, NEW y \in Entry, ListReplace(x, y) \/ ListSwap(x, y)
      PROVE  RingsInv(memory', lists')
  BY <1>3, ReplaceKept, SwapKept
<1>4. ASSUME NEW h \in Anchor, NEW i, NEW j, ListBulkMoveTail(h, i, j)
      PROVE  RingsInv(memory', lists')
  BY <1>4, BulkMoveTailKept
<1>5. ASSUME NEW h \in Anchor, ListRotateLeft(h)
      PROVE  RingsInv(memory', lists')
  BY <1>5, RotateLeftKept
<1>6. ASSUME NEW h \in Anchor, NEW i, ListRotateToFront(h, i)
      PROVE  RingsInv(memory', lists')
  BY <1>6, RotateToFrontKept
<1>7. ASSUME NEW h \in Anchor, NEW i \in 0 .. Len(lists[h]) + 1, NEW g \in Anchor,
             ListCutPosition(g, h, i) \/ ListCutBefore(g, h, i)
      PROVE  RingsInv(memory', lists')
  <2>1. lists[h] \in Seq(Entry)
    BY DEF RingsInv
  <2>2. i \in Nat
    BY <2>1, LenProperties
  <2>3. QED
    BY <1>7, <2>2, CutPositionKept, CutBeforeKept
<1>8. ASSUME NEW h \in Anchor, NEW g \in Anchor, ListSplice(g, h)
      PROVE  RingsInv(memory', lists')
  BY <1>8, SpliceKept
<1>9. QED
  BY <1>1, <1>2, <1>3, <1>4, <1>5, <1>6, <1>7, <1>8 DEF ListsNext

LEMMA RingsAreRead ==
  ASSUME RingsInv(memory, lists)
  PROVE  RingsAreLists
<1> SUFFICES ASSUME NEW h \in Anchor
             PROVE  LET ring == <<h>> \o lists[h] \o <<h>>
                        n == Len(lists[h])
                    IN /\ \A i \in 1 .. n + 1 : /\ memory.next[ring[i]] = ring[i + 1]
                                                /\ memory.prev[ring[i + 1]] = ring[i]
                       /\ IsEmpty(memory, h) <=> n = 0
                       /\ IsSingular(memory, h) <=> n = 1
                       /\ \A i \in 1 .. n : /\ IsFirst(memory, lists[h][i], h) <=> i = 1
                                            /\ IsLast(memory, lists[h][i], h) <=> i = n
  BY DEF RingsAreLists
<1> DEFINE l == lists[h]
           n == Len(l)
           o == <<h>>
           c == o \o l
           ring == c \o o
<1>1. /\ l \in Seq(ListHead) /\ o \in Seq(ListHead) /\ h \in ListHead /\ n \in Nat /\ Ring(memory, c)
      /\ Len(o) = 1 /\ o[1] = h
  BY HeadAndList, LenProperties DEF RingsInv, ListHead
<1>2. /\ c \in Seq(ListHead) /\ Len(c) = n + 1
      /\ \A i \in 1 .. n + 1 : c[i] = IF i = 1 THEN h ELSE l[i - 1]
  <2> HIDE DEF l, n
  <2>1. /\ c \in Seq(ListHead) /\ Len(c) = Len(o) + Len(l)
        /\ \A i \in 1 .. Len(o) + Len(l) : c[i] = IF i <= Len(o) THEN o[i] ELSE l[i - Len(o)]
    BY <1>1, ConcatProperties
  <2>2. Len(l) = n
    BY DEF n
  <2> HIDE DEF c, o
  <2>3. Len(c) = n + 1
    BY <1>1, <2>1, <2>2
  <2>4. ASSUME NEW i \in 1 .. n + 1 PROVE c[i] = IF i = 1 THEN h ELSE l[i - 1]
    <3>1. i \in 1 .. Len(o) + Len(l) /\ (i <= Len(o) <=> i = 1)
      BY <1>1, <2>2
    <3>2. QED
      BY <1>1, <2>1, <3>1
  <2>5. QED
    BY <2>1, <2>3, <2>4
<1> HIDE DEF c, l
<1>3. \A i \in 1 .. n + 2 : ring[i] = IF i <= n + 1 THEN c[i] ELSE h
  <2> TAKE i \in 1 .. n + 2
  <2>1. \A j \in 1 .. Len(c) + Len(o) : ring[j] = IF j <= Len(c) THEN c[j] ELSE o[j - Len(c)]
    BY <1>1, <1>2, ConcatProperties
  <2> HIDE DEF ring, o, n
  <2>2. i \in 1 .. Len(c) + Len(o) /\ (i <= Len(c) <=> i <= n + 1) /\ (~(i <= n + 1) => i - Len(c) = 1)
    BY <1>1, <1>2
  <2>3. QED
    BY <1>1, <2>1, <2>2
<1> HIDE DEF ring, n
<1>4. /\ \A i \in 1 .. n : Link(memory, c[i], c[i + 1])
      /\ Link(memory, c[n + 1], c[1])
      /\ \A i, j \in 1 .. n + 1 : c[i] = c[j] => i = j
  <2>1. DOMAIN c = 1 .. n + 1 /\ Len(c) - 1 = n
    BY <1>1, <1>2, LenProperties
  <2>2. QED
    BY <1>1, <1>2, <2>1 DEF Ring, Segment, LastOf, FirstOf, IsInjective
<1>5. c[1] = h
  BY <1>1, <1>2
<1>6. \A i \in 1 .. n + 1 : Link(memory, ring[i], ring[i + 1])
  <2> TAKE i \in 1 .. n + 1
  <2>1. i \in 1 .. n + 2 /\ i + 1 \in 1 .. n + 2 /\ i <= n + 1
    BY <1>1
  <2>2. ring[i] = c[i]
    BY <1>3, <2>1
  <2>3. CASE i = n + 1
    <3>1. ring[i + 1] = h
      BY <1>1, <1>3, <2>1, <2>3
    <3>2. QED
      BY <1>4, <1>5, <2>2, <2>3, <3>1
  <2>4. CASE i # n + 1
    <3>1. i \in 1 .. n /\ i + 1 <= n + 1
      BY <1>1, <2>4
    <3>2. ring[i + 1] = c[i + 1]
      BY <1>3, <2>1, <3>1
    <3>3. QED
      BY <1>4, <2>2, <3>1, <3>2
  <2>5. QED
    BY <2>3, <2>4
<1> DEFINE Next(i) == IF i = n + 1 THEN 1 ELSE i + 1
<1>7. \A i \in 1 .. n + 1 : Next(i) \in 1 .. n + 1 /\ memory.next[c[i]] = c[Next(i)]
  <2> TAKE i \in 1 .. n + 1
  <2>1. CASE i = n + 1
    BY <1>1, <1>4, <2>1 DEF Link, NextOf
  <2>2. CASE i # n + 1
    <3>1. i \in 1 .. n /\ i + 1 \in 1 .. n + 1
      BY <1>1, <2>2
    <3>2. QED
      BY <1>4, <2>2, <3>1 DEF Link, NextOf
  <2>3. QED
    BY <2>1, <2>2
<1> DEFINE Prev(i) == IF i = 1 THEN n + 1 ELSE i - 1
<1>8. \A i \in 1 .. n + 1 : Prev(i) \in 1 .. n + 1 /\ memory.prev[c[i]] = c[Prev(i)]
  <2> TAKE i \in 1 .. n + 1
  <2>1. CASE i = 1
    BY <1>1, <1>4, <2>1 DEF Link, PrevOf
  <2>2. CASE i # 1
    <3>1. i - 1 \in 1 .. n /\ (i - 1) + 1 = i /\ i - 1 \in 1 .. n + 1
      BY <1>1, <2>2
    <3>2. Link(memory, c[i - 1], c[(i - 1) + 1])
      BY <1>4, <3>1
    <3>3. QED
      BY <2>2, <3>1, <3>2 DEF Link, PrevOf
  <2>3. QED
    BY <2>1, <2>2
<1>9. IsEmpty(memory, h) <=> n = 0
  <2>1. 1 \in 1 .. n + 1
    BY <1>1
  <2>2. memory.next[h] = h <=> Next(1) = 1
    BY <1>4, <1>5, <1>7, <2>1
  <2>3. Next(1) = 1 <=> n = 0
    BY <1>1
  <2>4. QED
    BY <2>2, <2>3 DEF IsEmpty
<1>10. IsSingular(memory, h) <=> n = 1
  <2>1. 1 \in 1 .. n + 1
    BY <1>1
  <2>2. memory.next[h] = memory.prev[h] <=> Next(1) = Prev(1)
    BY <1>4, <1>5, <1>7, <1>8, <2>1
  <2>3. n # 0 => (Next(1) = Prev(1) <=> n = 1)
    BY <1>1
  <2>4. QED
    BY <1>9, <2>2, <2>3 DEF IsSingular
<1>11. ASSUME NEW i \in 1 .. n
       PROVE  /\ IsFirst(memory, l[i], h) <=> i = 1
              /\ IsLast(memory, l[i], h) <=> i = n
  <2>1. i + 1 \in 1 .. n + 1 /\ 1 \in 1 .. n + 1 /\ c[i + 1] = l[(i + 1) - 1] /\ (i + 1) - 1 = i
    BY <1>1, <1>2
  <2>2. c[i + 1] = l[i]
    BY <2>1
  <2>3. memory.prev[l[i]] = h <=> Prev(i + 1) = 1
    BY <1>4, <1>5, <1>8, <2>1, <2>2
  <2>4. memory.next[l[i]] = h <=> Next(i + 1) = 1
    BY <1>4, <1>5, <1>7, <2>1, <2>2
  <2>5. (Prev(i + 1) = 1 <=> i = 1) /\ (Next(i + 1) = 1 <=> i = n)
    BY <1>1
  <2>6. QED
    BY <2>3, <2>4, <2>5 DEF IsFirst, IsLast
<1>12. QED
  BY <1>6, <1>9, <1>10, <1>11 DEF Link, NextOf, PrevOf, ring, c, o, l, n

\* After any sequence of legal calls of linked_list.h, on any number of lists
\* and entries, every ring of pointers is, in both directions, the list that
\* the calls promise, and the predicates on lists tell its length and ends.
THEOREM EveryRingIsItsList == ListsSpec => []RingsAreLists
<1> DEFINE Inv == RingsInv(memory, lists)
<1>1. ListsInit => Inv
  BY RingsAtStart
<1>2. Inv /\ [ListsNext]_listVars => Inv'
  BY RingsKept
<1>3. Inv => RingsAreLists
  BY RingsAreRead
<1>4. QED
  BY <1>1, <1>2, <1>3, PTL DEF ListsSpec

(***************************************************************************)
(* The run-length encoder and decoder.                                     *)
(***************************************************************************)

(* What has been read of a file: l, of which p characters are dealt with,  *)
(* and u is what follows it, up to the end of the file.                    *)
ReadOf(source, u, l, p) ==
  /\ source \in Seq(Int) /\ u \in Seq(Int) /\ l \in Seq(Int)
  /\ Len(u) + Len(l) <= Len(source)
  /\ \A i \in 1 .. Len(u) : u[i] = source[(Len(source) - Len(u)) + i]
  /\ \A i \in 1 .. Len(l) : l[i] = source[(Len(source) - Len(u) - Len(l)) + i]
  /\ p \in 0 .. Len(l)

LEMMA SeqOfInts ==
  ASSUME NEW s \in Seq(Int \ {Nul})
  PROVE  s \in Seq(Int)
<1>1. Len(s) \in Nat /\ s \in [1 .. Len(s) -> Int \ {Nul}]
  BY LenProperties
<1>2. s \in [1 .. Len(s) -> Int]
  BY <1>1
<1>3. QED
  BY <1>1, <1>2, SeqDef

(* fgets returns what comes up to the first end of line, of the buffer or  *)
(* of the input.                                                           *)
LEMMA GetsIs ==
  ASSUME NEW u \in Seq(Int), u # << >>
  PROVE  \E n \in 1 .. Len(u) :
           /\ Gets(u) = SubSeq(u, 1, n) /\ Len(Gets(u)) = n
           /\ n = Len(u) \/ n = BufferSize - 1 \/ u[n] = NewLine
           /\ \A i \in 1 .. n - 1 : u[i] # NewLine
<1> DEFINE T == {BufferSize - 1, Len(u)} \cup {i \in 1 .. Len(u) : u[i] = NewLine}
<1>1. Len(u) \in Nat \ {0} /\ BufferSize - 1 \in Nat \ {0}
  BY RunLengthAssumption, EmptySeq, LenProperties
<1>2. T \subseteq Nat /\ T # {} /\ \A i \in T : i # 0
  <2>1. Len(u) \in T
    OBVIOUS
  <2>2. \A i \in T : i \in Nat /\ i # 0
    <3>1. \A i \in T : i = BufferSize - 1 \/ i = Len(u) \/ i \in 1 .. Len(u)
      OBVIOUS
    <3>2. \A i \in 1 .. Len(u) : i \in Nat /\ i # 0
      BY <1>1
    <3>3. BufferSize - 1 \in Nat /\ BufferSize - 1 # 0 /\ Len(u) \in Nat /\ Len(u) # 0
      BY <1>1
    <3> HIDE DEF T
    <3>4. QED
      BY <3>1, <3>2, <3>3, Zenon
  <2> HIDE DEF T
  <2>3. QED
    BY <2>1, <2>2
<1>3. PICK n \in T : \A i \in T : n <= i
  BY <1>2, Least
<1>4. Min(T) = n
  <2> HIDE DEF T
  <2>1. Min(T) \in T /\ \A i \in T : Min(T) <= i
    BY <1>3 DEF Min
  <2>2. Min(T) \in Nat /\ n \in Nat /\ Min(T) <= n /\ n <= Min(T)
    BY <1>2, <1>3, <2>1
  <2>3. QED
    BY <2>2
<1>5. n \in 1 .. Len(u) /\ (n = Len(u) \/ n = BufferSize - 1 \/ u[n] = NewLine)
  BY <1>1, <1>2, <1>3
<1>6. \A i \in 1 .. n - 1 : u[i] # NewLine
  BY <1>1, <1>3, <1>5
<1>7. Gets(u) = SubSeq(u, 1, n)
  BY <1>4 DEF Gets
<1>8. Len(SubSeq(u, 1, n)) = n
  BY <1>1, <1>5, SubSeqProperties
<1>9. QED
  BY <1>5, <1>6, <1>7, <1>8

(* What fgets leaves is a part of the file again.                          *)
LEMMA PieceIsRead ==
  ASSUME NEW source, NEW u, ReadOf(source, u, << >>, 0), NEW n \in 1 .. Len(u)
  PROVE  ReadOf(source, SubSeq(u, n + 1, Len(u)), SubSeq(u, 1, n), 0)
<1> DEFINE L == Len(u)
           v == SubSeq(u, n + 1, L)
           l == SubSeq(u, 1, n)
           S == Len(source)
<1>1. source \in Seq(Int) /\ u \in Seq(Int) /\ L \in Nat /\ S \in Nat /\ L <= S
      /\ \A i \in 1 .. L : u[i] = source[(S - L) + i]
  BY LenProperties, Len(<<>>) = 0 DEF ReadOf
<1>2. n \in Nat /\ n <= L /\ 1 <= n
  BY <1>1
<1>3. l \in Seq(Int) /\ Len(l) = n /\ \A i \in 1 .. n : l[i] = u[i]
  <2>1. \A i \in 1 .. n : u[i] \in Int
    BY <1>1, <1>2, ElementOfSeq
  <2>2. /\ l \in Seq(Int)
        /\ Len(l) = IF 1 <= n THEN n - 1 + 1 ELSE 0
        /\ \A i \in 1 .. n - 1 + 1 : l[i] = u[1 + i - 1]
    BY <1>2, <2>1, SubSeqProperties
  <2> HIDE DEF l
  <2>3. QED
    BY <1>2, <2>2
<1>4. v \in Seq(Int) /\ Len(v) = L - n /\ \A i \in 1 .. L - n : v[i] = u[n + i]
  <2>1. \A i \in n + 1 .. L : u[i] \in Int
    BY <1>1, <1>2, ElementOfSeq
  <2>2. /\ v \in Seq(Int)
        /\ Len(v) = IF n + 1 <= L THEN L - (n + 1) + 1 ELSE 0
        /\ \A i \in 1 .. L - (n + 1) + 1 : v[i] = u[n + 1 + i - 1]
    BY <1>1, <1>2, <2>1, SubSeqProperties
  <2> HIDE DEF v
  <2>3. \A i \in 1 .. L - n : i \in 1 .. L - (n + 1) + 1 /\ n + 1 + i - 1 = n + i
    BY <1>1, <1>2
  <2>4. Len(v) = L - n
    BY <1>1, <1>2, <2>2
  <2>5. QED
    BY <2>2, <2>3, <2>4
<1> HIDE DEF v, l, L, S
<1>5. /\ Len(v) + Len(l) <= S
      /\ \A i \in 1 .. Len(v) : v[i] = source[(S - Len(v)) + i]
      /\ \A i \in 1 .. Len(l) : l[i] = source[(S - Len(v) - Len(l)) + i]
  <2>1. \A i \in 1 .. L - n : n + i \in 1 .. L /\ (S - L) + (n + i) = (S - (L - n)) + i
    BY <1>1, <1>2
  <2>2. \A i \in 1 .. n : i \in 1 .. L /\ (S - L) + i = (S - (L - n) - n) + i
    BY <1>1, <1>2
  <2>3. \A i \in 1 .. Len(v) : v[i] = source[(S - Len(v)) + i]
    BY <1>1, <1>4, <2>1
  <2>4. \A i \in 1 .. Len(l) : l[i] = source[(S - Len(v) - Len(l)) + i]
    BY <1>1, <1>3, <1>4, <2>2, ZenonT(30)
  <2>5. QED
    BY <1>1, <1>2, <1>3, <1>4, <2>3, <2>4
<1>6. ReadOf(source, v, l, 0)
  BY <1>1, <1>2, <1>3, <1>4, <1>5 DEF ReadOf, S
<1>7. QED
  BY <1>6 DEF v, l, L

(* c codes the first n characters of t: m pairs of a count and a           *)
(* character, of which the k-th stands for what comes up to P[k].          *)
IsCoding(m, P, c, t, n) ==
  /\ c \in Seq(Int) /\ Len(c) = 2 * m
  /\ P[0] = 0 /\ P[m] = n
  /\ \A k \in 1 .. m :
       /\ c[2 * k - 1] \in 1 .. 9
       /\ P[k] = P[k - 1] + c[2 * k - 1] /\ P[k] <= Len(t)
       /\ \A j \in P[k - 1] + 1 .. P[k] : t[j] = c[2 * k]
Codes(c, t, n) == \E m \in Nat : \E P \in [0 .. m -> Nat] : IsCoding(m, P, c, t, n)

LEMMA NothingIsCoded == \A t : Codes(<< >>, t, 0)
<1> TAKE t
<1> DEFINE P == [k \in 0 .. 0 |-> 0]
<1>1. << >> \in Seq(Int) /\ Len(<< >>) = 2 * 0 /\ P \in [0 .. 0 -> Nat] /\ P[0] = 0
  OBVIOUS
<1>2. \A k \in 1 .. 0 : FALSE
  OBVIOUS
<1> HIDE DEF P
<1>3. IsCoding(0, P, << >>, t, 0)
  BY <1>1, <1>2 DEF IsCoding
<1>4. QED
  BY <1>1, <1>3 DEF Codes

(* A pair more codes a run more.                                           *)
LEMMA RunIsCoded ==
  ASSUME NEW t \in Seq(Int), NEW c, NEW n \in Nat, Codes(c, t, n),
         NEW r \in 1 .. 9, NEW ch \in Int, n + r <= Len(t),
         \A j \in n + 1 .. n + r : t[j] = ch
  PROVE  Codes((c \o << r >>) \o << ch >>, t, n + r)
<1>0. PICK m \in Nat : \E P \in [0 .. m -> Nat] : IsCoding(m, P, c, t, n)
  BY DEF Codes
<1>1. PICK P \in [0 .. m -> Nat] : IsCoding(m, P, c, t, n)
  BY <1>0
<1> DEFINE d == (c \o << r >>) \o << ch >>
           Q == [k \in 0 .. m + 1 |-> IF k = m + 1 THEN n + r ELSE P[k]]
<1>2. c \in Seq(Int) /\ Len(c) = 2 * m /\ Len(c) \in Nat
  BY <1>1 DEF IsCoding
<1>3. /\ d \in Seq(Int) /\ Len(d) = Len(c) + 2
      /\ \A i \in 1 .. Len(c) : d[i] = c[i]
      /\ d[Len(c) + 1] = r /\ d[Len(c) + 2] = ch
  <2> DEFINE b == c \o << r >>
             x == << r >>
             z == << ch >>
  <2>1. x \in Seq(Int) /\ z \in Seq(Int) /\ Len(x) = 1 /\ Len(z) = 1 /\ x[1] = r /\ z[1] = ch
    OBVIOUS
  <2> HIDE DEF x, z
  <2>2. /\ b \in Seq(Int) /\ Len(b) = Len(c) + 1
        /\ \A i \in 1 .. Len(c) + 1 : b[i] = IF i <= Len(c) THEN c[i] ELSE x[i - Len(c)]
    BY <1>2, <2>1, ConcatProperties, ZenonT(30) DEF x
  <2> HIDE DEF b
  <2>3. /\ d \in Seq(Int) /\ Len(d) = Len(b) + 1
        /\ \A i \in 1 .. Len(b) + 1 : d[i] = IF i <= Len(b) THEN b[i] ELSE z[i - Len(b)]
    BY <2>1, <2>2, ConcatProperties DEF z, b
  <2> HIDE DEF d
  <2>4. \A i \in 1 .. Len(c) : d[i] = c[i]
    BY <1>2, <2>2, <2>3
  <2>5. d[Len(c) + 1] = r
    BY <1>2, <2>1, <2>2, <2>3
  <2>6. d[Len(c) + 2] = ch
    BY <1>2, <2>1, <2>2, <2>3
  <2>7. QED
    BY <1>2, <2>2, <2>3, <2>4, <2>5, <2>6
<1>4. Q \in [0 .. m + 1 -> Nat] /\ Q[m + 1] = n + r /\ \A k \in 0 .. m : Q[k] = P[k]
  OBVIOUS
<1>5. P[0] = 0 /\ P[m] = n
  BY <1>1 DEF IsCoding
<1> HIDE DEF d, Q
<1>6. Len(d) = 2 * (m + 1)
  BY <1>2, <1>3
<1>7. ASSUME NEW k \in 1 .. m + 1
      PROVE  /\ d[2 * k - 1] \in 1 .. 9
             /\ Q[k] = Q[k - 1] + d[2 * k - 1] /\ Q[k] <= Len(t)
             /\ \A j \in Q[k - 1] + 1 .. Q[k] : t[j] = d[2 * k]
  <2>1. CASE k = m + 1
    <3>1. Q[k - 1] = n /\ Q[k] = n + r
      BY <1>4, <1>5, <2>1
    <3>2. d[2 * k - 1] = r /\ d[2 * k] = ch
      BY <1>2, <1>3, <2>1
    <3>3. QED
      BY <3>1, <3>2
  <2>2. CASE k \in 1 .. m
    <3>1. Q[k - 1] = P[k - 1] /\ Q[k] = P[k]
      BY <1>4, <2>2
    <3>2. 2 * k - 1 \in 1 .. Len(c) /\ 2 * k \in 1 .. Len(c)
      BY <1>2, <2>2
    <3>3. d[2 * k - 1] = c[2 * k - 1] /\ d[2 * k] = c[2 * k]
      BY <1>3, <3>2
    <3>4. QED
      BY <1>1, <2>2, <3>1, <3>3 DEF IsCoding
  <2>3. QED
    BY <2>1, <2>2
<1>8. IsCoding(m + 1, Q, d, t, n + r)
  <2>1. Q[0] = 0
    BY <1>4, <1>5
  <2>2. QED
    BY <1>3, <1>4, <1>6, <1>7, <2>1 DEF IsCoding
<1>9. m + 1 \in Nat
  OBVIOUS
<1>10. Codes(d, t, n + r)
  BY <1>4, <1>8, <1>9 DEF Codes
<1>11. QED
  BY <1>10 DEF d

(* The character after which a run ends.                                   *)
LEMMA RunEndIs ==
  ASSUME line \in Seq(Int), NEW i \in 1 .. Len(line)
  PROVE  /\ RunEnd(i) \in i .. Len(line)
         /\ \A k \in i .. RunEnd(i) : line[k] = line[i]
<1> DEFINE T == {j \in i .. Len(line) : j = Len(line) \/ line[j + 1] # line[i]}
<1>1. Len(line) \in Nat /\ i \in Nat /\ i <= Len(line)
  BY LenProperties
<1>2. T \subseteq Nat /\ Len(line) \in T
  BY <1>1
<1>3. PICK j \in T : \A k \in T : j <= k
  BY <1>2, Least
<1>4. j \in i .. Len(line) /\ (j = Len(line) \/ line[j + 1] # line[i])
  BY <1>3
<1>5. ASSUME NEW k \in i .. j PROVE line[k] = line[i]
  <2>1. CASE k = i
    BY <2>1
  <2>2. CASE k # i
    <3>1. k - 1 \in i .. Len(line) /\ k - 1 < j /\ (k - 1) + 1 = k
      BY <1>1, <1>4, <2>2
    <3>2. k - 1 \in Nat /\ j \in Nat /\ ~(j <= k - 1)
      BY <1>1, <1>4, <3>1
    <3>3. k - 1 \notin T
      <4> HIDE DEF T
      <4>1. QED
        BY <1>3, <3>2
    <3>4. QED
      BY <3>1, <3>3
  <2>3. QED
    BY <2>1, <2>2
<1>6. \E e \in i .. Len(line) : /\ \A k \in i .. e : line[k] = line[i]
                                /\ e = Len(line) \/ line[e + 1] # line[i]
  BY <1>4, <1>5
<1>7. QED
  BY <1>6, Zenon DEF RunEnd

Short == \A n \in RunLengths(text) : n <= 9
LinesFit == \A n \in LineLengths(encoded) : n < BufferSize

(* What the encoder has written, and what is in its buffer, codes what it  *)
(* has dealt with.                                                         *)
EncoderInv ==
  /\ ReadOf(text, unread, line, position)
  /\ encoded \in Seq(Int) /\ buffer \in Seq(Int) /\ length = Len(buffer)
  /\ Codes(encoded \o buffer, text, Len(text) - Len(unread) - Len(line) + position)
  /\ line = << >> => buffer = << >>
  /\ decoded = << >>

(* Where the decoder is in the code.                                       *)
DecodedTo(m, P, a, e, b) ==
  /\ Len(unread) = 2 * a /\ Len(line) = 2 * e /\ position = 2 * b
  /\ IsCoding(m, P, encoded, text, Len(text))
  /\ Len(decoded) = P[m - a - e + b]
  /\ \A i \in 1 .. Len(decoded) : decoded[i] = text[i]

(* The decoder reads pairs, as a line ends with one, and what it has       *)
(* written is what they code.                                              *)
DecoderInv ==
  /\ ReadOf(encoded, unread, line, position)
  /\ text \in Seq(Int) /\ decoded \in Seq(Int)
  /\ \E m, a, e, b \in Nat : \E P \in [0 .. m -> Nat] : DecodedTo(m, P, a, e, b)

CodecInv ==
  /\ codec \in {"none", "encoder", "decoder", "done"}
  /\ codec = "none" =>
       /\ text = << >> /\ encoded = << >> /\ decoded = << >>
       /\ line = << >> /\ position = 0 /\ buffer = << >> /\ length = 0
  /\ codec = "encoder" /\ Short => EncoderInv
  /\ codec = "decoder" /\ Short /\ LinesFit => DecoderInv
  /\ RoundTrip

(* The number of characters of a file that are dealt with, as it is when   *)
(* the next piece is read.                                                 *)
LEMMA ReadOn ==
  ASSUME NEW source, ReadOf(source, unread, line, position), ReadLine
  PROVE  /\ \E n \in 1 .. Len(unread) :
              /\ Len(line') = n /\ Len(unread') = Len(unread) - n
              /\ n = Len(unread) \/ n = BufferSize - 1 \/ unread[n] = NewLine
              /\ \A i \in 1 .. n - 1 : unread[i] # NewLine
         /\ ReadOf(source, unread', line', position')
         /\ Len(source) - Len(unread') - Len(line') = Len(source) - Len(unread) - Len(line) + position
         /\ line = << >> /\ position = 0 /\ position' = 0
<1>1. line = << >> /\ Len(line) = 0 /\ position = 0
  <2>1. line = << >>
    BY DEF ReadLine
  <2>2. Len(line) = 0
    BY <2>1
  <2>3. QED
    BY <2>1, <2>2 DEF ReadOf
<1>2. unread \in Seq(Int) /\ unread # << >> /\ source \in Seq(Int)
  BY DEF ReadOf, ReadLine
<1>3. PICK n \in 1 .. Len(unread) :
        /\ Gets(unread) = SubSeq(unread, 1, n) /\ Len(Gets(unread)) = n
        /\ n = Len(unread) \/ n = BufferSize - 1 \/ unread[n] = NewLine
        /\ \A i \in 1 .. n - 1 : unread[i] # NewLine
  BY <1>2, GetsIs
<1>4. /\ line' = SubSeq(unread, 1, n) /\ Len(line') = n
      /\ unread' = SubSeq(unread, n + 1, Len(unread)) /\ position' = 0
  BY <1>3 DEF ReadLine
<1>5. ReadOf(source, SubSeq(unread, n + 1, Len(unread)), SubSeq(unread, 1, n), 0)
  BY <1>1, PieceIsRead
<1>6. Len(unread) \in Nat /\ Len(source) \in Nat
  BY <1>2, LenProperties
<1>7. Len(unread') = Len(unread) - n
  <2>1. \A i \in n + 1 .. Len(unread) : unread[i] \in Int
    BY <1>2, <1>6, ElementOfSeq
  <2>2. Len(unread') = IF n + 1 <= Len(unread) THEN Len(unread) - (n + 1) + 1 ELSE 0
    BY <1>4, <1>6, <2>1, SubSeqProperties
  <2>3. QED
    BY <1>6, <2>2
<1>8. ReadOf(source, unread', line', position')
  BY <1>4, <1>5
<1>9. Len(source) - Len(unread') - Len(line') = Len(source) - Len(unread) - Len(line) + position
  <2> DEFINE S == Len(source)
             L == Len(unread)
  <2>1. S \in Nat /\ L \in Nat /\ n \in Nat
    BY <1>6
  <2>2. Len(unread') = L - n /\ Len(line') = n /\ Len(line) = 0 /\ position = 0
    BY <1>1, <1>4, <1>7
  <2> HIDE DEF S, L
  <2>3. S - Len(unread') - Len(line') = S - L - Len(line) + position
    BY <2>1, <2>2
  <2>4. QED
    BY <2>3 DEF S, L
<1>10. QED
  BY <1>1, <1>3, <1>4, <1>7, <1>8, <1>9

LEMMA StartEncoderKeeps == CodecInv /\ StartEncoder => CodecInv'
<1> SUFFICES ASSUME CodecInv, StartEncoder PROVE CodecInv'
  OBVIOUS
<1>1. /\ text' \in Seq(Int) /\ unread' = text' /\ codec' = "encoder"
      /\ encoded' = << >> /\ decoded' = << >> /\ line' = << >> /\ position' = 0
      /\ buffer' = << >> /\ length' = 0
  <2>1. text' \in Seq(Int)
    <3>1. text' \in Seq(Int \ {Nul})
      BY RunLengthAssumption DEF StartEncoder
    <3>2. QED
      BY <3>1, SeqOfInts
  <2>2. QED
    BY <2>1 DEF CodecInv, StartEncoder
<1>2. Len(text') \in Nat
  BY <1>1, LenProperties
<1>3. ReadOf(text, unread, line, position)'
  BY <1>1, <1>2 DEF ReadOf
<1>4. Codes(encoded \o buffer, text, Len(text) - Len(unread) - Len(line) + position)'
  <2>1. encoded' \o buffer' = << >>
    BY <1>1
  <2>2. Len(text') - Len(unread') - Len(line') + position' = 0
    <3>1. Len(unread') = Len(text') /\ Len(line') = 0 /\ position' = 0
      BY <1>1
    <3>2. QED
      BY <1>2, <3>1
  <2>3. Codes(<< >>, text', 0)
    BY NothingIsCoded
  <2>4. QED
    BY <2>1, <2>2, <2>3
<1>5. EncoderInv'
  BY <1>1, <1>3, <1>4 DEF EncoderInv
<1>6. QED
  BY <1>1, <1>5 DEF CodecInv, RoundTrip

LEMMA ReadLineKeeps == CodecInv /\ ReadLine => CodecInv'
<1> SUFFICES ASSUME CodecInv, ReadLine PROVE CodecInv'
  OBVIOUS
<1>1. /\ codec \in {"encoder", "decoder"} /\ codec' = codec /\ text' = text
      /\ encoded' = encoded /\ decoded' = decoded /\ buffer' = << >> /\ length' = 0
  BY DEF ReadLine
<1>2. Short' = Short /\ LinesFit' = LinesFit
  BY <1>1 DEF Short, LinesFit
<1>3. ASSUME codec = "encoder", Short PROVE EncoderInv'
  <2>1. EncoderInv /\ line = << >>
    BY <1>3 DEF CodecInv, ReadLine
  <2>2. /\ ReadOf(text, unread', line', position') /\ position' = 0
        /\ Len(text) - Len(unread') - Len(line') = Len(text) - Len(unread) - Len(line) + position
    <3> DEFINE t == text
    <3>1. ReadOf(t, unread, line, position)
      BY <2>1 DEF EncoderInv
    <3> HIDE DEF t
    <3>2. /\ ReadOf(t, unread', line', position') /\ position' = 0
          /\ Len(t) - Len(unread') - Len(line') = Len(t) - Len(unread) - Len(line) + position
      BY <3>1, ReadOn
    <3>3. QED
      BY <3>2 DEF t
  <2>3. buffer = << >>
    BY <2>1 DEF EncoderInv
  <2> DEFINE z == Len(text) - Len(unread) - Len(line) + position
  <2>4. z \in Int
    <3>1. Len(text) \in Nat /\ Len(unread) \in Nat /\ Len(line) \in Nat /\ position \in Int
      <4>1. text \in Seq(Int) /\ unread \in Seq(Int) /\ line \in Seq(Int) /\ position \in 0 .. Len(line)
        BY <2>1 DEF EncoderInv, ReadOf
      <4>2. QED
        BY <4>1, LenProperties
    <3>2. QED
      BY <3>1
  <2>5. Len(text') - Len(unread') - Len(line') + position' = z
    <3> HIDE DEF z
    <3>1. Len(text') - Len(unread') - Len(line') = z
      BY <1>1, <2>2 DEF z
    <3>2. QED
      BY <2>2, <2>4, <3>1
  <2>6. Codes(encoded' \o buffer', text', z)
    BY <1>1, <2>1, <2>3 DEF EncoderInv
  <2>7. QED
    BY <1>1, <2>1, <2>2, <2>5, <2>6, Len(<< >>) = 0 DEF EncoderInv
<1>4. ASSUME codec = "decoder", Short, LinesFit PROVE DecoderInv'
  <2>1. DecoderInv
    BY <1>4 DEF CodecInv
  <2>2. /\ \E n \in 1 .. Len(unread) :
              /\ Len(line') = n /\ Len(unread') = Len(unread) - n
              /\ n = Len(unread) \/ n = BufferSize - 1 \/ unread[n] = NewLine
              /\ \A i \in 1 .. n - 1 : unread[i] # NewLine
        /\ ReadOf(encoded, unread', line', position')
        /\ line = << >> /\ position = 0 /\ position' = 0
    <3> DEFINE t == encoded
    <3>1. ReadOf(t, unread, line, position)
      BY <2>1 DEF DecoderInv
    <3> HIDE DEF t
    <3>2. /\ \E n \in 1 .. Len(unread) :
              /\ Len(line') = n /\ Len(unread') = Len(unread) - n
              /\ n = Len(unread) \/ n = BufferSize - 1 \/ unread[n] = NewLine
              /\ \A i \in 1 .. n - 1 : unread[i] # NewLine
          /\ ReadOf(t, unread', line', position')
          /\ line = << >> /\ position = 0 /\ position' = 0
      BY <3>1, ReadOn
    <3>3. QED
      BY <3>2 DEF t
  <2>3. PICK n \in 1 .. Len(unread) :
              /\ Len(line') = n /\ Len(unread') = Len(unread) - n
              /\ n = Len(unread) \/ n = BufferSize - 1 \/ unread[n] = NewLine
              /\ \A i \in 1 .. n - 1 : unread[i] # NewLine
    BY <2>2
  <2>4. PICK m, a, e, b \in Nat :
       /\ Len(unread) = 2 * a /\ Len(line) = 2 * e /\ position = 2 * b
       /\ \E Q \in [0 .. m -> Nat] : DecodedTo(m, Q, a, e, b)
    <3>1. PICK m, a, e, b \in Nat : \E Q \in [0 .. m -> Nat] : DecodedTo(m, Q, a, e, b)
      BY <2>1, Zenon DEF DecoderInv
    <3>2. Len(unread) = 2 * a /\ Len(line) = 2 * e /\ position = 2 * b
      BY <3>1 DEF DecodedTo
    <3>3. QED
      BY <3>1, <3>2
  <2>5. PICK P \in [0 .. m -> Nat] :
            /\ IsCoding(m, P, encoded, text, Len(text))
            /\ Len(decoded) = P[m - a - e + b]
            /\ \A i \in 1 .. Len(decoded) : decoded[i] = text[i]
    BY <2>4 DEF DecodedTo
  <2>6. e = 0 /\ b = 0
    <3>1. Len(line) = 0
      BY <2>2
    <3>2. QED
      BY <2>2, <2>4, <3>1
  <2>7. Len(encoded) = 2 * m /\ a <= m /\ encoded \in Seq(Int)
    <3>1. Len(encoded) = 2 * m /\ Len(unread) + Len(line) <= Len(encoded) /\ encoded \in Seq(Int)
      BY <2>1, <2>5 DEF DecoderInv, ReadOf, IsCoding
    <3>2. QED
      BY <2>4, <2>6, <3>1
  <2>8. \A i \in 1 .. n : unread[i] = encoded[2 * (m - a) + i]
    <3>1. \A i \in 1 .. Len(unread) : unread[i] = encoded[(Len(encoded) - Len(unread)) + i]
      BY <2>1 DEF DecoderInv, ReadOf
    <3>2. \A i \in 1 .. n : i \in 1 .. Len(unread) /\ (Len(encoded) - Len(unread)) + i = 2 * (m - a) + i
      BY <2>4, <2>7
    <3>3. QED
      BY <3>1, <3>2
  <2>9. \E h \in Nat : n = 2 * h
    <3>1. CASE n = Len(unread)
      BY <2>4, <3>1
    <3>2. CASE unread[n] = NewLine
      <4>1. SUFFICES ASSUME NEW h \in Nat, n = 2 * h + 1 PROVE FALSE
        <5>1. \E h \in Nat : n = 2 * h \/ n = 2 * h + 1
          <6>1. n \in Nat
            BY <2>4
          <6>2. n \div 2 \in Nat /\ (n = 2 * (n \div 2) \/ n = 2 * (n \div 2) + 1)
            BY <6>1
          <6>3. QED
            BY <6>2
        <5>2. QED
          BY <4>1, <5>1
      <4> DEFINE k == m - a + h + 1
      <4>2. k \in 1 .. m /\ 2 * k - 1 = 2 * (m - a) + n
        BY <2>4, <2>7, <4>1
      <4>3. encoded[2 * k - 1] \in 1 .. 9
        BY <2>5, <4>2 DEF IsCoding
      <4>4. encoded[2 * k - 1] = NewLine
        <5>1. n \in 1 .. n
          BY <2>4
        <5>2. QED
          BY <2>8, <3>2, <4>2, <5>1
      <4>5. QED
        BY <4>3, <4>4 DEF NewLine
    <3>3. CASE n # Len(unread) /\ unread[n] # NewLine
      <4>1. n = BufferSize - 1 /\ \A i \in 1 .. n : unread[i] # NewLine
        BY <2>3, <2>4, <3>3
      <4> DEFINE i == 2 * (m - a) + 1
                 w == n + 1
      <4>2. /\ w \in 1 .. Len(encoded) /\ i \in 1 .. Len(encoded) - w + 1
            /\ \A k \in i .. i + w - 2 : k - 2 * (m - a) \in 1 .. n /\ 2 * (m - a) + (k - 2 * (m - a)) = k
        BY <2>4, <2>7, <3>3
      <4>3. \A k \in i .. i + w - 2 : encoded[k] # NewLine
        BY <2>8, <4>1, <4>2
      <4> HIDE DEF i, w
      <4>4. w \in LineLengths(encoded)
        BY <4>2, <4>3 DEF LineLengths
      <4>5. w < BufferSize
        BY <1>4, <4>4 DEF LinesFit
      <4>6. QED
        BY <4>1, <4>5, RunLengthAssumption DEF w
    <3>4. QED
      BY <3>1, <3>2, <3>3
  <2>10. PICK h \in Nat : n = 2 * h
    BY <2>9
  <2>11. /\ Len(unread') = 2 * (a - h) /\ a - h \in Nat /\ Len(line') = 2 * h /\ position' = 2 * 0
         /\ m - (a - h) - h + 0 = m - a - e + b
    BY <2>2, <2>3, <2>4, <2>6, <2>10
  <2>12. QED
    <3>1. /\ IsCoding(m, P, encoded', text', Len(text'))
          /\ Len(decoded') = P[m - (a - h) - h + 0]
          /\ \A i \in 1 .. Len(decoded') : decoded'[i] = text'[i]
      BY <1>1, <2>5, <2>11
    <3>2. DecodedTo(m, P, a - h, h, 0)'
      BY <2>11, <3>1 DEF DecodedTo
    <3>3. QED
      BY <1>1, <2>1, <2>2, <2>11, <3>2, 0 \in Nat DEF DecoderInv
<1>5. QED
  BY <1>1, <1>2, <1>3, <1>4 DEF CodecInv, RoundTrip

LEMMA JoinedRight ==
  ASSUME NEW S, NEW e \in Seq(S), NEW b \in Seq(S), NEW z \in Seq(S)
  PROVE  e \o (b \o z) = (e \o b) \o z
BY ConcatAssociative

LEMMA JoinedOneByOne ==
  ASSUME NEW S, NEW e \in Seq(S), NEW f \in Seq(S), NEW x \in Seq(S), NEW z \in Seq(S)
  PROVE  e \o ((f \o x) \o z) = ((e \o f) \o x) \o z
<1>1. f \o x \in Seq(S)
  BY ConcatProperties
<1>2. PICK b \in Seq(S) : b = f \o x
  BY <1>1
<1>3. e \o b = (e \o f) \o x
  BY <1>2, ConcatAssociative, SMTT(30)
<1>4. e \o (b \o z) = (e \o b) \o z
  BY JoinedRight, SMTT(30)
<1>5. QED
  BY <1>2, <1>3, <1>4

LEMMA EncodeRunKeeps == CodecInv /\ EncodeRun => CodecInv'
<1> SUFFICES ASSUME CodecInv, EncodeRun PROVE CodecInv'
  OBVIOUS
<1> DEFINE i == position + 1
           j == RunEnd(i)
           run == Counter(i, j)
<1>1. /\ codec = "encoder" /\ codec' = "encoder" /\ position < Len(line)
      /\ buffer' = SubSeq(buffer, 1, length) \o Decimal(run) \o << line[j] >>
      /\ position' = j /\ length' = length + 2
      /\ text' = text /\ unread' = unread /\ line' = line
      /\ encoded' = encoded /\ decoded' = decoded
  BY DEF EncodeRun
<1>2. SUFFICES ASSUME Short PROVE EncoderInv'
  BY <1>1 DEF CodecInv, Short, RoundTrip
<1>3. EncoderInv
  BY <1>1, <1>2 DEF CodecInv
<1>4. /\ text \in Seq(Int) /\ unread \in Seq(Int) /\ line \in Seq(Int)
      /\ Len(unread) + Len(line) <= Len(text) /\ position \in 0 .. Len(line)
      /\ \A k \in 1 .. Len(line) : line[k] = text[(Len(text) - Len(unread) - Len(line)) + k]
      /\ encoded \in Seq(Int) /\ buffer \in Seq(Int) /\ length = Len(buffer)
  BY <1>3 DEF EncoderInv, ReadOf
<1> DEFINE base == Len(text) - Len(unread) - Len(line)
<1>5. /\ Len(line) \in Nat /\ position \in Nat /\ base \in Nat /\ Len(text) \in Nat
      /\ base + Len(line) <= Len(text) /\ i \in 1 .. Len(line)
  <2>1. Len(text) \in Nat /\ Len(unread) \in Nat /\ Len(line) \in Nat
    BY <1>4, LenProperties
  <2>2. QED
    BY <1>1, <1>4, <2>1, SMTT(30)
<1> HIDE DEF base
<1>6. j \in i .. Len(line) /\ \A k \in i .. j : line[k] = line[i]
  <2> HIDE DEF i
  <2>1. QED
    BY <1>4, <1>5, RunEndIs
<1> HIDE DEF j
<1>7. /\ run = j - position /\ run \in Nat \ {0} /\ j \in Nat /\ j \in 1 .. Len(line)
      /\ base + position + run = base + j /\ base + j <= Len(text)
  BY <1>5, <1>6 DEF Counter
<1>8. \A k \in base + i .. base + j : text[k] = line[j]
  <2>1. \A k \in base + i .. base + j : k - base \in i .. j /\ base + (k - base) = k
                                        /\ k - base \in 1 .. Len(line)
    BY <1>5, <1>6
  <2>2. \A k \in 1 .. Len(line) : line[k] = text[base + k]
    BY <1>4 DEF base
  <2>3. line[j] = line[i]
    BY <1>5, <1>6, <1>7
  <2>4. QED
    BY <1>6, <2>1, <2>2, <2>3
<1>9. run \in 1 .. 9
  <2>1. run \in 1 .. Len(text) /\ base + i \in 1 .. Len(text) - run + 1
    BY <1>5, <1>6, <1>7
  <2>2. \A k \in base + i .. (base + i) + run - 1 : k \in base + i .. base + j
    BY <1>5, <1>6, <1>7
  <2>3. base + i \in base + i .. base + j
    BY <1>5, <1>6
  <2>4. \A k \in base + i .. (base + i) + run - 1 : text[k] = text[base + i]
    BY <1>8, <2>2, <2>3
  <2> HIDE DEF run, i
  <2>5. run \in RunLengths(text)
    BY <2>1, <2>4 DEF RunLengths
  <2>6. QED
    BY <1>2, <1>7, <2>5 DEF Short, run
<1> HIDE DEF run
<1>10. buffer' = (buffer \o << run >>) \o << line[j] >>
  <2>1. Decimal(run) = << run >>
    BY <1>9 DEF Decimal
  <2>2. SubSeq(buffer, 1, length) = buffer
    BY <1>4, SubSeqFull
  <2>3. QED
    BY <1>1, <2>1, <2>2
<1>11. /\ encoded' \o buffer' = ((encoded \o buffer) \o << run >>) \o << line[j] >>
       /\ buffer' \in Seq(Int) /\ Len(buffer') = Len(buffer) + 2
       /\ line[j] \in Int
  <2> DEFINE x == << run >>
             z == << line[j] >>
             b == buffer \o x
  <2>1. line[j] \in Int
    BY <1>4, <1>7, ElementOfSeq
  <2>2. x \in Seq(Int) /\ z \in Seq(Int) /\ Len(x) = 1 /\ Len(z) = 1
    BY <1>9, <2>1
  <2>3. b \in Seq(Int) /\ Len(b) = Len(buffer) + 1
    BY <1>4, <2>2, ConcatProperties
  <2> HIDE DEF x, z
  <2>4. b \o z \in Seq(Int) /\ Len(b \o z) = Len(b) + 1
    BY <2>2, <2>3, ConcatProperties
  <2>5. encoded' \o buffer' = ((encoded \o buffer) \o x) \o z
    <3> DEFINE e == encoded
               f == buffer
    <3>1. e \in Seq(Int) /\ f \in Seq(Int)
      BY <1>4
    <3>2. encoded' = e /\ buffer' = (f \o x) \o z
      BY <1>1, <1>10 DEF x, z
    <3> HIDE DEF b, e, f
    <3>3. e \o ((f \o x) \o z) = ((e \o f) \o x) \o z
      <4>1. e \in Seq(Int) /\ f \in Seq(Int) /\ x \in Seq(Int) /\ z \in Seq(Int)
        BY <2>2, <3>1
      <4>2. QED
        BY <4>1, JoinedOneByOne, SMTT(30)
    <3>4. QED
      BY <3>2, <3>3 DEF e, f
  <2>6. buffer' = b \o z
    BY <1>10 DEF x, z
  <2>7. Len(buffer) \in Nat
    BY <1>4, LenProperties
  <2> HIDE DEF b
  <2>8. buffer' \in Seq(Int) /\ Len(buffer') = Len(buffer) + 2
    BY <2>2, <2>3, <2>4, <2>6, <2>7
  <2>9. QED
    BY <2>1, <2>5, <2>8 DEF x, z
<1>12. Codes(encoded' \o buffer', text', base + j)
  <2> DEFINE c == encoded \o buffer
             n == base + position
             t == text
             ch == line[j]
  <2>1. Codes(c, t, n) /\ n \in Nat /\ n + run = base + j /\ t \in Seq(Int)
    BY <1>3, <1>4, <1>5, <1>7 DEF EncoderInv, base
  <2>2. n + run <= Len(t) /\ n + 1 = base + i
    BY <1>5, <1>7, <2>1
  <2>3. \A k \in n + 1 .. n + run : t[k] = ch
    <3> HIDE DEF n
    <3>1. QED
      BY <1>8, <2>1, <2>2
  <2>4. ch \in Int
    BY <1>11
  <2> HIDE DEF c, n, t, ch
  <2>5. Codes((c \o << run >>) \o << ch >>, t, n + run)
    BY <1>9, <2>1, <2>2, <2>3, <2>4, RunIsCoded
  <2>6. Codes((c \o << run >>) \o << ch >>, t, base + j)
    BY <2>1, <2>5
  <2>7. QED
    BY <1>1, <1>11, <2>6 DEF c, t, ch
<1>13. ReadOf(text, unread, line, position)'
  <2>1. j \in 0 .. Len(line)
    BY <1>5, <1>7
  <2>2. QED
    BY <1>1, <1>3, <2>1 DEF EncoderInv, ReadOf
<1>14. Len(text') - Len(unread') - Len(line') + position' = base + j
  BY <1>1 DEF base
<1>15. line' # << >>
  <2>1. Len(line) # 0
    BY <1>5
  <2>2. QED
    BY <1>1, <2>1
<1>16. length' = Len(buffer')
  BY <1>1, <1>4, <1>11
<1>17. QED
  BY <1>1, <1>3, <1>4, <1>11, <1>12, <1>13, <1>14, <1>15, <1>16 DEF EncoderInv

LEMMA PrintLineKeeps == CodecInv /\ PrintLine => CodecInv'
<1> SUFFICES ASSUME CodecInv, PrintLine PROVE CodecInv'
  OBVIOUS
<1>1. /\ codec = "encoder" /\ codec' = "encoder" /\ position = Len(line)
      /\ encoded' = encoded \o buffer /\ line' = << >> /\ position' = 0
      /\ buffer' = << >> /\ length' = 0 /\ text' = text /\ unread' = unread /\ decoded' = decoded
  BY DEF PrintLine
<1>2. SUFFICES ASSUME Short PROVE EncoderInv'
  BY <1>1 DEF CodecInv, Short, RoundTrip
<1>3. EncoderInv
  BY <1>1, <1>2 DEF CodecInv
<1>4. /\ text \in Seq(Int) /\ unread \in Seq(Int) /\ line \in Seq(Int)
      /\ Len(unread) + Len(line) <= Len(text) /\ encoded \in Seq(Int) /\ buffer \in Seq(Int)
      /\ \A k \in 1 .. Len(unread) : unread[k] = text[(Len(text) - Len(unread)) + k]
  BY <1>3 DEF EncoderInv, ReadOf
<1>5. Len(text) \in Nat /\ Len(unread) \in Nat /\ Len(line) \in Nat
  BY <1>4, LenProperties
<1>6. ReadOf(text, unread, line, position)'
  <2>1. << >> \in Seq(Int) /\ Len(<< >>) = 0 /\ \A k \in 1 .. Len(<< >>) : FALSE
    OBVIOUS
  <2>2. Len(unread) + 0 <= Len(text)
    BY <1>4, <1>5
  <2>3. QED
    BY <1>1, <1>4, <2>1, <2>2 DEF ReadOf
<1>7. encoded' \in Seq(Int) /\ encoded' \o buffer' = encoded \o buffer
  <2>1. encoded \o buffer \in Seq(Int)
    BY <1>4, ConcatProperties
  <2>2. QED
    BY <1>1, <2>1, ConcatEmptySeq
<1>8. Len(text') - Len(unread') - Len(line') + position' =
        Len(text) - Len(unread) - Len(line) + position
  <2>1. Len(text') = Len(text) /\ Len(unread') = Len(unread) /\ Len(line') = 0 /\ position' = 0
    BY <1>1
  <2>2. QED
    BY <1>1, <1>5, <2>1
<1>9. Codes(encoded' \o buffer', text', Len(text') - Len(unread') - Len(line') + position')
  BY <1>1, <1>3, <1>7, <1>8 DEF EncoderInv
<1>10. QED
  BY <1>1, <1>3, <1>6, <1>7, <1>9, Len(<< >>) = 0 DEF EncoderInv

LEMMA StartDecoderKeeps == CodecInv /\ StartDecoder => CodecInv'
<1> SUFFICES ASSUME CodecInv, StartDecoder PROVE CodecInv'
  OBVIOUS
<1>1. /\ codec = "encoder" /\ codec' = "decoder" /\ line = << >> /\ unread = << >>
      /\ unread' = encoded /\ line' = line /\ position' = position /\ text' = text
      /\ encoded' = encoded /\ decoded' = decoded
  BY DEF StartDecoder
<1>2. SUFFICES ASSUME Short PROVE DecoderInv'
  BY <1>1 DEF CodecInv, Short, RoundTrip
<1>3. EncoderInv
  BY <1>1, <1>2 DEF CodecInv
<1>4. /\ text \in Seq(Int) /\ encoded \in Seq(Int) /\ decoded = << >> /\ buffer = << >>
      /\ position \in 0 .. Len(line) /\ Len(line) = 0 /\ Len(unread) = 0
  BY <1>1, <1>3, Len(<< >>) = 0 DEF EncoderInv, ReadOf
<1>5. Len(text) \in Nat /\ Len(encoded) \in Nat /\ position = 0
  BY <1>4, LenProperties
<1>6. encoded \o buffer = encoded
  BY <1>4, ConcatEmptySeq
<1>7. Codes(encoded, text, Len(text))
  <2>1. Len(text) - Len(unread) - Len(line) + position = Len(text)
    BY <1>4, <1>5
  <2>2. QED
    BY <1>3, <1>6, <2>1 DEF EncoderInv
<1>8. PICK m \in Nat : \E P \in [0 .. m -> Nat] : IsCoding(m, P, encoded, text, Len(text))
  BY <1>7 DEF Codes
<1>9. PICK P \in [0 .. m -> Nat] : IsCoding(m, P, encoded, text, Len(text))
  BY <1>8
<1>10. Len(encoded) = 2 * m /\ P[0] = 0
  BY <1>9 DEF IsCoding
<1>11. ReadOf(encoded, unread, line, position)'
  <2>1. << >> \in Seq(Int) /\ Len(<< >>) = 0
    OBVIOUS
  <2>2. /\ encoded' \in Seq(Int) /\ unread' = encoded' /\ line' = << >> /\ position' = 0
        /\ Len(encoded') \in Nat
    BY <1>1, <1>4, <1>5
  <2>3. QED
    BY <2>1, <2>2 DEF ReadOf
<1>12. m - m - 0 + 0 = 0 /\ Len(decoded') = 0 /\ Len(line') = 2 * 0 /\ position' = 2 * 0
       /\ Len(unread') = 2 * m /\ decoded' \in Seq(Int)
  BY <1>1, <1>4, <1>5, <1>10, Len(<< >>) = 0
<1>13. /\ IsCoding(m, P, encoded', text', Len(text'))
       /\ Len(decoded') = P[m - m - 0 + 0]
       /\ \A i \in 1 .. Len(decoded') : decoded'[i] = text'[i]
  BY <1>1, <1>9, <1>10, <1>12
<1>14. DecodedTo(m, P, m, 0, 0)'
  BY <1>12, <1>13 DEF DecodedTo
<1>15. QED
  BY <1>1, <1>4, <1>11, <1>12, <1>14, 0 \in Nat DEF DecoderInv

LEMMA DecodedSoFar ==
  ASSUME DecoderInv
  PROVE  \E m, a, e, b \in Nat :
           /\ \E P \in [0 .. m -> Nat] : DecodedTo(m, P, a, e, b)
           /\ Len(encoded) = 2 * m /\ a + e <= m /\ b <= e
<1>1. PICK m, a, e, b \in Nat : \E Q \in [0 .. m -> Nat] : DecodedTo(m, Q, a, e, b)
  BY Zenon DEF DecoderInv
<1>2. PICK P \in [0 .. m -> Nat] : DecodedTo(m, P, a, e, b)
  BY <1>1
<1>3. /\ Len(unread) = 2 * a /\ Len(line) = 2 * e /\ position = 2 * b /\ Len(encoded) = 2 * m
      /\ Len(unread) + Len(line) <= Len(encoded) /\ position \in 0 .. Len(line)
  BY <1>2 DEF DecodedTo, IsCoding, DecoderInv, ReadOf
<1>4. a + e <= m /\ b <= e
  BY <1>3
<1>5. QED
  BY <1>2, <1>3, <1>4

LEMMA DecodePairKeeps == CodecInv /\ DecodePair => CodecInv'
<1> SUFFICES ASSUME CodecInv, DecodePair PROVE CodecInv'
  OBVIOUS
<1> DEFINE run == line[position + 1]
           ch == line[position + 2]
           out == [copy \in 1 .. run |-> ch]
<1>1. /\ codec = "decoder" /\ codec' = codec /\ position < Len(line) - 1
      /\ decoded' = decoded \o out /\ position' = position + 2
      /\ text' = text /\ unread' = unread /\ line' = line /\ encoded' = encoded
  BY DEF DecodePair
<1>2. SUFFICES ASSUME Short, LinesFit PROVE DecoderInv'
  BY <1>1 DEF CodecInv, Short, LinesFit, RoundTrip
<1>3. DecoderInv
  BY <1>1, <1>2 DEF CodecInv
<1>4. PICK m, a, e, b \in Nat :
           /\ \E P \in [0 .. m -> Nat] : DecodedTo(m, P, a, e, b)
           /\ Len(encoded) = 2 * m /\ a + e <= m /\ b <= e
  BY <1>3, DecodedSoFar
<1>5. PICK P \in [0 .. m -> Nat] : DecodedTo(m, P, a, e, b)
  BY <1>4
<1>6. /\ Len(unread) = 2 * a /\ Len(line) = 2 * e /\ position = 2 * b
      /\ IsCoding(m, P, encoded, text, Len(text))
      /\ Len(decoded) = P[m - a - e + b]
      /\ \A i \in 1 .. Len(decoded) : decoded[i] = text[i]
  BY <1>5 DEF DecodedTo
<1> DEFINE d == m - a - e + b
           k == d + 1
<1>7. b + 1 \in Nat /\ b + 1 <= e /\ d \in 0 .. m /\ k \in 1 .. m /\ k - 1 = d
      /\ m - a - e + (b + 1) = k
  BY <1>1, <1>4, <1>6
<1>8. run = encoded[2 * k - 1] /\ ch = encoded[2 * k]
  <2>1. \A i \in 1 .. Len(line) : line[i] = encoded[(Len(encoded) - Len(unread) - Len(line)) + i]
    BY <1>3 DEF DecoderInv, ReadOf
  <2>2. /\ position + 1 \in 1 .. Len(line) /\ position + 2 \in 1 .. Len(line)
        /\ (Len(encoded) - Len(unread) - Len(line)) + (position + 1) = 2 * k - 1
        /\ (Len(encoded) - Len(unread) - Len(line)) + (position + 2) = 2 * k
    BY <1>4, <1>6, <1>7
  <2> HIDE DEF k
  <2>3. QED
    BY <2>1, <2>2
<1>9. /\ run \in 1 .. 9 /\ P[k] = P[d] + run /\ P[k] <= Len(text) /\ P[d] \in Nat /\ P[k] \in Nat
      /\ \A j \in P[d] + 1 .. P[k] : text[j] = ch
  <2>1. P[d] \in Nat /\ P[k] \in Nat
    BY <1>7
  <2> HIDE DEF run, ch, d, k
  <2>2. QED
    BY <1>6, <1>7, <1>8, <2>1 DEF IsCoding
<1>10. out \in Seq(Int) /\ Len(out) = run /\ \A i \in 1 .. run : out[i] = ch
  <2>1. ch \in Int
    <3>1. line \in Seq(Int) /\ position + 2 \in 1 .. Len(line)
      BY <1>3, <1>6, <1>7 DEF DecoderInv, ReadOf
    <3>2. QED
      BY <3>1, ElementOfSeq
  <2> HIDE DEF run, ch
  <2>2. QED
    BY <1>9, <2>1
<1> HIDE DEF d, k, run, ch, out
<1>11. /\ decoded \in Seq(Int) /\ Len(decoded) = P[d] /\ \A i \in 1 .. P[d] : decoded[i] = text[i]
  BY <1>3, <1>6 DEF DecoderInv, d
<1>12. /\ decoded' \in Seq(Int) /\ Len(decoded') = P[k]
       /\ \A i \in 1 .. P[k] : decoded'[i] = text[i]
  <2>1. /\ decoded' \in Seq(Int) /\ Len(decoded') = Len(decoded) + Len(out)
        /\ \A i \in 1 .. Len(decoded) + Len(out) :
             decoded'[i] = IF i <= Len(decoded) THEN decoded[i] ELSE out[i - Len(decoded)]
    BY <1>1, <1>10, <1>11, ConcatProperties
  <2>2. Len(decoded') = P[k]
    BY <1>9, <1>10, <1>11, <2>1
  <2>3. ASSUME NEW i \in 1 .. P[k] PROVE decoded'[i] = text[i]
    <3>1. CASE i <= P[d]
      <4>1. i \in 1 .. P[d] /\ i \in 1 .. Len(decoded) + Len(out)
        BY <1>9, <1>10, <1>11, <3>1
      <4>2. QED
        BY <1>11, <2>1, <3>1, <4>1
    <3>2. CASE ~(i <= P[d])
      <4>1. i - P[d] \in 1 .. run /\ i \in P[d] + 1 .. P[k] /\ i \in 1 .. Len(decoded) + Len(out)
        BY <1>9, <1>10, <1>11, <3>2
      <4>2. QED
        BY <1>9, <1>10, <1>11, <2>1, <3>2, <4>1
    <3>3. QED
      BY <3>1, <3>2
  <2>4. QED
    BY <2>1, <2>2, <2>3
<1>13. position' = 2 * (b + 1)
  BY <1>1, <1>6
<1>14. /\ IsCoding(m, P, encoded', text', Len(text')) /\ Len(decoded') = P[m - a - e + (b + 1)]
       /\ \A i \in 1 .. Len(decoded') : decoded'[i] = text'[i]
       /\ Len(unread') = 2 * a /\ Len(line') = 2 * e
  BY <1>1, <1>6, <1>7, <1>12
<1>15. DecodedTo(m, P, a, e, b + 1)'
  BY <1>13, <1>14 DEF DecodedTo
<1>16. ReadOf(encoded, unread, line, position)'
  <2>1. position = 2 * b /\ Len(line) = 2 * e
    BY <1>6
  <2>2. b + 1 <= e
    BY <1>7
  <2>3. position + 2 \in 0 .. Len(line)
    BY <2>1, <2>2
  <2>4. QED
    BY <1>1, <1>3, <2>3 DEF DecoderInv, ReadOf
<1>17. QED
  BY <1>1, <1>3, <1>12, <1>15, <1>16, b + 1 \in Nat DEF DecoderInv

LEMMA LineDecodedKeeps == CodecInv /\ LineDecoded => CodecInv'
<1> SUFFICES ASSUME CodecInv, LineDecoded PROVE CodecInv'
  OBVIOUS
<1>1. /\ codec = "decoder" /\ codec' = codec /\ position >= Len(line) - 1
      /\ line' = << >> /\ position' = 0 /\ decoded' = decoded
      /\ text' = text /\ unread' = unread /\ encoded' = encoded
  BY DEF LineDecoded
<1>2. SUFFICES ASSUME Short, LinesFit PROVE DecoderInv'
  BY <1>1 DEF CodecInv, Short, LinesFit, RoundTrip
<1>3. DecoderInv
  BY <1>1, <1>2 DEF CodecInv
<1>4. PICK m, a, e, b \in Nat :
           /\ \E P \in [0 .. m -> Nat] : DecodedTo(m, P, a, e, b)
           /\ Len(encoded) = 2 * m /\ a + e <= m /\ b <= e
  BY <1>3, DecodedSoFar
<1>5. PICK P \in [0 .. m -> Nat] : DecodedTo(m, P, a, e, b)
  BY <1>4
<1>6. /\ Len(unread) = 2 * a /\ Len(line) = 2 * e /\ position = 2 * b
      /\ IsCoding(m, P, encoded, text, Len(text))
      /\ Len(decoded) = P[m - a - e + b]
      /\ \A i \in 1 .. Len(decoded) : decoded[i] = text[i]
  BY <1>5 DEF DecodedTo
<1>7. m - a - e + b = m - a - 0 + 0
  BY <1>1, <1>4, <1>6, SMTT(30)
<1>8. Len(line') = 2 * 0 /\ position' = 2 * 0 /\ Len(unread') = 2 * a
  BY <1>1, <1>6, Len(<< >>) = 0
<1>9. /\ IsCoding(m, P, encoded', text', Len(text')) /\ Len(decoded') = P[m - a - 0 + 0]
      /\ \A i \in 1 .. Len(decoded') : decoded'[i] = text'[i]
  BY <1>1, <1>6, <1>7
<1>10. DecodedTo(m, P, a, 0, 0)'
  BY <1>8, <1>9 DEF DecodedTo
<1>11. ReadOf(encoded, unread, line, position)'
  <2>1. << >> \in Seq(Int) /\ Len(<< >>) = 0 /\ \A k \in 1 .. Len(<< >>) : FALSE
    OBVIOUS
  <2>2. Len(unread) + 0 <= Len(encoded)
    BY <1>4, <1>6
  <2>3. QED
    BY <1>1, <1>3, <2>1, <2>2 DEF DecoderInv, ReadOf
<1>12. QED
  BY <1>1, <1>3, <1>10, <1>11, 0 \in Nat DEF DecoderInv

LEMMA DecoderEndsKeeps == CodecInv /\ DecoderEnds => CodecInv'
<1> SUFFICES ASSUME CodecInv, DecoderEnds PROVE CodecInv'
  OBVIOUS
<1>1. /\ codec = "decoder" /\ codec' = "done" /\ line = << >> /\ unread = << >>
      /\ text' = text /\ encoded' = encoded /\ decoded' = decoded
  BY DEF DecoderEnds
<1>2. SUFFICES ASSUME Short, LinesFit PROVE decoded = text
  BY <1>1 DEF CodecInv, Short, LinesFit, RoundTrip
<1>3. DecoderInv
  BY <1>1, <1>2 DEF CodecInv
<1>4. PICK m, a, e, b \in Nat :
           /\ \E P \in [0 .. m -> Nat] : DecodedTo(m, P, a, e, b)
           /\ Len(encoded) = 2 * m /\ a + e <= m /\ b <= e
  BY <1>3, DecodedSoFar
<1>5. PICK P \in [0 .. m -> Nat] : DecodedTo(m, P, a, e, b)
  BY <1>4
<1>6. /\ Len(unread) = 2 * a /\ Len(line) = 2 * e
      /\ IsCoding(m, P, encoded, text, Len(text))
      /\ Len(decoded) = P[m - a - e + b]
      /\ \A i \in 1 .. Len(decoded) : decoded[i] = text[i]
  BY <1>5 DEF DecodedTo
<1>7. m - a - e + b = m
  BY <1>1, <1>4, <1>6, Len(<< >>) = 0
<1>8. Len(decoded) = Len(text)
  BY <1>6, <1>7 DEF IsCoding
<1>9. decoded \in Seq(Int) /\ text \in Seq(Int)
  BY <1>3 DEF DecoderInv
<1>10. QED
  BY <1>6, <1>8, <1>9, SeqEqual

(* Decoding gives the text back if no run in it is longer than nine and no *)
(* line of the encoded text is longer than the decoder's buffer, for any   *)
(* text and any size of the buffer (encoder.c, decoder.c).                 *)
THEOREM DecodingRestores == RunLengthSpec => []RoundTrip
<1>1. RunLengthInit => CodecInv
  BY DEF RunLengthInit, CodecInv, RoundTrip
<1>2. CodecInv /\ [RunLengthNext]_runLengthVars => CodecInv'
  <2> SUFFICES ASSUME CodecInv, [RunLengthNext]_runLengthVars PROVE CodecInv'
    OBVIOUS
  <2>1. CASE UNCHANGED runLengthVars
    <3>1. /\ text' = text /\ unread' = unread /\ line' = line /\ position' = position
          /\ buffer' = buffer /\ length' = length
          /\ encoded' = encoded /\ decoded' = decoded /\ codec' = codec
      BY <2>1 DEF runLengthVars
    <3>2. /\ Short' = Short /\ LinesFit' = LinesFit /\ RoundTrip' = RoundTrip
      BY <3>1 DEF Short, LinesFit, RoundTrip
    <3>3. EncoderInv => EncoderInv'
      BY <3>1, Zenon DEF EncoderInv, ReadOf
    <3>4. DecoderInv => DecoderInv'
      BY <3>1, Zenon DEF DecoderInv, DecodedTo, ReadOf
    <3>5. QED
      BY <3>1, <3>2, <3>3, <3>4, Zenon DEF CodecInv
  <2>2. CASE RunLengthNext
    BY <2>2, StartEncoderKeeps, ReadLineKeeps, EncodeRunKeeps, PrintLineKeeps, StartDecoderKeeps,
       DecodePairKeeps, LineDecodedKeeps, DecoderEndsKeeps DEF RunLengthNext
  <2>3. QED
    BY <2>1, <2>2
<1>3. QED
  BY <1>1, <1>2, PTL DEF RunLengthSpec, CodecInv
=============================================================================
