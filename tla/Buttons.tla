------------------------------- MODULE Buttons -------------------------------
(***************************************************************************)
(* Three programs that find out about a push button by polling its pin:    *)
(* the counter of task 4 (buttons_module.c, in PinEvents), the click       *)
(* counter of exercise 6 (PortWrapper in main.cpp) and the clock script of *)
(* exercise 7 (time_script.sh).  Each has its own idea of a press, and of  *)
(* a read that fails.  They never run together; here they are fed the same *)
(* samples, so that each can be compared with the history of the pin.      *)
(***************************************************************************)
EXTENDS PinEvents, Sequences, FiniteSets, FiniteSetsExt

CONSTANTS
  LongPress,    \* GPIO_PRESSED_LONG_THRESHOLD of the script
  MaxPolls      \* bound: samples taken

ASSUME ButtonsAssumption == LongPress \in Nat \ {0}

VARIABLES
  samples,      \* history: what the polls have read, "0", "1" or "failed"
  button,       \* task 4: the descriptor of the button
  clicks,       \* task 4: how often each handler was called
  port,         \* exercise 6: m_currentButtonState and the count of its observer
  script        \* exercise 7: its variables, what it printed, whether it exited

buttonsVars == <<samples, button, clicks, port, script>>

ButtonsInit ==
  /\ samples = << >>
  /\ button = NoButtonYet
  /\ clicks = [kind \in {"short", "long", "none"} |-> 0]
  /\ port = [state |-> "unknown", clicks |-> 0]
  /\ script = [value |-> "unset", previous |-> "0", pressed |-> 0, printed |-> 0, exited |-> FALSE]

\* PortWrapper::updateButtonState: '1' is pressed; other characters, such as
\* the NUL a failed read leaves, are ignored.
PortAfterAlways(p, pin) ==              \* mutant: every '0' is a click
  CASE pin = "1" -> [p EXCEPT !.state = "Pressed"]
    [] pin = "0" -> [state |-> "Released", clicks |-> p.clicks + 1]
    [] OTHER -> p
PortAfter(p, pin) ==
  CASE pin = "1" -> [p EXCEPT !.state = "Pressed"]
    [] pin = "0" -> [state |-> "Released",
                     clicks |-> IF p.state = "Pressed" THEN p.clicks + 1 ELSE p.clicks]
    [] OTHER -> p

\* One round of the script's loop.  `let` refuses the empty text of a failed
\* cat, and the variable keeps its value.
ScriptAfter(s, pin) ==
  LET value == IF pin = "failed" THEN s.value ELSE pin
      Now(previous, pressed, printed, exited) ==
        [value |-> value, previous |-> previous, pressed |-> pressed, printed |-> printed,
         exited |-> exited]
  IN IF s.exited THEN s
     ELSE IF value = "1"
          THEN Now("1", IF s.previous = "1" THEN s.pressed + 1 ELSE 1, s.printed, FALSE)
     ELSE IF s.pressed >= LongPress THEN Now(s.previous, s.pressed, s.printed, TRUE)
     ELSE IF s.pressed > 0 THEN Now("0", 0, s.printed + 1, FALSE)
     ELSE Now(s.previous, s.pressed, s.printed, FALSE)

Poll ==
  /\ Len(samples) < MaxPolls
  /\ \E pin \in {"0", "1", "failed"} :
       /\ samples' = Append(samples, pin)
       /\ clicks' = [clicks EXCEPT ![Click(button, pin)] = @ + 1]
       /\ button' = ButtonAfter(button, pin)
       /\ port' = PortAfter(port, pin)
       /\ script' = ScriptAfter(script, pin)

ButtonsNext == Poll

ButtonsSpec == ButtonsInit /\ [][ButtonsNext]_buttonsVars

-----------------------------------------------------------------------------
(* The property.                                                           *)

\* What the pin was last known to be before the i-th sample of s.
KnownBefore(s, i) ==
  LET known == {j \in 1 .. i - 1 : s[j] # "failed"}
  IN IF known = {} THEN "unset" ELSE s[Max(known)]
\* The stretch of polls before the i-th in which the pin was not seen at v.
Since(s, i, v) == {j \in 1 .. i - 1 : \A k \in j .. i - 1 : s[k] # v}
\* For how many polls the pin was low, or known to be high, before the i-th.
Low(s, i) == Cardinality({j \in Since(s, i, "1") : s[j] = "0"})
High(s, i) == Cardinality({j \in Since(s, i, "0") : KnownBefore(s, j + 1) = "1"})

\* The polls at which an event is due: ends of presses by their length.
ShortPresses(s) == {i \in 1 .. Len(s) : s[i] = "1" /\ Low(s, i) \in 1 .. ShortClick - 1}
LongPresses(s) == {i \in 1 .. Len(s) : s[i] = "1" /\ Low(s, i) > LongClick}
LetGo(s) == {i \in 1 .. Len(s) : s[i] = "0" /\ KnownBefore(s, i) = "1"}
Endings(s) == {i \in LetGo(s) : High(s, i) >= LongPress}
BeforeEndings(s) == {i \in LetGo(s) : \A j \in Endings(s) : i < j}

\* Every event stands for a press in the history of the pin, and every press
\* is one event: of the length a handler asks for (task 4, which counts only
\* the polls that succeeded; none between the two lengths), at every falling
\* edge (exercise 6), or of any length, up to the one that ends the program
\* (exercise 7, which counts failed polls like the one before them).
EventsMatchHistory ==
  /\ clicks["short"] = Cardinality(ShortPresses(samples))
  /\ clicks["long"] = Cardinality(LongPresses(samples))
  /\ port.clicks = Cardinality(LetGo(samples))
  /\ script.exited <=> Endings(samples) # {}
  /\ script.printed = Cardinality(BeforeEndings(samples))
=============================================================================
