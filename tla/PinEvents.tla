------------------------------ MODULE PinEvents ------------------------------
(***************************************************************************)
(* How the counter program of task 4 turns what it reads from a pin into   *)
(* clicks (buttons_module.c).  The buttons pull their pins low.            *)
(***************************************************************************)
EXTENDS Integers

CONSTANTS
  ShortClick,   \* SHORT_CLICK_THERSHOLD, in polls
  LongClick     \* LONG_CLICK_THERSHOLD

ASSUME PinEventsAssumption ==
  ShortClick \in Nat /\ LongClick \in Nat /\ 0 < ShortClick /\ ShortClick <= LongClick

\* The descriptor of a button that was never polled.
NoButtonYet == [press_count |-> 0, button_state |-> "None"]

\* process_pin_event: a read that failed is neither pressed nor released and
\* leaves everything as it is.
ButtonAfter(button, pin) ==
  CASE pin = "0" -> [press_count |-> button.press_count + 1, button_state |-> "kPressed"]
    [] pin = "1" -> [press_count |-> 0, button_state |-> "kReleased"]
    [] OTHER -> button

\* The handler it calls before that, if one is attached.
Click(button, pin) ==
  IF pin # "1" \/ button.button_state # "kPressed" THEN "none"
  ELSE CASE 0 < button.press_count /\ button.press_count < ShortClick -> "short"
         [] button.press_count > LongClick -> "long"
         [] OTHER -> "none"
=============================================================================
