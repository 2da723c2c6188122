------------------------------ MODULE CounterApp ------------------------------
(***************************************************************************)
(* The counter program of task 4 (src/task4): three buttons change a       *)
(* counter, the loop of main.c polls them (PinEvents), draws the counter   *)
(* into the frame buffer when it has changed and sends the frame buffer to *)
(* the display in pieces.  The GPIO and SPI devices of the kernel are      *)
(* external.                                                               *)
(*                                                                         *)
(* Of the picture only the line of the counter is kept, a cell for each    *)
(* digit; the time and the address are drawn beside it.                    *)
(***************************************************************************)
EXTENDS PinEvents, Sequences, FiniteSets, FiniteSetsExt

CONSTANTS
  MaxCounter,  \* bound: of the counter
  Cells,       \* places for digits in the line
  DataSize     \* DATA_SIZE, the most one SPI message carries, in cells

ASSUME CounterAppAssumption == Cells \in Nat /\ DataSize \in Nat \ {0}

VARIABLES
  counter_app,          \* where main is: "none", "buttons", "counter", "time", "ip",
                        \* "exited", or "crashed"
  running_app,
  buttons,              \* the descriptors
  counter_value,
  counter_rect_invalidated,
  frame_buffer, lcd,    \* the line in the frame buffer and on the display
  exported,             \* the GPIO lines that are exported
  host_file,            \* host.txt can be opened
  longest               \* history: the most digits the counter was drawn with

counterVars == <<counter_app, running_app, buttons, counter_value, counter_rect_invalidated,
                 frame_buffer, lcd, exported, host_file, longest>>

ButtonPin == {"up", "down", "control"}
DisplayPin == {"reset", "dc", "cs"}
Cell == 1 .. Cells
Background == -1

CounterInit ==
  /\ counter_app = "none" /\ running_app = TRUE
  /\ buttons = [b \in ButtonPin |-> NoButtonYet]
  /\ counter_value = 0 /\ counter_rect_invalidated = TRUE
  /\ frame_buffer = [c \in Cell |-> Background]
  /\ lcd = frame_buffer
  /\ exported = {} /\ host_file = TRUE /\ longest = 0

-----------------------------------------------------------------------------
(* gc9a01.c.                                                               *)

\* lcd_write_data: full messages while more than one is left, then the rest.
Sent == 1 + (Cells - 1) \div DataSize

\* lcd_update_screen.
Shown(frame) ==
  [c \in Cell |-> IF (c - 1) \div DataSize < Sent THEN frame[c] ELSE lcd[c]]

\* lcd_put_string, from the start of the line; what it does not reach stays.
Put(frame, text) == [c \in Cell |-> IF c <= Len(text) THEN text[c] ELSE frame[c]]

Digits(n) == IF n < 10 THEN << n >> ELSE << n \div 10, n % 10 >>

-----------------------------------------------------------------------------
(* gpio_module.c.                                                          *)

\* gpio_init_in and gpio_init_out: a line of a button that the kernel does not
\* export is not there, and nobody looks.
Exportable == {DisplayPin \cup pins : pins \in SUBSET ButtonPin}

\* gpio_free.
Unexported(pins) == exported \ pins

-----------------------------------------------------------------------------
(* main.c.                                                                 *)

\* init_display and init_buttons_module; lcd_fill_screen clears the line.
Start ==
  /\ counter_app = "none"
  /\ counter_app' = "buttons"
  /\ exported' \in Exportable
  /\ host_file' \in BOOLEAN
  /\ UNCHANGED <<running_app, buttons, counter_value, counter_rect_invalidated,
                 frame_buffer, lcd, longest>>

\* gpio_get_value: the level, or an error if the pin is not exported.
Level(pin) == IF pin \in exported THEN {"0", "1"} ELSE {"failed"}

\* The handlers, in the order in which the buttons are polled.
AfterUp(n, click) == IF click = "short" THEN n + 1 ELSE n
AfterDownUnchecked(n, click) ==         \* mutant: no test against zero
  IF click = "short" THEN n - 1 ELSE n
AfterDown(n, click) == IF click = "short" /\ n - 1 >= 0 THEN n - 1 ELSE n
AfterControl(n, click) == IF click = "short" THEN 0 ELSE n

\* process_buttons_module.
ProcessButtons ==
  /\ counter_app = "buttons" /\ running_app
  /\ \E pin \in [ButtonPin -> {"0", "1", "failed"}] :
       LET click == [b \in ButtonPin |-> Click(buttons[b], pin[b])]
       IN /\ \A b \in ButtonPin : pin[b] \in Level(b)
          /\ \A b \in ButtonPin : pin[b] = "0" => buttons[b].press_count <= LongClick
          /\ buttons' = [b \in ButtonPin |-> ButtonAfter(buttons[b], pin[b])]
          /\ counter_value' = AfterControl(AfterDown(AfterUp(
               counter_value, click["up"]), click["down"]), click["control"])
          /\ counter_value' <= MaxCounter
          /\ counter_rect_invalidated' =
               (counter_rect_invalidated \/ \E b \in ButtonPin : click[b] = "short")
          /\ running_app' = (click["control"] # "long")
  /\ counter_app' = "counter"
  /\ UNCHANGED <<frame_buffer, lcd, exported, host_file, longest>>

\* draw_counter_value.
DrawCounter ==
  /\ counter_app = "counter"
  /\ IF counter_rect_invalidated
     THEN /\ frame_buffer' = Put(frame_buffer, Digits(counter_value))
          /\ lcd' = Shown(frame_buffer')
          /\ counter_rect_invalidated' = FALSE
          /\ longest' = Max({longest, Len(Digits(counter_value))})
     ELSE UNCHANGED <<frame_buffer, lcd, counter_rect_invalidated, longest>>
  /\ counter_app' = "time"
  /\ UNCHANGED <<running_app, buttons, counter_value, exported, host_file>>

\* draw_current_time sends the whole frame buffer, too.
DrawTime ==
  /\ counter_app = "time"
  /\ lcd' = Shown(frame_buffer)
  /\ counter_app' = "ip"
  /\ UNCHANGED <<running_app, buttons, counter_value, counter_rect_invalidated, frame_buffer,
                 exported, host_file, longest>>

\* draw_ip_address does not ask whether host.txt could be opened.
DrawIp ==
  /\ counter_app = "ip"
  /\ counter_app' = IF host_file THEN "buttons" ELSE "crashed"
  /\ UNCHANGED <<running_app, buttons, counter_value, counter_rect_invalidated, frame_buffer,
                 lcd, exported, host_file, longest>>

\* deinit_buttons_module and lcd_deinit.
Leave ==
  /\ counter_app = "buttons" /\ ~running_app
  /\ exported' = Unexported(ButtonPin \cup DisplayPin)
  /\ counter_app' = "exited"
  /\ UNCHANGED <<running_app, buttons, counter_value, counter_rect_invalidated, frame_buffer,
                 lcd, host_file, longest>>

CounterNext == Start \/ ProcessButtons \/ DrawCounter \/ DrawTime \/ DrawIp \/ Leave

CounterSpec == CounterInit /\ [][CounterNext]_counterVars

-----------------------------------------------------------------------------
(* The property.                                                           *)

\* After every round the display starts with the digits of the counter, which
\* is never negative.  Behind them is what an earlier, longer number left
\* there (after 10 the number 9 shows as 90), and nothing else.
DisplayShowsCounter ==
  counter_app = "buttons" /\ ~counter_rect_invalidated =>
    /\ counter_value >= 0
    /\ \A c \in Cell :
         /\ c <= Len(Digits(counter_value)) => lcd[c] = Digits(counter_value)[c]
         /\ lcd[c] = Background <=> c > longest
=============================================================================
