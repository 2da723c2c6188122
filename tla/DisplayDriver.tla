---------------------------- MODULE DisplayDriver ----------------------------
(***************************************************************************)
(* The GC9A01 display driver of the final task (display_driver/): loading  *)
(* and unloading the kernel module, the character device through which     *)
(* processes write frames, the shared frame buffer, and the SPI bus with   *)
(* the data/command pin that tells the display what a transfer is.         *)
(*                                                                         *)
(* Nothing in the driver takes a lock: writers interleave at every chunk   *)
(* they copy into the frame buffer, between setting the pin and starting   *)
(* the transfer, and while the controller shifts the buffer out.  The SPI  *)
(* core alone keeps transfers apart (spi_sync, external).                  *)
(*                                                                         *)
(* A frame is a sequence of chunks.  It is sent as pixels alone: the       *)
(* command that says where they go (0x2C, memory write) is sent once, by   *)
(* init, and the display puts each chunk behind the one before it, the     *)
(* first one again behind the last.  What the other commands say is left   *)
(* out, and so is the character region, which init gives back at once.     *)
(***************************************************************************)
EXTENDS Integers, Sequences

CONSTANTS
  Writer,    \* processes that open the device
  Frame,     \* what a chunk of the frame buffer can show
  Chunks,    \* the chunks of a full frame
  Blank      \* a chunk of zero bytes

ASSUME DisplayDriverAssumption ==
  /\ Chunks \in Nat \ {0} /\ Blank \in Frame
  /\ "init" \notin Writer /\ "free" \notin Writer

VARIABLES
  stage,     \* of the module: "unloaded", "setup", "window", "draw", "ready", "oops"
  spi,       \* the SPI device is registered
  device,    \* the character device exists
  buffer,    \* the frame buffer
  screen,    \* what the display shows
  allocated, \* the frame buffer is allocated
  dc,        \* the data/command pin
  bus,       \* "free", or who transfers: "init" or a writer
  sent,      \* the chunks of that transfer that are out
  origin,    \* of the display: how far from its start the next frame begins
  addressed, \* of the display: all commands reached it, the memory write too
  op,        \* of init and of each writer: what it is sending
  pc,        \* of init and of each writer: where it is
  data,      \* of each writer: the chunks its write call is to copy
  copied,    \* of each writer: how many of them it has copied
  faulted,   \* history: a copy or a transfer failed, and none began since
  cut        \* history: a command was lost, or a frame cut in the middle

module == <<stage, spi, device, allocated>>
pixels == <<buffer, screen>>
wire == <<dc, bus, sent>>
display == <<origin, addressed, cut>>
call == <<data, copied>>
vars == <<module, pixels, wire, display, op, pc, call, faulted>>

Party == Writer \cup {"init"}
Chunk == 1 .. Chunks

Init ==
  /\ stage = "unloaded" /\ spi = FALSE /\ device = FALSE /\ allocated = FALSE
  /\ buffer = [c \in Chunk |-> Blank]
  /\ screen = [c \in Chunk |-> Blank]
  /\ dc = 0 /\ bus = "free" /\ sent = 0
  /\ origin = 0 /\ addressed = FALSE /\ cut = FALSE
  /\ op = [p \in Party |-> "frame"]
  /\ pc = [p \in Party |-> "closed"]
  /\ data = [w \in Writer |-> << >>]
  /\ copied = [w \in Writer |-> 0]
  /\ faulted = FALSE

-----------------------------------------------------------------------------
(* Loading.                                                                *)

\* spi_new_device refuses a chip select that is taken.
ChipSelectFree == ~spi

\* init_display.  The pins are requested without looking at the result, and
\* no error path gives anything back.  The display is reset.
InitDisplay ==
  /\ stage = "unloaded"
  /\ \/ UNCHANGED <<stage, spi, allocated, buffer>>       \* no SPI device
     \/ /\ ChipSelectFree                                \* no frame buffer
        /\ spi' = TRUE
        /\ UNCHANGED <<stage, allocated, buffer>>
     \/ /\ ChipSelectFree
        /\ spi' = TRUE /\ allocated' = TRUE
        /\ buffer' \in [Chunk -> Frame]
        /\ stage' = "setup"
  /\ dc' = 0
  /\ addressed' = TRUE /\ cut' = FALSE
  /\ pc' = IF stage' = "setup" THEN [pc EXCEPT !["init"] = "open"] ELSE pc
  /\ UNCHANGED <<device, screen, bus, sent, origin, op, call, faulted>>

\* init_display_internal and lcd_set_address_window: commands and arguments of
\* commands; the last of them all is the command memory write.
Command(last) ==
  /\ stage = "setup" /\ pc["init"] = "open"
  /\ stage' = IF last THEN "window" ELSE stage
  /\ \E kind \in IF last THEN {"command"} ELSE {"command", "argument"} :
       op' = [op EXCEPT !["init"] = kind]
  /\ pc' = [pc EXCEPT !["init"] = "pin"]
  /\ UNCHANGED <<spi, device, allocated, pixels, wire, display, call, faulted>>

\* The drawing calls of display_module_init: pictures drawn into the frame
\* buffer, each sent as soon as it is drawn; then lcd_update_screen.
Draw(last) ==
  /\ stage = "window" /\ pc["init"] = "open"
  /\ stage' = IF last THEN "draw" ELSE stage
  /\ buffer' \in [Chunk -> Frame]
  /\ op' = [op EXCEPT !["init"] = "frame"]
  /\ pc' = [pc EXCEPT !["init"] = "pin"]
  /\ UNCHANGED <<spi, device, allocated, screen, wire, display, call, faulted>>

\* init_display_chardevice, whose result init does not look at; that of
\* class_create is used unseen, too, and when it is an error init never ends.
InitChardev ==
  /\ stage = "draw" /\ pc["init"] = "open"
  /\ \/ /\ stage' = "ready" /\ device' \in BOOLEAN
        /\ pc' = [pc EXCEPT !["init"] = "closed"]
     \/ stage' = "oops" /\ UNCHANGED <<device, pc>>
  /\ UNCHANGED <<spi, allocated, pixels, wire, display, op, call, faulted>>

\* The files hold the module (.owner = THIS_MODULE), so it can be unloaded
\* only when all are closed.
UnusedUnasked == TRUE                   \* mutant: no .owner
Unused == \A w \in Writer : pc[w] = "closed"

\* deinit_display_chardevice takes back what init_display_chardevice may never
\* have made: a class and a cdev that nobody set up may be passed over or not.
Exit ==
  /\ stage = "ready" /\ Unused
  /\ \/ /\ stage' = "unloaded" /\ device' = FALSE
        /\ allocated' = FALSE /\ spi' = FALSE
     \/ /\ ~device /\ stage' = "oops"
        /\ UNCHANGED <<spi, device, allocated>>
  /\ UNCHANGED <<pixels, wire, display, op, pc, call, faulted>>

-----------------------------------------------------------------------------
(* Sending, for init and for the write calls.                              *)

\* gpio_module_set_value(LCD_PIN_DC, ...): low for a command, high for data.
Pin(p) == IF op[p] = "command" THEN 0 ELSE 1

SetPin(p) ==
  /\ pc[p] = "pin"
  /\ dc' = Pin(p)
  /\ pc' = [pc EXCEPT ![p] = "send"]
  /\ UNCHANGED <<module, pixels, bus, sent, display, op, call, faulted>>

\* spi_sync: the controller works on one message at a time.
Begin(p) ==
  /\ pc[p] = "send" /\ bus = "free"
  /\ bus' = p /\ sent' = 0
  /\ faulted' = FALSE
  /\ pc' = [pc EXCEPT ![p] = "transfer"]
  /\ UNCHANGED <<module, pixels, dc, display, op, call>>

\* Where the display puts a chunk of the frame, counted from 1; the next
\* frame begins where the chunk behind the last one sent would go.
Place(c) == IF origin + c > Chunks THEN origin + c - Chunks ELSE origin + c

\* The next chunk of the frame buffer reaches the display.  What it makes of
\* pixels when it has missed a command is anybody's guess.
Shift(p) ==
  /\ bus = p /\ op[p] = "frame" /\ sent < Chunks
  /\ IF addressed
     THEN screen' = [screen EXCEPT ![Place(sent + 1)] = buffer[sent + 1]]
     ELSE screen' \in [Chunk -> Frame]
  /\ sent' = sent + 1
  /\ UNCHANGED <<module, buffer, dc, bus, display, op, pc, call, faulted>>

TransferDoneLate(p) ==                  \* mutant: waits for a chunk too many
  op[p] # "frame" \/ sent > Chunks
TransferDone(p) == op[p] # "frame" \/ sent = Chunks

End(p) ==
  /\ bus = p /\ TransferDone(p)
  /\ bus' = "free"
  /\ pc' = [pc EXCEPT ![p] = "open"]
  /\ origin' = IF op[p] = "frame" THEN origin ELSE 0
  /\ UNCHANGED <<module, pixels, dc, sent, addressed, cut, op, call, faulted>>

\* The transfer fails; neither init nor a write call looks at the result.  No
\* later frame tells the display where to begin: it goes on where this one
\* has stopped.
Fail(p) ==
  /\ bus = p
  /\ bus' = "free" /\ faulted' = TRUE
  /\ pc' = [pc EXCEPT ![p] = "open"]
  /\ IF op[p] = "frame"
     THEN /\ origin' = Place(sent + 1) - 1
          /\ cut' = (cut \/ sent \in 1 .. Chunks - 1)
          /\ UNCHANGED addressed
     ELSE addressed' = FALSE /\ cut' = TRUE /\ UNCHANGED origin
  /\ UNCHANGED <<module, pixels, dc, sent, op, call>>

-----------------------------------------------------------------------------
(* The file operations.                                                    *)

CanOpenEarly == stage # "unloaded"     \* mutant: device made before drawing
CanOpen == stage = "ready" /\ device

\* FileRaiiGuard of display_test_app: without the file it throws.
Open(w) ==
  /\ pc[w] = "closed" /\ CanOpen
  /\ pc' = [pc EXCEPT ![w] = "open"]
  /\ UNCHANGED <<module, pixels, wire, display, op, call, faulted>>

Close(w) ==
  /\ pc[w] = "open"
  /\ pc' = [pc EXCEPT ![w] = "closed"]
  /\ UNCHANGED <<module, pixels, wire, display, op, call, faulted>>

\* FramebufferHolder of display_test_app: a frame of one colour.
Filled(f, n) == [c \in 1 .. n |-> f]

Fits(n) == n <= Chunks

\* display_chardev_write: what does not fit is refused.
Write(w, f, n) ==
  /\ pc[w] = "open" /\ Fits(n)
  /\ pc' = [pc EXCEPT ![w] = "copy"]
  /\ data' = [data EXCEPT ![w] = Filled(f, n)]
  /\ UNCHANGED <<module, pixels, wire, display, op, copied, faulted>>

\* copy_from_user moves on by a chunk.
Copy(w) ==
  /\ pc[w] = "copy" /\ copied[w] < Len(data[w])
  /\ copied' = [copied EXCEPT ![w] = @ + 1]
  /\ buffer' = [buffer EXCEPT ![copied[w] + 1] = data[w][copied[w] + 1]]
  /\ UNCHANGED <<module, screen, wire, display, op, pc, data, faulted>>

CopyEnds(w) ==
  /\ data' = [data EXCEPT ![w] = << >>]
  /\ copied' = [copied EXCEPT ![w] = 0]

\* copy_from_user hits memory it cannot read: it clears what it could not
\* copy, the call returns -EFAULT, and nothing is sent.
Fault(w) ==
  /\ pc[w] = "copy" /\ copied[w] < Len(data[w])
  /\ pc' = [pc EXCEPT ![w] = "open"]
  /\ buffer' = [c \in Chunk |-> IF c > copied[w] /\ c <= Len(data[w])
                                THEN Blank ELSE buffer[c]]
  /\ faulted' = TRUE
  /\ CopyEnds(w)
  /\ UNCHANGED <<module, screen, wire, display, op>>

\* p_display_updater, the lcd_update_screen of gc9a01.c, sends the whole
\* frame buffer, however little was copied.
AfterCopyFullOnly(w) ==                 \* mutant: a short write is not shown
  IF Len(data[w]) = Chunks THEN "pin" ELSE "open"
AfterCopy(w) == "pin"

Update(w) ==
  /\ pc[w] = "copy" /\ copied[w] = Len(data[w])
  /\ pc' = [pc EXCEPT ![w] = AfterCopy(w)]
  /\ CopyEnds(w)
  /\ UNCHANGED <<module, pixels, wire, display, op, faulted>>

InCall(w) == Copy(w) \/ Fault(w) \/ Update(w)
Sending(p) == SetPin(p) \/ Begin(p) \/ Shift(p) \/ End(p) \/ Fail(p)

Next ==
  \/ InitDisplay
  \/ \E last \in BOOLEAN : Command(last) \/ Draw(last)
  \/ InitChardev
  \/ Exit
  \/ \E w \in Writer : Open(w) \/ Close(w) \/ InCall(w)
  \/ \E w \in Writer, f \in Frame, n \in 0 .. Chunks + 1 : Write(w, f, n)
  \/ \E p \in Party : Sending(p)

Spec == Init /\ [][Next]_vars

\* A call into the kernel keeps running, the controller finishes what it is
\* given, and spi_sync serves whoever waits for the bus in the order they came.
Fairness ==
  /\ \A w \in Writer : WF_vars(InCall(w))
  /\ \A p \in Party : WF_vars(SetPin(p)) /\ SF_vars(Begin(p)) /\ WF_vars(Shift(p) \/ End(p))

FairSpec == Spec /\ Fairness

-----------------------------------------------------------------------------
(* Properties.                                                             *)

\* No call touches a frame buffer that the unloading module has freed, and
\* none copies past its end.
BufferOutlivesCalls ==
  /\ (\E p \in Party : pc[p] # "closed") => allocated
  /\ \A w \in Writer : copied[w] <= Chunks /\ Len(data[w]) <= Chunks

\* While a transfer is on the bus the data/command pin says what it is,
\* though any process may set the pin at any time: a frame is never taken
\* for a command, nor a command for data.
PinMatchesTransfer == bus # "free" => dc = Pin(bus)

\* Once no call is under way the display shows the frame buffer, however the
\* calls interleaved: torn frames do not stay.  Only a write that faulted
\* half-way, or a transfer that failed, leaves a difference behind, until the
\* next transfer.  A transfer that was cut in the middle leaves more: from
\* then on every picture is whole but turned, by as many chunks as the failed
\* transfers have sent; and after a lost command it may be anything.
SettledScreenIsBuffer ==
  stage = "ready" /\ ~faulted /\ (\A p \in Party : pc[p] \in {"closed", "open"}) =>
    /\ ~cut => screen = buffer
    /\ addressed => \A c \in Chunk : screen[Place(c)] = buffer[c]

\* A write call returns, also if other processes keep writing.
WritesReturn == \A w \in Writer : (pc[w] = "copy") ~> (pc[w] = "open")
=============================================================================
