------------------------ MODULE DisplayDriver_proofs ------------------------
(***************************************************************************)
(* Proofs about the display driver, for any number of writers and a frame  *)
(* of any size: the frame buffer outlives the calls, and the data/command  *)
(* pin is right during every transfer, although nothing guards it.         *)
(***************************************************************************)
EXTENDS DisplayDriver, TLAPS

TypeInv ==
  /\ stage \in {"unloaded", "setup", "window", "draw", "ready", "oops"}
  /\ device \in BOOLEAN /\ allocated \in BOOLEAN
  /\ dc \in {0, 1} /\ bus \in Party \cup {"free"}
  /\ op \in [Party -> {"command", "argument", "frame"}]
  /\ pc \in [Party -> {"closed", "open", "copy", "pin", "send", "transfer"}]
  /\ data \in [Writer -> Seq(Frame)]
  /\ copied \in [Writer -> Nat]

(* Writers come in when init has gone, and it is the only one to send      *)
(* commands: so everybody who is in a call at some time wants the same     *)
(* from the pin.                                                           *)
OneKindAtATime ==
  /\ stage # "ready" => \A w \in Writer : pc[w] = "closed"
  /\ stage \in {"unloaded", "ready"} => pc["init"] = "closed"
  /\ \A w \in Writer : op[w] = "frame"
  /\ pc["init"] # "copy"

(* The pin is set by whoever is past setting it, and the bus belongs to    *)
(* who is transferring.                                                    *)
PinIsSet == \A p \in Party : pc[p] \in {"send", "transfer"} => dc = Pin(p)
BusIsHeld == bus # "free" => pc[bus] = "transfer"

BufferIsThere == stage # "unloaded" => allocated
CopyFits ==
  \A w \in Writer :
    /\ copied[w] <= Len(data[w]) /\ Len(data[w]) <= Chunks
    /\ pc[w] # "copy" => copied[w] = 0

DriverInv == TypeInv /\ OneKindAtATime /\ PinIsSet /\ BusIsHeld /\ BufferIsThere /\ CopyFits

LEMMA Parties == "init" \in Party /\ Writer \subseteq Party /\ "free" \notin Party
                 /\ \A p \in Party : p \in Writer \/ p = "init"
BY DisplayDriverAssumption DEF Party

LEMMA InitDriverInv == Init => DriverInv
<1> SUFFICES ASSUME Init PROVE DriverInv
  OBVIOUS
<1>1. << >> \in Seq(Frame) /\ Len(<< >>) = 0 /\ Chunks \in Nat
  BY DisplayDriverAssumption
<1>2. TypeInv
  BY <1>1, Parties DEF Init, TypeInv
<1>3. OneKindAtATime /\ PinIsSet /\ BusIsHeld /\ BufferIsThere
  BY Parties DEF Init, OneKindAtATime, PinIsSet, BusIsHeld, BufferIsThere
<1>4. CopyFits
  <2>1. ASSUME NEW w \in Writer
        PROVE  Len(data[w]) = 0 /\ copied[w] = 0
    <3>1. data[w] = << >>
      BY DEF Init
    <3> QED
      BY <1>1, <3>1 DEF Init
  <2>2. 0 <= 0 /\ 0 <= Chunks
    BY <1>1
  <2> QED
    BY <2>1, <2>2 DEF CopyFits
<1> QED
  BY <1>2, <1>3, <1>4 DEF DriverInv

(* Loading and unloading.                                                  *)
LEMMA LoadDriverInv ==
  ASSUME DriverInv,
         InitDisplay \/ (\E last \in BOOLEAN : Command(last) \/ Draw(last))
           \/ InitChardev \/ Exit
  PROVE  DriverInv'
<1> USE Parties
<1>1. CASE InitDisplay
  <2>1. /\ stage = "unloaded" /\ dc' = 0 /\ UNCHANGED <<device, bus, op, data, copied>>
        /\ \/ stage' = stage /\ pc' = pc /\ allocated' = allocated
           \/ stage' = "setup" /\ allocated' = TRUE /\ pc' = [pc EXCEPT !["init"] = "open"]
    BY <1>1 DEF InitDisplay, call
  <2>2. \A p \in Party : pc[p] = "closed"
    BY <2>1 DEF DriverInv, OneKindAtATime
  <2>3. bus = "free"
    BY <2>2 DEF DriverInv, TypeInv, BusIsHeld
  <2>4. \A w \in Writer : pc'[w] = pc[w]
    BY <2>1, DisplayDriverAssumption DEF DriverInv, TypeInv
  <2>5. TypeInv' /\ CopyFits' /\ BufferIsThere'
    BY <2>1, <2>4 DEF DriverInv, TypeInv, CopyFits, BufferIsThere
  <2>6. OneKindAtATime'
    BY <2>1, <2>2, DisplayDriverAssumption DEF DriverInv, TypeInv, OneKindAtATime
  <2>7. PinIsSet' /\ BusIsHeld'
    BY <2>1, <2>2, <2>3 DEF DriverInv, TypeInv, PinIsSet, BusIsHeld
  <2> QED
    BY <2>5, <2>6, <2>7 DEF DriverInv
<1>2. CASE \E last \in BOOLEAN : Command(last) \/ Draw(last)
  <2>1. /\ stage \in {"setup", "window"} /\ stage' \in {"setup", "window", "draw"}
        /\ pc["init"] = "open"
        /\ pc' = [pc EXCEPT !["init"] = "pin"]
        /\ UNCHANGED <<device, allocated, dc, bus, data, copied>>
        /\ \E kind \in {"command", "argument", "frame"} : op' = [op EXCEPT !["init"] = kind]
    BY <1>2 DEF Command, Draw, module, wire, call
  <2>2. TypeInv' /\ CopyFits' /\ BufferIsThere'
    BY <2>1 DEF DriverInv, TypeInv, CopyFits, BufferIsThere
  <2>3. OneKindAtATime'
    BY <2>1, DisplayDriverAssumption DEF DriverInv, TypeInv, OneKindAtATime
  <2>4. \A p \in Party : p # "init" => pc'[p] = pc[p] /\ op'[p] = op[p]
    BY <2>1 DEF DriverInv, TypeInv
  <2>5. pc'["init"] = "pin"
    BY <2>1 DEF DriverInv, TypeInv
  <2>6. PinIsSet' /\ BusIsHeld'
    BY <2>1, <2>4, <2>5 DEF DriverInv, TypeInv, PinIsSet, BusIsHeld, Pin
  <2> QED
    BY <2>2, <2>3, <2>6 DEF DriverInv
<1>3. CASE InitChardev
  <2>1. /\ stage = "draw" /\ pc["init"] = "open"
        /\ \/ stage' = "ready" /\ device' \in BOOLEAN /\ pc' = [pc EXCEPT !["init"] = "closed"]
           \/ stage' = "oops" /\ UNCHANGED <<device, pc>>
        /\ UNCHANGED <<allocated, dc, bus, op, data, copied>>
    BY <1>3 DEF InitChardev, wire, call
  <2>2. TypeInv' /\ CopyFits' /\ BufferIsThere'
    BY <2>1 DEF DriverInv, TypeInv, CopyFits, BufferIsThere
  <2>3. OneKindAtATime' /\ PinIsSet' /\ BusIsHeld'
    BY <2>1, DisplayDriverAssumption
    DEF DriverInv, TypeInv, OneKindAtATime, PinIsSet, BusIsHeld, Pin
  <2> QED
    BY <2>2, <2>3 DEF DriverInv
<1>4. CASE Exit
  <2>1. /\ stage = "ready"
        /\ \/ stage' = "unloaded" /\ device' = FALSE /\ allocated' = FALSE
           \/ stage' = "oops" /\ UNCHANGED <<device, allocated>>
        /\ \A w \in Writer : pc[w] = "closed"
        /\ UNCHANGED <<dc, bus, op, pc, data, copied>>
    BY <1>4 DEF Exit, Unused, wire, call
  <2>2. TypeInv' /\ BufferIsThere'
    <3>1. stage' # "unloaded" => allocated'
      <4>1. allocated
        BY <2>1 DEF DriverInv, BufferIsThere
      <4> QED
        BY <2>1, <4>1, Zenon
    <3>2. device' \in BOOLEAN /\ allocated' \in BOOLEAN
      BY <2>1 DEF DriverInv, TypeInv
    <3>3. BufferIsThere'
      BY <3>1 DEF BufferIsThere
    <3> QED
      BY <2>1, <3>2, <3>3 DEF DriverInv, TypeInv
  <2>3. OneKindAtATime' /\ PinIsSet' /\ BusIsHeld' /\ CopyFits'
    BY <2>1 DEF DriverInv, OneKindAtATime, PinIsSet, BusIsHeld, CopyFits, Pin
  <2> QED
    BY <2>2, <2>3 DEF DriverInv
<1> QED
  BY <1>1, <1>2, <1>3, <1>4

(* Everybody who is in a call wants the same value of the pin.             *)
LEMMA SamePin ==
  ASSUME DriverInv, NEW p \in Party, NEW q \in Party, pc[p] # "closed", pc[q] # "closed"
  PROVE  Pin(p) = Pin(q)
BY Parties DEF DriverInv, TypeInv, OneKindAtATime, Pin

(* The steps of sending leave all but the pin, the bus and the counter of  *)
(* the sender alone.                                                       *)
LEMMA SendingDriverInv ==
  ASSUME DriverInv, NEW p \in Party, Sending(p)
  PROVE  DriverInv'
<1> USE Parties
<1>1. /\ UNCHANGED <<stage, device, allocated, op, data, copied>>
      /\ pc[p] \in {"pin", "send", "transfer"} \/ bus = p
  BY DEF Sending, SetPin, Begin, Shift, End, Fail, module, call
<1>2. pc[p] \in {"pin", "send", "transfer"}
  BY <1>1 DEF DriverInv, BusIsHeld
<1>3. CASE SetPin(p)
  <2>1. /\ dc' = Pin(p) /\ pc' = [pc EXCEPT ![p] = "send"] /\ bus' = bus /\ pc[p] = "pin"
    BY <1>3 DEF SetPin
  <2>2. TypeInv' /\ OneKindAtATime' /\ BufferIsThere' /\ CopyFits'
    BY <1>1, <1>2, <2>1 DEF DriverInv, TypeInv, OneKindAtATime, BufferIsThere, CopyFits, Pin
  <2>3. BusIsHeld'
    BY <2>1 DEF DriverInv, TypeInv, BusIsHeld
  <2>4. PinIsSet'
    <3> SUFFICES ASSUME NEW q \in Party, pc'[q] \in {"send", "transfer"} PROVE dc' = Pin(q)'
      BY DEF PinIsSet
    <3>1. pc[q] # "closed"
      BY <1>2, <2>1 DEF DriverInv, TypeInv
    <3>2. Pin(q)' = Pin(q) /\ Pin(q) = Pin(p)
      BY <1>1, <1>2, <3>1, SamePin DEF Pin
    <3> QED
      BY <2>1, <3>2
  <2> QED
    BY <2>2, <2>3, <2>4 DEF DriverInv
<1>4. CASE Begin(p) \/ Shift(p) \/ End(p) \/ Fail(p)
  <2>1. /\ dc' = dc
        /\ \/ bus' = p /\ pc' = [pc EXCEPT ![p] = "transfer"] /\ pc[p] = "send"
           \/ bus' = bus /\ pc' = pc
           \/ bus' = "free" /\ pc' = [pc EXCEPT ![p] = "open"]
    BY <1>4 DEF Begin, Shift, End, Fail
  <2>2. TypeInv' /\ OneKindAtATime' /\ BufferIsThere' /\ CopyFits'
    BY <1>1, <1>2, <2>1 DEF DriverInv, TypeInv, OneKindAtATime, BufferIsThere, CopyFits
  <2>3. BusIsHeld'
    BY <2>1 DEF DriverInv, TypeInv, BusIsHeld
  <2>4. PinIsSet'
    BY <1>1, <2>1 DEF DriverInv, TypeInv, PinIsSet, Pin
  <2> QED
    BY <2>2, <2>3, <2>4 DEF DriverInv
<1> QED
  BY <1>3, <1>4 DEF Sending

(* The file operations.                                                    *)
LEMMA FileDriverInv ==
  ASSUME DriverInv, NEW w \in Writer,
         Open(w) \/ Close(w) \/ InCall(w)
           \/ (\E f \in Frame, n \in 0 .. Chunks + 1 : Write(w, f, n))
  PROVE  DriverInv'
<1> USE Parties
<1>1. /\ UNCHANGED <<stage, device, allocated, dc, bus, op>>
      /\ stage = "ready"
      /\ \E to \in {"closed", "open", "copy", "pin"} :
           pc' = [pc EXCEPT ![w] = to]
      /\ pc[w] \in {"closed", "open", "copy"}
  <2>1. CASE Open(w)
    BY <2>1 DEF Open, CanOpen, module, wire
  <2>2. CASE ~Open(w)
    <3>1. pc[w] \in {"open", "copy"}
      BY <2>2 DEF Close, InCall, Copy, Fault, Update, Write
    <3>2. stage = "ready"
      BY <3>1 DEF DriverInv, OneKindAtATime
    <3>3. pc' = [pc EXCEPT ![w] = pc[w]] \/ \E to \in {"closed", "open", "copy", "pin"} :
            pc' = [pc EXCEPT ![w] = to]
      BY <2>2 DEF DriverInv, TypeInv, Close, InCall, Copy, Fault, Update, AfterCopy, Write
    <3> QED
      BY <2>2, <3>1, <3>2, <3>3
      DEF Close, InCall, Copy, Fault, Update, Write, module, wire
  <2> QED
    BY <2>1, <2>2
<1>2. data' \in [Writer -> Seq(Frame)] /\ copied' \in [Writer -> Nat] /\ CopyFits'
  <2>1. CASE Open(w) \/ Close(w)
    BY <2>1 DEF Open, Close, call, DriverInv, TypeInv, CopyFits
  <2>2. CASE Copy(w)
    BY <2>2 DEF Copy, DriverInv, TypeInv, CopyFits
  <2>3. CASE Fault(w) \/ Update(w)
    <3>1. << >> \in Seq(Frame) /\ Len(<< >>) = 0 /\ Chunks \in Nat
      BY DisplayDriverAssumption
    <3>2. /\ data' = [data EXCEPT ![w] = << >>] /\ copied' = [copied EXCEPT ![w] = 0]
          /\ \E to \in {"open", "pin"} : pc' = [pc EXCEPT ![w] = to]
      BY <2>3 DEF Fault, Update, AfterCopy, CopyEnds
    <3>3. data' \in [Writer -> Seq(Frame)] /\ copied' \in [Writer -> Nat]
      BY <3>1, <3>2 DEF DriverInv, TypeInv
    <3>4. /\ data'[w] = << >> /\ copied'[w] = 0
          /\ \A v \in Writer \ {w} :
               data'[v] = data[v] /\ copied'[v] = copied[v] /\ pc'[v] = pc[v]
      BY <3>2 DEF DriverInv, TypeInv
    <3> QED
      BY <3>1, <3>3, <3>4 DEF DriverInv, CopyFits
  <2>4. CASE \E f \in Frame, n \in 0 .. Chunks + 1 : Write(w, f, n)
    <3>1. PICK f \in Frame, n \in 0 .. Chunks + 1 : Write(w, f, n)
      BY <2>4
    <3> DEFINE new == [c \in 1 .. n |-> f]
    <3>2. new \in Seq(Frame) /\ Len(new) = n /\ n \in Nat
      BY DisplayDriverAssumption
    <3>3. /\ data' = [data EXCEPT ![w] = new] /\ copied' = copied
          /\ pc' = [pc EXCEPT ![w] = "copy"] /\ pc[w] = "open" /\ n <= Chunks
      BY <3>1 DEF Write, Filled, Fits
    <3> HIDE DEF new
    <3> QED
      BY <3>2, <3>3 DEF DriverInv, TypeInv, CopyFits
  <2> QED
    BY <2>1, <2>2, <2>3, <2>4 DEF InCall
<1>3. PICK to \in {"closed", "open", "copy", "pin"} : pc' = [pc EXCEPT ![w] = to]
  BY <1>1
<1>4. pc'[w] = to /\ \A p \in Party : p # w => pc'[p] = pc[p]
  BY <1>3 DEF DriverInv, TypeInv
<1>5. TypeInv' /\ OneKindAtATime' /\ BufferIsThere'
  BY <1>1, <1>2, <1>4, DisplayDriverAssumption
  DEF DriverInv, TypeInv, OneKindAtATime, BufferIsThere
<1>6. PinIsSet' /\ BusIsHeld'
  BY <1>1, <1>4 DEF DriverInv, TypeInv, PinIsSet, BusIsHeld, Pin
<1> QED
  BY <1>2, <1>5, <1>6 DEF DriverInv

(* The inductive invariant.                                                *)
THEOREM DriverInvariant == Spec => []DriverInv
<1>1. DriverInv /\ [Next]_vars => DriverInv'
  <2> SUFFICES ASSUME DriverInv, [Next]_vars PROVE DriverInv'
    OBVIOUS
  <2>1. CASE InitDisplay \/ (\E last \in BOOLEAN : Command(last) \/ Draw(last))
               \/ InitChardev \/ Exit
    BY <2>1, LoadDriverInv
  <2>2. CASE \E w \in Writer : Open(w) \/ Close(w) \/ InCall(w)
    BY <2>2, FileDriverInv
  <2>3. CASE \E w \in Writer, f \in Frame, n \in 0 .. Chunks + 1 : Write(w, f, n)
    BY <2>3, FileDriverInv
  <2>4. CASE \E p \in Party : Sending(p)
    BY <2>4, SendingDriverInv
  <2>5. CASE UNCHANGED vars
    BY <2>5 DEF vars, module, pixels, wire, call, DriverInv, TypeInv, OneKindAtATime,
                PinIsSet, BusIsHeld, BufferIsThere, CopyFits, Pin
  <2> QED
    BY <2>1, <2>2, <2>3, <2>4, <2>5 DEF Next
<1> QED
  BY <1>1, InitDriverInv, PTL DEF Spec

(* No call touches a frame buffer that the unloading module has freed, and *)
(* none copies past its end.                                               *)
THEOREM BufferOutlives == Spec => []BufferOutlivesCalls
<1>1. DriverInv => BufferOutlivesCalls
  <2> SUFFICES ASSUME DriverInv PROVE BufferOutlivesCalls
    OBVIOUS
  <2>1. ASSUME NEW p \in Party, pc[p] # "closed" PROVE allocated
    BY <2>1, Parties DEF DriverInv, OneKindAtATime, BufferIsThere
  <2>2. ASSUME NEW w \in Writer PROVE copied[w] <= Chunks /\ Len(data[w]) <= Chunks
    <3>1. copied[w] \in Nat /\ Len(data[w]) \in Nat /\ Chunks \in Nat
      BY DisplayDriverAssumption DEF DriverInv, TypeInv
    <3> QED
      BY <3>1 DEF DriverInv, CopyFits
  <2> QED
    BY <2>1, <2>2 DEF BufferOutlivesCalls
<1> QED
  BY <1>1, DriverInvariant, PTL

(* While a transfer is on the bus, the pin says what it is.                *)
THEOREM PinIsRight == Spec => []PinMatchesTransfer
<1>1. DriverInv => PinMatchesTransfer
  BY DEF DriverInv, TypeInv, BusIsHeld, PinIsSet, PinMatchesTransfer
<1> QED
  BY <1>1, DriverInvariant, PTL

(***************************************************************************)
(* What the display shows.                                                 *)
(***************************************************************************)

PixelsOK ==
  /\ buffer \in [Chunk -> Frame] /\ screen \in [Chunk -> Frame]
  /\ sent \in 0 .. Chunks /\ origin \in 0 .. Chunks - 1
  /\ faulted \in BOOLEAN /\ addressed \in BOOLEAN /\ cut \in BOOLEAN

(* From the first picture of init on only frames are sent.                 *)
Drawn == stage \in {"draw", "ready", "oops"}
FramesOnly == Drawn => op["init"] = "frame"

(* As long as no command was lost and no frame cut, the display knows      *)
(* where pixels go, and, once the memory write has reached it, its next    *)
(* frame begins at the start.                                              *)
CommandOnItsWay == op["init"] # "frame" /\ pc["init"] \in {"pin", "send", "transfer"}
Uncut ==
  /\ ~cut /\ stage # "unloaded" => addressed
  /\ ~cut /\ (stage = "window" \/ Drawn) => origin = 0 \/ CommandOnItsWay

(* p is on its way to a transfer, which will show whatever the frame       *)
(* buffer holds by then.                                                   *)
WillSend(p) == pc[p] \in {"copy", "pin", "send"}

(* When nobody is, the transfer on the bus, if any, is the last, and all   *)
(* that it has sent already is still what the frame buffer holds, at the   *)
(* place where the display has put it.                                     *)
ScreenFollows ==
  Drawn /\ addressed /\ ~faulted /\ (\A p \in Party : ~WillSend(p)) =>
    \A c \in Chunk : screen[Place(c)] # buffer[c] => bus # "free" /\ c > sent

ScreenInv == PixelsOK /\ FramesOnly /\ Uncut /\ ScreenFollows

(* A frame goes once round the display and takes each place once.          *)
LEMMA PlaceOfChunk ==
  ASSUME PixelsOK
  PROVE  /\ \A c \in Chunk : Place(c) \in Chunk
         /\ \A c, d \in Chunk : Place(c) = Place(d) => c = d
         /\ \A c \in Chunk : origin = 0 => Place(c) = c
<1>1. Chunks \in Nat \ {0} /\ origin \in 0 .. Chunks - 1
  BY DisplayDriverAssumption DEF PixelsOK
<1> QED
  BY <1>1 DEF Place, Chunk

(* Where the frame after one that has stopped begins.                      *)
LEMMA PlaceOfNext ==
  ASSUME PixelsOK
  PROVE  /\ Place(sent + 1) - 1 \in 0 .. Chunks - 1
         /\ origin = 0 /\ sent \notin 1 .. Chunks - 1 => Place(sent + 1) - 1 = 0
<1>1. Chunks \in Nat \ {0} /\ origin \in 0 .. Chunks - 1 /\ sent \in 0 .. Chunks
  BY DisplayDriverAssumption DEF PixelsOK
<1> QED
  BY <1>1 DEF Place

LEMMA InitScreenInv == Init => ScreenInv
<1> SUFFICES ASSUME Init PROVE ScreenInv
  OBVIOUS
<1>1. PixelsOK
  <2>1. 0 \in 0 .. Chunks /\ 0 \in 0 .. Chunks - 1
    BY DisplayDriverAssumption
  <2> QED
    BY <2>1, DisplayDriverAssumption DEF Init, PixelsOK
<1>2. stage = "unloaded" /\ ~Drawn
  BY DEF Init, Drawn
<1> QED
  BY <1>1, <1>2 DEF ScreenInv, FramesOnly, ScreenFollows, Uncut

LEMMA LoadScreenInv ==
  ASSUME DriverInv, ScreenInv,
         InitDisplay \/ (\E last \in BOOLEAN : Command(last) \/ Draw(last))
           \/ InitChardev \/ Exit
  PROVE  ScreenInv'
<1> USE DEF ScreenInv, FramesOnly
<1>1. CASE InitDisplay
  <2>1. /\ stage' \in {"unloaded", "setup"} /\ buffer' \in [Chunk -> Frame]
        /\ addressed' = TRUE /\ cut' = FALSE
        /\ UNCHANGED <<screen, sent, faulted, origin>>
    BY <1>1 DEF InitDisplay, DriverInv, TypeInv, PixelsOK
  <2>2. PixelsOK'
    BY <2>1 DEF PixelsOK
  <2> QED
    BY <2>1, <2>2 DEF ScreenFollows, Drawn, Uncut
<1>2. CASE \E last \in BOOLEAN : Command(last)
  <2>1. /\ stage = "setup" /\ stage' \in {"setup", "window"}
        /\ UNCHANGED <<buffer, screen, sent, faulted, origin, addressed, cut>>
        /\ \E kind \in {"command", "argument"} : op' = [op EXCEPT !["init"] = kind]
        /\ pc' = [pc EXCEPT !["init"] = "pin"]
    BY <1>2 DEF Command, pixels, wire, display
  <2>2. PixelsOK' /\ CommandOnItsWay' /\ ~Drawn'
    BY <2>1, Parties DEF PixelsOK, CommandOnItsWay, Drawn, DriverInv, TypeInv
  <2> QED
    BY <2>1, <2>2 DEF ScreenFollows, Uncut
<1>3. CASE \E last \in BOOLEAN : Draw(last)
  <2>1. /\ stage = "window" /\ stage' \in {"window", "draw"} /\ pc["init"] = "open"
        /\ buffer' \in [Chunk -> Frame]
        /\ UNCHANGED <<screen, sent, faulted, origin, addressed, cut>>
        /\ op' = [op EXCEPT !["init"] = "frame"] /\ pc' = [pc EXCEPT !["init"] = "pin"]
    BY <1>3 DEF Draw, wire, display
  <2>2. PixelsOK' /\ op'["init"] = "frame" /\ WillSend("init")'
    BY <2>1, Parties DEF PixelsOK, DriverInv, TypeInv, WillSend
  <2>3. Uncut'
    BY <2>1 DEF Uncut, CommandOnItsWay
  <2> QED
    BY <2>1, <2>2, <2>3, Parties DEF ScreenFollows
<1>4. CASE InitChardev
  <2>1. /\ Drawn /\ Drawn' /\ stage # "unloaded"
        /\ UNCHANGED <<buffer, screen, bus, sent, op, faulted, origin, addressed, cut>>
        /\ pc' = [pc EXCEPT !["init"] = "closed"] \/ pc' = pc
        /\ pc["init"] = "open"
    BY <1>4 DEF InitChardev, Drawn, pixels, wire, display
  <2>2. \A p \in Party : WillSend(p)' <=> WillSend(p)
    BY <2>1 DEF DriverInv, TypeInv, WillSend
  <2>3. \A c : Place(c)' = Place(c)
    BY <2>1 DEF Place
  <2>4. ScreenFollows'
    BY <2>1, <2>2, <2>3 DEF ScreenFollows
  <2>5. PixelsOK' /\ Uncut'
    BY <2>1 DEF PixelsOK, Uncut, CommandOnItsWay
  <2> QED
    BY <2>1, <2>4, <2>5
<1>5. CASE Exit
  <2>1. /\ stage = "ready" /\ stage' \in {"unloaded", "oops"}
        /\ UNCHANGED <<buffer, screen, bus, sent, op, pc, faulted, origin, addressed, cut>>
    BY <1>5 DEF Exit, pixels, wire, display
  <2>2. /\ \A c : Place(c)' = Place(c)
        /\ \A p \in Party : WillSend(p)' <=> WillSend(p)
    BY <2>1 DEF Place, WillSend
  <2>3. ScreenFollows'
    BY <2>1, <2>2 DEF ScreenFollows, Drawn
  <2>4. PixelsOK' /\ Uncut' /\ FramesOnly'
    BY <2>1 DEF PixelsOK, Uncut, CommandOnItsWay, Drawn
  <2> QED
    BY <2>3, <2>4
<1> QED
  BY <1>1, <1>2, <1>3, <1>4, <1>5

LEMMA SendingScreenInv ==
  ASSUME DriverInv, ScreenInv, NEW p \in Party, Sending(p)
  PROVE  ScreenInv'
<1> USE DEF ScreenInv, FramesOnly
<1>0. Chunks \in Nat /\ UNCHANGED <<stage, op, buffer>> /\ Drawn' = Drawn
  BY DisplayDriverAssumption
  DEF Sending, SetPin, Begin, Shift, End, Fail, module, pixels, Drawn
<1>1. CASE SetPin(p)
  <2>1. /\ UNCHANGED <<screen, bus, sent, faulted, origin, addressed, cut>>
        /\ pc' = [pc EXCEPT ![p] = "send"] /\ pc[p] = "pin"
    BY <1>1 DEF SetPin, pixels, display
  <2>2. /\ \A q \in Party : WillSend(q)' <=> WillSend(q)
        /\ CommandOnItsWay' <=> CommandOnItsWay
        /\ \A c : Place(c)' = Place(c)
    BY <1>0, <2>1 DEF DriverInv, TypeInv, WillSend, CommandOnItsWay, Place
  <2>3. ScreenFollows'
    BY <1>0, <2>1, <2>2 DEF ScreenFollows
  <2>4. PixelsOK' /\ Uncut'
    BY <1>0, <2>1, <2>2 DEF PixelsOK, Uncut
  <2> QED
    BY <1>0, <2>3, <2>4
<1>2. CASE Begin(p)
  <2>1. /\ UNCHANGED <<screen, origin, addressed, cut>> /\ bus' = p /\ sent' = 0
        /\ faulted' = FALSE /\ pc' = [pc EXCEPT ![p] = "transfer"] /\ pc[p] = "send"
    BY <1>2 DEF Begin, pixels, display
  <2>2. bus' # "free" /\ sent' \in 0 .. Chunks /\ \A c \in Chunk : c > sent'
    BY <1>0, <2>1, Parties DEF Chunk
  <2>3. CommandOnItsWay' <=> CommandOnItsWay
    BY <1>0, <2>1 DEF DriverInv, TypeInv, CommandOnItsWay
  <2>4. ScreenFollows'
    BY <2>2 DEF ScreenFollows
  <2>5. PixelsOK' /\ Uncut'
    BY <1>0, <2>1, <2>2, <2>3 DEF PixelsOK, Uncut
  <2> QED
    BY <1>0, <2>4, <2>5
<1>3. CASE Shift(p)
  <2>1. /\ UNCHANGED <<pc, bus, faulted, origin, addressed, cut>> /\ bus # "free"
        /\ sent + 1 \in Chunk /\ sent' = sent + 1 /\ sent \in Nat /\ Chunk \subseteq Nat
    BY <1>0, <1>3, Parties DEF Shift, Chunk, display, PixelsOK
  <2>2. /\ addressed => screen' = [screen EXCEPT ![Place(sent + 1)] = buffer[sent + 1]]
        /\ ~addressed => screen' \in [Chunk -> Frame]
    BY <1>3 DEF Shift
  <2>3. /\ \A c \in Chunk : Place(c) \in Chunk
        /\ \A c, d \in Chunk : Place(c) = Place(d) => c = d
    BY PlaceOfChunk
  <2>4. screen' \in [Chunk -> Frame] /\ sent' \in 0 .. Chunks
    BY <1>0, <2>1, <2>2 DEF Chunk, PixelsOK
  <2>5. /\ \A q \in Party : WillSend(q)' <=> WillSend(q)
        /\ CommandOnItsWay' <=> CommandOnItsWay
        /\ \A c : Place(c)' = Place(c)
    BY <1>0, <2>1 DEF WillSend, CommandOnItsWay, Place
  <2>6. ScreenFollows'
    <3> SUFFICES ASSUME Drawn, addressed, ~faulted, \A q \in Party : ~WillSend(q),
                        NEW c \in Chunk, screen'[Place(c)] # buffer[c]
                 PROVE  c > sent + 1
      BY <1>0, <2>1, <2>5 DEF ScreenFollows
    <3>1. c # sent + 1
      BY <2>1, <2>2, <2>3 DEF PixelsOK
    <3>2. screen'[Place(c)] = screen[Place(c)]
      BY <2>1, <2>2, <2>3, <3>1 DEF PixelsOK
    <3>3. c > sent
      BY <3>2 DEF ScreenFollows
    <3> QED
      BY <2>1, <3>1, <3>3
  <2>7. PixelsOK' /\ Uncut'
    BY <1>0, <2>1, <2>4, <2>5 DEF PixelsOK, Uncut
  <2> QED
    BY <1>0, <2>6, <2>7
<1>4. CASE End(p)
  <2>1. /\ UNCHANGED <<screen, sent, faulted, addressed, cut>> /\ TransferDone(p) /\ bus = p
        /\ pc' = [pc EXCEPT ![p] = "open"]
        /\ origin' = IF op[p] = "frame" THEN origin ELSE 0
    BY <1>4 DEF End, pixels
  <2>2. \A q \in Party : q # p => (WillSend(q)' <=> WillSend(q))
    BY <2>1 DEF DriverInv, TypeInv, WillSend
  <2>3. ~WillSend(p)
    BY <2>1, Parties DEF DriverInv, BusIsHeld, WillSend
  <2>4. op[p] # "frame" => p = "init"
    BY Parties DEF DriverInv, OneKindAtATime
  <2>5. ASSUME Drawn
        PROVE  op[p] = "frame" /\ origin' = origin /\ \A c \in Chunk : ~(c > sent)
    <3>1. op[p] = "frame"
      BY <2>5, Parties DEF DriverInv, OneKindAtATime
    <3> QED
      BY <1>0, <2>1, <3>1 DEF TransferDone, Chunk
  <2>6. ASSUME Drawn PROVE \A c : Place(c)' = Place(c)
    BY <2>5, <2>6 DEF Place
  <2>7. ScreenFollows'
    BY <1>0, <2>1, <2>2, <2>3, <2>5, <2>6 DEF ScreenFollows
  <2>8. origin' = 0 \/ (origin' = origin /\ (CommandOnItsWay => CommandOnItsWay'))
    <3>1. CASE op[p] # "frame"
      BY <2>1, <3>1
    <3>2. CASE op[p] = "frame"
      BY <1>0, <2>1, <3>2 DEF DriverInv, TypeInv, CommandOnItsWay
    <3> QED
      BY <3>1, <3>2
  <2>9. PixelsOK' /\ Uncut'
    <3>1. origin' \in 0 .. Chunks - 1
      BY <2>1, DisplayDriverAssumption DEF PixelsOK
    <3> QED
      BY <1>0, <2>1, <2>8, <3>1 DEF PixelsOK, Uncut
  <2> QED
    BY <1>0, <2>7, <2>9
<1>5. CASE Fail(p)
  <2>1. /\ UNCHANGED <<screen, sent>> /\ faulted' = TRUE /\ bus = p
        /\ pc' = [pc EXCEPT ![p] = "open"]
    BY <1>5 DEF Fail, pixels
  <2>2. CASE op[p] # "frame"
    <3>1. addressed' = FALSE /\ cut' = TRUE /\ origin' = origin
      BY <1>5, <2>2 DEF Fail
    <3> QED
      BY <1>0, <2>1, <3>1 DEF PixelsOK, Uncut, ScreenFollows
  <2>3. CASE op[p] = "frame"
    <3>1. /\ origin' = Place(sent + 1) - 1 /\ addressed' = addressed
          /\ cut' = (cut \/ sent \in 1 .. Chunks - 1)
      BY <1>5, <2>3 DEF Fail
    <3>2. /\ Place(sent + 1) - 1 \in 0 .. Chunks - 1
          /\ origin = 0 /\ sent \notin 1 .. Chunks - 1 => Place(sent + 1) - 1 = 0
      BY PlaceOfNext
    <3>3. PixelsOK'
      BY <1>0, <2>1, <3>1, <3>2 DEF PixelsOK
    <3>4. ~CommandOnItsWay
      <4>1. p # "init" => pc["init"] = "closed"
        <5> SUFFICES ASSUME p # "init" PROVE pc["init"] = "closed"
          OBVIOUS
        <5>1. p \in Writer /\ pc[p] = "transfer"
          BY <2>1, Parties DEF DriverInv, BusIsHeld
        <5> QED
          BY <5>1 DEF DriverInv, OneKindAtATime
      <4> QED
        BY <2>3, <4>1 DEF CommandOnItsWay
    <3>5. Uncut'
      <4> SUFFICES ASSUME ~cut'
                   PROVE  /\ stage # "unloaded" => addressed
                          /\ stage = "window" \/ Drawn => origin' = 0
        BY <1>0, <3>1 DEF Uncut
      <4>1. ~cut /\ sent \notin 1 .. Chunks - 1
        BY <3>1
      <4> QED
        BY <3>1, <3>2, <3>4, <4>1 DEF Uncut
    <3> QED
      BY <1>0, <2>1, <3>3, <3>5 DEF ScreenFollows
  <2> QED
    BY <2>2, <2>3
<1> QED
  BY <1>1, <1>2, <1>3, <1>4, <1>5 DEF Sending

LEMMA FileScreenInv ==
  ASSUME DriverInv, ScreenInv, NEW w \in Writer,
         Open(w) \/ Close(w) \/ InCall(w)
           \/ (\E f \in Frame, n \in 0 .. Chunks + 1 : Write(w, f, n))
  PROVE  ScreenInv'
<1> USE Parties DEF ScreenInv, FramesOnly
<1>0. /\ UNCHANGED <<stage, op, screen, bus, sent, origin, addressed, cut>> /\ Drawn' = Drawn
      /\ pc'["init"] = pc["init"]
  <2>1. UNCHANGED <<stage, op, screen, bus, sent, origin, addressed, cut>>
    BY DEF Open, Close, InCall, Copy, Fault, Update, Write, module, pixels, wire, display
  <2>2. "init" # w
    BY DisplayDriverAssumption
  <2>3. pc' = pc \/ \E to : pc' = [pc EXCEPT ![w] = to]
    BY DEF Open, Close, InCall, Copy, Fault, Update, Write
  <2> QED
    BY <2>1, <2>2, <2>3 DEF Drawn, DriverInv, TypeInv
<1>u. Uncut'
  BY <1>0 DEF Uncut, CommandOnItsWay
<1>p. \A c : Place(c)' = Place(c)
  BY <1>0 DEF Place
<1>1. CASE Open(w) \/ Close(w)
  <2>1. /\ UNCHANGED <<buffer, faulted>> /\ ~WillSend(w)
        /\ \E to \in {"open", "closed"} : pc' = [pc EXCEPT ![w] = to]
    BY <1>1 DEF Open, Close, pixels, WillSend
  <2>2. \A q \in Party : WillSend(q)' <=> WillSend(q)
    BY <2>1 DEF DriverInv, TypeInv, WillSend
  <2>3. ScreenFollows'
    BY <1>0, <1>p, <2>1, <2>2 DEF ScreenFollows
  <2> QED
    BY <1>0, <1>u, <2>1, <2>3 DEF PixelsOK
<1>2. CASE Copy(w)
  <2>1. data[w] \in Seq(Frame) /\ copied[w] + 1 \in 1 .. Len(data[w])
    BY <1>2 DEF Copy, DriverInv, TypeInv
  <2>2. data[w][copied[w] + 1] \in Frame
    BY <2>1
  <2>3. buffer' \in [Chunk -> Frame] /\ UNCHANGED <<pc, faulted>> /\ pc[w] = "copy"
    BY <1>2, <2>2 DEF Copy, PixelsOK
  <2>4. ScreenFollows'
    BY <2>3 DEF ScreenFollows, WillSend
  <2> QED
    BY <1>0, <1>u, <2>3, <2>4 DEF PixelsOK
<1>3. CASE Fault(w)
  <2>1. buffer' \in [Chunk -> Frame] /\ faulted' = TRUE
    BY <1>3, DisplayDriverAssumption DEF Fault, PixelsOK
  <2> QED
    BY <1>0, <1>u, <2>1 DEF ScreenFollows, PixelsOK
<1>4. CASE Update(w) \/ (\E f \in Frame, n \in 0 .. Chunks + 1 : Write(w, f, n))
  <2>1. /\ UNCHANGED <<buffer, faulted>>
        /\ \E to \in {"pin", "copy"} : pc' = [pc EXCEPT ![w] = to]
    BY <1>4 DEF Update, AfterCopy, Write, pixels
  <2>2. WillSend(w)'
    BY <2>1 DEF DriverInv, TypeInv, WillSend
  <2> QED
    BY <1>0, <1>u, <2>1, <2>2 DEF ScreenFollows, PixelsOK
<1> QED
  BY <1>1, <1>2, <1>3, <1>4 DEF InCall

(* Once no call is under way the display shows the frame buffer: whatever  *)
(* the writers do to each other's frames, torn ones do not stay.  A        *)
(* transfer that was cut in the middle turns the pictures after it, and    *)
(* nothing else but a lost command does.                                   *)
THEOREM SettledScreen == Spec => []SettledScreenIsBuffer
<1>1. DriverInv /\ ScreenInv /\ [Next]_vars => ScreenInv'
  <2> SUFFICES ASSUME DriverInv, ScreenInv, [Next]_vars PROVE ScreenInv'
    OBVIOUS
  <2>1. CASE UNCHANGED vars
    BY <2>1 DEF vars, module, pixels, wire, display, call, ScreenInv, PixelsOK, FramesOnly,
                ScreenFollows, Uncut, CommandOnItsWay, Place, Drawn, WillSend
  <2> QED
    BY <2>1, LoadScreenInv, SendingScreenInv, FileScreenInv DEF Next
<1>2. DriverInv /\ ScreenInv => SettledScreenIsBuffer
  <2> SUFFICES ASSUME DriverInv, ScreenInv, stage = "ready", ~faulted,
                      \A p \in Party : pc[p] \in {"closed", "open"}
               PROVE  /\ ~cut => screen = buffer
                      /\ addressed => \A c \in Chunk : screen[Place(c)] = buffer[c]
    BY DEF SettledScreenIsBuffer
  <2>1. bus = "free"
    BY DEF DriverInv, TypeInv, BusIsHeld
  <2>2. Drawn /\ \A p \in Party : ~WillSend(p)
    BY DEF Drawn, WillSend
  <2>3. addressed => \A c \in Chunk : screen[Place(c)] = buffer[c]
    BY <2>1, <2>2 DEF ScreenInv, ScreenFollows
  <2>4. ASSUME ~cut PROVE screen = buffer
    <3>1. addressed /\ origin = 0
      BY <2>2, <2>4 DEF ScreenInv, Uncut, FramesOnly, CommandOnItsWay
    <3>2. \A c \in Chunk : Place(c) = c
      BY <3>1, PlaceOfChunk DEF ScreenInv
    <3>3. \A c \in Chunk : screen[c] = buffer[c]
      BY <2>3, <3>1, <3>2
    <3> QED
      BY <3>3 DEF ScreenInv, PixelsOK
  <2> QED
    BY <2>3, <2>4
<1> QED
  BY <1>1, <1>2, InitScreenInv, DriverInvariant, PTL DEF Spec
=============================================================================
