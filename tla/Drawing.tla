------------------------------- MODULE Drawing -------------------------------
(***************************************************************************)
(* The drawing calls of the display driver (display_driver/gc9a01.c),      *)
(* which write pixels into the frame buffer by their address.  Memory      *)
(* behind the frame buffer is part of the model: the calls check less than *)
(* they seem to.                                                           *)
(***************************************************************************)
EXTENDS Integers, Sequences, SequencesExt

CONSTANTS
  Width, Height,           \* LCD_WIDTH, LCD_HEIGHT
  FontWidth, FontHeight,
  Glyph,                   \* the pixels of each character that are set, as << column, row >>
  Strings                  \* what is written, as sequences of characters

ASSUME DrawingAssumption ==
  /\ Width \in Nat \ {0} /\ Height \in Nat \ {0}
  /\ FontWidth \in 1 .. Width /\ FontHeight \in 1 .. Height
  /\ Strings \subseteq Seq(DOMAIN Glyph)

VARIABLES
  pixels,    \* the frame buffer and the memory behind it, by address
  drawing    \* the call that was made: its arguments and its local variables

drawingVars == <<pixels, drawing>>

FrameSize == Width * Height
Address == 0 .. FrameSize + Width * (FontHeight + Height) - 1

DrawingInit ==
  /\ pixels = [a \in Address |-> "blank"]
  /\ drawing = [op |-> "none"]

At(x, y) == x + Width * y

\* lcd_draw_pixel.
DrawPixel(x, y) ==
  /\ drawing.op = "none"
  /\ drawing' = [op |-> "pixel", x |-> x, y |-> y, w |-> 1, h |-> 1]
  /\ pixels' = IF x >= Width \/ y >= Height THEN pixels
               ELSE [pixels EXCEPT ![At(x, y)] = "color"]

\* lcd_fill_rectangle.  The last column of a rectangle is x + w - 1.
Clipped(at, extent, limit) == IF at + extent - 1 > limit THEN limit - at ELSE extent

FillRectangle(x, y, w, h) ==
  /\ drawing.op = "none"
  /\ drawing' = [op |-> "rectangle", x |-> x, y |-> y, w |-> w, h |-> h]
  /\ LET filled == {At(x, y) + At(i, j) : i \in 0 .. Clipped(x, w, Width) - 1,
                                          j \in 0 .. Clipped(y, h, Height) - 1}
     IN pixels' = IF x >= Width \/ y >= Height THEN pixels
                  ELSE [a \in Address |-> IF a \in filled THEN "color" ELSE pixels[a]]

\* lcd_put_char, which checks nothing.
PutChar(frame, x, y, ch) ==
  LET Pixel(a) == << (a - At(x, y)) % Width, (a - At(x, y)) \div Width >>
  IN [a \in Address |->
        IF a < At(x, y) \/ Pixel(a)[1] >= FontWidth \/ Pixel(a)[2] >= FontHeight
        THEN frame[a]
        ELSE IF Pixel(a) \in Glyph[ch] THEN "color" ELSE "bgcolor"]

\* lcd_put_string: whether the line fits is asked before the text moves on to
\* the next one.
StopsNever(y) == FALSE                  \* mutant: text does not end at the bottom
Stops(y) == y + FontHeight > Height

PutString(x, y, string) ==
  /\ drawing.op = "none"
  /\ drawing' = [op |-> "string", x |-> x, y |-> y, string |-> string,
                 local_x |-> x, local_y |-> y, i |-> 0, returned |-> FALSE]
  /\ UNCHANGED pixels

\* One iteration of its loop.
NextCharacter ==
  /\ drawing.op = "string" /\ ~drawing.returned
  /\ drawing.i < Len(drawing.string) /\ ~Stops(drawing.local_y)
  /\ LET wraps == drawing.local_x + FontWidth > Width
         x1 == IF wraps THEN drawing.x ELSE drawing.local_x
         y1 == IF wraps THEN drawing.local_y + FontHeight ELSE drawing.local_y
     IN /\ pixels' = PutChar(pixels, x1, y1, drawing.string[drawing.i + 1])
        /\ drawing' = [drawing EXCEPT !.local_x = x1 + FontWidth, !.local_y = y1,
                                      !.i = @ + 1]

StringReturns ==
  /\ drawing.op = "string" /\ ~drawing.returned
  /\ drawing.i = Len(drawing.string) \/ Stops(drawing.local_y)
  /\ drawing' = [drawing EXCEPT !.returned = TRUE]
  /\ UNCHANGED pixels

DrawingNext ==
  \/ \E x \in 0 .. Width, y \in 0 .. Height :
       \/ DrawPixel(x, y)
       \/ \E w \in 0 .. Width + 2, h \in 0 .. Height + 2 : FillRectangle(x, y, w, h)
       \/ \E string \in Strings : PutString(x, y, string)
  \/ NextCharacter \/ StringReturns

DrawingSpec == DrawingInit /\ [][DrawingNext]_drawingVars

-----------------------------------------------------------------------------
(* Properties.                                                             *)

Drawn == {a \in Address : pixels[a] # "blank"}

\* A rectangle or a pixel is drawn where it meets the screen, and nothing
\* else is; but not if the rectangle ends one column or one line behind the
\* screen, which the code takes for inside.
RectangleIsClipped ==
  drawing.op \in {"pixel", "rectangle"} =>
    LET d == drawing
    IN d.x + d.w # Width + 1 /\ d.y + d.h # Height + 1 =>
         Drawn = {At(px, py) : px \in (d.x .. d.x + d.w - 1) \cap (0 .. Width - 1),
                               py \in (d.y .. d.y + d.h - 1) \cap (0 .. Height - 1)}

\* Text that starts on the screen fills its lines from left to right, as many
\* characters as fit in each, and as many lines as fit.  If there is more of
\* it, exactly one character more is drawn, below the last line, and that is
\* where the frame buffer ends.
TextIsLaidOut ==
  /\ drawing.op = "string" /\ drawing.returned
  /\ drawing.x + FontWidth <= Width /\ drawing.y + FontHeight <= Height
  =>
    LET perLine == (Width - drawing.x) \div FontWidth
        lines == (Height - drawing.y) \div FontHeight
        n == Len(drawing.string)
        shown == IF n > perLine * lines THEN perLine * lines + 1 ELSE n
        Column(k) == drawing.x + FontWidth * (k % perLine)
        Line(k) == drawing.y + FontHeight * (k \div perLine)
    IN /\ Drawn = {At(Column(k) + i, Line(k) + j) : k \in 0 .. shown - 1,
                     i \in 0 .. FontWidth - 1, j \in 0 .. FontHeight - 1}
       /\ (\E a \in Drawn : a >= FrameSize) <=> n > perLine * lines

\* Every call, whatever its arguments, draws what it says, with the three
\* exceptions named above.
DrawnAsAsked == RectangleIsClipped /\ TextIsLaidOut
=============================================================================
