------------------------------ MODULE Display ------------------------------
(***************************************************************************)
(* The LCD driver (lcd_spi.c): drawing into the ram of the device, and     *)
(* sending the ram to the panel.                                           *)
(*                                                                         *)
(* todo holds the calls that are still to be made, the running one first;  *)
(* a call that makes other calls is replaced by them.  The ram is the set  *)
(* of the pixels that are 1.  Coordinates are passed as uint8_t, so each   *)
(* is taken modulo Byte, while int variables keep their sign.              *)
(***************************************************************************)
EXTENDS Integers, Sequences

CONSTANTS
  Width, Height,    \* of the screen (128, 64)
  PageRows,         \* rows of a page of the panel (8)
  Byte,             \* values of a uint8_t (256)
  GlyphWidth, GlyphHeight, Pitch,   \* of the font and of a string (5, 8, 6)
  Font,             \* the pixels of each character it has
  Jobs              \* what is drawn: [ground, call]

ASSUME ScreenAssumption ==
  /\ {PageRows, Byte, GlyphWidth, GlyphHeight, Pitch} \subseteq Nat
  /\ PageRows > 0 /\ Height % PageRows = 0
  /\ Width \in 1 .. Byte /\ Height \in 1 .. Byte
  /\ GlyphWidth <= Pitch

\* The drawing calls with their arguments, and the loops of those that have one.
Coordinate == 0 .. Byte - 1

DrawCall ==
  [op : {"clear", "invert"}]
    \cup [op : {"pixel"}, x : Coordinate, y : Coordinate]
    \cup [op : {"line"}, x : Coordinate, y : Coordinate, tox : Coordinate, toy : Coordinate]
    \cup [op : {"segment"}, x : Coordinate, y : Coordinate, tox : Coordinate, toy : Coordinate,
          dx : Int, dy : Int, err : Int, sx : {1, -1}, sy : {1, -1}]
    \cup [op : {"rect"}, x : Coordinate, y : Coordinate, tox : Coordinate, toy : Coordinate,
          fill : BOOLEAN]
    \cup [op : {"circle"}, x : Coordinate, y : Coordinate, fill : BOOLEAN,
          a : Int, b : Int, P : Int]
    \cup [op : {"string"}, x : Coordinate, y : Coordinate, text : Seq(STRING)]
    \cup [op : {"char"}, x : Coordinate, y : Coordinate, c : STRING]

VARIABLES
  job,          \* what is drawn, on a clear or an inverted screen
  todo,         \* the calls to be made
  ram,          \* dev->ram
  panel,        \* the pixels of the panel that are on
  cursor,       \* [page, column] the panel's next byte goes to
  cmdselect     \* TRUE: the panel takes bytes as data

display_vars == <<job, todo, ram, panel, cursor, cmdselect>>

Screen == (0 .. Width - 1) \X (0 .. Height - 1)

U8(v) == v % Byte

Abs(v) == IF v < 0 THEN -v ELSE v

\* Mutant: the screen is one column wider.
position_on_screen_inclusive(x, y) == x <= Width /\ y < Height

position_on_screen(x, y) == x < Width /\ y < Height

\* lcd_spi_set_pixel(dev, x, y, 1)
WithPixel(x, y) == IF position_on_screen(x, y) THEN ram \cup {<<x, y>>} ELSE ram

LineCall(x1, y1, x2, y2) ==
  [op |-> "line", x |-> U8(x1), y |-> U8(y1), tox |-> U8(x2), toy |-> U8(y2)]

PixelCall(x, y) == [op |-> "pixel", x |-> U8(x), y |-> U8(y)]

\* The variables of lcd_spi_draw_circle() before its loop.
CircleCall(x, y, radius, fill) ==
  [op |-> "circle", x |-> x, y |-> y, fill |-> fill, a |-> 0, b |-> radius, P |-> 1 - radius]

\* What is drawn is a call of the interface, before the first round of its loop.
ASSUME JobsAssumption ==
  \A j \in Jobs :
    /\ j.ground \in {"clear", "invert"}
    /\ j.call \in DrawCall /\ j.call.op # "segment"
    /\ j.call.op = "circle" =>
         \E radius \in Coordinate : j.call = CircleCall(j.call.x, j.call.y, radius, j.call.fill)

DisplayInit ==
  /\ job \in Jobs
  /\ todo = <<[op |-> job.ground], job.call, [op |-> "show"]>>
  /\ ram = {}
  /\ panel = {}
  /\ cursor = [page |-> 0, column |-> 0]
  /\ cmdselect = TRUE

Running(op) == todo # << >> /\ Head(todo).op = op

\* The running call makes these calls, and returns.
Makes(calls) == todo' = calls \o Tail(todo)

Returns == Makes(<< >>)

bus == <<panel, cursor, cmdselect>>

----------------------------------------------------------------------------
(* Drawing.                                                                *)

Clear ==
  /\ Running("clear")
  /\ ram' = {}
  /\ Returns
  /\ UNCHANGED <<job, bus>>

Invert ==
  /\ Running("invert")
  /\ ram' = Screen \ ram
  /\ Returns
  /\ UNCHANGED <<job, bus>>

SetPixel ==
  /\ Running("pixel")
  /\ ram' = WithPixel(Head(todo).x, Head(todo).y)
  /\ Returns
  /\ UNCHANGED <<job, bus>>

\* The part of lcd_spi_draw_line() before its loop.
StartLine ==
  /\ Running("line")
  /\ LET c == Head(todo)
         dx == Abs(c.tox - c.x)
         dy == -Abs(c.toy - c.y)
     IN IF position_on_screen(c.x, c.y) /\ position_on_screen(c.tox, c.toy)
          THEN Makes(<<[op |-> "segment", x |-> c.x, y |-> c.y, tox |-> c.tox, toy |-> c.toy,
                        dx |-> dx, dy |-> dy, err |-> dx + dy,
                        sx |-> IF c.x < c.tox THEN 1 ELSE -1,
                        sy |-> IF c.y < c.toy THEN 1 ELSE -1]>>)
          ELSE Returns
  /\ UNCHANGED <<job, ram, bus>>

\* Mutant: the step in y is decided after err was changed for the step in x.
LineStep_lateError ==
  /\ Running("segment")
  /\ LET s == Head(todo)
         right == 2 * s.err > s.dy
         err1 == IF right THEN s.err + s.dy ELSE s.err
         down == 2 * err1 < s.dx
     IN /\ ram' = WithPixel(s.x, s.y)
        /\ IF s.x = s.tox /\ s.y = s.toy THEN Returns
           ELSE Makes(<<[s EXCEPT !.x = U8(IF right THEN @ + s.sx ELSE @),
                                  !.y = U8(IF down THEN @ + s.sy ELSE @),
                                  !.err = err1 + IF down THEN s.dx ELSE 0]>>)
  /\ UNCHANGED <<job, bus>>

\* One round of its loop.
LineStep ==
  /\ Running("segment")
  /\ LET s == Head(todo)
         e2 == 2 * s.err
         right == e2 > s.dy
         down == e2 < s.dx
     IN /\ ram' = WithPixel(s.x, s.y)
        /\ IF s.x = s.tox /\ s.y = s.toy THEN Returns
           ELSE Makes(<<[s EXCEPT !.x = U8(IF right THEN @ + s.sx ELSE @),
                                  !.y = U8(IF down THEN @ + s.sy ELSE @),
                                  !.err = @ + (IF right THEN s.dy ELSE 0)
                                            + (IF down THEN s.dx ELSE 0)]>>)
  /\ UNCHANGED <<job, bus>>

\* lcd_spi_draw_rect(): filled with vertical lines, or its four sides.
DrawRect ==
  /\ Running("rect")
  /\ LET c == Head(todo)
         left == IF c.x <= c.tox THEN c.x ELSE c.tox
         right == IF c.x <= c.tox THEN c.tox ELSE c.x
     IN IF ~position_on_screen(c.x, c.y) \/ ~position_on_screen(c.tox, c.toy) THEN Returns
        ELSE IF c.fill
          THEN Makes([i \in 1 .. right - left + 1 |->
                        LineCall(left + i - 1, c.y, left + i - 1, c.toy)])
          ELSE Makes(<<LineCall(c.x, c.y, c.x, c.toy), LineCall(c.x, c.y, c.tox, c.y),
                       LineCall(c.x, c.toy, c.tox, c.toy), LineCall(c.tox, c.toy, c.tox, c.y)>>)
  /\ UNCHANGED <<job, ram, bus>>

CircleDraws(c) ==
  IF c.fill
    THEN <<LineCall(c.x - c.a, c.y + c.b, c.x + c.a, c.y + c.b),
           LineCall(c.x - c.a, c.y - c.b, c.x + c.a, c.y - c.b),
           LineCall(c.x - c.b, c.y + c.a, c.x + c.b, c.y + c.a),
           LineCall(c.x - c.b, c.y - c.a, c.x + c.b, c.y - c.a)>>
    ELSE <<PixelCall(c.a + c.x, c.b + c.y), PixelCall(c.b + c.x, c.a + c.y),
           PixelCall(c.x - c.a, c.b + c.y), PixelCall(c.x - c.b, c.a + c.y),
           PixelCall(c.b + c.x, c.y - c.a), PixelCall(c.a + c.x, c.y - c.b),
           PixelCall(c.x - c.a, c.y - c.b), PixelCall(c.x - c.b, c.y - c.a)>>

\* Mutant: b is taken after it was decremented.
CircleNext_preDecrement(c) ==
  IF c.P < 0 THEN [c EXCEPT !.P = @ + 3 + 2 * c.a, !.a = @ + 1]
             ELSE [c EXCEPT !.P = @ + 5 + 2 * (c.a - (c.b - 1)), !.a = @ + 1, !.b = @ - 1]

CircleNext(c) ==
  IF c.P < 0 THEN [c EXCEPT !.P = @ + 3 + 2 * c.a, !.a = @ + 1]
             ELSE [c EXCEPT !.P = @ + 5 + 2 * (c.a - c.b), !.a = @ + 1, !.b = @ - 1]

\* One round of the loop of lcd_spi_draw_circle().
DrawCircle ==
  /\ Running("circle")
  /\ LET c == Head(todo)
         next == CircleNext(c)
     IN Makes(CircleDraws(c) \o IF next.a <= next.b THEN <<next>> ELSE << >>)
  /\ UNCHANGED <<job, ram, bus>>

\* A character the font does not have is drawn as a space.
font_5x7_col_char(c) == IF c \in DOMAIN Font THEN Font[c] ELSE {}

\* lcd_spi_draw_s(): a character after the other.
DrawString ==
  /\ Running("string")
  /\ LET c == Head(todo) IN
       Makes([i \in DOMAIN c.text |->
                [op |-> "char", x |-> U8(c.x + (i - 1) * Pitch), y |-> c.y, c |-> c.text[i]]])
  /\ UNCHANGED <<job, ram, bus>>

\* lcd_spi_draw_c(): every pixel of the character's cell is set or cleared.
DrawChar ==
  /\ Running("char")
  /\ LET c == Head(todo)
         At(i, j) == <<U8(c.x + i), U8(c.y + j)>>
         cell == (0 .. GlyphWidth - 1) \X (0 .. GlyphHeight - 1)
         lit == {At(p[1], p[2]) : p \in cell \cap font_5x7_col_char(c.c)}
         dark == {At(p[1], p[2]) : p \in cell \ font_5x7_col_char(c.c)}
     IN ram' = (ram \ dark) \cup {p \in lit : position_on_screen(p[1], p[2])}
  /\ Returns
  /\ UNCHANGED <<job, bus>>

----------------------------------------------------------------------------
(* Showing.                                                                *)

\* The bytes of all pages are computed first: a byte is the set of its 1 bits.
ComputePages ==
  /\ Running("show")
  /\ Makes(<<[op |-> "page", page |-> 0,
              line |-> [page \in 0 .. Height \div PageRows - 1 |->
                          [x \in 0 .. Width - 1 |->
                             {bit \in 0 .. PageRows - 1 : <<x, page * PageRows + bit>> \in ram}]]]>>)
  /\ UNCHANGED <<job, ram, bus>>

\* Mutant: the column is left where the last page ended.
SetPageAddress_keepsColumn ==
  /\ Running("page")
  /\ Makes(<<[Head(todo) EXCEPT !.op = "data"]>>)
  /\ cursor' = [cursor EXCEPT !.page = Head(todo).page]
  /\ cmdselect' = TRUE
  /\ UNCHANGED <<job, ram, panel>>

\* set_page_address(dev, page, 0, 0): three commands.
SetPageAddress ==
  /\ Running("page")
  /\ Makes(<<[Head(todo) EXCEPT !.op = "data"]>>)
  /\ cursor' = [page |-> Head(todo).page, column |-> 0]
  /\ cmdselect' = TRUE
  /\ UNCHANGED <<job, ram, panel>>

\* What the panel makes of a line of data: the cursor moves on with every byte.
Receives(line) ==
  LET top == cursor.page * PageRows
      columns == cursor.column .. Width - 1
      rows == top .. top + PageRows - 1
  IN /\ panel' = (panel \ (columns \X rows)) \cup
                   {p \in columns \X rows : p[2] - top \in line[p[1] - cursor.column]}
     /\ cursor' = [cursor EXCEPT !.column = Width]

\* spi_transfer_bytes() of a line with cmdselect set; then cmdselect is cleared.
SendPage ==
  /\ Running("data")
  /\ LET c == Head(todo) IN
     /\ Receives(c.line[c.page])
     /\ IF c.page + 1 < Height \div PageRows
          THEN Makes(<<[op |-> "page", page |-> c.page + 1, line |-> c.line]>>)
          ELSE Returns
  /\ cmdselect' = FALSE
  /\ UNCHANGED <<job, ram>>

DisplayNext ==
  \/ Clear \/ Invert
  \/ SetPixel \/ StartLine \/ LineStep \/ DrawRect \/ DrawCircle
  \/ DrawString \/ DrawChar
  \/ ComputePages \/ SetPageAddress \/ SendPage

----------------------------------------------------------------------------
(* Correctness.                                                            *)

\* No pixel outside dev->ram is ever written.
DisplayTypeOK ==
  /\ ram \subseteq Screen
  /\ panel \subseteq Screen
  /\ cmdselect \in BOOLEAN

call == job.call

\* The call was made and nothing else has been drawn.
Drawn(op) == call.op = op /\ Running("show")

OnClear == job.ground = "clear"

Between(v, a, b) == (a <= v /\ v <= b) \/ (b <= v /\ v <= a)

\* The pixels nearest to the straight line, one for each place along its longer
\* side; where two are as near as each other either will do.
IsLine(pixels, x1, y1, x2, y2) ==
  LET dx == x2 - x1
      dy == y2 - y1
      long == IF Abs(dx) > Abs(dy) THEN Abs(dx) ELSE Abs(dy)
      Near(p) == 2 * Abs((p[1] - x1) * dy - (p[2] - y1) * dx) <= long
      Along(p) == IF Abs(dx) > Abs(dy) THEN p[1] ELSE p[2]
      Places == IF Abs(dx) > Abs(dy) THEN {x \in 0 .. Width - 1 : Between(x, x1, x2)}
                                     ELSE {y \in 0 .. Height - 1 : Between(y, y1, y2)}
  IN /\ \A p \in pixels : Near(p) /\ Between(p[1], x1, x2) /\ Between(p[2], y1, y2)
     /\ {Along(p) : p \in pixels} = Places
     /\ \A p, q \in pixels : Along(p) = Along(q) => p = q

LinesStraight ==
  Drawn("line") /\ OnClear =>
    IF position_on_screen(call.x, call.y) /\ position_on_screen(call.tox, call.toy)
      THEN IsLine(ram, call.x, call.y, call.tox, call.toy)
      ELSE ram = {}

RectsComplete ==
  Drawn("rect") /\ OnClear =>
    LET Inside == {p \in Screen : Between(p[1], call.x, call.tox) /\ Between(p[2], call.y, call.toy)}
        OnSide(p) == p[1] \in {call.x, call.tox} \/ p[2] \in {call.y, call.toy}
    IN IF position_on_screen(call.x, call.y) /\ position_on_screen(call.tox, call.toy)
         THEN ram = {p \in Inside : call.fill \/ OnSide(p)}
         ELSE ram = {}

TextPlaced ==
  Drawn("string") =>
    LET At(p) == {i \in DOMAIN call.text :
                    /\ p[1] - call.x - (i - 1) * Pitch \in 0 .. GlyphWidth - 1
                    /\ p[2] - call.y \in 0 .. GlyphHeight - 1}
        In(p, i) == <<p[1] - call.x - (i - 1) * Pitch, p[2] - call.y>>
                      \in font_5x7_col_char(call.text[i])
        NoWrap == /\ call.x + Len(call.text) * Pitch <= Byte
                  /\ call.y + GlyphHeight <= Byte
    IN NoWrap => ram = {p \in Screen : IF At(p) = {} THEN job.ground = "invert"
                                                     ELSE \E i \in At(p) : In(p, i)}

\* What is drawn is what the call says, to the pixel: a line ends where it should
\* and is as straight as pixels allow, a rectangle is complete whichever corners
\* it is given, a text replaces what was in its cells and nothing else, and what
\* is off the screen is left out, as long as a text does not go on past the last
\* uint8_t (lcd_spi.c 227-318, 354-377).
DrawsWhatItSays == LinesStraight /\ RectsComplete /\ TextPlaced

\* A circle is lit at the nearest pixel to it in every column or row of each
\* octant; a filled one is the disc, if it fits between the sides of the screen.
\* No arithmetic in uint8_t or int leaves a stray pixel, as long as what is left
\* of the screen does not wrap into it again (lcd_spi.c 320-352).
CirclesRound ==
  Drawn("circle") /\ OnClear =>
    LET r == call.b
        Nearest(a, b) ==          \* b is sqrt(r^2 - a^2), rounded
          LET h == r * r - a * a IN
          (IF b = 0 THEN 0 <= h ELSE b * b - b < h) /\ h <= b * b + b
        In(p) == LET u == Abs(p[1] - call.x)
                     v == Abs(p[2] - call.y)
                 IN (u <= v /\ Nearest(u, v)) \/ (v <= u /\ Nearest(v, u))
        Round == {p \in Screen : In(p)}
        Disc == {p \in Screen : \E x \in -Byte .. Byte :
                   In(<<x, p[2]>>) /\ Abs(p[1] - call.x) <= Abs(x - call.x)}
        NoWrap == /\ call.x + r < Byte /\ r - call.x <= Byte - Width
                  /\ call.y + r < Byte /\ r - call.y <= Byte - Height
    IN NoWrap =>
         IF ~call.fill THEN ram = Round
         ELSE /\ ram \subseteq Disc
              /\ call.x - r >= 0 /\ call.x + r < Width => ram = Disc

\* After lcd_spi_show() the panel shows the ram, each page where it belongs
\* (lcd_spi.c 63-79, 184-212).
PanelShowsRam == todo = << >> => panel = ram
=============================================================================
