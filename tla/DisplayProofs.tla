--------------------------- MODULE DisplayProofs ---------------------------
(***************************************************************************)
(* Theorems about the display (MCDrivers, with Display), for every screen, *)
(* font and drawing call: nothing is drawn beside the screen, what is      *)
(* drawn is what the call says, and the panel ends up showing the ram.     *)
(***************************************************************************)
EXTENDS DriversProofs

----------------------------------------------------------------------------
(* The calls still to be made.                                             *)

ShowCall == [op |-> "show"]

\* Drawing calls, and lcd_spi_show() after them.
WillShow == \E d \in Seq(DrawCall) : todo = Append(d, ShowCall)

\* The sizes are natural numbers, and every coordinate of the screen is a uint8_t.
LEMMA Screens ==
  /\ Width \in Nat /\ Height \in Nat /\ PageRows \in Nat /\ Byte \in Nat
  /\ GlyphWidth \in Nat /\ GlyphHeight \in Nat /\ Pitch \in Nat
  /\ Width > 0 /\ Height > 0 /\ PageRows > 0 /\ Byte > 0
  /\ Width <= Byte /\ Height <= Byte
BY ScreenAssumption DEF ScreenAssumption

\* A uint8_t parameter is a coordinate, whatever is passed (lcd_spi.h 78-88).
LEMMA Coordinates == \A v \in Int : U8(v) \in Coordinate
BY Screens DEF U8, Coordinate

\* The running call is a drawing call with its arguments.
LEMMA Drawing ==
  ASSUME WillShow, NEW op, op # "show", Running(op)
  PROVE  /\ Head(todo) \in DrawCall
         /\ \E t \in Seq(DrawCall) : Tail(todo) = Append(t, ShowCall)
<1>1. PICK d \in Seq(DrawCall) : todo = Append(d, ShowCall)
  BY DEF WillShow
<1>2. d # << >>
  <2>1. d = << >> => Head(todo) = ShowCall
    BY <1>1, HeadTailAppend
  <2>. QED  BY <2>1 DEF Running, ShowCall
<1>3. Head(todo) = Head(d) /\ Tail(todo) = Append(Tail(d), ShowCall)
  BY <1>1, <1>2, HeadTailAppend
<1>. QED  BY <1>2, <1>3, HeadTailProperties

\* It is replaced by drawing calls.
LEMMA MoreDrawing ==
  ASSUME WillShow, NEW op, op # "show", Running(op),
         NEW made \in Seq(DrawCall), Makes(made)
  PROVE  WillShow'
<1>1. PICK t \in Seq(DrawCall) : Tail(todo) = Append(t, ShowCall)
  BY Drawing
<1>. DEFINE Any == DrawCall \cup {ShowCall}
<1>2. made \in Seq(Any) /\ t \in Seq(Any) /\ <<ShowCall>> \in Seq(Any)
  BY SeqMonotonic
<1>3. made \o Append(t, ShowCall) = Append(made \o t, ShowCall)
  <2>1. Append(t, ShowCall) = t \o <<ShowCall>>
    BY AppendIsConcat
  <2>2. made \o t \in Seq(DrawCall)
    BY ConcatProperties
  <2>3. Append(made \o t, ShowCall) = (made \o t) \o <<ShowCall>>
    BY <2>2, AppendIsConcat
  <2>4. (made \o t) \o <<ShowCall>> = made \o (t \o <<ShowCall>>)
    BY <1>2, ConcatAssociative
  <2>. QED  BY <2>1, <2>3, <2>4
<1>4. made \o t \in Seq(DrawCall)
  BY ConcatProperties
<1>. QED  BY <1>1, <1>3, <1>4 DEF WillShow, Makes

----------------------------------------------------------------------------
(* Drawing.                                                                *)

Draws ==
  \/ Clear \/ Invert
  \/ SetPixel \/ StartLine \/ LineStep \/ DrawRect \/ DrawCircle
  \/ DrawString \/ DrawChar

\* Setting a pixel leaves alone what is beside the screen.
LEMMA PixelInside ==
  ASSUME ram \subseteq Screen, NEW x \in Coordinate, NEW y \in Coordinate
  PROVE  WithPixel(x, y) \subseteq Screen
BY Screens DEF WithPixel, position_on_screen, Screen, Coordinate

\* The calls of lcd_spi_draw_line() are drawing calls.
LEMMA LineCalls ==
  ASSUME NEW a \in Int, NEW b \in Int, NEW c \in Int, NEW d \in Int
  PROVE  LineCall(a, b, c, d) \in DrawCall
BY Coordinates DEF LineCall, DrawCall

\* The calls of lcd_spi_set_pixel() are drawing calls.
LEMMA PixelCalls ==
  ASSUME NEW a \in Int, NEW b \in Int PROVE PixelCall(a, b) \in DrawCall
BY Coordinates DEF PixelCall, DrawCall

\* No call, or one, as a list.
LEMMA FewCalls ==
  << >> \in Seq(DrawCall) /\ \A c \in DrawCall : <<c>> \in Seq(DrawCall)
OBVIOUS

\* Coordinates are integers: differences of them may be negative.
LEMMA CoordinateInt == Coordinate \subseteq Int
BY Screens DEF Coordinate

\* Clearing, inverting and setting a pixel stay on the screen.
LEMMA DrawsClear ==
  ASSUME WillShow, ram \subseteq Screen, Clear \/ Invert \/ SetPixel
  PROVE  WillShow' /\ ram' \subseteq Screen
<1>1. PICK op \in {"clear", "invert", "pixel"} : Running(op)
  BY DEF Clear, Invert, SetPixel
<1>2. Makes(<< >>) /\ << >> \in Seq(DrawCall)
  BY DEF Clear, Invert, SetPixel, Returns
<1>3. WillShow'
  BY <1>1, <1>2, MoreDrawing
<1>4. CASE SetPixel
  <2>1. Head(todo) \in DrawCall /\ Head(todo).op = "pixel"
    BY <1>4, Drawing DEF SetPixel, Running
  <2>2. Head(todo).x \in Coordinate /\ Head(todo).y \in Coordinate
    BY <2>1 DEF DrawCall
  <2>. QED  BY <1>3, <1>4, <2>2, PixelInside DEF SetPixel
<1>. QED  BY <1>3, <1>4 DEF Clear, Invert

\* A line stays on the screen, and makes no other calls than its rounds.
LEMMA DrawsLine ==
  ASSUME WillShow, ram \subseteq Screen, StartLine \/ LineStep
  PROVE  WillShow' /\ ram' \subseteq Screen
<1>. DEFINE c == Head(todo)
<1>1. CASE StartLine
  <2>1. c \in DrawCall /\ c.op = "line"
    BY <1>1, Drawing DEF StartLine, Running
  <2>2. /\ c.x \in Coordinate /\ c.y \in Coordinate
        /\ c.tox \in Coordinate /\ c.toy \in Coordinate
    BY <2>1 DEF DrawCall
  <2>. DEFINE dx == Abs(c.tox - c.x)
              dy == -Abs(c.toy - c.y)
              segment == [op |-> "segment", x |-> c.x, y |-> c.y, tox |-> c.tox, toy |-> c.toy,
                          dx |-> dx, dy |-> dy, err |-> dx + dy,
                          sx |-> IF c.x < c.tox THEN 1 ELSE -1,
                          sy |-> IF c.y < c.toy THEN 1 ELSE -1]
  <2>3. dx \in Int /\ dy \in Int
    <3>1. c.x \in Int /\ c.y \in Int /\ c.tox \in Int /\ c.toy \in Int
      <4>. HIDE DEF c
      <4>. QED  BY <2>2, CoordinateInt
    <3>. HIDE DEF c
    <3>. QED  BY <3>1 DEF Abs
  <2>4. segment \in DrawCall
    <3>. HIDE DEF c, dx, dy
    <3>. QED  BY <2>2, <2>3 DEF DrawCall
  <2>5. PICK made \in Seq(DrawCall) : Makes(made)
    <3>1. Makes(<< >>) \/ Makes(<<segment>>)
      BY <1>1 DEF StartLine, Returns
    <3>. HIDE DEF segment
    <3>. QED  BY <2>4, <3>1, FewCalls
  <2>6. WillShow'
    BY <1>1, <2>5, MoreDrawing DEF StartLine
  <2>. QED  BY <1>1, <2>6 DEF StartLine
<1>2. CASE LineStep
  <2>1. c \in DrawCall /\ c.op = "segment"
    BY <1>2, Drawing DEF LineStep, Running
  <2>2. c \in [op : {"segment"}, x : Coordinate, y : Coordinate, tox : Coordinate,
               toy : Coordinate, dx : Int, dy : Int, err : Int, sx : {1, -1}, sy : {1, -1}]
    BY <2>1 DEF DrawCall
  <2>3. \A x, y \in Coordinate, err \in Int :
          [c EXCEPT !.x = x, !.y = y, !.err = err] \in DrawCall
    BY <2>2 DEF DrawCall
  <2>4. PICK made \in Seq(DrawCall) : Makes(made)
    <3>1. c.x \in Int /\ c.y \in Int /\ c.sx \in {1, -1} /\ c.sy \in {1, -1}
      <4>. HIDE DEF c
      <4>1. c.x \in Coordinate /\ c.y \in Coordinate /\ c.sx \in {1, -1} /\ c.sy \in {1, -1}
        BY <2>2
      <4>. QED  BY <4>1, CoordinateInt
    <3>. DEFINE e2 == 2 * c.err
                right == e2 > c.dy
                down == e2 < c.dx
                next == [c EXCEPT !.x = U8(IF right THEN c.x + c.sx ELSE c.x),
                                  !.y = U8(IF down THEN c.y + c.sy ELSE c.y),
                                  !.err = c.err + (IF right THEN c.dy ELSE 0)
                                                + (IF down THEN c.dx ELSE 0)]
    <3>2. /\ U8(IF right THEN c.x + c.sx ELSE c.x) \in Coordinate
          /\ U8(IF down THEN c.y + c.sy ELSE c.y) \in Coordinate
          /\ c.err + (IF right THEN c.dy ELSE 0) + (IF down THEN c.dx ELSE 0) \in Int
      <4>. HIDE DEF c, right, down
      <4>. QED  BY <2>2, <3>1, Coordinates
    <3>3. next \in DrawCall
      BY <2>3, <3>2
    <3>4. Makes(<< >>) \/ Makes(<<next>>)
      BY <1>2 DEF LineStep, Returns
    <3>. HIDE DEF next
    <3>. QED  BY <3>3, <3>4, FewCalls
  <2>5. WillShow'
    BY <1>2, <2>4, MoreDrawing DEF LineStep
  <2>. QED  BY <1>2, <2>2, <2>5, PixelInside DEF LineStep
<1>. QED  BY <1>1, <1>2

\* A rectangle makes lines.
LEMMA DrawsRect ==
  ASSUME WillShow, ram \subseteq Screen, DrawRect
  PROVE  WillShow' /\ ram' \subseteq Screen
<1>. DEFINE c == Head(todo)
            left == IF c.x <= c.tox THEN c.x ELSE c.tox
            right == IF c.x <= c.tox THEN c.tox ELSE c.x
            filled == [i \in 1 .. right - left + 1 |->
                         LineCall(left + i - 1, c.y, left + i - 1, c.toy)]
            sides == <<LineCall(c.x, c.y, c.x, c.toy), LineCall(c.x, c.y, c.tox, c.y),
                       LineCall(c.x, c.toy, c.tox, c.toy), LineCall(c.tox, c.toy, c.tox, c.y)>>
<1>1. c \in DrawCall /\ c.op = "rect"
  BY Drawing DEF DrawRect, Running
<1>2. c.x \in Int /\ c.y \in Int /\ c.tox \in Int /\ c.toy \in Int
  BY <1>1, CoordinateInt DEF DrawCall
<1>3. filled \in Seq(DrawCall)
  <2>1. right - left + 1 \in Nat /\ left \in Int
    BY <1>2
  <2>2. \A i \in 1 .. right - left + 1 :
          LineCall(left + i - 1, c.y, left + i - 1, c.toy) \in DrawCall
    <3>. HIDE DEF left, right, c
    <3>. QED  BY <1>2, <2>1, LineCalls
  <2>. QED  BY <2>1, <2>2
<1>4. sides \in Seq(DrawCall)
  BY <1>2, LineCalls
<1>5. Makes(<< >>) \/ Makes(filled) \/ Makes(sides)
  BY DEF DrawRect, Returns
<1>. HIDE DEF filled, sides
<1>6. PICK made \in Seq(DrawCall) : Makes(made)
  BY <1>3, <1>4, <1>5, FewCalls
<1>7. WillShow'
  BY <1>6, MoreDrawing DEF DrawRect
<1>. QED  BY <1>7 DEF DrawRect

\* A circle makes pixels or lines.
LEMMA DrawsCircle ==
  ASSUME WillShow, ram \subseteq Screen, DrawCircle
  PROVE  WillShow' /\ ram' \subseteq Screen
<1>. DEFINE c == Head(todo)
            next == CircleNext(c)
<1>1. c \in DrawCall /\ c.op = "circle"
  BY Drawing DEF DrawCircle, Running
<1>2. c \in [op : {"circle"}, x : Coordinate, y : Coordinate, fill : BOOLEAN,
             a : Int, b : Int, P : Int]
  BY <1>1 DEF DrawCall
<1>3. next \in DrawCall
  <2>1. next \in [op : {"circle"}, x : Coordinate, y : Coordinate, fill : BOOLEAN,
                  a : Int, b : Int, P : Int]
    <3>. HIDE DEF c
    <3>1. /\ c.P + 3 + 2 * c.a \in Int /\ c.P + 5 + 2 * (c.a - c.b) \in Int
          /\ c.a + 1 \in Int /\ c.b - 1 \in Int
      BY <1>2
    <3>. QED  BY <1>2, <3>1 DEF CircleNext
  <2>. QED  BY <2>1 DEF DrawCall
<1>4. CircleDraws(c) \in Seq(DrawCall)
  <2>1. c.x \in Int /\ c.y \in Int /\ c.a \in Int /\ c.b \in Int
    BY <1>2, CoordinateInt
  <2>. HIDE DEF c
  <2>2. /\ c.x - c.a \in Int /\ c.x + c.a \in Int /\ c.x - c.b \in Int /\ c.x + c.b \in Int
        /\ c.y - c.a \in Int /\ c.y + c.a \in Int /\ c.y - c.b \in Int /\ c.y + c.b \in Int
        /\ c.a + c.x \in Int /\ c.a + c.y \in Int /\ c.b + c.x \in Int /\ c.b + c.y \in Int
    BY <2>1
  <2>3. CASE c.fill
    BY <2>2, <2>3, LineCalls DEF CircleDraws
  <2>4. CASE ~c.fill
    BY <2>2, <2>4, PixelCalls DEF CircleDraws
  <2>. QED  BY <2>3, <2>4
<1>5. CircleDraws(c) \o (IF next.a <= next.b THEN <<next>> ELSE << >>) \in Seq(DrawCall)
  <2>1. (IF next.a <= next.b THEN <<next>> ELSE << >>) \in Seq(DrawCall)
    BY <1>3
  <2>. QED  BY <1>4, <2>1, ConcatProperties
<1>6. WillShow'
  BY <1>5, MoreDrawing DEF DrawCircle
<1>. QED  BY <1>6 DEF DrawCircle

\* A text makes characters, and a character stays on the screen.
LEMMA DrawsText ==
  ASSUME WillShow, ram \subseteq Screen, DrawString \/ DrawChar
  PROVE  WillShow' /\ ram' \subseteq Screen
<1>. DEFINE c == Head(todo)
<1>1. CASE DrawString
  <2>. DEFINE chars == [i \in DOMAIN c.text |->
                          [op |-> "char", x |-> U8(c.x + (i - 1) * Pitch), y |-> c.y,
                           c |-> c.text[i]]]
  <2>1. c \in DrawCall /\ c.op = "string"
    BY <1>1, Drawing DEF DrawString, Running
  <2>2. c.x \in Coordinate /\ c.y \in Coordinate /\ c.text \in Seq(STRING)
    BY <2>1 DEF DrawCall
  <2>3. \A i \in 1 .. Len(c.text) : U8(c.x + (i - 1) * Pitch) \in Coordinate /\ c.text[i] \in STRING
    <3>1. \A x, i \in Int : x + (i - 1) * Pitch \in Int
      BY Screens
    <3>2. \A i \in 1 .. Len(c.text) : c.x + (i - 1) * Pitch \in Int
      <4>1. c.x \in Int /\ Len(c.text) \in Nat
        <5>. HIDE DEF c
        <5>1. c.x \in Coordinate /\ c.text \in Seq(STRING)
          BY <2>2
        <5>2. c.x \in Int
          BY <5>1, CoordinateInt
        <5>3. Len(c.text) \in Nat
          BY <5>1, LenProperties
        <5>. QED  BY <5>2, <5>3
      <4>. HIDE DEF c
      <4>. QED  BY <3>1, <4>1
    <3>. QED  BY <2>2, <3>2, Coordinates
  <2>. DEFINE Char(i) == [op |-> "char", x |-> U8(c.x + (i - 1) * Pitch), y |-> c.y,
                          c |-> c.text[i]]
  <2>4. \A i \in 1 .. Len(c.text) : Char(i) \in DrawCall
    BY <2>2, <2>3 DEF DrawCall
  <2>5. chars \in Seq(DrawCall)
    <3>1. DOMAIN c.text = 1 .. Len(c.text) /\ Len(c.text) \in Nat
      BY <2>2
    <3>2. chars = [i \in 1 .. Len(c.text) |-> Char(i)]
      BY <3>1
    <3>. HIDE DEF chars, Char
    <3>. QED  BY <2>4, <3>1, <3>2
  <2>6. WillShow'
    BY <1>1, <2>5, MoreDrawing DEF DrawString
  <2>. QED  BY <1>1, <2>6 DEF DrawString
<1>2. CASE DrawChar
  <2>1. c \in DrawCall /\ c.op = "char"
    BY <1>2, Drawing DEF DrawChar, Running
  <2>2. c.x \in Int /\ c.y \in Int
    BY <2>1, CoordinateInt DEF DrawCall
  <2>3. WillShow'
    <3>1. Makes(<< >>) /\ Running("char")
      BY <1>2 DEF DrawChar, Returns
    <3>2. << >> \in Seq(DrawCall)
      OBVIOUS
    <3>. QED  BY <3>1, <3>2, MoreDrawing
  <2>4. ASSUME NEW p \in ram' PROVE p \in Screen
    <3>1. p \in ram \/ \E i, j \in Int : p = <<U8(c.x + i), U8(c.y + j)>>
                                         /\ position_on_screen(p[1], p[2])
      BY <1>2, Screens DEF DrawChar
    <3>2. ASSUME NEW i \in Int, NEW j \in Int, p = <<U8(c.x + i), U8(c.y + j)>>,
                 position_on_screen(p[1], p[2])
          PROVE  p \in Screen
      <4>1. U8(c.x + i) \in Coordinate /\ U8(c.y + j) \in Coordinate
        BY <2>2, Coordinates
      <4>. QED  BY <3>2, <4>1, Screens DEF position_on_screen, Screen, Coordinate
    <3>. QED  BY <3>1, <3>2
  <2>. QED  BY <2>3, <2>4
<1>. QED  BY <1>1, <1>2

\* While something is drawn the panel gets nothing, and lcd_spi_show() stays last.
LEMMA DrawStep ==
  ASSUME WillShow, ram \subseteq Screen, Draws
  PROVE  WillShow' /\ ram' \subseteq Screen /\ UNCHANGED bus
<1>1. UNCHANGED bus
  BY DEF Draws, Clear, Invert, SetPixel, StartLine, LineStep, DrawRect, DrawCircle,
         DrawString, DrawChar
<1>. QED
  BY <1>1, DrawsClear, DrawsLine, DrawsRect, DrawsCircle, DrawsText DEF Draws

----------------------------------------------------------------------------
(* Showing.                                                                *)

PageCount == Height \div PageRows

\* The bytes sent: those of the ram.
Pages ==
  [page \in 0 .. PageCount - 1 |->
     [x \in 0 .. Width - 1 |->
        {bit \in 0 .. PageRows - 1 : <<x, page * PageRows + bit>> \in ram}]]

Sending(op, page) == todo = <<[op |-> op, page |-> page, line |-> Pages]>>

\* The pages before this one are on the panel.
Sent(page) == \A q \in Screen : q[2] < page * PageRows => (q \in panel <=> q \in ram)

\* PanelShowsRam is not inductive: it says nothing of the calls before the last.
ShowInv ==
  /\ DisplayTypeOK
  /\ \/ todo = << >> /\ panel = ram
     \/ WillShow
     \/ \E page \in 0 .. PageCount - 1 :
          /\ Sent(page)
          /\ \/ Sending("page", page)
             \/ Sending("data", page) /\ cursor = [page |-> page, column |-> 0]

\* The pages make up the screen.
LEMMA PageArithmetic ==
  /\ PageCount \in Nat /\ PageCount > 0
  /\ PageCount * PageRows = Height
  /\ \A page \in 0 .. PageCount - 1 :
       /\ page * PageRows \in Nat
       /\ (page + 1) * PageRows = page * PageRows + PageRows
       /\ page * PageRows + PageRows <= Height
<1>1. Height % PageRows = 0
  BY ScreenAssumption DEF ScreenAssumption
<1>2. PageCount \in Nat /\ PageCount * PageRows = Height
  BY <1>1, Screens DEF PageCount
<1>3. PageCount > 0
  BY <1>2, Screens
<1>4. ASSUME NEW page \in 0 .. PageCount - 1
      PROVE  /\ page * PageRows \in Nat
             /\ (page + 1) * PageRows = page * PageRows + PageRows
             /\ page * PageRows + PageRows <= Height
  <2>1. page * PageRows \in Nat /\ (page + 1) * PageRows = page * PageRows + PageRows
    BY <1>2, Screens
  <2>2. (page + 1) * PageRows <= PageCount * PageRows
    BY <1>2, Screens
  <2>. QED  BY <1>2, <2>1, <2>2
<1>. QED  BY <1>2, <1>3, <1>4

\* What a page shows once it was sent, and what the others still show.
LEMMA PageSent ==
  ASSUME ShowInv, NEW page \in 0 .. PageCount - 1,
         cursor = [page |-> page, column |-> 0], Receives(Pages[page])
  PROVE  /\ panel' \subseteq Screen
         /\ \A q \in Screen :
              q \in panel' <=> IF q[2] \in page * PageRows .. page * PageRows + PageRows - 1
                                 THEN q \in ram ELSE q \in panel
<1>. DEFINE top == page * PageRows
            columns == 0 .. Width - 1
            rows == top .. top + PageRows - 1
<1>1. top \in Nat /\ top + PageRows <= Height
  BY PageArithmetic
<1>2. columns \X rows \subseteq Screen
  BY <1>1, Screens DEF Screen
<1>3. ASSUME NEW q \in columns \X rows
      PROVE  q[2] - top \in Pages[page][q[1] - 0] <=> q \in ram
  <2>1. q[1] - 0 = q[1] /\ q[1] \in columns /\ q[2] - top \in 0 .. PageRows - 1
    BY <1>1, Screens
  <2>2. top + (q[2] - top) = q[2] /\ q = <<q[1], q[2]>>
    BY <1>1, Screens
  <2>3. Pages[page][q[1]] = {bit \in 0 .. PageRows - 1 : <<q[1], top + bit>> \in ram}
    BY <2>1 DEF Pages
  <2>. QED  BY <2>1, <2>2, <2>3
<1>4. panel' = (panel \ (columns \X rows))
                 \cup {q \in columns \X rows : q[2] - top \in Pages[page][q[1] - 0]}
  BY DEF Receives
<1>5. panel' = (panel \ (columns \X rows)) \cup {q \in columns \X rows : q \in ram}
  BY <1>3, <1>4
<1>6. \A q \in Screen : q \in columns \X rows <=> q[2] \in rows
  BY <1>1, Screens DEF Screen
<1>. HIDE DEF columns, rows
<1>7. panel \subseteq Screen
  BY DEF ShowInv, DisplayTypeOK
<1>8. panel' \subseteq Screen
  BY <1>2, <1>5, <1>7
<1>9. \A q \in Screen : q \in panel' <=> IF q[2] \in rows THEN q \in ram ELSE q \in panel
  BY <1>5, <1>6
<1>. QED  BY <1>8, <1>9 DEF rows

\* When nothing is to be drawn, one call is left and it sends a page.
LEMMA Queues ==
  ASSUME todo # << >>, ~WillShow, ShowInv
  PROVE  \E page \in 0 .. PageCount - 1 :
           /\ Sent(page)
           /\ Tail(todo) = << >>
           /\ \/ /\ Sending("page", page)
                 /\ Head(todo) = [op |-> "page", page |-> page, line |-> Pages]
              \/ /\ Sending("data", page) /\ cursor = [page |-> page, column |-> 0]
                 /\ Head(todo) = [op |-> "data", page |-> page, line |-> Pages]
<1>1. PICK page \in 0 .. PageCount - 1 :
        /\ Sent(page)
        /\ \/ Sending("page", page)
           \/ Sending("data", page) /\ cursor = [page |-> page, column |-> 0]
  BY DEF ShowInv
<1>2. \A c : Head(<<c>>) = c /\ Tail(<<c>>) = << >>
  OBVIOUS
<1>3. \A op : Sending(op, page) => /\ Tail(todo) = << >>
                                  /\ Head(todo) = [op |-> op, page |-> page, line |-> Pages]
  BY <1>2 DEF Sending
<1>. QED  BY <1>1, <1>3

\* The last call leaves what it makes, and nothing else.
LEMMA LastCall ==
  ASSUME Tail(todo) = << >>
  PROVE  /\ Returns => todo' = << >>
         /\ \A c : Makes(<<c>>) => todo' = <<c>>
<1>1. << >> \o << >> = << >> /\ \A c : <<c>> \o << >> = <<c>>
  OBVIOUS
<1>. QED  BY <1>1 DEF Makes, Returns

\* A call waiting to be shown is not one of the panel's.
LEMMA WillShowRuns ==
  ASSUME WillShow, NEW op \in {"page", "data"} PROVE ~Running(op)
<1>. SUFFICES ASSUME Running(op) PROVE FALSE
  OBVIOUS
<1>1. Head(todo) \in DrawCall /\ Head(todo).op = op
  BY Drawing DEF Running
<1>. QED  BY <1>1 DEF DrawCall

\* Nothing is left behind lcd_spi_show().
LEMMA ShowIsLast ==
  ASSUME WillShow, Running("show") PROVE Tail(todo) = << >>
<1>1. PICK d \in Seq(DrawCall) : todo = Append(d, ShowCall)
  BY DEF WillShow
<1>2. CASE d = << >>
  BY <1>1, <1>2 DEF ShowCall
<1>3. CASE d # << >>
  <2>1. Head(todo) = Head(d) /\ Head(d) \in DrawCall
    BY <1>1, <1>3, HeadTailAppend, HeadTailProperties
  <2>2. Head(d).op = "show"
    BY <2>1 DEF Running
  <2>. QED  BY <2>1, <2>2 DEF DrawCall
<1>. QED  BY <1>2, <1>3

\* The inductive step: one action of showing, or any of drawing.
LEMMA ShowStep == ASSUME ShowInv, DisplayNext PROVE ShowInv'
<1>1. todo # << >>
  BY DEF DisplayNext, Clear, Invert, SetPixel, StartLine, LineStep, DrawRect, DrawCircle,
         DrawString, DrawChar, ComputePages, SetPageAddress, SendPage, Running
<1>2. CASE WillShow /\ Draws
  BY <1>2, DrawStep DEF ShowInv, DisplayTypeOK, bus
<1>3. CASE ComputePages
  <2>1. WillShow
    <3>1. Running("show")
      BY <1>3 DEF ComputePages
    <3>. QED  BY <1>1, <3>1, Queues DEF Running
  <2>2. todo' = <<[op |-> "page", page |-> 0, line |-> Pages]>>
    <3>1. Tail(todo) = << >>
      BY <1>3, <2>1, ShowIsLast DEF ComputePages
    <3>2. Makes(<<[op |-> "page", page |-> 0, line |-> Pages]>>)
      BY <1>3 DEF ComputePages, Pages, PageCount
    <3>. QED  BY <3>1, <3>2, LastCall
  <2>3. UNCHANGED <<ram, panel, cmdselect>>
    BY <1>3 DEF ComputePages, bus
  <2>4. 0 \in 0 .. PageCount - 1 /\ Sending("page", 0)' /\ Sent(0)'
    <3>1. \A q \in Screen : ~(q[2] < 0 * PageRows)
      BY Screens DEF Screen
    <3>. QED  BY <2>2, <2>3, <3>1, PageArithmetic DEF Sending, Pages, Sent
  <2>. QED  BY <2>3, <2>4 DEF ShowInv, DisplayTypeOK
<1>4. CASE SetPageAddress
  <2>1. ~WillShow
    BY <1>4, WillShowRuns DEF SetPageAddress
  <2>2. PICK page \in 0 .. PageCount - 1 :
          /\ Sent(page) /\ Tail(todo) = << >>
          /\ Head(todo) = [op |-> "page", page |-> page, line |-> Pages]
    BY <1>1, <1>4, <2>1, Queues DEF SetPageAddress, Running
  <2>3. Sending("data", page)' /\ cursor' = [page |-> page, column |-> 0]
    <3>1. Makes(<<[op |-> "data", page |-> page, line |-> Pages]>>)
      <4>1. [Head(todo) EXCEPT !.op = "data"] = [op |-> "data", page |-> page, line |-> Pages]
        BY <2>2
      <4>. QED  BY <1>4, <4>1 DEF SetPageAddress
    <3>2. todo' = <<[op |-> "data", page |-> page, line |-> Pages]>>
      BY <2>2, <3>1, LastCall
    <3>3. Pages' = Pages
      BY <1>4 DEF SetPageAddress, Pages
    <3>. QED  BY <1>4, <2>2, <3>2, <3>3 DEF SetPageAddress, Sending
  <2>4. UNCHANGED <<ram, panel>> /\ cmdselect' = TRUE
    BY <1>4 DEF SetPageAddress
  <2>5. Sent(page)'
    BY <2>2, <2>4 DEF Sent
  <2>. QED  BY <2>3, <2>4, <2>5 DEF ShowInv, DisplayTypeOK
<1>5. CASE SendPage
  <2>1. ~WillShow
    BY <1>5, WillShowRuns DEF SendPage
  <2>2. PICK page \in 0 .. PageCount - 1 :
          /\ Sent(page) /\ Tail(todo) = << >> /\ cursor = [page |-> page, column |-> 0]
          /\ Head(todo) = [op |-> "data", page |-> page, line |-> Pages]
    BY <1>1, <1>5, <2>1, Queues DEF SendPage, Running
  <2>3. Receives(Pages[page]) /\ UNCHANGED ram /\ cmdselect' = FALSE
    BY <1>5, <2>2 DEF SendPage
  <2>4. DisplayTypeOK'
    BY <2>2, <2>3, PageSent DEF ShowInv, DisplayTypeOK
  <2>5. ASSUME NEW q \in Screen, q[2] < page * PageRows + PageRows
        PROVE  q \in panel' <=> q \in ram
    <3>1. q[2] \in Int /\ page * PageRows \in Int /\ PageRows \in Int
      BY Screens, PageArithmetic DEF Screen
    <3>2. q[2] < page * PageRows \/ q[2] \in page * PageRows .. page * PageRows + PageRows - 1
      BY <2>5, <3>1
    <3>. QED  BY <2>2, <2>3, <3>1, <3>2, PageSent DEF Sent
  <2>6. CASE page + 1 < PageCount
    <3>1. todo' = <<[op |-> "page", page |-> page + 1, line |-> Pages]>>
      <4>1. Makes(<<[op |-> "page", page |-> page + 1, line |-> Pages]>>)
        BY <1>5, <2>2, <2>6 DEF SendPage, PageCount
      <4>. QED  BY <2>2, <4>1, LastCall
    <3>2. page + 1 \in 0 .. PageCount - 1 /\ Sending("page", page + 1)'
      BY <2>3, <2>6, <3>1, PageArithmetic DEF Sending, Pages
    <3>3. Sent(page + 1)'
      BY <2>3, <2>5, PageArithmetic DEF Sent
    <3>. QED  BY <2>4, <3>2, <3>3 DEF ShowInv
  <2>7. CASE ~(page + 1 < PageCount)
    <3>1. todo' = << >>
      BY <1>5, <2>2, <2>7, LastCall DEF SendPage, PageCount
    <3>2. page + 1 = PageCount
      BY <2>7, PageArithmetic
    <3>3. page * PageRows + PageRows = Height
      BY <3>2, PageArithmetic
    <3>4. \A q \in Screen : q \in panel' <=> q \in ram
      BY <2>5, <3>3, Screens DEF Screen
    <3>5. panel' = ram'
      BY <2>3, <2>4, <3>4 DEF DisplayTypeOK
    <3>. QED  BY <2>4, <3>1, <3>5 DEF ShowInv
  <2>. QED  BY <2>6, <2>7
<1>6. CASE ~WillShow /\ Draws
  <2>1. PICK op \in {"clear", "invert", "pixel", "line", "segment", "rect", "circle",
                     "string", "char"} : Running(op)
    BY <1>6 DEF Draws, Clear, Invert, SetPixel, StartLine, LineStep, DrawRect, DrawCircle,
                DrawString, DrawChar
  <2>2. Head(todo).op \in {"page", "data"}
    BY <1>1, <1>6, Queues
  <2>. QED  BY <2>1, <2>2 DEF Running
<1>. QED  BY <1>2, <1>3, <1>4, <1>5, <1>6 DEF DisplayNext, Draws

\* A job ends with lcd_spi_show().
LEMMA ShowStarts == Init => ShowInv
<1>. SUFFICES ASSUME Init PROVE ShowInv
  OBVIOUS
<1>1. CASE Idle
  BY <1>1 DEF Idle, ShowInv, DisplayTypeOK
<1>2. CASE DisplayInit
  <2>1. [op |-> job.ground] \in DrawCall /\ job.call \in DrawCall
    BY <1>2, JobsAssumption DEF DisplayInit, JobsAssumption, DrawCall
  <2>2. <<[op |-> job.ground], job.call>> \in Seq(DrawCall)
    BY <2>1
  <2>3. todo = Append(<<[op |-> job.ground], job.call>>, ShowCall)
    BY <1>2 DEF DisplayInit, ShowCall
  <2>4. WillShow
    BY <2>2, <2>3 DEF WillShow
  <2>. QED  BY <1>2, <2>4 DEF DisplayInit, ShowInv, DisplayTypeOK
<1>. QED  BY <1>1, <1>2 DEF Init

\* ShowInv is an invariant.
LEMMA ShowAlways == Spec => []ShowInv
<1>1. ShowInv /\ [Next]_vars => ShowInv'
  <2>. SUFFICES ASSUME ShowInv, [Next]_vars PROVE ShowInv'
    OBVIOUS
  <2>1. CASE UNCHANGED display_vars
    BY <2>1 DEF display_vars, ShowInv, DisplayTypeOK, WillShow, Sending, Sent, Pages
  <2>. QED  BY <2>1, ShowStep DEF Next, vars
<1>. QED  BY <1>1, ShowStarts, PTL DEF Spec

----------------------------------------------------------------------------
(* The loop of lcd_spi_draw_line().                                        *)

\* The place i steps from a towards b.
Toward(a, b, i) == IF a < b THEN a + i ELSE a - i

\* A line of D columns and E rows is as long as the longer of them.
Longer(D, E) == IF D > E THEN D ELSE E

\* Where the pixel i columns and j rows from the start is along it.
Progress(D, E, i, j) == IF D > E THEN i ELSE j

\* How far that pixel is from the line, multiplied by its length; the loop keeps
\* this in err.
Off(D, E, i, j) == D * j - E * i

\* What the loop keeps true of it: half a pixel to either side, a tie to one of them.
OnTrack(D, E, i, j) ==
  CASE D > E -> -D <= 2 * Off(D, E, i, j) /\ 2 * Off(D, E, i, j) < D
    [] D < E -> -E < 2 * Off(D, E, i, j) /\ 2 * Off(D, E, i, j) <= E
    [] OTHER -> Off(D, E, i, j) = 0

\* The pixel is at most half a pixel beside the line.
IsNear(D, E, q) ==
  /\ -Longer(D, E) <= 2 * Off(D, E, q[1], q[2])
  /\ 2 * Off(D, E, q[1], q[2]) <= Longer(D, E)

\* The first n pixels: near the line, one for each place along it.
Track(Q, D, E, n) ==
  /\ Q \subseteq (0 .. D) \X (0 .. E)
  /\ \A q \in Q : IsNear(D, E, q)
  /\ \A k \in 0 .. n - 1 : \E q \in Q : Progress(D, E, q[1], q[2]) = k
  /\ \A q \in Q : Progress(D, E, q[1], q[2]) < n
  /\ \A p, q \in Q : Progress(D, E, p[1], p[2]) = Progress(D, E, q[1], q[2]) => p = q

\* A round adds the pixel it stands on.
LEMMA TrackGrows ==
  ASSUME NEW D \in Nat, NEW E \in Nat, NEW i \in 0 .. D, NEW j \in 0 .. E,
         NEW n, n = Progress(D, E, i, j), NEW q0, q0 = <<i, j>>,
         OnTrack(D, E, i, j), NEW Q, Track(Q, D, E, n),
         NEW R, R = Q \cup {q0}
  PROVE  Track(R, D, E, n + 1)
<1>1. n \in Nat /\ q0[1] = i /\ q0[2] = j /\ Progress(D, E, q0[1], q0[2]) = n
  BY DEF Progress
<1>2. R \subseteq (0 .. D) \X (0 .. E)
  BY DEF Track
<1>3. \A q \in R : Progress(D, E, q[1], q[2]) \in Nat
  BY <1>2 DEF Progress
<1>4. /\ -Longer(D, E) <= 2 * Off(D, E, i, j)
      /\ 2 * Off(D, E, i, j) <= Longer(D, E)
  <2>. DEFINE o == Off(D, E, i, j)
  <2>1. o \in Int
    BY DEF Off
  <2>2. CASE D > E
    <3>1. -D <= 2 * o /\ 2 * o < D
      BY <2>2 DEF OnTrack
    <3>. QED  BY <2>1, <2>2, <3>1 DEF Longer
  <2>3. CASE D < E
    <3>1. -E < 2 * o /\ 2 * o <= E
      BY <2>3 DEF OnTrack
    <3>. QED  BY <2>1, <2>3, <3>1 DEF Longer
  <2>4. CASE D = E
    <3>1. o = 0
      BY <2>4 DEF OnTrack
    <3>. QED  BY <2>1, <2>4, <3>1 DEF Longer
  <2>. QED  BY <2>2, <2>3, <2>4
<1>5. \A q \in R : IsNear(D, E, q)
  BY <1>1, <1>4 DEF Track, IsNear
<1>6. /\ \A q \in Q : Progress(D, E, q[1], q[2]) < n
      /\ \A k \in 0 .. n - 1 : \E q \in Q : Progress(D, E, q[1], q[2]) = k
      /\ \A p, q \in Q : Progress(D, E, p[1], p[2]) = Progress(D, E, q[1], q[2]) => p = q
  BY DEF Track
<1>7. R = Q \cup {q0}
  OBVIOUS
<1>8. \A k \in 0 .. (n + 1) - 1 : \E q \in R : Progress(D, E, q[1], q[2]) = k
  <2>. SUFFICES ASSUME NEW k \in 0 .. (n + 1) - 1
                PROVE  \E q \in R : Progress(D, E, q[1], q[2]) = k
    OBVIOUS
  <2>1. k = n \/ k \in 0 .. n - 1
    BY <1>1
  <2>. QED  BY <1>1, <1>6, <1>7, <2>1
<1>9. \A q \in R : Progress(D, E, q[1], q[2]) < n + 1
  BY <1>1, <1>3, <1>6, <1>7
<1>10. \A p, q \in R : Progress(D, E, p[1], p[2]) = Progress(D, E, q[1], q[2]) => p = q
  <2>. SUFFICES ASSUME NEW p \in R, NEW q \in R,
                       Progress(D, E, p[1], p[2]) = Progress(D, E, q[1], q[2])
                PROVE  p = q
    OBVIOUS
  <2>1. \A r \in R : Progress(D, E, r[1], r[2]) = n => r = q0
    <3>1. \A r \in Q : Progress(D, E, r[1], r[2]) # n
      BY <1>1, <1>3, <1>6, <1>7
    <3>. QED  BY <1>7, <3>1
  <2>2. CASE p = q0 \/ q = q0
    BY <1>1, <2>1, <2>2
  <2>3. CASE p \in Q /\ q \in Q
    BY <1>6, <2>3
  <2>. QED  BY <1>7, <2>2, <2>3
<1>11. Track(R, D, E, n + 1)
  BY <1>2, <1>5, <1>8, <1>9, <1>10 DEF Track
<1>. QED  BY <1>11

\* The tests on err, which is what the pixel is off, and a column and a row ahead.
\* The next pixel is on the track again, and one further.
LEMMA TrackMoves ==
  ASSUME NEW D \in Nat, NEW E \in Nat, NEW i \in 0 .. D, NEW j \in 0 .. E,
         OnTrack(D, E, i, j), ~(i = D /\ j = E),
         NEW u, u = IF 2 * (Off(D, E, i, j) + D - E) > -E THEN i + 1 ELSE i,
         NEW v, v = IF 2 * (Off(D, E, i, j) + D - E) < D THEN j + 1 ELSE j
  PROVE  /\ u \in 0 .. D /\ v \in 0 .. E
         /\ OnTrack(D, E, u, v)
         /\ Progress(D, E, u, v) = Progress(D, E, i, j) + 1
         /\ Off(D, E, u, v) = Off(D, E, i, j) - (IF u = i THEN 0 ELSE E) + (IF v = j THEN 0 ELSE D)
<1>. DEFINE err == Off(D, E, i, j) + D - E
            right == 2 * err > -E
            down == 2 * err < D
            o == Off(D, E, i, j)
            w == Off(D, E, u, v)
<1>1. /\ o \in Int /\ u \in Nat /\ v \in Nat /\ w \in Int
      /\ u = (IF right THEN i + 1 ELSE i) /\ v = (IF down THEN j + 1 ELSE j)
  BY DEF Off
<1>2. w = o - (IF right THEN E ELSE 0) + (IF down THEN D ELSE 0)
  <2>1. E * (i + 1) = E * i + E /\ D * (j + 1) = D * j + D
    OBVIOUS
  <2>2. E * u = E * i + IF right THEN E ELSE 0
    BY <2>1
  <2>3. D * v = D * j + IF down THEN D ELSE 0
    BY <2>1
  <2>4. E * u \in Int /\ D * v \in Int /\ E * i \in Int /\ D * j \in Int
    BY <1>1
  <2>. QED  BY <2>2, <2>3, <2>4 DEF Off
<1>3. o = D * j - E * i /\ w = D * v - E * u
  BY DEF Off
<1>. HIDE DEF o, w, err, right, down
<1>4. CASE D > E
  <2>1. -D <= 2 * o /\ 2 * o < D
    BY <1>4 DEF OnTrack, o
  <2>2. err = o + D - E
    BY DEF o, err
  <2>3. right
    BY <1>1, <1>4, <2>1, <2>2 DEF right
  <2>4. -D <= 2 * w /\ 2 * w < D
    BY <1>1, <1>2, <1>4, <2>1, <2>2, <2>3 DEF right, down
  <2>5. i < D
    <3>1. SUFFICES ASSUME i = D PROVE FALSE
      BY <1>4
    <3>2. o = D * (j - E)
      BY <1>3, <3>1
    <3>3. j - E <= -1
      BY <3>1
    <3>4. D * (j - E) <= D * (-1)
      BY <3>3
    <3>. QED  BY <1>1, <1>4, <2>1, <3>2, <3>4
  <2>6. v <= E
    <3>1. SUFFICES ASSUME v >= E + 1 PROVE FALSE
      BY <1>1
    <3>2. D * v >= D * (E + 1) /\ D * (E + 1) = D * E + D
      BY <1>1, <3>1
    <3>3. E * u <= E * D /\ E * D = D * E
      BY <1>1, <2>3, <2>5
    <3>4. D * v \in Int /\ E * u \in Int /\ D * E \in Int
      BY <1>1
    <3>. QED  BY <1>1, <1>3, <1>4, <2>4, <3>2, <3>3, <3>4
  <2>7. Progress(D, E, u, v) = Progress(D, E, i, j) + 1
    BY <1>1, <1>4, <2>3 DEF Progress
  <2>8. OnTrack(D, E, u, v)
    BY <1>4, <2>4 DEF OnTrack, w
  <2>. QED  BY <1>1, <1>2, <2>3, <2>5, <2>6, <2>7, <2>8 DEF o, w
<1>5. CASE D < E
  <2>1. -E < 2 * o /\ 2 * o <= E
    BY <1>5 DEF OnTrack, o
  <2>2. err = o + D - E
    BY DEF o, err
  <2>3. down
    BY <1>1, <1>5, <2>1, <2>2 DEF down
  <2>4. -E < 2 * w /\ 2 * w <= E
    BY <1>1, <1>2, <1>5, <2>1, <2>2, <2>3 DEF right, down
  <2>5. j < E
    <3>1. SUFFICES ASSUME j = E PROVE FALSE
      BY <1>5
    <3>2. o = E * (D - i)
      BY <1>3, <3>1
    <3>3. D - i >= 1
      BY <3>1
    <3>4. E * (D - i) >= E * 1
      BY <3>3
    <3>. QED  BY <1>1, <1>5, <2>1, <3>2, <3>4
  <2>6. u <= D
    <3>1. SUFFICES ASSUME u >= D + 1 PROVE FALSE
      BY <1>1
    <3>2. E * u >= E * (D + 1) /\ E * (D + 1) = D * E + E
      BY <1>1, <3>1
    <3>3. D * v <= D * E
      BY <1>1, <2>3, <2>5
    <3>4. D * v \in Int /\ E * u \in Int /\ D * E \in Int
      BY <1>1
    <3>. QED  BY <1>1, <1>3, <1>5, <2>4, <3>2, <3>3, <3>4
  <2>7. Progress(D, E, u, v) = Progress(D, E, i, j) + 1
    BY <1>1, <1>5, <2>3 DEF Progress
  <2>8. OnTrack(D, E, u, v)
    BY <1>5, <2>4 DEF OnTrack, w
  <2>. QED  BY <1>1, <1>2, <2>3, <2>5, <2>6, <2>7, <2>8 DEF o, w
<1>6. CASE D = E
  <2>1. o = 0
    BY <1>6 DEF OnTrack, o
  <2>2. err = 0
    BY <1>6, <2>1 DEF o, err
  <2>3. D > 0
    BY <1>6
  <2>4. right /\ down
    BY <1>6, <2>2, <2>3 DEF right, down
  <2>5. w = 0
    BY <1>2, <1>6, <2>1, <2>4
  <2>6. i = j
    BY <1>3, <1>6, <2>1, <2>3
  <2>7. i < D /\ j < E
    BY <1>6, <2>6
  <2>8. OnTrack(D, E, u, v)
    BY <1>6, <2>5 DEF OnTrack, w
  <2>9. Progress(D, E, u, v) = Progress(D, E, i, j) + 1
    BY <1>1, <1>6, <2>4 DEF Progress
  <2>. QED  BY <1>1, <1>2, <2>4, <2>7, <2>8, <2>9 DEF o, w
<1>. QED  BY <1>4, <1>5, <1>6

\* Stepping from a to b goes over the places between them.
LEMMA Steps ==
  ASSUME NEW a \in Int, NEW b \in Int, NEW D, D = Abs(b - a), NEW i \in 0 .. D
  PROVE  /\ Toward(a, b, i) \in Int /\ Between(Toward(a, b, i), a, b)
         /\ Abs(Toward(a, b, i) - a) = i
         /\ Toward(a, b, i) - a = IF a < b THEN i ELSE -i
         /\ Toward(a, b, i) = b <=> i = D
BY DEF Abs, Toward, Between

\* Every place between them is one of those.
LEMMA StepsAll ==
  ASSUME NEW a \in Int, NEW b \in Int, NEW v \in Int, Between(v, a, b)
  PROVE  Abs(v - a) \in 0 .. Abs(b - a) /\ Toward(a, b, Abs(v - a)) = v
BY DEF Abs, Toward, Between

\* A difference and its absolute value.
LEMMA Distance ==
  ASSUME NEW a \in Int, NEW b \in Int, NEW D, D = Abs(b - a)
  PROVE  D \in Nat /\ b - a = IF a < b THEN D ELSE -D
BY DEF Abs

\* How far a point u columns and v rows from the start is from the line that goes to
\* the point dx columns and dy rows from it, multiplied by the line's length.
Cross(u, v, dx, dy) == u * dy - v * dx

\* The distance to the line is the same whichever way it goes.
LEMMA Mirrored ==
  ASSUME NEW D \in Nat, NEW E \in Nat, NEW i \in Nat, NEW j \in Nat,
         NEW dx, NEW u, (dx = D /\ u = i) \/ (dx = -D /\ u = -i),
         NEW dy, NEW v, (dy = E /\ v = j) \/ (dy = -E /\ v = -j)
  PROVE  Abs(Cross(u, v, dx, dy)) = Abs(Off(D, E, i, j))
<1>1. /\ i * E = E * i /\ j * D = D * j
      /\ (-i) * E = -(E * i) /\ i * (-E) = -(E * i) /\ (-i) * (-E) = E * i
      /\ (-j) * D = -(D * j) /\ j * (-D) = -(D * j) /\ (-j) * (-D) = D * j
      /\ E * i \in Int /\ D * j \in Int
  OBVIOUS
<1>2. \A a, b \in Int : Abs(a - b) = Abs(b - a) /\ Abs((-a) - (-b)) = Abs(b - a)
  BY DEF Abs
<1>3. Abs(E * i - D * j) = Abs(D * j - E * i) /\ Abs(-(E * i) - (-(D * j))) = Abs(D * j - E * i)
  BY <1>1, <1>2
<1>4. CASE dx = D /\ u = i /\ dy = E /\ v = j
  <2>1. u * dy = E * i /\ v * dx = D * j
    BY <1>1, <1>4
  <2>. QED  BY <1>3, <2>1 DEF Off, Cross
<1>5. CASE dx = -D /\ u = -i /\ dy = E /\ v = j
  <2>1. u * dy = -(E * i) /\ v * dx = -(D * j)
    BY <1>1, <1>5
  <2>. QED  BY <1>3, <2>1 DEF Off, Cross
<1>6. CASE dx = D /\ u = i /\ dy = -E /\ v = -j
  <2>1. u * dy = -(E * i) /\ v * dx = -(D * j)
    BY <1>1, <1>6
  <2>. QED  BY <1>3, <2>1 DEF Off, Cross
<1>7. CASE dx = -D /\ u = -i /\ dy = -E /\ v = -j
  <2>1. u * dy = E * i /\ v * dx = D * j
    BY <1>1, <1>7
  <2>. QED  BY <1>3, <2>1 DEF Off, Cross
<1>. QED  BY <1>4, <1>5, <1>6, <1>7

\* The pixel i columns and j rows from the start is as far from the line as Off says.
LEMMA SameDistance ==
  ASSUME NEW x1 \in Int, NEW x2 \in Int, NEW y1 \in Int, NEW y2 \in Int,
         NEW D, D = Abs(x2 - x1), NEW E, E = Abs(y2 - y1), NEW i \in 0 .. D, NEW j \in 0 .. E
  PROVE  Abs(Cross(Toward(x1, x2, i) - x1, Toward(y1, y2, j) - y1, x2 - x1, y2 - y1))
           = Abs(Off(D, E, i, j))
<1>1. D \in Nat /\ E \in Nat /\ i \in Nat /\ j \in Nat
  <2>1. D \in Nat /\ E \in Nat
    BY Distance
  <2>. QED  BY <2>1
<1>2. PICK dx : dx = x2 - x1
  OBVIOUS
<1>3. PICK dy : dy = y2 - y1
  OBVIOUS
<1>4. PICK u : u = Toward(x1, x2, i) - x1
  OBVIOUS
<1>5. PICK v : v = Toward(y1, y2, j) - y1
  OBVIOUS
<1>6. dx = IF x1 < x2 THEN D ELSE -D
  BY <1>1, <1>2, Distance
<1>7. dy = IF y1 < y2 THEN E ELSE -E
  BY <1>1, <1>3, Distance
<1>8. u = IF x1 < x2 THEN i ELSE -i
  BY <1>4, Steps
<1>9. v = IF y1 < y2 THEN j ELSE -j
  BY <1>5, Steps
<1>10. (dx = D /\ u = i) \/ (dx = -D /\ u = -i)
  BY <1>6, <1>8
<1>11. (dy = E /\ v = j) \/ (dy = -E /\ v = -j)
  BY <1>7, <1>9
<1>12. Abs(Cross(u, v, dx, dy)) = Abs(Off(D, E, i, j))
  BY <1>1, <1>10, <1>11, Mirrored
<1>. QED  BY <1>2, <1>3, <1>4, <1>5, <1>12

\* A finished track is a line as IsLine describes it.
LEMMA TrackIsLine ==
  ASSUME NEW x1 \in 0 .. Width - 1, NEW x2 \in 0 .. Width - 1,
         NEW y1 \in 0 .. Height - 1, NEW y2 \in 0 .. Height - 1,
         NEW Q, Track(Q, Abs(x2 - x1), Abs(y2 - y1), Longer(Abs(x2 - x1), Abs(y2 - y1)) + 1),
         NEW S, S = {<<Toward(x1, x2, q[1]), Toward(y1, y2, q[2])>> : q \in Q}
  PROVE  IsLine(S, x1, y1, x2, y2)
<1>. DEFINE D == Abs(x2 - x1)
            E == Abs(y2 - y1)
            Along(p) == IF D > E THEN p[1] ELSE p[2]
            Places == IF D > E THEN {x \in 0 .. Width - 1 : Between(x, x1, x2)}
                               ELSE {y \in 0 .. Height - 1 : Between(y, y1, y2)}
            P(q) == <<Toward(x1, x2, q[1]), Toward(y1, y2, q[2])>>
<1>1. x1 \in Int /\ x2 \in Int /\ y1 \in Int /\ y2 \in Int
  BY Screens
<1>2. D \in Nat /\ E \in Nat
  BY <1>1, Distance
<1>3. /\ Q \subseteq (0 .. D) \X (0 .. E)
      /\ \A q \in Q : IsNear(D, E, q)
      /\ \A k \in 0 .. Longer(D, E) : \E q \in Q : Progress(D, E, q[1], q[2]) = k
      /\ \A p, q \in Q : Progress(D, E, p[1], p[2]) = Progress(D, E, q[1], q[2]) => p = q
  <2>1. Longer(D, E) \in Nat
    BY <1>2 DEF Longer
  <2>2. (Longer(D, E) + 1) - 1 = Longer(D, E)
    BY <2>1
  <2>. QED  BY <2>2 DEF Track
<1>4. ASSUME NEW q \in Q
      PROVE  /\ q[1] \in 0 .. D /\ q[2] \in 0 .. E
             /\ Between(P(q)[1], x1, x2) /\ Between(P(q)[2], y1, y2)
             /\ P(q)[1] \in Int /\ P(q)[2] \in Int
             /\ Abs(P(q)[1] - x1) = q[1] /\ Abs(P(q)[2] - y1) = q[2]
             /\ P(q)[1] - x1 = IF x1 < x2 THEN q[1] ELSE -q[1]
             /\ P(q)[2] - y1 = IF y1 < y2 THEN q[2] ELSE -q[2]
  <2>1. q[1] \in 0 .. D /\ q[2] \in 0 .. E
    BY <1>3
  <2>2. P(q)[1] = Toward(x1, x2, q[1]) /\ P(q)[2] = Toward(y1, y2, q[2])
    OBVIOUS
  <2>3. \A i \in 0 .. D : /\ Toward(x1, x2, i) \in Int /\ Between(Toward(x1, x2, i), x1, x2)
                          /\ Abs(Toward(x1, x2, i) - x1) = i
                          /\ Toward(x1, x2, i) - x1 = IF x1 < x2 THEN i ELSE -i
    BY <1>1, Steps
  <2>4. \A i \in 0 .. E : /\ Toward(y1, y2, i) \in Int /\ Between(Toward(y1, y2, i), y1, y2)
                          /\ Abs(Toward(y1, y2, i) - y1) = i
                          /\ Toward(y1, y2, i) - y1 = IF y1 < y2 THEN i ELSE -i
    BY <1>1, Steps
  <2>. HIDE DEF P, D, E
  <2>. QED  BY <2>1, <2>2, <2>3, <2>4
<1>5. ASSUME NEW q \in Q
      PROVE  2 * Abs((P(q)[1] - x1) * (y2 - y1) - (P(q)[2] - y1) * (x2 - x1)) <= Longer(D, E)
  <2>1. Abs(Cross(P(q)[1] - x1, P(q)[2] - y1, x2 - x1, y2 - y1)) = Abs(Off(D, E, q[1], q[2]))
    BY <1>1, <1>4, SameDistance
  <2>2. Off(D, E, q[1], q[2]) \in Int /\ Longer(D, E) \in Nat
    BY <1>2, <1>4 DEF Off, Longer
  <2>3. 2 * Abs(Off(D, E, q[1], q[2])) <= Longer(D, E)
    BY <1>3, <2>2 DEF IsNear, Abs
  <2>. HIDE DEF P, D, E
  <2>. QED  BY <2>1, <2>3 DEF Cross
<1>6. \A q \in Q : Along(P(q)) = IF D > E THEN Toward(x1, x2, q[1]) ELSE Toward(y1, y2, q[2])
  OBVIOUS
<1>7. {Along(p) : p \in S} = Places
  <2>1. ASSUME NEW q \in Q PROVE Along(P(q)) \in Places
    <3>1. /\ Between(P(q)[1], x1, x2) /\ P(q)[1] \in Int
          /\ Between(P(q)[2], y1, y2) /\ P(q)[2] \in Int
      BY <1>4
    <3>2. P(q)[1] \in 0 .. Width - 1 /\ P(q)[2] \in 0 .. Height - 1
      <4>. HIDE DEF P
      <4>. QED  BY <3>1, Screens DEF Between
    <3>. QED  BY <3>1, <3>2
  <2>2. ASSUME NEW z \in Places PROVE \E q \in Q : Along(P(q)) = z
    <3>1. CASE D > E
      <4>1. z \in Int /\ Between(z, x1, x2)
        BY <3>1, Screens
      <4>2. Abs(z - x1) \in 0 .. D /\ Toward(x1, x2, Abs(z - x1)) = z
        BY <1>1, <4>1, StepsAll
      <4>3. PICK q \in Q : Progress(D, E, q[1], q[2]) = Abs(z - x1)
        BY <1>3, <3>1, <4>2 DEF Longer
      <4>4. q[1] = Abs(z - x1)
        BY <3>1, <4>3 DEF Progress
      <4>. QED  BY <3>1, <4>2, <4>4
    <3>2. CASE ~(D > E)
      <4>1. z \in Int /\ Between(z, y1, y2)
        BY <3>2, Screens
      <4>2. Abs(z - y1) \in 0 .. E /\ Toward(y1, y2, Abs(z - y1)) = z
        BY <1>1, <4>1, StepsAll
      <4>3. PICK q \in Q : Progress(D, E, q[1], q[2]) = Abs(z - y1)
        BY <1>3, <3>2, <4>2 DEF Longer
      <4>4. q[2] = Abs(z - y1)
        BY <3>2, <4>3 DEF Progress
      <4>. QED  BY <3>2, <4>2, <4>4
    <3>. QED  BY <3>1, <3>2
  <2>. HIDE DEF Along, Places, P
  <2>3. S = {P(q) : q \in Q}
    BY DEF P
  <2>. QED  BY <2>1, <2>2, <2>3
<1>8. ASSUME NEW p \in Q, NEW q \in Q, Along(P(p)) = Along(P(q)) PROVE p = q
  <2>1. CASE D > E
    <3>1. P(p)[1] = P(q)[1]
      BY <1>8, <2>1
    <3>2. p[1] = q[1]
      <4>. HIDE DEF P
      <4>. QED  BY <1>4, <3>1
    <3>. QED  BY <1>3, <2>1, <3>2 DEF Progress
  <2>2. CASE ~(D > E)
    <3>1. P(p)[2] = P(q)[2]
      BY <1>8, <2>2
    <3>2. p[2] = q[2]
      <4>. HIDE DEF P
      <4>. QED  BY <1>4, <3>1
    <3>. QED  BY <1>3, <2>2, <3>2 DEF Progress
  <2>. QED  BY <2>1, <2>2
<1>9. /\ \A p \in S : /\ 2 * Abs((p[1] - x1) * (y2 - y1) - (p[2] - y1) * (x2 - x1)) <= Longer(D, E)
                     /\ Between(p[1], x1, x2) /\ Between(p[2], y1, y2)
      /\ {Along(p) : p \in S} = Places
      /\ \A p, q \in S : Along(p) = Along(q) => p = q
  <2>. HIDE DEF Along, Places, P
  <2>1. S = {P(q) : q \in Q}
    BY DEF P
  <2>. QED  BY <1>4, <1>5, <1>7, <1>8, <2>1
<1>. QED  BY <1>9 DEF IsLine, Longer

----------------------------------------------------------------------------
(* What has been drawn of a line.                                          *)

OnScreen(c) == position_on_screen(c.x, c.y) /\ position_on_screen(c.tox, c.toy)

Across(c) == Abs(c.tox - c.x)

Down(c) == Abs(c.toy - c.y)

\* The loop's variables i columns and j rows from the start.
Segment(c, i, j) ==
  [op |-> "segment", x |-> Toward(c.x, c.tox, i), y |-> Toward(c.y, c.toy, j),
   tox |-> c.tox, toy |-> c.toy, dx |-> Across(c), dy |-> -Down(c),
   err |-> Off(Across(c), Down(c), i, j) + Across(c) - Down(c),
   sx |-> IF c.x < c.tox THEN 1 ELSE -1, sy |-> IF c.y < c.toy THEN 1 ELSE -1]

\* The pixels of a track from the line's start towards its end.
Placed(c, Q) == {<<Toward(c.x, c.tox, q[1]), Toward(c.y, c.toy, q[2])>> : q \in Q}

\* The loop stands i columns and j rows from the start, and what it has set is a track.
Underway(c, i, j) ==
  /\ OnTrack(Across(c), Down(c), i, j)
  /\ todo = <<Segment(c, i, j), ShowCall>>
  /\ \E Q \in SUBSET ((0 .. Across(c)) \X (0 .. Down(c))) :
       /\ Track(Q, Across(c), Down(c), Progress(Across(c), Down(c), i, j))
       /\ ram = Placed(c, Q)

LineSoFar(c) ==
  \/ todo = <<c, ShowCall>> /\ ram = {}
  \/ OnScreen(c) /\ \E i \in 0 .. Across(c), j \in 0 .. Down(c) : Underway(c, i, j)
  \/ /\ todo = <<ShowCall>>
     /\ IF OnScreen(c) THEN IsLine(ram, c.x, c.y, c.tox, c.toy) ELSE ram = {}

\* What replaces the running call when it is the last to draw.
LEMMA LastDraws ==
  ASSUME NEW c, todo = <<c, ShowCall>>
  PROVE  /\ Head(todo) = c
         /\ Returns => todo' = <<ShowCall>>
         /\ \A d : Makes(<<d>>) => todo' = <<d, ShowCall>>
BY DEF Makes, Returns

\* A coordinate is passed as it is.
LEMMA U8Same == \A v \in Coordinate : U8(v) = v
BY Screens DEF U8, Coordinate

\* A line's arguments, and those of one with both ends on the screen.
LEMMA LineArguments ==
  ASSUME NEW c \in DrawCall, c.op = "line"
  PROVE  /\ c.x \in Int /\ c.y \in Int /\ c.tox \in Int /\ c.toy \in Int
         /\ c.x >= 0 /\ c.y >= 0 /\ c.tox >= 0 /\ c.toy >= 0
         /\ Across(c) \in Nat /\ Down(c) \in Nat
         /\ OnScreen(c) => /\ c.x \in 0 .. Width - 1 /\ c.tox \in 0 .. Width - 1
                           /\ c.y \in 0 .. Height - 1 /\ c.toy \in 0 .. Height - 1
<1>1. /\ c.x \in Coordinate /\ c.y \in Coordinate /\ c.tox \in Coordinate /\ c.toy \in Coordinate
  <2>1. c \in [op : {"line"}, x : Coordinate, y : Coordinate, tox : Coordinate, toy : Coordinate]
    BY DEF DrawCall
  <2>. QED  BY <2>1
<1>2. /\ c.x \in Int /\ c.y \in Int /\ c.tox \in Int /\ c.toy \in Int
      /\ c.x >= 0 /\ c.y >= 0 /\ c.tox >= 0 /\ c.toy >= 0
  BY <1>1, Screens DEF Coordinate
<1>3. Across(c) \in Nat /\ Down(c) \in Nat
  BY <1>2, Distance DEF Across, Down
<1>4. OnScreen(c) => c.x < Width /\ c.tox < Width /\ c.y < Height /\ c.toy < Height
  BY DEF OnScreen, position_on_screen
<1>. QED  BY <1>2, <1>3, <1>4, Screens

\* Every pixel of a line between ends on the screen is on it.
LEMMA StaysOnScreen ==
  ASSUME NEW c \in DrawCall, c.op = "line", OnScreen(c),
         NEW i \in 0 .. Across(c), NEW j \in 0 .. Down(c)
  PROVE  /\ position_on_screen(Toward(c.x, c.tox, i), Toward(c.y, c.toy, j))
         /\ Toward(c.x, c.tox, i) \in Coordinate /\ Toward(c.y, c.toy, j) \in Coordinate
<1>1. /\ c.x \in 0 .. Width - 1 /\ c.tox \in 0 .. Width - 1
      /\ c.y \in 0 .. Height - 1 /\ c.toy \in 0 .. Height - 1
      /\ c.x \in Int /\ c.y \in Int /\ c.tox \in Int /\ c.toy \in Int
  BY LineArguments
<1>2. /\ Toward(c.x, c.tox, i) \in Int /\ Between(Toward(c.x, c.tox, i), c.x, c.tox)
      /\ Toward(c.y, c.toy, j) \in Int /\ Between(Toward(c.y, c.toy, j), c.y, c.toy)
  BY <1>1, Steps DEF Across, Down
<1>. QED  BY <1>1, <1>2, Screens DEF Between, position_on_screen, Coordinate

\* The part before the loop.
LEMMA LineStarts ==
  ASSUME NEW c \in DrawCall, c.op = "line", todo = <<c, ShowCall>>, ram = {}, StartLine
  PROVE  LineSoFar(c)'
<1>1. Head(todo) = c /\ ram' = {}
  BY LastDraws DEF StartLine
<1>2. CASE ~OnScreen(c)
  <2>1. Returns
    BY <1>1, <1>2 DEF StartLine, OnScreen
  <2>2. todo' = <<ShowCall>>
    BY <2>1, LastDraws
  <2>. QED  BY <1>1, <1>2, <2>2 DEF LineSoFar
<1>3. CASE OnScreen(c)
  <2>1. Across(c) \in Nat /\ Down(c) \in Nat
    BY LineArguments
  <2>2. Off(Across(c), Down(c), 0, 0) = 0
    BY <2>1 DEF Off
  <2>3. Toward(c.x, c.tox, 0) = c.x /\ Toward(c.y, c.toy, 0) = c.y
    BY LineArguments DEF Toward
  <2>4. Makes(<<Segment(c, 0, 0)>>)
    <3>1. Off(Across(c), Down(c), 0, 0) + Across(c) - Down(c) = Across(c) + (-Down(c))
      BY <2>1, <2>2
    <3>. QED  BY <1>1, <1>3, <2>3, <3>1 DEF StartLine, OnScreen, Segment, Across, Down
  <2>5. todo' = <<Segment(c, 0, 0), ShowCall>>
    BY <2>4, LastDraws
  <2>6. OnTrack(Across(c), Down(c), 0, 0)
    BY <2>1, <2>2 DEF OnTrack
  <2>7. Track({}, Across(c), Down(c), Progress(Across(c), Down(c), 0, 0))
    BY DEF Track, Progress
  <2>8. Placed(c, {}) = {}
    BY DEF Placed
  <2>9. Underway(c, 0, 0)'
    BY <1>1, <2>5, <2>6, <2>7, <2>8 DEF Underway
  <2>. QED  BY <1>3, <2>1, <2>9 DEF LineSoFar
<1>. QED  BY <1>2, <1>3

\* A round of the loop, as the track sees it.
LEMMA SegmentMoves ==
  ASSUME NEW c \in DrawCall, c.op = "line", OnScreen(c),
         NEW i \in 0 .. Across(c), NEW j \in 0 .. Down(c),
         Underway(c, i, j), ~(i = Across(c) /\ j = Down(c)), LineStep
  PROVE  \E u \in 0 .. Across(c), v \in 0 .. Down(c) :
           /\ OnTrack(Across(c), Down(c), u, v)
           /\ Progress(Across(c), Down(c), u, v) = Progress(Across(c), Down(c), i, j) + 1
           /\ todo' = <<Segment(c, u, v), ShowCall>>
<1>. DEFINE s == Segment(c, i, j)
            D == Across(c)
            E == Down(c)
            right == 2 * s.err > s.dy
            down == 2 * s.err < s.dx
            u == IF right THEN i + 1 ELSE i
            v == IF down THEN j + 1 ELSE j
            next == [s EXCEPT !.x = U8(IF right THEN @ + s.sx ELSE @),
                              !.y = U8(IF down THEN @ + s.sy ELSE @),
                              !.err = @ + (IF right THEN s.dy ELSE 0)
                                        + (IF down THEN s.dx ELSE 0)]
<1>1. Head(todo) = s
  BY LastDraws DEF Underway
<1>2. D \in Nat /\ E \in Nat /\ i \in Nat /\ j \in Nat
  BY LineArguments
<1>3. /\ c.x \in Int /\ c.y \in Int /\ c.tox \in Int /\ c.toy \in Int
  BY LineArguments
<1>4. ~(s.x = s.tox /\ s.y = s.toy)
  BY <1>3, Steps DEF Segment, Across, Down
<1>5. Makes(<<next>>)
  BY <1>1, <1>4 DEF LineStep
<1>6. s.err = Off(D, E, i, j) + D - E /\ s.dy = -E /\ s.dx = D
  BY DEF Segment
<1>7. Off(D, E, i, j) \in Int /\ s.err \in Int
  BY <1>2, <1>6 DEF Off
<1>8. /\ right \in BOOLEAN /\ right <=> 2 * s.err > -E
      /\ down \in BOOLEAN /\ down <=> 2 * s.err < D
  BY <1>6
<1>. HIDE DEF right, down
<1>9. /\ u \in 0 .. D /\ v \in 0 .. E
      /\ OnTrack(D, E, u, v)
      /\ Progress(D, E, u, v) = Progress(D, E, i, j) + 1
      /\ Off(D, E, u, v) = Off(D, E, i, j) - (IF u = i THEN 0 ELSE E) + (IF v = j THEN 0 ELSE D)
  <2>1. OnTrack(D, E, i, j) /\ ~(i = D /\ j = E)
    BY DEF Underway
  <2>2. D \in Nat /\ E \in Nat /\ i \in 0 .. D /\ j \in 0 .. E
    BY <1>2
  <2>3. /\ u = IF 2 * (Off(D, E, i, j) + D - E) > -E THEN i + 1 ELSE i
        /\ v = IF 2 * (Off(D, E, i, j) + D - E) < D THEN j + 1 ELSE j
    <3>. HIDE DEF D, E, s
    <3>. QED  BY <1>6, <1>8
  <2>. HIDE DEF D, E, s, u, v
  <2>. QED  BY <2>1, <2>2, <2>3, TrackMoves
<1>10. U8(IF right THEN s.x + s.sx ELSE s.x) = Toward(c.x, c.tox, u)
  <2>1. (IF right THEN s.x + s.sx ELSE s.x) = Toward(c.x, c.tox, u)
    BY <1>2, <1>3 DEF Segment, Toward
  <2>2. Toward(c.x, c.tox, u) \in Coordinate
    BY <1>9, StaysOnScreen
  <2>. QED  BY <2>1, <2>2, U8Same
<1>11. U8(IF down THEN s.y + s.sy ELSE s.y) = Toward(c.y, c.toy, v)
  <2>1. (IF down THEN s.y + s.sy ELSE s.y) = Toward(c.y, c.toy, v)
    BY <1>2, <1>3 DEF Segment, Toward
  <2>2. Toward(c.y, c.toy, v) \in Coordinate
    BY <1>9, StaysOnScreen
  <2>. QED  BY <2>1, <2>2, U8Same
<1>12. s.err + (IF right THEN s.dy ELSE 0) + (IF down THEN s.dx ELSE 0) = Off(D, E, u, v) + D - E
  <2>1. (u = i <=> ~right) /\ (v = j <=> ~down)
    BY <1>2
  <2>. HIDE DEF D, E, s, u, v
  <2>. QED  BY <1>2, <1>6, <1>7, <1>9, <2>1
<1>13. next = Segment(c, u, v)
  <2>1. next = [s EXCEPT !.x = Toward(c.x, c.tox, u), !.y = Toward(c.y, c.toy, v),
                         !.err = Off(D, E, u, v) + D - E]
    BY <1>10, <1>11, <1>12
  <2>. HIDE DEF next, u, v
  <2>. QED  BY <2>1 DEF Segment
<1>14. todo' = <<Segment(c, u, v), ShowCall>>
  BY <1>5, <1>13, LastDraws DEF Underway
<1>. QED  BY <1>9, <1>14

\* A round of the loop.
LEMMA LineRound ==
  ASSUME NEW c \in DrawCall, c.op = "line", OnScreen(c),
         NEW i \in 0 .. Across(c), NEW j \in 0 .. Down(c),
         Underway(c, i, j), LineStep
  PROVE  LineSoFar(c)'
<1>. DEFINE D == Across(c)
            E == Down(c)
            n == Progress(D, E, i, j)
            P(q) == <<Toward(c.x, c.tox, q[1]), Toward(c.y, c.toy, q[2])>>
<1>1. PICK Q \in SUBSET ((0 .. D) \X (0 .. E)) : Track(Q, D, E, n) /\ ram = Placed(c, Q)
  BY DEF Underway
<1>2. Head(todo) = Segment(c, i, j)
  BY LastDraws DEF Underway
<1>3. PICK R : R = Q \cup {<<i, j>>}
  OBVIOUS
<1>4. D \in Nat /\ E \in Nat
  BY LineArguments
<1>5. Track(R, D, E, n + 1)
  <2>1. OnTrack(D, E, i, j)
    BY DEF Underway
  <2>2. i \in 0 .. D /\ j \in 0 .. E
    OBVIOUS
  <2>. HIDE DEF D, E
  <2>. QED  BY <1>1, <1>3, <1>4, <2>1, <2>2, TrackGrows
<1>6. ram' = Placed(c, R)
  <2>1. ram' = ram \cup {P(<<i, j>>)}
    <3>1. ram' = WithPixel(Toward(c.x, c.tox, i), Toward(c.y, c.toy, j))
      BY <1>2 DEF LineStep, Segment
    <3>. QED  BY <3>1, StaysOnScreen DEF WithPixel
  <2>. QED  BY <1>1, <1>3, <2>1 DEF Placed
<1>7. R \in SUBSET ((0 .. D) \X (0 .. E))
  BY <1>1, <1>3
<1>8. CASE i = D /\ j = E
  <2>1. c.x \in Int /\ c.y \in Int /\ c.tox \in Int /\ c.toy \in Int
    BY LineArguments
  <2>2. Toward(c.x, c.tox, i) = c.tox /\ Toward(c.y, c.toy, j) = c.toy
    BY <1>8, <2>1 DEF Toward, Across, Down, Abs
  <2>3. Returns
    BY <1>2, <2>2 DEF LineStep, Segment
  <2>4. todo' = <<ShowCall>>
    BY <2>3, LastDraws DEF Underway
  <2>5. n = Longer(D, E)
    BY <1>8 DEF Progress, Longer
  <2>6. Track(R, Abs(c.tox - c.x), Abs(c.toy - c.y),
              Longer(Abs(c.tox - c.x), Abs(c.toy - c.y)) + 1)
    BY <1>5, <2>5 DEF Across, Down
  <2>7. /\ c.x \in 0 .. Width - 1 /\ c.tox \in 0 .. Width - 1
        /\ c.y \in 0 .. Height - 1 /\ c.toy \in 0 .. Height - 1
    BY LineArguments
  <2>8. IsLine(ram', c.x, c.y, c.tox, c.toy)
    <3>1. ram' = {<<Toward(c.x, c.tox, q[1]), Toward(c.y, c.toy, q[2])>> : q \in R}
      BY <1>6 DEF Placed
    <3>. QED  BY <2>6, <2>7, <3>1, TrackIsLine
  <2>9. (IsLine(ram, c.x, c.y, c.tox, c.toy))'
    BY <2>8 DEF IsLine
  <2>. QED  BY <2>4, <2>9 DEF LineSoFar
<1>9. CASE ~(i = D /\ j = E)
  <2>1. PICK u \in 0 .. D, v \in 0 .. E :
          /\ OnTrack(D, E, u, v)
          /\ Progress(D, E, u, v) = n + 1
          /\ todo' = <<Segment(c, u, v), ShowCall>>
    BY <1>9, SegmentMoves
  <2>2. Underway(c, u, v)'
    BY <1>5, <1>6, <1>7, <2>1 DEF Underway
  <2>. QED  BY <2>2 DEF LineSoFar
<1>. QED  BY <1>8, <1>9

\* LineSoFar is kept by whatever draws.
LEMMA LineKept ==
  ASSUME NEW c \in DrawCall, c.op = "line", LineSoFar(c), Draws
  PROVE  LineSoFar(c)'
<1>1. CASE todo = <<c, ShowCall>> /\ ram = {}
  <2>1. Head(todo).op = "line"
    BY <1>1, LastDraws
  <2>2. StartLine
    BY <2>1 DEF Draws, Clear, Invert, SetPixel, LineStep, DrawRect, DrawCircle, DrawString,
                DrawChar, Running
  <2>. QED  BY <1>1, <2>2, LineStarts
<1>2. ASSUME OnScreen(c), NEW i \in 0 .. Across(c), NEW j \in 0 .. Down(c), Underway(c, i, j)
      PROVE  LineSoFar(c)'
  <2>1. Head(todo).op = "segment"
    BY <1>2, LastDraws DEF Underway, Segment
  <2>2. LineStep
    BY <2>1 DEF Draws, Clear, Invert, SetPixel, StartLine, DrawRect, DrawCircle, DrawString,
                DrawChar, Running
  <2>. QED  BY <1>2, <2>2, LineRound
<1>3. CASE todo = <<ShowCall>>
  <2>1. Head(todo).op = "show"
    BY <1>3 DEF ShowCall
  <2>. QED  BY <2>1 DEF Draws, Clear, Invert, SetPixel, StartLine, LineStep, DrawRect,
                DrawCircle, DrawString, DrawChar, Running
<1>. QED  BY <1>1, <1>2, <1>3 DEF LineSoFar

----------------------------------------------------------------------------
(* What the calls still to be made will set, for rectangles and circles.   *)

\* The pixels between two corners.
Block(c) == {p \in Screen : Between(p[1], c.x, c.tox) /\ Between(p[2], c.y, c.toy)}

\* A pixel, or a line along a column or a row.
Marked(c) ==
  IF c.op = "pixel" THEN {<<c.x, c.y>>} \cap Screen
                    ELSE IF OnScreen(c) THEN Block(c) ELSE {}

\* The number nearest to the root of r^2 - a^2 is b.
IsNearest(r, a, b) ==
  /\ IF b = 0 THEN 0 <= r * r - a * a ELSE b * b - b < r * r - a * a
  /\ r * r - a * a <= b * b + b

\* The pixels of the upper octant of a circle, from column a on.
Octant(r, a) == {q \in Nat \X Nat : a <= q[1] /\ q[1] <= q[2] /\ IsNearest(r, q[1], q[2])}

\* The calls for the pixel a columns and b rows from the centre, and its reflections.
Reflected(c, a, b) ==
  CircleDraws([x |-> c.x, y |-> c.y, fill |-> c.fill, a |-> a, b |-> b])

MarkedAll(d) == UNION {Marked(d[k]) : k \in DOMAIN d}

Paints(r, c) ==
  CASE c.op \in {"pixel", "line"} -> Marked(c)
    [] c.op = "segment" -> Block(c)
    [] c.op = "rect" -> IF OnScreen(c)
                          THEN {p \in Block(c) : \/ c.fill
                                                 \/ p[1] \in {c.x, c.tox}
                                                 \/ p[2] \in {c.y, c.toy}}
                          ELSE {}
    [] c.op = "circle" -> UNION {MarkedAll(Reflected(c, q[1], q[2])) : q \in Octant(r, c.a)}
    [] OTHER -> {}

PaintsAll(r, d) == UNION {Paints(r, d[k]) : k \in 1 .. Len(d)}

\* A line's loop that goes straight on: err stays what it is.
Straight(s) ==
  /\ s.x \in 0 .. Width - 1 /\ s.tox \in 0 .. Width - 1
  /\ s.y \in 0 .. Height - 1 /\ s.toy \in 0 .. Height - 1
  /\ \/ /\ s.y = s.toy /\ s.dy = 0 /\ s.err = s.dx
        /\ s.x # s.tox => s.dx > 0 /\ s.sx = IF s.x < s.tox THEN 1 ELSE -1
     \/ /\ s.x = s.tox /\ s.dx = 0 /\ s.err = s.dy
        /\ s.y # s.toy => s.dy < 0 /\ s.sy = IF s.y < s.toy THEN 1 ELSE -1

\* A circle's loop: b is the number nearest to the root, and P tells whether the next
\* one is, too.
Rounding(r, c) ==
  /\ c.a \in Nat /\ c.b \in Nat /\ c.a <= c.b
  /\ IsNearest(r, c.a, c.b)
  /\ c.P = (c.a + 1) * (c.a + 1) + c.b * c.b - c.b - r * r

\* The calls a rectangle or a circle of radius r comes down to.
ShapeCall(r) ==
  {c \in DrawCall :
     CASE c.op \in {"pixel", "rect"} -> TRUE
       [] c.op = "line" -> c.x = c.tox \/ c.y = c.toy
       [] c.op = "segment" -> Straight(c)
       [] c.op = "circle" -> Rounding(r, c)
       [] OTHER -> FALSE}

\* What is set and what will be set are, together, T.
ShapeSoFar(r, T) ==
  \E d \in Seq(ShapeCall(r)) :
    /\ todo = Append(d, ShowCall)
    /\ ram \cup PaintsAll(r, d) = T

\* No call sets nothing, one call what it sets, and lists add up.
LEMMA PaintsNone == \A r : PaintsAll(r, << >>) = {}
BY DEF PaintsAll

LEMMA PaintsOne == \A r, c : PaintsAll(r, <<c>>) = Paints(r, c)
BY DEF PaintsAll

LEMMA PaintsJoined ==
  ASSUME NEW r, NEW S, NEW d \in Seq(S), NEW e \in Seq(S)
  PROVE  PaintsAll(r, d \o e) = PaintsAll(r, d) \cup PaintsAll(r, e)
<1>. DEFINE f == d \o e
<1>1. /\ Len(f) = Len(d) + Len(e) /\ Len(d) \in Nat /\ Len(e) \in Nat
      /\ \A k \in 1 .. Len(f) : f[k] = IF k <= Len(d) THEN d[k] ELSE e[k - Len(d)]
  OBVIOUS
<1>. HIDE DEF f
<1>2. ASSUME NEW k \in 1 .. Len(d) PROVE k \in 1 .. Len(f) /\ f[k] = d[k]
  BY <1>1
<1>3. ASSUME NEW k \in 1 .. Len(e) PROVE Len(d) + k \in 1 .. Len(f) /\ f[Len(d) + k] = e[k]
  BY <1>1
<1>4. ASSUME NEW k \in 1 .. Len(f)
      PROVE  (\E i \in 1 .. Len(d) : f[k] = d[i]) \/ (\E i \in 1 .. Len(e) : f[k] = e[i])
  <2>1. CASE k <= Len(d)
    BY <1>1, <2>1
  <2>2. CASE ~(k <= Len(d))
    <3>1. k - Len(d) \in 1 .. Len(e)
      BY <1>1, <2>2
    <3>. QED  BY <1>1, <2>2, <3>1
  <2>. QED  BY <2>1, <2>2
<1>5. PaintsAll(r, f) = PaintsAll(r, d) \cup PaintsAll(r, e)
  BY <1>2, <1>3, <1>4 DEF PaintsAll
<1>. QED  BY <1>5 DEF f

\* The running call may be replaced by others that set the same.
LEMMA Replaced ==
  ASSUME NEW r, NEW T, NEW d \in Seq(ShapeCall(r)), d # << >>,
         todo = Append(d, ShowCall), ram \cup PaintsAll(r, d) = T,
         NEW made \in Seq(ShapeCall(r)), Makes(made),
         ram' \cup PaintsAll(r, made) = ram \cup Paints(r, Head(d))
  PROVE  ShapeSoFar(r, T)'
<1>. DEFINE Any == ShapeCall(r) \cup {ShowCall}
<1>0. PICK t : t = Tail(d)
  OBVIOUS
<1>1. t \in Seq(ShapeCall(r)) /\ d = <<Head(d)>> \o t /\ <<Head(d)>> \in Seq(ShapeCall(r))
  <2>1. Head(d) \in ShapeCall(r) /\ t \in Seq(ShapeCall(r))
    BY <1>0, HeadTailProperties
  <2>. QED  BY <1>0, <2>1
<1>2. Tail(todo) = Append(t, ShowCall)
  BY <1>0, HeadTailAppend
<1>3. todo' = Append(made \o t, ShowCall)
  <2>1. made \in Seq(Any) /\ t \in Seq(Any) /\ <<ShowCall>> \in Seq(Any)
    BY <1>1, SeqMonotonic
  <2>2. made \o Append(t, ShowCall) = Append(made \o t, ShowCall)
    <3>. HIDE DEF Any
    <3>1. Append(t, ShowCall) = t \o <<ShowCall>>
      BY <2>1, AppendIsConcat
    <3>2. made \o t \in Seq(Any)
      BY <2>1, ConcatProperties
    <3>3. Append(made \o t, ShowCall) = (made \o t) \o <<ShowCall>>
      BY <3>2, AppendIsConcat
    <3>4. (made \o t) \o <<ShowCall>> = made \o (t \o <<ShowCall>>)
      BY <2>1, ConcatAssociative
    <3>. QED  BY <3>1, <3>3, <3>4
  <2>. QED  BY <1>2, <2>2 DEF Makes
<1>4. PaintsAll(r, d) = Paints(r, Head(d)) \cup PaintsAll(r, t)
  <2>1. PICK first \in Seq(ShapeCall(r)) : first = <<Head(d)>> /\ d = first \o t
    BY <1>1
  <2>2. PaintsAll(r, first \o t) = PaintsAll(r, first) \cup PaintsAll(r, t)
    <3>1. t \in Seq(ShapeCall(r))
      BY <1>1
    <3>. QED  BY <3>1, PaintsJoined
  <2>. QED  BY <2>1, <2>2, PaintsOne
<1>5. PaintsAll(r, made \o t) = PaintsAll(r, made) \cup PaintsAll(r, t)
  BY <1>1, PaintsJoined
<1>6. made \o t \in Seq(ShapeCall(r))
  BY <1>1, ConcatProperties
<1>7. ram' \cup PaintsAll(r, made \o t) = T
  BY <1>4, <1>5
<1>. QED  BY <1>3, <1>6, <1>7 DEF ShapeSoFar

----------------------------------------------------------------------------
(* Each call of a rectangle or a circle sets what is said of it.           *)

\* What replaces the running call c sets the same, together with what it set itself.
Redraws(r, c) ==
  \E made \in Seq(ShapeCall(r)) :
    Makes(made) /\ ram' \cup PaintsAll(r, made) = ram \cup Paints(r, c)

\* A call that returns has set what it was to set.
LEMMA RedrawsNothing ==
  ASSUME NEW r, NEW c, Returns, ram' = ram \cup Paints(r, c) PROVE Redraws(r, c)
<1>1. << >> \in Seq(ShapeCall(r)) /\ Makes(<< >>)
  BY DEF Returns
<1>2. PaintsAll(r, << >>) = {}
  BY PaintsNone
<1>3. ram' \cup PaintsAll(r, << >>) = ram \cup Paints(r, c)
  BY <1>2
<1>. QED  BY <1>1, <1>3 DEF Redraws

\* A call that makes one other has set what that one does not.
LEMMA RedrawsOne ==
  ASSUME NEW r, NEW c, NEW e \in ShapeCall(r), Makes(<<e>>),
         ram' \cup Paints(r, e) = ram \cup Paints(r, c)
  PROVE  Redraws(r, c)
<1>1. <<e>> \in Seq(ShapeCall(r)) /\ PaintsAll(r, <<e>>) = Paints(r, e)
  BY PaintsOne
<1>. QED  BY <1>1 DEF Redraws

\* Setting a pixel.
LEMMA ShapePixel ==
  ASSUME NEW r, NEW c \in ShapeCall(r), Head(todo) = c, SetPixel PROVE Redraws(r, c)
<1>1. c \in DrawCall /\ c.op = "pixel" /\ ram' = WithPixel(c.x, c.y) /\ Returns
  BY DEF ShapeCall, SetPixel, Running
<1>2. c.x \in Int /\ c.y \in Int /\ c.x >= 0 /\ c.y >= 0
  BY <1>1, Screens DEF DrawCall, Coordinate
<1>3. position_on_screen(c.x, c.y) <=> <<c.x, c.y>> \in Screen
  BY <1>2, Screens DEF position_on_screen, Screen
<1>4. ram' = ram \cup Paints(r, c)
  BY <1>1, <1>3 DEF WithPixel, Paints, Marked
<1>. QED  BY <1>1, <1>4, RedrawsNothing

\* The loop of a line along a column or a row starts straight.
LEMMA ShapeLine ==
  ASSUME NEW r, NEW c \in ShapeCall(r), Head(todo) = c, StartLine PROVE Redraws(r, c)
<1>1. c \in DrawCall /\ c.op = "line" /\ (c.x = c.tox \/ c.y = c.toy) /\ ram' = ram
  BY DEF ShapeCall, StartLine, Running
<1>2. CASE ~OnScreen(c)
  <2>1. Returns
    BY <1>2 DEF StartLine, OnScreen
  <2>2. Paints(r, c) = {}
    BY <1>1, <1>2 DEF Paints, Marked
  <2>. QED  BY <1>1, <2>1, <2>2, RedrawsNothing
<1>3. CASE OnScreen(c)
  <2>. DEFINE dx == Abs(c.tox - c.x)
              dy == -Abs(c.toy - c.y)
              s == [op |-> "segment", x |-> c.x, y |-> c.y, tox |-> c.tox, toy |-> c.toy,
                    dx |-> dx, dy |-> dy, err |-> dx + dy,
                    sx |-> IF c.x < c.tox THEN 1 ELSE -1,
                    sy |-> IF c.y < c.toy THEN 1 ELSE -1]
  <2>1. Makes(<<s>>)
    BY <1>3 DEF StartLine, OnScreen
  <2>2. /\ c.x \in Int /\ c.y \in Int /\ c.tox \in Int /\ c.toy \in Int
        /\ c.x \in 0 .. Width - 1 /\ c.tox \in 0 .. Width - 1
        /\ c.y \in 0 .. Height - 1 /\ c.toy \in 0 .. Height - 1
    BY <1>1, <1>3, LineArguments
  <2>3. dx \in Int /\ dy \in Int
    BY <2>2 DEF Abs
  <2>4. /\ c.x \in Coordinate /\ c.y \in Coordinate /\ c.tox \in Coordinate /\ c.toy \in Coordinate
    BY <2>2, Screens DEF Coordinate
  <2>5. s \in DrawCall
    <3>. HIDE DEF dx, dy
    <3>. QED  BY <2>3, <2>4 DEF DrawCall
  <2>6. /\ c.x # c.tox => dx > 0
        /\ c.y # c.toy => dy < 0
        /\ c.x = c.tox => dx = 0 /\ dx + dy = dy
        /\ c.y = c.toy => dy = 0 /\ dx + dy = dx
    BY <2>2 DEF Abs
  <2>7. Straight(s)
    <3>. HIDE DEF dx, dy
    <3>. QED  BY <1>1, <2>2, <2>6 DEF Straight
  <2>8. s \in ShapeCall(r)
    BY <2>5, <2>7 DEF ShapeCall
  <2>9. Paints(r, s) = Paints(r, c)
    BY <1>1, <1>3 DEF Paints, Marked, Block
  <2>. HIDE DEF s
  <2>. QED  BY <1>1, <2>1, <2>8, <2>9, RedrawsOne
<1>. QED  BY <1>2, <1>3

\* Its loop goes on straight to its end.
LEMMA ShapeSegment ==
  ASSUME NEW r, NEW s \in ShapeCall(r), Head(todo) = s, LineStep PROVE Redraws(r, s)
<1>1. s \in DrawCall /\ s.op = "segment" /\ Straight(s)
  BY DEF ShapeCall, LineStep, Running
<1>2. s \in [op : {"segment"}, x : Coordinate, y : Coordinate, tox : Coordinate,
             toy : Coordinate, dx : Int, dy : Int, err : Int, sx : {1, -1}, sy : {1, -1}]
  BY <1>1 DEF DrawCall
<1>3. /\ s.x \in 0 .. Width - 1 /\ s.tox \in 0 .. Width - 1
      /\ s.y \in 0 .. Height - 1 /\ s.toy \in 0 .. Height - 1
      /\ s.x \in Int /\ s.y \in Int /\ s.tox \in Int /\ s.toy \in Int
      /\ s.dx \in Int /\ s.dy \in Int /\ s.err \in Int
  BY <1>1, <1>2, Screens DEF Straight
<1>4. ram' = ram \cup {<<s.x, s.y>>}
  BY <1>3, Screens DEF LineStep, WithPixel, position_on_screen
<1>5. CASE s.x = s.tox /\ s.y = s.toy
  <2>1. Returns
    BY <1>5 DEF LineStep
  <2>2. Paints(r, s) = {<<s.x, s.y>>}
    <3>1. Paints(r, s) = Block(s)
      BY <1>1 DEF Paints
    <3>2. ASSUME NEW p \in Block(s) PROVE p = <<s.x, s.y>>
      BY <1>3, <1>5, Screens DEF Block, Between, Screen
    <3>3. <<s.x, s.y>> \in Block(s)
      BY <1>3, <1>5, Screens DEF Block, Between, Screen
    <3>. QED  BY <3>1, <3>2, <3>3
  <2>. QED  BY <1>4, <2>1, <2>2, RedrawsNothing
<1>6. CASE ~(s.x = s.tox /\ s.y = s.toy)
  <2>. DEFINE right == 2 * s.err > s.dy
              down == 2 * s.err < s.dx
              x == IF right THEN s.x + s.sx ELSE s.x
              y == IF down THEN s.y + s.sy ELSE s.y
              err == s.err + (IF right THEN s.dy ELSE 0) + (IF down THEN s.dx ELSE 0)
              next == [s EXCEPT !.x = U8(x), !.y = U8(y), !.err = err]
  <2>1. Makes(<<next>>)
    BY <1>6 DEF LineStep
  <2>2. \/ /\ s.x < s.tox /\ x = s.x + 1 /\ y = s.y /\ s.y = s.toy /\ s.dy = 0 /\ err = s.err
           /\ s.err = s.dx /\ s.dx > 0 /\ s.sx = 1
        \/ /\ s.x > s.tox /\ x = s.x - 1 /\ y = s.y /\ s.y = s.toy /\ s.dy = 0 /\ err = s.err
           /\ s.err = s.dx /\ s.dx > 0 /\ s.sx = -1
        \/ /\ s.y < s.toy /\ y = s.y + 1 /\ x = s.x /\ s.x = s.tox /\ s.dx = 0 /\ err = s.err
           /\ s.err = s.dy /\ s.dy < 0 /\ s.sy = 1
        \/ /\ s.y > s.toy /\ y = s.y - 1 /\ x = s.x /\ s.x = s.tox /\ s.dx = 0 /\ err = s.err
           /\ s.err = s.dy /\ s.dy < 0 /\ s.sy = -1
    BY <1>1, <1>3, <1>6 DEF Straight
  <2>. HIDE DEF right, down, x, y, err
  <2>3. x \in 0 .. Width - 1 /\ y \in 0 .. Height - 1
    BY <1>3, <2>2, Screens
  <2>4. x \in Coordinate /\ y \in Coordinate /\ err \in Int
    BY <1>3, <2>2, <2>3, Screens DEF Coordinate
  <2>5. PICK e : e = [s EXCEPT !.x = x, !.y = y, !.err = err]
    OBVIOUS
  <2>6. /\ e.op = "segment" /\ e.x = x /\ e.y = y /\ e.tox = s.tox /\ e.toy = s.toy
        /\ e.dx = s.dx /\ e.dy = s.dy /\ e.err = err /\ e.sx = s.sx /\ e.sy = s.sy
    BY <1>2, <2>5
  <2>7. e \in DrawCall
    BY <1>2, <2>4, <2>5 DEF DrawCall
  <2>8. Straight(e)
    BY <1>3, <2>2, <2>3, <2>6 DEF Straight
  <2>9. e \in ShapeCall(r)
    BY <2>6, <2>7, <2>8 DEF ShapeCall
  <2>10. {<<s.x, s.y>>} \cup Paints(r, e) = Paints(r, s)
    <3>1. Paints(r, s) = Block(s) /\ Paints(r, e) = Block(e)
      BY <1>1, <2>6 DEF Paints
    <3>2. <<s.x, s.y>> \in Block(s)
      BY <1>3, Screens DEF Block, Between, Screen
    <3>3. ASSUME NEW p \in Screen
          PROVE  p \in Block(s) <=> p \in Block(e) \/ p = <<s.x, s.y>>
      BY <1>3, <2>2, <2>6, Screens DEF Block, Between, Screen
    <3>4. Block(s) \subseteq Screen /\ Block(e) \subseteq Screen
      BY DEF Block
    <3>. QED  BY <3>1, <3>2, <3>3, <3>4
  <2>11. Makes(<<e>>)
    <3>1. U8(x) = x /\ U8(y) = y
      BY <2>4, U8Same
    <3>. QED  BY <2>1, <2>5, <3>1
  <2>. QED  BY <1>4, <2>9, <2>10, <2>11, RedrawsOne
<1>. QED  BY <1>5, <1>6

\* A line along a column or a row between points of the screen sets what is between them.
LEMMA StraightLine ==
  ASSUME NEW r, NEW x1 \in 0 .. Width - 1, NEW y1 \in 0 .. Height - 1,
         NEW x2 \in 0 .. Width - 1, NEW y2 \in 0 .. Height - 1, x1 = x2 \/ y1 = y2,
         NEW l, l = LineCall(x1, y1, x2, y2)
  PROVE  /\ l \in ShapeCall(r)
         /\ Paints(r, l) = {p \in Screen : Between(p[1], x1, x2) /\ Between(p[2], y1, y2)}
<1>1. x1 \in Coordinate /\ y1 \in Coordinate /\ x2 \in Coordinate /\ y2 \in Coordinate
  BY Screens DEF Coordinate
<1>2. l = [op |-> "line", x |-> x1, y |-> y1, tox |-> x2, toy |-> y2]
  BY <1>1, U8Same DEF LineCall
<1>3. l \in ShapeCall(r)
  BY <1>1, <1>2 DEF ShapeCall, DrawCall
<1>4. OnScreen(l)
  BY <1>2, Screens DEF OnScreen, position_on_screen
<1>. QED  BY <1>2, <1>3, <1>4 DEF Paints, Marked, Block

\* A rectangle's lines make up its block, or its sides.
LEMMA ShapeRect ==
  ASSUME NEW r, NEW c \in ShapeCall(r), Head(todo) = c, DrawRect PROVE Redraws(r, c)
<1>1. c \in DrawCall /\ c.op = "rect" /\ ram' = ram
  BY DEF ShapeCall, DrawRect, Running
<1>2. CASE ~OnScreen(c)
  <2>1. Returns
    BY <1>2 DEF DrawRect, OnScreen
  <2>2. Paints(r, c) = {}
    BY <1>1, <1>2 DEF Paints
  <2>. QED  BY <1>1, <2>1, <2>2, RedrawsNothing
<1>3. ASSUME OnScreen(c)
      PROVE  /\ c.x \in Int /\ c.y \in Int /\ c.tox \in Int /\ c.toy \in Int
             /\ c.x \in 0 .. Width - 1 /\ c.tox \in 0 .. Width - 1
             /\ c.y \in 0 .. Height - 1 /\ c.toy \in 0 .. Height - 1
  <2>1. /\ c.x \in Coordinate /\ c.y \in Coordinate /\ c.tox \in Coordinate /\ c.toy \in Coordinate
    BY <1>1 DEF DrawCall
  <2>. QED  BY <1>3, <2>1, Screens DEF OnScreen, position_on_screen, Coordinate
<1>4. CASE OnScreen(c) /\ c.fill
  <2>. DEFINE left == IF c.x <= c.tox THEN c.x ELSE c.tox
              right == IF c.x <= c.tox THEN c.tox ELSE c.x
              N == right - left + 1
              L(i) == LineCall(left + i - 1, c.y, left + i - 1, c.toy)
              made == [i \in 1 .. N |-> L(i)]
  <2>1. Makes(made)
    BY <1>4 DEF DrawRect, OnScreen
  <2>2. /\ left \in 0 .. Width - 1 /\ right \in 0 .. Width - 1 /\ N \in Nat
        /\ \A i \in 1 .. N : left + i - 1 \in left .. right /\ left + i - 1 \in 0 .. Width - 1
        /\ \A x \in left .. right : x - left + 1 \in 1 .. N /\ left + (x - left + 1) - 1 = x
        /\ \A x \in Int : Between(x, c.x, c.tox) <=> x \in left .. right
    BY <1>3, <1>4, Screens DEF Between
  <2>. HIDE DEF left, right, N
  <2>3. ASSUME NEW i \in 1 .. N
        PROVE  /\ L(i) \in ShapeCall(r)
               /\ Paints(r, L(i)) = {p \in Screen : p[1] = left + i - 1 /\ Between(p[2], c.y, c.toy)}
    <3>1. PICK x : x = left + i - 1
      OBVIOUS
    <3>2. x \in 0 .. Width - 1
      BY <2>2, <3>1
    <3>3. L(i) = LineCall(x, c.y, x, c.toy)
      BY <3>1
    <3>4. /\ L(i) \in ShapeCall(r)
          /\ Paints(r, L(i)) = {p \in Screen : Between(p[1], x, x) /\ Between(p[2], c.y, c.toy)}
      BY <1>3, <1>4, <3>2, <3>3, StraightLine
    <3>5. \A p \in Screen : Between(p[1], x, x) <=> p[1] = x
      BY <3>2, Screens DEF Between, Screen
    <3>. QED  BY <3>1, <3>4, <3>5
  <2>4. made \in Seq(ShapeCall(r)) /\ Len(made) = N
    BY <2>2, <2>3
  <2>5. PaintsAll(r, made) = Paints(r, c)
    <3>1. Paints(r, c) = Block(c)
      BY <1>1, <1>4 DEF Paints
    <3>2. \A p \in Screen : p \in Block(c) <=> p[1] \in left .. right /\ Between(p[2], c.y, c.toy)
      BY <2>2, Screens DEF Block, Screen
    <3>3. \A i \in 1 .. N : made[i] = L(i)
      OBVIOUS
    <3>. HIDE DEF made, L
    <3>4. ASSUME NEW p \in Block(c) PROVE p \in PaintsAll(r, made)
      <4>1. p \in Screen /\ p[1] \in left .. right /\ Between(p[2], c.y, c.toy)
        BY <3>2, <3>4 DEF Block
      <4>2. PICK i \in 1 .. N : left + i - 1 = p[1]
        BY <2>2, <4>1
      <4>3. p \in Paints(r, made[i])
        BY <2>3, <3>3, <4>1, <4>2
      <4>. QED  BY <2>4, <4>3 DEF PaintsAll
    <3>5. ASSUME NEW p \in PaintsAll(r, made) PROVE p \in Block(c)
      <4>1. PICK i \in 1 .. N : p \in Paints(r, L(i))
        BY <2>4, <3>3, <3>5 DEF PaintsAll
      <4>2. p \in Screen /\ p[1] = left + i - 1 /\ Between(p[2], c.y, c.toy)
        BY <2>3, <4>1
      <4>. QED  BY <2>2, <3>2, <4>2
    <3>. QED  BY <3>1, <3>4, <3>5
  <2>. HIDE DEF made
  <2>. QED  BY <1>1, <2>1, <2>4, <2>5 DEF Redraws
<1>5. CASE OnScreen(c) /\ ~c.fill
  <2>1. PICK l1 : l1 = LineCall(c.x, c.y, c.x, c.toy)
    OBVIOUS
  <2>2. PICK l2 : l2 = LineCall(c.x, c.y, c.tox, c.y)
    OBVIOUS
  <2>3. PICK l3 : l3 = LineCall(c.x, c.toy, c.tox, c.toy)
    OBVIOUS
  <2>4. PICK l4 : l4 = LineCall(c.tox, c.toy, c.tox, c.y)
    OBVIOUS
  <2>5. Makes(<<l1, l2, l3, l4>>)
    BY <1>5, <2>1, <2>2, <2>3, <2>4 DEF DrawRect, OnScreen
  <2>6. /\ l1 \in ShapeCall(r)
        /\ Paints(r, l1) = {p \in Screen : Between(p[1], c.x, c.x) /\ Between(p[2], c.y, c.toy)}
    BY <1>3, <1>5, <2>1, StraightLine
  <2>7. /\ l2 \in ShapeCall(r)
        /\ Paints(r, l2) = {p \in Screen : Between(p[1], c.x, c.tox) /\ Between(p[2], c.y, c.y)}
    BY <1>3, <1>5, <2>2, StraightLine
  <2>8. /\ l3 \in ShapeCall(r)
        /\ Paints(r, l3) = {p \in Screen : Between(p[1], c.x, c.tox) /\ Between(p[2], c.toy, c.toy)}
    BY <1>3, <1>5, <2>3, StraightLine
  <2>9. /\ l4 \in ShapeCall(r)
        /\ Paints(r, l4) = {p \in Screen : Between(p[1], c.tox, c.tox) /\ Between(p[2], c.toy, c.y)}
    BY <1>3, <1>5, <2>4, StraightLine
  <2>10. Paints(r, c) = {p \in Block(c) : p[1] \in {c.x, c.tox} \/ p[2] \in {c.y, c.toy}}
    BY <1>1, <1>5 DEF Paints
  <2>11. PICK made : made = <<l1, l2, l3, l4>>
    OBVIOUS
  <2>12. made \in Seq(ShapeCall(r)) /\ Len(made) = 4
    BY <2>6, <2>7, <2>8, <2>9, <2>11
  <2>13. PaintsAll(r, made) =
           Paints(r, l1) \cup Paints(r, l2) \cup Paints(r, l3) \cup Paints(r, l4)
    <3>1. 1 .. 4 = {1, 2, 3, 4}
      OBVIOUS
    <3>2. made[1] = l1 /\ made[2] = l2 /\ made[3] = l3 /\ made[4] = l4
      BY <2>11
    <3>. QED  BY <2>12, <3>1, <3>2 DEF PaintsAll
  <2>14. ASSUME NEW p \in Screen
         PROVE  p \in PaintsAll(r, made) <=> p \in Paints(r, c)
    <3>1. p[1] \in Int /\ p[2] \in Int
      BY Screens DEF Screen
    <3>2. p \in PaintsAll(r, made) <=>
            \/ Between(p[1], c.x, c.x) /\ Between(p[2], c.y, c.toy)
            \/ Between(p[1], c.x, c.tox) /\ Between(p[2], c.y, c.y)
            \/ Between(p[1], c.x, c.tox) /\ Between(p[2], c.toy, c.toy)
            \/ Between(p[1], c.tox, c.tox) /\ Between(p[2], c.toy, c.y)
      BY <2>6, <2>7, <2>8, <2>9, <2>13
    <3>3. p \in Paints(r, c) <=>
            /\ Between(p[1], c.x, c.tox) /\ Between(p[2], c.y, c.toy)
            /\ p[1] \in {c.x, c.tox} \/ p[2] \in {c.y, c.toy}
      BY <2>10 DEF Block
    <3>. QED  BY <1>3, <1>5, <3>1, <3>2, <3>3 DEF Between
  <2>15. PaintsAll(r, made) \subseteq Screen /\ Paints(r, c) \subseteq Screen
    BY <2>6, <2>7, <2>8, <2>9, <2>10, <2>13 DEF Block
  <2>16. PaintsAll(r, made) = Paints(r, c)
    BY <2>14, <2>15
  <2>. QED  BY <1>1, <2>5, <2>11, <2>12, <2>16 DEF Redraws
<1>. QED  BY <1>2, <1>4, <1>5

----------------------------------------------------------------------------
(* The loop of lcd_spi_draw_circle().                                      *)

\* Of the numbers only one is nearest.
LEMMA NearestOnce ==
  ASSUME NEW r \in Nat, NEW a \in Nat, NEW b \in Nat, NEW c \in Nat,
         IsNearest(r, a, b), IsNearest(r, a, c)
  PROVE  b = c
<1>. DEFINE h == r * r - a * a
<1>1. h \in Int
  OBVIOUS
<1>2. ASSUME NEW x \in Nat, NEW y \in Nat, x < y, IsNearest(r, a, x), IsNearest(r, a, y)
      PROVE  FALSE
  <2>1. h <= x * x + x /\ y * y - y < h
    BY <1>2 DEF IsNearest
  <2>2. y * y - y = y * (y - 1) /\ x * x + x = (x + 1) * x
    OBVIOUS
  <2>3. y * (y - 1) >= (x + 1) * (y - 1) /\ (x + 1) * (y - 1) >= (x + 1) * x
    BY <1>2
  <2>4. y * y - y \in Int /\ x * x + x \in Int /\ (x + 1) * (y - 1) \in Int
    OBVIOUS
  <2>. HIDE DEF h
  <2>. QED  BY <1>1, <2>1, <2>2, <2>3, <2>4
<1>3. b < c \/ c < b \/ b = c
  OBVIOUS
<1>. QED  BY <1>2, <1>3

\* A column and a row further on the circle they have P < 0, or not.
LEMMA NearestNext ==
  ASSUME NEW r \in Nat, NEW a \in Nat, NEW b \in Nat, a <= b, IsNearest(r, a, b)
  PROVE  /\ (a + 1) * (a + 1) + b * b - b - r * r < 0 => IsNearest(r, a + 1, b)
         /\ (~((a + 1) * (a + 1) + b * b - b - r * r < 0) /\ a + 1 <= b - 1) =>
              IsNearest(r, a + 1, b - 1)
<1>. DEFINE A == a * a
            B == b * b
            R == r * r
<1>1. A \in Nat /\ B \in Nat /\ R \in Nat
  OBVIOUS
<1>2. (a + 1) * (a + 1) = A + 2 * a + 1 /\ (b - 1) * (b - 1) = B - 2 * b + 1
  OBVIOUS
<1>3. /\ IF b = 0 THEN 0 <= R - A ELSE B - b < R - A
      /\ R - A <= B + b
  BY DEF IsNearest
<1>4. ASSUME (a + 1) * (a + 1) + b * b - b - r * r < 0 PROVE IsNearest(r, a + 1, b)
  <2>1. (A + 2 * a + 1) + B - b - R < 0
    BY <1>2, <1>4
  <2>2. /\ IF b = 0 THEN 0 <= R - (A + 2 * a + 1) ELSE B - b < R - (A + 2 * a + 1)
        /\ R - (A + 2 * a + 1) <= B + b
    <3>1. b = 0 => B = 0
      OBVIOUS
    <3>. HIDE DEF A, B, R
    <3>. QED  BY <1>1, <1>3, <2>1, <3>1
  <2>. QED  BY <1>2, <2>2 DEF IsNearest
<1>5. ASSUME ~((a + 1) * (a + 1) + b * b - b - r * r < 0), a + 1 <= b - 1
      PROVE  IsNearest(r, a + 1, b - 1)
  <2>1. ~((A + 2 * a + 1) + B - b - R < 0)
    BY <1>2, <1>5
  <2>2. /\ b - 1 # 0 /\ b # 0
        /\ (B - 2 * b + 1) - (b - 1) < R - (A + 2 * a + 1)
        /\ R - (A + 2 * a + 1) <= (B - 2 * b + 1) + (b - 1)
    <3>. HIDE DEF A, B, R
    <3>. QED  BY <1>1, <1>3, <1>5, <2>1
  <2>. QED  BY <1>2, <2>2 DEF IsNearest
<1>. QED  BY <1>4, <1>5

\* When the loop ends the octant ends.
LEMMA OctantEnds ==
  ASSUME NEW r \in Nat, NEW a \in Nat, NEW b \in Nat, a <= b, IsNearest(r, a, b),
         IF (a + 1) * (a + 1) + b * b - b - r * r < 0 THEN a + 1 > b ELSE a + 1 > b - 1
  PROVE  Octant(r, a + 1) = {}
<1>. SUFFICES ASSUME NEW q \in Octant(r, a + 1) PROVE FALSE
  OBVIOUS
<1>1. PICK x \in Nat, y \in Nat : a + 1 <= x /\ x <= y /\ IsNearest(r, x, y)
  BY DEF Octant
<1>. DEFINE A == a * a
            B == b * b
            R == r * r
            X == x * x
            Y == y * y
<1>2. A \in Nat /\ B \in Nat /\ R \in Nat /\ X \in Nat /\ Y \in Nat
  OBVIOUS
<1>3. (a + 1) * (a + 1) = A + 2 * a + 1
  OBVIOUS
<1>4. R - A <= B + b
  BY DEF IsNearest
<1>5. Y - y < R - X
  BY <1>1 DEF IsNearest
<1>6. X >= A + 2 * a + 1
  <2>1. x * x >= (a + 1) * x /\ (a + 1) * x >= (a + 1) * (a + 1)
    BY <1>1
  <2>. QED  BY <1>2, <1>3, <2>1
<1>7. Y - y >= A + a
  <2>1. y * (y - 1) >= (a + 1) * (y - 1) /\ (a + 1) * (y - 1) >= (a + 1) * a
    BY <1>1
  <2>2. y * (y - 1) = Y - y /\ (a + 1) * a = A + a
    OBVIOUS
  <2>. QED  BY <1>2, <2>1, <2>2
<1>8. CASE (a + 1) * (a + 1) + b * b - b - r * r < 0
  <2>1. b = a /\ B = A
    BY <1>8
  <2>. HIDE DEF A, B, R, X, Y
  <2>. QED  BY <1>2, <1>4, <1>5, <1>6, <1>7, <2>1
<1>9. CASE ~((a + 1) * (a + 1) + b * b - b - r * r < 0)
  <2>1. ~((A + 2 * a + 1) + B - b - R < 0)
    BY <1>3, <1>9
  <2>2. B - b <= A + a
    <3>1. b = a \/ b = a + 1
      BY <1>9
    <3>2. b = a => B = A
      OBVIOUS
    <3>3. b = a + 1 => B = A + 2 * a + 1
      BY <1>3
    <3>. HIDE DEF A, B
    <3>. QED  BY <1>2, <3>1, <3>2, <3>3
  <2>. HIDE DEF A, B, R, X, Y
  <2>. QED  BY <1>2, <1>5, <1>6, <1>7, <2>1, <2>2
<1>. QED  BY <1>8, <1>9

\* The loop of a circle of radius r that is not over.
LEMMA RoundingNext ==
  ASSUME NEW r \in Nat, NEW c, c \in ShapeCall(r), c.op = "circle",
         NEW next, next = CircleNext(c)
  PROVE  /\ next.a <= next.b => next \in ShapeCall(r) /\ next.op = "circle"
         /\ next.x = c.x /\ next.y = c.y /\ next.fill = c.fill
         /\ Octant(r, c.a) = {<<c.a, c.b>>} \cup IF next.a <= next.b THEN Octant(r, next.a) ELSE {}
<1>1. c \in DrawCall /\ Rounding(r, c)
  BY DEF ShapeCall
<1>2. c \in [op : {"circle"}, x : Coordinate, y : Coordinate, fill : BOOLEAN,
             a : Int, b : Int, P : Int]
  BY <1>1 DEF DrawCall
<1>3. PICK a \in Nat, b \in Nat :
        /\ a = c.a /\ b = c.b /\ a <= b /\ IsNearest(r, a, b)
        /\ c.P = (a + 1) * (a + 1) + b * b - b - r * r
  BY <1>1 DEF Rounding
<1>4. /\ c.P \in Int
      /\ next = IF c.P < 0 THEN [c EXCEPT !.P = c.P + 3 + 2 * a, !.a = a + 1]
                ELSE [c EXCEPT !.P = c.P + 5 + 2 * (a - b), !.a = a + 1, !.b = b - 1]
  BY <1>2, <1>3 DEF CircleNext
<1>5. PICK m \in Int, n \in Int, P \in Int :
        /\ m = a + 1 /\ n = (IF c.P < 0 THEN b ELSE b - 1)
        /\ P = IF c.P < 0 THEN c.P + 3 + 2 * a ELSE c.P + 5 + 2 * (a - b)
  BY <1>3, <1>4
<1>6. next = [op |-> "circle", x |-> c.x, y |-> c.y, fill |-> c.fill, a |-> m, b |-> n, P |-> P]
  <2>1. CASE c.P < 0
    <3>1. next = [c EXCEPT !.P = P, !.a = m]
      BY <1>4, <1>5, <2>1
    <3>2. n = c.b
      BY <1>3, <1>5, <2>1
    <3>. QED  BY <1>2, <3>1, <3>2
  <2>2. CASE ~(c.P < 0)
    <3>1. next = [c EXCEPT !.P = P, !.a = m, !.b = n]
      BY <1>4, <1>5, <2>2
    <3>. QED  BY <1>2, <3>1
  <2>. QED  BY <2>1, <2>2
<1>7. ASSUME next.a <= next.b PROVE Rounding(r, next)
  <2>1. next.a \in Nat /\ next.b \in Nat
    BY <1>3, <1>5, <1>6, <1>7
  <2>2. IsNearest(r, next.a, next.b)
    <3>1. /\ (a + 1) * (a + 1) + b * b - b - r * r < 0 => IsNearest(r, a + 1, b)
          /\ (~((a + 1) * (a + 1) + b * b - b - r * r < 0) /\ a + 1 <= b - 1) =>
               IsNearest(r, a + 1, b - 1)
      BY <1>3, NearestNext
    <3>2. CASE c.P < 0
      <4>1. IsNearest(r, m, n)
        BY <1>3, <1>5, <3>1, <3>2
      <4>. QED  BY <1>6, <4>1
    <3>3. CASE ~(c.P < 0)
      <4>1. a + 1 <= b - 1
        BY <1>3, <1>5, <1>6, <1>7, <3>3
      <4>2. IsNearest(r, m, n)
        BY <1>3, <1>5, <3>1, <3>3, <4>1
      <4>. QED  BY <1>6, <4>2
    <3>. QED  BY <3>2, <3>3
  <2>3. next.P = (next.a + 1) * (next.a + 1) + next.b * next.b - next.b - r * r
    <3>1. /\ (a + 1 + 1) * (a + 1 + 1) = (a + 1) * (a + 1) + 2 * a + 3
          /\ (b - 1) * (b - 1) = b * b - 2 * b + 1
          /\ (a + 1) * (a + 1) \in Int /\ b * b \in Int /\ r * r \in Int
      OBVIOUS
    <3>2. CASE c.P < 0
      <4>1. P = (m + 1) * (m + 1) + n * n - n - r * r
        BY <1>3, <1>5, <3>1, <3>2
      <4>. QED  BY <1>6, <4>1
    <3>3. CASE ~(c.P < 0)
      <4>1. P = (m + 1) * (m + 1) + n * n - n - r * r
        BY <1>3, <1>5, <3>1, <3>3
      <4>. QED  BY <1>6, <4>1
    <3>. QED  BY <3>2, <3>3
  <2>. QED  BY <1>7, <2>1, <2>2, <2>3 DEF Rounding
<1>8. ASSUME next.a <= next.b PROVE next \in ShapeCall(r) /\ next.op = "circle"
  <2>1. next.op = "circle" /\ next \in DrawCall
    BY <1>2, <1>6 DEF DrawCall
  <2>. QED  BY <1>7, <1>8, <2>1 DEF ShapeCall
<1>9. \A q \in Octant(r, a) : q = <<a, b>> \/ q \in Octant(r, a + 1)
  <2>. SUFFICES ASSUME NEW q \in Octant(r, a) PROVE q = <<a, b>> \/ q \in Octant(r, a + 1)
    OBVIOUS
  <2>1. PICK x \in Nat, y \in Nat : q = <<x, y>> /\ a <= x /\ x <= y /\ IsNearest(r, x, y)
    BY DEF Octant
  <2>2. CASE x = a
    BY <1>3, <2>1, <2>2, NearestOnce
  <2>3. CASE x # a
    <3>1. a + 1 <= x
      BY <2>1, <2>3
    <3>. QED  BY <2>1, <3>1 DEF Octant
  <2>. QED  BY <2>2, <2>3
<1>10. <<a, b>> \in Octant(r, a) /\ Octant(r, a + 1) \subseteq Octant(r, a)
  BY <1>3 DEF Octant
<1>11. CASE next.a <= next.b
  BY <1>3, <1>5, <1>6, <1>8, <1>9, <1>10, <1>11
<1>12. CASE ~(next.a <= next.b)
  <2>1. IF (a + 1) * (a + 1) + b * b - b - r * r < 0 THEN a + 1 > b ELSE a + 1 > b - 1
    BY <1>3, <1>5, <1>6, <1>12
  <2>2. Octant(r, a + 1) = {}
    BY <1>3, <2>1, OctantEnds
  <2>. QED  BY <1>3, <1>5, <1>6, <1>9, <1>10, <1>12, <2>2
<1>. QED  BY <1>11, <1>12

\* The calls for one pixel of the octant are calls along rows, or pixels.
LEMMA ReflectedCalls ==
  ASSUME NEW r, NEW c, c \in ShapeCall(r), c.op = "circle", NEW a \in Int, NEW b \in Int
  PROVE  /\ Reflected(c, a, b) \in Seq(ShapeCall(r))
         /\ PaintsAll(r, Reflected(c, a, b)) = MarkedAll(Reflected(c, a, b))
<1>1. c.x \in Int /\ c.y \in Int /\ c.fill \in BOOLEAN
  BY CoordinateInt DEF ShapeCall, DrawCall
<1>2. \A u, v, w \in Int : LineCall(u, v, w, v) \in ShapeCall(r) /\ LineCall(u, v, w, v).op = "line"
  <2>1. \A u, v, w \in Int : LineCall(u, v, w, v) \in DrawCall
    BY LineCalls
  <2>. QED  BY <2>1 DEF ShapeCall, LineCall
<1>3. \A u, v \in Int : PixelCall(u, v) \in ShapeCall(r) /\ PixelCall(u, v).op = "pixel"
  <2>1. \A u, v \in Int : PixelCall(u, v) \in DrawCall
    BY PixelCalls
  <2>. QED  BY <2>1 DEF ShapeCall, PixelCall
<1>4. /\ c.x - a \in Int /\ c.x + a \in Int /\ c.x - b \in Int /\ c.x + b \in Int
      /\ c.y - a \in Int /\ c.y + a \in Int /\ c.y - b \in Int /\ c.y + b \in Int
      /\ a + c.x \in Int /\ a + c.y \in Int /\ b + c.x \in Int /\ b + c.y \in Int
  BY <1>1
<1>. DEFINE Simple == {e \in ShapeCall(r) : e.op \in {"pixel", "line"}}
<1>5. PICK d : d = Reflected(c, a, b)
  OBVIOUS
<1>6. d \in Seq(Simple)
  <2>1. CASE c.fill
    <3>1. \A u, v, w \in Int : LineCall(u, v, w, v) \in Simple
      BY <1>2
    <3>2. d = <<LineCall(c.x - a, c.y + b, c.x + a, c.y + b),
                LineCall(c.x - a, c.y - b, c.x + a, c.y - b),
                LineCall(c.x - b, c.y + a, c.x + b, c.y + a),
                LineCall(c.x - b, c.y - a, c.x + b, c.y - a)>>
      BY <1>5, <2>1 DEF Reflected, CircleDraws
    <3>. HIDE DEF Simple
    <3>. QED  BY <1>4, <3>1, <3>2
  <2>2. CASE ~c.fill
    <3>1. \A u, v \in Int : PixelCall(u, v) \in Simple
      BY <1>3
    <3>2. d = <<PixelCall(a + c.x, b + c.y), PixelCall(b + c.x, a + c.y),
                PixelCall(c.x - a, b + c.y), PixelCall(c.x - b, a + c.y),
                PixelCall(b + c.x, c.y - a), PixelCall(a + c.x, c.y - b),
                PixelCall(c.x - a, c.y - b), PixelCall(c.x - b, c.y - a)>>
      BY <1>5, <2>2 DEF Reflected, CircleDraws
    <3>. HIDE DEF Simple
    <3>. QED  BY <1>4, <3>1, <3>2
  <2>. QED  BY <2>1, <2>2
<1>7. d \in Seq(ShapeCall(r)) /\ DOMAIN d = 1 .. Len(d) /\ \A k \in DOMAIN d : d[k] \in Simple
  BY <1>6
<1>8. \A k \in DOMAIN d : Paints(r, d[k]) = Marked(d[k])
  BY <1>7 DEF Paints
<1>9. PaintsAll(r, d) = MarkedAll(d)
  BY <1>7, <1>8 DEF PaintsAll, MarkedAll
<1>. QED  BY <1>5, <1>7, <1>9

\* A round of the circle's loop sets the reflections of one pixel.
LEMMA ShapeCircle ==
  ASSUME NEW r \in Nat, NEW c \in ShapeCall(r), Head(todo) = c, DrawCircle PROVE Redraws(r, c)
<1>1. c \in DrawCall /\ c.op = "circle" /\ ram' = ram
  BY DEF ShapeCall, DrawCircle, Running
<1>2. PICK next : next = CircleNext(c)
  OBVIOUS
<1>3. /\ next.a <= next.b => next \in ShapeCall(r) /\ next.op = "circle"
      /\ next.x = c.x /\ next.y = c.y /\ next.fill = c.fill
      /\ Octant(r, c.a) = {<<c.a, c.b>>} \cup IF next.a <= next.b THEN Octant(r, next.a) ELSE {}
  BY <1>1, <1>2, RoundingNext
<1>4. PICK now : now = Reflected(c, c.a, c.b)
  OBVIOUS
<1>5. PICK later : later = IF next.a <= next.b THEN <<next>> ELSE << >>
  OBVIOUS
<1>6. Makes(now \o later)
  <2>1. CircleDraws(c) = now
    BY <1>4 DEF Reflected, CircleDraws
  <2>. QED  BY <1>2, <1>5, <2>1 DEF DrawCircle
<1>7. c.a \in Int /\ c.b \in Int
  BY <1>1 DEF DrawCall
<1>8. now \in Seq(ShapeCall(r)) /\ PaintsAll(r, now) = MarkedAll(now)
  BY <1>1, <1>4, <1>7, ReflectedCalls
<1>9. later \in Seq(ShapeCall(r))
  BY <1>3, <1>5
<1>10. PaintsAll(r, now \o later) = PaintsAll(r, now) \cup PaintsAll(r, later)
  BY <1>8, <1>9, PaintsJoined
<1>11. now \o later \in Seq(ShapeCall(r))
  BY <1>8, <1>9, ConcatProperties
<1>12. MarkedAll(now) \cup PaintsAll(r, later) = Paints(r, c)
  <2>. DEFINE M(q) == MarkedAll(Reflected(c, q[1], q[2]))
  <2>1. Paints(r, c) = UNION {M(q) : q \in Octant(r, c.a)}
    BY <1>1 DEF Paints
  <2>2. M(<<c.a, c.b>>) = MarkedAll(now)
    BY <1>4
  <2>3. PaintsAll(r, later) =
          UNION {M(q) : q \in IF next.a <= next.b THEN Octant(r, next.a) ELSE {}}
    <3>1. CASE next.a <= next.b
      <4>1. Paints(r, next) = UNION {MarkedAll(Reflected(next, q[1], q[2])) : q \in Octant(r, next.a)}
        BY <1>3, <3>1 DEF Paints
      <4>2. \A a, b : Reflected(next, a, b) = Reflected(c, a, b)
        BY <1>3 DEF Reflected
      <4>. QED  BY <1>5, <3>1, <4>1, <4>2, PaintsOne
    <3>2. CASE ~(next.a <= next.b)
      BY <1>5, <3>2, PaintsNone
    <3>. QED  BY <3>1, <3>2
  <2>. HIDE DEF M
  <2>. QED  BY <1>3, <2>1, <2>2, <2>3
<1>13. ram' \cup PaintsAll(r, now \o later) = ram \cup Paints(r, c)
  BY <1>1, <1>8, <1>10, <1>12
<1>. QED  BY <1>6, <1>11, <1>13 DEF Redraws

\* What is set and will be set stays the same whatever draws.
LEMMA ShapeKept ==
  ASSUME NEW r \in Nat, NEW T, ShapeSoFar(r, T), Draws
  PROVE  ShapeSoFar(r, T)'
<1>1. PICK d \in Seq(ShapeCall(r)) : todo = Append(d, ShowCall) /\ ram \cup PaintsAll(r, d) = T
  BY DEF ShapeSoFar
<1>2. d # << >>
  <2>1. d = << >> => Head(todo).op = "show"
    BY <1>1, HeadTailAppend DEF ShowCall
  <2>. QED  BY <2>1 DEF Draws, Clear, Invert, SetPixel, StartLine, LineStep, DrawRect,
                DrawCircle, DrawString, DrawChar, Running
<1>3. PICK c \in ShapeCall(r) : c = Head(d) /\ Head(todo) = c
  BY <1>1, <1>2, HeadTailAppend, HeadTailProperties
<1>4. Redraws(r, c)
  <2>1. c.op \in {"pixel", "line", "segment", "rect", "circle"}
    BY DEF ShapeCall
  <2>2. SetPixel \/ StartLine \/ LineStep \/ DrawRect \/ DrawCircle
    BY <1>3, <2>1 DEF Draws, Clear, Invert, DrawString, DrawChar, Running
  <2>. QED  BY <1>3, <2>2, ShapePixel, ShapeLine, ShapeSegment, ShapeRect, ShapeCircle
<1>5. PICK made \in Seq(ShapeCall(r)) :
        Makes(made) /\ ram' \cup PaintsAll(r, made) = ram \cup Paints(r, c)
  BY <1>4 DEF Redraws
<1>. QED  BY <1>1, <1>2, <1>3, <1>5, Replaced

----------------------------------------------------------------------------
(* What a circle comes to.                                                 *)

\* What is passed wraps beside the screen at most.
NoStray(v, Size) == Size - Byte <= v /\ v < Byte

\* A circle all of whose coordinates are of that kind.
Unwrapped(r, c) ==
  /\ c.x + r < Byte /\ r - c.x <= Byte - Width
  /\ c.y + r < Byte /\ r - c.y <= Byte - Height

\* The pixel is the nearest to the circle in its column or row of an octant.
OnCircle(r, c, x, y) ==
  LET u == Abs(x - c.x)
      v == Abs(y - c.y)
  IN (u <= v /\ IsNearest(r, u, v)) \/ (v <= u /\ IsNearest(r, v, u))

\* A line of a columns to each side fits between the sides of the screen.
Fits(c, a) == 0 <= c.x - a /\ c.x + a < Width

\* A coordinate beside the screen stays beside it when it wraps.
LEMMA WrapsBeside ==
  ASSUME NEW Size \in Nat, Size <= Byte, NEW v \in Int, NoStray(v, Size)
  PROVE  /\ U8(v) \in Nat
         /\ \A k \in 0 .. Size - 1 : U8(v) = k <=> v = k
         /\ U8(v) < Size <=> 0 <= v /\ v < Size
<1>1. CASE v >= 0
  <2>1. U8(v) = v
    BY <1>1, U8Same, Screens DEF NoStray, Coordinate
  <2>. QED  BY <1>1, <2>1
<1>2. CASE v < 0
  <2>1. U8(v) = v + Byte
    BY <1>2, Screens DEF NoStray, U8
  <2>. QED  BY <1>2, <2>1, Screens DEF NoStray
<1>. QED  BY <1>1, <1>2

\* Neither coordinate of a pixel nearest to the circle exceeds the radius.
LEMMA NearestBounded ==
  ASSUME NEW r \in Nat, NEW a \in Nat, NEW b \in Nat, IsNearest(r, a, b)
  PROVE  a <= r /\ b <= r
<1>. DEFINE A == a * a
            B == b * b
            R == r * r
<1>1. A \in Nat /\ B \in Nat /\ R \in Nat
  OBVIOUS
<1>2. /\ IF b = 0 THEN 0 <= R - A ELSE B - b < R - A
      /\ R - A <= B + b
  BY DEF IsNearest
<1>3. b # 0 => B >= b
  OBVIOUS
<1>4. a > r => A > R
  <2>1. a > r => a * a > r * r
    OBVIOUS
  <2>. QED  BY <2>1
<1>5. b > r => B - b >= R
  <2>1. ASSUME b > r PROVE b * b - b >= r * r
    <3>1. PICK e \in Nat : b = (r + 1) + e
      BY <2>1
    <3>2. b * b - b = r * r + r + 2 * (r * e) + e * e + e
      BY <3>1
    <3>3. r * e \in Nat /\ e * e \in Nat
      BY <3>1
    <3>. QED  BY <3>2, <3>3
  <2>. QED  BY <2>1
<1>. HIDE DEF A, B, R
<1>. QED  BY <1>1, <1>2, <1>3, <1>4, <1>5

\* The calls of a round of a circle.
LEMMA ManyMarked ==
  \A A, B, C, D, E, F, G, H :
    /\ MarkedAll(<<A, B, C, D>>) = Marked(A) \cup Marked(B) \cup Marked(C) \cup Marked(D)
    /\ MarkedAll(<<A, B, C, D, E, F, G, H>>) =
         Marked(A) \cup Marked(B) \cup Marked(C) \cup Marked(D)
           \cup Marked(E) \cup Marked(F) \cup Marked(G) \cup Marked(H)
BY DEF MarkedAll

\* A pixel that is passed beside the screen is left out.
LEMMA PixelMarks ==
  ASSUME NEW u \in Int, NEW v \in Int, NoStray(u, Width), NoStray(v, Height), NEW p \in Screen
  PROVE  p \in Marked(PixelCall(u, v)) <=> p[1] = u /\ p[2] = v
<1>1. /\ p[1] \in 0 .. Width - 1 /\ p[2] \in 0 .. Height - 1 /\ p = <<p[1], p[2]>>
  BY DEF Screen
<1>2. (U8(u) = p[1] <=> u = p[1]) /\ (U8(v) = p[2] <=> v = p[2])
  BY <1>1, WrapsBeside, Screens
<1>3. Marked(PixelCall(u, v)) = {<<U8(u), U8(v)>>} \cap Screen
  BY DEF Marked, PixelCall
<1>. QED  BY <1>1, <1>2, <1>3

\* A line along a row is drawn if both its ends are on the screen.
LEMMA RowMarks ==
  ASSUME NEW u \in Int, NEW w \in Int, NEW v \in Int,
         NoStray(u, Width), NoStray(w, Width), NoStray(v, Height), u <= w, NEW p \in Screen
  PROVE  p \in Marked(LineCall(u, v, w, v)) <=>
           p[2] = v /\ 0 <= u /\ w < Width /\ u <= p[1] /\ p[1] <= w
<1>1. /\ p[1] \in 0 .. Width - 1 /\ p[2] \in 0 .. Height - 1 /\ p[1] \in Int /\ p[2] \in Int
  BY Screens DEF Screen
<1>2. PICK l : l = LineCall(u, v, w, v)
  OBVIOUS
<1>3. l.op = "line" /\ l.x = U8(u) /\ l.y = U8(v) /\ l.tox = U8(w) /\ l.toy = U8(v)
  BY <1>2 DEF LineCall
<1>4. /\ U8(u) \in Nat /\ U8(w) \in Nat /\ U8(v) \in Nat
      /\ U8(u) < Width <=> 0 <= u /\ u < Width
      /\ U8(w) < Width <=> 0 <= w /\ w < Width
      /\ U8(v) < Height <=> 0 <= v /\ v < Height
      /\ U8(v) = p[2] <=> v = p[2]
  BY <1>1, WrapsBeside, Screens
<1>5. OnScreen(l) <=> 0 <= u /\ w < Width /\ 0 <= v /\ v < Height
  BY <1>3, <1>4, Screens DEF OnScreen, position_on_screen
<1>6. CASE ~OnScreen(l)
  <2>1. Marked(l) = {}
    BY <1>3, <1>6 DEF Marked
  <2>. QED  BY <1>1, <1>2, <1>5, <1>6, <2>1, Screens
<1>7. CASE OnScreen(l)
  <2>1. Marked(l) = Block(l)
    BY <1>3, <1>7 DEF Marked
  <2>2. U8(u) = u /\ U8(w) = w /\ U8(v) = v
    <3>1. u \in Coordinate /\ w \in Coordinate /\ v \in Coordinate
      BY <1>5, <1>7, Screens DEF Coordinate
    <3>. QED  BY <3>1, U8Same
  <2>3. p \in Block(l) <=> Between(p[1], u, w) /\ Between(p[2], v, v)
    BY <1>3, <2>2 DEF Block
  <2>. QED  BY <1>1, <1>2, <1>5, <1>7, <2>1, <2>3 DEF Between
<1>. QED  BY <1>6, <1>7

\* The reflections of one pixel, and the lines between them.
LEMMA ReflectedMarks ==
  ASSUME NEW r \in Nat, NEW c, c.x \in Coordinate, c.y \in Coordinate, Unwrapped(r, c),
         NEW a \in Nat, NEW b \in Nat, a <= r, b <= r, NEW p \in Screen
  PROVE  LET u == Abs(p[1] - c.x)
             v == Abs(p[2] - c.y)
         IN p \in MarkedAll(Reflected(c, a, b)) <=>
              IF c.fill THEN (Fits(c, a) /\ u <= a /\ v = b) \/ (Fits(c, b) /\ u <= b /\ v = a)
                        ELSE (u = a /\ v = b) \/ (u = b /\ v = a)
<1>1. PICK x \in Int, y \in Int : x = c.x /\ y = c.y
  BY CoordinateInt
<1>2. PICK m \in Int, n \in Int : m = p[1] /\ n = p[2]
  BY Screens DEF Screen
<1>3. /\ \A k \in {x - a, x + a, x - b, x + b, a + x, b + x} : k \in Int /\ NoStray(k, Width)
      /\ \A k \in {y - a, y + a, y - b, y + b, a + y, b + y} : k \in Int /\ NoStray(k, Height)
  BY <1>1, Screens DEF Unwrapped, NoStray, Coordinate
<1>4. CASE ~c.fill
  <2>1. PICK a1 \in Int, a2 \in Int, b1 \in Int, b2 \in Int :
          a1 = a + x /\ a2 = x - a /\ b1 = b + x /\ b2 = x - b
    OBVIOUS
  <2>2. PICK a3 \in Int, a4 \in Int, b3 \in Int, b4 \in Int :
          a3 = a + y /\ a4 = y - a /\ b3 = b + y /\ b4 = y - b
    OBVIOUS
  <2>3. Reflected(c, a, b) =
          <<PixelCall(a1, b3), PixelCall(b1, a3), PixelCall(a2, b3), PixelCall(b2, a3),
            PixelCall(b1, a4), PixelCall(a1, b4), PixelCall(a2, b4), PixelCall(b2, a4)>>
    BY <1>1, <1>4, <2>1, <2>2 DEF Reflected, CircleDraws
  <2>4. p \in MarkedAll(Reflected(c, a, b)) <=>
          \/ p \in Marked(PixelCall(a1, b3)) \/ p \in Marked(PixelCall(b1, a3))
          \/ p \in Marked(PixelCall(a2, b3)) \/ p \in Marked(PixelCall(b2, a3))
          \/ p \in Marked(PixelCall(b1, a4)) \/ p \in Marked(PixelCall(a1, b4))
          \/ p \in Marked(PixelCall(a2, b4)) \/ p \in Marked(PixelCall(b2, a4))
    BY <2>3, ManyMarked
  <2>5. \A u \in {a1, a2, b1, b2}, w \in {a3, a4, b3, b4} :
          p \in Marked(PixelCall(u, w)) <=> m = u /\ n = w
    <3>1. /\ \A u \in {a1, a2, b1, b2} : u \in Int /\ NoStray(u, Width)
          /\ \A w \in {a3, a4, b3, b4} : w \in Int /\ NoStray(w, Height)
      BY <1>3, <2>1, <2>2
    <3>. QED  BY <1>2, <3>1, PixelMarks
  <2>6. p \in MarkedAll(Reflected(c, a, b)) <=>
          \/ m \in {a1, a2} /\ n \in {b3, b4}
          \/ m \in {b1, b2} /\ n \in {a3, a4}
    BY <2>4, <2>5
  <2>7. /\ m \in {a1, a2} <=> Abs(m - x) = a
        /\ m \in {b1, b2} <=> Abs(m - x) = b
        /\ n \in {a3, a4} <=> Abs(n - y) = a
        /\ n \in {b3, b4} <=> Abs(n - y) = b
    BY <2>1, <2>2 DEF Abs
  <2>. QED  BY <1>1, <1>2, <1>4, <2>6, <2>7
<1>5. CASE c.fill
  <2>1. Reflected(c, a, b) =
          <<LineCall(x - a, y + b, x + a, y + b), LineCall(x - a, y - b, x + a, y - b),
            LineCall(x - b, y + a, x + b, y + a), LineCall(x - b, y - a, x + b, y - a)>>
    BY <1>1, <1>5 DEF Reflected, CircleDraws
  <2>2. p \in MarkedAll(Reflected(c, a, b)) <=>
          \/ p \in Marked(LineCall(x - a, y + b, x + a, y + b))
          \/ p \in Marked(LineCall(x - a, y - b, x + a, y - b))
          \/ p \in Marked(LineCall(x - b, y + a, x + b, y + a))
          \/ p \in Marked(LineCall(x - b, y - a, x + b, y - a))
    BY <2>1, ManyMarked
  <2>3. \A k \in {a, b}, w \in {y - a, y + a, y - b, y + b} :
          p \in Marked(LineCall(x - k, w, x + k, w)) <=>
            n = w /\ 0 <= x - k /\ x + k < Width /\ x - k <= m /\ m <= x + k
    <3>. SUFFICES ASSUME NEW k \in {a, b}, NEW w \in {y - a, y + a, y - b, y + b}
                  PROVE  p \in Marked(LineCall(x - k, w, x + k, w)) <=>
                           n = w /\ 0 <= x - k /\ x + k < Width /\ x - k <= m /\ m <= x + k
      OBVIOUS
    <3>1. PICK u \in Int, t \in Int : u = x - k /\ t = x + k
      OBVIOUS
    <3>2. u <= t /\ NoStray(u, Width) /\ NoStray(t, Width) /\ NoStray(w, Height) /\ w \in Int
      BY <1>3, <3>1
    <3>3. p \in Marked(LineCall(u, w, t, w)) <=>
            p[2] = w /\ 0 <= u /\ t < Width /\ u <= p[1] /\ p[1] <= t
      BY <3>2, RowMarks
    <3>. QED  BY <1>2, <3>1, <3>3
  <2>4. p \in MarkedAll(Reflected(c, a, b)) <=>
          \/ /\ n = y + b \/ n = y - b
             /\ 0 <= x - a /\ x + a < Width /\ x - a <= m /\ m <= x + a
          \/ /\ n = y + a \/ n = y - a
             /\ 0 <= x - b /\ x + b < Width /\ x - b <= m /\ m <= x + b
    BY <2>2, <2>3
  <2>. QED  BY <1>1, <1>2, <1>5, <2>4, Screens DEF Abs, Fits
<1>. QED  BY <1>4, <1>5

\* The radius as it is before the first round.
LEMMA CircleStarts ==
  ASSUME NEW r \in Coordinate, NEW c \in DrawCall, c.op = "circle",
         c = CircleCall(c.x, c.y, r, c.fill)
  PROVE  /\ c \in ShapeCall(r) /\ r \in Nat /\ c.b = r
         /\ c.x \in Coordinate /\ c.y \in Coordinate /\ c.fill \in BOOLEAN
         /\ Paints(r, c) = UNION {MarkedAll(Reflected(c, q[1], q[2])) : q \in Octant(r, 0)}
<1>1. r \in Nat /\ c.a = 0 /\ c.b = r /\ c.P = 1 - r
  BY Screens DEF CircleCall, Coordinate
<1>2. c.x \in Coordinate /\ c.y \in Coordinate /\ c.fill \in BOOLEAN
  BY DEF DrawCall
<1>3. IsNearest(r, 0, r)
  <2>1. r * r \in Nat /\ 0 * 0 = 0 /\ (r # 0 => r * r - r < r * r)
    BY <1>1
  <2>. QED  BY <1>1, <2>1 DEF IsNearest
<1>4. Rounding(r, c)
  <2>1. 1 - r = (0 + 1) * (0 + 1) + r * r - r - r * r
    <3>1. r * r \in Int
      BY <1>1
    <3>. QED  BY <1>1, <3>1
  <2>. QED  BY <1>1, <1>3, <2>1 DEF Rounding
<1>5. c \in ShapeCall(r)
  BY <1>4 DEF ShapeCall
<1>6. Paints(r, c) = UNION {MarkedAll(Reflected(c, q[1], q[2])) : q \in Octant(r, 0)}
  BY <1>1 DEF Paints
<1>. QED  BY <1>1, <1>2, <1>5, <1>6

\* The pixels of the octant, reflected: a circle, or its disc.
LEMMA CirclePaints ==
  ASSUME NEW r \in Coordinate, NEW c \in DrawCall, c.op = "circle",
         c = CircleCall(c.x, c.y, r, c.fill), Unwrapped(r, c)
  PROVE  /\ ~c.fill => Paints(r, c) = {p \in Screen : OnCircle(r, c, p[1], p[2])}
         /\ c.fill => Paints(r, c) \subseteq
                        {p \in Screen : \E x \in -Byte .. Byte :
                           OnCircle(r, c, x, p[2]) /\ Abs(p[1] - c.x) <= Abs(x - c.x)}
         /\ c.fill /\ Fits(c, r) =>
              {p \in Screen : \E x \in -Byte .. Byte :
                 OnCircle(r, c, x, p[2]) /\ Abs(p[1] - c.x) <= Abs(x - c.x)} \subseteq Paints(r, c)
<1>1. /\ r \in Nat /\ c.x \in Coordinate /\ c.y \in Coordinate /\ c.fill \in BOOLEAN
      /\ Paints(r, c) = UNION {MarkedAll(Reflected(c, q[1], q[2])) : q \in Octant(r, 0)}
  BY CircleStarts
<1>2. c.x \in Int /\ c.y \in Int /\ c.x >= 0 /\ c.x < Byte
  BY <1>1, Screens DEF Coordinate
<1>3. ASSUME NEW p, p \in Paints(r, c)
      PROVE  p \in Screen /\ \E a, b \in Nat :
               /\ a <= b /\ IsNearest(r, a, b) /\ a <= r /\ b <= r
               /\ p \in MarkedAll(Reflected(c, a, b))
  <2>1. PICK q \in Octant(r, 0) : p \in MarkedAll(Reflected(c, q[1], q[2]))
    BY <1>1, <1>3
  <2>2. PICK a \in Nat, b \in Nat : q = <<a, b>> /\ a <= b /\ IsNearest(r, a, b)
    BY <2>1 DEF Octant
  <2>3. a <= r /\ b <= r
    BY <1>1, <2>2, NearestBounded
  <2>4. p \in Screen
    BY <2>1 DEF MarkedAll, Marked, Block
  <2>. QED  BY <2>1, <2>2, <2>3, <2>4
<1>4. ASSUME NEW p \in Screen, NEW a \in Nat, NEW b \in Nat, a <= b, IsNearest(r, a, b),
             p \in MarkedAll(Reflected(c, a, b))
      PROVE  p \in Paints(r, c)
  <2>1. <<a, b>> \in Octant(r, 0)
    BY <1>4 DEF Octant
  <2>. QED  BY <1>1, <1>4, <2>1
<1>5. ASSUME NEW p \in Screen, NEW a \in Nat, NEW b \in Nat, a <= r, b <= r
      PROVE  p \in MarkedAll(Reflected(c, a, b)) <=>
               IF c.fill THEN \/ Fits(c, a) /\ Abs(p[1] - c.x) <= a /\ Abs(p[2] - c.y) = b
                              \/ Fits(c, b) /\ Abs(p[1] - c.x) <= b /\ Abs(p[2] - c.y) = a
                         ELSE \/ Abs(p[1] - c.x) = a /\ Abs(p[2] - c.y) = b
                              \/ Abs(p[1] - c.x) = b /\ Abs(p[2] - c.y) = a
  BY <1>1, <1>5, ReflectedMarks
<1>6. \A p \in Screen : /\ p[1] \in Int /\ p[2] \in Int
                        /\ Abs(p[1] - c.x) \in Nat /\ Abs(p[2] - c.y) \in Nat
  BY <1>2, Screens DEF Screen, Abs
<1>7. CASE ~c.fill
  <2>1. ASSUME NEW p \in Screen
        PROVE  p \in Paints(r, c) <=> OnCircle(r, c, p[1], p[2])
    <3>1. PICK u \in Nat, v \in Nat : u = Abs(p[1] - c.x) /\ v = Abs(p[2] - c.y)
      BY <1>6
    <3>2. ASSUME p \in Paints(r, c) PROVE OnCircle(r, c, p[1], p[2])
      <4>1. PICK a \in Nat, b \in Nat :
              /\ a <= b /\ IsNearest(r, a, b) /\ a <= r /\ b <= r
              /\ p \in MarkedAll(Reflected(c, a, b))
        BY <1>3, <3>2
      <4>2. (u = a /\ v = b) \/ (u = b /\ v = a)
        BY <1>5, <1>7, <3>1, <4>1
      <4>. QED  BY <3>1, <4>1, <4>2 DEF OnCircle
    <3>3. ASSUME OnCircle(r, c, p[1], p[2]) PROVE p \in Paints(r, c)
      <4>1. PICK a \in Nat, b \in Nat :
              /\ a <= b /\ IsNearest(r, a, b)
              /\ (u = a /\ v = b) \/ (u = b /\ v = a)
        BY <3>1, <3>3 DEF OnCircle
      <4>2. a <= r /\ b <= r
        BY <1>1, <4>1, NearestBounded
      <4>3. p \in MarkedAll(Reflected(c, a, b))
        BY <1>5, <1>7, <3>1, <4>1, <4>2
      <4>. QED  BY <1>4, <4>1, <4>3
    <3>. QED  BY <3>2, <3>3
  <2>. QED  BY <1>3, <1>7, <2>1
<1>8. CASE c.fill
  <2>. DEFINE InDisc(p) == \E x \in -Byte .. Byte :
                             OnCircle(r, c, x, p[2]) /\ Abs(p[1] - c.x) <= Abs(x - c.x)
  <2>1. ASSUME NEW p, p \in Paints(r, c) PROVE p \in Screen /\ InDisc(p)
    <3>1. PICK a \in Nat, b \in Nat :
            /\ a <= b /\ IsNearest(r, a, b) /\ a <= r /\ b <= r
            /\ p \in Screen /\ p \in MarkedAll(Reflected(c, a, b))
      BY <1>3, <2>1
    <3>2. PICK u \in Nat, v \in Nat : u = Abs(p[1] - c.x) /\ v = Abs(p[2] - c.y)
      BY <1>6, <3>1
    <3>3. (u <= a /\ v = b) \/ (u <= b /\ v = a)
      BY <1>5, <1>8, <3>1, <3>2
    <3>4. PICK k \in Nat : /\ k <= r /\ u <= k
                           /\ (k = a /\ v = b) \/ (k = b /\ v = a)
      BY <3>1, <3>3
    <3>5. PICK x \in Int : x = c.x + k
      BY <1>2
    <3>6. x \in -Byte .. Byte /\ Abs(x - c.x) = k
      BY <1>1, <1>2, <3>4, <3>5, Screens DEF Unwrapped, Abs
    <3>7. OnCircle(r, c, x, p[2])
      BY <3>1, <3>2, <3>4, <3>6 DEF OnCircle
    <3>. QED  BY <3>1, <3>2, <3>4, <3>6, <3>7
  <2>2. ASSUME Fits(c, r), NEW p \in Screen, InDisc(p) PROVE p \in Paints(r, c)
    <3>1. PICK x \in -Byte .. Byte : OnCircle(r, c, x, p[2]) /\ Abs(p[1] - c.x) <= Abs(x - c.x)
      BY <2>2
    <3>2. PICK u \in Nat, v \in Nat, k \in Nat :
            u = Abs(p[1] - c.x) /\ v = Abs(p[2] - c.y) /\ k = Abs(x - c.x)
      <4>1. Abs(x - c.x) \in Nat
        BY <1>2, Screens DEF Abs
      <4>. QED  BY <1>6, <4>1
    <3>3. PICK a \in Nat, b \in Nat :
            /\ a <= b /\ IsNearest(r, a, b)
            /\ (k = a /\ v = b) \/ (k = b /\ v = a)
      BY <3>1, <3>2 DEF OnCircle
    <3>4. a <= r /\ b <= r
      BY <1>1, <3>3, NearestBounded
    <3>5. Fits(c, a) /\ Fits(c, b)
      BY <1>1, <1>2, <2>2, <3>4, Screens DEF Fits
    <3>6. p \in MarkedAll(Reflected(c, a, b))
      BY <1>5, <1>8, <3>1, <3>2, <3>3, <3>4, <3>5
    <3>. QED  BY <1>4, <3>3, <3>6
  <2>. QED  BY <1>8, <2>1, <2>2
<1>. QED  BY <1>7, <1>8

----------------------------------------------------------------------------
(* What has been drawn of a text.                                          *)

\* The call for the i-th character.
CharCall(c, i) == [op |-> "char", x |-> c.x + (i - 1) * Pitch, y |-> c.y, c |-> c.text[i]]

\* The text does not go on past the last uint8_t.
TextFits(c) == c.x + Len(c.text) * Pitch <= Byte /\ c.y + GlyphHeight <= Byte

\* The characters in whose cell a pixel is, and whether it is lit in one of them.
Cells(c, p) == {i \in DOMAIN c.text : /\ p[1] - c.x - (i - 1) * Pitch \in 0 .. GlyphWidth - 1
                                      /\ p[2] - c.y \in 0 .. GlyphHeight - 1}

LitIn(c, p, i) == <<p[1] - c.x - (i - 1) * Pitch, p[2] - c.y>> \in font_5x7_col_char(c.text[i])

\* The screen when the first k characters are drawn.
TextTo(c, k) ==
  {p \in Screen : IF \E i \in Cells(c, p) : i <= k THEN \E i \in Cells(c, p) : LitIn(c, p, i)
                                                   ELSE job.ground = "invert"}

CharsFrom(c, k) == [i \in 1 .. Len(c.text) - k |-> CharCall(c, k + i)]

TextSoFar(c) ==
  \/ todo = <<c, ShowCall>> /\ ram = {p \in Screen : job.ground = "invert"}
  \/ \E k \in 0 .. Len(c.text) : todo = Append(CharsFrom(c, k), ShowCall) /\ ram = TextTo(c, k)

\* A text's arguments.
LEMMA TextArguments ==
  ASSUME NEW c \in DrawCall, c.op = "string"
  PROVE  /\ c.x \in Coordinate /\ c.y \in Coordinate /\ c.x \in Nat /\ c.y \in Nat
         /\ c.text \in Seq(STRING) /\ Len(c.text) \in Nat /\ DOMAIN c.text = 1 .. Len(c.text)
BY Screens DEF DrawCall, Coordinate

\* A cell ends before the next one starts.
LEMMA CellsApart ==
  ASSUME NEW c \in DrawCall, c.op = "string"
  PROVE  /\ \A i \in 1 .. Len(c.text) :
              /\ (i - 1) * Pitch \in Nat
              /\ (i - 1) * Pitch + Pitch <= Len(c.text) * Pitch
         /\ \A p \in Screen : \A i, j \in Cells(c, p) : i = j
<1>1. /\ c.x \in Nat /\ c.y \in Nat /\ Len(c.text) \in Nat /\ DOMAIN c.text = 1 .. Len(c.text)
  BY TextArguments
<1>2. \A m, n \in Nat : m < n => m * Pitch \in Nat /\ m * Pitch + Pitch <= n * Pitch
  <2>. SUFFICES ASSUME NEW m \in Nat, NEW n \in Nat, m < n
                PROVE  m * Pitch \in Nat /\ m * Pitch + Pitch <= n * Pitch
    OBVIOUS
  <2>1. PICK e \in Nat : n = (m + 1) + e
    <3>1. n - (m + 1) \in Nat /\ n = (m + 1) + (n - (m + 1))
      OBVIOUS
    <3>. QED  BY <3>1
  <2>2. n * Pitch = m * Pitch + Pitch + e * Pitch
    BY <2>1, Screens
  <2>3. m * Pitch \in Nat /\ e * Pitch \in Nat
    BY <2>1, Screens
  <2>. QED  BY <2>2, <2>3, Screens
<1>3. ASSUME NEW i \in 1 .. Len(c.text)
      PROVE  (i - 1) * Pitch \in Nat /\ (i - 1) * Pitch + Pitch <= Len(c.text) * Pitch
  <2>1. PICK m \in Nat : m = i - 1 /\ m < Len(c.text)
    BY <1>1
  <2>. QED  BY <1>1, <1>2, <2>1
<1>4. ASSUME NEW p \in Screen, NEW i \in Cells(c, p), NEW j \in Cells(c, p), i < j PROVE FALSE
  <2>1. PICK m \in Nat, n \in Nat : m = i - 1 /\ n = j - 1 /\ m < n
    <3>1. i \in 1 .. Len(c.text) /\ j \in 1 .. Len(c.text)
      BY <1>1 DEF Cells
    <3>2. i - 1 \in Nat /\ j - 1 \in Nat /\ i - 1 < j - 1
      BY <1>1, <1>4, <3>1
    <3>. QED  BY <3>2
  <2>2. PICK u \in Int : u = p[1] - c.x
    BY <1>1, Screens DEF Screen
  <2>3. u - m * Pitch \in 0 .. GlyphWidth - 1 /\ u - n * Pitch \in 0 .. GlyphWidth - 1
    BY <2>1, <2>2 DEF Cells
  <2>4. m * Pitch + Pitch <= n * Pitch /\ m * Pitch \in Nat /\ n * Pitch \in Nat
    BY <1>2, <2>1, Screens
  <2>. QED  BY <2>2, <2>3, <2>4, Screens, ScreenAssumption DEF ScreenAssumption
<1>5. ASSUME NEW p \in Screen, NEW i \in Cells(c, p), NEW j \in Cells(c, p) PROVE i = j
  <2>1. i \in Int /\ j \in Int
    BY <1>1 DEF Cells
  <2>. QED  BY <1>4, <2>1
<1>. QED  BY <1>3, <1>5

\* lcd_spi_draw_s() makes the calls for its characters.
LEMMA TextStarts ==
  ASSUME NEW c \in DrawCall, c.op = "string", TextFits(c), todo = <<c, ShowCall>>,
         ram = {p \in Screen : job.ground = "invert"}, DrawString
  PROVE  TextSoFar(c)'
<1>1. /\ c.x \in Coordinate /\ c.x \in Nat /\ Len(c.text) \in Nat
      /\ DOMAIN c.text = 1 .. Len(c.text)
  BY TextArguments
<1>2. Head(todo) = c /\ Tail(todo) = <<ShowCall>>
  OBVIOUS
<1>3. \A i \in 1 .. Len(c.text) : U8(c.x + (i - 1) * Pitch) = c.x + (i - 1) * Pitch
  <2>. SUFFICES ASSUME NEW i \in 1 .. Len(c.text)
                PROVE  U8(c.x + (i - 1) * Pitch) = c.x + (i - 1) * Pitch
    OBVIOUS
  <2>1. PICK n \in Nat, L \in Int : n = (i - 1) * Pitch /\ L = Len(c.text) * Pitch /\ n + Pitch <= L
    <3>1. Len(c.text) * Pitch \in Int
      BY <1>1, Screens
    <3>. QED  BY <3>1, CellsApart
  <2>2. c.x + n \in Coordinate
    <3>1. c.x + L <= Byte
      BY <2>1 DEF TextFits
    <3>2. Pitch = 0 => n = 0
      BY <1>1, <2>1
    <3>3. n + Pitch <= L
      BY <2>1
    <3>4. c.x + n \in Nat /\ (Pitch > 0 => c.x + n < Byte)
      BY <1>1, <3>1, <3>3, Screens
    <3>5. n = 0 => c.x + n = c.x
      BY <1>1
    <3>. QED  BY <1>1, <3>2, <3>4, <3>5, Screens DEF Coordinate
  <2>. QED  BY <2>1, <2>2, U8Same
<1>4. Makes(CharsFrom(c, 0))
  <2>1. CharsFrom(c, 0) = [i \in DOMAIN c.text |->
                             [op |-> "char", x |-> U8(c.x + (i - 1) * Pitch), y |-> c.y,
                              c |-> c.text[i]]]
    <3>1. Len(c.text) - 0 = Len(c.text)
      BY <1>1
    <3>2. \A i \in 1 .. Len(c.text) : 0 + i = i
      BY <1>1
    <3>. QED  BY <1>1, <1>3, <3>1, <3>2 DEF CharsFrom, CharCall
  <2>. QED  BY <1>2, <2>1 DEF DrawString
<1>5. CharsFrom(c, 0) \in Seq({CharCall(c, i) : i \in 1 .. Len(c.text)})
  BY <1>1 DEF CharsFrom
<1>6. todo' = Append(CharsFrom(c, 0), ShowCall)
  <2>1. \A S, d : d \in Seq(S) => d \o <<ShowCall>> = Append(d, ShowCall)
    OBVIOUS
  <2>. QED  BY <1>2, <1>4, <1>5, <2>1 DEF Makes
<1>7. ram' = ram /\ job' = job
  BY DEF DrawString
<1>8. ram' = TextTo(c, 0)'
  <2>1. \A p : ~ \E i \in Cells(c, p) : i <= 0
    BY <1>1 DEF Cells
  <2>. QED  BY <1>7, <2>1 DEF TextTo
<1>9. 0 \in 0 .. Len(c.text)
  BY <1>1
<1>. QED  BY <1>6, <1>8, <1>9 DEF TextSoFar

\* lcd_spi_draw_c() sets the pixels of its cell, and clears the others of it.
LEMMA CharDraws ==
  ASSUME NEW c \in DrawCall, c.op = "string", TextFits(c), NEW i \in 1 .. Len(c.text),
         Head(todo) = CharCall(c, i), DrawChar
  PROVE  \A p \in Screen :
           p \in ram' <=> IF i \in Cells(c, p) THEN LitIn(c, p, i) ELSE p \in ram
<1>1. /\ c.x \in Nat /\ c.y \in Nat /\ Len(c.text) \in Nat /\ DOMAIN c.text = 1 .. Len(c.text)
  BY TextArguments
<1>2. PICK x \in Nat : x = c.x + (i - 1) * Pitch /\ x + GlyphWidth <= Byte
  <2>1. PICK n \in Nat, L \in Int : n = (i - 1) * Pitch /\ L = Len(c.text) * Pitch /\ n + Pitch <= L
    <3>1. Len(c.text) * Pitch \in Int
      BY <1>1, Screens
    <3>. QED  BY <3>1, CellsApart
  <2>2. c.x + L <= Byte /\ GlyphWidth <= Pitch
    BY <2>1, ScreenAssumption DEF TextFits, ScreenAssumption
  <2>3. c.x + n \in Nat /\ (c.x + n) + GlyphWidth <= Byte
    <3>1. n + Pitch <= L
      BY <2>1
    <3>. QED  BY <1>1, <2>2, <3>1, Screens
  <2>. QED  BY <2>1, <2>3
<1>3. PICK y \in Nat : y = c.y /\ y + GlyphHeight <= Byte
  BY <1>1 DEF TextFits
<1>. DEFINE At(a, b) == <<U8(x + a), U8(y + b)>>
            cell == (0 .. GlyphWidth - 1) \X (0 .. GlyphHeight - 1)
            glyph == font_5x7_col_char(c.text[i])
            lit == {At(q[1], q[2]) : q \in cell \cap glyph}
            dark == {At(q[1], q[2]) : q \in cell \ glyph}
<1>4. ram' = (ram \ dark) \cup {p \in lit : position_on_screen(p[1], p[2])}
  <2>1. Head(todo).x = x /\ Head(todo).y = y /\ Head(todo).c = c.text[i]
    BY <1>2, <1>3 DEF CharCall
  <2>. QED  BY <2>1 DEF DrawChar
<1>5. \A q \in cell : At(q[1], q[2]) = <<x + q[1], y + q[2]>>
  <2>. SUFFICES ASSUME NEW a \in 0 .. GlyphWidth - 1, NEW b \in 0 .. GlyphHeight - 1
                PROVE  At(a, b) = <<x + a, y + b>>
    OBVIOUS
  <2>1. x + GlyphWidth <= Byte /\ y + GlyphHeight <= Byte
    BY <1>2, <1>3
  <2>2. x + a \in 0 .. Byte - 1 /\ y + b \in 0 .. Byte - 1
    BY <2>1, Screens
  <2>. QED  BY <2>2, U8Same DEF Coordinate
<1>. HIDE DEF At, glyph
<1>6. ASSUME NEW p \in Screen
      PROVE  /\ p \in lit <=> i \in Cells(c, p) /\ LitIn(c, p, i)
             /\ p \in dark <=> i \in Cells(c, p) /\ ~LitIn(c, p, i)
             /\ position_on_screen(p[1], p[2])
  <2>1. PICK m \in Int, n \in Int : p = <<m, n>> /\ m = p[1] /\ n = p[2]
    BY Screens DEF Screen
  <2>2. PICK u \in Int, v \in Int : u = m - x /\ v = n - y
    OBVIOUS
  <2>3. p[1] - c.x - (i - 1) * Pitch = u /\ p[2] - c.y = v
    <3>1. PICK k \in Int : k = (i - 1) * Pitch
      BY <1>1, Screens
    <3>2. x = c.x + k
      BY <1>2, <3>1
    <3>3. (m - c.x) - k = u /\ n - c.y = v
      BY <1>1, <1>3, <2>2, <3>2
    <3>. QED  BY <2>1, <3>1, <3>3
  <2>4. /\ i \in Cells(c, p) <=> <<u, v>> \in cell
        /\ LitIn(c, p, i) <=> <<u, v>> \in glyph
    BY <1>1, <2>3 DEF Cells, LitIn, glyph
  <2>5. \A q \in cell : p = At(q[1], q[2]) <=> q = <<u, v>>
    <3>. SUFFICES ASSUME NEW q \in cell PROVE p = At(q[1], q[2]) <=> q = <<u, v>>
      OBVIOUS
    <3>1. PICK a \in Int, b \in Int : q = <<a, b>> /\ a = q[1] /\ b = q[2]
      BY Screens
    <3>2. p = <<x + a, y + b>> <=> q = <<u, v>>
      BY <2>1, <2>2, <3>1
    <3>. QED  BY <1>5, <3>1, <3>2
  <2>6. position_on_screen(p[1], p[2])
    BY Screens DEF Screen, position_on_screen
  <2>7. p \in lit <=> <<u, v>> \in cell \cap glyph
    <3>. HIDE DEF cell
    <3>. QED  BY <2>5
  <2>8. p \in dark <=> <<u, v>> \in cell \ glyph
    <3>. HIDE DEF cell
    <3>. QED  BY <2>5
  <2>. HIDE DEF cell, lit, dark
  <2>. QED  BY <2>4, <2>6, <2>7, <2>8
<1>. HIDE DEF lit, dark
<1>. QED  BY <1>4, <1>6

CharCalls(c, n) == {CharCall(c, i) : i \in 1 .. n}

\* The calls for the characters from the k-th on.
AreChars(c, n, k, d) ==
  /\ d \in Seq(CharCalls(c, n)) /\ Len(d) = n - k
  /\ \A i \in 1 .. n - k : d[i] = CharCall(c, k + i)

LEMMA Chars ==
  ASSUME NEW c, NEW n \in Nat, n = Len(c.text), NEW k \in 0 .. n
  PROVE  AreChars(c, n, k, CharsFrom(c, k))
<1>1. n - k \in Nat /\ \A i \in 1 .. n - k : CharCall(c, k + i) \in CharCalls(c, n)
  BY DEF CharCalls
<1>2. CharsFrom(c, k) = [i \in 1 .. n - k |-> CharCall(c, k + i)]
  BY DEF CharsFrom
<1>. QED  BY <1>1, <1>2 DEF AreChars

\* What is left when one of them has returned.
LEMMA CharsLeft ==
  ASSUME NEW c, NEW n \in Nat, n = Len(c.text), NEW k \in 0 .. n,
         todo = Append(CharsFrom(c, k), ShowCall)
  PROVE  /\ k < n => /\ Head(todo) = CharCall(c, k + 1)
                     /\ Tail(todo) = Append(CharsFrom(c, k + 1), ShowCall)
         /\ k = n => todo = <<ShowCall>>
<1>1. PICK d : d = CharsFrom(c, k)
  OBVIOUS
<1>2. /\ d \in Seq(CharCalls(c, n)) /\ Len(d) = n - k
      /\ \A i \in 1 .. n - k : d[i] = CharCall(c, k + i)
  <2>1. AreChars(c, n, k, d)
    BY <1>1, Chars
  <2>. QED  BY <2>1 DEF AreChars
<1>3. ASSUME k < n
      PROVE  /\ Head(todo) = CharCall(c, k + 1)
             /\ Tail(todo) = Append(CharsFrom(c, k + 1), ShowCall)
  <2>0. PICK l \in 0 .. n : l = k + 1
    BY <1>3
  <2>1. PICK e : e = CharsFrom(c, l)
    OBVIOUS
  <2>2. /\ e \in Seq(CharCalls(c, n)) /\ Len(e) = n - l
        /\ \A i \in 1 .. n - l : e[i] = CharCall(c, l + i)
    <3>1. AreChars(c, n, l, e)
      BY <2>1, Chars
    <3>. QED  BY <3>1 DEF AreChars
  <2>3. d # << >> /\ 1 \in 1 .. n - k /\ Len(d) # 0
    BY <1>2, <1>3
  <2>4. Head(d) = CharCall(c, k + 1)
    BY <1>2, <2>3
  <2>5. /\ Tail(d) \in Seq(CharCalls(c, n)) /\ Len(Tail(d)) = Len(d) - 1
        /\ \A i \in 1 .. Len(Tail(d)) : Tail(d)[i] = d[i + 1]
    BY <1>2, <2>3
  <2>6. ASSUME NEW i \in 1 .. n - l PROVE Tail(d)[i] = e[i]
    <3>1. PICK m \in Nat : m = i + 1 /\ m \in 1 .. n - k
      BY <2>0
    <3>2. i \in 1 .. Len(Tail(d))
      BY <1>2, <2>0, <2>5
    <3>3. Tail(d)[i] = d[m] /\ d[m] = CharCall(c, k + m)
      BY <1>2, <2>5, <3>1, <3>2
    <3>4. k + m = l + i
      BY <2>0, <3>1
    <3>. QED  BY <2>2, <3>3, <3>4
  <2>7. Len(Tail(d)) = n - l
    BY <1>2, <2>0, <2>5
  <2>8. Tail(d) = e
    BY <2>2, <2>5, <2>6, <2>7, SeqEqual
  <2>9. Head(todo) = Head(d) /\ Tail(todo) = Append(Tail(d), ShowCall)
    <3>1. todo = Append(d, ShowCall)
      BY <1>1
    <3>2. d \in Seq(CharCalls(c, n) \cup {ShowCall})
      BY <1>2, SeqMonotonic
    <3>. QED  BY <2>3, <3>1, <3>2, HeadTailAppend
  <2>. QED  BY <2>0, <2>1, <2>4, <2>8, <2>9
<1>4. ASSUME k = n PROVE todo = <<ShowCall>>
  <2>1. d = << >>
    BY <1>2, <1>4
  <2>. QED  BY <1>1, <2>1
<1>. QED  BY <1>3, <1>4

\* A character is drawn over what was in its cell, and the next ones are left.
LEMMA TextKept ==
  ASSUME NEW c \in DrawCall, c.op = "string", TextFits(c), TextSoFar(c), Draws,
         ram' \subseteq Screen
  PROVE  TextSoFar(c)'
<1>1. /\ Len(c.text) \in Nat /\ DOMAIN c.text = 1 .. Len(c.text)
  BY TextArguments
<1>2. CASE todo = <<c, ShowCall>> /\ ram = {p \in Screen : job.ground = "invert"}
  <2>1. Head(todo).op = "string"
    BY <1>2
  <2>2. DrawString
    BY <2>1 DEF Draws, Clear, Invert, SetPixel, StartLine, LineStep, DrawRect, DrawCircle,
                DrawChar, Running
  <2>. QED  BY <1>2, <2>2, TextStarts
<1>3. ASSUME NEW k \in 0 .. Len(c.text), todo = Append(CharsFrom(c, k), ShowCall),
             ram = TextTo(c, k)
      PROVE  TextSoFar(c)'
  <2>1. CASE k = Len(c.text)
    <3>1. todo = <<ShowCall>>
      <4>1. PICK n \in Nat : n = Len(c.text) /\ k \in 0 .. n
        BY <1>1
      <4>. QED  BY <1>3, <2>1, <4>1, CharsLeft
    <3>2. Head(todo).op = "show"
      BY <3>1 DEF ShowCall
    <3>. QED  BY <3>2 DEF Draws, Clear, Invert, SetPixel, StartLine, LineStep, DrawRect,
                  DrawCircle, DrawString, DrawChar, Running
  <2>2. CASE k < Len(c.text)
    <3>1. PICK i \in 1 .. Len(c.text) : i = k + 1
      BY <1>1, <2>2
    <3>2. Head(todo) = CharCall(c, i) /\ Tail(todo) = Append(CharsFrom(c, i), ShowCall)
      <4>1. PICK n \in Nat : n = Len(c.text) /\ k \in 0 .. n
        BY <1>1
      <4>. QED  BY <1>3, <2>2, <3>1, <4>1, CharsLeft
    <3>3. Head(todo).op = "char"
      BY <3>2 DEF CharCall
    <3>4. DrawChar
      BY <3>3 DEF Draws, Clear, Invert, SetPixel, StartLine, LineStep, DrawRect, DrawCircle,
                  DrawString, Running
    <3>5. todo' = Append(CharsFrom(c, i), ShowCall)
      <4>1. \A t, d, e : t = Append(d, e) => << >> \o t = t
        OBVIOUS
      <4>. QED  BY <3>2, <3>4, <4>1 DEF DrawChar, Returns, Makes
    <3>6. /\ \A p \in Screen :
               p \in ram' <=> IF i \in Cells(c, p) THEN LitIn(c, p, i) ELSE p \in ram
          /\ job' = job
      BY <3>2, <3>4, CharDraws DEF DrawChar
    <3>7. ASSUME NEW p \in Screen PROVE p \in ram' <=> p \in TextTo(c, i)'
      <4>1. \A j \in Cells(c, p) : j \in Int /\ (j <= i <=> j <= k \/ j = i)
        BY <1>1, <3>1 DEF Cells
      <4>2. \A j \in Cells(c, p) : i \in Cells(c, p) => j = i
        BY CellsApart
      <4>3. p \in ram <=> IF \E j \in Cells(c, p) : j <= k
                            THEN \E j \in Cells(c, p) : LitIn(c, p, j)
                            ELSE job.ground = "invert"
        BY <1>3 DEF TextTo
      <4>4. p \in TextTo(c, i)' <=> IF \E j \in Cells(c, p) : j <= i
                                      THEN \E j \in Cells(c, p) : LitIn(c, p, j)
                                      ELSE job.ground = "invert"
        BY <3>6 DEF TextTo
      <4>. QED  BY <3>1, <3>6, <4>1, <4>2, <4>3, <4>4
    <3>8. TextTo(c, i)' \subseteq Screen
      BY DEF TextTo
    <3>9. ram' = TextTo(c, i)'
      BY <3>7, <3>8
    <3>10. i \in 0 .. Len(c.text)
      BY <1>1, <3>1
    <3>. QED  BY <3>5, <3>9, <3>10 DEF TextSoFar
  <2>. QED  BY <1>1, <2>1, <2>2
<1>. QED  BY <1>2, <1>3 DEF TextSoFar

----------------------------------------------------------------------------
(* What is drawn is what the call says.                                    *)

\* The radius a circle is called with; nothing else has one.
Radius(c) == IF c.op = "circle" THEN c.b ELSE 0

\* What a rectangle or a circle comes to.
Shape(c) == Paints(Radius(c), c)

\* The call is being made, on the ground it was to be made on.
CallSoFar ==
  /\ job.call.op = "line" /\ OnClear => LineSoFar(job.call)
  /\ job.call.op \in {"rect", "circle"} /\ OnClear =>
       ShapeSoFar(Radius(job.call), Shape(job.call))
  /\ job.call.op = "string" /\ TextFits(job.call) => TextSoFar(job.call)

DrawnInv ==
  WillShow =>
    /\ job \in Jobs
    /\ \/ todo = <<[op |-> job.ground], job.call, ShowCall>> /\ ram = {}
       \/ CallSoFar

\* The ground is there and the call is the next to be made.
LEMMA CallStarts ==
  ASSUME job \in Jobs, todo = <<job.call, ShowCall>>,
         ram = {p \in Screen : job.ground = "invert"}
  PROVE  CallSoFar
<1>1. PICK c \in DrawCall : c = job.call
  BY JobsAssumption DEF JobsAssumption
<1>2. OnClear => ram = {}
  BY DEF OnClear
<1>3. c.op = "line" /\ OnClear => LineSoFar(c)
  BY <1>1, <1>2 DEF LineSoFar
<1>4. c.op = "string" => TextSoFar(c)
  BY <1>1 DEF TextSoFar
<1>5. ASSUME c.op \in {"rect", "circle"}, OnClear PROVE ShapeSoFar(Radius(c), Shape(c))
  <2>1. c \in ShapeCall(Radius(c))
    <3>1. CASE c.op = "rect"
      BY <3>1 DEF ShapeCall
    <3>2. CASE c.op = "circle"
      <4>1. PICK r \in Coordinate : c = CircleCall(c.x, c.y, r, c.fill)
        BY <1>1, <3>2, JobsAssumption DEF JobsAssumption
      <4>2. c \in ShapeCall(r) /\ c.b = r
        BY <3>2, <4>1, CircleStarts
      <4>. QED  BY <3>2, <4>2 DEF Radius
    <3>. QED  BY <1>5, <3>1, <3>2
  <2>2. <<c>> \in Seq(ShapeCall(Radius(c))) /\ todo = Append(<<c>>, ShowCall)
    BY <1>1, <2>1
  <2>3. ram \cup PaintsAll(Radius(c), <<c>>) = Shape(c)
    BY <1>2, <1>5, PaintsOne DEF Shape
  <2>. QED  BY <2>2, <2>3 DEF ShapeSoFar
<1>. QED  BY <1>1, <1>3, <1>4, <1>5 DEF CallSoFar

\* The ground, and then round by round what the call draws.
LEMMA DrawnStep ==
  ASSUME WillShow, ShowInv, ShowInv', DrawnInv, Draws
  PROVE  DrawnInv'
<1>1. job \in Jobs /\ job' = job
  BY DEF DrawnInv, Draws, Clear, Invert, SetPixel, StartLine, LineStep, DrawRect, DrawCircle,
         DrawString, DrawChar
<1>2. CASE todo = <<[op |-> job.ground], job.call, ShowCall>> /\ ram = {}
  <2>1. Head(todo).op = job.ground /\ Tail(todo) = <<job.call, ShowCall>>
    BY <1>2
  <2>2. \/ job.ground = "clear" /\ Clear
        \/ job.ground = "invert" /\ Invert
    <3>1. job.ground \in {"clear", "invert"}
      BY <1>1, JobsAssumption DEF JobsAssumption
    <3>. QED  BY <2>1, <3>1 DEF Draws, Clear, Invert, SetPixel, StartLine, LineStep, DrawRect,
                  DrawCircle, DrawString, DrawChar, Running
  <2>3. todo' = <<job.call, ShowCall>>
    <3>1. \A a, b : << >> \o <<a, b>> = <<a, b>>
      OBVIOUS
    <3>. QED  BY <2>1, <2>2, <3>1 DEF Clear, Invert, Returns, Makes
  <2>4. ram' = {p \in Screen : job.ground = "invert"}
    BY <1>2, <2>2 DEF Clear, Invert
  <2>5. CallSoFar'
    <3>1. (job \in Jobs)' /\ (todo = <<job.call, ShowCall>>)'
          /\ (ram = {p \in Screen : job.ground = "invert"})'
      BY <1>1, <2>3, <2>4
    <3>. QED  BY <3>1, CallStarts, PTL
  <2>. QED  BY <1>1, <2>5 DEF DrawnInv
<1>3. CASE CallSoFar
  <2>1. PICK c \in DrawCall : c = job.call
    BY <1>1, JobsAssumption DEF JobsAssumption
  <2>2. ram' \subseteq Screen
    BY DEF ShowInv, DisplayTypeOK
  <2>3. c.op = "line" /\ OnClear => LineSoFar(c)'
    BY <1>3, <2>1, LineKept DEF CallSoFar
  <2>4. ASSUME c.op \in {"rect", "circle"}, OnClear PROVE ShapeSoFar(Radius(c), Shape(c))'
    <3>1. Radius(c) \in Nat
      <4>1. CASE c.op = "circle"
        <5>1. PICK r \in Coordinate : c = CircleCall(c.x, c.y, r, c.fill)
          BY <1>1, <2>1, <4>1, JobsAssumption DEF JobsAssumption
        <5>. QED  BY <4>1, <5>1, CircleStarts DEF Radius
      <4>. QED  BY <4>1 DEF Radius
    <3>2. PICK r \in Nat : r = Radius(c)
      BY <3>1
    <3>3. PICK T : T = Shape(c)
      OBVIOUS
    <3>4. ShapeSoFar(r, T)
      BY <1>3, <2>1, <2>4, <3>2, <3>3 DEF CallSoFar
    <3>5. ShapeSoFar(r, T)'
      BY <3>4, ShapeKept
    <3>. QED  BY <3>2, <3>3, <3>5
  <2>5. c.op = "string" /\ TextFits(c) => TextSoFar(c)'
    BY <1>3, <2>1, <2>2, TextKept DEF CallSoFar
  <2>6. CallSoFar'
    BY <1>1, <2>1, <2>3, <2>4, <2>5 DEF CallSoFar, OnClear
  <2>. QED  BY <1>1, <2>6 DEF DrawnInv
<1>. QED  BY <1>2, <1>3 DEF DrawnInv

\* A list of calls that ends with lcd_spi_show() is not one of its own.
LEMMA NotShow ==
  ASSUME NEW t, t = << >> \/ \E c : c.op \in {"page", "data"} /\ t = <<c>>,
         NEW d \in Seq(DrawCall)
  PROVE  t # Append(d, ShowCall)
<1>. SUFFICES ASSUME t = Append(d, ShowCall) PROVE FALSE
  OBVIOUS
<1>1. Len(t) = Len(d) + 1 /\ t[Len(d) + 1] = ShowCall /\ Len(d) \in Nat
  OBVIOUS
<1>2. PICK c : c.op \in {"page", "data"} /\ t = <<c>>
  BY <1>1
<1>3. c = ShowCall
  BY <1>1, <1>2
<1>. QED  BY <1>2, <1>3 DEF ShowCall

\* Nor is one call of those that show.
LEMMA OneCall ==
  ASSUME NEW c, c.op \in {"page", "data"}, todo' = <<c>> PROVE ~WillShow'
<1>1. PICK t : t = <<c>> /\ t = todo'
  OBVIOUS
<1>2. \A d \in Seq(DrawCall) : t # Append(d, ShowCall)
  <2>1. t = << >> \/ \E e : e.op \in {"page", "data"} /\ t = <<e>>
    BY <1>1
  <2>. QED  BY <2>1, NotShow
<1>. QED  BY <1>1, <1>2 DEF WillShow

\* Nothing is drawn once it is shown.
LEMMA ShownDraws ==
  ASSUME ShowInv, DisplayNext, ~(WillShow /\ Draws)
  PROVE  ~WillShow'
<1>1. CASE WillShow
  <2>1. ComputePages
    BY <1>1, WillShowRuns DEF DisplayNext, Draws, SetPageAddress, SendPage
  <2>2. Tail(todo) = << >>
    BY <1>1, <2>1, ShowIsLast DEF ComputePages
  <2>3. PICK c : c.op = "page" /\ todo' = <<c>>
    BY <2>1, <2>2, LastCall DEF ComputePages
  <2>. QED  BY <2>3, OneCall
<1>2. CASE ~WillShow
  <2>1. todo # << >>
    BY DEF DisplayNext, Clear, Invert, SetPixel, StartLine, LineStep, DrawRect, DrawCircle,
           DrawString, DrawChar, ComputePages, SetPageAddress, SendPage, Running
  <2>2. PICK head : /\ head = Head(todo) /\ Tail(todo) = << >>
                    /\ \E op \in {"page", "data"} : \E page, line :
                         head = [op |-> op, page |-> page, line |-> line]
    BY <1>2, <2>1, Queues
  <2>3. SetPageAddress \/ SendPage
    <3>1. head.op \in {"page", "data"}
      BY <2>2
    <3>. QED  BY <2>2, <3>1 DEF DisplayNext, Clear, Invert, SetPixel, StartLine, LineStep, DrawRect,
                  DrawCircle, DrawString, DrawChar, ComputePages, Running
  <2>4. CASE SetPageAddress
    <3>1. PICK c : c = [head EXCEPT !.op = "data"]
      OBVIOUS
    <3>2. c.op = "data"
      BY <2>2, <3>1
    <3>3. Makes(<<c>>)
      BY <2>2, <2>4, <3>1 DEF SetPageAddress
    <3>4. todo' = <<c>>
      BY <2>2, <3>3, LastCall
    <3>. QED  BY <3>2, <3>4, OneCall
  <2>5. CASE SendPage
    <3>1. PICK c : c = [op |-> "page", page |-> head.page + 1, line |-> head.line]
      OBVIOUS
    <3>2. todo' = <<c>> \/ todo' = << >>
      BY <2>2, <2>5, <3>1, LastCall DEF SendPage
    <3>3. c.op = "page"
      BY <3>1
    <3>4. todo' = << >> => ~WillShow'
      BY NotShow DEF WillShow
    <3>. QED  BY <3>2, <3>3, <3>4, OneCall
  <2>. QED  BY <2>3, <2>4, <2>5
<1>. QED  BY <1>1, <1>2

\* DrawnInv is an invariant.
LEMMA DrawnAlways == Spec => []DrawnInv
<1>1. Init => DrawnInv
  <2>. SUFFICES ASSUME Init PROVE DrawnInv
    OBVIOUS
  <2>1. CASE Idle
    <3>1. todo = << >>
      BY <2>1 DEF Idle
    <3>. QED  BY <3>1, NotShow DEF DrawnInv, WillShow
  <2>2. CASE DisplayInit
    BY <2>2 DEF DisplayInit, DrawnInv, ShowCall
  <2>. QED  BY <2>1, <2>2 DEF Init
<1>2. DrawnInv /\ ShowInv /\ ShowInv' /\ [Next]_vars => DrawnInv'
  <2>. SUFFICES ASSUME DrawnInv, ShowInv, ShowInv', [Next]_vars PROVE DrawnInv'
    OBVIOUS
  <2>1. CASE UNCHANGED display_vars
    BY <2>1 DEF display_vars, DrawnInv, WillShow, CallSoFar, OnClear, LineSoFar, Underway,
                ShapeSoFar, TextSoFar, TextTo
  <2>2. CASE DisplayNext
    <3>1. CASE WillShow /\ Draws
      BY <3>1, DrawnStep
    <3>2. CASE ~(WillShow /\ Draws)
      BY <2>2, <3>2, ShownDraws DEF DrawnInv
    <3>. QED  BY <3>1, <3>2
  <2>. QED  BY <2>1, <2>2 DEF Next, vars
<1>. QED  BY <1>1, <1>2, ShowAlways, PTL DEF Spec

\* When only lcd_spi_show() is left, what was to be drawn is there.
LEMMA DrawnAtLast ==
  ASSUME ShowInv, DrawnInv, Running("show")
  PROVE  /\ job \in Jobs /\ todo = <<ShowCall>>
         /\ CallSoFar
<1>1. WillShow
  <2>. SUFFICES ASSUME ~WillShow PROVE FALSE
    OBVIOUS
  <2>1. todo # << >>
    BY DEF Running
  <2>2. Head(todo).op \in {"page", "data"}
    BY <2>1, Queues
  <2>. QED  BY <2>2 DEF Running
<1>2. todo = <<ShowCall>>
  <2>1. PICK d \in Seq(DrawCall) : todo = Append(d, ShowCall)
    BY <1>1 DEF WillShow
  <2>2. d = << >>
    <3>. SUFFICES ASSUME d # << >> PROVE FALSE
      OBVIOUS
    <3>1. Tail(todo) = Append(Tail(d), ShowCall) /\ Tail(d) \in Seq(DrawCall)
      BY <2>1, HeadTailAppend, HeadTailProperties
    <3>2. Tail(todo) = << >>
      BY <1>1, ShowIsLast
    <3>. QED  BY <3>1, <3>2, NotShow
  <2>. QED  BY <2>1, <2>2
<1>3. ~(todo = <<[op |-> job.ground], job.call, ShowCall>>)
  BY <1>2
<1>. QED  BY <1>1, <1>2, <1>3 DEF DrawnInv

\* When nothing is left to be drawn the shape is there.
LEMMA ShapeAtLast ==
  ASSUME NEW r, NEW T, ShapeSoFar(r, T), todo = <<ShowCall>> PROVE ram = T
<1>1. PICK d \in Seq(ShapeCall(r)) : todo = Append(d, ShowCall) /\ ram \cup PaintsAll(r, d) = T
  BY DEF ShapeSoFar
<1>2. d = << >>
  BY <1>1
<1>. QED  BY <1>1, <1>2, PaintsNone

\* What follows for each of the calls.
LEMMA LineAtLast ==
  ASSUME DrawnInv, ShowInv PROVE LinesStraight
<1>. SUFFICES ASSUME Drawn("line"), OnClear
              PROVE  IF OnScreen(call) THEN IsLine(ram, call.x, call.y, call.tox, call.toy)
                                       ELSE ram = {}
  BY DEF LinesStraight, OnScreen
<1>1. /\ job.call.op = "line" /\ todo = <<ShowCall>> /\ CallSoFar /\ job.call \in DrawCall
  BY DrawnAtLast, JobsAssumption DEF Drawn, call, JobsAssumption
<1>2. PICK c \in DrawCall : c = job.call /\ c.op = "line" /\ LineSoFar(c)
  BY <1>1 DEF CallSoFar
<1>3. todo # <<c, ShowCall>> /\ \A e : todo # <<e, ShowCall>>
  BY <1>1
<1>4. IF OnScreen(c) THEN IsLine(ram, c.x, c.y, c.tox, c.toy) ELSE ram = {}
  BY <1>2, <1>3 DEF LineSoFar, Underway
<1>. QED  BY <1>2, <1>4 DEF call

\* A rectangle is there.
LEMMA RectAtLast ==
  ASSUME DrawnInv, ShowInv PROVE RectsComplete
<1>. SUFFICES ASSUME Drawn("rect"), OnClear PROVE RectsComplete
  BY DEF RectsComplete
<1>1. /\ job.call.op = "rect" /\ todo = <<ShowCall>> /\ CallSoFar
  BY DrawnAtLast DEF Drawn, call
<1>2. PICK c : c = job.call
  OBVIOUS
<1>3. ram = Shape(c)
  BY <1>1, <1>2, ShapeAtLast DEF CallSoFar
<1>4. Shape(c) = IF OnScreen(c)
                   THEN {p \in Block(c) : \/ c.fill
                                          \/ p[1] \in {c.x, c.tox}
                                          \/ p[2] \in {c.y, c.toy}}
                   ELSE {}
  BY <1>1, <1>2 DEF Shape, Paints
<1>. QED  BY <1>2, <1>3, <1>4 DEF RectsComplete, OnScreen, Block, call

\* A text is there.
LEMMA TextAtLast ==
  ASSUME DrawnInv, ShowInv PROVE TextPlaced
<1>. SUFFICES ASSUME Drawn("string"), TextFits(call) PROVE TextPlaced
  BY DEF TextPlaced, TextFits
<1>1. /\ job.call.op = "string" /\ todo = <<ShowCall>> /\ CallSoFar /\ job.call \in DrawCall
  BY DrawnAtLast, JobsAssumption DEF Drawn, call, JobsAssumption
<1>2. PICK c \in DrawCall : c = job.call /\ c.op = "string" /\ TextSoFar(c)
  BY <1>1 DEF CallSoFar, call
<1>3. PICK n \in Nat : n = Len(c.text) /\ DOMAIN c.text = 1 .. n
  BY <1>2, TextArguments
<1>4. todo # <<c, ShowCall>>
  BY <1>1
<1>5. PICK k \in 0 .. n : todo = Append(CharsFrom(c, k), ShowCall) /\ ram = TextTo(c, k)
  BY <1>2, <1>3, <1>4 DEF TextSoFar
<1>6. k = n
  <2>. SUFFICES ASSUME k < n PROVE FALSE
    BY <1>3
  <2>1. Head(todo) = CharCall(c, k + 1)
    BY <1>3, <1>5, CharsLeft
  <2>. QED  BY <1>1, <2>1 DEF CharCall, ShowCall
<1>7. ram = {p \in Screen : IF Cells(c, p) = {} THEN job.ground = "invert"
                                                ELSE \E i \in Cells(c, p) : LitIn(c, p, i)}
  <2>1. \A p : (\E i \in Cells(c, p) : i <= n) <=> Cells(c, p) # {}
    BY <1>3 DEF Cells
  <2>. QED  BY <1>5, <1>6, <2>1 DEF TextTo
<1>. QED  BY <1>2, <1>7 DEF TextPlaced, Cells, LitIn, call

\* A circle is there.
LEMMA CircleAtLast ==
  ASSUME DrawnInv, ShowInv PROVE CirclesRound
<1>. SUFFICES ASSUME Drawn("circle"), OnClear, Unwrapped(call.b, call)
              PROVE  CirclesRound
  BY DEF CirclesRound, Unwrapped
<1>1. /\ job \in Jobs /\ job.call.op = "circle" /\ todo = <<ShowCall>> /\ CallSoFar
      /\ job.call \in DrawCall
  BY DrawnAtLast, JobsAssumption DEF Drawn, call, JobsAssumption
<1>2. PICK c \in DrawCall : c = job.call /\ c.op = "circle"
  BY <1>1
<1>3. PICK r \in Coordinate : c = CircleCall(c.x, c.y, r, c.fill)
  BY <1>1, <1>2, JobsAssumption DEF JobsAssumption
<1>4. c.b = r
  BY <1>2, <1>3, CircleStarts
<1>5. ram = Paints(r, c)
  <2>1. ram = Shape(c)
    BY <1>1, <1>2, ShapeAtLast DEF CallSoFar
  <2>. QED  BY <1>2, <1>4, <2>1 DEF Shape, Radius
<1>6. Unwrapped(r, c)
  BY <1>2, <1>4 DEF call
<1>7. /\ ~c.fill => ram = {p \in Screen : OnCircle(r, c, p[1], p[2])}
      /\ c.fill => ram \subseteq
                     {p \in Screen : \E x \in -Byte .. Byte :
                        OnCircle(r, c, x, p[2]) /\ Abs(p[1] - c.x) <= Abs(x - c.x)}
      /\ c.fill /\ Fits(c, r) =>
           ram = {p \in Screen : \E x \in -Byte .. Byte :
                    OnCircle(r, c, x, p[2]) /\ Abs(p[1] - c.x) <= Abs(x - c.x)}
  BY <1>2, <1>3, <1>5, <1>6, CirclePaints
<1>8. Fits(c, r) <=> c.x - r >= 0 /\ c.x + r < Width
  <2>1. c.x \in Int /\ r \in Int
    BY <1>2, CoordinateInt DEF DrawCall
  <2>. QED  BY <2>1, Screens DEF Fits
<1>. QED  BY <1>2, <1>4, <1>7, <1>8 DEF CirclesRound, OnCircle, IsNearest, call

----------------------------------------------------------------------------
(* Theorems.                                                               *)

\* What is drawn is what the call says, to the pixel, for every screen, font and
\* call: a line, a rectangle, a text that does not go on past the last uint8_t
\* (lcd_spi.c 227-318, 354-377).
THEOREM DrawsWhatItSaysHolds == Spec => []DrawsWhatItSays
<1>1. DrawnInv /\ ShowInv => DrawsWhatItSays
  BY LineAtLast, RectAtLast, TextAtLast DEF DrawsWhatItSays
<1>. QED  BY <1>1, ShowAlways, DrawnAlways, PTL

\* A circle is lit at the nearest pixel to it, whatever its centre and radius, and a
\* filled one is the disc if it fits between the sides, unless what is beside the
\* screen wraps into it (lcd_spi.c 320-352).
THEOREM CirclesRoundHolds == Spec => []CirclesRound
<1>1. DrawnInv /\ ShowInv => CirclesRound
  BY CircleAtLast
<1>. QED  BY <1>1, ShowAlways, DrawnAlways, PTL

\* Once everything was sent the panel shows the ram, whatever was drawn and
\* whatever the panel showed before (see PanelShowsRam).
THEOREM PanelShowsRamHolds == Spec => []PanelShowsRam
<1>1. ShowInv => PanelShowsRam
  <2>1. WillShow => todo # << >>
    BY DEF WillShow
  <2>. QED  BY <2>1 DEF ShowInv, PanelShowsRam, Sending
<1>. QED  BY <1>1, ShowAlways, PTL

\* No pixel beside the screen, no colour a LED does not know, no duty above the
\* frequency: the types of all three drivers (lcd_spi.c, neopixel.c, dcmotor.c).
THEOREM TypeCorrect == Spec => []TypeOK
<1>1. ShowInv /\ StripeInv /\ MotorsInv => TypeOK
  BY DEF ShowInv, StripeInv, MotorsInv, TypeOK, MotorsTypeOK, MotorState
<1>. QED  BY <1>1, ShowAlways, StripeAlways, MotorsAlways, PTL
=============================================================================
