--------------------------- MODULE Terminal_proofs ---------------------------
(***************************************************************************)
(* Theorems about Terminal for any keyboard, any number of scancodes, any  *)
(* screen and any texts of the file system: wherever the interrupt comes   *)
(* between the steps of GetKey the keys come at most once and in order;    *)
(* the shell keeps its state well formed; the screen shows the line, and   *)
(* argv is its words.                                                      *)
(*                                                                         *)
(* First what the operators of Console do to a screen (where the cursor    *)
(* goes, which cells change), then what putc and puts keep, then what      *)
(* printf and Tokenize return, then the invariants.                        *)
(***************************************************************************)
EXTENDS Terminal, SequenceTheorems, Induction

-----------------------------------------------------------------------------
(* Screens *)

Screens == [x : Int, y : Int, cell : [Cells -> Chars]]

Here(s) == Place(<<s.x, s.y>>)

OnScreen(s) == s \in Screens /\ <<s.x, s.y>> \in Cells

-----------------------------------------------------------------------------
(* The operators of Console, without Once. *)

LEMMA DrawIs ==
    ASSUME NEW s, NEW what
    PROVE  Draw(s, what) = IF <<s.x, s.y>> \in Cells THEN [s EXCEPT !.cell[<<s.x, s.y>>] = what] ELSE s
  BY DEF Draw, Once

LEMMA UpdateIs == ASSUME NEW s PROVE updateCursor(s) = Draw(Wrapped(s), Cursor)
  BY DEF updateCursor, Once

LEMMA SettleIs ==
    ASSUME NEW s
    PROVE  Settle(s) = IF updateCursor(s).y >= Rows THEN console_clearScreen ELSE updateCursor(s)
  BY DEF Settle, Once

LEMMA BackspaceIs ==
    ASSUME NEW s
    PROVE  Backspace(s) = IF s.x = 0 /\ s.y = 0 THEN updateCursor(eraseCursor(s))
                          ELSE Settle(Draw(Left(eraseCursor(s)), Background))
  BY DEF Backspace, Once

LEMMA PutcIs ==
    ASSUME NEW s, NEW c
    PROVE  putc(s, c) = CASE c = "\r" -> Settle([s EXCEPT !.x = 0])
                          [] c = "\n" -> Settle(NextLine(eraseCursor(s)))
                          [] c = "\t" -> Tab(s)
                          [] c = "BS" -> Backspace(s)
                          [] OTHER    -> PutGlyph(s, c)
  BY DEF putc, Once

-----------------------------------------------------------------------------
(* Cells and their places. *)

LEMMA CellsAre ==
    /\ Columns \in Nat /\ Columns > 0 /\ Rows \in Nat /\ Rows > 0
    /\ \A c \in Cells : /\ c[1] \in Nat /\ c[1] < Columns /\ c[2] \in Nat /\ c[2] < Rows
                        /\ c = <<c[1], c[2]>>
    /\ \A x, y \in Int : <<x, y>> \in Cells <=> 0 <= x /\ x < Columns /\ 0 <= y /\ y < Rows
  <1>1. Columns \in Nat /\ Columns > 0 /\ Rows \in Nat /\ Rows > 0
    BY SizeAssumption
  <1> QED
    BY <1>1 DEF Cells

LEMMA Times ==
    ASSUME NEW a \in Nat, NEW b \in Nat, a < b
    PROVE  a * Columns + Columns <= b * Columns /\ a * Columns \in Nat /\ b * Columns \in Nat
  <1>1. Columns \in Nat
    BY CellsAre
  <1>2. PICK k \in Nat : b = a + 1 + k
    <2>1. b - a - 1 \in Nat /\ b = a + 1 + (b - a - 1)
      OBVIOUS
    <2> QED
      BY <2>1
  <1>3. b * Columns = a * Columns + Columns + k * Columns
    BY <1>1, <1>2
  <1>4. k * Columns \in Nat /\ a * Columns \in Nat /\ b * Columns \in Nat
    BY <1>1
  <1> QED
    BY <1>1, <1>3, <1>4

LEMMA PlacesAre ==
    /\ \A c \in Cells : Place(c) \in Nat
    /\ \A c, d \in Cells : Place(c) = Place(d) => c = d
    /\ \A c, d \in Cells : c[2] < d[2] => Place(c) < Place(d)
  <1>1. ASSUME NEW c \in Cells PROVE Place(c) \in Nat
    <2>1. c[1] \in Nat /\ c[2] \in Nat /\ Columns \in Nat
      BY CellsAre
    <2>2. c[2] * Columns \in Nat
      BY <2>1
    <2> QED
      BY <2>1, <2>2 DEF Place
  <1>2. ASSUME NEW c \in Cells, NEW d \in Cells, c[2] < d[2] PROVE Place(c) < Place(d)
    <2>1. c[1] \in Nat /\ c[2] \in Nat /\ d[1] \in Nat /\ d[2] \in Nat /\ Columns \in Nat /\ c[1] < Columns
      BY CellsAre
    <2>2. c[2] * Columns + Columns <= d[2] * Columns /\ c[2] * Columns \in Nat /\ d[2] * Columns \in Nat
      BY <1>2, <2>1, Times
    <2> QED
      BY <2>1, <2>2 DEF Place
  <1>3. ASSUME NEW c \in Cells, NEW d \in Cells, Place(c) = Place(d) PROVE c = d
    <2>1. /\ c[1] \in Nat /\ c[2] \in Nat /\ d[1] \in Nat /\ d[2] \in Nat /\ Columns \in Nat
          /\ c = <<c[1], c[2]>> /\ d = <<d[1], d[2]>>
      BY CellsAre
    <2>2. c[2] = d[2]
      BY <1>1, <1>2, <1>3, <2>1
    <2>3. c[2] * Columns = d[2] * Columns /\ c[2] * Columns \in Nat
      BY <2>1, <2>2
    <2>4. c[1] = d[1]
      BY <1>3, <2>1, <2>3 DEF Place
    <2> QED
      BY <2>1, <2>2, <2>4
  <1> QED
    BY <1>1, <1>2, <1>3

-----------------------------------------------------------------------------
(* What a step leaves on the screen. *)

LEMMA Glyphs == Cursor \in Chars /\ Background \in Chars
  BY DEF Chars

LEMMA DrawnHere ==
    ASSUME NEW s, OnScreen(s), NEW what \in Chars
    PROVE  LET t == Draw(s, what)
           IN  /\ OnScreen(t) /\ t.x = s.x /\ t.y = s.y /\ t.cell[<<t.x, t.y>>] = what
               /\ \A d \in Cells : d # <<s.x, s.y>> => t.cell[d] = s.cell[d]
  <1>1. Draw(s, what) = [s EXCEPT !.cell[<<s.x, s.y>>] = what]
    BY DrawIs DEF OnScreen
  <1> QED
    BY <1>1 DEF OnScreen, Screens

LEMMA DrawnAgain ==
    ASSUME NEW s, OnScreen(s), NEW what \in Chars, s.cell[<<s.x, s.y>>] = what
    PROVE  Draw(s, what) = s
  <1>1. Draw(s, what) = [s EXCEPT !.cell[<<s.x, s.y>>] = what]
    BY DrawIs DEF OnScreen
  <1> QED
    BY <1>1 DEF OnScreen, Screens

LEMMA NextLineIs ==
    ASSUME NEW s \in Screens
    PROVE  LET t == NextLine(s) IN t \in Screens /\ t.x = 0 /\ t.y = s.y + 1 /\ t.cell = s.cell
  <1>1. PICK t : t = [s EXCEPT !.x = 0]
    OBVIOUS
  <1>2. t \in Screens /\ t.x = 0 /\ t.y = s.y /\ t.cell = s.cell
    BY <1>1 DEF Screens
  <1>3. NextLine(s) = [t EXCEPT !.y = t.y + 1]
    BY <1>1, <1>2 DEF NextLine
  <1> QED
    BY <1>2, <1>3 DEF Screens

LEMMA SettledHere ==
    ASSUME NEW s, OnScreen(s)
    PROVE  Settle(s) = Draw(s, Cursor) /\ updateCursor(s) = Draw(s, Cursor)
  <1>1. s.x \in Int /\ s.y \in Int /\ s.x < Columns /\ s.y < Rows
    BY CellsAre DEF OnScreen, Screens
  <1>2. Wrapped(s) = s
    BY <1>1 DEF Wrapped
  <1>3. updateCursor(s) = Draw(s, Cursor)
    BY <1>2, UpdateIs
  <1>4. Draw(s, Cursor).y = s.y
    BY DrawnHere, Glyphs 
  <1>5. ~(s.y >= Rows)
    BY <1>1, CellsAre
  <1> QED
    BY <1>3, <1>4, <1>5, SettleIs

LEMMA ClearIs ==
    LET t == console_clearScreen
    IN  /\ OnScreen(t) /\ t.x = 0 /\ t.y = 0 /\ Here(t) = 0 /\ t.cell[<<t.x, t.y>>] = Cursor
        /\ \A d \in Cells : d # <<0, 0>> => t.cell[d] = Background
        /\ Draw(t, Cursor) = t
  <1> DEFINE s == [x |-> 0, y |-> 0, cell |-> [c \in Cells |-> Background]]
             t == console_clearScreen
  <1>1. OnScreen(s)
    <2>1. [c \in Cells |-> Background] \in [Cells -> Chars]
      BY Glyphs
    <2>2. s \in Screens
      BY <2>1 DEF Screens
    <2>3. <<0, 0>> \in Cells
      BY CellsAre
    <2> QED
      BY <2>2, <2>3 DEF OnScreen
  <1>2. t = Draw(s, Cursor)
    BY DEF console_clearScreen
  <1>3. /\ OnScreen(t) /\ t.x = 0 /\ t.y = 0 /\ t.cell[<<t.x, t.y>>] = Cursor
        /\ \A d \in Cells : d # <<0, 0>> => t.cell[d] = Background
    <2>1. s.x = 0 /\ s.y = 0 /\ \A d \in Cells : s.cell[d] = Background
      OBVIOUS
    <2> HIDE DEF s, t
    <2> QED
      BY <1>1, <1>2, <2>1, DrawnHere, Glyphs
  <1> HIDE DEF s, t
  <1>4. Here(t) = 0
    <2>1. 0 * Columns = 0
      BY CellsAre
    <2> QED
      BY <1>3, <2>1 DEF Here, Place
  <1>5. Draw(t, Cursor) = t
    BY <1>3, DrawnAgain, Glyphs
  <1> QED
    BY <1>3, <1>4, <1>5 DEF t

LEMMA SettledBelow ==
    ASSUME NEW s \in Screens, s.x = 0, s.y = Rows
    PROVE  Settle(s) = console_clearScreen
  <1>1. 0 < Columns /\ Rows \in Nat
    BY CellsAre
  <1>2. Wrapped(s) = s
    BY <1>1 DEF Wrapped
  <1>3. <<s.x, s.y>> \notin Cells
    BY <1>1, CellsAre
  <1>4. updateCursor(s) = s
    BY <1>2, <1>3, UpdateIs, DrawIs
  <1> QED
    BY <1>1, <1>4, SettleIs

\* The cursor right of a line: it wraps, and behind the last line the screen is cleared.
LEMMA SettledRight ==
    ASSUME NEW s \in Screens, s.x = Columns, s.y \in Nat, s.y < Rows
    PROVE  Settle(s) = IF s.y + 1 >= Rows THEN console_clearScreen ELSE Draw(NextLine(s), Cursor)
  <1>1. Columns \in Nat /\ Columns > 0 /\ Rows \in Nat /\ Rows > 0
    BY CellsAre
  <1>2. ~(s.x < Columns)
    BY <1>1
  <1>3. CASE s.y + 1 >= Rows
    <2>1. Wrapped(s) = console_clearScreen
      BY <1>2, <1>3 DEF Wrapped
    <2>2. updateCursor(s) = console_clearScreen
      BY <2>1, UpdateIs, ClearIs
    <2>3. console_clearScreen.y = 0
      BY ClearIs
    <2> QED
      BY <1>1, <1>3, <2>2, <2>3, SettleIs
  <1>4. CASE ~(s.y + 1 >= Rows)
    <2>1. Wrapped(s) = NextLine(s)
      BY <1>2, <1>4 DEF Wrapped
    <2>2. NextLine(s).x = 0 /\ NextLine(s).y = s.y + 1 /\ NextLine(s) \in Screens
      BY NextLineIs
    <2>3. OnScreen(NextLine(s))
      BY <1>1, <1>4, <2>2, CellsAre DEF OnScreen
    <2>4. updateCursor(s) = Draw(NextLine(s), Cursor)
      BY <2>1, UpdateIs
    <2>5. updateCursor(s).y = s.y + 1
      <3>1. Draw(NextLine(s), Cursor).y = NextLine(s).y
        BY <2>3, DrawnHere, Glyphs
      <3> QED
        BY <2>2, <2>4, <3>1
    <2> QED
      BY <1>1, <1>4, <2>4, <2>5, SettleIs
  <1> QED
    BY <1>3, <1>4
LEMMA MovedTo ==
    ASSUME NEW s \in Screens, NEW n \in Int
    PROVE  LET t == [s EXCEPT !.x = n] IN t \in Screens /\ t.x = n /\ t.y = s.y /\ t.cell = s.cell
  BY DEF Screens

\* The cursor is shown where it is.
Shows(t) == OnScreen(t) /\ t.cell[<<t.x, t.y>>] = Cursor

\* The other cells of t are those of s, but for one.
Leaves(s, t, c) == \A d \in Cells : d # <<t.x, t.y>> => t.cell[d] = IF d = <<s.x, s.y>> THEN c ELSE s.cell[d]

LEMMA HereIs == ASSUME NEW s, OnScreen(s) PROVE Here(s) = s.y * Columns + s.x /\ Here(s) \in Nat
  BY PlacesAre DEF Here, OnScreen, Place

LEMMA GlyphIs ==
    ASSUME NEW s, OnScreen(s), NEW c \in Chars
    PROVE  LET t == PutGlyph(s, c)
           IN  /\ Shows(t)
               /\ t = console_clearScreen \/ (Here(t) = Here(s) + 1 /\ t.y >= s.y /\ Leaves(s, t, c))
  <1>1. PICK erased : erased = Draw(s, Background)
    OBVIOUS
  <1>2. PICK drawn : drawn = Draw(erased, c)
    OBVIOUS
  <1>3. /\ OnScreen(drawn) /\ drawn.x = s.x /\ drawn.y = s.y
        /\ \A d \in Cells : drawn.cell[d] = IF d = <<s.x, s.y>> THEN c ELSE s.cell[d]
    <2>1. /\ OnScreen(erased) /\ erased.x = s.x /\ erased.y = s.y
          /\ \A d \in Cells : d # <<s.x, s.y>> => erased.cell[d] = s.cell[d]
      BY <1>1, DrawnHere, Glyphs
    <2>2. /\ OnScreen(drawn) /\ drawn.x = s.x /\ drawn.y = s.y /\ drawn.cell[<<s.x, s.y>>] = c
          /\ \A d \in Cells : d # <<s.x, s.y>> => drawn.cell[d] = erased.cell[d]
      <3>1. <<erased.x, erased.y>> = <<s.x, s.y>>
        BY <2>1
      <3>2. /\ OnScreen(drawn) /\ drawn.x = erased.x /\ drawn.y = erased.y
            /\ drawn.cell[<<drawn.x, drawn.y>>] = c
            /\ \A d \in Cells : d # <<erased.x, erased.y>> => drawn.cell[d] = erased.cell[d]
        BY <1>2, <2>1, DrawnHere
      <3> QED
        BY <2>1, <3>1, <3>2
    <2> QED
      BY <2>1, <2>2
  <1>4. /\ s.x \in Int /\ s.y \in Int /\ 0 <= s.x /\ s.x < Columns /\ 0 <= s.y /\ s.y < Rows
        /\ Columns \in Nat /\ Rows \in Nat
    BY CellsAre DEF OnScreen, Screens
  <1>5. PICK m : m = [drawn EXCEPT !.x = s.x + 1]
    OBVIOUS
  <1>6. m \in Screens /\ m.x = s.x + 1 /\ m.y = s.y /\ m.cell = drawn.cell
    <2>1. drawn \in Screens /\ s.x + 1 \in Int
      BY <1>3, <1>4 DEF OnScreen
    <2> QED
      BY <1>3, <1>5, <2>1, MovedTo
  <1>7. PICK t : t = PutGlyph(s, c)
    OBVIOUS
  <1>8. t = Settle(m)
    BY <1>1, <1>2, <1>3, <1>5, <1>7 DEF PutGlyph, console_drawChar, eraseCursor
  <1>9. CASE s.x + 1 < Columns
    <2>1. OnScreen(m)
      BY <1>4, <1>6, <1>9, CellsAre DEF OnScreen
    <2>2. t = Draw(m, Cursor)
      BY <1>8, <2>1, SettledHere
    <2>3. Shows(t) /\ t.x = s.x + 1 /\ t.y = s.y /\ \A d \in Cells : d # <<t.x, t.y>> => t.cell[d] = drawn.cell[d]
      BY <1>6, <2>1, <2>2, DrawnHere, Glyphs DEF Shows
    <2>4. Here(t) = Here(s) + 1
      <3>1. Here(t) = t.y * Columns + t.x /\ Here(s) = s.y * Columns + s.x /\ s.y * Columns \in Int
        BY <1>4, <2>3, HereIs DEF Shows
      <3> QED
        BY <1>4, <2>3, <3>1
    <2> QED
      BY <1>3, <1>4, <1>7, <2>3, <2>4 DEF Leaves
  <1>10. CASE ~(s.x + 1 < Columns)
    <2>1. m.x = Columns /\ m.y \in Nat /\ m.y < Rows
      BY <1>4, <1>6, <1>10
    <2>2. t = IF m.y + 1 >= Rows THEN console_clearScreen ELSE Draw(NextLine(m), Cursor)
      BY <1>6, <1>8, <2>1, SettledRight
    <2>3. CASE m.y + 1 >= Rows
      BY <1>7, <2>2, <2>3, ClearIs DEF Shows
    <2>4. CASE ~(m.y + 1 >= Rows)
      <3>1. PICK n : n = NextLine(m)
        OBVIOUS
      <3>2. n \in Screens /\ n.x = 0 /\ n.y = s.y + 1 /\ n.cell = drawn.cell
        BY <1>6, <3>1, NextLineIs
      <3>3. OnScreen(n)
        BY <1>4, <1>6, <2>4, <3>2, CellsAre DEF OnScreen
      <3>4. t = Draw(n, Cursor)
        BY <2>2, <2>4, <3>1
      <3>5. Shows(t) /\ t.x = 0 /\ t.y = s.y + 1 /\ \A d \in Cells : d # <<t.x, t.y>> => t.cell[d] = drawn.cell[d]
        BY <3>2, <3>3, <3>4, DrawnHere, Glyphs DEF Shows
      <3>6. Here(t) = Here(s) + 1
        <4>1. Here(t) = t.y * Columns + t.x /\ Here(s) = s.y * Columns + s.x /\ s.y * Columns \in Int
          BY <1>4, <3>5, HereIs DEF Shows
        <4>2. (s.y + 1) * Columns = s.y * Columns + Columns
          BY <1>4
        <4>3. s.x + 1 = Columns
          BY <1>4, <1>10
        <4> QED
          BY <1>4, <3>5, <4>1, <4>2, <4>3
      <3> QED
        BY <1>3, <1>4, <1>7, <3>5, <3>6 DEF Leaves
    <2> QED
      BY <2>3, <2>4
  <1> QED
    BY <1>9, <1>10

LEMMA TabIs ==
    ASSUME NEW s, OnScreen(s)
    PROVE  Tab(s) = PutGlyph(PutGlyph(PutGlyph(PutGlyph(s, Background), Background), Background), Background)
  <1>1. PICK erased : erased = eraseCursor(s)
    OBVIOUS
  <1>2. OnScreen(erased) /\ erased.cell[<<erased.x, erased.y>>] = Background
    BY <1>1, DrawnHere, Glyphs DEF eraseCursor
  <1>3. eraseCursor(erased) = erased
    BY <1>2, DrawnAgain, Glyphs DEF eraseCursor
  <1>4. PutGlyph(erased, Background) = PutGlyph(s, Background)
    BY <1>1, <1>3 DEF PutGlyph
  <1>5. Tab(s) = Settle(PutGlyph(PutGlyph(PutGlyph(PutGlyph(erased, Background), Background), Background), Background))
    BY <1>1 DEF Tab, Background
  <1>6. PICK a : a = PutGlyph(s, Background)
    OBVIOUS
  <1>7. PICK b : b = PutGlyph(a, Background)
    OBVIOUS
  <1>8. PICK c : c = PutGlyph(b, Background)
    OBVIOUS
  <1>9. PICK d : d = PutGlyph(c, Background)
    OBVIOUS
  <1>10. OnScreen(a)
    BY <1>6, GlyphIs, Glyphs DEF Shows
  <1>11. OnScreen(b)
    BY <1>7, <1>10, GlyphIs, Glyphs DEF Shows
  <1>12. OnScreen(c)
    BY <1>8, <1>11, GlyphIs, Glyphs DEF Shows
  <1>13. Shows(d)
    BY <1>9, <1>12, GlyphIs, Glyphs
  <1>14. Settle(d) = d
    BY <1>13, SettledHere, DrawnAgain, Glyphs DEF Shows
  <1> QED
    BY <1>4, <1>5, <1>6, <1>7, <1>8, <1>9, <1>14

LEMMA ReturnIs ==
    ASSUME NEW s, OnScreen(s)
    PROVE  LET t == putc(s, "\r") IN Shows(t) /\ t.y = s.y /\ \A d \in Cells : d # <<t.x, t.y>> => t.cell[d] = s.cell[d]
  <1>1. PICK m : m = [s EXCEPT !.x = 0]
    OBVIOUS
  <1>2. m \in Screens /\ m.x = 0 /\ m.y = s.y /\ m.cell = s.cell
    BY <1>1, MovedTo DEF OnScreen
  <1>3. OnScreen(m)
    BY <1>2, CellsAre DEF OnScreen, Screens
  <1>4. putc(s, "\r") = Draw(m, Cursor)
    BY <1>1, <1>3, PutcIs, SettledHere
  <1> QED
    BY <1>2, <1>3, <1>4, DrawnHere, Glyphs DEF Shows

LEMMA ErasedIs ==
    ASSUME NEW s, OnScreen(s)
    PROVE  LET t == eraseCursor(s)
           IN  /\ OnScreen(t) /\ t.x = s.x /\ t.y = s.y /\ t.cell[<<s.x, s.y>>] = Background
               /\ \A d \in Cells : d # <<s.x, s.y>> => t.cell[d] = s.cell[d]
  <1>1. PICK t : t = eraseCursor(s)
    OBVIOUS
  <1>2. /\ OnScreen(t) /\ t.x = s.x /\ t.y = s.y /\ t.cell[<<t.x, t.y>>] = Background
        /\ \A d \in Cells : d # <<s.x, s.y>> => t.cell[d] = s.cell[d]
    BY <1>1, DrawnHere, Glyphs DEF eraseCursor
  <1>3. <<t.x, t.y>> = <<s.x, s.y>>
    BY <1>2
  <1> QED
    BY <1>1, <1>2, <1>3

LEMMA NewlineIs ==
    ASSUME NEW s, OnScreen(s)
    PROVE  LET t == putc(s, "\n")
           IN  Shows(t) /\ (t = console_clearScreen \/ (t.x = 0 /\ t.y = s.y + 1 /\ Leaves(s, t, Background)))
  <1>1. PICK erased : erased = eraseCursor(s)
    OBVIOUS
  <1>2. /\ OnScreen(erased) /\ erased.x = s.x /\ erased.y = s.y /\ erased.cell[<<s.x, s.y>>] = Background
        /\ \A d \in Cells : d # <<s.x, s.y>> => erased.cell[d] = s.cell[d]
    BY <1>1, ErasedIs
  <1>3. PICK n : n = NextLine(erased)
    OBVIOUS
  <1>4. n \in Screens /\ n.x = 0 /\ n.y = s.y + 1 /\ n.cell = erased.cell
    BY <1>2, <1>3, NextLineIs DEF OnScreen
  <1>5. PICK t : t = putc(s, "\n")
    OBVIOUS
  <1>6. t = Settle(n)
    BY <1>1, <1>3, <1>5, PutcIs
  <1>7. s.y \in Int /\ 0 <= s.y /\ s.y < Rows /\ Rows \in Nat /\ Columns > 0 /\ Columns \in Nat
    BY CellsAre DEF OnScreen, Screens
  <1>8. CASE s.y + 1 = Rows
    BY <1>4, <1>5, <1>6, <1>8, SettledBelow, ClearIs DEF Shows
  <1>9. CASE s.y + 1 # Rows
    <2>1. OnScreen(n)
      BY <1>4, <1>7, <1>9, CellsAre DEF OnScreen
    <2>2. t = Draw(n, Cursor)
      BY <1>6, <2>1, SettledHere
    <2>3. Shows(t) /\ t.x = 0 /\ t.y = s.y + 1 /\ \A d \in Cells : d # <<t.x, t.y>> => t.cell[d] = erased.cell[d]
      BY <1>4, <2>1, <2>2, DrawnHere, Glyphs DEF Shows
    <2> QED
      BY <1>2, <1>5, <2>3 DEF Leaves
  <1> QED
    BY <1>8, <1>9

LEMMA LeftIs ==
    ASSUME NEW s, OnScreen(s), Here(s) # 0
    PROVE  LET t == Left(s) IN OnScreen(t) /\ t.cell = s.cell /\ Here(t) = Here(s) - 1
  <1>1. PICK t : t = Left(s)
    OBVIOUS
  <1>2. /\ s.x \in Int /\ s.y \in Int /\ 0 <= s.x /\ s.x < Columns /\ 0 <= s.y /\ s.y < Rows
        /\ Columns \in Nat /\ Rows \in Nat /\ s \in Screens /\ s.y * Columns \in Int
    BY CellsAre DEF OnScreen, Screens
  <1>3. Here(s) = s.y * Columns + s.x
    BY HereIs
  <1>4. CASE s.x = 0
    <2>1. s.y # 0
      <3>1. s.y = 0 => s.y * Columns = 0
        BY <1>2
      <3> QED
        BY <1>2, <1>3, <1>4, <3>1
    <2>2. PICK m : m = [s EXCEPT !.x = Columns - 1]
      OBVIOUS
    <2>3. m \in Screens /\ m.x = Columns - 1 /\ m.y = s.y /\ m.cell = s.cell
      BY <1>2, <2>2, MovedTo
    <2>4. t = [m EXCEPT !.y = m.y - 1]
      BY <1>1, <1>4, <2>2, <2>3 DEF Left
    <2>5. t \in Screens /\ t.x = Columns - 1 /\ t.y = s.y - 1 /\ t.cell = s.cell
      BY <2>3, <2>4 DEF Screens
    <2>6. OnScreen(t)
      BY <1>2, <2>1, <2>5, CellsAre DEF OnScreen
    <2>7. (s.y - 1) * Columns = s.y * Columns - Columns
      BY <1>2
    <2>8. Here(t) = t.y * Columns + t.x
      BY <2>6, HereIs
    <2> QED
      BY <1>1, <1>2, <1>3, <1>4, <2>5, <2>6, <2>7, <2>8
  <1>5. CASE s.x # 0
    <2>1. t = [s EXCEPT !.x = s.x - 1]
      BY <1>1, <1>5 DEF Left
    <2>2. t \in Screens /\ t.x = s.x - 1 /\ t.y = s.y /\ t.cell = s.cell
      BY <1>2, <2>1, MovedTo
    <2>3. OnScreen(t)
      BY <1>2, <1>5, <2>2, CellsAre DEF OnScreen
    <2>4. Here(t) = t.y * Columns + t.x
      BY <2>3, HereIs
    <2> QED
      BY <1>1, <1>2, <1>3, <2>2, <2>3, <2>4
  <1> QED
    BY <1>4, <1>5

LEMMA BackIs ==
    ASSUME NEW s, OnScreen(s)
    PROVE  LET t == putc(s, "BS")
           IN  /\ Shows(t) /\ Leaves(s, t, Background)
               /\ Here(t) = IF Here(s) = 0 THEN 0 ELSE Here(s) - 1
  <1>1. PICK erased : erased = eraseCursor(s)
    OBVIOUS
  <1>2. /\ OnScreen(erased) /\ erased.x = s.x /\ erased.y = s.y /\ erased.cell[<<s.x, s.y>>] = Background
        /\ \A d \in Cells : d # <<s.x, s.y>> => erased.cell[d] = s.cell[d]
    BY <1>1, ErasedIs
  <1>3. PICK t : t = putc(s, "BS")
    OBVIOUS
  <1>4. t = Backspace(s)
    BY <1>3, PutcIs
  <1>5. Here(erased) = Here(s) /\ Here(s) \in Nat
    BY <1>2, HereIs DEF Here
  <1>6. s.x = 0 /\ s.y = 0 <=> Here(s) = 0
    <2>1. /\ s.x \in Int /\ s.y \in Int /\ 0 <= s.x /\ 0 <= s.y /\ Columns \in Nat /\ Columns > 0
      BY CellsAre DEF OnScreen, Screens
    <2>2. Here(s) = s.y * Columns + s.x
      BY HereIs
    <2>3. s.y * Columns \in Nat /\ (s.y = 0 <=> s.y * Columns = 0)
      BY <2>1
    <2> QED
      BY <2>1, <2>2, <2>3
  <1>7. CASE Here(s) = 0
    <2>1. t = Draw(erased, Cursor)
      BY <1>1, <1>2, <1>4, <1>6, <1>7, BackspaceIs, SettledHere
    <2>2. Shows(t) /\ t.x = s.x /\ t.y = s.y /\ \A d \in Cells : d # <<t.x, t.y>> => t.cell[d] = erased.cell[d]
      BY <1>2, <2>1, DrawnHere, Glyphs DEF Shows
    <2>3. Here(t) = Here(s)
      BY <2>2 DEF Here
    <2> QED
      BY <1>2, <1>3, <1>7, <2>2, <2>3 DEF Leaves
  <1>8. CASE Here(s) # 0
    <2>1. PICK l : l = Left(erased)
      OBVIOUS
    <2>2. OnScreen(l) /\ l.cell = erased.cell /\ Here(l) = Here(s) - 1
      BY <1>2, <1>5, <1>8, <2>1, LeftIs
    <2>3. PICK n : n = Draw(l, Background)
      OBVIOUS
    <2>4. /\ OnScreen(n) /\ n.x = l.x /\ n.y = l.y
          /\ \A d \in Cells : d # <<l.x, l.y>> => n.cell[d] = l.cell[d]
      BY <2>2, <2>3, DrawnHere, Glyphs
    <2>5. t = Draw(n, Cursor)
      BY <1>1, <1>4, <1>6, <1>8, <2>1, <2>3, <2>4, BackspaceIs, SettledHere
    <2>6. Shows(t) /\ t.x = l.x /\ t.y = l.y /\ \A d \in Cells : d # <<t.x, t.y>> => t.cell[d] = n.cell[d]
      BY <2>4, <2>5, DrawnHere, Glyphs DEF Shows
    <2>7. Here(t) = Here(l)
      BY <2>6 DEF Here
    <2>8. \A d \in Cells : d # <<t.x, t.y>> => t.cell[d] = erased.cell[d]
      BY <2>2, <2>4, <2>6
    <2> QED
      BY <1>2, <1>3, <1>8, <2>2, <2>6, <2>7, <2>8 DEF Leaves
  <1> QED
    BY <1>7, <1>8

-----------------------------------------------------------------------------
(* What putc and puts keep. *)

\* Nothing follows the cursor.
Clean(s) == Shows(s) /\ \A d \in Cells : Place(d) > Here(s) => s.cell[d] = Background

\* Nothing is in the lines below the cursor's.
NothingBelow(s) == OnScreen(s) /\ \A d \in Cells : d[2] > s.y => s.cell[d] = Background

\* The screen ends with as much of the text as fits before the cursor.
EndsWith(s, text) ==
    \A d \in Cells, j \in 1 .. Len(text) : Place(d) = Here(s) - j => s.cell[d] = text[Len(text) + 1 - j]

Special == {"\r", "\n", "\t", "BS"}

LEMMA PutcKinds ==
    ASSUME NEW s, NEW c
    PROVE  /\ c \notin Special => putc(s, c) = PutGlyph(s, c)
           /\ putc(s, "\t") = Tab(s)
  BY PutcIs DEF Special

LEMMA PutcShows ==
    ASSUME NEW s, OnScreen(s), NEW c \in Chars
    PROVE  Shows(putc(s, c))
  <1>1. CASE c \notin Special
    BY <1>1, PutcKinds, GlyphIs
  <1>2. CASE c = "\t"
    <2>1. PICK a : a = PutGlyph(s, Background)
      OBVIOUS
    <2>2. PICK b : b = PutGlyph(a, Background)
      OBVIOUS
    <2>3. PICK d : d = PutGlyph(b, Background)
      OBVIOUS
    <2>4. OnScreen(a)
      BY <2>1, GlyphIs, Glyphs DEF Shows
    <2>5. OnScreen(b)
      BY <2>2, <2>4, GlyphIs, Glyphs DEF Shows
    <2>6. OnScreen(d)
      BY <2>3, <2>5, GlyphIs, Glyphs DEF Shows
    <2>7. Shows(PutGlyph(d, Background))
      BY <2>6, GlyphIs, Glyphs
    <2> QED
      BY <1>2, <2>1, <2>2, <2>3, <2>7, PutcKinds, TabIs
  <1> QED
    BY <1>1, <1>2, ReturnIs, NewlineIs, BackIs DEF Special

LEMMA ClearIsClean == Clean(console_clearScreen)
  <1>1. \A d \in Cells : Place(d) > 0 => d # <<0, 0>>
    <2>1. 0 * Columns + 0 = 0
      BY CellsAre
    <2> QED
      BY <2>1 DEF Place
  <1> QED
    BY <1>1, ClearIs DEF Clean, Shows

LEMMA GlyphClean ==
    ASSUME NEW s, OnScreen(s), \A d \in Cells : Place(d) > Here(s) => s.cell[d] = Background, NEW c \in Chars
    PROVE  Clean(PutGlyph(s, c))
  <1>1. PICK t : t = PutGlyph(s, c)
    OBVIOUS
  <1>2. Shows(t) /\ (t = console_clearScreen \/ (Here(t) = Here(s) + 1 /\ Leaves(s, t, c)))
    BY <1>1, GlyphIs
  <1>3. CASE t = console_clearScreen
    BY <1>1, <1>3, ClearIsClean
  <1>4. CASE Here(t) = Here(s) + 1 /\ Leaves(s, t, c)
    <2>1. ASSUME NEW d \in Cells, Place(d) > Here(t) PROVE t.cell[d] = Background
      <3>1. Place(d) \in Nat /\ Here(s) \in Nat
        BY PlacesAre, HereIs
      <3>2. Place(d) > Here(s) /\ d # <<s.x, s.y>> /\ d # <<t.x, t.y>>
        BY <1>4, <2>1, <3>1 DEF Here
      <3> QED
        BY <1>4, <3>2 DEF Leaves
    <2> QED
      BY <1>1, <1>2, <2>1 DEF Clean
  <1> QED
    BY <1>2, <1>3, <1>4

LEMMA TabSteps ==
    ASSUME NEW s, OnScreen(s)
    PROVE  \E a, b, c : /\ a = PutGlyph(s, Background) /\ b = PutGlyph(a, Background)
                        /\ c = PutGlyph(b, Background) /\ putc(s, "\t") = PutGlyph(c, Background)
                        /\ OnScreen(a) /\ OnScreen(b) /\ OnScreen(c)
  <1>1. PICK a : a = PutGlyph(s, Background)
    OBVIOUS
  <1>2. PICK b : b = PutGlyph(a, Background)
    OBVIOUS
  <1>3. PICK c : c = PutGlyph(b, Background)
    OBVIOUS
  <1>4. OnScreen(a)
    BY <1>1, GlyphIs, Glyphs DEF Shows
  <1>5. OnScreen(b)
    BY <1>2, <1>4, GlyphIs, Glyphs DEF Shows
  <1>6. OnScreen(c)
    BY <1>3, <1>5, GlyphIs, Glyphs DEF Shows
  <1>7. putc(s, "\t") = PutGlyph(c, Background)
    BY <1>1, <1>2, <1>3, PutcKinds, TabIs
  <1> QED
    BY <1>1, <1>2, <1>3, <1>4, <1>5, <1>6, <1>7

LEMMA PutcClean ==
    ASSUME NEW s, Clean(s), NEW c \in Chars, c # "\r"
    PROVE  Clean(putc(s, c))
  <1>1. OnScreen(s) /\ \A d \in Cells : Place(d) > Here(s) => s.cell[d] = Background
    BY DEF Clean, Shows
  <1>2. CASE c \notin Special
    BY <1>1, <1>2, PutcKinds, GlyphClean
  <1>3. CASE c = "\t"
    <2>1. PICK a, b, d : /\ a = PutGlyph(s, Background) /\ b = PutGlyph(a, Background)
                         /\ d = PutGlyph(b, Background) /\ putc(s, "\t") = PutGlyph(d, Background)
      BY <1>1, TabSteps
    <2>2. Clean(a)
      BY <1>1, <2>1, GlyphClean, Glyphs
    <2>3. Clean(b)
      BY <2>1, <2>2, GlyphClean, Glyphs DEF Clean, Shows
    <2>4. Clean(d)
      BY <2>1, <2>3, GlyphClean, Glyphs DEF Clean, Shows
    <2>5. Clean(PutGlyph(d, Background))
      BY <2>4, GlyphClean, Glyphs DEF Clean, Shows
    <2> QED
      BY <1>3, <2>1, <2>5
  <1>4. CASE c = "\n"
    <2>1. PICK t : t = putc(s, "\n")
      OBVIOUS
    <2>2. Shows(t) /\ (t = console_clearScreen \/ (t.x = 0 /\ t.y = s.y + 1 /\ Leaves(s, t, Background)))
      BY <1>1, <2>1, NewlineIs
    <2>3. CASE t = console_clearScreen
      BY <1>4, <2>1, <2>3, ClearIsClean
    <2>4. CASE t.x = 0 /\ t.y = s.y + 1 /\ Leaves(s, t, Background)
      <3>1. <<s.x, s.y>> \in Cells /\ <<t.x, t.y>> \in Cells /\ s.y \in Int /\ t.y \in Int
        BY <1>1, <2>2 DEF Shows, OnScreen, Screens
      <3>2. Here(t) > Here(s) /\ Here(t) \in Nat /\ Here(s) \in Nat
        BY <2>4, <3>1, PlacesAre DEF Here
      <3>3. ASSUME NEW d \in Cells, Place(d) > Here(t) PROVE t.cell[d] = Background
        <4>1. Place(d) \in Nat
          BY PlacesAre
        <4>2. Place(d) > Here(s) /\ d # <<t.x, t.y>>
          BY <3>2, <3>3, <4>1 DEF Here
        <4> QED
          BY <1>1, <2>4, <4>2 DEF Leaves
      <3> QED
        BY <1>4, <2>1, <2>2, <3>3 DEF Clean
    <2> QED
      BY <2>2, <2>3, <2>4
  <1>5. CASE c = "BS"
    <2>1. PICK t : t = putc(s, "BS")
      OBVIOUS
    <2>2. Shows(t) /\ Leaves(s, t, Background) /\ Here(t) = IF Here(s) = 0 THEN 0 ELSE Here(s) - 1
      BY <1>1, <2>1, BackIs
    <2>3. Here(s) \in Nat /\ <<s.x, s.y>> \in Cells
      BY <1>1, HereIs DEF OnScreen
    <2>4. ASSUME NEW d \in Cells, Place(d) > Here(t) PROVE t.cell[d] = Background
      <3>1. Place(d) \in Nat
        BY PlacesAre
      <3>2. Place(d) > Here(s) \/ Place(d) = Here(s)
        BY <2>2, <2>3, <2>4, <3>1
      <3>3. d # <<t.x, t.y>>
        BY <2>2, <2>3, <2>4, <3>1 DEF Here
      <3>4. CASE Place(d) = Here(s)
        <4>1. d = <<s.x, s.y>>
          BY <2>3, <3>4, PlacesAre DEF Here
        <4> QED
          BY <2>2, <3>3, <4>1 DEF Leaves
      <3> QED
        BY <1>1, <2>2, <3>2, <3>3, <3>4 DEF Leaves
    <2> QED
      BY <1>5, <2>1, <2>2, <2>4 DEF Clean
  <1> QED
    BY <1>2, <1>3, <1>4, <1>5 DEF Special

LEMMA CleanIsBelow == ASSUME NEW s, Clean(s) PROVE NothingBelow(s)
  <1>1. OnScreen(s) /\ <<s.x, s.y>> \in Cells /\ s.y \in Int
    BY DEF Clean, Shows, OnScreen, Screens
  <1>2. ASSUME NEW d \in Cells, d[2] > s.y PROVE Place(d) > Here(s)
    <2>1. d[2] \in Int /\ Place(d) \in Nat /\ Place(<<s.x, s.y>>) \in Nat
      BY <1>1, CellsAre, PlacesAre
    <2>2. s.y < d[2]
      BY <1>1, <1>2, <2>1
    <2>3. Place(<<s.x, s.y>>) < Place(d)
      BY <1>1, <2>2, PlacesAre
    <2> QED
      BY <2>1, <2>3 DEF Here
  <1> QED
    BY <1>1, <1>2 DEF Clean, NothingBelow

LEMMA GlyphBelow ==
    ASSUME NEW s, NothingBelow(s), NEW c \in Chars
    PROVE  NothingBelow(PutGlyph(s, c))
  <1>1. PICK t : t = PutGlyph(s, c)
    OBVIOUS
  <1>2. OnScreen(s)
    BY DEF NothingBelow
  <1>3. Shows(t) /\ (t = console_clearScreen \/ (t.y >= s.y /\ Leaves(s, t, c)))
    BY <1>1, <1>2, GlyphIs
  <1>4. CASE t = console_clearScreen
    BY <1>1, <1>4, ClearIsClean, CleanIsBelow
  <1>5. CASE t.y >= s.y /\ Leaves(s, t, c)
    <2>1. ASSUME NEW d \in Cells, d[2] > t.y PROVE t.cell[d] = Background
      <3>1. d[2] \in Int /\ s.y \in Int /\ t.y \in Int
        BY <1>2, <1>3, CellsAre DEF Shows, OnScreen, Screens
      <3>2. d[2] > s.y /\ d # <<s.x, s.y>> /\ d # <<t.x, t.y>>
        BY <1>5, <2>1, <3>1
      <3> QED
        BY <1>5, <3>2 DEF Leaves, NothingBelow
    <2> QED
      BY <1>1, <1>3, <2>1 DEF NothingBelow, Shows
  <1> QED
    BY <1>3, <1>4, <1>5

LEMMA PutcBelow ==
    ASSUME NEW s, NothingBelow(s), NEW c \in Chars, c # "BS"
    PROVE  NothingBelow(putc(s, c)) /\ (c = "\n" => Clean(putc(s, c)))
  <1>1. OnScreen(s) /\ s.y \in Int /\ <<s.x, s.y>> \in Cells
    BY DEF NothingBelow, OnScreen, Screens
  <1>2. CASE c \notin Special
    BY <1>2, PutcKinds, GlyphBelow DEF Special
  <1>3. CASE c = "\t"
    <2>1. PICK a, b, d : /\ a = PutGlyph(s, Background) /\ b = PutGlyph(a, Background)
                         /\ d = PutGlyph(b, Background) /\ putc(s, "\t") = PutGlyph(d, Background)
      BY <1>1, TabSteps
    <2>2. NothingBelow(a)
      BY <2>1, GlyphBelow, Glyphs
    <2>3. NothingBelow(b)
      BY <2>1, <2>2, GlyphBelow, Glyphs
    <2>4. NothingBelow(d)
      BY <2>1, <2>3, GlyphBelow, Glyphs
    <2>5. NothingBelow(PutGlyph(d, Background))
      BY <2>4, GlyphBelow, Glyphs
    <2> QED
      BY <1>3, <2>1, <2>5
  <1>4. CASE c = "\n"
    <2>1. PICK t : t = putc(s, "\n")
      OBVIOUS
    <2>2. Shows(t) /\ (t = console_clearScreen \/ (t.x = 0 /\ t.y = s.y + 1 /\ Leaves(s, t, Background)))
      BY <1>1, <2>1, NewlineIs
    <2>3. CASE t = console_clearScreen
      BY <1>4, <2>1, <2>3, ClearIsClean, CleanIsBelow
    <2>4. CASE t.x = 0 /\ t.y = s.y + 1 /\ Leaves(s, t, Background)
      <3>1. OnScreen(t) /\ <<t.x, t.y>> \in Cells /\ t.y \in Int
        BY <2>2 DEF Shows, OnScreen, Screens
      <3>2. ASSUME NEW d \in Cells, Place(d) > Here(t) PROVE t.cell[d] = Background
        <4>1. d[1] \in Nat /\ d[2] \in Nat /\ d = <<d[1], d[2]>> /\ Place(d) \in Nat /\ Here(t) \in Nat
          BY <3>1, CellsAre, PlacesAre, HereIs
        <4>2. d # <<t.x, t.y>>
          BY <3>2, <4>1 DEF Here
        <4>3. ~(d[2] < t.y)
          <5> SUFFICES ASSUME d[2] < t.y PROVE FALSE
            OBVIOUS
          <5>1. Place(d) < Place(<<t.x, t.y>>)
            BY <3>1, PlacesAre
          <5> QED
            BY <3>2, <4>1, <5>1 DEF Here
        <4>4. d[2] > s.y /\ d # <<s.x, s.y>>
          BY <1>1, <2>4, <3>1, <4>1, <4>3
        <4> QED
          BY <2>4, <4>2, <4>4 DEF Leaves, NothingBelow
      <3>3. Clean(t)
        BY <2>2, <3>2 DEF Clean
      <3> QED
        BY <1>4, <2>1, <3>3, CleanIsBelow
    <2> QED
      BY <2>2, <2>3, <2>4
  <1>5. CASE c = "\r"
    <2>1. PICK t : t = putc(s, "\r")
      OBVIOUS
    <2>2. Shows(t) /\ t.y = s.y /\ \A d \in Cells : d # <<t.x, t.y>> => t.cell[d] = s.cell[d]
      BY <1>1, <2>1, ReturnIs
    <2>3. ASSUME NEW d \in Cells, d[2] > t.y PROVE t.cell[d] = Background
      <3>1. d[2] \in Int /\ d # <<t.x, t.y>>
        BY <1>1, <2>2, <2>3, CellsAre
      <3> QED
        BY <2>2, <2>3, <3>1 DEF NothingBelow
    <2> QED
      BY <1>5, <2>1, <2>2, <2>3 DEF NothingBelow, Shows
  <1> QED
    BY <1>2, <1>3, <1>4, <1>5 DEF Special

LEMMA GlyphText ==
    ASSUME NEW s, OnScreen(s), NEW text \in Seq(Chars), EndsWith(s, text), NEW c \in Chars
    PROVE  EndsWith(PutGlyph(s, c), Append(text, c))
  <1>1. PICK t : t = PutGlyph(s, c)
    OBVIOUS
  <1>2. PICK longer : longer = Append(text, c)
    OBVIOUS
  <1>3. /\ Len(text) \in Nat /\ Len(longer) = Len(text) + 1 /\ longer[Len(text) + 1] = c
        /\ \A i \in 1 .. Len(text) : longer[i] = text[i]
    BY <1>2
  <1>4. OnScreen(t) /\ (t = console_clearScreen \/ (Here(t) = Here(s) + 1 /\ Leaves(s, t, c)))
    BY <1>1, GlyphIs DEF Shows
  <1>5. Here(s) \in Nat /\ Here(t) \in Nat
    BY <1>4, HereIs
  <1>6. ASSUME NEW d \in Cells, NEW j \in 1 .. Len(longer), Place(d) = Here(t) - j
        PROVE  t.cell[d] = longer[Len(longer) + 1 - j]
    <2>1. Place(d) \in Nat /\ j \in Nat /\ j > 0 /\ j <= Len(text) + 1
      BY <1>3, PlacesAre
    <2>2. CASE t = console_clearScreen
      <3>1. Here(t) = 0
        BY <2>2, ClearIs
      <3> QED
        BY <1>6, <2>1, <3>1
    <2>3. CASE Here(t) = Here(s) + 1 /\ Leaves(s, t, c)
      <3>1. d # <<t.x, t.y>>
        BY <1>5, <1>6, <2>1 DEF Here
      <3>2. t.cell[d] = IF d = <<s.x, s.y>> THEN c ELSE s.cell[d]
        BY <2>3, <3>1 DEF Leaves
      <3>3. CASE j = 1
        <4>1. Place(d) = Here(s)
          BY <1>5, <1>6, <2>3, <3>3
        <4>2. d = <<s.x, s.y>>
          BY <4>1, PlacesAre DEF Here, OnScreen
        <4>3. Len(longer) + 1 - j = Len(text) + 1
          BY <1>3, <3>3
        <4> QED
          BY <1>3, <3>2, <4>2, <4>3
      <3>4. CASE j # 1
        <4>1. PICK k : k = j - 1
          OBVIOUS
        <4>2. k \in 1 .. Len(text) /\ Place(d) = Here(s) - k
          BY <1>3, <1>5, <1>6, <2>1, <2>3, <3>4, <4>1
        <4>3. d # <<s.x, s.y>>
          <5>1. k \in Nat /\ k > 0
            BY <1>3, <4>2
          <5> QED
            BY <1>5, <2>1, <4>2, <5>1 DEF Here
        <4>4. s.cell[d] = text[Len(text) + 1 - k]
          BY <4>2 DEF EndsWith
        <4>5. Len(text) + 1 - k \in 1 .. Len(text) /\ Len(longer) + 1 - j = Len(text) + 1 - k
          BY <1>3, <2>1, <4>1, <4>2
        <4> QED
          BY <1>3, <3>2, <4>3, <4>4, <4>5
      <3> QED
        BY <3>3, <3>4
    <2> QED
      BY <1>4, <2>2, <2>3
  <1> QED
    BY <1>1, <1>2, <1>6 DEF EndsWith

LEMMA AppendIs ==
    ASSUME NEW S, NEW s \in Seq(S), NEW c \in S
    PROVE  LET t == Append(s, c)
           IN  /\ t \in Seq(S) /\ Len(t) = Len(s) + 1 /\ t[Len(s) + 1] = c
               /\ \A i \in 1 .. Len(s) : t[i] = s[i]
  OBVIOUS
LEMMA PairIs ==
    ASSUME NEW S, NEW a \in S, NEW b \in S
    PROVE  Append(<<a>>, b) = <<a, b>>
  <1>1. PICK one, pair : one = <<a>> /\ pair = <<a, b>>
    OBVIOUS
  <1>2. one \in Seq(S) /\ Len(one) = 1 /\ one[1] = a
    BY <1>1
  <1>3. pair \in Seq(S) /\ Len(pair) = 2 /\ pair[1] = a /\ pair[2] = b
    BY <1>1
  <1>4. PICK two : two = Append(one, b)
    OBVIOUS
  <1>5. /\ two \in Seq(S) /\ Len(two) = Len(one) + 1 /\ two[Len(one) + 1] = b
        /\ \A i \in 1 .. Len(one) : two[i] = one[i]
    BY <1>2, <1>4, AppendIs
  <1>6. Len(two) = 2 /\ \A i \in 1 .. 2 : two[i] = pair[i]
    BY <1>2, <1>3, <1>5
  <1> QED
    BY <1>1, <1>3, <1>4, <1>5, <1>6, SeqEqual

LEMMA TabText ==
    ASSUME NEW s, OnScreen(s), NEW text \in Seq(Chars), EndsWith(s, text)
    PROVE  EndsWith(putc(s, "\t"), text \o <<" ", " ", " ", " ">>)
  <1>1. PICK a, b, c : /\ a = PutGlyph(s, Background) /\ b = PutGlyph(a, Background)
                       /\ c = PutGlyph(b, Background) /\ putc(s, "\t") = PutGlyph(c, Background)
                       /\ OnScreen(a) /\ OnScreen(b) /\ OnScreen(c)
    BY TabSteps
  <1>2. PICK t1 : t1 = Append(text, Background)
    OBVIOUS
  <1>3. PICK t2 : t2 = Append(t1, Background)
    OBVIOUS
  <1>4. PICK t3 : t3 = Append(t2, Background)
    OBVIOUS
  <1>5. t1 \in Seq(Chars) /\ EndsWith(a, t1)
    BY <1>1, <1>2, GlyphText, Glyphs
  <1>6. t2 \in Seq(Chars) /\ EndsWith(b, t2)
    BY <1>1, <1>3, <1>5, GlyphText, Glyphs
  <1>7. t3 \in Seq(Chars) /\ EndsWith(c, t3)
    BY <1>1, <1>4, <1>6, GlyphText, Glyphs
  <1>8. EndsWith(putc(s, "\t"), Append(t3, Background))
    BY <1>1, <1>7, GlyphText, Glyphs
  <1>9. Append(t3, Background) = text \o <<Background, Background, Background, Background>>
    <2>1. /\ Len(t1) = Len(text) + 1 /\ \A i \in 1 .. Len(text) : t1[i] = text[i]
          /\ t1[Len(text) + 1] = Background /\ Len(text) \in Nat
      BY <1>2
    <2>2. /\ Len(t2) = Len(text) + 2 /\ \A i \in 1 .. Len(text) + 1 : t2[i] = t1[i]
          /\ t2[Len(text) + 2] = Background
      BY <1>3, <1>5, <2>1
    <2>3. /\ Len(t3) = Len(text) + 3 /\ \A i \in 1 .. Len(text) + 2 : t3[i] = t2[i]
          /\ t3[Len(text) + 3] = Background
      BY <1>4, <1>6, <2>1, <2>2
    <2>4. PICK t4 : t4 = Append(t3, Background)
      OBVIOUS
    <2>5. /\ t4 \in Seq(Chars)
          /\ Len(t4) = Len(text) + 4 /\ \A i \in 1 .. Len(text) + 3 : t4[i] = t3[i]
          /\ t4[Len(text) + 4] = Background
      BY <1>7, <2>1, <2>3, <2>4, Glyphs
    <2>6. PICK u : u = text \o <<Background, Background, Background, Background>>
      OBVIOUS
    <2>7. /\ u \in Seq(Chars) /\ Len(u) = Len(text) + 4 /\ \A i \in 1 .. Len(text) : u[i] = text[i]
          /\ u[Len(text) + 1] = Background /\ u[Len(text) + 2] = Background
          /\ u[Len(text) + 3] = Background /\ u[Len(text) + 4] = Background
      BY <2>6, Glyphs
    <2>8. \A i \in 1 .. Len(text) + 4 : t4[i] = u[i]
      <3> SUFFICES ASSUME NEW i \in 1 .. Len(text) + 4 PROVE t4[i] = u[i]
        OBVIOUS
      <3>1. CASE i <= Len(text)
        BY <2>1, <2>2, <2>3, <2>5, <2>7, <3>1
      <3>2. CASE i = Len(text) + 1
        BY <2>1, <2>2, <2>3, <2>5, <2>7, <3>2
      <3>3. CASE i = Len(text) + 2
        BY <2>1, <2>2, <2>3, <2>5, <2>7, <3>3
      <3>4. CASE i = Len(text) + 3
        BY <2>1, <2>2, <2>3, <2>5, <2>7, <3>4
      <3>5. CASE i = Len(text) + 4
        BY <2>1, <2>2, <2>3, <2>5, <2>7, <3>5
      <3> QED
        BY <2>1, <3>1, <3>2, <3>3, <3>4, <3>5
    <2>9. t4 = u
      BY ONLY <2>1, <2>5, <2>7, <2>8, SeqEqual
    <2> QED
      BY <2>4, <2>6, <2>9
  <1> QED
    BY <1>8, <1>9 DEF Background

LEMMA BackText ==
    ASSUME NEW s, OnScreen(s), NEW text \in Seq(Chars), text # <<>>, EndsWith(s, text)
    PROVE  EndsWith(putc(s, "BS"), SubSeq(text, 1, Len(text) - 1))
  <1>1. PICK t : t = putc(s, "BS")
    OBVIOUS
  <1>2. PICK front : front = SubSeq(text, 1, Len(text) - 1)
    OBVIOUS
  <1>3. Len(text) \in Nat /\ Len(text) > 0
    OBVIOUS
  <1>4. Len(front) = Len(text) - 1 /\ \A i \in 1 .. Len(text) - 1 : front[i] = text[i]
    <2>1. \A i \in 1 .. Len(text) - 1 : text[i] \in Chars
      OBVIOUS
    <2>2. PICK m : m = Len(text) - 1 /\ m \in Int /\ m >= 0
      BY <1>3
    <2>3. /\ Len(SubSeq(text, 1, m)) = IF 1 <= m THEN m - 1 + 1 ELSE 0
          /\ \A i \in 1 .. m - 1 + 1 : SubSeq(text, 1, m)[i] = text[1 + i - 1]
      BY <2>1, <2>2, SubSeqProperties
    <2> QED
      BY <1>2, <2>2, <2>3
  <1>5. Shows(t) /\ Leaves(s, t, Background) /\ Here(t) = IF Here(s) = 0 THEN 0 ELSE Here(s) - 1
    BY <1>1, BackIs
  <1>6. Here(s) \in Nat
    BY HereIs
  <1>7. ASSUME NEW d \in Cells, NEW j \in 1 .. Len(front), Place(d) = Here(t) - j
        PROVE  t.cell[d] = front[Len(front) + 1 - j]
    <2>1. Place(d) \in Nat /\ j \in Nat /\ j > 0 /\ j + 1 \in 1 .. Len(text)
      BY <1>3, <1>4, PlacesAre
    <2>2. Here(t) = Here(s) - 1 /\ Place(d) = Here(s) - (j + 1)
      BY <1>5, <1>6, <1>7, <2>1
    <2>3. d # <<s.x, s.y>> /\ d # <<t.x, t.y>>
      <3>1. Place(d) # Here(s) /\ Place(d) # Here(t)
        BY <1>6, <2>1, <2>2
      <3> QED
        BY <3>1 DEF Here
    <2>4. s.cell[d] = text[Len(text) + 1 - (j + 1)]
      BY <2>1, <2>2 DEF EndsWith
    <2>5. Len(text) + 1 - (j + 1) = Len(front) + 1 - j /\ Len(front) + 1 - j \in 1 .. Len(text) - 1
      <3>1. PICK m, k : m = Len(text) /\ k = Len(front)
        OBVIOUS
      <3>2. m \in Nat /\ k = m - 1 /\ j \in 1 .. k
        BY <1>3, <1>4, <3>1
      <3>3. m + 1 - (j + 1) = k + 1 - j /\ k + 1 - j \in 1 .. m - 1
        BY <3>2
      <3> QED
        BY <3>1, <3>3
    <2> QED
      BY <1>4, <1>5, <2>3, <2>4, <2>5 DEF Leaves
  <1> QED
    BY <1>1, <1>2, <1>7 DEF EndsWith

\* The set of screens S holds what each character of the string makes of its members.
ClosedUnder(S, string) == \A u \in S, i \in 1 .. Len(string) : putc(u, string[i]) \in S

\* puts is one putc after the other.
PutEach(f, s, string) ==
    /\ f[0] = s /\ \A k \in 1 .. Len(string) : f[k] = putc(f[k - 1], string[k])
    /\ puts(s, string) = f[Len(string)]

LEMMA PutsIs ==
    ASSUME NEW S, NEW s \in S, NEW string \in Seq(Chars), ClosedUnder(S, string)
    PROVE  \E f \in [0 .. Len(string) -> S] : PutEach(f, s, string)
  <1>0. PICK n : n = Len(string)
    OBVIOUS
  <1> DEFINE F == [k \in 1 .. n |-> [u \in S |-> putc(u, string[k])]]
             Solves(f) == f = [k \in 0 .. n |-> IF k = 0 THEN s ELSE putc(f[k - 1], string[k])]
             after == CHOOSE f : Solves(f)
  <1>1. n \in Nat /\ F \in [1 .. n -> [S -> S]]
    BY <1>0 DEF ClosedUnder
  <1>2. \A k \in 1 .. n, u \in S : F[k][u] = putc(u, string[k])
    OBVIOUS
  <1>3. puts(s, string) = after[n]
    BY <1>0 DEF puts
  <1> HIDE DEF F
  <1>4. PICK g \in [0 .. n -> S] : g[0] = s /\ \A k \in 1 .. n : g[k] = F[k][g[k - 1]]
    <2>1. PICK g \in [0 .. n -> S] : Iterates(g, s, n, F)
      BY <1>1, Recursion
    <2> QED
      BY <2>1 DEF Iterates
  <1>5. \A k \in 1 .. n : g[k] = putc(g[k - 1], string[k])
    <2> SUFFICES ASSUME NEW k \in 1 .. n PROVE g[k] = putc(g[k - 1], string[k])
      OBVIOUS
    <2>1. k - 1 \in 0 .. n
      BY <1>1
    <2> QED
      BY <1>2, <1>4, <2>1
  <1>6. Solves(g)
    <2>1. \A k \in 0 .. n : g[k] = IF k = 0 THEN s ELSE putc(g[k - 1], string[k])
      BY <1>1, <1>4, <1>5
    <2> QED
      BY <1>4, <2>1
  <1>7. Solves(after)
    BY <1>6
  <1> HIDE DEF after
  <1>8. after[0] = s /\ \A k \in 1 .. n : after[k] = putc(after[k - 1], string[k])
    <2>1. \A k \in 0 .. n : after[k] = IF k = 0 THEN s ELSE putc(after[k - 1], string[k])
      BY <1>7
    <2> QED
      BY <1>1, <2>1
  <1> DEFINE Good == {k \in Nat : k <= n => after[k] = g[k]}
  <1>9. 0 \in Good
    BY <1>4, <1>8
  <1>10. ASSUME NEW k \in Nat, k \in Good PROVE k + 1 \in Good
    <2> SUFFICES ASSUME k + 1 <= n PROVE after[k + 1] = g[k + 1]
      OBVIOUS
    <2>1. k + 1 \in 1 .. n /\ (k + 1) - 1 = k /\ after[k] = g[k]
      BY <1>1, <1>10
    <2> QED
      BY <1>5, <1>8, <2>1
  <1> HIDE DEF Good
  <1>11. n \in Good
    BY <1>1, <1>9, <1>10, SetInduction
  <1>12. after[n] = g[n]
    BY <1>1, <1>11 DEF Good
  <1>13. PutEach(g, s, string)
    BY <1>0, <1>3, <1>4, <1>5, <1>12 DEF PutEach
  <1> QED
    BY <1>0, <1>4, <1>13

LEMMA PutsKeeps ==
    ASSUME NEW S, NEW s \in S, NEW string \in Seq(Chars), ClosedUnder(S, string)
    PROVE  puts(s, string) \in S
  <1>1. PICK f \in [0 .. Len(string) -> S] : PutEach(f, s, string)
    BY PutsIs
  <1> QED
    BY <1>1 DEF PutEach

LEMMA PutsShows ==
    ASSUME NEW s, Shows(s), NEW string \in Seq(Chars)
    PROVE  Shows(puts(s, string))
  <1> DEFINE S == {u \in Screens : Shows(u)}
  <1>1. s \in S
    BY DEF Shows, OnScreen
  <1>2. ClosedUnder(S, string)
    <2> SUFFICES ASSUME NEW u \in S, NEW i \in 1 .. Len(string) PROVE putc(u, string[i]) \in S
      BY DEF ClosedUnder
    <2>1. OnScreen(u) /\ string[i] \in Chars
      BY DEF Shows
    <2>2. Shows(putc(u, string[i]))
      BY <2>1, PutcShows
    <2> QED
      BY <2>2 DEF Shows, OnScreen
  <1> HIDE DEF S
  <1>3. puts(s, string) \in S
    BY <1>1, <1>2, PutsKeeps
  <1> QED
    BY <1>3 DEF S

LEMMA PutsClean ==
    ASSUME NEW s, Clean(s), NEW string \in Seq(Chars), \A i \in DOMAIN string : string[i] # "\r"
    PROVE  Clean(puts(s, string))
  <1> DEFINE S == {u \in Screens : Clean(u)}
  <1>1. s \in S
    BY DEF Clean, Shows, OnScreen
  <1>2. ClosedUnder(S, string)
    <2> SUFFICES ASSUME NEW u \in S, NEW i \in 1 .. Len(string) PROVE putc(u, string[i]) \in S
      BY DEF ClosedUnder
    <2>1. string[i] \in Chars /\ string[i] # "\r"
      OBVIOUS
    <2>2. Clean(putc(u, string[i]))
      BY <2>1, PutcClean
    <2> QED
      BY <2>2 DEF Clean, Shows, OnScreen
  <1> HIDE DEF S
  <1>3. puts(s, string) \in S
    BY <1>1, <1>2, PutsKeeps
  <1> QED
    BY <1>3 DEF S

\* The last character is put where the others left the cursor.
LEMMA PutsLast ==
    ASSUME NEW S, NEW s \in S, NEW string \in Seq(Chars), Len(string) > 0, ClosedUnder(S, string)
    PROVE  \E u \in S : puts(s, string) = putc(u, string[Len(string)])
  <1>0. PICK n : n = Len(string)
    OBVIOUS
  <1>1. PICK f \in [0 .. n -> S] : PutEach(f, s, string)
    BY <1>0, PutsIs
  <1>2. n \in 1 .. n /\ n - 1 \in 0 .. n
    BY <1>0
  <1> QED
    BY <1>0, <1>1, <1>2 DEF PutEach

LEMMA PutsEndsLines ==
    ASSUME NEW s, Clean(s), NEW string \in Seq(Chars), EndsItsLines(string)
    PROVE  Clean(puts(s, string))
  <1>1. CASE \A i \in DOMAIN string : string[i] # "\r"
    BY <1>1, PutsClean
  <1>2. CASE DOMAIN string # {} /\ string[Len(string)] = "\n" /\ \A i \in DOMAIN string : string[i] # "BS"
    <2> DEFINE S == {u \in Screens : NothingBelow(u)}
    <2>1. s \in S
      BY CleanIsBelow DEF NothingBelow, OnScreen
    <2>2. ClosedUnder(S, string)
      <3> SUFFICES ASSUME NEW u \in S, NEW i \in 1 .. Len(string) PROVE putc(u, string[i]) \in S
        BY DEF ClosedUnder
      <3>1. string[i] \in Chars /\ string[i] # "BS"
        BY <1>2
      <3>2. NothingBelow(putc(u, string[i]))
        BY <3>1, PutcBelow
      <3> QED
        BY <3>2 DEF NothingBelow, OnScreen
    <2>3. Len(string) > 0
      BY <1>2
    <2>4. \A u \in S : NothingBelow(u)
      OBVIOUS
    <2> HIDE DEF S
    <2>5. PICK u \in S : puts(s, string) = putc(u, "\n")
      BY <1>2, <2>1, <2>2, <2>3, PutsLast
    <2>6. "\n" \in Chars /\ "\n" # "BS"
      BY DEF Chars
    <2> QED
      BY <2>4, <2>5, <2>6, PutcBelow
  <1> QED
    BY <1>1, <1>2 DEF EndsItsLines

Visible == {u \in Screens : OnScreen(u)}

LEMMA OnScreenClosed ==
    ASSUME NEW string \in Seq(Chars)
    PROVE  ClosedUnder(Visible, string)
  <1> SUFFICES ASSUME NEW u \in Screens, OnScreen(u), NEW i \in 1 .. Len(string)
               PROVE  putc(u, string[i]) \in Screens /\ OnScreen(putc(u, string[i]))
    BY DEF ClosedUnder, Visible
  <1>1. Shows(putc(u, string[i]))
    BY PutcShows
  <1> QED
    BY <1>1 DEF Shows, OnScreen

LEMMA PutsOne ==
    ASSUME NEW s, OnScreen(s), NEW c \in Chars
    PROVE  puts(s, <<c>>) = putc(s, c)
  <1> DEFINE string == <<c>>
  <1>1. string \in Seq(Chars) /\ string = <<c>> /\ Len(string) = 1 /\ string[1] = c
    OBVIOUS
  <1> HIDE DEF string
  <1>2. s \in Visible
    BY DEF OnScreen, Visible
  <1>3. ClosedUnder(Visible, string)
    BY <1>1, OnScreenClosed
  <1>4. PICK f \in [0 .. Len(string) -> Visible] : PutEach(f, s, string)
    BY <1>1, <1>2, <1>3, PutsIs
  <1>5. 1 \in 1 .. Len(string) /\ 1 - 1 = 0
    BY <1>1
  <1> QED
    BY <1>1, <1>4, <1>5 DEF PutEach

LEMMA PutsTwo ==
    ASSUME NEW s, OnScreen(s), NEW a \in Chars, NEW b \in Chars
    PROVE  puts(s, <<a, b>>) = putc(putc(s, a), b)
  <1> DEFINE string == <<a, b>>
  <1>1. string \in Seq(Chars) /\ string = <<a, b>> /\ Len(string) = 2 /\ string[1] = a /\ string[2] = b
    OBVIOUS
  <1> HIDE DEF string
  <1>2. s \in Visible
    BY DEF OnScreen, Visible
  <1>3. ClosedUnder(Visible, string)
    BY <1>1, OnScreenClosed
  <1>4. PICK f \in [0 .. Len(string) -> Visible] : PutEach(f, s, string)
    BY <1>1, <1>2, <1>3, PutsIs
  <1>5. 1 \in 1 .. Len(string) /\ 2 \in 1 .. Len(string) /\ 1 - 1 = 0 /\ 2 - 1 = 1
    BY <1>1
  <1> QED
    BY <1>1, <1>4, <1>5 DEF PutEach

LEMMA TwoGlyphsText ==
    ASSUME NEW s, OnScreen(s), NEW a \in Chars \ Special, NEW b \in Chars \ Special
    PROVE  EndsWith(puts(s, <<a, b>>), <<a, b>>)
  <1> DEFINE none == <<>>
             one == Append(none, a)
             two == Append(one, b)
  <1>1. /\ none \in Seq(Chars) /\ none = <<>> /\ one \in Seq(Chars) /\ one = Append(none, a)
        /\ two = Append(one, b) /\ two = <<a, b>>
    <2>1. none \in Seq(Chars) /\ one \in Seq(Chars) /\ one = <<a>>
      OBVIOUS
    <2>2. Append(<<a>>, b) = <<a, b>>
      BY PairIs
    <2> QED
      BY <2>1, <2>2
  <1> HIDE DEF none, one, two
  <1>2. EndsWith(s, none)
    BY <1>1 DEF EndsWith
  <1>3. EndsWith(PutGlyph(s, a), one)
    BY <1>1, <1>2, GlyphText
  <1>4. OnScreen(PutGlyph(s, a))
    BY GlyphIs DEF Shows
  <1>5. EndsWith(PutGlyph(PutGlyph(s, a), b), two)
    BY <1>1, <1>3, <1>4, GlyphText
  <1>6. putc(s, a) = PutGlyph(s, a) /\ putc(PutGlyph(s, a), b) = PutGlyph(PutGlyph(s, a), b)
    BY PutcKinds
  <1>7. puts(s, <<a, b>>) = putc(putc(s, a), b)
    BY PutsTwo
  <1> QED
    BY <1>1, <1>5, <1>6, <1>7

LEMMA PutsPrompt ==
    ASSUME NEW s, OnScreen(s)
    PROVE  EndsWith(puts(s, Prompt), Prompt)
  <1>1. "$" \in Chars \ Special /\ " " \in Chars \ Special
    BY DEF Chars, Special, Background
  <1> QED
    BY <1>1, TwoGlyphsText DEF Prompt

-----------------------------------------------------------------------------
(* What printf prints. *)

\* What a line may have: no return to its start.
LineChars == Chars \ {"\r"}

StepsStay(V, fmt) == \A p \in V, i \in 1 .. Len(fmt) : Step(p, fmt[i]) \in V

\* printf is one step after the other.
PrintEach(f, fmt, args) ==
    /\ f[0] = Start(args) /\ \A k \in 1 .. Len(fmt) : f[k] = Step(f[k - 1], fmt[k])
    /\ printf(fmt, args) = f[Len(fmt)].out

LEMMA PrintfIs ==
    ASSUME NEW V, NEW args, Start(args) \in V, NEW fmt, Len(fmt) \in Nat, StepsStay(V, fmt)
    PROVE  \E f \in [0 .. Len(fmt) -> V] : PrintEach(f, fmt, args)
  <1>0. PICK n, s : n = Len(fmt) /\ s = Start(args)
    OBVIOUS
  <1> DEFINE F == [k \in 1 .. n |-> [u \in V |-> Step(u, fmt[k])]]
             Solves(f) == f = [k \in 0 .. n |-> IF k = 0 THEN s ELSE Step(f[k - 1], fmt[k])]
             after == CHOOSE f : Solves(f)
  <1>1. n \in Nat /\ s \in V /\ F \in [1 .. n -> [V -> V]]
    BY <1>0 DEF StepsStay
  <1>2. \A k \in 1 .. n, u \in V : F[k][u] = Step(u, fmt[k])
    OBVIOUS
  <1>3. printf(fmt, args) = after[n].out
    BY <1>0 DEF printf
  <1> HIDE DEF F
  <1>4. PICK g \in [0 .. n -> V] : g[0] = s /\ \A k \in 1 .. n : g[k] = F[k][g[k - 1]]
    <2>1. PICK g \in [0 .. n -> V] : Iterates(g, s, n, F)
      BY <1>1, Recursion
    <2> QED
      BY <2>1 DEF Iterates
  <1>5. \A k \in 1 .. n : g[k] = Step(g[k - 1], fmt[k])
    <2> SUFFICES ASSUME NEW k \in 1 .. n PROVE g[k] = Step(g[k - 1], fmt[k])
      OBVIOUS
    <2>1. k - 1 \in 0 .. n
      BY <1>1
    <2> QED
      BY <1>2, <1>4, <2>1
  <1>6. Solves(g)
    <2>1. \A k \in 0 .. n : g[k] = IF k = 0 THEN s ELSE Step(g[k - 1], fmt[k])
      BY <1>1, <1>4, <1>5
    <2> QED
      BY <1>4, <2>1
  <1>7. Solves(after)
    BY <1>6
  <1> HIDE DEF after
  <1>8. after[0] = s /\ \A k \in 1 .. n : after[k] = Step(after[k - 1], fmt[k])
    <2>1. \A k \in 0 .. n : after[k] = IF k = 0 THEN s ELSE Step(after[k - 1], fmt[k])
      BY <1>7
    <2> QED
      BY <1>1, <2>1
  <1> DEFINE Good == {k \in Nat : k <= n => after[k] = g[k]}
  <1>9. 0 \in Good
    BY <1>4, <1>8
  <1>10. ASSUME NEW k \in Nat, k \in Good PROVE k + 1 \in Good
    <2> SUFFICES ASSUME k + 1 <= n PROVE after[k + 1] = g[k + 1]
      OBVIOUS
    <2>1. k + 1 \in 1 .. n /\ (k + 1) - 1 = k /\ after[k] = g[k]
      BY <1>1, <1>10
    <2> QED
      BY <1>5, <1>8, <2>1
  <1> HIDE DEF Good
  <1>11. n \in Good
    BY <1>1, <1>9, <1>10, SetInduction
  <1>12. after[n] = g[n]
    BY <1>1, <1>11 DEF Good
  <1>13. PrintEach(g, fmt, args)
    BY <1>0, <1>3, <1>4, <1>5, <1>12 DEF PrintEach
  <1> QED
    BY <1>0, <1>4, <1>13

LEMMA PrintfOut ==
    ASSUME NEW V, NEW args, Start(args) \in V, NEW fmt, Len(fmt) \in Nat, StepsStay(V, fmt)
    PROVE  \E p \in V : printf(fmt, args) = p.out
  <1>1. PICK f \in [0 .. Len(fmt) -> V] : PrintEach(f, fmt, args)
    BY PrintfIs
  <1> QED
    BY <1>1 DEF PrintEach

\* A format without "%" prints itself.
LEMMA PlainPrints ==
    ASSUME NEW X, NEW fmt \in Seq(X), \A i \in 1 .. Len(fmt) : fmt[i] # "%"
    PROVE  printf(fmt, <<>>) = fmt
  <1> DEFINE V == [state : {"NORMAL"}, length : {"default"}, radix : {10}, sign : {FALSE}, number : {FALSE},
                   args : {<<>>}, out : Seq(X)]
  <1>1. Start(<<>>) \in V
    BY DEF Start
  <1>2. ASSUME NEW p \in V, NEW c \in X, c # "%"
        PROVE  Step(p, c) = [p EXCEPT !.out = p.out \o <<c>>] /\ Step(p, c) \in V
    <2>1. p.state = "NORMAL" /\ p.out \in Seq(X) /\ p.out \o <<c>> \in Seq(X)
      OBVIOUS
    <2>2. Step(p, c) = Emit(p, <<c>>)
      BY <1>2, <2>1 DEF Step
    <2> QED
      BY <2>1, <2>2 DEF Emit
  <1>3. ASSUME NEW p \in V, NEW c \in X, c # "%"
        PROVE  Step(p, c).out = Append(p.out, c)
    <2>1. p.out \in Seq(X) /\ Step(p, c).out = p.out \o <<c>>
      <3>1. Step(p, c) = [p EXCEPT !.out = p.out \o <<c>>]
        BY <1>2, <1>3
      <3> QED
        BY <3>1
    <2>2. p.out \o <<c>> = Append(p.out, c)
      BY <2>1
    <2> QED
      BY <2>1, <2>2
  <1>4. Start(<<>>).out = <<>> /\ \A p \in V : p.out \in Seq(X)
    BY DEF Start
  <1>5. StepsStay(V, fmt)
    <2> SUFFICES ASSUME NEW p \in V, NEW i \in 1 .. Len(fmt) PROVE Step(p, fmt[i]) \in V
      BY DEF StepsStay
    <2>1. fmt[i] \in X /\ fmt[i] # "%"
      OBVIOUS
    <2> HIDE DEF V
    <2> QED
      BY <1>2, <2>1
  <1> HIDE DEF V
  <1>6. PICK f \in [0 .. Len(fmt) -> V] : PrintEach(f, fmt, <<>>)
    BY <1>1, <1>5, PrintfIs
  <1>7. f[0] = Start(<<>>) /\ \A k \in 1 .. Len(fmt) : f[k] = Step(f[k - 1], fmt[k])
    BY <1>6 DEF PrintEach
  <1> DEFINE Good == {k \in Nat : k <= Len(fmt) => Len(f[k].out) = k /\ \A i \in 1 .. k : f[k].out[i] = fmt[i]}
  <1>8. 0 \in Good
    BY <1>4, <1>7
  <1>9. ASSUME NEW k \in Nat, k \in Good PROVE k + 1 \in Good
    <2> SUFFICES ASSUME k + 1 <= Len(fmt)
                 PROVE  Len(f[k + 1].out) = k + 1 /\ \A i \in 1 .. k + 1 : f[k + 1].out[i] = fmt[i]
      OBVIOUS
    <2>1. k + 1 \in 1 .. Len(fmt) /\ (k + 1) - 1 = k /\ k \in 0 .. Len(fmt)
      OBVIOUS
    <2>2. Len(f[k].out) = k /\ \A i \in 1 .. k : f[k].out[i] = fmt[i]
      BY <1>9, <2>1
    <2>3. f[k] \in V /\ f[k].out \in Seq(X) /\ fmt[k + 1] \in X /\ fmt[k + 1] # "%"
      BY <1>4, <2>1
    <2>4. f[k + 1].out = Append(f[k].out, fmt[k + 1])
      <3>1. f[k + 1] = Step(f[k], fmt[k + 1])
        BY <1>7, <2>1
      <3> QED
        BY <1>3, <2>3, <3>1
    <2> QED
      BY <2>2, <2>3, <2>4, AppendIs
  <1> HIDE DEF Good
  <1>10. Len(fmt) \in Good
    BY <1>8, <1>9, SetInduction
  <1>11. PICK out \in Seq(X) : out = printf(fmt, <<>>) /\ out = f[Len(fmt)].out
    BY <1>4, <1>6 DEF PrintEach
  <1>12. Len(out) = Len(fmt) /\ \A i \in 1 .. Len(out) : out[i] = fmt[i]
    BY <1>10, <1>11 DEF Good
  <1> QED
    BY <1>11, <1>12, SeqEqual

LEMMA HeadIs == ASSUME NEW A, NEW s \in Seq(A), s # <<>> PROVE Head(s) \in A
  OBVIOUS

LEMMA OneIs == ASSUME NEW X, NEW c \in X PROVE <<c>> \in Seq(X)
  OBVIOUS

LEMMA ThreeAre ==
    ASSUME NEW a, NEW b, NEW c
    PROVE  LET s == <<a, b, c>> IN Len(s) \in Nat /\ \A i \in 1 .. Len(s) : s[i] \in {a, b, c}
  OBVIOUS

\* The states of printf when its arguments are in A and what it prints in X.
Prints(A, X, Number) ==
    [state : {"NORMAL", "LENGTH", "LENGTH_SHORT", "LENGTH_LONG", "SPEC"},
     length : {"default", "short", "long", "short short", "long long"},
     radix : {8, 10, 16}, sign : {FALSE}, number : Number, args : Seq(A), out : Seq(X)]

LEMMA EmitKeeps ==
    ASSUME NEW A, NEW X, NEW Number, NEW p \in Prints(A, X, Number), NEW text \in Seq(X)
    PROVE  Emit(p, text) \in Prints(A, X, Number) /\ Emit(p, text).args = p.args
  <1>1. p.out \o text \in Seq(X)
    <2>1. p.out \in Seq(X)
      BY DEF Prints
    <2> QED
      BY <2>1
  <1> QED
    BY <1>1 DEF Emit, Prints

LEMMA EmitArgKeeps ==
    ASSUME NEW A, NEW X, NEW Number, NEW p \in Prints(A, X, Number), Junk \in X,
           NEW text, p.args # <<>> => text \in Seq(X)
    PROVE  EmitArg(p, text) \in Prints(A, X, Number)
  <1>1. CASE p.args = <<>>
    <2>1. <<Junk>> \in Seq(X)
      OBVIOUS
    <2>2. EmitArg(p, text) = Emit(p, <<Junk>>)
      BY <1>1 DEF EmitArg
    <2> QED
      BY <2>1, <2>2, EmitKeeps
  <1>2. CASE p.args # <<>>
    <2>1. PICK q \in Prints(A, X, Number) : q = Emit(p, text) /\ q.args = p.args
      BY <1>2, EmitKeeps
    <2>2. EmitArg(p, text) = [q EXCEPT !.args = Tail(q.args)]
      BY <1>2, <2>1 DEF EmitArg
    <2>3. q.args \in Seq(A) /\ q.args # <<>>
      BY <1>2, <2>1 DEF Prints
    <2>4. Tail(q.args) \in Seq(A)
      BY <2>3
    <2> QED
      BY <2>2, <2>4 DEF Prints
  <1> QED
    BY <1>1, <1>2

LEMMA ResetKeeps ==
    ASSUME NEW A, NEW X, NEW Number, NEW p \in Prints(A, X, Number)
    PROVE  Reset(p) \in Prints(A, X, Number)
  BY DEF Reset, Prints

\* Every step but a conversion.
LEMMA StepKeeps ==
    ASSUME NEW A, NEW X, NEW Number, NEW p \in Prints(A, X, Number), NEW c \in X,
           Conversion(p, c) \in Prints(A, X, Number)
    PROVE  Step(p, c) \in Prints(A, X, Number)
  <1>1. CASE p.state = "NORMAL" /\ c # "%"
    <2>1. Step(p, c) = Emit(p, <<c>>)
      BY <1>1 DEF Step
    <2> QED
      BY <2>1, EmitKeeps, OneIs
  <1>2. CASE p.state = "NORMAL" /\ c = "%"
    <2>1. Step(p, c) = [p EXCEPT !.state = "LENGTH"]
      BY <1>2 DEF Step
    <2> QED
      BY <2>1 DEF Prints
  <1>3. CASE p.state # "NORMAL"
    <2>1. Step(p, c) \in {[p EXCEPT !.length = "short", !.state = "LENGTH_SHORT"],
                          [p EXCEPT !.length = "long", !.state = "LENGTH_LONG"],
                          [p EXCEPT !.length = "short short", !.state = "SPEC"],
                          [p EXCEPT !.length = "long long", !.state = "SPEC"], Conversion(p, c)}
      BY <1>3 DEF Step
    <2>2. \A l \in {"short", "long", "short short", "long long"}, m \in {"LENGTH_SHORT", "LENGTH_LONG", "SPEC"} :
             [p EXCEPT !.length = l, !.state = m] \in Prints(A, X, Number)
      BY DEF Prints
    <2> QED
      BY <2>1, <2>2
  <1> QED
    BY <1>1, <1>2, <1>3

LEMMA StartIsPrints ==
    ASSUME NEW A, NEW X, NEW Number, FALSE \in Number, NEW args \in Seq(A)
    PROVE  Start(args) \in Prints(A, X, Number)
  <1>1. <<>> \in Seq(X)
    OBVIOUS
  <1> QED
    BY <1>1 DEF Start, Prints

\* The tables, with what SMT cannot read as variables.
LEMMA TablesOf ==
    ASSUME NEW none, NEW end, NEW space, NEW comma, NEW semicolon, NEW open, NEW close, NEW line,
           none # end, space # end, comma # end, semicolon # end, open # end, close # end, line # end,
           end = "\n"
    PROVE  LET ascii == << none, none, "1", "2", "3", "4", "5", "6", "7", "8", "9", "0", "-", "=", none, none,
                           "q", "w", "e", "r", "t", "y", "u", "i", "o", "p", "[", "]", none, none, "a", "s",
                           "d", "f", "g", "h", "j", "k", "l", semicolon, "'", "backquote", none, "\\", "z", "x",
                           "c", "v", "b", "n", "m", comma, ".", "/", none, "*", none, space >>
               upper == << "A", "B", "C", "D", "E", "F", "G", "H", "I", "J", "K", "L", "M", "N", "O", "P", "Q",
                           "R", "S", "T", "U", "V", "W", "X", "Y", "Z", "!", "@", "#", "$", "%", "^", "&", "*",
                           "(", ")", ":", open, close, "quote", line, "+", "|", "<", ">", "?", "~" >>
           IN  /\ Len(ascii) = 58 /\ ascii[32] = "s" /\ ascii[46] = "x"
               /\ \A i \in 1 .. 58 : ascii[i] # end
               /\ Len(upper) = 47 /\ \A i \in 1 .. 47 : upper[i] # end
  OBVIOUS

LEMMA TablesAre ==
    /\ DOMAIN ASCIITable = 1 .. 58 /\ ASCIITable[32] = "s" /\ ASCIITable[46] = "x"
    /\ \A i \in 1 .. 58 : ASCIITable[i] # "\n"
    /\ DOMAIN Upper = 1 .. 47 /\ \A i \in 1 .. 47 : Upper[i] # "\n"
    /\ DOMAIN g_HexChars = 1 .. 16 /\ \A i \in 1 .. 16 : g_HexChars[i] # "\r"
  <1>1. /\ Len(ASCIITable) = 58 /\ ASCIITable[32] = "s" /\ ASCIITable[46] = "x"
        /\ \A i \in 1 .. 58 : ASCIITable[i] # "\n"
        /\ Len(Upper) = 47 /\ \A i \in 1 .. 47 : Upper[i] # "\n"
    BY TablesOf DEF ASCIITable, Upper, NoKey
  <1>2. DOMAIN ASCIITable = 1 .. Len(ASCIITable)
    BY DEF ASCIITable
  <1>3. DOMAIN Upper = 1 .. Len(Upper)
    BY DEF Upper
  <1>4. DOMAIN g_HexChars = 1 .. 16 /\ \A i \in 1 .. 16 : g_HexChars[i] # "\r"
    BY DEF g_HexChars
  <1> QED
    BY <1>1, <1>2, <1>3, <1>4

LEMMA LineCharsAre ==
    /\ Junk \in LineChars /\ LineChars \subseteq Chars
    /\ {"%", "s", " ", "V", "x", ",", "D", "\n"} \subseteq LineChars
    /\ \A i \in 1 .. 16 : g_HexChars[i] \in LineChars
  <1>1. Junk \in LineChars /\ {"%", " ", "V", ",", "D", "\n"} \subseteq LineChars
    BY DEF LineChars, Chars, Junk, Background
  <1>2. 32 \in 1 .. 58 /\ 46 \in 1 .. 58
    OBVIOUS
  <1>3. {"s", "x"} \subseteq LineChars
    <2>1. "s" \in ToSet(ASCIITable) /\ "x" \in ToSet(ASCIITable)
      BY <1>2, TablesAre DEF ToSet
    <2> QED
      BY <2>1 DEF LineChars, Chars
  <1>4. ASSUME NEW i \in 1 .. 16 PROVE g_HexChars[i] \in LineChars
    <2>1. g_HexChars[i] \in ToSet(g_HexChars) /\ g_HexChars[i] # "\r"
      BY TablesAre DEF ToSet
    <2> QED
      BY <2>1 DEF LineChars, Chars
  <1> QED
    BY <1>1, <1>3, <1>4 DEF LineChars

\* What echo prints of a word.
LEMMA EchoWordIs ==
    ASSUME NEW word \in Seq(LineChars)
    PROVE  EchoWord(word) \in Seq(LineChars)
  <1> DEFINE A == Seq(LineChars)
             V == Prints(A, LineChars, {FALSE})
             fmt == <<"%", "s", " ">>
  <1>1. Start(<<word>>) \in V
    <2>1. <<word>> \in Seq(A)
      OBVIOUS
    <2> QED
      BY <2>1, StartIsPrints
  <1>2. ASSUME NEW p \in V, NEW c \in {"%", "s", " "} PROVE Step(p, c) \in V
    <2>1. p.number = FALSE /\ p.args \in Seq(A)
      BY DEF Prints
    <2>2. Convert(p, c) \in V /\ Convert(p, c).number = FALSE
      <3>1. CASE c = "s"
        <4>1. Convert(p, c) = EmitArg(p, Arg(p))
          BY <3>1 DEF Convert
        <4>2. p.args # <<>> => Arg(p) \in A
          BY <2>1, HeadIs DEF Arg
        <4>3. Convert(p, c) \in V
          BY <4>1, <4>2, EmitArgKeeps, LineCharsAre
        <4> QED
          BY <4>3 DEF Prints
      <3>2. CASE c = "%"
        <4>1. Convert(p, c) = Emit(p, <<"%">>)
          BY <3>2 DEF Convert
        <4>2. <<"%">> \in Seq(LineChars)
          BY LineCharsAre, OneIs
        <4>3. Convert(p, c) \in V
          BY <4>1, <4>2, EmitKeeps
        <4> QED
          BY <4>3 DEF Prints
      <3>3. CASE c = " "
        <4>1. Convert(p, c) = p
          BY <3>3 DEF Convert
        <4> QED
          BY <4>1, <2>1
      <3> QED
        BY <3>1, <3>2, <3>3
    <2>3. Conversion(p, c) \in V
      BY <2>2, ResetKeeps DEF Conversion, EmitNumber
    <2>4. c \in LineChars
      BY LineCharsAre
    <2> QED
      BY <2>3, <2>4, StepKeeps
  <1>3. Len(fmt) \in Nat /\ \A i \in 1 .. Len(fmt) : fmt[i] \in {"%", "s", " "}
    BY ThreeAre
  <1> HIDE DEF fmt
  <1>4. StepsStay(V, fmt)
    BY <1>2, <1>3 DEF StepsStay
  <1>5. PICK p \in V : printf(fmt, <<word>>) = p.out
    BY <1>1, <1>3, <1>4, PrintfOut
  <1>6. p.out \in Seq(LineChars)
    BY <1>5 DEF Prints
  <1> QED
    BY <1>5, <1>6 DEF EchoWord, fmt

-----------------------------------------------------------------------------
(* Numbers. *)

LEMMA DivisionIs ==
    ASSUME NEW n \in Nat, NEW radix \in Nat, radix > 1
    PROVE  /\ n % radix \in 0 .. radix - 1 /\ n \div radix \in Nat
           /\ n >= radix => n \div radix < n
  <1>1. n % radix \in 0 .. radix - 1
    OBVIOUS
  <1>2. n \div radix \in Nat
    OBVIOUS
  <1>3. n >= radix => n \div radix < n
    OBVIOUS
  <1> QED
    BY <1>1, <1>2, <1>3

\* The loop of printf_unsigned ends, and finds digits.
LEMMA RemaindersAre ==
    ASSUME NEW number \in Nat, NEW radix \in Nat, radix > 1
    PROVE  Remainders(number, radix) \in Seq(0 .. radix - 1) \ {<<>>}
  <1> DEFINE Digit == 0 .. radix - 1
             V == Seq(Digit) \ {<<>>}
             Of(g, n) == IF n < radix THEN <<n>> ELSE <<n % radix>> \o g[n \div radix]
             F == [g \in [Nat -> V] |-> [n \in Nat |-> Of(g, n)]]
             size == [n \in Nat |-> n]
             Solves(f) == f = [n \in Nat |-> Of(f, n)]
             f == CHOOSE f : Solves(f)
  <1>1. ASSUME NEW g, NEW n \in Nat, n >= radix => g[n \div radix] \in V
        PROVE  Of(g, n) \in V
    <2>1. CASE n < radix
      <3>1. n \in Digit
        BY <2>1
      <3>2. <<n>> \in Seq(Digit) /\ <<n>> # <<>>
        BY <3>1
      <3> QED
        BY <2>1, <3>2
    <2>2. CASE n >= radix
      <3>1. n % radix \in Digit
        BY DivisionIs
      <3>2. <<n % radix>> \in Seq(Digit) /\ Len(<<n % radix>>) = 1
        BY <3>1
      <3>3. g[n \div radix] \in Seq(Digit) /\ Len(g[n \div radix]) \in Nat
        BY <1>1, <2>2
      <3> HIDE DEF Digit
      <3>4. /\ <<n % radix>> \o g[n \div radix] \in Seq(Digit)
            /\ Len(<<n % radix>> \o g[n \div radix]) = 1 + Len(g[n \div radix])
        BY <3>2, <3>3
      <3>5. <<n % radix>> \o g[n \div radix] # <<>>
        BY <3>3, <3>4
      <3> QED
        BY <2>2, <3>4, <3>5
    <2> QED
      BY <2>1, <2>2
  <1>2. ASSUME NEW g, NEW h, NEW n \in Nat, \A m \in Nat : m < n => g[m] = h[m]
        PROVE  Of(g, n) = Of(h, n)
    <2>1. CASE n < radix
      BY <2>1
    <2>2. CASE n >= radix
      <3>1. n \div radix \in Nat /\ n \div radix < n
        BY <2>2, DivisionIs
      <3>2. g[n \div radix] = h[n \div radix]
        BY <1>2, <3>1
      <3> QED
        BY <3>2
    <2> QED
      BY <2>1, <2>2
  <1>3. \A g \in [Nat -> V], n \in Nat : F[g][n] = Of(g, n)
    OBVIOUS
  <1>4. \A n \in Nat : n \div radix \in Nat
    BY DivisionIs
  <1> HIDE DEF Of, V
  <1>5. F \in [[Nat -> V] -> [Nat -> V]]
    <2> SUFFICES ASSUME NEW g \in [Nat -> V], NEW n \in Nat PROVE Of(g, n) \in V
      OBVIOUS
    <2> QED
      BY <1>1, <1>4
  <1> HIDE DEF F
  <1>6. Lessens(Nat, size, [Nat -> V], F)
    BY <1>2, <1>3 DEF Lessens
  <1>7. size \in [Nat -> Nat] /\ \E base : base \in [Nat -> V]
    <2>1. <<0>> \in V
      BY DEF V
    <2>2. [n \in Nat |-> <<0>>] \in [Nat -> V]
      BY <2>1
    <2> QED
      BY <2>2
  <1>8. PICK g \in [Nat -> V] : F[g] = g
    <2> HIDE DEF size, f
    <2>1. PICK base : base \in [Nat -> V]
      BY <1>7
    <2>2. PICK g \in [Nat -> V] : Fixes(F, g)
      BY <1>5, <1>6, <1>7, <2>1, Fixpoint
    <2> QED
      BY <2>2 DEF Fixes
  <1>9. Solves(g)
    BY <1>3, <1>8
  <1>10. Solves(f)
    BY <1>9
  <1>11. Remainders(number, radix) = f[number]
    BY DEF Remainders, Of
  <1> HIDE DEF f
  <1> DEFINE S == {n \in Nat : f[n] \in V}
  <1>12. ASSUME NEW n \in Nat, \A m \in Nat : size[m] < size[n] => m \in S PROVE n \in S
    <2>1. f[n] = Of(f, n)
      BY <1>10
    <2>2. n >= radix => f[n \div radix] \in V
      <3> SUFFICES ASSUME n >= radix PROVE f[n \div radix] \in V
        OBVIOUS
      <3>1. n \div radix \in Nat /\ n \div radix < n
        BY DivisionIs
      <3> QED
        BY <1>12, <3>1
    <2> QED
      BY <1>1, <2>1, <2>2
  <1>13. Nat \subseteq S
    <2> HIDE DEF S, size
    <2> QED
      BY <1>7, <1>12, SizeInduction
  <1> QED
    BY <1>11, <1>13 DEF V

LEMMA UnsignedPrints ==
    ASSUME NEW number \in Nat, NEW radix \in {8, 10, 16}
    PROVE  printf_unsigned(number, radix) \in Seq(LineChars)
  <1>1. PICK b \in Seq(0 .. 15) : b = Remainders(number, radix)
    <2>1. Remainders(number, radix) \in Seq(0 .. radix - 1)
      BY RemaindersAre
    <2>2. 0 .. radix - 1 \subseteq 0 .. 15
      OBVIOUS
    <2> QED
      BY <2>1, <2>2, SeqMonotonic
  <1>2. PICK n : n = Len(b) /\ n \in Nat /\ DOMAIN b = 1 .. n
    OBVIOUS
  <1>3. printf_unsigned(number, radix) = [i \in 1 .. n |-> g_HexChars[b[n + 1 - i] + 1]]
    BY <1>1, <1>2 DEF printf_unsigned
  <1>4. ASSUME NEW i \in 1 .. n PROVE g_HexChars[b[n + 1 - i] + 1] \in LineChars
    <2>1. n + 1 - i \in 1 .. n
      BY <1>2
    <2>2. b[n + 1 - i] \in 0 .. 15
      BY <1>2, <2>1
    <2>3. b[n + 1 - i] + 1 \in 1 .. 16
      BY <2>2
    <2> QED
      BY <2>3, LineCharsAre
  <1> DEFINE e == [i \in 1 .. n |-> g_HexChars[b[n + 1 - i] + 1]]
  <1>5. e \in [1 .. n -> LineChars]
    BY <1>4
  <1> HIDE DEF e
  <1>6. e \in Seq(LineChars)
    BY <1>2, <1>5
  <1> QED
    BY <1>3, <1>6 DEF e

LEMMA UnsignedIs ==
    ASSUME NEW slot \in Nat, NEW length
    PROVE  Unsigned(slot, length) \in Nat
  <1>1. PICK size : size = Size(length)
    OBVIOUS
  <1>2. size \in Nat /\ size > 0
    <2>1. size = LongSize \/ size = IntSize
      BY <1>1 DEF Size
    <2> QED
      BY <2>1, SizesAssumption
  <1>3. slot % size \in Nat
    BY <1>2
  <1> QED
    BY <1>1, <1>3 DEF Unsigned


DeviceChars == {"V", "%", "x", ",", "D", "\n"}

LEMMA DeviceFormat ==
    LET fmt == <<"V", "%", "x", ",", "D", "%", "x", "\n">>
    IN  Len(fmt) \in Nat /\ \A i \in 1 .. Len(fmt) : fmt[i] \in DeviceChars
  <1>1. ASSUME NEW a, NEW b, NEW c, NEW d, NEW e, NEW f
        PROVE  LET s == <<a, b, c, d, e, b, c, f>>
               IN  Len(s) \in Nat /\ \A i \in 1 .. Len(s) : s[i] \in {a, b, c, d, e, f}
    OBVIOUS
  <1> QED
    BY <1>1, Zenon DEF DeviceChars

\* What lspci prints of a device.
LEMMA DeviceLineIs ==
    ASSUME NEW d \in [vendorID : Nat, deviceID : Nat]
    PROVE  DeviceLine(d) \in Seq(LineChars)
  <1> DEFINE Number == BOOLEAN
             A == Nat
             V == Prints(A, LineChars, Number)
             fmt == <<"V", "%", "x", ",", "D", "%", "x", "\n">>
             args == <<d.vendorID, d.deviceID>>
  <1>0. FALSE \in Number /\ TRUE \in Number /\ args \in Seq(A)
    OBVIOUS
  <1> HIDE DEF Number, A
  <1>1. Start(args) \in V
    BY <1>0, StartIsPrints
  <1>2. ASSUME NEW p \in V, NEW c \in DeviceChars PROVE Step(p, c) \in V
    <2>1. c \in LineChars
      BY LineCharsAre DEF DeviceChars
    <2>2. Convert(p, c) \in V
      <3>1. CASE c = "x"
        <4>1. Convert(p, c) = [p EXCEPT !.radix = 16, !.sign = FALSE, !.number = TRUE]
          BY <3>1 DEF Convert
        <4> QED
          BY <1>0, <4>1 DEF Prints
      <3>2. CASE c = "%"
        <4>1. Convert(p, c) = Emit(p, <<"%">>)
          BY <3>2 DEF Convert
        <4>2. <<"%">> \in Seq(LineChars)
          BY LineCharsAre, OneIs
        <4> QED
          BY <4>1, <4>2, EmitKeeps
      <3>3. CASE c \notin {"x", "%"}
        <4>1. Convert(p, c) = p
          BY <3>3 DEF Convert, DeviceChars
        <4> QED
          BY <4>1
      <3> QED
        BY <3>1, <3>2, <3>3
    <2>3. PICK q \in V : q = Convert(p, c)
      BY <2>2
    <2>4. EmitNumber(q) \in V
      <3>1. CASE ~q.number
        BY <3>1 DEF EmitNumber
      <3>2. CASE q.number
        <4> DEFINE text == printf_unsigned(Unsigned(Arg(q), q.length), q.radix)
        <4>1. q.sign = FALSE /\ q.args \in Seq(A) /\ q.radix \in {8, 10, 16}
          BY DEF Prints
        <4>2. EmitNumber(q) = EmitArg(q, text)
          BY <3>2, <4>1 DEF EmitNumber
        <4>3. q.args # <<>> => text \in Seq(LineChars)
          <5> SUFFICES ASSUME q.args # <<>> PROVE text \in Seq(LineChars)
            OBVIOUS
          <5>1. Arg(q) \in Nat
            BY <4>1, HeadIs DEF Arg, A
          <5>2. Unsigned(Arg(q), q.length) \in Nat
            BY <5>1, UnsignedIs
          <5> QED
            BY <4>1, <5>2, UnsignedPrints
        <4>4. Junk \in LineChars
          BY LineCharsAre
        <4> HIDE DEF text
        <4>5. EmitArg(q, text) \in V
          BY <4>3, <4>4, EmitArgKeeps
        <4> QED
          BY <4>2, <4>5
      <3> QED
        BY <3>1, <3>2
    <2>5. Conversion(p, c) \in V
      BY <2>3, <2>4, ResetKeeps DEF Conversion
    <2> QED
      BY <2>1, <2>5, StepKeeps
  <1>3. Len(fmt) \in Nat /\ \A i \in 1 .. Len(fmt) : fmt[i] \in DeviceChars
    BY DeviceFormat
  <1> HIDE DEF fmt
  <1>4. StepsStay(V, fmt)
    BY <1>2, <1>3 DEF StepsStay
  <1>5. PICK p \in V : printf(fmt, args) = p.out
    BY <1>1, <1>3, <1>4, PrintfOut
  <1>6. p.out \in Seq(LineChars)
    BY <1>5 DEF Prints
  <1> QED
    BY <1>5, <1>6 DEF DeviceLine, fmt

-----------------------------------------------------------------------------
(* The words of a line. *)

LEMMA FlattenIs ==
    ASSUME NEW X, NEW seqs \in Seq(Seq(X))
    PROVE  FlattenSeq(seqs) \in Seq(X)
  <1> DEFINE V == Seq(X)
             n == Len(seqs)
             Of(h, k) == IF k = 1 THEN seqs[k] ELSE h[k - 1] \o seqs[k]
             Solves(f) == f = [k \in 1 .. n |-> Of(f, k)]
             f == CHOOSE f : Solves(f)
             F == [k \in 1 .. n |-> [v \in V |-> IF k = 1 THEN seqs[k] ELSE v \o seqs[k]]]
  <1>1. n \in Nat /\ \A k \in 1 .. n : seqs[k] \in V
    OBVIOUS
  <1>2. CASE n = 0
    <2>1. FlattenSeq(seqs) = seqs /\ seqs = <<>>
      BY <1>2 DEF FlattenSeq
    <2> QED
      BY <2>1
  <1>3. CASE n > 0
    <2>1. FlattenSeq(seqs) = f[n]
      BY <1>3 DEF FlattenSeq
    <2>2. \A v, w \in V : v \o w \in V
      OBVIOUS
    <2>3. <<>> \in V
      OBVIOUS
    <2> HIDE DEF V, n
    <2>4. F \in [1 .. n -> [V -> V]] /\ \A k \in 1 .. n, v \in V : F[k][v] = IF k = 1 THEN seqs[k] ELSE v \o seqs[k]
      BY <1>1, <2>2
    <2> HIDE DEF F
    <2>5. PICK none : none = <<>> /\ none \in V
      BY <2>3
    <2>6. PICK h \in [0 .. n -> V] : Iterates(h, none, n, F)
      BY <1>1, <2>4, <2>5, Recursion
    <2> DEFINE g == [k \in 1 .. n |-> h[k]]
    <2>7. ASSUME NEW k \in 1 .. n PROVE g[k] = Of(g, k)
      <3>1. k - 1 \in 0 .. n /\ h[k - 1] \in V /\ k \in 0 .. n
        BY <1>1
      <3>2. h[k] = F[k][h[k - 1]]
        BY <2>6 DEF Iterates
      <3>3. k # 1 => k - 1 \in 1 .. n
        BY <1>1
      <3> QED
        BY <2>4, <3>1, <3>2, <3>3
    <2>8. Solves(g)
      BY <2>7
    <2>9. Solves(f)
      BY <2>8
    <2> HIDE DEF f
    <2> DEFINE S == {k \in Nat : k \in 1 .. n => f[k] \in V}
    <2>10. 0 \in S
      OBVIOUS
    <2>11. ASSUME NEW k \in Nat, k \in S PROVE k + 1 \in S
      <3> SUFFICES ASSUME k + 1 \in 1 .. n PROVE f[k + 1] \in V
        OBVIOUS
      <3>1. f[k + 1] = Of(f, k + 1)
        BY <2>9
      <3>2. CASE k = 0
        BY <1>1, <3>1, <3>2
      <3>3. CASE k # 0
        <4>1. k \in 1 .. n /\ (k + 1) - 1 = k /\ k + 1 # 1
          BY <1>1, <3>3
        <4>2. f[k] \in V
          BY <2>11, <4>1
        <4> QED
          BY <1>1, <2>2, <3>1, <4>1, <4>2
      <3> QED
        BY <3>2, <3>3
    <2> HIDE DEF S
    <2>12. n \in S
      BY <1>1, <2>10, <2>11, SetInduction
    <2>13. n \in 1 .. n
      BY <1>1, <1>3
    <2>14. f[n] \in V
      BY <2>12, <2>13 DEF S
    <2> QED
      BY <2>1, <2>14 DEF V
  <1> QED
    BY <1>1, <1>2, <1>3

LEMMA SubSeqIs ==
    ASSUME NEW X, NEW s \in Seq(X), NEW m \in Nat, NEW n \in Nat, m > 0, n <= Len(s)
    PROVE  SubSeq(s, m, n) \in Seq(X) /\ Len(SubSeq(s, m, n)) = IF m <= n THEN n - m + 1 ELSE 0
  <1>1. \A i \in m .. n : s[i] \in X
    OBVIOUS
  <1> QED
    BY <1>1, SubSeqProperties

\* The rest of the line that Tokenize looks at next.
Word(s) == SubSeq(SkipSpaces(s), 1, WordLength(SkipSpaces(s)))

Rest(s) == SubSeq(SkipSpaces(s), WordLength(SkipSpaces(s)) + 1, Len(SkipSpaces(s)))

LEMMA SkipIs ==
    ASSUME NEW X, NEW s \in Seq(X)
    PROVE  /\ SkipSpaces(s) \in Seq(X) /\ Len(SkipSpaces(s)) <= Len(s)
           /\ SkipSpaces(s) # <<>> => ~IsSpace(SkipSpaces(s)[1])
  <1> DEFINE rest == {i \in DOMAIN s : ~IsSpace(s[i])}
  <1>1. CASE rest = {}
    <2>1. SkipSpaces(s) = <<>>
      BY <1>1 DEF SkipSpaces
    <2> QED
      BY <2>1
  <1>2. CASE rest # {}
    <2>1. rest \in SUBSET Nat
      OBVIOUS
    <2>2. PICK m \in rest : m = Min(rest)
      <3> HIDE DEF rest
      <3> QED
        BY <1>2, <2>1, MinIsLeast
    <2>3. SkipSpaces(s) = SubSeq(s, m, Len(s))
      BY <1>2, <2>2 DEF SkipSpaces
    <2>4. m \in 1 .. Len(s) /\ ~IsSpace(s[m])
      OBVIOUS
    <2>5. /\ SubSeq(s, m, Len(s)) \in Seq(X) /\ Len(SubSeq(s, m, Len(s))) = Len(s) - m + 1
          /\ SubSeq(s, m, Len(s))[1] = s[m]
      <3>1. \A i \in m .. Len(s) : s[i] \in X
        BY <2>4
      <3>2. m \in Int /\ Len(s) \in Int /\ m <= Len(s) /\ 1 \in 1 .. Len(s) - m + 1 /\ m + 1 - 1 = m
        BY <2>4
      <3> QED
        BY <3>1, <3>2, SubSeqProperties
    <2> QED
      BY <2>3, <2>4, <2>5
  <1> QED
    BY <1>1, <1>2

LEMMA WordLengthIs ==
    ASSUME NEW X, NEW s \in Seq(X)
    PROVE  /\ WordLength(s) \in 0 .. Len(s)
           /\ s # <<>> /\ ~IsSpace(s[1]) => WordLength(s) > 0
  <1> DEFINE spaces == {i \in DOMAIN s : IsSpace(s[i])}
  <1>1. CASE spaces = {}
    BY <1>1 DEF WordLength
  <1>2. CASE spaces # {}
    <2>1. spaces \in SUBSET Nat
      OBVIOUS
    <2>2. PICK m \in spaces : m = Min(spaces)
      <3> HIDE DEF spaces
      <3> QED
        BY <1>2, <2>1, MinIsLeast
    <2>3. WordLength(s) = m - 1
      BY <1>2, <2>2 DEF WordLength
    <2>4. m \in 1 .. Len(s) /\ IsSpace(s[m])
      OBVIOUS
    <2> QED
      BY <2>3, <2>4
  <1> QED
    BY <1>1, <1>2

LEMMA WordAndRest ==
    ASSUME NEW X, NEW s \in Seq(X), s # <<>>
    PROVE  Word(s) \in Seq(X) /\ Rest(s) \in Seq(X) /\ Len(Rest(s)) < Len(s)
  <1>1. PICK w \in Seq(X) : w = SkipSpaces(s) /\ Len(w) <= Len(s) /\ (w # <<>> => ~IsSpace(w[1]))
    BY SkipIs
  <1>2. PICK n \in 0 .. Len(w) : n = WordLength(w) /\ (w # <<>> => n > 0)
    BY <1>1, WordLengthIs
  <1>3. Word(s) = SubSeq(w, 1, n) /\ Rest(s) = SubSeq(w, n + 1, Len(w))
    BY <1>1, <1>2 DEF Word, Rest
  <1>4. SubSeq(w, 1, n) \in Seq(X)
    BY SubSeqIs
  <1>5. SubSeq(w, n + 1, Len(w)) \in Seq(X) /\ Len(SubSeq(w, n + 1, Len(w))) = IF n + 1 <= Len(w) THEN Len(w) - (n + 1) + 1 ELSE 0
    BY SubSeqIs
  <1>6. Len(s) > 0 /\ Len(s) \in Nat /\ Len(w) \in Nat
    OBVIOUS
  <1>7. Len(w) = 0 \/ n > 0
    BY <1>2
  <1> QED
    BY <1>1, <1>3, <1>4, <1>5, <1>6, <1>7

\* Tokenize ends: it cuts off the first word and goes on with the rest.
LEMMA TokenizeStep ==
    ASSUME NEW line \in Seq(Chars)
    PROVE  Tokenize(line) = IF line = <<>> THEN <<>> ELSE <<Word(line)>> \o Tokenize(Rest(line))
  <1> DEFINE D == Seq(Chars)
             V == Seq(D)
             Of(g, s) == IF s = <<>> THEN <<>> ELSE <<Word(s)>> \o g[Rest(s)]
             F == [g \in [D -> V] |-> [s \in D |-> Of(g, s)]]
             size == [s \in D |-> Len(s)]
             Solves(f) == f = [s \in D |-> Of(f, s)]
             f == CHOOSE f : Solves(f)
  <1>1. \A s \in D : s # <<>> => Word(s) \in D /\ Rest(s) \in D /\ Len(Rest(s)) < Len(s)
    BY WordAndRest
  <1>2. ASSUME NEW g \in [D -> V], NEW s \in D PROVE Of(g, s) \in V
    <2>1. CASE s = <<>>
      BY <2>1
    <2>2. CASE s # <<>>
      <3>1. PICK w \in D, r \in V : w = Word(s) /\ r = g[Rest(s)]
        BY <1>1, <2>2
      <3> HIDE DEF D
      <3>2. <<w>> \o r \in V
        BY <3>1
      <3> QED
        BY <2>2, <3>1, <3>2
    <2> QED
      BY <2>1, <2>2
  <1>3. ASSUME NEW g, NEW h, NEW s \in D, \A t \in D : Len(t) < Len(s) => g[t] = h[t]
        PROVE  Of(g, s) = Of(h, s)
    <2>1. CASE s = <<>>
      BY <2>1
    <2>2. CASE s # <<>>
      <3>1. g[Rest(s)] = h[Rest(s)]
        BY <1>1, <1>3, <2>2
      <3> QED
        BY <3>1
    <2> QED
      BY <2>1, <2>2
  <1>4. \A g \in [D -> V], s \in D : F[g][s] = Of(g, s)
    OBVIOUS
  <1>5. size \in [D -> Nat] /\ (\A s \in D : size[s] = Len(s)) /\ \E base : base \in [D -> V]
    <2>1. <<>> \in V
      OBVIOUS
    <2>2. [s \in D |-> <<>>] \in [D -> V]
      BY <2>1
    <2>3. size \in [D -> Nat]
      OBVIOUS
    <2> QED
      BY <2>2, <2>3
  <1>6. \A s \in D : Tokenize(s) = f[s]
    BY DEF Tokenize, Word, Rest
  <1> HIDE DEF Of, V, size
  <1>7. F \in [[D -> V] -> [D -> V]]
    BY <1>2
  <1> HIDE DEF F
  <1>8. Lessens(D, size, [D -> V], F)
    <2> SUFFICES ASSUME NEW g \in [D -> V], NEW h \in [D -> V], NEW s \in D,
                        \A t \in D : size[t] < size[s] => g[t] = h[t]
                 PROVE  F[g][s] = F[h][s]
      BY DEF Lessens
    <2>1. Of(g, s) = Of(h, s)
      BY <1>3, <1>5
    <2> QED
      BY <1>4, <2>1
  <1>9. PICK g \in [D -> V] : Fixes(F, g)
    <2> HIDE DEF f, D
    <2>1. PICK base : base \in [D -> V]
      BY <1>5
    <2> QED
      BY <1>5, <1>7, <1>8, <2>1, Fixpoint
  <1>10. Solves(g)
    BY <1>4, <1>9 DEF Fixes
  <1>11. Solves(f)
    BY <1>10
  <1> HIDE DEF f
  <1>12. f[line] = Of(f, line)
    BY <1>11
  <1>13. CASE line = <<>>
    BY <1>6, <1>12, <1>13 DEF Of
  <1>14. CASE line # <<>>
    <2>1. Tokenize(Rest(line)) = f[Rest(line)]
      BY <1>1, <1>6, <1>14
    <2> QED
      BY <1>6, <1>12, <1>14, <2>1 DEF Of
  <1> QED
    BY <1>13, <1>14

\* It finds words of the characters of the line, and one at least.
LEMMA TokenizeIs ==
    ASSUME NEW X, X \subseteq Chars, NEW line \in Seq(X), line # <<>>
    PROVE  Tokenize(line) \in Seq(Seq(X)) /\ Tokenize(line) # <<>>
  <1> DEFINE D == Seq(X)
             size == [s \in D |-> Len(s)]
             S == {s \in D : Tokenize(s) \in Seq(D)}
  <1>1. \A s \in D : s \in Seq(Chars)
    BY SeqMonotonic
  <1>2. ASSUME NEW s \in D, s # <<>>, Tokenize(Rest(s)) \in Seq(D)
        PROVE  Tokenize(s) \in Seq(D) /\ Tokenize(s) # <<>>
    <2>1. PICK r \in Seq(D) : r = Tokenize(Rest(s))
      BY <1>2
    <2>2. PICK w \in D : w = Word(s)
      BY <1>2, WordAndRest
    <2>3. Tokenize(s) = <<w>> \o r
      BY <1>1, <1>2, <2>1, <2>2, TokenizeStep
    <2> HIDE DEF D
    <2>4. <<w>> \o r \in Seq(D) /\ Len(<<w>> \o r) = 1 + Len(r) /\ Len(r) \in Nat
      OBVIOUS
    <2> QED
      BY <2>3, <2>4
  <1>3. size \in [D -> Nat] /\ \A s \in D : size[s] = Len(s)
    OBVIOUS
  <1>4. ASSUME NEW s \in D, \A t \in D : size[t] < size[s] => t \in S PROVE s \in S
    <2>1. CASE s = <<>>
      <3>1. Tokenize(s) = <<>>
        BY <1>1, <2>1, TokenizeStep
      <3> QED
        BY <3>1
    <2>2. CASE s # <<>>
      <3>1. Rest(s) \in D /\ size[Rest(s)] < size[s]
        BY <1>3, <2>2, WordAndRest
      <3>2. Tokenize(Rest(s)) \in Seq(D)
        BY <1>4, <3>1
      <3> QED
        BY <1>2, <2>2, <3>2
    <2> QED
      BY <2>1, <2>2
  <1>5. D \subseteq S
    <2> HIDE DEF S, D, size
    <2> QED
      BY <1>3, <1>4, SizeInduction
  <1>6. Rest(line) \in D
    BY WordAndRest
  <1>7. Tokenize(Rest(line)) \in Seq(D)
    BY <1>5, <1>6
  <1> QED
    BY <1>2, <1>7

-----------------------------------------------------------------------------
(* The words of the line *)

\* Where SkipSpaces and WordLength stop.
SpacesOnly(s) == SkipSpaces(s) = <<>> /\ \A i \in DOMAIN s : IsSpace(s[i])

FirstAt(s, m) ==
    /\ m \in DOMAIN s /\ SkipSpaces(s) = SubSeq(s, m, Len(s))
    /\ ~IsSpace(s[m]) /\ \A i \in 1 .. m - 1 : IsSpace(s[i])

LEMMA SkipEnds ==
    ASSUME NEW X, NEW s \in Seq(X)
    PROVE  SpacesOnly(s) \/ \E m : FirstAt(s, m)
  <1> DEFINE rest == {i \in DOMAIN s : ~IsSpace(s[i])}
  <1>1. CASE rest = {}
    <2>1. SkipSpaces(s) = <<>>
      BY <1>1 DEF SkipSpaces
    <2> QED
      BY <1>1, <2>1 DEF SpacesOnly
  <1>2. CASE rest # {}
    <2>1. rest \in SUBSET Nat
      OBVIOUS
    <2>2. PICK m \in rest : m = Min(rest) /\ \A i \in rest : m <= i
      <3> HIDE DEF rest
      <3> QED
        BY <1>2, <2>1, MinIsLeast
    <2>3. SkipSpaces(s) = SubSeq(s, m, Len(s))
      BY <1>2, <2>2 DEF SkipSpaces
    <2>4. ASSUME NEW i \in 1 .. m - 1 PROVE IsSpace(s[i])
      <3>1. i \in DOMAIN s /\ i < m
        OBVIOUS
      <3>2. i \notin rest
        <4>1. m \in Nat /\ i \in Nat /\ ~(m <= i)
          BY <2>1, <2>2, <3>1
        <4> HIDE DEF rest
        <4> QED
          BY <2>2, <4>1
      <3> QED
        BY <3>1, <3>2
    <2>5. m \in DOMAIN s /\ ~IsSpace(s[m])
      OBVIOUS
    <2> QED
      BY <2>3, <2>4, <2>5 DEF FirstAt
  <1> QED
    BY <1>1, <1>2

\* The longest word that begins a line.
LEMMA WordEnds ==
    ASSUME NEW X, NEW s \in Seq(X)
    PROVE  /\ WordLength(s) \in 0 .. Len(s)
           /\ \A i \in 1 .. WordLength(s) : ~IsSpace(s[i])
           /\ WordLength(s) < Len(s) => IsSpace(s[WordLength(s) + 1])
  <1> DEFINE spaces == {i \in DOMAIN s : IsSpace(s[i])}
  <1>1. CASE spaces = {}
    <2>1. WordLength(s) = Len(s)
      BY <1>1 DEF WordLength
    <2> QED
      BY <1>1, <2>1
  <1>2. CASE spaces # {}
    <2>1. spaces \in SUBSET Nat
      OBVIOUS
    <2>2. PICK m \in spaces : m = Min(spaces) /\ \A i \in spaces : m <= i
      <3> HIDE DEF spaces
      <3> QED
        BY <1>2, <2>1, MinIsLeast
    <2>3. WordLength(s) = m - 1
      BY <1>2, <2>2 DEF WordLength
    <2>4. ASSUME NEW i \in 1 .. m - 1 PROVE ~IsSpace(s[i])
      <3>1. i \in DOMAIN s /\ i < m
        OBVIOUS
      <3>2. i \notin spaces
        <4>1. m \in Nat /\ i \in Nat /\ ~(m <= i)
          BY <2>1, <2>2, <3>1
        <4> HIDE DEF spaces
        <4> QED
          BY <2>2, <4>1
      <3> QED
        BY <3>1, <3>2
    <2>5. m \in 1 .. Len(s) /\ IsSpace(s[m]) /\ m - 1 + 1 = m
      OBVIOUS
    <2> QED
      BY <2>3, <2>4, <2>5
  <1> QED
    BY <1>1, <1>2

\* What is left behind m of what is left behind b.
LEMMA RestOfRest ==
    ASSUME NEW X, NEW s \in Seq(X), NEW b \in 0 .. Len(s), NEW m \in Nat, m > 0
    PROVE  LET r == SubSeq(s, b + 1, Len(s))
           IN  /\ r \in Seq(X) /\ Len(r) = Len(s) - b /\ \A i \in 1 .. Len(s) - b : r[i] = s[b + i]
               /\ SubSeq(r, m, Len(r)) = SubSeq(s, b + m, Len(s))
  <1>1. PICK r, N : r = SubSeq(s, b + 1, Len(s)) /\ N = Len(s)
    OBVIOUS
  <1>2. N \in Nat /\ b \in 0 .. N
    BY <1>1
  <1>3. \A i \in 1 .. N : s[i] \in X
    BY <1>1
  <1>4. r \in Seq(X) /\ Len(r) = N - b /\ \A i \in 1 .. N - b : r[i] = s[b + i]
    <2>1. \A i \in b + 1 .. N : s[i] \in X
      BY <1>2, <1>3
    <2>2. /\ r \in Seq(X) /\ Len(r) = IF b + 1 <= N THEN N - (b + 1) + 1 ELSE 0
          /\ \A i \in 1 .. N - (b + 1) + 1 : r[i] = s[b + 1 + i - 1]
      BY <1>1, <1>2, <2>1, SubSeqProperties
    <2>3. Len(r) = N - b /\ N - (b + 1) + 1 = N - b /\ \A i \in 1 .. N - b : b + 1 + i - 1 = b + i
      BY <1>2, <2>2
    <2> QED
      BY <2>2, <2>3
  <1>5. PICK u, v : u = SubSeq(r, m, N - b) /\ v = SubSeq(s, b + m, N)
    OBVIOUS
  <1>6. /\ u \in Seq(X) /\ Len(u) = IF m <= N - b THEN N - b - m + 1 ELSE 0
        /\ \A i \in 1 .. N - b - m + 1 : u[i] = r[m + i - 1]
    <2>1. \A i \in m .. N - b : r[i] \in X
      BY <1>2, <1>4
    <2> QED
      BY <1>2, <1>5, <2>1, SubSeqProperties
  <1>7. /\ v \in Seq(X) /\ Len(v) = IF b + m <= N THEN N - (b + m) + 1 ELSE 0
        /\ \A i \in 1 .. N - (b + m) + 1 : v[i] = s[b + m + i - 1]
    <2>1. \A i \in b + m .. N : s[i] \in X
      BY <1>2, <1>3
    <2> QED
      BY <1>2, <1>5, <2>1, SubSeqProperties
  <1>8. Len(u) = Len(v)
    BY <1>2, <1>6, <1>7
  <1>9. ASSUME NEW i \in 1 .. Len(u) PROVE u[i] = v[i]
    <2>1. i \in 1 .. N - b - m + 1 /\ i \in 1 .. N - (b + m) + 1
      BY <1>2, <1>6
    <2>2. m + i - 1 \in 1 .. N - b /\ b + (m + i - 1) = b + m + i - 1
      BY <1>2, <2>1
    <2> QED
      BY <1>4, <1>6, <1>7, <2>1, <2>2
  <1>10. u = v
    BY <1>6, <1>7, <1>8, <1>9, SeqEqual
  <1> QED
    BY <1>1, <1>4, <1>5, <1>10

\* words are n words of line, which start at start, and one more if line ends with a space.
Cuts(words, line, n, start) ==
    /\ n \in Nat /\ start \in [1 .. n -> StartsOfWords(line)]
    /\ \A i, j \in 1 .. n : i < j => start[i] < start[j]
    /\ StartsOfWords(line) = {start[k] : k \in 1 .. n}
    /\ \A k \in 1 .. n : words[k] = WordAt(line, start[k])
    /\ IF line # <<>> /\ IsSpace(line[Len(line)]) THEN Len(words) = n + 1 /\ words[n + 1] = <<>>
       ELSE Len(words) = n

LEMMA EmptyIsSeq == ASSUME NEW X PROVE <<>> \in Seq(X)
  OBVIOUS

\* Behind a line of spaces only there is the empty word.
LEMMA CutSpaces ==
    ASSUME NEW line \in Seq(Chars), line # <<>>, SpacesOnly(line)
    PROVE  Rest(line) = <<>> /\ \E start : Cuts(<<Word(line)>>, line, 0, start)
  <1>1. WordLength(SkipSpaces(line)) = 0
    <2>1. PICK s \in Seq(Chars) : s = <<>>
      BY EmptyIsSeq
    <2>2. WordLength(s) \in 0 .. Len(s)
      BY WordEnds
    <2> QED
      BY <2>1, <2>2 DEF SpacesOnly
  <1>2. Word(line) = <<>> /\ Rest(line) = <<>>
    <2>1. SubSeq(<<>>, 1, 0) = <<>>
      BY SubSeqEmpty
    <2> QED
      BY <1>1, <2>1 DEF Word, Rest, SpacesOnly
  <1>3. StartsOfWords(line) = {}
    BY DEF StartsOfWords, SpacesOnly
  <1>4. PICK start : start \in [1 .. 0 -> StartsOfWords(line)]
    <2>1. [k \in 1 .. 0 |-> 0] \in [1 .. 0 -> {}]
      OBVIOUS
    <2> QED
      BY <1>3, <2>1
  <1>5. IsSpace(line[Len(line)])
    <2>1. Len(line) \in DOMAIN line
      OBVIOUS
    <2> QED
      BY <2>1 DEF SpacesOnly
  <1>6. Len(<<Word(line)>>) = 0 + 1 /\ <<Word(line)>>[0 + 1] = <<>>
    BY <1>2
  <1>7. 0 \in Nat /\ 1 .. 0 = {}
    OBVIOUS
  <1>8. {start[k] : k \in 1 .. 0} = {}
    BY <1>7
  <1>9. Cuts(<<Word(line)>>, line, 0, start)
    BY <1>3, <1>4, <1>5, <1>6, <1>7, <1>8 DEF Cuts
  <1> QED
    BY <1>2, <1>9

\* The first word of line is from m to b, and r is behind it.
FirstWord(line, m, b, r) ==
    /\ m \in DOMAIN line /\ b \in m .. Len(line)
    /\ \A i \in 1 .. m - 1 : IsSpace(line[i])
    /\ \A i \in m .. b : ~IsSpace(line[i])
    /\ b < Len(line) => IsSpace(line[b + 1])
    /\ Len(r) = Len(line) - b /\ \A i \in 1 .. Len(r) : r[i] = line[b + i]

\* The words of a line start where its first word does and where those of its rest do.
LEMMA StartsSplit ==
    ASSUME NEW line \in Seq(Chars), NEW r \in Seq(Chars), NEW m, NEW b, FirstWord(line, m, b, r)
    PROVE  StartsOfWords(line) = {m} \cup {b + i : i \in StartsOfWords(r)}
  <1>1. PICK N \in Nat : N = Len(line) /\ DOMAIN line = 1 .. N /\ Len(r) = N - b /\ DOMAIN r = 1 .. N - b
    BY DEF FirstWord
  <1>2. m \in 1 .. N /\ b \in m .. N
    BY <1>1 DEF FirstWord
  <1>first. /\ \A i \in 1 .. m - 1 : IsSpace(line[i])
            /\ \A i \in m .. b : ~IsSpace(line[i])
            /\ b < N => IsSpace(line[b + 1])
            /\ \A i \in 1 .. N - b : r[i] = line[b + i]
    BY <1>1 DEF FirstWord
  <1>3. ASSUME NEW j \in StartsOfWords(line) PROVE j \in {m} \cup {b + i : i \in StartsOfWords(r)}
    <2>1. j \in 1 .. N /\ ~IsSpace(line[j]) /\ (j > 1 => IsSpace(line[j - 1]))
      BY <1>first, <1>1 DEF StartsOfWords
    <2>2. j >= m
      BY <1>first, <1>2, <2>1
    <2>3. CASE j = m
      BY <2>3
    <2>4. CASE j > m /\ j <= b
      <3>1. j - 1 \in m .. b /\ j > 1
        BY <1>first, <1>2, <2>1, <2>4
      <3> QED
        BY <1>first, <2>1, <3>1
    <2>5. CASE j > b
      <3>1. PICK i : i = j - b
        OBVIOUS
      <3>2. i \in 1 .. N - b /\ b + i = j
        BY <1>first, <1>2, <2>1, <2>5, <3>1
      <3>3. r[i] = line[j]
        BY <1>first, <1>1, <3>2
      <3>4. i > 1 => r[i - 1] = line[j - 1] /\ j > 1
        <4> SUFFICES ASSUME i > 1 PROVE r[i - 1] = line[j - 1] /\ j > 1
          OBVIOUS
        <4>1. i - 1 \in 1 .. N - b /\ b + (i - 1) = j - 1 /\ j > 1
          BY <1>first, <1>2, <2>1, <3>2
        <4> QED
          BY <1>first, <1>1, <4>1
      <3>5. i \in StartsOfWords(r)
        BY <1>first, <1>1, <2>1, <3>2, <3>3, <3>4 DEF StartsOfWords
      <3> QED
        BY <3>2, <3>5
    <2> QED
      BY <1>first, <1>2, <2>1, <2>2, <2>3, <2>4, <2>5
  <1>4. m \in StartsOfWords(line)
    <2>1. ~IsSpace(line[m])
      BY <1>first, <1>2
    <2>2. m > 1 => IsSpace(line[m - 1])
      BY <1>first, <1>2
    <2> QED
      BY <1>first, <1>1, <1>2, <2>1, <2>2 DEF StartsOfWords
  <1>5. ASSUME NEW i \in StartsOfWords(r) PROVE b + i \in StartsOfWords(line)
    <2>1. i \in 1 .. N - b /\ ~IsSpace(r[i]) /\ (i > 1 => IsSpace(r[i - 1]))
      BY <1>first, <1>1 DEF StartsOfWords
    <2>2. b + i \in 1 .. N /\ r[i] = line[b + i]
      BY <1>first, <1>1, <1>2, <2>1
    <2>3. i # 1
      BY <1>first, <1>1, <1>2, <2>1, <2>2
    <2>4. i > 1 /\ i - 1 \in 1 .. N - b /\ b + (i - 1) = b + i - 1
      BY <1>first, <1>2, <2>1, <2>3
    <2>5. r[i - 1] = line[b + i - 1]
      BY <1>first, <1>1, <2>4
    <2> QED
      <3>1. PICK j : j = b + i
        OBVIOUS
      <3>2. j \in DOMAIN line
        BY <1>1, <2>2, <3>1
      <3>3. ~IsSpace(line[j])
        BY <2>1, <2>2, <3>1
      <3>4. IsSpace(line[j - 1])
        <4>1. IsSpace(r[i - 1])
          BY <2>1, <2>4
        <4>2. j - 1 = b + (i - 1)
          BY <1>2, <2>1, <3>1
        <4>3. line[j - 1] = r[i - 1]
          BY <2>5, <4>2
        <4> QED
          BY <4>1, <4>3
      <3> QED
        BY <3>1, <3>2, <3>3, <3>4 DEF StartsOfWords
  <1> QED
    BY <1>3, <1>4, <1>5

\* If the rest of a line is cut into its words, the line is too.
LEMMA CutFirst ==
    ASSUME NEW line \in Seq(Chars), NEW m, FirstAt(line, m),
           NEW t \in Seq(Seq(Chars)), NEW n, NEW start, Cuts(t, Rest(line), n, start)
    PROVE  \E begin : Cuts(<<Word(line)>> \o t, line, n + 1, begin)
  <1>1. PICK N \in Nat : N = Len(line) /\ DOMAIN line = 1 .. N
    OBVIOUS
  <1>2. PICK c \in Nat : c = m - 1 /\ c < N /\ c + 1 = m /\ m \in 1 .. N
    BY <1>1 DEF FirstAt
  <1>3. PICK w \in Seq(Chars) : w = SkipSpaces(line) /\ w = SubSeq(line, m, N)
                                /\ Len(w) = N - c /\ \A i \in 1 .. N - c : w[i] = line[c + i]
    <2>1. SkipSpaces(line) = SubSeq(line, m, N)
      BY <1>1 DEF FirstAt
    <2>2. c \in 0 .. Len(line) /\ 1 \in Nat /\ 1 > 0
      BY <1>1, <1>2
    <2>3. LET u == SubSeq(line, c + 1, Len(line))
          IN  u \in Seq(Chars) /\ Len(u) = Len(line) - c /\ \A i \in 1 .. Len(line) - c : u[i] = line[c + i]
      BY <2>2, RestOfRest
    <2> QED
      BY <1>1, <1>2, <2>1, <2>3
  <1>4. PICK e \in Nat : e = WordLength(w) /\ e <= N - c
                         /\ (\A i \in 1 .. e : ~IsSpace(w[i])) /\ (e < N - c => IsSpace(w[e + 1]))
    <2>1. PICK e : e = WordLength(w)
      OBVIOUS
    <2>2. e \in 0 .. Len(w) /\ (\A i \in 1 .. e : ~IsSpace(w[i])) /\ (e < Len(w) => IsSpace(w[e + 1]))
      BY <2>1, WordEnds
    <2>3. Len(w) = N - c /\ N - c \in Nat
      BY <1>2, <1>3
    <2>4. e \in Nat /\ e <= N - c
      BY <2>2, <2>3
    <2> QED
      BY <2>1, <2>2, <2>3, <2>4
  <1>5. e > 0
    <2>1. 1 \in 1 .. N - c /\ c + 1 = m
      BY <1>2
    <2>2. w[1] = line[m]
      BY <1>3, <2>1
    <2>3. e = 0 => IsSpace(w[0 + 1])
      BY <1>2, <1>4
    <2>4. ~IsSpace(line[m])
      BY DEF FirstAt
    <2> QED
      BY <1>4, <2>2, <2>3, <2>4
  <1>6. PICK b \in m .. N : b = c + e
    <2>1. c + e \in m .. N
      BY <1>2, <1>4, <1>5
    <2> QED
      BY <2>1
  <1>sizes. /\ N \in Nat /\ c \in Nat /\ e \in Nat /\ b \in Nat /\ m \in Nat
            /\ b = c + e /\ m = c + 1 /\ m <= b /\ b <= N /\ e > 0
    BY <1>2, <1>5, <1>6
  <1>7. \A i \in m .. b : ~IsSpace(line[i])
    <2> SUFFICES ASSUME NEW i \in m .. b PROVE ~IsSpace(line[i])
      OBVIOUS
    <2>1. i - c \in 1 .. e /\ i - c \in 1 .. N - c /\ c + (i - c) = i
      BY <1>2, <1>4, <1>6
    <2> QED
      BY <1>3, <1>4, <2>1
  <1>8. b < N => IsSpace(line[b + 1])
    <2> SUFFICES ASSUME b < N PROVE IsSpace(line[b + 1])
      OBVIOUS
    <2>1. e < N - c /\ e + 1 \in 1 .. N - c /\ c + (e + 1) = b + 1
      BY <1>sizes
    <2> QED
      BY <1>3, <1>4, <2>1
  <1>9. PICK r \in Seq(Chars) : /\ r = Rest(line) /\ Len(r) = N - b
                                /\ \A i \in 1 .. N - b : r[i] = line[b + i]
                                /\ \A i \in Nat : i > 0 => SubSeq(r, i, Len(r)) = SubSeq(line, b + i, N)
    <2>1. Rest(line) = SubSeq(w, e + 1, Len(w))
      BY <1>3, <1>4 DEF Rest
    <2>2. SubSeq(w, e + 1, Len(w)) = SubSeq(line, b + 1, N)
      <3>1. c \in 0 .. N /\ e + 1 \in Nat /\ e + 1 > 0 /\ c + (e + 1) = b + 1
        BY <1>sizes
      <3>2. LET u == SubSeq(line, c + 1, Len(line))
            IN  SubSeq(u, e + 1, Len(u)) = SubSeq(line, c + (e + 1), Len(line))
        BY <1>1, <3>1, RestOfRest
      <3> QED
        BY <1>1, <1>2, <1>3, <3>1, <3>2
    <2>3. b \in 0 .. Len(line)
      BY <1>1, <1>2, <1>6
    <2> DEFINE u == SubSeq(line, b + 1, Len(line))
    <2>4. \A i \in Nat : i > 0 => SubSeq(u, i, Len(u)) = SubSeq(line, b + i, Len(line))
      BY <2>3, RestOfRest
    <2>5. u \in Seq(Chars) /\ Len(u) = Len(line) - b /\ \A i \in 1 .. Len(line) - b : u[i] = line[b + i]
      BY <2>3, RestOfRest, 1 \in Nat, 1 > 0
    <2>6. Rest(line) = u
      BY <1>1, <2>1, <2>2
    <2> HIDE DEF u
    <2> QED
      BY <1>1, <2>4, <2>5, <2>6
  <1>10. StartsOfWords(line) = {m} \cup {b + i : i \in StartsOfWords(r)}
    <2>1. m \in DOMAIN line /\ \A i \in 1 .. m - 1 : IsSpace(line[i])
      BY DEF FirstAt
    <2>2. b \in m .. Len(line) /\ Len(r) = Len(line) - b /\ (b < Len(line) => IsSpace(line[b + 1]))
      BY <1>1, <1>6, <1>8, <1>9
    <2>3. \A i \in 1 .. Len(r) : r[i] = line[b + i]
      BY <1>9
    <2> QED
      <3>1. FirstWord(line, m, b, r)
        BY <1>7, <2>1, <2>2, <2>3 DEF FirstWord
      <3> QED
        BY <3>1, StartsSplit
  <1>11. Word(line) = WordAt(line, m)
    BY <1>1, <1>3 DEF Word, WordAt
  <1>12. /\ \A i \in StartsOfWords(r) : i \in 1 .. N - b
         /\ \A i \in StartsOfWords(r) : WordAt(r, i) = WordAt(line, b + i)
    <2>1. \A i \in StartsOfWords(r) : i \in 1 .. N - b
      BY <1>9 DEF StartsOfWords
    <2>2. ASSUME NEW i \in StartsOfWords(r) PROVE WordAt(r, i) = WordAt(line, b + i)
      <3>1. i \in Nat /\ i > 0
        BY <2>1
      <3>2. SubSeq(r, i, Len(r)) = SubSeq(line, b + i, Len(line))
        BY <1>1, <1>9, <3>1
      <3> QED
        BY <3>2 DEF WordAt
    <2> QED
      BY <2>1, <2>2
  <1>13. /\ n \in Nat /\ start \in [1 .. n -> StartsOfWords(r)]
         /\ \A i, j \in 1 .. n : i < j => start[i] < start[j]
         /\ StartsOfWords(r) = {start[k] : k \in 1 .. n}
         /\ \A k \in 1 .. n : t[k] = WordAt(r, start[k])
         /\ IF r # <<>> /\ IsSpace(r[Len(r)]) THEN Len(t) = n + 1 /\ t[n + 1] = <<>> ELSE Len(t) = n
    BY <1>9 DEF Cuts
  <1> DEFINE begin == [k \in 1 .. n + 1 |-> IF k = 1 THEN m ELSE b + start[k - 1]]
             words == <<Word(line)>> \o t
  <1>n. n \in Nat
    BY <1>13
  <1>14. begin[1] = m /\ \A k \in 1 .. n : k + 1 \in 1 .. n + 1 /\ begin[k + 1] = b + start[k]
    BY <1>n
  <1>15. \A k \in 1 .. n + 1 : k = 1 \/ (k - 1 \in 1 .. n /\ k = k - 1 + 1)
    BY <1>n
  <1>16. begin \in [1 .. n + 1 -> StartsOfWords(line)]
    <2>1. \A k \in 1 .. n + 1 : begin[k] \in StartsOfWords(line)
      BY <1>10, <1>13, <1>14, <1>15
    <2> QED
      BY <2>1
  <1>17. Len(words) = 1 + Len(t) /\ words[1] = Word(line) /\ \A k \in 1 .. Len(t) : words[k + 1] = t[k]
    <2>1. PICK v : v = Word(line)
      OBVIOUS
    <2>2. Len(<<v>> \o t) = 1 + Len(t) /\ (<<v>> \o t)[1] = v /\ \A k \in 1 .. Len(t) : (<<v>> \o t)[k + 1] = t[k]
      <3>1. PICK V : V = Seq(Chars) \cup {v}
        OBVIOUS
      <3>2. t \in Seq(V) /\ v \in V
        <4>1. Seq(Chars) \subseteq V
          BY <3>1
        <4> QED
          BY <3>1, <4>1, SeqMonotonic
      <3> QED
        BY <3>2
    <2> QED
      BY <2>1, <2>2
  <1> HIDE DEF begin, words
  <1>18. \A k \in 1 .. n : start[k] \in 1 .. N - b /\ start[k] \in StartsOfWords(r)
    BY <1>12, <1>13
  <1>19. ASSUME NEW i \in 1 .. n + 1, NEW j \in 1 .. n + 1, i < j PROVE begin[i] < begin[j]
    <2>1. j - 1 \in 1 .. n /\ begin[j] = b + start[j - 1]
      BY <1>n, <1>14, <1>15, <1>19
    <2>2. CASE i = 1
      BY <1>2, <1>6, <1>14, <1>18, <2>1, <2>2
    <2>3. CASE i # 1
      <3>1. i - 1 \in 1 .. n /\ begin[i] = b + start[i - 1] /\ i - 1 < j - 1
        BY <1>14, <1>15, <1>19, <2>3
      <3>2. start[i - 1] < start[j - 1]
        BY <1>13, <2>1, <3>1
      <3> QED
        BY <1>6, <1>18, <2>1, <3>1, <3>2
    <2> QED
      BY <2>2, <2>3
  <1>20. StartsOfWords(line) = {begin[k] : k \in 1 .. n + 1}
    <2>1. ASSUME NEW x \in StartsOfWords(line) PROVE \E k \in 1 .. n + 1 : x = begin[k]
      <3>1. CASE x = m
        BY <1>n, <1>14, <3>1
      <3>2. CASE x # m
        <4>1. PICK i \in StartsOfWords(r) : x = b + i
          BY <1>10, <3>2
        <4>2. PICK k \in 1 .. n : i = start[k]
          BY <1>13
        <4> QED
          BY <1>14, <4>1, <4>2
      <3> QED
        BY <3>1, <3>2
    <2> QED
      BY <1>16, <2>1
  <1>21. n <= Len(t) /\ Len(t) \in Nat
    BY <1>13
  <1>22. ASSUME NEW k \in 1 .. n + 1 PROVE words[k] = WordAt(line, begin[k])
    <2>1. CASE k = 1
      BY <1>11, <1>14, <1>17, <2>1
    <2>2. CASE k # 1
      <3>1. k - 1 \in 1 .. n /\ k - 1 \in 1 .. Len(t) /\ k = k - 1 + 1
        BY <1>13, <1>15, <1>21, <2>2
      <3>2. words[k] = t[k - 1]
        BY <1>17, <3>1
      <3>3. begin[k] = b + start[k - 1]
        BY <1>14, <3>1
      <3> QED
        BY <1>12, <1>13, <1>18, <3>1, <3>2, <3>3
    <2> QED
      BY <2>1, <2>2
  <1>23. r # <<>> <=> b < N
    BY <1>6, <1>9
  <1>24. line # <<>> /\ IsSpace(line[N]) <=> r # <<>> /\ IsSpace(r[Len(r)])
    <2>1. line # <<>>
      BY <1>1, <1>2
    <2>2. CASE b < N
      <3>1. N - b \in 1 .. N - b /\ b + (N - b) = N
        BY <1>6, <2>2
      <3> QED
        BY <1>9, <1>23, <2>1, <2>2, <3>1
    <2>3. CASE b = N
      <3>1. N \in m .. b
        BY <1>sizes, <2>3
      <3>2. ~IsSpace(line[N]) /\ ~(r # <<>>)
        BY <1>7, <1>23, <2>3, <3>1, <1>sizes
      <3> QED
        BY <3>2
    <2> QED
      BY <1>6, <2>2, <2>3
  <1>25. IF line # <<>> /\ IsSpace(line[Len(line)]) THEN Len(words) = n + 1 + 1 /\ words[n + 1 + 1] = <<>>
         ELSE Len(words) = n + 1
    <2>1. CASE r # <<>> /\ IsSpace(r[Len(r)])
      <3>1. Len(t) = n + 1 /\ t[n + 1] = <<>> /\ n + 1 \in 1 .. Len(t)
        BY <1>13, <2>1
      <3>2. Len(words) = n + 1 + 1
        BY <1>n, <1>17, <3>1
      <3>3. words[n + 1 + 1] = <<>>
        BY <1>17, <3>1
      <3> QED
        BY <1>1, <1>24, <2>1, <3>2, <3>3
    <2>2. CASE ~(r # <<>> /\ IsSpace(r[Len(r)]))
      BY <1>1, <1>13, <1>17, <1>24, <2>2
    <2> QED
      BY <2>1, <2>2
  <1>26. Cuts(words, line, n + 1, begin)
    BY <1>13, <1>16, <1>19, <1>20, <1>22, <1>25 DEF Cuts
  <1> QED
    BY <1>26 DEF words

\* Tokenize cuts a line into the words that start where a word starts.
LEMMA TokenizeCuts ==
    ASSUME NEW line \in Seq(Chars)
    PROVE  \E n, start : Cuts(Tokenize(line), line, n, start)
  <1> DEFINE D == Seq(Chars)
             size == [s \in D |-> Len(s)]
             S == {s \in D : \E n, start : Cuts(Tokenize(s), s, n, start)}
  <1>1. size \in [D -> Nat] /\ \A s \in D : size[s] = Len(s)
    OBVIOUS
  <1>2. \E n, start : Cuts(<<>>, <<>>, n, start)
    <2>1. StartsOfWords(<<>>) = {}
      BY DEF StartsOfWords
    <2>2. PICK start : start \in [1 .. 0 -> {}]
      <3>1. [k \in 1 .. 0 |-> 0] \in [1 .. 0 -> {}]
        OBVIOUS
      <3> QED
        BY <3>1
    <2>3. 0 \in Nat /\ 1 .. 0 = {} /\ Len(<<>>) = 0
      OBVIOUS
    <2>4. {start[k] : k \in 1 .. 0} = {}
      BY <2>3
    <2>5. Cuts(<<>>, <<>>, 0, start)
      BY <2>1, <2>2, <2>3, <2>4 DEF Cuts
    <2> QED
      BY <2>5
  <1>3. ASSUME NEW s \in D, s # <<>>, \E n, start : Cuts(Tokenize(Rest(s)), Rest(s), n, start)
        PROVE  \E n, start : Cuts(Tokenize(s), s, n, start)
    <2>1. PICK t : t = Tokenize(Rest(s))
      OBVIOUS
    <2>2. Rest(s) \in D /\ t \in Seq(D)
      <3>1. Rest(s) \in D
        BY <1>3, WordAndRest
      <3>2. Rest(s) = <<>> => t = <<>>
        BY <2>1, <3>1, TokenizeStep
      <3>3. Rest(s) # <<>> => t \in Seq(D)
        BY <2>1, <3>1, TokenizeIs
      <3> QED
        BY <3>1, <3>2, <3>3
    <2>3. Tokenize(s) = <<Word(s)>> \o t
      BY <1>3, <2>1, TokenizeStep
    <2>4. CASE SpacesOnly(s)
      <3>1. Rest(s) = <<>> /\ \E start : Cuts(<<Word(s)>>, s, 0, start)
        BY <1>3, <2>4, CutSpaces
      <3>2. t = <<>>
        BY <2>1, <2>2, <3>1, TokenizeStep
      <3>3. \A v : <<v>> \o <<>> = <<v>>
        OBVIOUS
      <3>4. Tokenize(s) = <<Word(s)>>
        BY <2>3, <3>2, <3>3
      <3> QED
        BY <3>1, <3>4
    <2>5. CASE ~SpacesOnly(s)
      <3>1. PICK m : FirstAt(s, m)
        BY <2>5, SkipEnds
      <3>2. PICK n, start : Cuts(t, Rest(s), n, start)
        BY <1>3, <2>1
      <3>3. \E begin : Cuts(<<Word(s)>> \o t, s, n + 1, begin)
        BY <2>2, <3>1, <3>2, CutFirst
      <3> QED
        BY <2>3, <3>3
    <2> QED
      BY <2>4, <2>5
  <1>4. ASSUME NEW s \in D, \A t \in D : size[t] < size[s] => t \in S PROVE s \in S
    <2>1. CASE s = <<>>
      <3>1. Tokenize(s) = <<>>
        BY <2>1, TokenizeStep
      <3> QED
        BY <1>2, <2>1, <3>1
    <2>2. CASE s # <<>>
      <3>1. Rest(s) \in D /\ size[Rest(s)] < size[s]
        BY <1>1, <2>2, WordAndRest
      <3>2. \E n, start : Cuts(Tokenize(Rest(s)), Rest(s), n, start)
        BY <1>4, <3>1
      <3> QED
        BY <1>3, <2>2, <3>2
    <2> QED
      BY <2>1, <2>2
  <1>5. D \subseteq S
    <2> HIDE DEF S, D, size
    <2> QED
      BY <1>1, <1>4, SizeInduction
  <1> QED
    BY <1>5

-----------------------------------------------------------------------------
(* Keys *)

\* What may be stored in g_KeyInfo.
Keys ==
    {"\r", "BS", "\t"}
    \cup UNION {TranslateToASCII(scancode, uppercase) : scancode \in Scancodes, uppercase \in BOOLEAN}

Before(place, n) == \A i \in DOMAIN taken : place[i] < n

\* The keys that GetKey returned have increasing places among those stored, ...
Places(place) ==
    /\ place \in [DOMAIN taken -> DOMAIN stored]
    /\ \A i, j \in DOMAIN taken : i < j => place[i] < place[j]
    /\ \A i \in DOMAIN taken : taken[i] = stored[place[i]]

\* ... all before the key that waits in g_KeyInfo, which is the last one stored ...
WaitingInv(place) ==
    g_KeyInfo.key # NoKey =>
        Len(stored) > 0 /\ g_KeyInfo.key = stored[Len(stored)] /\ Before(place, Len(stored))

\* ... and before the one that GetKey has read and is about to clear, behind which
\* the handler may have stored others since.
ReadInv(place) ==
    pc = "clear" => \E n \in DOMAIN stored : key = stored[n] /\ Before(place, n)

IInv ==
    /\ g_KeyInfo \in [key : Keys \cup {NoKey}, uppercase : BOOLEAN]
    /\ stored \in Seq(Keys) /\ taken \in Seq(Keys)
    /\ pc = "read" => g_KeyInfo.key # NoKey
    /\ \E place : Places(place) /\ WaitingInv(place) /\ ReadInv(place)

-----------------------------------------------------------------------------
LEMMA IInvInit == Init => IInv
  <1> SUFFICES ASSUME Init PROVE IInv
    OBVIOUS
  <1> DEFINE place == [i \in {} |-> 0]
  <1>1. taken = <<>> /\ stored = <<>> /\ pc = "prompt"
        /\ g_KeyInfo = [key |-> NoKey, uppercase |-> FALSE]
    BY DEF Init
  <1>2. DOMAIN taken = {} /\ DOMAIN stored = {} /\ taken \in Seq(Keys) /\ stored \in Seq(Keys)
    BY <1>1
  <1>3. Places(place) /\ WaitingInv(place) /\ ReadInv(place)
    BY <1>1, <1>2 DEF Places, WaitingInv, ReadInv
  <1> QED
    BY <1>1, <1>2, <1>3 DEF IInv

\* What the handler may store.
LEMMA KeysAreKnown ==
    ASSUME IInv, NEW scancode \in Scancodes, NEW k \in KeysOf(scancode)
    PROVE  k \in Keys
  <1>1. g_KeyInfo.uppercase \in BOOLEAN
    BY DEF IInv
  <1> QED
    BY <1>1 DEF KeysOf, Keys

LEMMA HandlerStep ==
    ASSUME IInv, NEW scancode \in Scancodes, IRQKeyboardHandler(scancode)
    PROVE  IInv'
  <1>1. PICK place : Places(place) /\ WaitingInv(place) /\ ReadInv(place)
    BY DEF IInv
  <1>2. /\ taken' = taken /\ key' = key
        /\ pc' \in {"clear", "read"} => pc' = pc
    BY DEF IRQKeyboardHandler
  <1>3. stored \in Seq(Keys) /\ taken \in Seq(Keys)
    BY DEF IInv
  <1>4. CASE stored' = stored /\ g_KeyInfo' \in [key : {g_KeyInfo.key}, uppercase : BOOLEAN]
    <2>1. g_KeyInfo'.key = g_KeyInfo.key
      BY <1>4
    <2>2. Places(place)' /\ WaitingInv(place)' /\ ReadInv(place)'
      BY <1>1, <1>2, <1>4, <2>1 DEF Places, WaitingInv, ReadInv, Before
    <2> QED
      BY <1>2, <1>4, <2>1, <2>2 DEF IInv
  <1>5. ASSUME NEW k \in Keys \ {NoKey}, g_KeyInfo' = [g_KeyInfo EXCEPT !.key = k],
               stored' = Append(stored, k)
        PROVE  IInv'
    <2>1. /\ stored' \in Seq(Keys) /\ Len(stored') = Len(stored) + 1
          /\ \A i \in DOMAIN stored : i \in DOMAIN stored' /\ stored'[i] = stored[i]
          /\ stored'[Len(stored')] = k
          /\ DOMAIN stored = 1 .. Len(stored) /\ Len(stored) \in Nat
      BY <1>3, <1>5
    <2>2. /\ g_KeyInfo' \in [key : Keys \cup {NoKey}, uppercase : BOOLEAN]
          /\ g_KeyInfo'.key = k
      BY <1>5 DEF IInv
    <2>3. Places(place)'
      BY <1>1, <1>2, <2>1 DEF Places
    <2>4. Before(place, Len(stored) + 1)
      BY <1>1, <2>1 DEF Places, Before
    <2>5. WaitingInv(place)'
      BY <1>2, <2>1, <2>2, <2>4 DEF WaitingInv, Before
    <2>6. ReadInv(place)'
      BY <1>1, <1>2, <2>1 DEF ReadInv, Before
    <2> QED
      BY <1>2, <1>3, <1>5, <2>1, <2>2, <2>3, <2>5, <2>6 DEF IInv
  <1>6. g_KeyInfo \in [key : Keys \cup {NoKey}, uppercase : BOOLEAN]
    BY DEF IInv
  <1>7. CASE ShiftChanged(scancode)
    <2> DEFINE up == scancode \in {LeftShift, RightShift}
    <2>1. up \in BOOLEAN
      OBVIOUS
    <2>2. g_KeyInfo' = [g_KeyInfo EXCEPT !.uppercase = up] /\ stored' = stored
      BY <1>7 DEF ShiftChanged
    <2> HIDE DEF up
    <2>3. g_KeyInfo' \in [key : {g_KeyInfo.key}, uppercase : BOOLEAN]
      BY <1>6, <2>1, <2>2
    <2> QED
      BY <1>4, <2>2, <2>3
  <1>8. CASE KeyStored(scancode)
    <2>1. PICK k \in KeysOf(scancode) :
            IF k = NoKey THEN UNCHANGED <<g_KeyInfo, stored>>
            ELSE g_KeyInfo' = [g_KeyInfo EXCEPT !.key = k] /\ stored' = Append(stored, k)
      BY <1>8 DEF KeyStored
    <2>2. CASE k = NoKey
      BY <1>4, <1>6, <2>1, <2>2
    <2>3. CASE k # NoKey
      BY <1>5, <2>1, <2>3, KeysAreKnown
    <2> QED
      BY <2>2, <2>3
  <1> QED
    BY <1>7, <1>8 DEF IRQKeyboardHandler

\* The step that returns a key: the one read gets its place behind the others.
LEMMA ClearKeyStep ==
    ASSUME IInv, ClearKey
    PROVE  IInv'
  <1>1. PICK place : Places(place) /\ WaitingInv(place) /\ ReadInv(place)
    BY DEF IInv
  <1>2. /\ pc = "clear" /\ pc' = "edit" /\ stored' = stored /\ taken' = Append(taken, key)
        /\ g_KeyInfo' = [g_KeyInfo EXCEPT !.key = NoKey]
    BY DEF ClearKey, Goto, Cleared
  <1>3. stored \in Seq(Keys) /\ taken \in Seq(Keys)
    BY DEF IInv
  <1>4. PICK n \in DOMAIN stored : key = stored[n] /\ Before(place, n)
    BY <1>1, <1>2 DEF ReadInv
  <1>5. key \in Keys
    BY <1>3, <1>4
  <1>6. /\ taken' \in Seq(Keys) /\ Len(taken) \in Nat
        /\ DOMAIN taken = 1 .. Len(taken) /\ DOMAIN taken' = 1 .. Len(taken) + 1
        /\ \A i \in DOMAIN taken : taken'[i] = taken[i]
        /\ taken'[Len(taken) + 1] = key
    BY <1>2, <1>3, <1>5
  <1>7. PICK longer :
           longer = [i \in 1 .. Len(taken) + 1 |-> IF i = Len(taken) + 1 THEN n ELSE place[i]]
    OBVIOUS
  <1>8. /\ \A i \in DOMAIN taken : longer[i] = place[i] /\ i # Len(taken) + 1
        /\ longer[Len(taken) + 1] = n
        /\ \A i \in DOMAIN taken' : i \in DOMAIN taken \/ i = Len(taken) + 1
    BY <1>6, <1>7
  <1>9. longer \in [DOMAIN taken' -> DOMAIN stored]
    BY <1>1, <1>6, <1>8, <1>7 DEF Places
  <1>10. \A i, j \in DOMAIN taken' : i < j => longer[i] < longer[j]
    <2> SUFFICES ASSUME NEW i \in DOMAIN taken', NEW j \in DOMAIN taken', i < j
                 PROVE  longer[i] < longer[j]
      OBVIOUS
    <2>1. i \in DOMAIN taken
      BY <1>6
    <2>2. CASE j \in DOMAIN taken
      BY <1>1, <1>8, <2>1, <2>2 DEF Places
    <2>3. CASE j = Len(taken) + 1
      BY <1>4, <1>8, <2>1, <2>3 DEF Before
    <2> QED
      BY <1>8, <2>2, <2>3
  <1>11. \A i \in DOMAIN taken' : taken'[i] = stored[longer[i]]
    BY <1>1, <1>4, <1>6, <1>8 DEF Places
  <1>12. Places(longer)'
    BY <1>2, <1>9, <1>10, <1>11 DEF Places
  <1>13. g_KeyInfo' \in [key : Keys \cup {NoKey}, uppercase : BOOLEAN] /\ g_KeyInfo'.key = NoKey
    BY <1>2 DEF IInv
  <1>14. WaitingInv(longer)' /\ ReadInv(longer)'
    BY <1>2, <1>13 DEF WaitingInv, ReadInv
  <1> QED
    BY <1>2, <1>3, <1>6, <1>12, <1>13, <1>14 DEF IInv

LEMMA ReadKeyStep ==
    ASSUME IInv, ReadKey
    PROVE  IInv'
  <1>1. PICK place : Places(place) /\ WaitingInv(place) /\ ReadInv(place)
    BY DEF IInv
  <1>2. /\ pc = "read" /\ pc' = "clear" /\ key' = g_KeyInfo.key
        /\ UNCHANGED <<g_KeyInfo, stored, taken>>
    BY DEF ReadKey, Goto
  <1>3. /\ g_KeyInfo.key # NoKey
        /\ stored \in Seq(Keys) /\ Len(stored) \in Nat /\ DOMAIN stored = 1 .. Len(stored)
    BY <1>2 DEF IInv
  <1>4. Places(place)' /\ WaitingInv(place)'
    BY <1>1, <1>2 DEF Places, WaitingInv, Before
  <1>5. ReadInv(place)'
    <2>1. /\ Len(stored) \in DOMAIN stored /\ key' = stored[Len(stored)]
          /\ Before(place, Len(stored))
      BY <1>1, <1>2, <1>3 DEF WaitingInv
    <2> QED
      BY <1>2, <2>1 DEF ReadInv, Before
  <1> QED
    BY <1>2, <1>4, <1>5 DEF IInv

\* The other steps of the kernel task leave the keys alone.
LEMMA OtherStep ==
    ASSUME IInv, UNCHANGED <<g_KeyInfo, key, stored, taken>>,
           pc' # "clear" \/ pc' = pc, pc' = "read" => pc = "read" \/ g_KeyInfo.key # NoKey
    PROVE  IInv'
  <1>1. PICK place : Places(place) /\ WaitingInv(place) /\ ReadInv(place)
    BY DEF IInv
  <1>2. Places(place)' /\ WaitingInv(place)' /\ ReadInv(place)'
    BY <1>1 DEF Places, WaitingInv, ReadInv, Before
  <1> QED
    BY <1>2 DEF IInv

LEMMA IInvStep == IInv /\ [Next]_vars => IInv'
  <1> SUFFICES ASSUME IInv, [Next]_vars PROVE IInv'
    OBVIOUS
  <1>1. CASE TimerTick
    BY <1>1, OtherStep DEF TimerTick, Awake
  <1>2. CASE TestKey \/ Halt
    BY <1>2, OtherStep DEF TestKey, Halt, Goto
  <1>3. CASE ReadKey
    BY <1>3, ReadKeyStep
  <1>4. CASE ClearKey
    BY <1>4, ClearKeyStep
  <1>5. CASE ShowPrompt
    BY <1>5, OtherStep DEF ShowPrompt, NoKeyboard, Goto
  <1>6. CASE Edit
    BY <1>6, OtherStep DEF Edit, EnterPressed, BackSpacePressed, TabPressed, CharPressed,
                           LineOverrun, Submit, NoKeyboard, Goto
  <1>7. CASE RunCommand
    BY <1>7, OtherStep DEF RunCommand, RunEcho, RunClear, RunDir, RunRead, RunLspci, RunUnknown,
                           Done, NoKeyboard, Goto
  <1>8. CASE \E scancode \in Scancodes : IRQKeyboardHandler(scancode)
    BY <1>8, HandlerStep
  <1>9. CASE UNCHANGED vars
    BY <1>9, OtherStep DEF vars
  <1> QED
    BY <1>1, <1>2, <1>3, <1>4, <1>5, <1>6, <1>7, <1>8, <1>9 DEF Next, Shell, GetKey

\* GetKey and IRQKeyboardHandler share one character without a lock, and GetKey
\* reads it and clears it in two steps: a key may be lost there, but none is returned
\* twice or before an earlier one.
THEOREM KeysComeOnceInOrderAlways == Spec => []KeysComeOnceInOrder
  <1>1. ASSUME IInv PROVE KeysComeOnceInOrder
    BY <1>1 DEF IInv, Places, KeysComeOnceInOrder, IsSubSeq
  <1> QED
    BY <1>1, IInvInit, IInvStep, PTL DEF Spec

-----------------------------------------------------------------------------
(* The screen and the line *)

LEMMA KeysAreChars ==
    /\ Keys \subseteq Chars
    /\ "\n" \notin Stray => "\n" \notin Keys
  <1>1. ASSUME NEW k \in Keys PROVE k \in Chars /\ ("\n" \notin Stray => k # "\n")
    <2>1. CASE k \in {"\r", "BS", "\t"}
      <3>1. k \in Chars
        BY <2>1 DEF Chars
      <3>2. k # "\n"
        BY <2>1
      <3> QED
        BY <3>1, <3>2
    <2>2. ASSUME NEW scancode \in Scancodes, NEW uppercase \in BOOLEAN, k \in TranslateToASCII(scancode, uppercase)
          PROVE  k \in Chars /\ ("\n" \notin Stray => k # "\n")
      <3> DEFINE found == IF scancode = 58 THEN Stray ELSE {ASCIITable[scancode + 1]}
      <3>1. NoKey \in Chars /\ NoKey # "\n"
        <4>1. ASCIITable[1] = NoKey /\ 1 \in 1 .. 58
          BY DEF ASCIITable
        <4>2. NoKey \in ToSet(ASCIITable)
          BY <4>1, TablesAre DEF ToSet
        <4> QED
          BY <4>1, <4>2, TablesAre DEF Chars
      <3>2. CASE scancode > 58
        BY <2>2, <3>1, <3>2 DEF TranslateToASCII
      <3>3. CASE ~(scancode > 58)
        <4>1. PICK c \in found : k = IF uppercase /\ c \in DOMAIN Shifted THEN Shifted[c] ELSE c
          BY <2>2, <3>3 DEF TranslateToASCII
        <4>2. c \in Chars /\ ("\n" \notin Stray => c # "\n")
          <5>1. CASE scancode = 58
            BY <5>1 DEF Chars
          <5>2. CASE scancode # 58
            <6>1. scancode + 1 \in 1 .. 58 /\ c = ASCIITable[scancode + 1]
              BY <3>3, <5>2, InputsAssumption
            <6>2. c \in ToSet(ASCIITable) /\ c # "\n"
              BY <6>1, TablesAre DEF ToSet
            <6> QED
              BY <6>2 DEF Chars
          <5> QED
            BY <5>1, <5>2
        <4>3. c \in DOMAIN Shifted => Shifted[c] \in Chars /\ Shifted[c] # "\n"
          <5> SUFFICES ASSUME c \in DOMAIN Shifted PROVE Shifted[c] \in Chars /\ Shifted[c] # "\n"
            OBVIOUS
          <5>1. c \in ToSet(Lower) /\ Shifted[c] = Upper[CHOOSE i \in DOMAIN Lower : Lower[i] = c]
            BY DEF Shifted
          <5>2. PICK i \in DOMAIN Lower : Shifted[c] = Upper[i]
            BY <5>1 DEF ToSet
          <5>3. DOMAIN Lower = 1 .. 47
            BY DEF Lower
          <5>4. Upper[i] \in ToSet(Upper) /\ Upper[i] # "\n"
            BY <5>3, TablesAre DEF ToSet
          <5> QED
            BY <5>2, <5>4 DEF Chars
        <4> QED
          BY <4>1, <4>2, <4>3
      <3> QED
        BY <3>2, <3>3
    <2> QED
      BY <2>1, <2>2 DEF Keys
  <1> QED
    BY <1>1

LEMMA PlainOne == ASSUME NEW a, a # "%" PROVE printf(<<a>>, <<>>) = <<a>>
  <1>1. PICK fmt : fmt = <<a>>
    OBVIOUS
  <1>2. fmt \in Seq({a}) /\ \A i \in 1 .. Len(fmt) : fmt[i] # "%"
    BY <1>1
  <1> QED
    BY <1>1, <1>2, PlainPrints

LEMMA PlainTwo == ASSUME NEW a, NEW b, a # "%", b # "%" PROVE printf(<<a, b>>, <<>>) = <<a, b>>
  <1>1. PICK fmt : fmt = <<a, b>>
    OBVIOUS
  <1>2. fmt \in Seq({a, b}) /\ \A i \in 1 .. Len(fmt) : fmt[i] # "%"
    BY <1>1
  <1> QED
    BY <1>1, <1>2, PlainPrints

LEMMA TwoIs == ASSUME NEW X, NEW a \in X, NEW b \in X PROVE <<a, b>> \in Seq(X)
  OBVIOUS

\* The messages of the shell, and the keys it prints.
LEMMA MessagesAre ==
    /\ printf(Prompt, <<>>) = Prompt /\ Prompt \in Seq(LineChars)
    /\ \A c \in {"W", "P", "C"} : printf(<<c, "\n">>, <<>>) \in Seq(LineChars)
    /\ \A c \in {"\n", "BS", "\t"} : printf(<<c>>, <<>>) = <<c>> /\ <<c>> \in Seq(LineChars) /\ c \in Chars
  <1>1. {"$", " ", "\n", "BS", "\t", "W", "P", "C"} \subseteq LineChars
    BY DEF LineChars, Chars, Background
  <1>2. printf(Prompt, <<>>) = Prompt /\ Prompt \in Seq(LineChars)
    <2>1. "$" # "%" /\ " " # "%"
      OBVIOUS
    <2> QED
      BY <1>1, <2>1, PlainTwo, TwoIs DEF Prompt
  <1>3. ASSUME NEW c \in {"W", "P", "C"} PROVE printf(<<c, "\n">>, <<>>) \in Seq(LineChars)
    <2>1. c # "%" /\ "\n" # "%" /\ c \in LineChars /\ "\n" \in LineChars
      BY <1>1
    <2>2. printf(<<c, "\n">>, <<>>) = <<c, "\n">>
      BY <2>1, PlainTwo
    <2> QED
      BY <2>1, <2>2, TwoIs
  <1>4. ASSUME NEW c \in {"\n", "BS", "\t"}
        PROVE  printf(<<c>>, <<>>) = <<c>> /\ <<c>> \in Seq(LineChars) /\ c \in Chars
    <2>1. c # "%" /\ c \in LineChars
      BY <1>1
    <2> QED
      BY <2>1, PlainOne, OneIs DEF LineChars
  <1> QED
    BY <1>2, <1>3, <1>4

LEMMA TextsAre ==
    ASSUME NEW text \in Texts
    PROVE  text \in Seq(Chars) /\ Append(text, "\n") \in Seq(Chars)
  <1>1. text \in Seq(ToSet(text))
    BY InputsAssumption
  <1>2. ToSet(text) \subseteq Chars /\ "\n" \in Chars
    BY DEF Chars
  <1>3. text \in Seq(Chars)
    BY <1>1, <1>2, SeqMonotonic
  <1> QED
    BY <1>2, <1>3, AppendIs

Editing == {"test", "hlt", "halted", "read", "clear", "edit"}

\* The line, its words and the cursor.
TextInv ==
    /\ pc \in Editing \cup {"prompt", "run", "fault"}
    /\ key \in Keys \cup {NoKey}
    /\ pc \in {"clear", "edit"} => key # NoKey
    /\ cmdString \in Seq(LineChars)
    /\ pc = "run" => argv \in Seq(Seq(LineChars)) /\ argv # <<>>
    /\ Shows(screen)

\* What the shell prints: nothing, the command's texts, or what ends a line.
\* Nothing follows the cursor, and while a line is edited it is before the cursor.
LineInv ==
    /\ Clean(screen)
    /\ pc \in Editing => EndsWith(screen, Prompt \o cmdString)

\* The steps that leave the line and the screen alone.
LEMMA KeyStepText ==
    ASSUME IInv, IInv', TextInv, TimerTick \/ GetKey \/ \E scancode \in Scancodes : IRQKeyboardHandler(scancode)
    PROVE  /\ TextInv' /\ screen' = screen /\ cmdString' = cmdString
           /\ pc \in Editing => pc' \in Editing
           /\ pc' \in Editing => pc \in Editing
  <1>1. /\ UNCHANGED <<screen, cmdString, argv>>
        /\ pc' # pc => pc \in Editing /\ pc' \in Editing
        /\ pc' \in {"clear", "edit"} => (pc \in {"clear", "edit"} /\ key' = key) \/ (key' = g_KeyInfo.key /\ pc = "read")
        /\ key' = key \/ key' = g_KeyInfo.key
    <2>1. CASE TimerTick
      BY <2>1 DEF TimerTick, Awake, Editing
    <2>2. CASE TestKey
      BY <2>2 DEF TestKey, Goto, Editing
    <2>3. CASE Halt
      BY <2>3 DEF Halt, Goto, Editing
    <2>4. CASE ReadKey
      BY <2>4 DEF ReadKey, Goto, Editing
    <2>5. CASE ClearKey
      BY <2>5 DEF ClearKey, Goto, Editing
    <2>6. CASE \E scancode \in Scancodes : IRQKeyboardHandler(scancode)
      <3>1. /\ UNCHANGED <<key, cmdString, argv, screen>>
            /\ pc' = IF pc = "halted" THEN "test" ELSE pc
        BY <2>6 DEF IRQKeyboardHandler
      <3> QED
        BY <3>1 DEF Editing
    <2> QED
      BY <2>1, <2>2, <2>3, <2>4, <2>5, <2>6 DEF GetKey
  <1>2. g_KeyInfo.key \in Keys \cup {NoKey} /\ (pc = "read" => g_KeyInfo.key # NoKey)
    BY DEF IInv
  <1> QED
    BY <1>1, <1>2 DEF TextInv, Editing

LEMMA LinePrinted ==
    ASSUME NEW s, Shows(s), NEW text \in Seq(LineChars)
    PROVE  Shows(puts(s, text)) /\ (Clean(s) => Clean(puts(s, text)))
  <1>1. text \in Seq(Chars)
    BY LineCharsAre, SeqMonotonic
  <1>2. \A i \in DOMAIN text : text[i] # "\r"
    BY DEF LineChars
  <1> QED
    BY <1>1, <1>2, PutsShows, PutsClean

LEMMA TextPrinted ==
    ASSUME NEW s, Shows(s), NEW text \in Texts
    PROVE  /\ Shows(puts(s, text)) /\ Shows(puts(s, Append(text, "\n")))
           /\ Clean(s) /\ InputsKeepTheLine => Clean(puts(s, text)) /\ Clean(puts(s, Append(text, "\n")))
  <1>1. PICK u : u = Append(text, "\n") /\ u \in Seq(Chars) /\ text \in Seq(Chars)
    BY TextsAre
  <1>2. Shows(puts(s, text)) /\ Shows(puts(s, u))
    BY <1>1, PutsShows
  <1>3. ASSUME Clean(s), InputsKeepTheLine PROVE Clean(puts(s, text)) /\ Clean(puts(s, u))
    <2>1. EndsItsLines(text)
      BY <1>3 DEF InputsKeepTheLine
    <2>2. EndsItsLines(u)
      <3>1. /\ Len(u) = Len(text) + 1 /\ u[Len(text) + 1] = "\n" /\ \A i \in 1 .. Len(text) : u[i] = text[i]
            /\ DOMAIN u = 1 .. Len(u) /\ DOMAIN text = 1 .. Len(text) /\ Len(text) \in Nat
        <4>1. "\n" \in Chars
          BY DEF Chars
        <4> QED
          BY <1>1, <4>1, AppendIs
      <3>2. \A i \in DOMAIN u : i \in DOMAIN text \/ u[i] = "\n"
        BY <3>1
      <3>3. CASE \A i \in DOMAIN text : text[i] # "\r"
        <4>1. \A i \in DOMAIN u : u[i] # "\r"
          BY <3>1, <3>2, <3>3
        <4> QED
          BY <4>1 DEF EndsItsLines
      <3>4. CASE \A i \in DOMAIN text : text[i] # "BS"
        <4>1. \A i \in DOMAIN u : u[i] # "BS"
          BY <3>1, <3>2, <3>4
        <4> QED
          BY <3>1, <4>1 DEF EndsItsLines
      <3> QED
        BY <2>1, <3>3, <3>4 DEF EndsItsLines
    <2> QED
      BY <1>1, <1>3, <2>1, <2>2, PutsEndsLines
  <1> QED
    BY <1>1, <1>2, <1>3

\* A step after which the line is done with: what it prints leaves the screen clean.
LEMMA BackToPrompt ==
    ASSUME TextInv, NoKeyboard, UNCHANGED cmdString, pc' = "prompt",
           Shows(screen'), InputsKeepTheLine /\ LineInv => Clean(screen')
    PROVE  TextInv' /\ (InputsKeepTheLine /\ LineInv => LineInv')
  <1>1. TextInv'
    BY DEF TextInv, NoKeyboard, Editing
  <1>2. pc' \notin Editing
    BY DEF Editing
  <1> QED
    BY <1>1, <1>2 DEF LineInv

LEMMA RunCommandText ==
    ASSUME TextInv, RunCommand
    PROVE  TextInv' /\ (InputsKeepTheLine /\ LineInv => LineInv')
  <1>1. Shows(screen) /\ (LineInv => Clean(screen)) /\ cmdString \in Seq(LineChars)
    BY DEF TextInv, LineInv
  <1>2. Done => NoKeyboard /\ UNCHANGED cmdString /\ pc' = "prompt"
    BY DEF Done, Goto
  <1>3. ASSUME Done, NEW text \in Seq(LineChars), screen' = puts(screen, text)
        PROVE  TextInv' /\ (InputsKeepTheLine /\ LineInv => LineInv')
    <2>1. Shows(screen') /\ (LineInv => Clean(screen'))
      BY <1>1, <1>3, LinePrinted
    <2> QED
      BY <1>2, <1>3, <2>1, BackToPrompt
  <1>4. CASE RunEcho
    <2>1. pc = "run" /\ Done
      BY <1>4 DEF RunEcho, Runs
    <2> DEFINE W == Seq(LineChars)
    <2>2. argv \in Seq(W) /\ argv # <<>>
      BY <2>1 DEF TextInv
    <2>3. PICK words \in Seq(W) : words = Tail(argv)
      <3> HIDE DEF W
      <3>1. Tail(argv) \in Seq(W)
        BY <2>2
      <3> QED
        BY <3>1
    <2> DEFINE lines == [n \in DOMAIN words |-> EchoWord(words[n])]
               text == Append(FlattenSeq(lines), "\n")
    <2>4. screen' = puts(screen, text)
      BY <1>4, <2>3 DEF RunEcho
    <2>5. lines \in Seq(W)
      <3>1. \A n \in DOMAIN words : words[n] \in W
        OBVIOUS
      <3>2. \A n \in DOMAIN words : EchoWord(words[n]) \in W
        BY <3>1, EchoWordIs
      <3>3. PICK m \in Nat : DOMAIN words = 1 .. m
        OBVIOUS
      <3> HIDE DEF W
      <3>4. lines \in [1 .. m -> W]
        BY <3>2, <3>3
      <3> HIDE DEF lines
      <3> QED
        BY <3>4
    <2> HIDE DEF lines
    <2>6. FlattenSeq(lines) \in Seq(LineChars) /\ "\n" \in LineChars
      BY <2>5, FlattenIs, LineCharsAre
    <2>7. text \in Seq(LineChars)
      BY <2>6, AppendIs
    <2> HIDE DEF text
    <2> QED
      BY <1>3, <2>1, <2>4, <2>7
  <1>5. CASE RunClear
    <2>1. Done /\ screen' = console_clearScreen
      BY <1>5 DEF RunClear
    <2>2. Clean(screen') /\ Shows(screen')
      BY <2>1, ClearIsClean DEF Clean
    <2> QED
      BY <1>2, <2>1, <2>2, BackToPrompt
  <1>6. CASE RunDir
    <2>1. PICK text \in Texts : screen' = puts(screen, text)
      BY <1>6 DEF RunDir
    <2>2. Done
      BY <1>6 DEF RunDir
    <2>3. Shows(screen') /\ (InputsKeepTheLine /\ LineInv => Clean(screen'))
      BY <1>1, <2>1, TextPrinted
    <2> QED
      BY <1>2, <2>2, <2>3, BackToPrompt
  <1>7. CASE RunRead
    <2>1. CASE Say(<<"P", "\n">>, <<>>) /\ Done
      <3>1. printf(<<"P", "\n">>, <<>>) \in Seq(LineChars)
        BY MessagesAre
      <3> QED
        BY <1>3, <2>1, <3>1 DEF Say
    <2>2. CASE Done /\ \E text \in Texts : screen' = puts(screen, Append(text, "\n"))
      <3>1. PICK text \in Texts : screen' = puts(screen, Append(text, "\n"))
        BY <2>2
      <3>2. Shows(screen') /\ (InputsKeepTheLine /\ LineInv => Clean(screen'))
        BY <1>1, <3>1, TextPrinted
      <3> QED
        BY <1>2, <2>2, <3>2, BackToPrompt
    <2>3. CASE pc' = "fault" /\ UNCHANGED <<cmdString, argv, screen>> /\ NoKeyboard
      <3>1. TextInv'
        BY <2>3 DEF TextInv, NoKeyboard
      <3>2. pc' \notin Editing
        BY <2>3 DEF Editing
      <3> QED
        BY <2>3, <3>1, <3>2 DEF LineInv
    <2> QED
      BY <1>7, <2>1, <2>2, <2>3 DEF RunRead, Goto
  <1>8. CASE RunLspci
    <2> DEFINE W == Seq(LineChars)
               lines == [n \in DOMAIN Devices |-> DeviceLine(Devices[n])]
               text == FlattenSeq(lines)
    <2>1. Done /\ screen' = puts(screen, text)
      BY <1>8 DEF RunLspci
    <2>2. lines \in Seq(W)
      <3>1. PICK m \in Nat : DOMAIN Devices = 1 .. m /\ \A n \in 1 .. m : Devices[n] \in [vendorID : Nat, deviceID : Nat]
        <4>1. PICK R : R = [vendorID : Nat, deviceID : Nat] /\ Devices \in Seq(R)
          BY InputsAssumption
        <4>2. DOMAIN Devices = 1 .. Len(Devices) /\ Len(Devices) \in Nat /\ \A n \in 1 .. Len(Devices) : Devices[n] \in R
          BY <4>1, LenProperties, ElementOfSeq
        <4> QED
          BY <4>1, <4>2
      <3>2. \A n \in 1 .. m : DeviceLine(Devices[n]) \in W
        BY <3>1, DeviceLineIs
      <3> HIDE DEF W
      <3>3. lines \in [1 .. m -> W]
        BY <3>1, <3>2
      <3> HIDE DEF lines
      <3> QED
        BY <3>3
    <2> HIDE DEF lines
    <2>3. text \in Seq(LineChars)
      BY <2>2, FlattenIs
    <2> HIDE DEF text
    <2> QED
      BY <1>3, <2>1, <2>3
  <1>9. CASE RunUnknown
    <2>1. Say(<<"C", "\n">>, <<>>) /\ Done
      BY <1>9 DEF RunUnknown
    <2>2. printf(<<"C", "\n">>, <<>>) \in Seq(LineChars)
      BY MessagesAre
    <2> QED
      BY <1>3, <2>1, <2>2 DEF Say
  <1> QED
    BY <1>4, <1>5, <1>6, <1>7, <1>8, <1>9 DEF RunCommand

\* The steps that edit the line.
LEMMA PromptSeq ==
    ASSUME NEW line \in Seq(LineChars)
    PROVE  /\ Prompt \o line \in Seq(Chars) /\ Len(Prompt \o line) = 2 + Len(line)
           /\ Prompt \o line # <<>>
           /\ Prompt \o <<>> = Prompt
           /\ \A i \in 1 .. 2 : (Prompt \o line)[i] = Prompt[i]
           /\ \A i \in 1 .. Len(line) : (Prompt \o line)[2 + i] = line[i]
  <1>1. PICK p \in Seq(Chars), l \in Seq(Chars) : p = Prompt /\ l = line /\ Len(p) = 2
    <2>1. Len(Prompt) = 2
      BY DEF Prompt
    <2> QED
      BY <2>1, MessagesAre, LineCharsAre, SeqMonotonic
  <1>2. /\ p \o l \in Seq(Chars) /\ Len(p \o l) = Len(p) + Len(l)
        /\ \A i \in 1 .. Len(p) : (p \o l)[i] = p[i]
        /\ \A i \in 1 .. Len(l) : (p \o l)[Len(p) + i] = l[i]
    BY ConcatProperties
  <1>3. p \o <<>> = p
    OBVIOUS
  <1>4. p \o l # <<>>
    <2>1. Len(l) \in Nat /\ Len(p \o l) = 2 + Len(l)
      BY <1>1, <1>2
    <2>2. Len(p \o l) # 0
      BY <2>1
    <2> QED
      BY <2>2
  <1> QED
    BY <1>1, <1>2, <1>3, <1>4

LEMMA ShowPromptText ==
    ASSUME TextInv, ShowPrompt
    PROVE  TextInv' /\ (InputsKeepTheLine /\ LineInv => LineInv')
  <1>1. /\ pc' = "test" /\ cmdString' = <<>> /\ UNCHANGED argv /\ key' = key
        /\ screen' = puts(screen, printf(Prompt, <<>>))
    BY DEF ShowPrompt, Say, Goto, NoKeyboard
  <1>2. screen' = puts(screen, Prompt) /\ Prompt \in Seq(LineChars)
    BY <1>1, MessagesAre
  <1>3. Shows(screen)
    BY DEF TextInv
  <1>4. Shows(screen') /\ (Clean(screen) => Clean(screen'))
    BY <1>2, <1>3, LinePrinted
  <1>5. EndsWith(screen', Prompt)
    BY <1>2, <1>3, PutsPrompt DEF Shows
  <1>6. <<>> \in Seq(LineChars)
    OBVIOUS
  <1>7. TextInv'
    BY <1>1, <1>4, <1>6 DEF TextInv, Editing
  <1>8. Prompt \o cmdString' = Prompt
    BY <1>1, <1>6, PromptSeq
  <1> QED
    BY <1>4, <1>5, <1>7, <1>8 DEF LineInv

LEMMA EnterText ==
    ASSUME TextInv, EnterPressed
    PROVE  TextInv' /\ (InputsKeepTheLine /\ LineInv => LineInv')
  <1>1. /\ screen' = puts(screen, printf(<<"\n">>, <<>>)) /\ UNCHANGED cmdString /\ key' = key
        /\ pc' \in {"prompt", "run", "fault"}
        /\ pc' = "run" => cmdString # <<>> /\ argv' = Tokenize(cmdString)
    BY DEF EnterPressed, Say, Submit, Goto, NoKeyboard
  <1>2. printf(<<"\n">>, <<>>) \in Seq(LineChars)
    BY MessagesAre
  <1>3. Shows(screen) /\ cmdString \in Seq(LineChars)
    BY DEF TextInv
  <1>4. Shows(screen') /\ (Clean(screen) => Clean(screen'))
    BY <1>1, <1>2, <1>3, LinePrinted
  <1>5. pc' = "run" => argv' \in Seq(Seq(LineChars)) /\ argv' # <<>>
    BY <1>1, <1>3, LineCharsAre, TokenizeIs
  <1>6. TextInv' /\ pc' \notin Editing
    BY <1>1, <1>3, <1>4, <1>5 DEF TextInv, Editing
  <1> QED
    BY <1>4, <1>6 DEF LineInv

\* The line and the screen change by the same character.
LEMMA EditedText ==
    ASSUME TextInv, NoKeyboard, UNCHANGED argv, pc' = "test", cmdString' \in Seq(LineChars), Shows(screen'),
           InputsKeepTheLine /\ Clean(screen) /\ EndsWith(screen, Prompt \o cmdString)
               => Clean(screen') /\ EndsWith(screen', Prompt \o cmdString'),
           pc = "edit"
    PROVE  TextInv' /\ (InputsKeepTheLine /\ LineInv => LineInv')
  <1>1. TextInv' /\ pc' \in Editing /\ pc \in Editing
    BY DEF TextInv, NoKeyboard, Editing
  <1> QED
    BY <1>1 DEF LineInv

LEMMA BackSpaceText ==
    ASSUME TextInv, BackSpacePressed
    PROVE  TextInv' /\ (InputsKeepTheLine /\ LineInv => LineInv')
  <1>1. pc = "edit" /\ pc' = "test" /\ UNCHANGED argv /\ NoKeyboard
    BY DEF BackSpacePressed, Goto
  <1>2. Shows(screen) /\ OnScreen(screen) /\ cmdString \in Seq(LineChars)
    BY DEF TextInv, Shows
  <1>3. CASE cmdString = <<>>
    <2>1. UNCHANGED <<cmdString, screen>>
      BY <1>3 DEF BackSpacePressed
    <2> QED
      BY <1>1, <1>2, <2>1, EditedText
  <1>4. CASE cmdString # <<>>
    <2>1. cmdString' = Front(cmdString) /\ screen' = puts(screen, printf(<<"BS">>, <<>>))
      BY <1>4 DEF BackSpacePressed, Say
    <2>2. "BS" \in Chars /\ screen' = puts(screen, <<"BS">>)
      BY <2>1, MessagesAre
    <2>3. screen' = putc(screen, "BS")
      BY <1>2, <2>2, PutsOne
    <2>4. Shows(screen') /\ (Clean(screen) => Clean(screen'))
      BY <1>2, <2>2, <2>3, PutcShows, PutcClean
    <2>5. PICK text \in Seq(Chars) : text = Prompt \o cmdString /\ text # <<>> /\ Len(text) = 2 + Len(cmdString)
      BY <1>2, PromptSeq
    <2>6. EndsWith(screen, text) => EndsWith(screen', SubSeq(text, 1, Len(text) - 1))
      BY <1>2, <2>3, <2>5, BackText
    <2>7. PICK n \in Nat : n = Len(cmdString) /\ n > 0
      BY <1>2, <1>4
    <2>8. cmdString' = SubSeq(cmdString, 1, n - 1)
      BY <2>1, <2>7 DEF Front
    <2>9. /\ cmdString' \in Seq(LineChars) /\ Len(cmdString') = n - 1
          /\ \A i \in 1 .. n - 1 : cmdString'[i] = cmdString[i]
      <3>1. \A i \in 1 .. n - 1 : cmdString[i] \in LineChars
        BY <1>2, <2>7
      <3>2. PICK s : s = SubSeq(cmdString, 1, n - 1)
        OBVIOUS
      <3>3. /\ s \in Seq(LineChars) /\ Len(s) = IF 1 <= n - 1 THEN n - 1 - 1 + 1 ELSE 0
            /\ \A i \in 1 .. n - 1 - 1 + 1 : s[i] = cmdString[1 + i - 1]
        BY <2>7, <3>1, <3>2, SubSeqProperties
      <3>4. Len(s) = n - 1 /\ \A i \in 1 .. n - 1 : s[i] = cmdString[i]
        BY <2>7, <3>3
      <3> QED
        BY <2>8, <3>2, <3>3, <3>4
    <2>10. SubSeq(text, 1, Len(text) - 1) = Prompt \o cmdString'
      <3>1. PICK u, v : u = SubSeq(text, 1, Len(text) - 1) /\ v = Prompt \o cmdString'
        OBVIOUS
      <3>2. Len(text) = n + 2
        BY <2>5, <2>7
      <3>3. u \in Seq(Chars) /\ Len(u) = n + 1 /\ \A i \in 1 .. n + 1 : u[i] = text[i]
        <4>1. \A i \in 1 .. n + 1 : text[i] \in Chars
          BY <2>5, <3>2
        <4>2. /\ u \in Seq(Chars) /\ Len(u) = IF 1 <= n + 1 THEN n + 1 - 1 + 1 ELSE 0
              /\ \A i \in 1 .. n + 1 - 1 + 1 : u[i] = text[1 + i - 1]
          BY <2>7, <3>1, <3>2, <4>1, SubSeqProperties
        <4> QED
          BY <2>7, <4>2
      <3>4. /\ v \in Seq(Chars) /\ Len(v) = n + 1
            /\ \A i \in 1 .. 2 : v[i] = Prompt[i]
            /\ \A i \in 1 .. n - 1 : v[2 + i] = cmdString'[i]
        BY <2>7, <2>9, <3>1, PromptSeq
      <3>5. /\ \A i \in 1 .. 2 : text[i] = Prompt[i]
            /\ \A i \in 1 .. n : text[2 + i] = cmdString[i]
        BY <1>2, <2>5, <2>7, PromptSeq
      <3>6. ASSUME NEW i \in 1 .. n + 1 PROVE u[i] = v[i]
        <4>1. CASE i \in 1 .. 2
          BY <3>3, <3>4, <3>5, <4>1
        <4>2. CASE i \notin 1 .. 2
          <5>1. i - 2 \in 1 .. n - 1 /\ i - 2 \in 1 .. n /\ 2 + (i - 2) = i
            BY <2>7, <4>2
          <5>2. v[i] = cmdString'[i - 2] /\ text[i] = cmdString[i - 2]
            BY <3>4, <3>5, <5>1
          <5> QED
            BY <2>9, <3>3, <5>1, <5>2
        <4> QED
          BY <4>1, <4>2
      <3>7. u = v
        BY <3>3, <3>4, <3>6, SeqEqual
      <3> QED
        BY <3>1, <3>7
    <2> QED
      BY <1>1, <2>4, <2>5, <2>6, <2>9, <2>10, EditedText
  <1> QED
    BY <1>3, <1>4

LEMMA CharText ==
    ASSUME TextInv, CharPressed
    PROVE  TextInv' /\ (InputsKeepTheLine /\ LineInv => LineInv')
  <1>1. pc = "edit" /\ pc' = "test" /\ UNCHANGED argv /\ NoKeyboard
        /\ cmdString' = Append(cmdString, key) /\ screen' = putc(screen, key)
        /\ key \notin {"\r", "BS", "\t"}
    BY DEF CharPressed, Goto
  <1>2. Shows(screen) /\ OnScreen(screen) /\ cmdString \in Seq(LineChars) /\ key \in Keys
    BY <1>1 DEF TextInv, Shows
  <1>3. key \in Chars /\ key \in LineChars
    BY <1>1, <1>2, KeysAreChars DEF LineChars
  <1>4. Shows(screen') /\ (Clean(screen) => Clean(screen'))
    BY <1>1, <1>2, <1>3, PutcShows, PutcClean
  <1>5. cmdString' \in Seq(LineChars)
    BY <1>1, <1>2, <1>3, AppendIs
  <1>6. Append(Prompt \o cmdString, key) = Prompt \o cmdString'
    <2>1. PICK p \in Seq(Chars), l \in Seq(Chars) : p = Prompt /\ l = cmdString
      BY <1>2, MessagesAre, LineCharsAre, SeqMonotonic
    <2>2. Append(p \o l, key) = p \o Append(l, key)
      BY <1>3
    <2> QED
      BY <1>1, <2>1, <2>2
  <1>7. ASSUME InputsKeepTheLine, EndsWith(screen, Prompt \o cmdString)
        PROVE  EndsWith(screen', Prompt \o cmdString')
    <2>1. key # "\n"
      BY <1>2, <1>7, KeysAreChars DEF InputsKeepTheLine
    <2>2. screen' = PutGlyph(screen, key)
      BY <1>1, <2>1, PutcKinds DEF Special
    <2>3. PICK text \in Seq(Chars) : text = Prompt \o cmdString
      BY <1>2, PromptSeq
    <2>4. EndsWith(screen', Append(text, key))
      BY <1>2, <1>3, <1>7, <2>2, <2>3, GlyphText
    <2> QED
      BY <1>6, <2>3, <2>4
  <1> QED
    BY <1>1, <1>4, <1>5, <1>7, EditedText

LEMMA TabPressedText ==
    ASSUME TextInv, TabPressed
    PROVE  TextInv' /\ (InputsKeepTheLine /\ LineInv => LineInv')
  <1> DEFINE spaces == <<" ", " ", " ", " ">>
  <1>1. pc = "edit" /\ pc' = "test" /\ UNCHANGED argv /\ NoKeyboard
        /\ cmdString' = cmdString \o spaces /\ screen' = puts(screen, printf(<<"\t">>, <<>>))
    BY DEF TabPressed, Goto, Say
  <1>2. Shows(screen) /\ OnScreen(screen) /\ cmdString \in Seq(LineChars)
    BY DEF TextInv, Shows
  <1>3. "\t" \in Chars /\ screen' = puts(screen, <<"\t">>)
    BY <1>1, MessagesAre
  <1>4. screen' = putc(screen, "\t")
    BY <1>2, <1>3, PutsOne
  <1>5. Shows(screen') /\ (Clean(screen) => Clean(screen'))
    BY <1>2, <1>3, <1>4, PutcShows, PutcClean
  <1>6. spaces \in Seq(LineChars)
    <2>1. ASSUME NEW X, NEW c \in X PROVE <<c, c, c, c>> \in Seq(X)
      OBVIOUS
    <2> QED
      BY <2>1, LineCharsAre
  <1>7. PICK text \in Seq(Chars) : text = Prompt \o cmdString
    BY <1>2, PromptSeq
  <1>8. EndsWith(screen, text) => EndsWith(screen', text \o spaces)
    BY <1>2, <1>4, TabText
  <1> HIDE DEF spaces
  <1>9. cmdString' \in Seq(LineChars) /\ text \o spaces = Prompt \o cmdString'
    <2>1. PICK p \in Seq(Chars), l \in Seq(Chars), s \in Seq(Chars) : p = Prompt /\ l = cmdString /\ s = spaces
      BY <1>2, <1>6, MessagesAre, LineCharsAre, SeqMonotonic
    <2>2. (p \o l) \o s = p \o (l \o s)
      BY ConcatAssociative
    <2>3. cmdString \o spaces \in Seq(LineChars)
      BY <1>2, <1>6
    <2> QED
      BY <1>1, <1>7, <2>1, <2>2, <2>3
  <1> QED
    BY <1>1, <1>5, <1>7, <1>8, <1>9, EditedText

LEMMA OverrunText ==
    ASSUME TextInv, LineOverrun
    PROVE  TextInv' /\ (InputsKeepTheLine /\ LineInv => LineInv')
  <1>1. pc' = "fault" /\ key' = key /\ UNCHANGED <<cmdString, argv, screen>>
    BY DEF LineOverrun, Goto, NoKeyboard
  <1> QED
    BY <1>1 DEF TextInv, LineInv, Editing

LEMMA TextInvInit == Init => TextInv /\ LineInv
  <1> SUFFICES ASSUME Init PROVE TextInv /\ LineInv
    OBVIOUS
  <1>1. /\ pc = "prompt" /\ key = NoKey /\ cmdString = <<>>
        /\ screen = puts(console_clearScreen, printf(<<"W", "\n">>, <<>>))
    BY DEF Init
  <1>2. Clean(console_clearScreen) /\ Shows(console_clearScreen)
    BY ClearIsClean DEF Clean
  <1>3. printf(<<"W", "\n">>, <<>>) \in Seq(LineChars)
    BY MessagesAre
  <1>4. Shows(screen) /\ Clean(screen)
    BY <1>1, <1>2, <1>3, LinePrinted
  <1>5. cmdString \in Seq(LineChars) /\ pc \notin Editing
    BY <1>1 DEF Editing
  <1> QED
    BY <1>1, <1>4, <1>5 DEF TextInv, LineInv

LEMMA TextInvStep ==
    ASSUME IInv, IInv', TextInv, [Next]_vars
    PROVE  TextInv' /\ (InputsKeepTheLine /\ LineInv => LineInv')
  <1>1. CASE TimerTick \/ GetKey \/ \E scancode \in Scancodes : IRQKeyboardHandler(scancode)
    BY <1>1, KeyStepText DEF LineInv
  <1>2. CASE UNCHANGED vars
    BY <1>2 DEF vars, TextInv, LineInv
  <1> QED
    BY <1>1, <1>2, ShowPromptText, EnterText, BackSpaceText, CharText, TabPressedText, OverrunText,
       RunCommandText DEF Next, Shell, Edit

\* Whatever is typed, stored or printed, the keys, the shell and the cursor stay what they
\* are: GetKey returns a key, a command has a word, the cursor is on the screen
\* however often it wraps, goes back or clears it.
THEOREM TerminalTypeOK == Spec => []TypeOK
  <1>1. Init => IInv /\ TextInv
    BY IInvInit, TextInvInit
  <1>2. IInv /\ TextInv /\ [Next]_vars => IInv' /\ TextInv'
    BY IInvStep, TextInvStep
  <1>3. ASSUME IInv, TextInv PROVE TypeOK
    <2>1. g_KeyInfo.uppercase \in BOOLEAN
      BY <1>3 DEF IInv
    <2>2. <<screen.x, screen.y>> \in Cells /\ screen.cell \in [Cells -> Chars]
      BY <1>3 DEF TextInv, Shows, OnScreen, Screens
    <2> QED
      BY <1>3, <2>1, <2>2 DEF TextInv, TypeOK, Editing
  <1> QED
    BY <1>1, <1>2, <1>3, PTL DEF Spec

\* The cell at a place before the cursor.
LEMMA CellAt ==
    ASSUME NEW c \in Cells, NEW p \in Nat, p < Place(c)
    PROVE  <<p % Columns, p \div Columns>> \in Cells /\ Place(<<p % Columns, p \div Columns>>) = p
  <1>1. PICK n, x, y : n = Columns /\ x = p % n /\ y = p \div n
    OBVIOUS
  <1>2. n \in Nat /\ n > 0 /\ Rows \in Nat /\ c[1] \in Nat /\ c[1] < n /\ c[2] \in Nat /\ c[2] < Rows
    BY <1>1, CellsAre
  <1>3. x \in 0 .. n - 1
    BY <1>1, <1>2
  <1>4. y \in Nat
    BY <1>1, <1>2
  <1>5. p = n * y + x
    BY <1>1, <1>2
  <1>6. p < c[2] * n + c[1]
    BY <1>1 DEF Place
  <1>7. y < Rows
    <2> SUFFICES ASSUME y >= Rows PROVE FALSE
      BY <1>2, <1>4
    <2>1. y \in Nat /\ c[2] < y
      BY <1>2, <1>4
    <2>2. c[2] * Columns + Columns <= y * Columns
      BY <1>2, <2>1, Times
    <2>3. y * n = n * y
      BY <1>2, <1>4
    <2> QED
      BY <1>1, <1>2, <1>3, <1>4, <1>5, <1>6, <2>2, <2>3
  <1>8. <<x, y>> \in Cells
    BY <1>1, <1>2, <1>3, <1>4, <1>7, CellsAre
  <1>9. Place(<<x, y>>) = y * n + x
    BY <1>1 DEF Place
  <1>10. y * n + x = p
    BY <1>2, <1>3, <1>4, <1>5
  <1> QED
    BY <1>1, <1>8, <1>9, <1>10

LEMMA LineIsShown ==
    ASSUME TextInv, LineInv
    PROVE  ScreenShowsLine
  <1> SUFFICES ASSUME pc \in Editing
               PROVE  LET text == Prompt \o cmdString
                          here == Place(<<screen.x, screen.y>>)
                          fits == IF here < Len(text) THEN here ELSE Len(text)
                      IN  /\ Shown(here - fits, here - 1) = SubSeq(text, Len(text) - fits + 1, Len(text))
                          /\ screen.cell[<<screen.x, screen.y>>] = Cursor
                          /\ \A c \in Cells : Place(c) > here => screen.cell[c] = Background
    BY DEF ScreenShowsLine, Editing
  <1>1. PICK text \in Seq(Chars) : text = Prompt \o cmdString
    BY PromptSeq DEF TextInv
  <1>2. EndsWith(screen, text) /\ Clean(screen) /\ Shows(screen) /\ OnScreen(screen)
    BY <1>1 DEF LineInv, Clean, Shows
  <1>3. PICK h \in Nat : h = Here(screen)
    BY <1>2, HereIs
  <1>4. PICK m \in Nat : m = Len(text)
    OBVIOUS
  <1>5. PICK fits \in Nat : fits = (IF h < m THEN h ELSE m) /\ fits <= h /\ fits <= m
    OBVIOUS
  <1>6. ASSUME NEW i \in 1 .. fits
        PROVE  screen.cell[<<(h - fits + i - 1) % Columns, (h - fits + i - 1) \div Columns>>] = text[m - fits + i]
    <2>1. PICK p \in Nat : p = h - fits + i - 1 /\ p < h
      BY <1>5
    <2>2. PICK d \in Cells : d = <<p % Columns, p \div Columns>> /\ Place(d) = p
      <3>1. <<screen.x, screen.y>> \in Cells /\ p < Place(<<screen.x, screen.y>>)
        BY <1>2, <1>3, <2>1 DEF OnScreen, Here
      <3> QED
        BY <3>1, CellAt
    <2>3. PICK j \in 1 .. m : j = fits - i + 1
      BY <1>5
    <2>4. Place(d) = h - j /\ m + 1 - j = m - fits + i
      BY <1>5, <2>1, <2>2, <2>3
    <2>5. screen.cell[d] = text[m + 1 - j]
      BY <1>2, <1>3, <1>4, <2>3, <2>4 DEF EndsWith
    <2> QED
      BY <2>1, <2>2, <2>4, <2>5
  <1>7. Shown(h - fits, h - 1) = [i \in 1 .. fits |-> text[m - fits + i]]
    <2>1. (h - 1) - (h - fits) + 1 = fits
      BY <1>5
    <2> QED
      BY <1>6, <2>1 DEF Shown
  <1>8. SubSeq(text, m - fits + 1, m) = [i \in 1 .. fits |-> text[m - fits + i]]
    <2>1. PICK first \in Nat : first = m - fits + 1 /\ first > 0
      <3>1. m - fits + 1 \in Nat /\ m - fits + 1 > 0
        BY <1>5
      <3> QED
        BY <3>1
    <2>2. PICK s : s = SubSeq(text, first, m)
      OBVIOUS
    <2>3. \A i \in first .. m : text[i] \in Chars
      BY <1>4, <2>1
    <2>4. /\ s \in Seq(Chars) /\ Len(s) = IF first <= m THEN m - first + 1 ELSE 0
          /\ \A i \in 1 .. m - first + 1 : s[i] = text[first + i - 1]
      BY <2>2, <2>3, SubSeqProperties
    <2>5. Len(s) = fits /\ \A i \in 1 .. fits : s[i] = text[m - fits + i]
      <3>1. m - first + 1 = fits /\ \A i \in 1 .. fits : first + i - 1 = m - fits + i
        BY <1>5, <2>1
      <3> QED
        BY <1>5, <2>1, <2>4, <3>1
    <2>6. s = [i \in 1 .. fits |-> s[i]]
      BY <2>4, <2>5, LenProperties
    <2> QED
      BY <2>1, <2>2, <2>5, <2>6
  <1>9. Here(screen) = Place(<<screen.x, screen.y>>)
    BY DEF Here
  <1>10. /\ screen.cell[<<screen.x, screen.y>>] = Cursor
         /\ \A c \in Cells : Place(c) > h => screen.cell[c] = Background
    BY <1>2, <1>3 DEF Clean, Shows
  <1> QED
    BY <1>1, <1>3, <1>4, <1>5, <1>7, <1>8, <1>9, <1>10

\* Backspaces, tabs, line ends, the clearing of a full screen and what the commands print
\* keep what is typed and what is shown together, for any screen.
THEOREM ScreenShowsLineAlways == InputsKeepTheLine => (Spec => []ScreenShowsLine)
  <1> SUFFICES ASSUME InputsKeepTheLine PROVE Spec => []ScreenShowsLine
    OBVIOUS
  <1>1. Init => IInv /\ TextInv /\ LineInv
    BY IInvInit, TextInvInit
  <1>2. IInv /\ TextInv /\ LineInv /\ [Next]_vars => IInv' /\ TextInv' /\ LineInv'
    BY IInvStep, TextInvStep
  <1>3. IInv /\ TextInv /\ LineInv => ScreenShowsLine
    BY LineIsShown
  <1> QED
    BY <1>1, <1>2, <1>3, PTL DEF Spec

\* What a command finds in argv.
WordsInv == pc = "run" => cmdString # <<>> /\ argv = Tokenize(cmdString)

LEMMA WordsStep == WordsInv /\ [Next]_vars => WordsInv'
  <1> SUFFICES ASSUME WordsInv, [Next]_vars, pc' = "run" PROVE cmdString' # <<>> /\ argv' = Tokenize(cmdString')
    BY DEF WordsInv
  <1>1. CASE UNCHANGED vars
    BY <1>1 DEF vars, WordsInv
  <1>2. CASE pc = "edit"
    <2>1. CASE EnterPressed
      <3>1. cmdString # <<>> /\ argv' = Tokenize(cmdString) /\ cmdString' = cmdString
        BY <2>1 DEF EnterPressed, Submit, Goto
      <3> QED
        BY <3>1
    <2>2. CASE ~EnterPressed
      <3>1. pc' \in {"test", "fault"}
        BY <1>1, <1>2, <2>2 DEF Next, Shell, GetKey, TestKey, Halt, ReadKey, ClearKey, ShowPrompt, Edit,
           BackSpacePressed, TabPressed, CharPressed, LineOverrun, RunCommand, RunEcho, RunClear, RunDir,
           RunRead, RunLspci, RunUnknown, Runs, Goto, TimerTick, Awake, IRQKeyboardHandler, vars
      <3> QED
        BY <1>2, <3>1
    <2> QED
      BY <2>1, <2>2
  <1>3. CASE pc # "edit" /\ ~UNCHANGED vars
    <2>1. CASE TimerTick \/ \E scancode \in Scancodes : IRQKeyboardHandler(scancode)
      <3>1. pc = "run" /\ UNCHANGED <<cmdString, argv>>
        BY <2>1 DEF TimerTick, Awake, IRQKeyboardHandler
      <3> QED
        BY <3>1 DEF WordsInv
    <2>2. CASE Shell
      <3>1. pc' # "run"
        BY <1>3, <2>2 DEF Shell, GetKey, TestKey, Halt, ReadKey, ClearKey, ShowPrompt, Edit, EnterPressed,
           BackSpacePressed, TabPressed, CharPressed, LineOverrun, RunCommand, RunEcho, RunClear, RunDir,
           RunRead, RunLspci, RunUnknown, Done, Goto
      <3> QED
        BY <3>1
    <2> QED
      BY <1>3, <2>1, <2>2 DEF Next
  <1> QED
    BY <1>1, <1>2, <1>3

\* Every line that fits cmdString, and whose words fit argv (FitsArrays: no command runs
\* in the model with another one), is cut into its words, however many spaces and tabs
\* lie before, between and behind them; only a line that ends with a space has an empty
\* word more.
THEOREM ArgvIsWordsAlways == Spec => []ArgvIsWords
  <1>1. Init => IInv /\ TextInv /\ WordsInv
    BY IInvInit, TextInvInit DEF Init, WordsInv
  <1>2. IInv /\ TextInv /\ WordsInv /\ [Next]_vars => IInv' /\ TextInv' /\ WordsInv'
    BY IInvStep, TextInvStep, WordsStep
  <1>3. ASSUME TextInv, WordsInv PROVE ArgvIsWords
    <2> SUFFICES ASSUME pc = "run"
                 PROVE  IF IsSpace(Last(cmdString)) THEN Last(argv) = <<>> /\ AreWords(Front(argv), cmdString)
                        ELSE AreWords(argv, cmdString)
      BY DEF ArgvIsWords
    <2>1. PICK line \in Seq(Chars), words \in Seq(Seq(Chars)) :
             line = cmdString /\ words = argv /\ line # <<>> /\ words = Tokenize(line)
      <3>1. LineChars \subseteq Chars
        BY LineCharsAre
      <3>2. cmdString \in Seq(Chars) /\ cmdString # <<>> /\ argv = Tokenize(cmdString)
        BY <1>3, <3>1, SeqMonotonic DEF TextInv, WordsInv
      <3>3. argv \in Seq(Seq(Chars))
        BY <3>2, TokenizeIs
      <3> QED
        BY <3>2, <3>3
    <2>2. PICK n, start : Cuts(words, line, n, start)
      BY <2>1, TokenizeCuts
    <2>3. n \in Nat /\ start \in [1 .. n -> StartsOfWords(line)]
          /\ (\A i, j \in 1 .. n : i < j => start[i] < start[j])
          /\ StartsOfWords(line) = {start[k] : k \in 1 .. n}
          /\ (\A k \in 1 .. n : words[k] = WordAt(line, start[k]))
      BY <2>2 DEF Cuts
    <2>n. n \in Nat
      BY <2>3
    <2>4. \A u : DOMAIN u = 1 .. n /\ (\A k \in 1 .. n : u[k] = words[k]) => AreWords(u, line)
      BY <2>3 DEF AreWords
    <2>5. CASE IsSpace(line[Len(line)])
      <3>1. Len(words) = n + 1 /\ words[n + 1] = <<>>
        BY <2>1, <2>2, <2>5 DEF Cuts
      <3>2. PICK u : u = SubSeq(words, 1, n)
        OBVIOUS
      <3>3. \A k \in 1 .. n : words[k] \in Seq(Chars)
        BY <2>1, <2>3, <3>1
      <3>4. /\ u \in Seq(Seq(Chars)) /\ Len(u) = IF 1 <= n THEN n - 1 + 1 ELSE 0
            /\ \A k \in 1 .. n - 1 + 1 : u[k] = words[1 + k - 1]
        BY <2>n, <3>2, <3>3, SubSeqProperties
      <3>5. Len(u) = n /\ \A k \in 1 .. n : u[k] = words[k]
        BY <2>n, <3>4
      <3>6. AreWords(u, line)
        BY <2>4, <3>4, <3>5
      <3>7. Front(words) = u
        BY <2>3, <3>1, <3>2 DEF Front
      <3> QED
        BY <2>1, <2>5, <3>1, <3>6, <3>7 DEF Last
    <2>6. CASE ~IsSpace(line[Len(line)])
      <3>1. Len(words) = n
        BY <2>1, <2>2, <2>6 DEF Cuts
      <3>2. AreWords(words, line)
        BY <2>1, <2>4, <3>1
      <3> QED
        BY <2>1, <2>6, <3>2 DEF Last
    <2> QED
      BY <2>5, <2>6
  <1> QED
    BY <1>1, <1>2, <1>3, PTL DEF Spec
=============================================================================
