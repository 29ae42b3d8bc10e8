------------------------------ MODULE Console ------------------------------
(***************************************************************************)
(* The text console on the framebuffer (console.c, fb.c), in characters of *)
(* 8 by 16 pixels, for a screen that is a whole number of them wide.  A    *)
(* screen is a record of the cursor's place and of what each cell shows.   *)
(***************************************************************************)
EXTENDS Integers, Sequences, SequencesExt

CONSTANTS Columns, Rows

ASSUME SizeAssumption == Columns \in Nat \ {0} /\ Rows \in Nat \ {0}

\* Op(value), with the value computed once: TLC does not keep an argument of an operator.
Once(value, Op(_)) == CHOOSE result \in {Op(v) : v \in {value}} : TRUE

Cells == (0 .. Columns - 1) \X (0 .. Rows - 1)

\* The glyph of a space has no pixel: it looks like the background.
Background == " "

Cursor == "cursor"

\* fb_drawRect: fb_putPixel leaves out what is not on the screen.
Draw(screen, what) ==
    Once(screen, LAMBDA s :
        IF <<s.x, s.y>> \in Cells THEN [s EXCEPT !.cell[<<s.x, s.y>>] = what] ELSE s)

\* The pixels of a glyph, on a cell that has been erased.
console_drawChar(screen, c) == Draw(screen, c)

eraseCursor(screen) == Draw(screen, Background)

console_clearScreen ==
    Draw([x |-> 0, y |-> 0, cell |-> [c \in Cells |-> Background]], Cursor)

NextLine(screen) == [screen EXCEPT !.x = 0, !.y = @ + 1]

WrappedNever(screen) == screen      \* mutant: the cursor leaves the screen

Wrapped(screen) ==
    IF screen.x < Columns THEN screen
    ELSE IF screen.y + 1 >= Rows THEN console_clearScreen
    ELSE NextLine(screen)

updateCursor(screen) == Draw(Once(screen, Wrapped), Cursor)

\* The end of putc: the cursor, and the screen overflow.
Settle(screen) ==
    Once(updateCursor(screen), LAMBDA s : IF s.y >= Rows THEN console_clearScreen ELSE s)

PutGlyph(screen, c) ==
    LET drawn == console_drawChar(eraseCursor(screen), c)
    IN  Settle([drawn EXCEPT !.x = @ + 1])

\* A column is 8 pixels, so g_ScreenX % 4 is 0 and a tab is 4 spaces anywhere.
Tab(screen) ==
    LET PutSpace(s) == PutGlyph(s, " ")
    IN  Settle(PutSpace(PutSpace(PutSpace(PutSpace(eraseCursor(screen))))))

LeftSameLine(screen) ==     \* mutant: never back to the line before
    [screen EXCEPT !.x = IF @ = 0 THEN 0 ELSE @ - 1]

Left(screen) ==
    IF screen.x = 0 THEN [screen EXCEPT !.x = Columns - 1, !.y = @ - 1]
    ELSE [screen EXCEPT !.x = @ - 1]

Backspace(screen) ==
    LET erased == eraseCursor(screen)
    IN  IF screen.x = 0 /\ screen.y = 0 THEN updateCursor(erased)
        ELSE Settle(Draw(Once(erased, Left), Background))

putc(screen, c) ==
    CASE c = "\r" -> Settle([screen EXCEPT !.x = 0])
      [] c = "\n" -> Settle(NextLine(eraseCursor(screen)))
      [] c = "\t" -> Tab(screen)
      [] c = "BS" -> Once(screen, Backspace)
      [] OTHER    -> PutGlyph(screen, c)

puts(screen, string) ==
    LET after[n \in 0 .. Len(string)] ==
            IF n = 0 THEN screen ELSE putc(after[n - 1], string[n])
    IN  after[Len(string)]
=============================================================================
