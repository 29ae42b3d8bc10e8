----------------------------- MODULE MCTerminal -----------------------------
(***************************************************************************)
(* An instance of Terminal: a screen of three lines of four characters,    *)
(* and commands whose names take one or two keys.  For printf, all formats *)
(* of two pieces, each a character or a conversion, and its promise.       *)
(***************************************************************************)
EXTENDS Terminal

Names == [echo |-> <<"e">>, clear |-> <<"E">>, dir |-> <<"e", "e">>, read |-> <<"?">>,
          lspci |-> <<"E", "E">>]

Listed == << [vendorID |-> 31, deviceID |-> 0] >>

Printable == {<<>>, <<"f", "\r", "\n">>, <<"f", "\t", "f", "f">>}

OneStray == {NoKey, "?"}

ASSUME PrintableKeepsTheLine == InputsKeepTheLine

-----------------------------------------------------------------------------
(* printf: the pieces of a format, each with its arguments and what it says. *)

Literal == [text |-> <<"z">>, args |-> <<>>, says |-> <<"z">>, kind |-> "text"]

Lengths == {<<>>, <<"h">>, <<"h", "h">>, <<"l">>, <<"l", "l">>}

Conversions(c, args, says) ==
    {[text |-> <<"%">> \o length \o <<c>>, args |-> args, says |-> says, kind |-> "other"] :
        length \in Lengths}

ValueOf(digits, radix) == FoldLeft(LAMBDA n, d : n * radix + d, 0, digits)

\* The digits of a number below 64 in a radix of 8 or more: no leading zero, no digit more.
Numeral(n, radix) ==
    LET digits == CHOOSE d \in [1 .. 1 -> 0 .. radix - 1] \cup [1 .. 2 -> 0 .. radix - 1] :
                    ValueOf(d, radix) = n /\ (Len(d) = 2 => d[1] # 0)
    IN  [i \in DOMAIN digits |-> g_HexChars[digits[i] + 1]]

SignedNumeral(n) == IF n < 0 THEN <<"-">> \o Numeral(-n, 10) ELSE Numeral(n, 10)

Slots == {0, 5, 8, 40}

Numbers(c, Says(_, _)) ==
    {[text |-> <<"%">> \o length \o <<c>>, args |-> <<slot>>, kind |-> "number",
      says |-> Says(slot, IF "l" \in Range(length) THEN LongSize ELSE IntSize)] :
        length \in Lengths, slot \in Slots}

\* X has the letters of x, and p takes no more than an unsigned int, as in the code.
Pieces ==
    LET Decimal(v, size) == LET n == v % size IN SignedNumeral(IF 2 * n >= size THEN n - size ELSE n)
        Radix(r, v, size) == Numeral(v % size, r)
    IN  {Literal}
        \cup Conversions("c", <<"z">>, <<"z">>) \cup Conversions("s", << <<"%", "d">> >>, <<"%", "d">>)
        \cup Conversions("%", <<>>, <<"%">>) \cup Conversions("y", <<>>, <<>>)
        \cup UNION {Numbers(c, Decimal) : c \in {"d", "i"}}
        \cup Numbers("u", LAMBDA v, size : Radix(10, v, size))
        \cup UNION {Numbers(c, LAMBDA v, size : Radix(16, v, size)) : c \in {"x", "X", "p"}}
        \cup Numbers("o", LAMBDA v, size : Radix(8, v, size))

\* The format of two pieces prints what each of them says.
Follows(p, q) == printf(p.text \o q.text, p.args \o q.args) = p.says \o q.says

\* printf prints each piece of its format with the arguments that are its own:
\* nothing that one conversion sets up is left over for the next, except that
\* a conversion after a number's prints a number once more.  It is looked at
\* in the first states: it says nothing of the later ones.
PrintfFollowsFormat ==
    sent = 0 => \A p \in Pieces, q \in Pieces : ~(p.kind = "number" /\ q.kind = "other") => Follows(p, q)
=============================================================================
