------------------------------- MODULE Printf -------------------------------
(***************************************************************************)
(* printf_internal (printf.c): one step for each character of              *)
(* the format.  An argument is what va_arg finds in its 64-bit slot: a     *)
(* number below LongSize, a character or a string.                         *)
(***************************************************************************)
EXTENDS Integers, Sequences, SequencesExt

CONSTANTS
    IntSize,    \* how many values an int has: 2^32
    LongSize    \* how many a long or long long has: 2^64

ASSUME SizesAssumption ==
    IntSize \in Nat \ {0} /\ LongSize \in Nat /\ IntSize <= LongSize

g_HexChars == <<"0", "1", "2", "3", "4", "5", "6", "7", "8", "9", "a", "b", "c", "d", "e", "f">>

\* The digits that the loop of printf_unsigned finds, the last one first.
Remainders(number, radix) ==
    LET f[n \in Nat] == IF n < radix THEN <<n>> ELSE <<n % radix>> \o f[n \div radix]
    IN  f[number]

printf_unsigned(number, radix) ==
    LET buffer == Remainders(number, radix)
    IN  [i \in DOMAIN buffer |-> g_HexChars[buffer[Len(buffer) + 1 - i] + 1]]

printf_signed(number, radix) ==
    IF number < 0 THEN <<"-">> \o printf_unsigned(-number, radix) ELSE printf_unsigned(number, radix)

\* va_arg of an unsigned type takes the low bits of the slot; a signed one has a sign bit.
Size(length) == IF length \in {"long", "long long"} THEN LongSize ELSE IntSize

Unsigned(slot, length) == slot % Size(length)

Signed(slot, length) ==
    LET low == Unsigned(slot, length)
    IN  IF 2 * low >= Size(length) THEN low - Size(length) ELSE low

\* There is no argument left: what printf prints is not determined.
Junk == "junk"

Start(args) ==
    [state |-> "NORMAL", length |-> "default", radix |-> 10, sign |-> FALSE, number |-> FALSE,
     args |-> args, out |-> <<>>]

Emit(p, text) == [p EXCEPT !.out = @ \o text]

Arg(p) == Head(p.args)

\* text says what the argument prints.
EmitArg(p, text) ==
    IF p.args = <<>> THEN Emit(p, <<Junk>>) ELSE [Emit(p, text) EXCEPT !.args = Tail(@)]

Convert(p, c) ==
    CASE c = "c"               -> EmitArg(p, <<Arg(p)>>)
      [] c = "s"               -> EmitArg(p, Arg(p))
      [] c = "%"               -> Emit(p, <<"%">>)
      [] c \in {"d", "i"}      -> [p EXCEPT !.radix = 10, !.sign = TRUE, !.number = TRUE]
      [] c = "u"               -> [p EXCEPT !.radix = 10, !.sign = FALSE, !.number = TRUE]
      [] c \in {"X", "x", "p"} -> [p EXCEPT !.radix = 16, !.sign = FALSE, !.number = TRUE]
      [] c = "o"               -> [p EXCEPT !.radix = 8, !.sign = FALSE, !.number = TRUE]
      [] OTHER                 -> p

EmitNumber(p) ==
    IF ~p.number THEN p
    ELSE EmitArg(p, IF p.sign THEN printf_signed(Signed(Arg(p), p.length), p.radix)
                    ELSE printf_unsigned(Unsigned(Arg(p), p.length), p.radix))

ResetLengthKept(p) == [p EXCEPT !.state = "NORMAL", !.radix = 10, !.sign = FALSE]     \* mutant

\* number keeps its value.
Reset(p) == [p EXCEPT !.state = "NORMAL", !.length = "default", !.radix = 10, !.sign = FALSE]

Conversion(p, c) == Reset(EmitNumber(Convert(p, c)))

Step(p, c) ==
    CASE p.state = "NORMAL" /\ c = "%"       -> [p EXCEPT !.state = "LENGTH"]
      [] p.state = "NORMAL" /\ c # "%"       -> Emit(p, <<c>>)
      [] p.state = "LENGTH" /\ c = "h"       -> [p EXCEPT !.length = "short", !.state = "LENGTH_SHORT"]
      [] p.state = "LENGTH" /\ c = "l"       -> [p EXCEPT !.length = "long", !.state = "LENGTH_LONG"]
      [] p.state = "LENGTH_SHORT" /\ c = "h" -> [p EXCEPT !.length = "short short", !.state = "SPEC"]
      [] p.state = "LENGTH_LONG" /\ c = "l"  -> [p EXCEPT !.length = "long long", !.state = "SPEC"]
      [] OTHER                               -> Conversion(p, c)

printf(fmt, args) ==
    LET after[n \in 0 .. Len(fmt)] == IF n = 0 THEN Start(args) ELSE Step(after[n - 1], fmt[n])
    IN  after[Len(fmt)].out
=============================================================================
