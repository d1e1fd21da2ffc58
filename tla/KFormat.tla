------------------------------ MODULE KFormat ------------------------------
(***************************************************************************)
(* kstring.c: formatting.  The buffer is shorter and the numbers are       *)
(* narrower than in the source, where the constants have the values given  *)
(* with them.                                                              *)
(***************************************************************************)
EXTENDS Integers, Sequences, SequencesExt

CONSTANTS
    BufferEnd,    \* 255: where the text in the buffer of 256 bytes stops
    SignColumn,   \* 20: a minus sign is dropped from this column on
    Nibbles,      \* 16: hexadecimal digits of a uint64_t
    IntRange,     \* 2^32: the values of an int
    MaxDigits,    \* 20: decimal digits that fit in temp
    CharRange     \* 256: the values of a char

WordRange == 16^Nibbles

\* Digits are their values, 'A' to 'F' are 10 to 15.
percent == 20
minus == 21
letter_x == 22
hex == 23
char == 24
string == 25
int == 26
plain == 27
Conversions == {hex, char, string, int}

\* The nibbles from the first that is not 0; the last one in any case.
string_from_hex(value) ==
    LET nibble == [n \in 1 .. Nibbles |-> (value \div 16^(Nibbles - n)) % 16]
        started == CHOOSE n \in 1 .. Nibbles :
                     /\ nibble[n] # 0 \/ n = Nibbles
                     /\ \A m \in 1 .. n - 1 : nibble[m] = 0
    IN  <<0, letter_x>> \o SubSeq(nibble, started, Nibbles)

\* The digits the loop produces, last one first.
Digits[n \in 1 .. MaxDigits, val \in 0 .. WordRange - 1] ==
    IF val < 10 \/ n = MaxDigits THEN <<val % 10>>
    ELSE <<val % 10>> \o Digits[n + 1, val \div 10]

\* (int)val < 0
Negative(val) == val % IntRange >= IntRange \div 2

\* -(int)val as a uint64_t.  It overflows for INT_MIN: widens says whether the
\* build negates after it has sign-extended, or before.
Magnitude(val, widens) ==
    LET low == IntRange - (val % IntRange)
    IN  IF low = IntRange \div 2 /\ ~widens THEN WordRange - low ELSE low

\* Mutant: the sign is never written.
Decimal_Unsigned(val, column, widens) ==
    Reverse(Digits[1, IF Negative(val) THEN Magnitude(val, widens) ELSE val])

\* %i at a column of the text.
Decimal(val, column, widens) ==
    Reverse(IF Negative(val)
            THEN Digits[1, Magnitude(val, widens)]
                   \o (IF column < SignColumn THEN <<minus>> ELSE <<>>)
            ELSE Digits[1, val])

\* The copy loops of %h, %s and %i.
Copy(buf, text) ==
    buf \o (IF Len(buf) + Len(text) <= BufferEnd THEN text
             ELSE SubSeq(text, 1, BufferEnd - Len(buf)))

Convert(specifier, arg, buf, widens) ==
    CASE specifier = hex -> Copy(buf, string_from_hex(arg))
      [] specifier = char -> Append(buf, arg % CharRange)
      [] specifier = string -> Copy(buf, arg)
      [] specifier = int -> Copy(buf, Decimal(arg, Len(buf), widens))

\* The loop of string_format_args from place i of the format, with the
\* arguments that are left.  Any specifier without one ends the text.
RECURSIVE Format(_, _, _, _, _)
Format(fmt, args, i, buf, widens) ==
    IF i > Len(fmt) \/ Len(buf) >= BufferEnd THEN buf
    ELSE IF fmt[i] # percent \/ i = Len(fmt)
         THEN Format(fmt, args, i + 1, Append(buf, fmt[i]), widens)
    ELSE IF args = <<>> THEN buf
    ELSE IF fmt[i + 1] \in Conversions
         THEN Format(fmt, Tail(args), i + 2,
                     Convert(fmt[i + 1], args[1], buf, widens), widens)
    ELSE Format(fmt, args, i + 2, buf \o <<percent, fmt[i + 1]>>, widens)

string_format_args(fmt, args, widens) == Format(fmt, args, 1, <<>>, widens)

------------------------------------------------------------------------------
(* What formatting means.  A piece of a format is a plain character, a '%' *)
(* at its end, an unknown specifier or a conversion with its argument.     *)

FmtOf(pieces) ==
    FlattenSeq([n \in 1 .. Len(pieces) |->
        CASE pieces[n].kind = "plain" -> <<plain>>
          [] pieces[n].kind = "end" -> <<percent>>
          [] pieces[n].kind = "unknown" -> <<percent, plain>>
          [] OTHER -> <<percent, pieces[n].specifier>>])

IsConversion(piece) == piece.kind = "conversion"
ArgsOf(pieces) ==
    LET converted == SelectSeq(pieces, IsConversion)
    IN  [n \in 1 .. Len(converted) |-> converted[n].arg]

\* The digits without leading zeros that have the value, in a base.
ValueOf(digits, base) == FoldLeft(LAMBDA v, d : base * v + d, 0, digits)
Numeral(base, places) ==
    LET digits == UNION {[1 .. n -> 0 .. base - 1] : n \in 1 .. places}
        numerals == {d \in digits : (Len(d) > 1 => d[1] # 0)
                                      /\ ValueOf(d, base) < WordRange}
        of == [d \in numerals |-> ValueOf(d, base)]
    IN  [v \in 0 .. WordRange - 1 |-> CHOOSE d \in numerals : of[d] = v]
Numeral10 == Numeral(10, MaxDigits)
Numeral16 == Numeral(16, Nibbles)

Rendered(piece, column) ==
    CASE piece.specifier = hex -> <<0, letter_x>> \o Numeral16[piece.arg]
      [] piece.specifier = char -> <<piece.arg % CharRange>>
      [] piece.specifier = string -> piece.arg
      [] piece.specifier = int /\ ~Negative(piece.arg) -> Numeral10[piece.arg]
      [] OTHER -> (IF column < SignColumn THEN <<minus>> ELSE <<>>)
                    \o Numeral10[IntRange - (piece.arg % IntRange)]

\* All that the pieces stand for, up to the first '%' after the last of count
\* arguments.
FullText(pieces, count) ==
    LET Step(acc, piece) ==
          IF acc.stopped THEN acc
          ELSE IF piece.kind \in {"plain", "end"}
               THEN [acc EXCEPT !.text = @ \o FmtOf(<<piece>>)]
          ELSE IF acc.used = count THEN [acc EXCEPT !.stopped = TRUE]
          ELSE IF piece.kind = "unknown"
               THEN [acc EXCEPT !.text = @ \o FmtOf(<<piece>>)]
          ELSE [acc EXCEPT !.text = @ \o Rendered(piece, Len(acc.text)), !.used = @ + 1]
    IN  FoldLeft(Step, [text |-> <<>>, used |-> 0, stopped |-> FALSE], pieces).text

UpTo(s, n) == IF Len(s) <= n THEN s ELSE SubSeq(s, 1, n)
=============================================================================
