----------------------------- MODULE NumberFormat -----------------------------
(***************************************************************************)
(* The formats of integers: one letter and a precision, or a picture of    *)
(* places and other characters (Formatting.cpp 60-1440), with the point,   *)
(* the separator and the groups of three of the "C" and English locales.   *)
(* A text is a sequence of characters. Floating numbers differ in the      *)
(* digits that printf gives for them; exponents, quotes and escapes in     *)
(* pictures are left out.                                                  *)
(***************************************************************************)
EXTENDS Integers, Sequences, FiniteSets, SequencesExt, Folds

CONSTANTS
    Values,      \* integers to format
    Pictures,    \* custom formats: sequences of "#", "0", ".", "," and others
    Locales,     \* of money: [posn, cs_precedes, sep_by_space]
    Precisions   \* of letter formats; -1 where none is given

Abs(v) == IF v < 0 THEN -v ELSE v
DigitChars == <<"0", "1", "2", "3", "4", "5", "6", "7", "8", "9", "A", "B", "C", "D", "E", "F">>
IsDigit(c) == \E i \in 1..10 : DigitChars[i] = c
Zeros(n) == [i \in 1..(IF n > 0 THEN n ELSE 0) |-> "0"]

\* The digits of a number, none for 0.
Digits(v, base) ==
    LET of[n \in Nat] == IF n = 0 THEN <<>> ELSE Append(of[n \div base], DigitChars[(n % base) + 1])
    IN  of[v]

\* printf's "%.*d": at least so many digits; of 0 with a precision of 0, none.
Padded(digs, precision) == Zeros(precision - Len(digs)) \o digs
printf(v, precision) ==
    (IF v < 0 THEN <<"-">> ELSE <<>>)
      \o Padded(Digits(Abs(v), 10), IF precision < 0 THEN 1 ELSE precision)

Find(s, c) == IF \E i \in DOMAIN s : s[i] = c THEN CHOOSE i \in DOMAIN s : s[i] = c /\ \A j \in 1..i - 1 : s[j] # c
              ELSE 0

\* Where a text's whole part ends.
WholeEnds(s) == IF Find(s, ".") = 0 THEN Len(s) ELSE Find(s, ".") - 1

\* do_intl: separators go in from the point to the left. The sign counts for a
\* digit.
do_intl(s, bThou) ==
    LET end == WholeEnds(s)
        before(i) == bThou /\ 1 < i /\ i <= end /\ (end - i + 1) % 3 = 0
    IN  FlattenSeq([i \in DOMAIN s |-> IF before(i) THEN <<",", s[i]>> ELSE <<s[i]>>])

fmt_fixed_i(v, precision) ==
    printf(v, -1) \o (IF precision > 0 THEN <<".">> \o Zeros(precision) ELSE <<>>)

\* do_intl_mon: where the sign and the symbol go.
do_intl_mon(s, negative, l) ==
    LET grouped == do_intl(s, TRUE)
        sign == IF negative THEN <<"-">> ELSE <<>>
        space == IF l.sep_by_space THEN <<" ">> ELSE <<>>
        around(symbol) == IF l.cs_precedes THEN symbol \o space \o grouped
                          ELSE grouped \o space \o symbol
    IN  CASE l.posn = 0 -> <<"(">> \o around(<<"$">>) \o <<")">>
          [] l.posn = 1 -> sign \o around(<<"$">>)
          [] l.posn = 2 -> around(<<"$">>) \o sign
          [] l.posn = 3 -> around(sign \o <<"$">>)
          [] OTHER -> around(<<"$">> \o sign)

\* Currency, fixed and number formats have two decimals if none are asked for.
Decimals(precision) == IF precision < 0 THEN 2 ELSE precision
fmt_currency(v, precision, l) == do_intl_mon(fmt_fixed_i(Abs(v), Decimals(precision)), v < 0, l)
fmt_number(v, precision) == do_intl(fmt_fixed_i(v, Decimals(precision)), TRUE)
fmt_fixed(v, precision) == do_intl(fmt_fixed_i(v, Decimals(precision)), FALSE)
fmt_decimal(v, precision) == printf(v, precision)
fmt_round_trip(v) == fmt_decimal(v, 0)

\* General: as many digits as the type can have, if none are asked for.
fmt_general(v, precision, def) == printf(v, IF precision <= 0 THEN def ELSE precision)

\* Hexadecimal: a negative number is one of 2^64, here of 2^16.
fmt_hex(v, precision) ==
    Padded(Digits(IF v < 0 THEN 65536 + v ELSE v, 16), IF precision < 0 THEN 1 ELSE precision)

\* exp_strip: an exponent's zeros are taken off, or put in front, to make it as
\* long as is asked for.
exp_strip(exponent, precision) ==
    LET zeros == CHOOSE n \in 0..Len(exponent) :
                    /\ \A i \in 1..n : exponent[i] = "0"
                    /\ n = Len(exponent) \/ exponent[n + 1] # "0"
        over == Len(exponent) - precision
        cut == IF over < 0 THEN 0 ELSE IF zeros < over THEN zeros ELSE over
    IN  Padded(SubSeq(exponent, cut + 1, Len(exponent)), precision)

\* Scientific: an integer's first digit, the others as far as the precision goes,
\* and its exponent; for integers of no more digits than that.
fmt_scientific(v, precision) ==
    LET digs == printf(Abs(v), -1)
        places == IF precision < 0 THEN 6 ELSE precision
        exponent == Len(digs) - 1
        rest == SubSeq(digs, 2, Len(digs)) \o Zeros(places - exponent)
    IN  (IF v < 0 THEN <<"-">> ELSE <<>>) \o <<digs[1]>>
          \o (IF places = 0 THEN <<>> ELSE <<".">> \o rest)
          \o <<"E", "+">> \o exp_strip(Padded(Digits(exponent, 10), 2), 3)

-----------------------------------------------------------------------------
\* Pictures.

IsPlace(c) == c \in {"#", "0"}

\* Places before and after the point.
width(p) == Cardinality({i \in 1..WholeEnds(p) : IsPlace(p[i])})
precision_of(p) == Cardinality({i \in WholeEnds(p) + 1..Len(p) : IsPlace(p[i])})

NoDecimals(p) == Find(p, ".") # 0 /\ precision_of(p) = 0

\* The number the picture is filled in from, and where its point was before the
\* separators went in.
strNumber(v, p) ==
    LET point == Find(p, ".") # 0
        fixed == fmt_fixed_i(Abs(v), precision_of(p))
        digs == IF ~point THEN printf(Abs(v), width(p))
                ELSE IF Find(fixed, ".") = 0 THEN fixed
                ELSE Zeros(width(p) - WholeEnds(fixed)) \o fixed
        signed == (IF v < 0 THEN <<"-">> ELSE <<>>) \o digs
    IN  [text |-> do_intl(signed, Find(p, ",") # 0), dp |-> Find(signed, ".")]

\* What comes before the next digit.
Upto(s, numpos) ==
    LET next == CHOOSE i \in numpos..Len(s) : IsDigit(s[i]) /\ \A j \in numpos..i - 1 : ~IsDigit(s[j])
    IN  SubSeq(s, numpos, next - 1)

\* One character of the picture. A "#" leaves zeros out that lead the number,
\* with what is in front of them.
PlaceOptional(st, s) ==
    LET skipped == Upto(s, st.numpos)
        digit == s[st.numpos + Len(skipped)]
        shown == st.sig_zero \/ digit # "0"
    IN  [st EXCEPT !.res = @ \o (IF st.sig_zero THEN skipped ELSE <<>>)
                             \o (IF shown THEN <<digit>> ELSE <<>>),
                   !.sig_zero = IF shown THEN ~st.seen ELSE @,
                   !.numpos = @ + Len(skipped) + 1]

\* Mutant: the digit is shown, and not gone past.
PlaceAgain(st, s) ==
    LET skipped == Upto(s, st.numpos)
    IN  [st EXCEPT !.res = @ \o skipped \o <<s[st.numpos + Len(skipped)]>>,
                   !.sig_zero = ~st.seen,
                   !.numpos = @ + Len(skipped)]

PlaceAlways(st, s) ==
    LET skipped == Upto(s, st.numpos)
    IN  [st EXCEPT !.res = @ \o skipped \o <<s[st.numpos + Len(skipped)]>>,
                   !.sig_zero = ~st.seen,
                   !.numpos = @ + Len(skipped) + 1]

\* The point brings what is left of the whole part; all of a number that has
\* none, which then starts again.
PlacePoint(st, s, dp) ==
    [st EXCEPT !.res = @ \o SubSeq(s, st.numpos, IF dp = 0 THEN Len(s) ELSE dp - 1) \o <<".">>,
               !.numpos = dp + 1, !.sig_zero = TRUE, !.seen = TRUE]

Between(p, i) == i > 1 /\ i < Len(p) /\ IsPlace(p[i - 1]) /\ IsPlace(p[i + 1])

\* fmt_custom_i. After a place, a point with no place after it asks for a text of
\* no known length: the allocation fails.
fmt_custom_i(v, p) ==
    LET n == strNumber(v, p)
        step(st, i) ==
            CASE p[i] = "#" -> PlaceOptional(st, n.text)
              [] p[i] = "0" -> PlaceAlways(st, n.text)
              [] p[i] = "." /\ ~st.seen -> PlacePoint(st, n.text, n.dp)
              [] p[i] = "," /\ ~st.seen /\ Between(p, i) -> st
              [] OTHER -> [st EXCEPT !.res = Append(@, p[i])]
        end == FoldLeft(step, [res |-> <<>>, numpos |-> 1, sig_zero |-> FALSE, seen |-> FALSE],
                        [i \in DOMAIN p |-> i])
    IN  IF p \in {<<"#", "#">>, <<"0", "0">>} THEN fmt_decimal(v, 0)
            ELSE IF NoDecimals(p) /\ width(p) > 0 THEN <<"throws">>
        ELSE end.res \o SubSeq(n.text, end.numpos, Len(n.text))

\* fmt_custom: a picture of two or three parts, for numbers above, below and at 0.
fmt_custom(v, parts) ==
    IF Len(parts) = 3 /\ v = 0 THEN fmt_custom_i(v, parts[3])
    ELSE IF Len(parts) = 1 THEN fmt_custom_i(v, parts[1])
    ELSE fmt_custom_i(Abs(v), IF v < 0 THEN parts[2] ELSE parts[1])

-----------------------------------------------------------------------------
VARIABLES value, format, text

vars == <<value, format, text>>

Letters == {"C", "D", "F", "G", "N", "R", "X"}
Money == [posn |-> 1, cs_precedes |-> TRUE, sep_by_space |-> FALSE]
NoFormat == [letter |-> "", precision |-> -1, locale |-> Money, parts |-> <<>>]

Formats ==
    {[NoFormat EXCEPT !.letter = l, !.precision = n] : l \in Letters \cup {""}, n \in Precisions}
    \cup {[NoFormat EXCEPT !.letter = "E"]}
    \cup {[NoFormat EXCEPT !.letter = "C", !.locale = l] : l \in Locales}
    \cup {[NoFormat EXCEPT !.letter = "custom", !.parts = <<p>>] : p \in Pictures}
    \cup {[NoFormat EXCEPT !.letter = "custom", !.parts = <<p, <<"(">> \o p>>] : p \in Pictures}
    \cup {[NoFormat EXCEPT !.letter = "custom", !.parts = <<p, <<"(">> \o p, <<"z">> \o p>>] : p \in Pictures}

\* fmt_recurse, for numbers of 32 bits.
fmt_recurse(v, f) ==
    CASE f.letter = "" -> printf(v, -1)
      [] f.letter = "C" -> fmt_currency(v, f.precision, f.locale)
      [] f.letter = "D" -> fmt_decimal(v, f.precision)
      [] f.letter = "E" -> fmt_scientific(v, f.precision)
      [] f.letter = "F" -> fmt_fixed(v, f.precision)
      [] f.letter = "G" -> fmt_general(v, f.precision, 10)
      [] f.letter = "N" -> fmt_number(v, f.precision)
      [] f.letter = "R" -> fmt_round_trip(v)
      [] f.letter = "X" -> fmt_hex(v, f.precision)
      [] f.letter = "custom" -> fmt_custom(v, f.parts)

Init == value \in Values /\ format \in Formats /\ text = <<"?">>

to_string ==
    /\ text = <<"?">>
    /\ text' = fmt_recurse(value, format)
    /\ UNCHANGED <<value, format>>

Next == to_string

Spec == Init /\ [][Next]_vars

-----------------------------------------------------------------------------
\* What a reader takes from a text: its digits before and after the point.
Only(s) == SelectSeq(s, IsDigit)
NumberOf(digs) ==
    FoldLeft(LAMBDA n, c : n * 10 + (CHOOSE i \in 1..10 : DigitChars[i] = c) - 1, 0, digs)
WholeOf(s) == NumberOf(Only(SubSeq(s, 1, WholeEnds(s))))
Scientific(s) ==
    LET e == Find(s, "E") IN
    NumberOf(Only(SubSeq(s, 1, e - 1))) \div 10 ^ (6 - NumberOf(Only(SubSeq(s, e, Len(s)))))
Done == text # <<"?">>

\* A grouped picture has a point; the place of the point is not that of the text
\* by then, and its digits are cut there.
CutAtThePoint(p) == Find(p, ",") # 0 /\ Find(p, ".") # 0

\* Every format of an integer shows its number, whole and in order, whatever signs,
\* separators and other characters are put between the digits: letter formats, and
\* pictures of any number of places, fewer than the digits included (Formatting.cpp
\* 625-1000, 1150-1345). But for pictures that separate groups and have a point,
\* and those with no place after the point.
DigitsAreKept ==
    Done /\ format.letter # "X" /\ text # <<"throws">>
         /\ (\A k \in DOMAIN format.parts :
                 ~CutAtThePoint(format.parts[k]) /\ ~NoDecimals(format.parts[k]))
    => Abs(value) = IF format.letter = "E" THEN Scientific(text) ELSE WholeOf(text)

\* The groups of a number that is not negative are of three digits, the first is
\* of one to three (Formatting.cpp 596-616).
GroupedByThree ==
    Done /\ format.letter = "N" /\ value >= 0 =>
        /\ IsDigit(text[1])
        /\ \A i \in 1..WholeEnds(text) : text[i] = "," <=> (WholeEnds(text) - i) % 4 = 3

\* A negative number is shown to be one: by its sign, by its brackets, or by its
\* part of the picture; but in a picture whose first place is a "#", which drops
\* the sign (Formatting.cpp 1222-1226, 1271-1286).
FirstPlace(p) == Head(SelectSeq(p, LAMBDA c : c \in {"#", "0", "."}) \o <<"0">>)
SignIsShown ==
    Done /\ value < 0 /\ format.letter # "X" /\ text # <<"throws">>
         /\ (format.letter = "custom" /\ Len(format.parts) = 1 =>
               FirstPlace(format.parts[1]) # "#" \/ format.parts[1] = <<"#", "#">>)
    => Find(text, "-") # 0 \/ Find(text, "(") # 0

\* All three: a text shows its number.
NumbersAreShown == DigitsAreKept /\ GroupedByThree /\ SignIsShown

===============================================================================
