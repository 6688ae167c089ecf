------------------------------- MODULE AnyCast --------------------------------
(***************************************************************************)
(* any_t and string_t::ToNumber: a value of one type is cast to another,   *)
(* and that to a third (any.inl, the scanners of Formatting.cpp, and       *)
(* OOCore_any_t_equal).                                                    *)
(*                                                                         *)
(* Values are in halves. Types keep the order of their digits, 8, 15, 16,  *)
(* 24, 31, 32, 53, 63 and 64, on a smaller scale. Infinities and NaN are   *)
(* left out.                                                               *)
(***************************************************************************)
EXTENDS Integers

CONSTANT MaxCasts   \* bound: casts in a row

\* std::numeric_limits of the nine types of numbers.
digits == [byte |-> 1, int16 |-> 2, uint16 |-> 3, float4 |-> 4, int32 |-> 5,
           uint32 |-> 6, float8 |-> 7, int64 |-> 9, uint64 |-> 10]
Types == DOMAIN digits
is_integer(t) == t \notin {"float4", "float8"}
is_signed(t) == t \notin {"byte", "uint16", "uint32", "uint64"}
max(t) == 2 * (2 ^ digits[t] - 1)

\* Of a floating type min() is the smallest number above 0.
min(t) == IF ~is_integer(t) THEN 1 ELSE IF is_signed(t) THEN -2 * 2 ^ digits[t] ELSE 0

Abs(v) == IF v < 0 THEN -v ELSE v

\* The number of d binary digits nearest to v, ties to even.
Rounded(v, d) ==
    LET e == CHOOSE k \in 0..12 :
                 /\ Abs(v) \div 2 ^ k < 2 ^ d
                 /\ \A j \in 0..k - 1 : Abs(v) \div 2 ^ j >= 2 ^ d
        m == Abs(v) \div 2 ^ e
        r == 2 * (Abs(v) % 2 ^ e)
        up == IF r > 2 ^ e \/ (r = 2 ^ e /\ m % 2 = 1) THEN 1 ELSE 0
    IN  IF v < 0 THEN -(m + up) * 2 ^ e ELSE (m + up) * 2 ^ e

Holds(t, v) ==
    IF is_integer(t) THEN v % 2 = 0 /\ min(t) <= v /\ v <= max(t)
    ELSE Rounded(v, digits[t]) = v

-----------------------------------------------------------------------------
\* Conversions of numbers: the result, the number, and whether it is defined.

Valid(v) == [r |-> "castValid", v |-> v, defined |-> TRUE]
Fails(r) == [r |-> r, v |-> 0, defined |-> TRUE]
Undefined(v) == [r |-> "castValid", v |-> v, defined |-> FALSE]

\* Mutant: the largest value is taken to be 2^digits.
int_convOffByOne(t, f, v) ==
    LET trunc == digits[t] < digits[f]
        low == is_signed(f) /\ (IF is_signed(t) THEN trunc /\ v < min(t) ELSE v < 0)
        high == (trunc \/ (is_signed(t) /\ ~is_signed(f))) /\ v > max(t) + 2
    IN  IF low \/ high THEN Fails("castOverflow")
        ELSE IF ~is_integer(f) /\ ~Holds(t, v) THEN Undefined(v)
        ELSE Valid(IF v > max(t) THEN v - max(t) - 2 ELSE v)

\* int_conv's six cases: below is looked at if the source has a sign, above if
\* it has more digits or the target has a sign of its own. A floating source that
\* is looked at in neither way may be of any size.
int_conv(t, f, v) ==
    LET trunc == digits[t] < digits[f]
        low == is_signed(f) /\ (IF is_signed(t) THEN trunc /\ v < min(t) ELSE v < 0)
        high == (trunc \/ (is_signed(t) /\ ~is_signed(f))) /\ v > max(t)
    IN  IF low \/ high THEN Fails("castOverflow")
        ELSE IF Holds(t, v) THEN Valid(v) ELSE Undefined(v)

\* flt_conv, also from integers: 0 and what is below is taken for an overflow,
\* and an integer that rounds up to its type's end cannot be compared with.
flt_conv(t, f, v) ==
    LET to2 == Rounded(v, digits[t])
    IN  IF digits[t] >= digits[f] THEN Valid(v)
        ELSE IF v < min(t) THEN Fails("castOverflow")
        ELSE IF is_integer(f) /\ to2 > max(f) THEN Undefined(to2)
        ELSE IF to2 # v THEN Fails("castPrecisionLoss")
        ELSE Valid(to2)

converter(t, f, v) ==
    IF ~is_integer(t) THEN flt_conv(t, f, v)
    ELSE IF v % 2 # 0 THEN Fails("castPrecisionLoss")
    ELSE int_conv(t, f, v)

\* strtoll and strtoull stop at a point, and saturate; strtoull takes a minus.
Saturates(t, v) ==
    IF t = "int64" THEN IF v > max(t) THEN max(t) ELSE IF v < min(t) THEN min(t) ELSE v
    ELSE IF Abs(v) > max(t) THEN max(t) ELSE IF v < 0 THEN max(t) + 2 + v ELSE v

\* The scanners of integers, unsigned integers and floats. The empty string is
\* read to its end, and is 0.
ToNumber(t, text) ==
    LET wide == IF ~is_integer(t) THEN "float8" ELSE IF is_signed(t) THEN "int64" ELSE "uint64"
        v == IF text.kind = "empty" THEN 0
             ELSE IF wide = "float8" THEN Rounded(text.v, digits[wide])
             ELSE Saturates(wide, text.v)
    IN  IF text.kind = "other" \/ (is_integer(t) /\ text.v % 2 # 0) THEN Fails("castOverflow")
        ELSE [converter(t, wide, v) EXCEPT !.defined = @ /\ v = text.v /\ text.kind = "number"]

-----------------------------------------------------------------------------
\* any_t: its type and number; a string is the text of a number, or another.

Any(type, v) == [type |-> type, kind |-> "number", v |-> v]
Text(kind, v) == [type |-> "string", kind |-> kind, v |-> v]

\* any_t::Coerce<T> of the numbers.
Coerce(t, a) ==
    CASE a.type = "bool" -> Valid(a.v)
      [] a.type \in Types -> converter(t, a.type, a.v)
      [] a.type = "string" -> ToNumber(t, a)
      [] OTHER -> Fails("castUnrelated")

\* Formatting::ToString: an integer is written out; of a floating number as many
\* decimal digits as it surely holds (7, 15), which is fewer than it has.
ToString(a) ==
    IF a.type \in {"float4", "float8"} THEN Rounded(a.v, digits[a.type] - 1) ELSE a.v

CoerceString(a) ==
    CASE a.type = "void" -> Fails("castUnrelated")
      [] a.type \in Types -> [Valid(ToString(a)) EXCEPT !.defined = ToString(a) = a.v]
      [] OTHER -> Valid(a.v)

CoerceBool(a) ==
    CASE a.type \in Types \cup {"bool"} -> Valid(IF a.v # 0 THEN 2 ELSE 0)
      [] OTHER -> Fails("castUnrelated")

\* any_compare and OOCore_any_t_equal: both are cast to the type that is to hold
\* either.
any_compare(x, y) == x.r = "castValid" /\ y.r = "castValid" /\ x.v = y.v
Equal(a, b) ==
    LET either == {a.type, b.type} IN
    CASE "void" \in either -> a.type = b.type
      [] "string" \in either -> any_compare(CoerceString(a), CoerceString(b))
      [] "bool" \in either -> any_compare(CoerceBool(a), CoerceBool(b))
      [] either \cap {"float4", "float8"} # {} ->
            any_compare(Coerce("float8", a), Coerce("float8", b))
      [] "uint64" \in either -> any_compare(Coerce("uint64", a), Coerce("uint64", b))
      [] OTHER -> any_compare(Coerce("int64", a), Coerce("int64", b))
equal(a, b) == IF a.type = b.type THEN a = b ELSE Equal(a, b)

-----------------------------------------------------------------------------
VARIABLES
    value,     \* the any_t at hand
    original,  \* the number it was at first
    answer,    \* of the last cast: its target and what it returned
    kept,      \* history: every cast so far was defined and of a number's text
    casts

vars == <<value, original, answer, kept, casts>>

\* Numbers at the edges of the types, and between.
Edges == {0, 1, 2, 3, 4, 9, 14, 29, 30, 31, 32, 62, 63, 64, 126, 128, 254, 256, 258,
          1022, 1024, 2046, 2048}
Numbers == Edges \cup {-v : v \in Edges}

Anys ==
    {a \in {Any(t, v) : t \in Types, v \in Numbers} : Holds(a.type, a.v)}
    \cup {Any("bool", 0), Any("bool", 2), Any("void", 0)}
    \cup {Text("number", v) : v \in Numbers} \cup {Text("empty", 0), Text("other", 0)}

NoAnswer == [to |-> "none", r |-> "castValid"]

Init ==
    /\ value \in Anys
    /\ original = value.v /\ answer = NoAnswer
    /\ kept = (value.kind = "number") /\ casts = 0

\* A cast that succeeds leaves the value in its new type to the next.
Cast(to, c) ==
    /\ casts < MaxCasts /\ answer.r = "castValid"
    /\ casts' = casts + 1
    /\ answer' = [to |-> to, r |-> c.r]
    /\ IF c.r # "castValid" THEN UNCHANGED <<value, kept>>
       ELSE /\ kept' = (kept /\ c.defined)
            /\ value' = [value EXCEPT !.type = to, !.v = c.v,
                                      !.kind = IF to = "string" THEN @ ELSE "number"]
    /\ UNCHANGED original

any_cast(t) == Cast(t, Coerce(t, value))
any_cast_string == Cast("string", CoerceString(value))

Next == (\E t \in Types : any_cast(t)) \/ any_cast_string

Spec == Init /\ [][Next]_vars

-----------------------------------------------------------------------------
TypeOK ==
    /\ value.type \in Types \cup {"bool", "void", "string"}
    /\ value.kind \in {"number", "empty", "other"}
    /\ answer.to \in Types \cup {"none", "string"}
    /\ answer.r \in {"castValid", "castOverflow", "castPrecisionLoss", "castUnrelated"}
    /\ kept \in BOOLEAN /\ casts \in 0..MaxCasts

\* A value that is cast from type to type, by way of its text too, is the same
\* number in the end, or was refused on the way; but for conversions that C++
\* leaves undefined, numerals that do not fit 64 bits, and digits of floating
\* numbers that their text leaves out (any.inl 231-390).
CastsKeepTheValue ==
    kept /\ value.type # "void" => value.v = original

\* A type that can hold the number does not refuse it; but for 0 and what is
\* below, which floating types of fewer digits refuse (any.inl 317-334).
FitsAreTaken ==
    /\ answer.r # "castValid" /\ value.kind = "number" /\ value.type # "void"
    => \/ ~Holds(answer.to, value.v)
       \/ ~is_integer(answer.to) /\ value.v <= 0

\* Two numbers that compare equal are, whatever their types, where the comparison
\* is defined (Types.cpp 779-810).
EqualAreTheSame ==
    value.type \in Types =>
        \A t \in Types, v \in {-value.v, value.v - 2, value.v + 2} :
            Holds(t, v) /\ Coerce("float8", value).defined /\ Coerce("float8", Any(t, v)).defined
            => (equal(value, Any(t, v)) => v = value.v)

\* All three: casts and comparisons are those of the numbers.
CastsAreExact == CastsKeepTheValue /\ FitsAreTaken /\ EqualAreTheSame

===============================================================================
