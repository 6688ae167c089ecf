------------------------------- MODULE Formatter ------------------------------
(***************************************************************************)
(* formatter_t: a format with places for arguments, "{index,align:format}",*)
(* is split once, and given its arguments one by one, in place or on a     *)
(* copy (Formatting.cpp 1620-1892, types.inl 480-540). Strings are         *)
(* sequences of characters; an argument comes out as a character that      *)
(* names it, and the format it was given.                                  *)
(***************************************************************************)
EXTENDS Integers, Sequences, FiniteSets, SequencesExt

CONSTANTS
    Pieces,    \* what formats are put together from
    MaxPieces  \* bound: pieces of a format

npos == 99
Unset == 98    \* (unsigned long)-1: the index of a place that has its argument

\* What an index that was never assigned may hold.
Garbage == {0, 7, Unset}

Number == [c \in {"0", "1", "2", "9"} |-> CASE c = "0" -> 0 [] c = "1" -> 1 [] c = "2" -> 2 [] c = "9" -> 9]
At(s, i) == IF i <= Len(s) THEN s[i] ELSE "end"
Mid(s, i) == SubSeq(s, i, Len(s))

\* string_t::Find from a position on.
Find(s, c, pos) ==
    IF \E i \in pos..Len(s) : s[i] = c
      THEN CHOOSE i \in pos..Len(s) : s[i] = c /\ \A j \in pos..i - 1 : s[j] # c
      ELSE npos

\* A brace that is not doubled.
find_brace(s, start, brace) ==
    LET from[i \in Nat] ==
            LET found == Find(s, brace, i) IN
            IF found = npos \/ At(s, found + 1) # brace THEN found ELSE from[found + 2]
    IN  from[start]

\* It takes doubled braces out, both.
merge_braces(s) == SelectSeq(s, LAMBDA c : c \notin {"{", "}"})

\* strtoul and strtol of one digit, with a sign.
strtol(s, pos) ==
    IF At(s, pos) \in DOMAIN Number THEN Number[s[pos]]
    ELSE IF At(s, pos) = "-" /\ At(s, pos + 1) \in DOMAIN Number THEN -Number[s[pos + 1]]
    ELSE 0

\* A place: [index, alignment, strFormat, strSuffix]; where to go on; did it parse?
parse_arg(s, pos, garbage) ==
    LET end == find_brace(s, pos, "}")
        comma == Find(s, ",", pos)
        colon == Find(s, ":", pos)
        failed(p) == [pos |-> p, ok |-> FALSE,
                      ins |-> [index |-> garbage, alignment |-> 0, strFormat |-> <<>>, strSuffix |-> <<>>]]
    IN  IF end = npos THEN failed(pos)
        ELSE IF pos \in {comma, colon} THEN failed(end + 1)
        ELSE [pos |-> end + 1, ok |-> TRUE,
              ins |-> [index |-> strtol(s, pos),
                       alignment |-> IF comma < end /\ comma < colon THEN strtol(s, comma + 1) ELSE 0,
                       strFormat |-> IF colon < end THEN merge_braces(SubSeq(s, colon + 1, end - 1)) ELSE <<>>,
                       strSuffix |-> <<>>]]

\* The prefix, and the places each with the text that follows it. A place that
\* does not parse is the last.
parse_format(s, garbage) ==
    LET first == find_brace(s, 1, "{")
        args[pos \in Nat] ==
            LET a == parse_arg(s, pos, garbage)
                next == IF a.ok THEN find_brace(s, a.pos, "{") ELSE npos
                text == IF next = npos THEN Mid(s, a.pos) ELSE SubSeq(s, a.pos, next - 1)
                ins == [a.ins EXCEPT !.strSuffix = merge_braces(text)]
            IN  <<ins>> \o (IF next = npos THEN <<>> ELSE args[next + 1])
    IN  IF first = npos THEN [prefix |-> <<>>, inserts |-> <<>>]
        ELSE [prefix |-> merge_braces(SubSeq(s, 1, first - 1)), inserts |-> args[first + 1]]

align(s, a) ==
    LET width == IF a < 0 THEN -a ELSE a
        fill == [i \in 1..(IF Len(s) < width THEN width - Len(s) ELSE 0) |-> " "]
    IN  IF a < 0 THEN s \o fill ELSE fill \o s

-----------------------------------------------------------------------------
\* The handle: ctor2, get_arg, set_arg and cast.

Text(ins) == ins.strFormat \o ins.strSuffix

\* Mutant: every place that has its argument becomes part of the prefix.
ctor2All(f) ==
    LET set == SelectSeq(f.inserts, LAMBDA ins : ins.index = Unset)
    IN  [prefix |-> f.prefix \o FlattenSeq([i \in DOMAIN set |-> Text(set[i])]),
         inserts |-> SelectSeq(f.inserts, LAMBDA ins : ins.index # Unset)]

\* In a copy the places that have their arguments, up to the first that has not,
\* become part of the prefix.
ctor2(f) ==
    LET set == {n \in 0..Len(f.inserts) : \A i \in 1..n : f.inserts[i].index = Unset}
        n == CHOOSE k \in set : \A j \in set : j <= k
    IN  [prefix |-> f.prefix \o FlattenSeq([i \in 1..n |-> Text(f.inserts[i])]),
         inserts |-> SubSeq(f.inserts, n + 1, Len(f.inserts))]

\* The lowest index, the first from the left; Unset if none is left.
get_arg(f) ==
    LET indices == {f.inserts[i].index : i \in DOMAIN f.inserts}
    IN  IF indices \subseteq {Unset} THEN Unset
        ELSE CHOOSE n \in indices : \A k \in indices : n <= k

FirstAt(f, index) ==
    LET places == {i \in DOMAIN f.inserts : f.inserts[i].index = index}
    IN  IF places = {} THEN 0 ELSE CHOOSE i \in places : \A j \in places : i <= j

\* One argument more than there are places takes the first place again.
set_arg(f, index, arg) ==
    LET i == FirstAt(f, index) IN
    IF i # 0
      THEN [f EXCEPT !.inserts[i].strFormat = align(arg, f.inserts[i].alignment),
                     !.inserts[i].index = Unset]
      ELSE [f EXCEPT !.inserts = Append(@, [index |-> Unset, alignment |-> 0,
                                            strFormat |-> <<" ">> \o arg, strSuffix |-> <<>>])]

\* A place without its argument is written out, less its colon and its suffix.
cast(f) ==
    f.prefix \o FlattenSeq([i \in DOMAIN f.inserts |->
        LET ins == f.inserts[i] IN
        IF ins.index = Unset THEN Text(ins)
        ELSE <<"{", ins.index>> \o (IF ins.alignment = 0 THEN <<>> ELSE <<",", ins.alignment>>)
                \o ins.strFormat \o <<"}">>])

-----------------------------------------------------------------------------
VARIABLES
    format,  \* the pieces of the format
    handle,  \* the formatter_t: prefix and places
    args     \* arguments given

vars == <<format, handle, args>>

Source(p) == FlattenSeq(p)

\* The text of the n-th argument, shown in the format of its place.
Shown(n, strFormat) == <<<<"a", "b", "c", "d", "e", "f">>[n + 1]>> \o strFormat

Init ==
    /\ format \in SeqOf(Pieces, MaxPieces)
    /\ \E g \in Garbage : handle = parse_format(Source(format), g)
    /\ args = 0

\* operator %, on the object itself or on a copy of it. At most as many arguments
\* as there are pieces, and one.
Percent(copied) ==
    LET f == IF copied THEN ctor2(handle) ELSE handle
        index == get_arg(f)
        i == FirstAt(f, index)
        strFormat == IF index = Unset THEN <<>> ELSE f.inserts[i].strFormat
    IN  /\ args <= Len(format)
        /\ handle' = set_arg(f, index, Shown(args, strFormat))
        /\ args' = args + 1
        /\ UNCHANGED format

Next == Percent(TRUE) \/ Percent(FALSE)

Spec == Init /\ [][Next]_vars

-----------------------------------------------------------------------------
\* Read piece by piece: what stands for itself, and the places, each with its
\* index, alignment and format.
IsPlace(p) == Len(p) > 2 /\ p[1] = "{" /\ Last(p) = "}" /\ p[2] \in DOMAIN Number
IsText(p) == \A i \in DOMAIN p : p[i] \notin {"{", "}"}

Places == {k \in DOMAIN format : IsPlace(format[k])}
IndexOf(k) == Number[format[k][2]]

WellFormed ==
    /\ Places # {}
    /\ \A k \in DOMAIN format : IsPlace(format[k]) \/ IsText(format[k])
    /\ \A j, k \in Places : IndexOf(j) = IndexOf(k) => j = k

Expected ==
    FlattenSeq([k \in DOMAIN format |->
        IF k \notin Places THEN format[k]
        ELSE LET p == format[k]
                 place == parse_arg(p, 2, 0).ins
                 rank == Cardinality({j \in Places : IndexOf(j) < IndexOf(k)})
             IN  align(Shown(rank, place.strFormat), place.alignment)])

\* When a format has been given as many arguments as it has places, each argument
\* is at the place that its order asks for, and the text between is as it was,
\* however often the formatter was copied on the way (Formatting.cpp 1769-1866).
ArgumentsInPlace ==
    WellFormed /\ args = Cardinality(Places) => cast(handle) = Expected

===============================================================================
