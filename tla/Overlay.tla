------------------------------- MODULE Overlay -------------------------------
(***************************************************************************)
(* Overlay keys (UserRegistry.cpp): two keys shown as one, the one over    *)
(* the other. Each question to one of them is a request of its own to the  *)
(* root, and between two of them other callers change the registry.        *)
(***************************************************************************)
EXTENDS FiniteSets, Integers, Sequences

CONSTANTS
    Set,         \* what the value asked for is set to in each layer,
    None,
    MaxChanges   \* bound: changes

Layers == {"over", "under"}
Values == {Set[l] : l \in Layers} \cup {None}

\* A layer is the key that the factory is given, if it is there, its subkey of the
\* name asked for, and the value of either: keys by their ids, which are not used
\* again.
Places == {"key", "subkey"}

VARIABLES
    ids, value,  \* the id and value of each place in each layer, or None,
    last,        \* and the last id given
    key,         \* the key opened last: RootKeys by their layers, and their places
    at,          \* what is asked, and how far it has got
    seen,        \* what it was told so far
    moments,     \* history: what there was at every moment of the last question,
    answer       \* which key it asked for what, and the answer, until a change

vars == <<ids, value, last, key, at, seen, moments, answer>>

NoKey == [place |-> "root", ids |-> [l \in Layers |-> None]]
Idle == [asks |-> "nothing", step |-> 0]

\* Both keys are there, with or without a subkey and values.
Init ==
    /\ ids \in [Layers -> {f \in [Places -> {0, None}] : f["key"] = 0}]
    /\ value \in [Layers -> [Places -> Values]]
    /\ \A l \in Layers, p \in Places : value[l][p] \in {Set[l], None}
    /\ \A l \in Layers : ids[l]["subkey"] = None => value[l]["subkey"] = None
    /\ last = 0
    /\ key = NoKey /\ at = Idle /\ seen = <<>> /\ moments = {} /\ answer = <<>>

-----------------------------------------------------------------------------
\* Other callers: a key, its subkey, its value. A key goes with what is below it.
Now(is, vals) == [ids |-> is, value |-> vals]

Change(is, vals) ==
    /\ last < MaxChanges /\ last' = last + 1
    /\ ids' = is /\ value' = vals
    /\ moments' = IF at = Idle THEN {} ELSE moments \cup {Now(is, vals)}
    /\ answer' = <<>>
    /\ UNCHANGED <<key, at, seen>>

CreateKey(l, p) ==
    /\ ids[l][p] = None /\ (p = "subkey" => ids[l]["key"] # None)
    /\ Change([ids EXCEPT ![l][p] = last + 1], value)

DeleteKey(l, p) ==
    LET goes == IF p = "key" THEN Places ELSE {p}
        Without(f) == [f EXCEPT ![l] = [q \in Places |-> IF q \in goes THEN None ELSE @[q]]] IN
    /\ ids[l][p] # None
    /\ Change(Without(ids), Without(value))

SetValue(l, p, v) ==
    /\ ids[l][p] # None /\ value[l][p] # v
    /\ Change(ids, [value EXCEPT ![l][p] = v])

-----------------------------------------------------------------------------
\* What a RootKey answers, which may be one of a key that is gone.

There(l) == key.place = "root" \/ key.ids[l] = ids[l][key.place]
Below == IF key.place = "root" THEN "key" ELSE "subkey"

\* A key or overlay asks about the name of the place below it, and about its value.
Sub(l) == IF There(l) THEN ids[l][Below] ELSE None
IsKey(l) == Sub(l) # None
Value(l) == IF There(l) /\ key.place # "root" THEN value[l][key.place] ELSE None
IsValue(l) == Value(l) # None
EnumSubKeys(l) == IF IsKey(l) THEN {"subkey"} ELSE {}
EnumValues(l) == IF IsValue(l) THEN {"value"} ELSE {}

\* An overlay is of two keys; what OpenKey finds in one layer is a key of that.
IsOverlay == key.place # "root" /\ \A l \in Layers : key.ids[l] # None

Ask(what) ==
    /\ at = Idle
    /\ IF what = "OpenKey" THEN IsOverlay \/ key = NoKey ELSE IsOverlay
    /\ key.place = "subkey" => what \notin {"OpenKey", "IsKey", "EnumSubKeys"}
    /\ at' = [asks |-> what, step |-> 1] /\ moments' = {Now(ids, value)} /\ answer' = <<>>
    /\ UNCHANGED <<ids, value, last, key, seen>>

Close ==
    /\ at = Idle /\ key # NoKey
    /\ key' = NoKey /\ answer' = <<>> /\ moments' = {}
    /\ UNCHANGED <<ids, value, last, at, seen>>

Asked(what, step) == at = [asks |-> what, step |-> step]
Hears(x) ==
    /\ seen' = Append(seen, x) /\ at' = [at EXCEPT !.step = @ + 1]
    /\ UNCHANGED <<ids, value, last, key, moments, answer>>
Answers(x) ==
    /\ answer' = <<key, at.asks, x>> /\ seen' = <<>> /\ at' = Idle
    /\ UNCHANGED <<ids, value, last, key, moments>>

\* Yes, if either says so.
IsEither ==
    \E ask \in {"IsKey", "IsValue"} :
        LET Is(l) == IF ask = "IsKey" THEN IsKey(l) ELSE IsValue(l) IN
        \/ Asked(ask, 1) /\ IF Is("over") THEN Answers(TRUE) ELSE Hears(FALSE)
        \/ Asked(ask, 2) /\ Answers(Is("under"))

\* A mutant: one that both have is answered as it is below.
GetValueUnder ==
    \/ Asked("GetValue", 1) /\ Hears(IsValue("under"))
    \/ Asked("GetValue", 2) /\ IF seen[1] THEN Hears(IsValue("over")) ELSE Answers(Value("over"))
    \/ Asked("GetValue", 3) /\ IF seen[2] THEN Answers(Value("under")) ELSE Answers(IsValue("under"))

\* The one below is asked first. Its value is not what is answered when it is the
\* only one that has it: whether it still has one is.
GetValue ==
    \/ Asked("GetValue", 1) /\ Hears(IsValue("under"))
    \/ Asked("GetValue", 2) /\ IF seen[1] THEN Hears(IsValue("over")) ELSE Answers(Value("over"))
    \/ Asked("GetValue", 3) /\ IF seen[2] THEN Answers(Value("over")) ELSE Answers(IsValue("under"))

\* OverlayKey::OpenKey, and OverlayKeyFactory::Overlay with the root's key: that it
\* is in one layer is not asked again.
Opens(f) ==
    /\ key' = IF \A l \in Layers : f[l] = None THEN key ELSE [place |-> Below, ids |-> f]
    /\ answer' = <<key, "OpenKey", f>> /\ seen' = <<>> /\ at' = Idle
    /\ UNCHANGED <<ids, value, last, moments>>

Only(l) == [m \in Layers |-> IF m = l THEN Sub(l) ELSE None]

OpenKey ==
    \/ Asked("OpenKey", 1) /\ Hears(IsKey("under"))
    \/ Asked("OpenKey", 2) /\ ~seen[1] /\ Opens(Only("over"))
    \/ Asked("OpenKey", 2) /\ seen[1] /\ Hears(IsKey("over"))
    \/ Asked("OpenKey", 3) /\ ~seen[2] /\ Opens(Only("under"))
    \/ /\ Asked("OpenKey", 3) /\ seen[2]
       /\ IF IsKey("over") THEN Hears(Sub("over")) ELSE Opens(Only("over"))
    \/ /\ Asked("OpenKey", 4)
       /\ IF IsKey("under") THEN Opens([l \in Layers |-> IF l = "over" THEN seen[3] ELSE Sub("under")])
          ELSE Opens(Only("under"))

\* Both are listed; a key that is gone fails.
Enum ==
    \E ask \in {"EnumSubKeys", "EnumValues"} :
        LET Lists(l) == IF ask = "EnumSubKeys" THEN EnumSubKeys(l) ELSE EnumValues(l) IN
        \/ Asked(ask, 1) /\ IF There("over") THEN Hears(Lists("over")) ELSE Answers(None)
        \/ Asked(ask, 2) /\ IF There("under") THEN Answers(seen[1] \cup Lists("under")) ELSE Answers(None)

Asks == {"IsKey", "IsValue", "GetValue", "OpenKey", "EnumSubKeys", "EnumValues"}

Next ==
    \/ \E l \in Layers, p \in Places :
           CreateKey(l, p) \/ DeleteKey(l, p) \/ \E v \in {Set[l], None} : SetValue(l, p, v)
    \/ (\E what \in Asks : Ask(what)) \/ Close
    \/ IsEither \/ GetValue \/ OpenKey \/ Enum

Spec == Init /\ [][Next]_vars

-----------------------------------------------------------------------------
TypeOK ==
    /\ ids \in [Layers -> [Places -> 0..MaxChanges \cup {None}]]
    /\ value \in [Layers -> [Places -> Values]]
    /\ last \in 0..MaxChanges /\ key.place \in Places \cup {"root"}
    /\ at.step \in 0..4 /\ Len(seen) = (IF at = Idle THEN 0 ELSE at.step - 1)

\* What there was of what is asked for in a layer, at the moments of the question.
During(l, k, what) ==
    LET Kept(m) == k.place = "root" \/ m.ids[l][k.place] = k.ids[l]
        Then(m) == IF what \in {"IsKey", "EnumSubKeys", "OpenKey"}
                   THEN m.ids[l][IF k.place = "root" THEN "key" ELSE "subkey"]
                   ELSE m.value[l][k.place]
    IN  {IF Kept(m) THEN Then(m) ELSE None : m \in moments}

\* However the layers change while it is asked, what an overlay answers was so in
\* each layer at some moment: a key it opens is of both that had it, a value is
\* that of the one over the other, and nothing is missed that was there all the
\* time. It fails only if both lacked it, or one did and they changed meanwhile. A
\* value that only the one below has is never answered: that it is there is answered
\* for it, and that it is not only if it went meanwhile.
AnswersWereSo ==
    answer # <<>> =>
        LET k == answer[1]
            what == answer[2]
            x == answer[3]
            In(l) == During(l, k, what)
            Lacked == {l \in Layers : None \in In(l)}
            Had == {l \in Layers : In(l) # {None}}
        IN  CASE what \in {"IsKey", "IsValue"} -> IF x THEN Had # {} ELSE Lacked = Layers
              [] what = "GetValue" ->
                     IF x \in BOOLEAN THEN "over" \in Lacked /\ "under" \in Had /\ (x \/ "under" \in Lacked)
                     ELSE x \in In("over") /\ (x = None => Lacked = Layers \/ Cardinality(moments) > 1)
              [] what = "OpenKey" ->
                     IF \A l \in Layers : x[l] = None
                     THEN Lacked = Layers \/ (Lacked # {} /\ Cardinality(moments) > 1)
                     ELSE \A l \in Layers : x[l] \in In(l)
              [] OTHER -> IF x = None THEN Lacked # {}
                          ELSE (x # {} => Had # {}) /\ (x = {} => Lacked = Layers)
===============================================================================
