------------------------------- MODULE SafeTypes -------------------------------
(***************************************************************************)
(* A call from one module (library) into another (safe.h, wire.h 440-790,  *)
(* export.h 230-320 and 520-560): the caller's temporaries wrap each       *)
(* parameter in its safe type, the callee's unwrap it, the method runs,    *)
(* and the temporaries of each side write back what a reference refers to  *)
(* and give up what they hold, in the reverse order. What crosses are      *)
(* handles: 1 to 4 are counted nodes and objects, 0 is none, -1 and -2 are *)
(* constant texts of the caller's and of the callee's module, and 11 and   *)
(* 12 counted copies of those.                                             *)
(***************************************************************************)
EXTENDS Integers, Sequences, FiniteSets, SequencesExt

CONSTANTS
    MaxParams     \* bound: parameters of a method, its result being one

VARIABLES
    core,         \* which of the two is OOCore itself, that copies no constant
    params,       \* each with its kind, and whether it is passed by reference
    mine,         \* what the caller's variables hold
    safe,         \* what the safe types hold, and which of that they own
    theirs,       \* what the callee's variables hold
    refs,         \* references of each counted handle
    step, at,     \* where the call is, and at which parameter
    before, left, \* history: the texts passed, and those the method left
    broken,       \* history: a handle was used after its last reference went
    misused       \* history: what was only lent was given up, or written over

vars == <<core, params, mine, safe, theirs, refs, step, at, before, left, broken, misused>>

Counted == 1..4 \cup 11..12
Copy(c) == 10 - c
Text(hs) == [j \in DOMAIN hs |-> IF hs[j] > 10 THEN 10 - hs[j] ELSE hs[j]]

\* An array has room for one element though it is passed as of none. A map is a
\* list of its keys and values in turn.
Kinds == {"value", "string", "any", "iface", "list", "map", "array"}
Listed == {"list", "map"}
Params == [kind : Kinds \ {"array"}, ref : BOOLEAN, size : {1}]
              \cup [kind : {"array"}, ref : BOOLEAN, size : 0..2]
Values(p) ==
    CASE p.kind = "value" -> {<<0>>, <<-1>>}
      [] p.kind = "string" -> {<<0>>, <<-1>>, <<1>>}
      [] p.kind = "any" -> {<<-1>>, <<1>>}
      [] p.kind = "iface" -> {<<0>>, <<2>>}
      [] p.kind = "list" -> {<<>>, <<-1, 1>>}
      [] p.kind = "map" -> {<<1, -1>>}
      [] p.kind = "array" -> IF p.size = 2 THEN {<<-1, 1>>} ELSE {<<0>>, <<1>>, <<-1>>}
NewValues(p) ==
    CASE p.kind = "value" -> {<<0>>, <<-2>>}
      [] p.kind = "string" -> {<<0>>, <<-2>>, <<3>>}
      [] p.kind = "any" -> {<<-2>>, <<3>>}
      [] p.kind = "iface" -> {<<0>>, <<4>>}
      [] p.kind \in Listed -> {<<>>, <<3, -2>>}
      [] p.kind = "array" ->
             CASE p.size = 0 -> {} [] p.size = 1 -> {<<-2>>, <<3>>} [] p.size = 2 -> {<<1, 3>>, <<-2, 0>>}

\* A counted handle is taken or dropped; what was dropped last is there no more.
Take(hs) == [j \in DOMAIN hs |-> [h |-> hs[j], by |-> 1]]
Drop(hs) == [j \in DOMAIN hs |-> [h |-> hs[j], by |-> -1]]
Made == {3, 4, 11, 12}
Step(s, e) ==
    IF e.h \notin Counted THEN s
    ELSE [refs |-> [s.refs EXCEPT ![e.h] = @ + e.by],
          broken |-> s.broken \/ (s.refs[e.h] <= 0 /\ ~(e.by = 1 /\ e.h \in Made))]
Does(effects) ==
    LET s == FoldLeft(Step, [refs |-> refs, broken |-> broken], effects) IN
    refs' = s.refs /\ broken' = s.broken

\* addref(.., true): for another module's use, a constant text is copied.
Own(p, hs, who) ==
    [j \in DOMAIN hs |-> IF hs[j] < 0 /\ p.kind # "value" /\ core # who THEN Copy(hs[j]) ELSE hs[j]]
Holds(hs, owned) == [hs |-> hs, owned |-> owned]
Nothing == Holds(<<>>, {})
All(hs) == Holds(hs, DOMAIN hs)

Count(hs, h) == Cardinality({j \in DOMAIN hs : hs[j] = h})
N == Len(params)
Owners(h) ==
    FoldLeft(+, 0, [i \in 1..N |-> Count(mine[i], h) + Count(theirs[i], h)
                                   + Cardinality({j \in safe[i].owned : safe[i].hs[j] = h})])

Init ==
    \E n \in 1..MaxParams :
        /\ params \in [1..n -> Params]
        /\ mine \in {m \in [1..n -> UNION {Values(p) : p \in Params}] : \A i \in 1..n : m[i] \in Values(params[i])}
        /\ safe = [i \in 1..n |-> Nothing] /\ theirs = [i \in 1..n |-> <<>>]
        /\ refs = [h \in Counted |-> FoldLeft(+, 0, [i \in 1..n |-> Count(mine[i], h)])]
        /\ core \in {"caller", "callee", "neither"}
        /\ step = "wrap" /\ at = 1
        /\ before = [i \in 1..n |-> Text(mine[i])] /\ left = before
        /\ broken = FALSE /\ misused = FALSE

-----------------------------------------------------------------------------
\* The constructors of safe_type_wrapper. What a list's elements and an array's
\* are wrapped in is gone at once: they are lent.
Empty(p) == p.kind = "array" /\ p.size = 0
Lent(hs) == [safe |-> Holds(hs, {}), does |-> <<>>]
Shared(hs) == [safe |-> All(hs), does |-> Take(hs)]

StringWrapped(p, hs) == Shared(hs)
AnyWrapped(p, hs) == Shared(Own(p, hs, "caller"))
IfaceWrapped(p, hs) == Shared(hs)
ListWrapped(p, hs) == Lent(hs)
ArrayWrapped(p, hs) == Lent(IF ~Empty(p) THEN hs ELSE IF p.ref THEN <<0>> ELSE <<>>)

wrapped(p, hs) ==
    CASE p.kind = "value" -> Lent(hs)
      [] p.kind = "string" -> StringWrapped(p, hs)
      [] p.kind = "any" -> AnyWrapped(p, hs)
      [] p.kind = "iface" -> IfaceWrapped(p, hs)
      [] p.kind \in Listed -> ListWrapped(p, hs)
      [] p.kind = "array" -> ArrayWrapped(p, hs)

Goes(s, i) == step' = s /\ at' = i

\* Out of memory, what was wrapped already is destroyed.
Wrap ==
    LET w == wrapped(params[at], mine[at]) IN
    /\ step = "wrap"
    /\ \/ /\ safe' = [safe EXCEPT ![at] = w.safe]
          /\ Does(w.does)
          /\ IF at < N THEN Goes("wrap", at + 1) ELSE Goes("unwrap", 1)
       \/ Goes("taken", at - 1) /\ UNCHANGED <<safe, refs, broken>>
    /\ UNCHANGED <<core, params, mine, theirs, before, left, misused>>

\* The constructors of type_wrapper, and of ref_holder around one.
Unwrap ==
    LET hs == safe[at].hs IN
    /\ step = "unwrap"
    /\ \/ /\ theirs' = [theirs EXCEPT ![at] = hs]
          /\ Does(Take(hs))
          /\ IF at < N THEN Goes("unwrap", at + 1) ELSE Goes("run", 0)
       \/ Goes("given", at - 1) /\ UNCHANGED <<theirs, refs, broken>>
    /\ UNCHANGED <<core, params, mine, safe, before, left, misused>>

\* The method leaves what its references refer to as it was, or assigns to it,
\* and returns or throws: the temporaries do the same after either.
Run ==
    /\ step = "run"
    /\ \E new \in [1..N -> UNION {NewValues(p) : p \in Range(params)} \cup Range(theirs)] :
           /\ \A i \in 1..N : new[i] = theirs[i] \/ (params[i].ref /\ new[i] \in NewValues(params[i]))
           /\ theirs' = new
           /\ left' = [i \in 1..N |-> IF params[i].ref THEN Text(new[i]) ELSE left[i]]
           /\ Does(FoldLeft(LAMBDA es, i : es \o Take(new[i]) \o Drop(theirs[i]), <<>>, [i \in 1..N |-> i]))
    /\ Goes("given", N)
    /\ UNCHANGED <<core, params, mine, safe, before, misused>>

\* ref_holder's destructor: type_wrapper::update, then what it held is given up.
\* The old element of an array is released like one that the safe type owns.

\* A mutant: what a safe string held is not released.
StringUpdatedOnly(p, old, hs) ==
    LET new == Own(p, hs, "callee") IN [safe |-> All(new), does |-> Take(new) \o Drop(hs)]

StringUpdated(p, old, hs) ==
    LET new == Own(p, hs, "callee") IN
    [safe |-> All(new), does |-> Take(new) \o Drop(old.hs) \o Drop(hs)]

AnyUpdated(p, old, hs) ==
    LET new == Own(p, hs, "callee") IN
    [safe |-> All(new), does |-> Drop(old.hs) \o Take(new) \o Drop(hs)]

IfaceUpdated(p, old, hs) == [safe |-> All(hs), does |-> Drop(old.hs) \o Take(hs) \o Drop(hs)]

\* The old shim is of a message, that holds no reference for its elements.
ListUpdated(p, old, hs) ==
    LET new == Own(p, hs, "callee") IN [safe |-> All(new), does |-> Take(new) \o Drop(hs)]

ArrayUpdated(p, old, hs) ==
    LET new == Own(p, hs, "callee") IN
    IF p.size < 2 THEN StringUpdated(p, old, hs)
    ELSE [safe |-> Holds(new, {j \in DOMAIN new : new[j] # old.hs[j]}),
          does |-> Take(old.hs) \o Take(hs) \o Drop(old.hs) \o Take(new) \o Drop(old.hs) \o Drop(hs) \o Drop(hs)]

updated(p, old, hs) ==
    CASE p.kind = "value" -> Lent(hs)
      [] p.kind = "string" -> StringUpdated(p, old, hs)
      [] p.kind = "any" -> AnyUpdated(p, old, hs)
      [] p.kind = "iface" -> IfaceUpdated(p, old, hs)
      [] p.kind \in Listed -> ListUpdated(p, old, hs)
      [] p.kind = "array" -> ArrayUpdated(p, old, hs)

\* An owned handle of an array is one that replaced a borrowed one.
BorrowedGone(p, old, new) ==
    p.kind = "array" /\ \E j \in DOMAIN old.hs : old.hs[j] \in Counted /\ (p.size = 1 \/ new.hs[j] # old.hs[j])

Give ==
    LET p == params[at]
        u == updated(p, safe[at], theirs[at]) IN
    /\ step = "given" /\ at > 0
    /\ theirs' = [theirs EXCEPT ![at] = <<>>]
    /\ IF p.ref
       THEN /\ safe' = [safe EXCEPT ![at] = u.safe] /\ Does(u.does)
            /\ misused' = (misused \/ BorrowedGone(p, safe[at], u.safe))
       ELSE Does(Drop(theirs[at])) /\ UNCHANGED <<safe, misused>>
    /\ Goes("given", at - 1)
    /\ UNCHANGED <<core, params, mine, before, left>>

Returned ==
    /\ step = "given" /\ at = 0
    /\ Goes("taken", N)
    /\ UNCHANGED <<core, params, mine, safe, theirs, refs, before, left, broken, misused>>

\* ref_holder_safe's destructor: safe_type_wrapper::update, then its own. A list
\* is cleared, and its elements are taken over with the references they have.
CopyTaken(p, old, w) == Take(w.hs) \o Drop(old) \o Drop(w.hs)
IfaceTaken(p, old, w) == Drop(old) \o Take(w.hs) \o Drop(w.hs)
ListTaken(p, old, w) == Drop(old)
ArrayTaken(p, old, w) ==
    IF p.size < 2 THEN CopyTaken(p, old, w) ELSE Take(old) \o Take(w.hs) \o Drop(old) \o Drop(w.hs)

taken(p, old, w) ==
    CASE p.kind = "value" -> <<>>
      [] p.kind \in {"string", "any"} -> CopyTaken(p, old, w)
      [] p.kind = "iface" -> IfaceTaken(p, old, w)
      [] p.kind \in Listed -> ListTaken(p, old, w)
      [] p.kind = "array" -> ArrayTaken(p, old, w)
dropped(p, w) == IF p.kind \in {"string", "any", "iface"} THEN Drop(w.hs) ELSE <<>>

Mistaken(p, w) ==
    \/ Empty(p)
    \/ /\ p.kind \in Listed \/ (p.kind = "array" /\ p.size = 1)
       /\ \E j \in DOMAIN w.hs \ w.owned : w.hs[j] \in Counted

TakeBack ==
    LET p == params[at] w == safe[at] IN
    /\ step = "taken" /\ at > 0
    /\ safe' = [safe EXCEPT ![at] = Nothing]
    /\ IF p.ref
       THEN /\ mine' = [mine EXCEPT ![at] = w.hs]
            /\ Does(taken(p, mine[at], w))
            /\ misused' = (misused \/ Mistaken(p, w))
       ELSE Does(dropped(p, w)) /\ UNCHANGED <<mine, misused>>
    /\ Goes("taken", at - 1)
    /\ UNCHANGED <<core, params, theirs, before, left>>

Next == Wrap \/ Unwrap \/ Run \/ Give \/ Returned \/ TakeBack

Spec == Init /\ [][Next]_vars

-----------------------------------------------------------------------------
TypeOK ==
    /\ core \in {"caller", "callee", "neither"}
    /\ \A i \in 1..N : params[i].kind \in Kinds
    /\ \A i \in 1..N : Range(mine[i]) \cup Range(theirs[i]) \cup Range(safe[i].hs) \subseteq Counted \cup -2..0
    /\ \A i \in 1..N : safe[i].owned \subseteq DOMAIN safe[i].hs
    /\ refs \in [Counted -> Int]
    /\ step \in {"wrap", "unwrap", "run", "given", "taken"} /\ at \in 0..N
    /\ broken \in BOOLEAN /\ misused \in BOOLEAN

\* Over the whole call, whichever step of it fails, each counted handle has the
\* references that the variables and the temporaries of both sides own, and none
\* is used after its last; but where a wrapper gives up what it was only lent.
CountsAreOwners == ~misused => ~broken /\ \A h \in Counted : refs[h] = Owners(h)

\* A reference refers to what the method left there, or still to what was passed
\* if it never ran.
GotAsLeft == step = "taken" /\ at = 0 /\ ~misused => \A i \in 1..N : Text(mine[i]) = left[i]

\* What the caller has been given holds no constant text of a callee that is not
\* OOCore: that module may be unloaded.
OutIsOwned == core # "callee" => \A i \in 1..N : params[i].kind # "value" => -2 \notin Range(mine[i])

PassedWhole == CountsAreOwners /\ GotAsLeft /\ OutIsOwned
===============================================================================
