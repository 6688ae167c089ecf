-------------------------------- MODULE Strings -------------------------------
(***************************************************************************)
(* string_t (Types.cpp 40-640, types.inl 30-300): handles of threads that  *)
(* share nodes. A node holds its text in itself while it is short, and is  *)
(* grown in place by the one handle that refers to it; another handle is   *)
(* given a node of its own. Texts are sequences of characters.             *)
(***************************************************************************)
EXTENDS Integers, Sequences, FiniteSets

CONSTANTS
    Threads, Handles, Nodes,
    Owner,        \* [Handles -> Threads]
    Chars,        \* numbers above 0
    Local,        \* texts of at least this length are allocated
    MaxLen,       \* bound: length of a text
    MaxChanges    \* bound: operations begun

VARIABLES
    handles,      \* [Handles -> string_handle]
    nodes,        \* [Nodes -> StringNode]: references, 0 when it is free; text
    doing,        \* [Threads -> the call it is in]
    want,         \* history: the text each handle is to have
    changes

vars == <<handles, nodes, doing, want, changes>>

Null == [kind |-> "null", node |-> 0, text |-> <<>>]
Idle == [op |-> "idle"]
Lost == 0         \* a character of memory that holds something else by now

Texts == UNION {[1..n -> Chars] : n \in 1..MaxLen}
Node(n) == [kind |-> "node", node |-> n, text |-> <<>>]

\* OOCore_string_t_cast.
cast(h) == IF h.kind = "node" THEN nodes[h.node].text ELSE h.text

\* release: the last reference frees the node.
released(ns, h) ==
    IF h.kind # "node" THEN ns
    ELSE IF ns[h.node].refs = 1 THEN [ns EXCEPT ![h.node] = [refs |-> 0, text |-> <<>>]]
    ELSE [ns EXCEPT ![h.node].refs = @ - 1]
addref(ns, h) == IF h.kind = "node" THEN [ns EXCEPT ![h.node].refs = @ + 1] ELSE ns

Free == {n \in Nodes : nodes[n].refs = 0}
Begins == changes < MaxChanges /\ changes' = changes + 1
May(t, h) == Owner[h] = t /\ doing[t] = Idle

Init ==
    /\ handles = [h \in Handles |-> Null]
    /\ nodes = [n \in Nodes |-> [refs |-> 0, text |-> <<>>]]
    /\ doing = [t \in Threads |-> Idle]
    /\ want = [h \in Handles |-> <<>>]
    /\ changes = 0

-----------------------------------------------------------------------------
\* OOCore_string_t__ctor, of a fresh handle: out of memory, it throws.
Construct(h, text) ==
    \/ \E n \in Free :
          /\ nodes' = [nodes EXCEPT ![n] = [refs |-> 1, text |-> text]]
          /\ handles' = [handles EXCEPT ![h] = Node(n)]
          /\ want' = [want EXCEPT ![h] = text]
    \/ UNCHANGED <<handles, nodes, want>>

ctor(t, h, text) ==
    /\ May(t, h) /\ handles[h] = Null /\ Begins
    /\ Construct(h, text)
    /\ UNCHANGED doing

const_ctor(t, h, text) ==
    /\ May(t, h) /\ handles[h] = Null /\ Begins
    /\ handles' = [handles EXCEPT ![h] = [kind |-> "const", node |-> 0, text |-> text]]
    /\ want' = [want EXCEPT ![h] = text]
    /\ UNCHANGED <<nodes, doing>>

\* const_addref with own: the constant text is copied, for a handle that leaves
\* the module it is in.
own(t, h) ==
    /\ May(t, h) /\ handles[h].kind = "const" /\ Begins
    /\ Construct(h, handles[h].text)
    /\ UNCHANGED doing

\* left and right: the whole text is shared, of a part there is a copy.
left(s, start, length) ==
    IF start >= Len(s) THEN <<>>
    ELSE SubSeq(s, start + 1, start + (IF length > Len(s) - start THEN Len(s) - start ELSE length))
right(s, length) == IF Len(s) <= length THEN s ELSE SubSeq(s, Len(s) - length + 1, Len(s))

Part(t, h, g, text) ==
    /\ May(t, h) /\ May(t, g) /\ handles[h] = Null /\ handles[g] # Null /\ Begins
    /\ IF text # cast(handles[g]) THEN Construct(h, text)
       ELSE /\ nodes' = addref(nodes, handles[g])
            /\ handles' = [handles EXCEPT ![h] = handles[g]]
            /\ want' = [want EXCEPT ![h] = want[g]]
    /\ UNCHANGED doing

Left(t, h, g, start, length) ==
    left(cast(handles[g]), start, length) # <<>> /\ Part(t, h, g, left(cast(handles[g]), start, length))
Right(t, h, g, length) ==
    right(cast(handles[g]), length) # <<>> /\ Part(t, h, g, right(cast(handles[g]), length))

Clear(t, h) ==
    /\ May(t, h) /\ handles[h] # Null /\ Begins
    /\ nodes' = released(nodes, handles[h])
    /\ handles' = [handles EXCEPT ![h] = Null]
    /\ want' = [want EXCEPT ![h] = <<>>]
    /\ UNCHANGED doing

\* OOCore_string_t_assign: the copy is taken, and what was there given up. The
\* other string is of a thread that waits meanwhile, and may go on then.
assign(t, h, g) ==
    /\ May(t, h) /\ h # g /\ doing[Owner[g]] = Idle /\ Begins
    /\ nodes' = addref(nodes, handles[g])
    /\ doing' = [doing EXCEPT ![t] = [op |-> "assign", h |-> h, got |-> handles[g], text |-> want[g]]]
    /\ UNCHANGED <<handles, want>>

assigned(t) ==
    LET d == doing[t] IN
    /\ d.op = "assign"
    /\ nodes' = released(nodes, handles[d.h])
    /\ handles' = [handles EXCEPT ![d.h] = d.got]
    /\ want' = [want EXCEPT ![d.h] = d.text]
    /\ doing' = [doing EXCEPT ![t] = Idle]
    /\ UNCHANGED changes

\* Mutant: two references are taken for one.
SoleOfTwo(n) == nodes[n].refs <= 2

\* grow's first step counts a reference, and finds whether there was just one.
Sole(n) == nodes[n].refs = 1

append(t, h, g) ==
    /\ May(t, h) /\ May(t, g) /\ Begins
    /\ cast(handles[g]) # <<>> /\ Len(cast(handles[h])) + Len(cast(handles[g])) <= MaxLen
    /\ nodes' = addref(nodes, handles[h])
    /\ doing' = [doing EXCEPT ![t] =
           [op |-> IF handles[h].kind # "node" THEN "copy"
                   ELSE IF Sole(handles[h].node) THEN "grow" ELSE "shared",
            h |-> h, g |-> g]]
    /\ UNCHANGED <<handles, want>>

\* In place. The text moves when it does not fit; when it was in the node itself,
\* the new buffer's address is written over it, the allocation failed or not.
\* A string appended to itself is then read from where it was.
grow(t) ==
    LET d == doing[t]
        n == handles[d.h].node
        text == nodes[n].text
        extra == cast(handles[d.g])
        short == Len(text) < Local
        allocates == Len(text) + Len(extra) >= Local
        ends(new) == /\ nodes' = [nodes EXCEPT ![n] = [refs |-> @.refs - 1, text |-> new]]
                     /\ want' = [want EXCEPT ![d.h] =
                            IF Lost \in {new[i] : i \in DOMAIN new} THEN new
                            ELSE IF new = text THEN @ ELSE @ \o want[d.g]]
        garbage == [i \in DOMAIN extra |-> Lost]
        self == d.g = d.h
    IN  /\ d.op = "grow"
        /\ doing' = [doing EXCEPT ![t] = Idle]
        /\ \/ allocates /\ ends(IF short THEN [i \in DOMAIN text |-> Lost] ELSE text)
           \/ (self /\ allocates => ~short) /\ ends(text \o extra)
           \/ self /\ allocates /\ ends(text \o garbage)
        /\ UNCHANGED <<handles, changes>>

\* The node is shared: the reference that was counted is given back.
shared(t) ==
    /\ doing[t].op = "shared"
    /\ nodes' = [nodes EXCEPT ![handles[doing[t].h].node].refs = @ - 1]
    /\ doing' = [doing EXCEPT ![t].op = "copy"]
    /\ UNCHANGED <<handles, want, changes>>

\* A node of its own, with both texts; out of memory nothing changes.
copy(t) ==
    LET d == doing[t] IN
    /\ d.op = "copy"
    /\ doing' = [doing EXCEPT ![t] = Idle]
    /\ \/ \E n \in Free :
             /\ nodes' = [released(nodes, handles[d.h]) EXCEPT
                             ![n] = [refs |-> 1, text |-> cast(handles[d.h]) \o cast(handles[d.g])]]
             /\ handles' = [handles EXCEPT ![d.h] = Node(n)]
             /\ want' = [want EXCEPT ![d.h] = @ \o want[d.g]]
       \/ UNCHANGED <<handles, nodes, want>>
    /\ UNCHANGED changes

Next ==
    \E t \in Threads :
        \/ \E h \in Handles :
              \/ \E c \in Chars : ctor(t, h, <<c>>)
              \/ \E c \in Chars : const_ctor(t, h, <<c>>)
              \/ own(t, h)
              \/ Clear(t, h)
              \/ \E g \in Handles :
                    \/ assign(t, h, g)
                    \/ append(t, h, g)
                    \/ \E i, n \in 0..1 : Left(t, h, g, i, n + 1)
                    \/ Right(t, h, g, 1)
        \/ assigned(t)
        \/ grow(t)
        \/ shared(t)
        \/ copy(t)

Spec == Init /\ [][Next]_vars

-----------------------------------------------------------------------------
\* Searches and comparisons of texts; positions count from 0.
npos == 99
FirstOf(set) == IF set = {} THEN npos ELSE CHOOSE i \in set : \A j \in set : i <= j
LastOf(set) == IF set = {} THEN npos ELSE CHOOSE i \in set : \A j \in set : i >= j
CharsOf(s) == {s[i] : i \in DOMAIN s}
From(s, pos) == pos..Len(s) - 1

find1(s, c, pos) == FirstOf({i \in From(s, pos) : s[i + 1] = c})
find_not(s, c, pos) == FirstOf({i \in From(s, pos) : s[i + 1] # c})
find_oneof(s, search, pos) == FirstOf({i \in From(s, pos) : s[i + 1] \in CharsOf(search)})
find_notof(s, search, pos) ==
    IF search = <<>> THEN npos ELSE FirstOf({i \in From(s, pos) : s[i + 1] \notin CharsOf(search)})
rfind(s, c, pos) ==
    LastOf({i \in 0..(IF pos >= Len(s) THEN Len(s) ELSE pos + 1) - 1 : s[i + 1] = c})

\* find2 looks for the first character, and compares there. To go on it moves by
\* the offset it has reached, which does not count the place it just left.
find2(s, search, pos) ==
    LET rest == IF pos >= Len(s) THEN 0 ELSE Len(s) - pos
        from[st \in Nat \X Nat \X Nat] ==
            LET start == st[1]
                offset == st[2]
                len == st[3]
                p == FirstOf({i \in 0..len - 1 : start + i < Len(s) /\ s[start + i + 1] = search[1]})
            IN  IF len = 0 \/ p = npos \/ Len(search) > len - p THEN npos
                ELSE IF SubSeq(s, start + p + 1, start + p + Len(search)) = search THEN offset + p
                ELSE from[<<start + offset + p + 1, offset + p, len - p>>]
    IN  IF Len(search) > rest THEN npos ELSE IF search = <<>> THEN 0 ELSE from[<<pos, pos, rest>>]

\* length is where the comparison ends in s1, not how far it goes.
compare(s1, s2, pos, length) ==
    LET end == IF length < Len(s1) THEN length ELSE Len(s1)
        len1 == IF pos >= end THEN 0 ELSE end - pos
        differ == FirstOf({i \in 0..Len(s2) - 1 : i < len1 /\ s1[pos + i + 1] # s2[i + 1]})
    IN  IF differ # npos THEN (IF s1[pos + differ + 1] < s2[differ + 1] THEN -1 ELSE 1)
        ELSE IF Len(s2) < len1 THEN 1 ELSE IF len1 < Len(s2) THEN -1 ELSE 0

-----------------------------------------------------------------------------
TypeOK ==
    /\ \A h \in Handles : handles[h].kind \in {"null", "const", "node"}
    /\ \A n \in Nodes : nodes[n].refs \in 0..Cardinality(Handles) + 2 * Cardinality(Threads)
    /\ \A t \in Threads : doing[t].op \in {"idle", "assign", "grow", "shared", "copy"}
    /\ changes \in 0..MaxChanges

\* Whatever threads do to strings that share a node, each string has the text it
\* was given and no more; but where grow wrote over it, or read what had moved
\* (Types.cpp 176-232, 323-378).
TextsAreOwn == \A h \in Handles : doing[Owner[h]] = Idle => cast(handles[h]) = want[h]

\* A node is referred to as often as it counts: it is not freed under a handle,
\* and not left behind (Types.cpp 95-105, 290-316).
NodesAreCounted ==
    \A n \in Nodes :
        nodes[n].refs =
            Cardinality({h \in Handles : handles[h] = Node(n)})
            + Cardinality({t \in Threads : doing[t].op \in {"grow", "shared"}
                                           /\ handles[doing[t].h] = Node(n)})
            + Cardinality({t \in Threads : doing[t].op = "assign" /\ doing[t].got = Node(n)})

\* Strings are ordered, and equal only to themselves; and what is found and what is
\* not is what it is made of; but for a search that must look past a place that has
\* only its first character (Types.cpp 133-155, 422-560).
SearchesAgree ==
    \A h, g \in Handles :
        LET s == cast(handles[h])
            other == cast(handles[g])
            first == IF other = <<>> THEN 0 ELSE find1(s, other[1], 0)
        IN  /\ compare(s, other, 0, npos) = -compare(other, s, 0, npos)
            /\ compare(s, other, 0, npos) = 0 <=> s = other
            /\ other # <<>> /\ first # npos /\ compare(s, other, first, first + Len(other)) = 0 =>
                   find2(s, other, 0) = first
            /\ other # <<>> /\ first = npos => find2(s, other, 0) = npos
            /\ other # <<>> => (find_oneof(s, other, 0) # 0 <=> find_notof(s, other, 0) = 0) \/ s = <<>>
            /\ other # <<>> => (rfind(s, other[1], npos) = npos <=> first = npos)
            /\ s # <<>> => find_not(s, s[1], 0) = find_notof(s, <<s[1]>>, 0)

\* All three: strings that share their nodes are values.
StringsAreValues == TextsAreOwn /\ NodesAreCounted /\ SearchesAgree

===============================================================================
