------------------------------- MODULE Registry -------------------------------
(***************************************************************************)
(* The registry: hives, each an SQLite database of keys and values         *)
(* (Db::Hive), the root's requests on them (Root::Manager::registry_...)   *)
(* and the key objects of the user processes (User::Registry::RootKey).    *)
(*                                                                         *)
(* A hive is its two tables. An operation holds the hive's lock and is one *)
(* transaction, so it is one step; so is one that goes on in a second hive *)
(* by a link, as nothing it takes along can have changed. A statement that *)
(* fails rolls its transaction back: a step that does not happen.          *)
(***************************************************************************)
EXTENDS FiniteSets, Integers, Sequences, SequencesExt

CONSTANTS
    Callers,     \* channels of user processes
    Sandbox,     \* the one of the sandbox, or None
    Perm,        \* [Callers -> [Hives -> SUBSET {"read", "write"}]]: file modes
    NewNames,    \* names of keys and values that callers use, ".access" included
    Paths,       \* the paths they use: sequences of names
    NewRights,   \* the access masks they write
    MaxKey,      \* bound: ids of keys
    MaxChanges,  \* bound: changes to the hives
    MaxHandles,  \* bound: key objects a caller has at a time, besides the root
    None

Hives == {"system"} \cup (Callers \ {Sandbox})
Rights == {"read", "write", "protect"}

\* The names that keys and values have.
Words ==
    {"System", "Sandbox", "All Users", ".links", "Objects", "Local User", ".access"}
        \cup NewNames \cup UNION {ToSet(path) : path \in Paths}

Ids == 1..MaxKey

\* The text of a value is what it says as a link and what it says as a mask.
Values == [link : {"system:user/", "other"}, rights : SUBSET Rights]
Text == [link |-> "other", rights |-> {}]
MaskText(rights) == [link |-> "other", rights |-> rights]
UserLink == [link |-> "system:user/", rights |-> {}]

VARIABLES
    hives,    \* the tables of each hive, and the last id it has given
    handles,  \* RootKeys each caller has: hive type and key id
    changes,  \* changes so far (bounded by MaxChanges)
    orphans   \* history: hives and ids of keys made below a key that was gone

vars == <<hives, handles, changes, orphans>>

KeyRow(id, name, parent) == [id |-> id, name |-> name, parent |-> parent]
ValueRow(key, name, value) == [key |-> key, name |-> name, value |-> value]
Handles == [type : {0, 1}, key : 0..MaxKey]
Root == [type |-> 0, key |-> 0]

\* The hive a request is for: type 1 is the caller's own, which the sandbox
\* shares with the system.
registry_open_hive(c, type) ==
    IF type = 0 \/ c = Sandbox THEN "system" ELSE c

-----------------------------------------------------------------------------
\* Access.

Exists(h, k) == k = 0 \/ \E r \in h.keys : r.id = k

\* The values of a key with a name: none or one.
ValueOf(h, k, name) == {v.value : v \in {w \in h.vals : w.key = k /\ w.name = name}}

\* The access mask of a key; the root's is fixed.
Mask(h, k) ==
    IF k = 0 THEN {"protect", "write"}
    ELSE UNION {v.rights : v \in ValueOf(h, k, ".access")}

\* What registry_access_check asks of the database file: a caller that must be
\* able to read and write is let in if it can do one of the two.
Allowed(c, hive, rights) == Perm[c][hive] \cap rights # {}

\* access_check of a key with that mask, for reading or for writing.
Passes(c, hive, mask, check) ==
    check \in mask => Allowed(c, hive, mask \cap {"read", "write"})

-----------------------------------------------------------------------------
\* Finding a key.

Child(h, parent, name) == {r.id : r \in {s \in h.keys : s.parent = parent /\ s.name = name}}

\* One step from w.key to the key of that name: links come first, and the mask
\* of ".links" stays if neither a link nor a key is found.
get_key_info(h, c, hive, w, name) ==
    LET links == IF name \in {".links", ".access"} THEN {} ELSE Child(h, w.key, ".links")
        lmask == UNION {Mask(h, l) : l \in links}
        keys == Child(h, w.key, name)
    IN  CASE ~Passes(c, hive, lmask, "read") -> [w EXCEPT !.err = "Denied", !.mask = lmask]
          [] \E l \in links : ValueOf(h, l, name) # {} ->
               [w EXCEPT !.err = "Linked", !.mask = lmask,
                         !.link = CHOOSE v \in UNION {ValueOf(h, l, name) : l \in links} : TRUE]
          [] keys = {} -> [w EXCEPT !.err = "NotFound", !.mask = IF links = {} THEN @ ELSE lmask]
          [] OTHER ->
               LET k == CHOOSE k \in keys : TRUE IN
               [w EXCEPT !.key = k, !.mask = Mask(h, k),
                         !.err = IF Passes(c, hive, Mask(h, k), "read") THEN "Ok" ELSE "Denied"]

\* The walk along a path: where it ends, and what is left of the path. The name
\* of a link is not left, a name that is missing is.
find_key(h, c, hive, start, path) ==
    LET Walk[i \in 0..Len(path)] ==
            IF i = 0
              THEN [key |-> start, mask |-> Mask(h, start), rest |-> <<>>, link |-> Text,
                    err |-> IF ~Exists(h, start) THEN "NotFound"
                            ELSE IF Passes(c, hive, Mask(h, start), "read") THEN "Ok"
                            ELSE "Denied"]
              ELSE LET w == Walk[i - 1]
                       info == get_key_info(h, c, hive, w, path[i])
                   IN  IF w.err # "Ok" THEN [w EXCEPT !.rest = Append(@, path[i])]
                       ELSE IF info.err \in {"Ok", "Linked"} THEN info
                       ELSE [info EXCEPT !.rest = <<path[i]>>]
    IN  Walk[Len(path)]

\* A request that walks: as find_key, in the hive a link leads to if there is
\* one. In the second hive the walk starts at `again`. The sandbox's link leads
\* to /System/Sandbox. A link that is none of the system's, and a second one,
\* end in an exception ("No registry mount-point support!").
follow(hs, c, type, start, again, path) ==
    LET hive == registry_open_hive(c, type)
        w == find_key(hs[hive], c, hive, start, path)
        there == registry_open_hive(c, 1)
        rest == IF c = Sandbox THEN <<"System", "Sandbox">> \o w.rest ELSE w.rest
        Found(v, ty, hv, linked) ==
            [hive |-> hv, type |-> ty, linked |-> linked,
             err |-> v.err, key |-> v.key, mask |-> v.mask, rest |-> v.rest]
    IN  IF w.err = "Linked" /\ type = 0 /\ w.link.link = "system:user/"
          THEN Found(find_key(hs[there], c, there, again, rest),
                     IF c = Sandbox THEN 0 ELSE 1, there, TRUE)
          ELSE Found(w, type, hive, FALSE)

-----------------------------------------------------------------------------
\* Changing a hive.

\* create_key inserts the keys of w.rest, each below the one before and the
\* first below w.key, and the mask goes down with them, but for "protect".
create_key(h, w) ==
    LET mask == w.mask \ {"protect"}
        n == Len(w.rest)
        Id(i) == IF i = 0 THEN w.key ELSE h.last + i
    IN  [hive |-> [keys |-> h.keys \cup {KeyRow(Id(i), w.rest[i], Id(i - 1)) : i \in 1..n},
                   vals |-> h.vals \cup (IF mask = {} THEN {}
                                         ELSE {ValueRow(Id(i), ".access", MaskText(mask)) : i \in 1..n}),
                   last |-> h.last + n],
         key |-> Id(n)]

\* The keys below a key, itself included. A key's id is greater than its parent's.
Subtree(h, k) ==
    LET Above[i \in 0..MaxKey] ==
            {i} \cup UNION {Above[r.parent] : r \in {s \in h.keys : s.id = i}}
    IN  {i \in Ids : k \in Above[i] /\ Exists(h, i)}

\* delete_subkeys asks of every key below, and of itself, what delete_key asks:
\* the first refusal rolls all of it back.
Deletable(h, c, hive, k) ==
    \A i \in Subtree(h, k) :
        Passes(c, hive, Mask(h, i), "write") /\ "protect" \notin Mask(h, i)

\* Mutant: no trigger.
DeleteKeyOnly(h, k) == [h EXCEPT !.keys = {r \in @ : r.id \notin Subtree(h, k)}]

\* Mutant: the key without its subkeys.
DeleteKeyAlone(h, k) ==
    [h EXCEPT !.keys = {r \in @ : r.id # k}, !.vals = {v \in @ : v.key # k}]

\* The trigger on the table of keys deletes their values.
delete_key(h, k) ==
    LET gone == Subtree(h, k) IN
    [h EXCEPT !.keys = {r \in @ : r.id \notin gone},
              !.vals = {v \in @ : v.key \notin gone}]

set_value_i(h, k, name, value) ==
    [h EXCEPT !.vals = {v \in @ : v.key # k \/ v.name # name} \cup {ValueRow(k, name, value)}]

-----------------------------------------------------------------------------
\* The tables that a new installation has, with a part of the keys.

SystemHive ==
    [keys |-> {KeyRow(1, "System", 0), KeyRow(2, "Sandbox", 1),
               KeyRow(3, "All Users", 0), KeyRow(4, ".links", 0)},
     vals |-> {ValueRow(1, ".access", MaskText(Rights)),
               ValueRow(2, ".access", MaskText({"write", "protect"})),
               ValueRow(3, ".access", MaskText({"write", "protect"})),
               ValueRow(4, ".access", MaskText(Rights)),
               ValueRow(4, "Local User", UserLink)},
     last |-> 4]

UserHive ==
    [keys |-> {KeyRow(1, "Objects", 0)},
     vals |-> {ValueRow(1, ".access", MaskText({"write", "protect"}))},
     last |-> 1]

Init ==
    /\ hives = [x \in Hives |-> IF x = "system" THEN SystemHive ELSE UserHive]
    /\ handles = [c \in Callers |-> {}]
    /\ changes = 0
    /\ orphans = {}

\* A hive is changed, within the bounds.
Change(hive, h) ==
    /\ h # hives[hive] => changes < MaxChanges /\ h.last <= MaxKey
    /\ hives' = [hives EXCEPT ![hive] = h]
    /\ changes' = IF h # hives[hive] THEN changes + 1 ELSE changes

-----------------------------------------------------------------------------
\* What callers do, from a key they have or from the root: a name that starts
\* with a slash.

From(c) == handles[c] \cup {Root}

\* The caller keeps the key it has opened, or lets go of it at once.
Hold(c, type, key) ==
    LET new == [type |-> type, key |-> key] IN
    handles' = IF new = Root \/ Cardinality(handles[c] \cup {new}) > MaxHandles THEN handles
               ELSE [handles EXCEPT ![c] = @ \cup {new}]

Release(c, handle) ==
    /\ handle \in handles[c]
    /\ handles' = [handles EXCEPT ![c] = @ \ {handle}]
    /\ UNCHANGED <<hives, changes, orphans>>

\* Where a request of a caller leads, opening a key.
Opened(hs, c, from, path) == follow(hs, c, from.type, from.key, 0, path)

\* OpenKey of a key that is there.
OpenKey(c, from, path) ==
    LET w == Opened(hives, c, from, path) IN
    /\ w.err = "Ok"
    /\ Hold(c, w.type, w.key)
    /\ UNCHANGED <<hives, changes, orphans>>

\* OpenKey with OpenCreate or CreateNew. That the key to start from is gone is
\* also "not found": keys are made below an id that no key has. A second one of
\* the same name fails, as names are unique.
CreateKey(c, from, path) ==
    LET w == Opened(hives, c, from, path)
        new == create_key(hives[w.hive], w)
    IN  /\ w.err = "NotFound"
        /\ Passes(c, w.hive, w.mask, "write")
        /\ w.rest # <<>> => Child(hives[w.hive], w.key, Head(w.rest)) = {}
        /\ Change(w.hive, new.hive)
        /\ Hold(c, w.type, new.key)
        /\ orphans' = IF Exists(hives[w.hive], w.key) \/ w.rest = <<>> THEN orphans
                      ELSE orphans \cup {<<w.hive, hives[w.hive].last + 1>>}

\* DeleteSubKey. By a link it starts in the second hive from the key it started
\* from in the first.
DeleteSubKey(c, from, path) ==
    LET w == follow(hives, c, from.type, from.key, from.key, path) IN
    /\ w.err = "Ok"
    /\ Passes(c, w.hive, w.mask, "write")
    /\ "protect" \notin w.mask
    /\ Deletable(hives[w.hive], c, w.hive, w.key)
    /\ Change(w.hive, delete_key(hives[w.hive], w.key))
    /\ UNCHANGED <<handles, orphans>>

\* May the caller change the values of that key?
Writable(c, from) ==
    LET hive == registry_open_hive(c, from.type) IN
    /\ Exists(hives[hive], from.key)
    /\ Passes(c, hive, Mask(hives[hive], from.key), "write")

SetValue(c, from, name, value) ==
    LET hive == registry_open_hive(c, from.type) IN
    /\ Writable(c, from)
    /\ Change(hive, set_value_i(hives[hive], from.key, name, value))
    /\ UNCHANGED <<handles, orphans>>

\* Deleting a value that is not there succeeds.
DeleteValue(c, from, name) ==
    LET hive == registry_open_hive(c, from.type)
        h == hives[hive]
    IN  /\ Writable(c, from)
        /\ Change(hive, [h EXCEPT !.vals = {v \in @ : v.key # from.key \/ v.name # name}])
        /\ UNCHANGED <<handles, orphans>>

\* The names that EnumSubKeys lists, if it is let in. One check stands for all
\* subkeys that are to be checked: that of the key, or of the first of them.
enum_subkeys(h, c, hive, k, first) ==
    LET checked == IF "read" \in Mask(h, k) THEN k ELSE first
        Listed(r) == "read" \in Mask(h, r.id) => Passes(c, hive, Mask(h, checked), "read")
    IN  {r.name : r \in {s \in h.keys : s.parent = k /\ Listed(s)}}

\* What of a key a caller may read: nothing of one that is gone, or that its
\* mask keeps from the caller.
Readable(h, c, hive, k) == Exists(h, k) /\ Passes(c, hive, Mask(h, k), "read")

get_value(h, c, hive, k, name) == IF Readable(h, c, hive, k) THEN ValueOf(h, k, name) ELSE {}

enum_values(h, c, hive, k) ==
    IF Readable(h, c, hive, k) THEN {v.name : v \in {w \in h.vals : w.key = k}} ELSE {}

NewValues(name) == IF name = ".access" THEN {MaskText(r) : r \in NewRights} ELSE {UserLink}

Next ==
    \E c \in Callers : \E from \in From(c) :
        \/ \E path \in Paths :
              OpenKey(c, from, path) \/ CreateKey(c, from, path) \/ DeleteSubKey(c, from, path)
        \/ \E name \in NewNames :
              \/ \E value \in NewValues(name) : SetValue(c, from, name, value)
              \/ DeleteValue(c, from, name)
        \/ Release(c, from)

Spec == Init /\ [][Next]_vars

-----------------------------------------------------------------------------
\* Properties.

TypeOK ==
    /\ hives \in [Hives -> [keys : SUBSET [id : Ids, name : Words, parent : 0..MaxKey],
                             vals : SUBSET [key : 0..MaxKey, name : Words, value : Values],
                             last : 0..MaxKey]]
    /\ handles \in [Callers -> SUBSET Handles]
    /\ changes \in 0..MaxChanges
    /\ orphans \subseteq Hives \X Ids

\* A hive is a tree: ids and names below a key are unique, every key has a
\* parent, no value belongs to a key that is gone. But for the keys made by way
\* of a key object whose key has been deleted (RegistryHive.cpp 331-421).
KeysAreATree ==
    \A x \in Hives :
        LET h == hives[x] IN
        /\ \A r, s \in h.keys : r.id = s.id \/ (r.name = s.name /\ r.parent = s.parent) => r = s
        /\ \A r \in h.keys : <<x, r.id>> \notin orphans => Exists(h, r.parent)
        /\ \A v \in h.vals : Exists(h, v.key)

\* A key never goes without all that is below it, and none of these keys may be
\* protected (RegistryHive.cpp 423-573).
Gone(x) == {r \in hives[x].keys : r \notin hives'[x].keys}
GoesWithItsSubtree ==
    [][\A x \in Hives :
         /\ \A r \in Gone(x) : "protect" \notin Mask(hives[x], r.id)
         /\ \A r \in hives'[x].keys : \A g \in Gone(x) : r.parent # g.id]_vars

\* What a caller has deleted it does not find again by the same name (test
\* registry.cpp:128). But a name that meets a link on the way down from a key,
\* not from the root, is deleted elsewhere (RootRegistry.cpp:243).
DeletesWhatItNames ==
    [][(\E x \in Hives : Gone(x) # {}) =>
       \A c \in Callers : \A from \in From(c), path \in Paths :
         /\ DeleteSubKey(c, from, path)
         /\ from.key = 0 \/ ~Opened(hives, c, from, path).linked
         => Opened(hives', c, from, path).err = "NotFound"]_vars

\* What a caller has created it can open by the same name, whatever masks and
\* links the name has passed (test registry.cpp:103). Not so below a key that
\* is gone.
CreatesWhatItNames ==
    [][(\E x \in Hives : hives'[x].last # hives[x].last) /\ orphans' = orphans =>
       \A c \in Callers : \A from \in From(c), path \in Paths :
         CreateKey(c, from, path) => Opened(hives', c, from, path).err = "Ok"]_vars

\* EnumSubKeys lists the subkeys that OpenKey opens, and no other, where links
\* do not interfere; EnumValues the values that GetValue gets (RegistryHive.cpp
\* 206-296, 653-881).
EnumMatchesOpen ==
    \A c \in Callers : \A type \in {0, 1} :
        LET x == registry_open_hive(c, type)
            h == hives[x]
            Checked(k) == {r.id : r \in {s \in h.keys : s.parent = k /\ "read" \in Mask(h, s.id)}}
        IN  \A k \in {r.id : r \in h.keys} \cup {0} :
              /\ enum_values(h, c, x, k) = {n \in {v.name : v \in h.vals} : get_value(h, c, x, k, n) # {}}
              /\ (Readable(h, c, x, k) /\ Child(h, k, ".links") = {}) =>
                   \A first \in IF Checked(k) = {} THEN {k} ELSE Checked(k) :
                     \A r \in {s \in h.keys : s.parent = k} :
                       r.name \in enum_subkeys(h, c, x, k, first)
                         <=> find_key(h, c, x, k, <<r.name>>).err = "Ok"

\* Both: a tree of keys and values, that is listed as it is opened.
TreeIsWhole == KeysAreATree /\ EnumMatchesOpen

\* All three: what a call changes is what it names.
ChangesWhatItNames == GoesWithItsSubtree /\ DeletesWhatItNames /\ CreatesWhatItNames

===============================================================================
