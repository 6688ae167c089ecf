----------------------------- MODULE ObjectTables -----------------------------
(***************************************************************************)
(* The tables of running objects, one above the other: each application's  *)
(* LocalROT, the table of its user's process, and that of the sandbox. The *)
(* objects here are all of one oid.                                        *)
(*                                                                         *)
(* A table's lock is held for one step of a thread. Those who are notified *)
(* are called with it read; what they do meanwhile is not kept from        *)
(* happening here, which adds interleavings and takes none away.           *)
(***************************************************************************)
EXTENDS FiniteSets, Integers, Sequences, SequencesExt

CONSTANTS
    Threads,     \* threads of the applications, and what serves them
    Apps,        \* the applications, for their LocalROTs,
    UserOf,      \* and the table above each,
    Sandbox,     \* which is that of the sandbox, or one that has it above
    Flags,       \* what each registers objects with: scope, single, multiple
    Waits,       \* the tables where clients put notifiers
    None,
    MaxObjects,  \* bounds: objects registered,
    MaxCalls     \* and of these and GetObjects together

Users == {UserOf[a] : a \in Apps}
Tables == Apps \cup Users \cup {Sandbox}
Above(T) == IF T \in Apps THEN UserOf[T] ELSE IF T = Sandbox THEN None ELSE Sandbox
Scopes == {"process", "user", "public"}
Objects == 1..MaxObjects

VARIABLES
    object,    \* what has been registered: by whom, and its flags
    running,   \* the applications that are
    entries,   \* the entries of each table: the object, and whether one above has it,
    waits,     \* the tables that have a client's notifier of their own,
    told,      \* and the objects that each of those has been told are there
    todo,      \* each thread's calls, those it is in and those it returns to,
    asks,      \* what for: to register, revoke or get an object, and who asks,
    got,       \* and what it has got
    gets, listed, gone, used, known
               \* history: GetObjects; objects registered, revoked by their owner, or
               \* got if single; and what was so when each thread began

vars == <<object, running, entries, waits, told, todo, asks, got,
          gets, listed, gone, used, known>>

NoOne == [for |-> "nothing", app |-> None, obj |-> 0]
Nothing == [obj |-> 0, at |-> None]
Unknown == [listed |-> {}, gone |-> {}, used |-> {}, waits |-> {}]

Init ==
    /\ object = <<>> /\ running = Apps
    /\ entries = [T \in Tables |-> {}]
    /\ waits = {} /\ told = [T \in Tables |-> {}]
    /\ todo = [t \in Threads |-> <<>>] /\ asks = [t \in Threads |-> NoOne] /\ got = [t \in Threads |-> Nothing]
    /\ gets = 0 /\ listed = {} /\ gone = {} /\ used = {} /\ known = [t \in Threads |-> Unknown]

\* Remoting::IsAlive: the channel to the application is open.
IsAlive(o) == object[o].app \in running
Live(T) == {e \in entries[T] : IsAlive(e.obj)}
Dead(T) == entries[T] \ Live(T)

Top(o) ==
    CASE object[o].scope = "process" -> object[o].app
      [] object[o].scope = "user" -> UserOf[object[o].app]
      [] OTHER -> Sandbox
GoesUp(T, o) == T # Top(o)

Call(what, T, o) == <<[does |-> what, at |-> T, obj |-> o]>>
Revokes(T, es) == FlattenSeq(SetToSeq({Call("revoke", T, e.obj) : e \in es}))

\* SetUpstreamROT, as an application starts, has its table told of what the one above
\* has, until that finds it gone; a user's table does not ask the sandbox's.
Hear(T) == {T} \cup {a \in running : UserOf[a] = T}

OnRegisterObject(T, o) == [S \in Tables |-> IF S \in Hear(T) \cap waits THEN told[S] \cup {o} ELSE told[S]]
OnRevokeObject(T, o) == [S \in Tables |-> IF S \in Hear(T) THEN told[S] \ {o} ELSE told[S]]

-----------------------------------------------------------------------------
\* What a thread begins, for an application; which thread it is makes no difference.

Begins(t, what, a, o, calls, knows) ==
    /\ asks[t] = NoOne /\ t = CHOOSE x \in Threads : asks[x] = NoOne
    /\ a \in running
    /\ asks' = [asks EXCEPT ![t] = [for |-> what, app |-> a, obj |-> o]]
    /\ todo' = [todo EXCEPT ![t] = calls]
    /\ known' = [known EXCEPT ![t] = knows]
    /\ UNCHANGED <<running, entries, waits, told, got, gone, used>>

\* RegisterObject registers above first, where that is in the object's scope: with
\* scope & ~ProcessScope in an application, & ~UserScope in a user's process.
TablesFor(a, scope) ==
    CASE scope = "process" -> <<a>>
      [] scope = "user" \/ UserOf[a] = Sandbox -> <<UserOf[a], a>>
      [] OTHER -> <<Sandbox, UserOf[a], a>>

RegisterObject(t, a, f) ==
    LET o == Len(object) + 1
        Ts == TablesFor(a, f.scope) IN
    /\ o \in Objects /\ o + gets <= MaxCalls
    /\ Begins(t, "register", a, o, FlattenSeq([i \in DOMAIN Ts |-> Call("insert", Ts[i], o)]),
              [Unknown EXCEPT !.waits = waits])
    /\ object' = Append(object, [app |-> a, scope |-> f.scope, single |-> f.single, multiple |-> f.multiple])
    /\ UNCHANGED <<gets, listed>>

RevokeByOwner(t, o) ==
    /\ o \in listed
    /\ Begins(t, "revoke", object[o].app, o, Call("revoke", object[o].app, o), Unknown)
    /\ listed' = listed \ {o}
    /\ UNCHANGED <<object, gets>>

GetObject(t, a) ==
    /\ Len(object) + gets < MaxCalls /\ gets' = gets + 1
    /\ Begins(t, "get", a, 0, Call("get", a, 0),
              [Unknown EXCEPT !.listed = listed, !.gone = gone, !.used = used])
    /\ UNCHANGED <<object, listed>>

-----------------------------------------------------------------------------
\* A step of a thread is at its first call: of the table T, about object o.

First(t) == Head(todo[t])
At(t, what) == todo[t] # <<>> /\ First(t).does = what
Returns(t, calls) == todo' = [todo EXCEPT ![t] = calls \o Tail(@)]

Differs(o, p) == \E f \in {"scope", "single", "multiple"} : object[o][f] # object[p][f]
Conflict(T, o) == \E e \in Live(T) : ~object[e.obj].multiple \/ ~Differs(e.obj, o)

\* Entries that are dead are revoked, and then, in the topmost table, others are told.
Inserts(t) ==
    LET T == First(t).at
        o == First(t).obj IN
    /\ At(t, "insert") /\ ~Conflict(T, o)
    /\ entries' = [entries EXCEPT ![T] = @ \cup {[obj |-> o, up |-> GoesUp(T, o)]}]
    /\ Returns(t, Revokes(T, Dead(T)) \o (IF GoesUp(T, o) THEN <<>> ELSE Call("OnRegister", T, o)))
    /\ UNCHANGED <<object, running, waits, told, asks, got, gets, listed, gone, used, known>>

\* A mutant: what is above stays.
ThrowsOnly(t) ==
    /\ At(t, "insert") /\ Conflict(First(t).at, First(t).obj)
    /\ todo' = [todo EXCEPT ![t] = <<>>]
    /\ asks' = [asks EXCEPT ![t].for = "failed"]
    /\ UNCHANGED <<object, running, entries, waits, told, got, gets, listed, gone, used, known>>

\* It is there already: what was registered above is revoked, and all the calls fail.
Throws(t) ==
    LET T == First(t).at
        o == First(t).obj IN
    /\ At(t, "insert") /\ Conflict(T, o)
    /\ todo' = [todo EXCEPT ![t] = IF GoesUp(T, o) THEN Call("revoke", Above(T), o) ELSE <<>>]
    /\ asks' = [asks EXCEPT ![t].for = "failed"]
    /\ UNCHANGED <<object, running, entries, waits, told, got, gets, listed, gone, used, known>>

\* RevokeObject and RevokeObject_i: from there up, and from the topmost others are told.
RevokeObject(t) ==
    LET T == First(t).at
        o == First(t).obj
        own == {e \in entries[T] : e.obj = o} IN
    /\ At(t, "revoke")
    /\ entries' = [entries EXCEPT ![T] = @ \ own]
    /\ Returns(t, IF \E e \in own : e.up THEN Call("revoke", Above(T), o) ELSE <<>>)
    /\ told' = IF \E e \in own : ~e.up THEN OnRevokeObject(T, o) ELSE told
    /\ UNCHANGED <<object, running, waits, asks, got, gets, listed, gone, used, known>>

Notifies(t) ==
    /\ At(t, "OnRegister")
    /\ told' = OnRegisterObject(First(t).at, First(t).obj)
    /\ Returns(t, <<>>)
    /\ UNCHANGED <<object, running, entries, waits, asks, got, gets, listed, gone, used, known>>

\* GetObject: the first one alive that the search comes to, in an order that the
\* sorted table does not say. search_flags exclude none: each scope has the bit of
\* those within it.
Finds(t) ==
    LET T == First(t).at IN
    /\ At(t, "get")
    /\ \E e \in Live(T), before \in SUBSET Dead(T) :
           LET used1 == {d \in {e} : object[e.obj].single} IN
           /\ got' = [got EXCEPT ![t] = [obj |-> e.obj, at |-> T]]
           /\ Returns(t, Revokes(T, used1) \o Revokes(T, before))
    /\ UNCHANGED <<object, running, entries, waits, told, asks, gets, listed, gone, used, known>>

FindsNone(t) ==
    LET T == First(t).at IN
    /\ At(t, "get") /\ Live(T) = {}
    /\ Returns(t, Revokes(T, Dead(T)) \o IF Above(T) = None THEN <<>> ELSE Call("get", Above(T), 0))
    /\ UNCHANGED <<object, running, entries, waits, told, asks, got, gets, listed, gone, used, known>>

Ended(t) == asks[t] # NoOne /\ todo[t] = <<>>

Ends(t) ==
    /\ Ended(t)
    /\ asks' = [asks EXCEPT ![t] = NoOne] /\ got' = [got EXCEPT ![t] = Nothing]
    /\ known' = [known EXCEPT ![t] = Unknown]
    /\ listed' = IF asks[t].for = "register" /\ asks[t].app \in running THEN listed \cup {asks[t].obj} ELSE listed
    /\ gone' = IF asks[t].for = "revoke" THEN gone \cup {asks[t].obj} ELSE gone
    /\ used' = IF got[t] # Nothing THEN used \cup {got[t]} ELSE used
    /\ UNCHANGED <<object, running, entries, waits, told, todo, gets>>

-----------------------------------------------------------------------------
\* A client's notifier, as ROTNotifier is. Bound: it comes before the objects.
RegisterNotify(T) ==
    /\ object = <<>> /\ T \notin waits /\ (T \in Apps => T \in running)
    /\ waits' = waits \cup {T} /\ told' = [told EXCEPT ![T] = {}]
    /\ UNCHANGED <<object, running, entries, todo, asks, got, gets, listed, gone, used, known>>

UnregisterNotify(T) ==
    /\ T \in waits
    /\ waits' = waits \ {T} /\ told' = [told EXCEPT ![T] = {}]
    /\ known' = [t \in Threads |-> [known[t] EXCEPT !.waits = @ \ {T}]]
    /\ UNCHANGED <<object, running, entries, todo, asks, got, gets, listed, gone, used>>

\* An application dies: the calls it made to the tables above go on. Bound: one does.
Dies(a) ==
    /\ running = Apps /\ a \in running
    /\ running' = running \ {a}
    /\ entries' = [entries EXCEPT ![a] = {}]
    /\ todo' = [t \in Threads |-> SelectSeq(todo[t], LAMBDA c : c.at # a)]
    /\ waits' = waits \ {a} /\ told' = [told EXCEPT ![a] = {}]
    /\ listed' = {o \in listed : object[o].app # a}
    /\ UNCHANGED <<object, asks, got, gets, gone, used, known>>

Next ==
    \/ \E t \in Threads :
          \/ \E a \in Apps : \E f \in Flags[a] : RegisterObject(t, a, f)
          \/ \E o \in Objects : RevokeByOwner(t, o)
          \/ \E a \in Apps : GetObject(t, a)
          \/ Inserts(t) \/ Throws(t) \/ RevokeObject(t) \/ Notifies(t)
          \/ Finds(t) \/ FindsNone(t) \/ Ends(t)
    \/ \E T \in Waits : RegisterNotify(T) \/ UnregisterNotify(T)
    \/ \E a \in Apps : Dies(a)

Spec == Init /\ [][Next]_vars

-----------------------------------------------------------------------------
TypeOK ==
    /\ object \in Seq([app : Apps, scope : Scopes, single : BOOLEAN, multiple : BOOLEAN])
    /\ running \subseteq Apps
    /\ entries \in [Tables -> SUBSET [obj : DOMAIN object, up : BOOLEAN]]
    /\ waits \subseteq Tables
    /\ asks \in [Threads -> [for : {"nothing", "register", "failed", "revoke", "get"},
                             app : Apps \cup {None}, obj : {0} \cup Objects]]
    /\ got \in [Threads -> [obj : {0} \cup Objects, at : Tables \cup {None}]]
    /\ gets \in 0..MaxCalls /\ listed \cup gone \subseteq Objects

\* The tables an object is to be in, and those a GetObject of an application searches.
TablesOf(o) ==
    {object[o].app} \cup {UserOf[x] : x \in {y \in {object[o].app} : object[o].scope # "process"}}
                    \cup {S \in {Sandbox} : object[o].scope = "public"}
Searches(a) == {a, UserOf[a], Sandbox}
\* GetObject misses no object that is registered all the while where it searches,
\* and gets none whose revocation had returned before it began. A single-use one may
\* be gone, or be on its way out of the tables; had it been got from a table, it is
\* not got from that again.
GetsWhatThereIs(t) ==
    /\ got[t] = Nothing =>
           ~\E o \in known[t].listed \cap listed :
               /\ TablesOf(o) \cap Searches(asks[t].app) # {}
               /\ ~object[o].single
    /\ got[t] # Nothing =>
           IF object[got[t].obj].single THEN got[t] \notin known[t].used ELSE got[t].obj \notin known[t].gone

\* Whoever had a notifier, in the topmost table of an object or an application's
\* table below it, before the object was registered, has been told of it when it is,
\* if it has not been revoked again.
ToldOf(t) ==
    LET o == asks[t].obj IN
    \A T \in known[t].waits :
        (T = Top(o) \/ (T \in running /\ UserOf[T] = Top(o))) =>
            o \in told[T] \/ ~\E e \in entries[Top(o)] : e.obj = o

\* No application's object is in a table without an entry in each of those below,
\* once nothing is under way: what fails half way up leaves nothing.
NoneStrays ==
    (\A t \in Threads : asks[t] = NoOne) =>
        \A T \in Tables : \A e \in Live(T) :
            \A S \in TablesOf(e.obj) \ {T} :
                (S \in Apps \/ T = Sandbox) => [obj |-> e.obj, up |-> TRUE] \in entries[S]

\* What the tables answer, through several of them in whose steps others come in,
\* is what was registered, and what is left in them is what is.
TablesAreTrue ==
    /\ \A t \in Threads :
           /\ Ended(t) /\ asks[t].for = "get" /\ asks[t].app \in running => GetsWhatThereIs(t)
           /\ Ended(t) /\ asks[t].for = "register" /\ asks[t].app \in running => ToldOf(t)
    /\ NoneStrays
===============================================================================
