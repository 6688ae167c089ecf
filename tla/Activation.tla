------------------------------ MODULE Activation ------------------------------
(***************************************************************************)
(* OOCore::GetObject and the libraries it loads (Activation.cpp): where an *)
(* object is looked for, in which order, and how long the library stays    *)
(* loaded that its code is in. The launch of a process is ObjectLaunch's;  *)
(* here it succeeds or fails.                                              *)
(***************************************************************************)
EXTENDS Integers, FiniteSets, Sequences

CONSTANTS
    Threads,
    Oids, Names,    \* what objects are asked for by,
    Libraries,
    Registries,     \* what is registered: objects, library and kind, below
    None,
    MaxGets,        \* bound: activations,
    MaxSurrogates   \* bound: and the surrogates one of them launches

\* What a library is: a good one, one without an object of this oid, without one
\* of the entry points, of another platform, or not there.
LibraryKinds == {"good", "lacking", "mute", "silent", "alien", "missing"}
Flags == {"Default", "Library", "Process"}

VARIABLES
    objects,     \* the keys below Objects: what a name is the CurrentVersion or OID of,
    library,     \* the Library of an oid, which may be "invalid", or None for an application,
    kind,        \* and what each library is,
    at, asks,    \* each thread's place in GetObject, and what it asks for:
                 \* a name or oid, flags, and whether nothing may be launched
    m_dll_map,   \* the libraries that are mapped,
    m_lock,      \* the thread that holds the lock of the map,
    left,        \* what it has not asked yet whether it can be unloaded,
    dll,         \* the library that a thread holds by a SmartPtr,
    inside,      \* the library whose code it is in,
    holds,       \* the library it has an object of, and
    lockCount,   \* the objects of each library
    did,         \* history: what an activation did,
    surrogates,  \* the surrogates it launched, one from the other,
    gets,        \* and how many there were
    raced        \* history: libraries that said they can be unloaded while a thread was using them

vars == <<objects, library, kind, at, asks, m_dll_map, m_lock, left, dll, inside, holds,
          lockCount, did, surrogates, gets, raced>>

registry == <<objects, library, kind>>
libraries == <<m_dll_map, m_lock, left, dll, inside, holds, lockCount, raced>>

Versions == [is : {"version"}, of : Names] \cup [is : {"oid"}, of : Oids] \cup [is : {"nothing"}, of : {None}]

Init ==
    /\ \E r \in Registries : objects = r.objects /\ library = r.library /\ kind = r.kind
    /\ at = [t \in Threads |-> "idle"]
    /\ asks = [t \in Threads |-> [for |-> None, flags |-> "Default", dont |-> FALSE]]
    /\ m_dll_map = {} /\ m_lock = None /\ left = {}
    /\ dll = [t \in Threads |-> None] /\ inside = dll /\ holds = dll
    /\ lockCount = [l \in Libraries |-> 0]
    /\ did = [t \in Threads |-> {}] /\ surrogates = [t \in Threads |-> 0] /\ gets = 0
    /\ raced = {}

Goes(t, s) == at' = [at EXCEPT ![t] = s]
Does(t, d) == did' = [did EXCEPT ![t] = @ \cup {d}]

\* An application calls GetObject, whose oid is one or a name. What it did before
\* is forgotten.
GetObject(t) ==
    /\ at[t] = "idle" /\ holds[t] = None /\ gets < MaxGets
    /\ \E x \in Oids \cup Names, f \in Flags, dont \in BOOLEAN :
           /\ asks' = [asks EXCEPT ![t] = [for |-> x, flags |-> f, dont |-> dont]]
           /\ Goes(t, IF x \in Oids THEN "instance" ELSE "name")
    /\ did' = [did EXCEPT ![t] = {}] /\ surrogates' = [surrogates EXCEPT ![t] = 0] /\ gets' = gets + 1
    /\ UNCHANGED <<registry, libraries>>

\* A name is looked for in the running object table first, where other objects
\* come and go.
GetNamed(t) ==
    /\ at[t] = "name"
    /\ Goes(t, "oid") \/ Goes(t, "idle")
    /\ UNCHANGED <<registry, asks, libraries, did, surrogates, gets>>

\* NameToOid: as long as there is a current version, that.
NameToOid(t) ==
    LET key == objects[asks[t].for] IN
    /\ at[t] = "oid"
    /\ asks' = IF key.is = "nothing" THEN asks ELSE [asks EXCEPT ![t].for = key.of]
    /\ Goes(t, CASE key.is = "version" -> "oid" [] key.is = "oid" -> "instance" [] OTHER -> "idle")
    /\ UNCHANGED <<registry, libraries, did, surrogates, gets>>

\* GetLocalInstance, up to LoadObject.
GetLocalInstance(t) ==
    /\ at[t] = "instance"
    /\ Goes(t, "idle") \/ (~asks[t].dont /\ Goes(t, "load"))
    /\ UNCHANGED <<registry, asks, libraries, did, surrogates, gets>>

LoadObject(t) ==
    LET lib == library[asks[t].for] IN
    /\ at[t] = "load"
    /\ CASE lib = "invalid" -> Goes(t, "idle")
         [] lib \in Libraries -> Goes(t, IF asks[t].flags = "Process" THEN "surrogate" ELSE "library")
         [] lib = None -> Goes(t, IF asks[t].flags = "Library" THEN "idle" ELSE "launch")
    /\ UNCHANGED <<registry, asks, libraries, did, surrogates, gets>>

Launch(t) ==
    /\ at[t] = "launch"
    /\ Does(t, "launch") /\ Goes(t, "idle")
    /\ UNCHANGED <<registry, asks, libraries, surrogates, gets>>

\* LoadSurrogateObject: the surrogate is launched, or there is none, and asks for
\* the object as a library's. One that lacks the object has it ask a surrogate in
\* its turn.
LoadSurrogateObject(t) ==
    /\ at[t] = "surrogate"
    /\ surrogates[t] < MaxSurrogates
    /\ surrogates' = [surrogates EXCEPT ![t] = @ + 1]
    /\ Goes(t, "idle") \/ (kind[library[asks[t].for]] = "lacking" /\ UNCHANGED at)
    /\ UNCHANGED <<registry, asks, libraries, did, gets>>

-----------------------------------------------------------------------------
\* DLLManagerImpl: m_lock is held over the whole of load_dll, the question to the
\* libraries among it.

Loaded(l) == l \in m_dll_map \/ \E t \in Threads : dll[t] = l

find_dll(t) ==
    LET lib == library[asks[t].for] IN
    /\ at[t] = "library" /\ m_lock = None
    /\ IF lib \in m_dll_map
       THEN dll' = [dll EXCEPT ![t] = lib] /\ Goes(t, "entry") /\ UNCHANGED <<m_lock, left>>
       ELSE m_lock' = t /\ left' = m_dll_map /\ Goes(t, "unload") /\ UNCHANGED dll
    /\ UNCHANGED <<registry, asks, m_dll_map, inside, holds, lockCount, did, surrogates, gets, raced>>

\* A mutant: a library that has no such entry can be unloaded.
can_unload_if_silent(l) == kind[l] = "silent" \/ lockCount[l] = 0

can_unload(l) == kind[l] # "silent" /\ lockCount[l] = 0

\* unload_unused asks a library, which it has a SmartPtr to meanwhile ...
ask_unused(t) ==
    /\ at[t] = "unload"
    /\ \E l \in left :
           /\ left' = left \ {l}
           /\ IF can_unload(l) THEN dll' = [dll EXCEPT ![t] = l] /\ Goes(t, "erase") ELSE UNCHANGED <<dll, at>>
           /\ raced' = IF can_unload(l) /\ \E u \in Threads \ {t} : dll[u] = l \/ inside[u] = l
                       THEN raced \cup {l} ELSE raced
    /\ UNCHANGED <<registry, asks, m_dll_map, m_lock, inside, holds, lockCount, did, surrogates, gets>>

\* ... and takes it from the map by name.
unload_unused(t) ==
    LET l == dll[t] IN
    /\ at[t] = "erase"
    /\ m_dll_map' = m_dll_map \ {l} /\ dll' = [dll EXCEPT ![t] = None]
    /\ Goes(t, "unload")
    /\ UNCHANGED <<registry, asks, m_lock, left, inside, holds, lockCount, did, surrogates, gets, raced>>

\* One of another platform is NULL when allow_null, and the object a surrogate's.
load_dll(t) ==
    LET lib == library[asks[t].for] IN
    /\ at[t] = "unload" /\ left = {}
    /\ m_lock' = None
    /\ CASE kind[lib] = "missing" -> Goes(t, "idle") /\ UNCHANGED <<m_dll_map, dll, did>>
         [] kind[lib] = "alien" ->
                Goes(t, IF asks[t].flags = "Default" THEN "surrogate" ELSE "idle") /\ UNCHANGED <<m_dll_map, dll, did>>
         [] OTHER -> /\ m_dll_map' = m_dll_map \cup {lib} /\ dll' = [dll EXCEPT ![t] = lib]
                     /\ Does(t, "load") /\ Goes(t, "entry")
    /\ UNCHANGED <<registry, asks, left, inside, holds, lockCount, surrogates, gets, raced>>

\* LoadLibraryObject calls the library for the object, which counts it ...
GetLibraryObject(t) ==
    LET lib == dll[t] IN
    /\ at[t] = "entry"
    /\ CASE kind[lib] = "mute" -> Goes(t, "left") /\ UNCHANGED <<inside, lockCount, holds>>
         [] kind[lib] = "lacking" -> Goes(t, "lacked") /\ UNCHANGED <<inside, lockCount, holds>>
         [] OTHER -> /\ lockCount' = [lockCount EXCEPT ![lib] = @ + 1]
                     /\ holds' = [holds EXCEPT ![t] = lib] /\ inside' = [inside EXCEPT ![t] = lib]
                     /\ Goes(t, "left")
    /\ UNCHANGED <<registry, asks, m_dll_map, m_lock, left, dll, did, surrogates, gets, raced>>

\* ... and lets go of the SmartPtr as it returns. No object is as good as no library.
Returns(t) ==
    /\ at[t] \in {"left", "lacked"}
    /\ dll' = [dll EXCEPT ![t] = None] /\ inside' = [inside EXCEPT ![t] = None]
    /\ Goes(t, IF at[t] = "lacked" THEN "surrogate" ELSE "idle")
    /\ UNCHANGED <<registry, asks, m_dll_map, m_lock, left, holds, lockCount, did, surrogates, gets, raced>>

\* The last reference goes: the count, and then the return from the library's code.
Release(t) ==
    /\ at[t] = "idle" /\ holds[t] # None
    /\ lockCount' = [lockCount EXCEPT ![holds[t]] = @ - 1]
    /\ inside' = [inside EXCEPT ![t] = holds[t]] /\ holds' = [holds EXCEPT ![t] = None]
    /\ Goes(t, "left")
    /\ UNCHANGED <<registry, asks, m_dll_map, m_lock, left, dll, did, surrogates, gets, raced>>

Step(t) ==
    \/ GetObject(t) \/ GetNamed(t) \/ NameToOid(t) \/ GetLocalInstance(t) \/ LoadObject(t)
    \/ Launch(t) \/ LoadSurrogateObject(t)
    \/ find_dll(t) \/ ask_unused(t) \/ unload_unused(t) \/ load_dll(t)
    \/ GetLibraryObject(t) \/ Returns(t) \/ Release(t)

Next == \E t \in Threads : Step(t)

Spec == Init /\ [][Next]_vars

-----------------------------------------------------------------------------
TypeOK ==
    /\ at \in [Threads -> {"idle", "name", "oid", "instance", "load", "launch", "surrogate", "library",
                           "unload", "erase", "entry", "left", "lacked"}]
    /\ m_dll_map \subseteq Libraries /\ left \subseteq m_dll_map
    /\ m_lock \in Threads \cup {None}
    /\ {dll, inside, holds} \subseteq [Threads -> Libraries \cup {None}]
    /\ \A l \in Libraries : lockCount[l] = Cardinality({t \in Threads : holds[t] = l})
    /\ gets \in 0..MaxGets /\ raced \subseteq Libraries

\* A library that has objects, or a thread in its code, is loaded, but for one
\* that another thread took from the map because it had none yet, or none any
\* more, while a thread was on its way into its code or out of it.
LibrariesStay ==
    \A l \in Libraries \ raced :
        lockCount[l] > 0 \/ (\E t \in Threads : inside[t] = l) => Loaded(l)

\* What may not launch does not, nor does it load; Process loads no library, and
\* Library launches nothing but the surrogate of a library that lacks the object.
DoesAsAsked ==
    \A t \in Threads :
        /\ asks[t].dont => did[t] = {} /\ surrogates[t] = 0
        /\ asks[t].flags = "Process" => "load" \notin did[t]
        /\ asks[t].flags = "Library" =>
              /\ "launch" \notin did[t]
              /\ surrogates[t] > 0 => kind[library[asks[t].for]] = "lacking"

\* Both: an activation does what it is asked to, and its library stays.
ActivatesAsAsked == LibrariesStay /\ DoesAsAsked
===============================================================================
