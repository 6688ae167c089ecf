----------------------------- MODULE MCActivation -----------------------------
(***************************************************************************)
(* What an application's GetObject does: it looks for the object and loads *)
(* a library, or a process is launched. Names are looked up in an overlay  *)
(* of the user's registry and that of all users, and objects in tables, of *)
(* which ObjectLaunch has one. To a launch what is loaded is nothing, and  *)
(* to a load the registry stays as it is: a behaviour is one of one of the *)
(* four, the others resting.                                               *)
(***************************************************************************)
EXTENDS MCObjectLaunch

CONSTANTS
    Names, Libraries, Registries,  \* what a load finds: any of these, or those below
    n1, n2, l1, l2, MaxSurrogates, MaxChanges, appA, appB, user, sandbox, MaxObjects, MaxCalls

VARIABLES
    part, objects, library, kind, at, asks, m_dll_map, m_lock, left, dll, inside, holds,
    lockCount, did, surrogates, loads, raced,
    ids, value, last, key, asked, seen, moments, answer,
    object, running, entries, waits, told, todo, calls, found, getsOf, listed, gone, used, known

\* A name's version is another name, whose oid is o1; l1 has its objects, or l2
\* has, where something is wrong with the other one. Two registries are wrong:
\* versions of each other, and a version of nothing.
Keys(k1, k2) == n1 :> k1 @@ n2 :> k2
Key(is, of) == [is |-> is, of |-> of]
Kinds(ks) == {f \in [{l1, l2} -> ks] : f[l1] = "good" \/ (f[l1] = "silent" /\ f[l2] = "good")}

MCRegistries ==
    {[objects |-> Keys(Key("version", n2), Key("oid", o1)), library |-> (o1 :> l1 @@ o2 :> l2), kind |-> k] :
        k \in Kinds({"good", "lacking", "mute", "silent", "alien", "missing"})}
    \cup
    {[objects |-> Keys(Key("version", n2), k2), library |-> (o1 :> None @@ o2 :> "invalid"),
      kind |-> l1 :> "good" @@ l2 :> "good"] :
        k2 \in {Key("version", n1), Key("nothing", None)}}

Loads == INSTANCE Activation WITH gets <- loads

ASSUME ActivationAssumption ==
    /\ IsFiniteSet(Threads) /\ None \notin Threads
    /\ None \notin Libraries /\ "invalid" \notin Libraries /\ None # "invalid"
    /\ \A r \in Registries : /\ r.objects \in [Names -> Loads!Versions]
                             /\ r.library \in [Oids -> Libraries \cup {None, "invalid"}]
                             /\ r.kind \in [Libraries -> Loads!LibraryKinds]
    /\ None \notin BOOLEAN /\ n1 \notin BOOLEAN /\ n2 \notin BOOLEAN
    /\ None \notin {{}, {"subkey"}, {"value"}}

\* The user's own key over that of all users; what each is set to is its own.
Ovl == INSTANCE Overlay WITH
    Set <- [l \in {"over", "under"} |-> IF l = "over" THEN n1 ELSE n2], at <- asked

\* Two applications, the one of a user and the other in the sandbox; the former has
\* a client's notifier.
ForAll == [scope |-> "public", single |-> TRUE, multiple |-> TRUE]
OfUser == [scope |-> "user", single |-> FALSE, multiple |-> TRUE]

Tbl == INSTANCE ObjectTables WITH
    Apps <- {appA, appB}, UserOf <- appA :> user @@ appB :> sandbox, Sandbox <- sandbox, Waits <- {appA},
    Flags <- appA :> {ForAll, OfUser} @@ appB :> {ForAll},
    asks <- calls, got <- found, gets <- getsOf

loadVars == <<objects, library, kind, at, asks, m_dll_map, m_lock, left, dll, inside, holds,
              lockCount, did, surrogates, loads, raced>>
ovlVars == <<ids, value, last, key, asked, seen, moments, answer>>
tblVars == <<object, running, entries, waits, told, todo, calls, found, getsOf, listed, gone, used, known>>

ActivationInit ==
    /\ part \in {"launch", "load", "overlay", "tables"}
    /\ Init /\ Loads!Init /\ Tbl!Init
    /\ part # "load" => objects[n2].is = "oid" /\ \A l \in Libraries : kind[l] = "good"
    /\ IF part = "overlay" THEN Ovl!Init
       ELSE /\ ids = <<>> /\ value = <<>> /\ last = 0 /\ key = Ovl!NoKey
            /\ asked = Ovl!Idle /\ seen = <<>> /\ moments = {} /\ answer = <<>>

ActivationNext ==
    \/ part = "launch" /\ Next /\ UNCHANGED <<part, loadVars, ovlVars, tblVars>>
    \/ part = "load" /\ Loads!Next /\ UNCHANGED <<part, vars, ovlVars, tblVars>>
    \/ part = "overlay" /\ Ovl!Next /\ UNCHANGED <<part, vars, loadVars, tblVars>>
    \/ part = "tables" /\ Tbl!Next /\ UNCHANGED <<part, vars, loadVars, ovlVars>>

ActivationSpec == ActivationInit /\ [][ActivationNext]_<<part, vars, loadVars, ovlVars, tblVars>> /\ Fairness

\* Each part is of its type.
ActivationTypeOK ==
    CASE part = "launch" -> TypeOK
      [] part = "load" -> Loads!TypeOK
      [] part = "overlay" -> Ovl!TypeOK
      [] part = "tables" -> Tbl!TypeOK

\* Each of these is what its part's module says of it.
ActivatesAsAsked == Loads!ActivatesAsAsked
AnswersWereSo ==
    /\ part = "overlay" => Ovl!AnswersWereSo
    /\ part = "tables" => Tbl!TablesAreTrue
===============================================================================
