----------------------------- MODULE ObjectLaunch -----------------------------
(***************************************************************************)
(* Finding an object by its oid, or starting the application that has it:  *)
(* GetLocalInstance in the client, User::RunningObjectTable and            *)
(* InterProcessService::LaunchObjectApp in the user process, and the       *)
(* applications that register their objects, first in the user's table and *)
(* then in their own (OOCore::LocalROT).                                   *)
(*                                                                         *)
(* An entry stands for its cookie: an application registers an oid once.   *)
(***************************************************************************)
EXTENDS FiniteSets, Naturals, Sequences

CONSTANTS
    Threads,   \* threads that serve the clients' activations
    Oids,      \* object ids
    Apps,      \* executables
    Factories, \* [Apps -> Seq(Oids)]: the object map of each executable
    Single,    \* oids registered with Activation::SingleUse
    Public,    \* oids registered with Activation::PublicScope
    MaxGets,   \* bound: activations altogether
    None

\* The processes that are started, in their order: no activation starts two.
Procs == 1..MaxGets

OwnOids(a) == {Factories[a][i] : i \in DOMAIN Factories[a]}

ASSUME LaunchAssumption ==
    /\ Factories \in [Apps -> Seq(Oids)]
    /\ \A o \in Oids : \E a \in Apps : \A b \in Apps : o \in OwnOids(b) <=> a = b
    /\ Single \subseteq Oids /\ Public \subseteq Oids
    /\ MaxGets \in Nat
    /\ None \notin Procs /\ None \notin Apps /\ None \notin Oids

\* The executable the registry names for an oid.
AppOf(o) == CHOOSE a \in Apps : o \in OwnOids(a)

VARIABLES
    proc,        \* what has become of each process
    app,         \* the executable it runs
    reg,         \* where each process is in registering each oid
    local,       \* the entries of its LocalROT
    upper,       \* the entries of the user's table
    inProgress,  \* m_mapInProgress
    pc,          \* where each thread is
    want,        \* the oid it is to find
    mine,        \* ptrProcess: the process its launch waits for
    got,         \* the process whose object it has found
    signalled,   \* threads whose ROTNotifier has been signalled
    before,      \* the entries for its oid when its ROTNotifier was registered
    thrown,      \* has an exception left a launch?
    gets         \* activations so far (bounded by MaxGets)

procVars == <<proc, app, reg, local>>
threadVars == <<pc, want, mine, got>>
vars == <<procVars, upper, inProgress, threadVars, signalled, before, thrown, gets>>

-----------------------------------------------------------------------------

Entry == [oid : Oids, proc : Procs]

RegPlaces == {"none", "listed", "told", "in", "undone", "revoked", "out"}

ProcessTypeOK ==
    /\ proc \in [Procs -> {"none", "running", "hung", "gone", "killed"}]
    /\ app \in [Procs -> Apps \cup {None}]
    /\ reg \in [Procs -> [Oids -> RegPlaces]]
    /\ local \in [Procs -> SUBSET Oids]

TableTypeOK ==
    /\ upper \subseteq Entry
    /\ inProgress \in [Apps -> Procs \cup {None}]
    /\ signalled \subseteq Threads
    /\ before \in [Threads -> SUBSET Entry]

Places == {"idle", "look", "lookRevoke", "enter", "notifier", "wait", "fetch",
           "fetchRevoke", "check", "leave", "leaveRunning", "kill"}

ThreadTypeOK ==
    /\ pc \in [Threads -> Places]
    /\ want \in [Threads -> Oids \cup {None}]
    /\ mine \in [Threads -> Procs \cup {None}]
    /\ got \in [Threads -> Procs \cup {None}]

\* A thread that is at something has an oid, and a launch a process.
ActiveTypeOK ==
    \A t \in Threads :
        /\ pc[t] = "idle" <=> want[t] = None
        /\ pc[t] \in {"notifier", "wait", "fetch", "fetchRevoke", "check", "leaveRunning", "kill"}
              => mine[t] # None

TypeOK ==
    /\ ProcessTypeOK /\ TableTypeOK /\ ThreadTypeOK /\ ActiveTypeOK
    /\ thrown \in BOOLEAN
    /\ gets \in 0..MaxGets

Init ==
    /\ proc = [p \in Procs |-> "none"]
    /\ app = [p \in Procs |-> None]
    /\ reg = [p \in Procs |-> [o \in Oids |-> "none"]]
    /\ local = [p \in Procs |-> {}]
    /\ upper = {}
    /\ inProgress = [a \in Apps |-> None]
    /\ pc = [t \in Threads |-> "idle"]
    /\ want = [t \in Threads |-> None]
    /\ mine = [t \in Threads |-> None]
    /\ got = [t \in Threads |-> None]
    /\ signalled = {}
    /\ before = [t \in Threads |-> {}]
    /\ thrown = FALSE
    /\ gets = 0

IsRunning(p) == p \in Procs /\ proc[p] \in {"running", "hung"}

\* Remoting::IsAlive: the channel to the process is open.
IsAlive(e) == IsRunning(e.proc)

Entries(o) == {e \in upper : e.oid = o}
Live(o) == {e \in Entries(o) : IsAlive(e)}
Dead(o) == {e \in Entries(o) : ~IsAlive(e)}

\* Is p still on its way to register something?  An application whose
\* registration fails gives up.
Starting(p) ==
    /\ proc[p] = "running"
    /\ \E o \in OwnOids(app[p]) : reg[p][o] \in {"none", "listed", "told", "undone"}
    /\ \A o \in OwnOids(app[p]) : reg[p][o] # "out"

\* The process has registered all its objects.
Started(p) == proc[p] = "running" /\ \A o \in OwnOids(app[p]) : reg[p][o] = "in"

-----------------------------------------------------------------------------
\* A process registers its objects one after the other

At(p, o, place) == proc[p] = "running" /\ o \in OwnOids(app[p]) /\ reg[p][o] = place
Goes(p, o, place) == reg' = [reg EXCEPT ![p][o] = place]

\* The objects before o in the object map of p are at place.
After(p, o, place) == LET f == Factories[app[p]] IN
    \A i, k \in DOMAIN f : f[i] = o /\ k < i => reg[p][f[k]] = place

\* User::RunningObjectTable::RegisterObject.  It throws IAlreadyExistsException
\* when there is a live entry, and the application gives up.
RegisterObject(p, o) ==
    /\ At(p, o, "none") /\ After(p, o, "in")
    /\ IF Live(o) = {}
       THEN /\ upper' = (upper \ Dead(o)) \cup {[oid |-> o, proc |-> p]}
            /\ Goes(p, o, "listed")
       ELSE /\ Goes(p, o, "out")
            /\ UNCHANGED upper
    /\ UNCHANGED <<proc, app, local, inProgress, threadVars, signalled, before, thrown, gets>>

Notified(o) == IF o \in Public THEN {} ELSE {t \in Threads : pc[t] = "wait" /\ want[t] = o}

\* Mutant of OnRegisterObject: the first notifier that is called ends the loop.
OnRegisterOne(p, o) ==
    /\ At(p, o, "listed")
    /\ IF Notified(o) = {} THEN UNCHANGED signalled
       ELSE \E t \in Notified(o) : signalled' = signalled \cup {t}
    /\ Goes(p, o, "told")
    /\ UNCHANGED <<proc, app, local, upper, inProgress, threadVars, before, thrown, gets>>

\* OnRegisterObject calls the notifiers of the user's table, unless the object
\* went to the sandbox's table as well: that one is to tell, and nobody has
\* registered with it on behalf of this one.
OnRegisterObject(p, o) ==
    /\ At(p, o, "listed")
    /\ signalled' = signalled \cup Notified(o)
    /\ Goes(p, o, "told")
    /\ UNCHANGED <<proc, app, local, upper, inProgress, threadVars, before, thrown, gets>>

\* OOCore::LocalROT::RegisterObject, after its call to the user's table ...
LocalRegister(p, o) ==
    /\ At(p, o, "told")
    /\ local' = [local EXCEPT ![p] = @ \cup {o}]
    /\ Goes(p, o, "in")
    /\ UNCHANGED <<proc, app, upper, inProgress, threadVars, signalled, before, thrown, gets>>

\* ... which fails, and is undone in the catch block.
LocalRegisterFails(p, o) ==
    /\ At(p, o, "told")
    /\ Goes(p, o, "undone")
    /\ UNCHANGED <<proc, app, local, upper, inProgress, threadVars, signalled, before, thrown, gets>>

\* Mutant of LocalRevoke: the cookie of the user's table is forgotten.
LocalRevokeOnly(p, o) ==
    /\ At(p, o, "in") /\ After(p, o, "out") /\ ~Starting(p)
    /\ local' = [local EXCEPT ![p] = @ \ {o}]
    /\ Goes(p, o, "out")
    /\ UNCHANGED <<proc, app, upper, inProgress, threadVars, signalled, before, thrown, gets>>

\* LocalROT::RevokeObject: the own entry, then that of the user's table.
LocalRevoke(p, o) ==
    /\ At(p, o, "in") /\ After(p, o, "out") /\ ~Starting(p)
    /\ local' = [local EXCEPT ![p] = @ \ {o}]
    /\ Goes(p, o, "revoked")
    /\ UNCHANGED <<proc, app, upper, inProgress, threadVars, signalled, before, thrown, gets>>

UpperRevoke(p, o) ==
    /\ At(p, o, "undone") \/ At(p, o, "revoked")
    /\ upper' = upper \ {[oid |-> o, proc |-> p]}
    /\ Goes(p, o, "out")
    /\ UNCHANGED <<proc, app, local, inProgress, threadVars, signalled, before, thrown, gets>>

\* A process stops working without ending, or ends.
Hangs(p) ==
    /\ proc[p] = "running" /\ ~Started(p)
    /\ proc' = [proc EXCEPT ![p] = "hung"]
    /\ UNCHANGED <<app, reg, local, upper, inProgress, threadVars, signalled, before, thrown, gets>>

Ends(p, how) ==
    /\ proc' = [proc EXCEPT ![p] = how]
    /\ local' = [local EXCEPT ![p] = {}]
    /\ reg' = [reg EXCEPT ![p] = [o \in Oids |-> "out"]]

Exits(p) ==
    /\ IsRunning(p)
    /\ Ends(p, "gone")
    /\ UNCHANGED <<app, upper, inProgress, threadVars, signalled, before, thrown, gets>>

-----------------------------------------------------------------------------
\* GetLocalInstance and LaunchObjectApp

GetInstance(t, o) ==
    /\ pc[t] = "idle" /\ gets < MaxGets
    /\ gets' = gets + 1
    /\ pc' = [pc EXCEPT ![t] = "look"]
    /\ want' = [want EXCEPT ![t] = o]
    /\ UNCHANGED <<procVars, upper, inProgress, mine, got, signalled, before, thrown>>

\* The thread is done: all it holds is let go of.
Return(t) ==
    /\ pc' = [pc EXCEPT ![t] = "idle"]
    /\ want' = [want EXCEPT ![t] = None]
    /\ mine' = [mine EXCEPT ![t] = None]
    /\ got' = [got EXCEPT ![t] = None]
    /\ signalled' = signalled \ {t}
    /\ before' = [before EXCEPT ![t] = {}]

Step(t, from, to) == pc[t] = from /\ pc' = [pc EXCEPT ![t] = to]

\* User::RunningObjectTable::GetObject: looks for a live entry with the read lock
\* held; the dead ones it meets, or the single-use one it finds, are revoked when
\* the lock is released.  An oid has one entry, dead or alive.
Finds(t, from, revoke, to) ==
    /\ \E e \in Live(want[t]) :
          /\ Step(t, from, IF e.oid \in Single THEN revoke ELSE to)
          /\ got' = [got EXCEPT ![t] = e.proc]
    /\ UNCHANGED <<procVars, upper, inProgress, want, mine, signalled, before, thrown, gets>>

FindsNone(t, from, to) ==
    /\ Live(want[t]) = {}
    /\ Step(t, from, to)
    /\ upper' = upper \ Dead(want[t])
    /\ UNCHANGED <<procVars, inProgress, want, mine, got, signalled, before, thrown, gets>>

RevokesUsed(t, from, to) ==
    /\ Step(t, from, to)
    /\ upper' = upper \ {[oid |-> want[t], proc |-> got[t]]}
    /\ UNCHANGED <<procVars, inProgress, want, mine, got, signalled, before, thrown, gets>>

Look(t) ==
    \/ Finds(t, "look", "lookRevoke", "leave")
    \/ FindsNone(t, "look", "enter")
    \/ RevokesUsed(t, "lookRevoke", "leave")

\* It was running already: the client has the object.
ReturnsFound(t) ==
    /\ pc[t] = "leave" /\ mine[t] = None
    /\ Return(t)
    /\ UNCHANGED <<procVars, upper, inProgress, thrown, gets>>

\* Mutant of Enter: an entry whose process has ended is removed, and no process is
\* started in its place.
EnterStale(t) == LET a == AppOf(want[t]) IN
    /\ Step(t, "enter", "notifier")
    /\ IF inProgress[a] # None
       THEN /\ mine' = [mine EXCEPT ![t] = IF IsRunning(inProgress[a]) THEN inProgress[a] ELSE None]
            /\ UNCHANGED <<proc, app, inProgress>>
       ELSE \E p \in Procs :
            /\ proc[p] = "none" /\ \A q \in Procs : q < p => proc[q] # "none"
            /\ proc' = [proc EXCEPT ![p] = "running"]
            /\ app' = [app EXCEPT ![p] = a]
            /\ inProgress' = [inProgress EXCEPT ![a] = p]
            /\ mine' = [mine EXCEPT ![t] = p]
    /\ UNCHANGED <<reg, local, upper, want, got, signalled, before, thrown, gets>>

\* The process of the application that is being started, or a new one.
Enter(t) == LET a == AppOf(want[t]) IN
    /\ Step(t, "enter", "notifier")
    /\ IF IsRunning(inProgress[a])
       THEN /\ mine' = [mine EXCEPT ![t] = inProgress[a]]
            /\ UNCHANGED <<proc, app, inProgress>>
       ELSE \E p \in Procs :
            /\ proc[p] = "none" /\ \A q \in Procs : q < p => proc[q] # "none"
            /\ proc' = [proc EXCEPT ![p] = "running"]
            /\ app' = [app EXCEPT ![p] = a]
            /\ inProgress' = [inProgress EXCEPT ![a] = p]
            /\ mine' = [mine EXCEPT ![t] = p]
    /\ UNCHANGED <<reg, local, upper, want, got, signalled, before, thrown, gets>>

\* ROTNotifier
RegisterNotify(t) ==
    /\ Step(t, "notifier", "wait")
    /\ before' = [before EXCEPT ![t] = Entries(want[t])]
    /\ UNCHANGED <<procVars, upper, inProgress, want, mine, got, signalled, thrown, gets>>

Woken(t) ==
    /\ Step(t, "wait", "fetch")
    /\ t \in signalled
    /\ UNCHANGED <<procVars, upper, inProgress, want, mine, got, signalled, before, thrown, gets>>

\* Mutant of TimesOut: the wait goes on as long as the process runs.
TimesOutWithProcess(t) ==
    /\ Step(t, "wait", "check")
    /\ t \notin signalled /\ ~IsRunning(mine[t])
    /\ UNCHANGED <<procVars, upper, inProgress, want, mine, got, signalled, before, thrown, gets>>

\* 30 s have passed.  Processes that start are taken to be faster than that, and
\* to be hung otherwise.
TimesOut(t) ==
    /\ Step(t, "wait", "check")
    /\ t \notin signalled /\ \A p \in Procs : ~Starting(p)
    /\ UNCHANGED <<procVars, upper, inProgress, want, mine, got, signalled, before, thrown, gets>>

Fetch(t) ==
    \/ Finds(t, "fetch", "fetchRevoke", "check")
    \/ FindsNone(t, "fetch", "check")
    \/ RevokesUsed(t, "fetchRevoke", "check")

\* The object does not have the interface: the exception leaves LaunchObjectApp
\* and the entry of m_mapInProgress behind it.
Throws(t) ==
    /\ pc[t] \in {"look", "fetch"} /\ Live(want[t]) # {}
    /\ thrown' = (thrown \/ pc[t] = "fetch")
    /\ Return(t)
    /\ UNCHANGED <<procVars, upper, inProgress, gets>>

CheckRunning(t) ==
    /\ mine[t] # None
    /\ Step(t, "check", IF IsRunning(mine[t]) THEN "leaveRunning" ELSE "leave")
    /\ UNCHANGED <<procVars, upper, inProgress, want, mine, got, signalled, before, thrown, gets>>

\* Mutant of Leave: the entry is left for the next launch to find dead.
LeaveEntry(t) ==
    /\ pc[t] \in {"leave", "leaveRunning"} /\ mine[t] # None
    /\ UNCHANGED inProgress
    /\ IF got[t] = None /\ pc[t] = "leaveRunning"
       THEN /\ pc' = [pc EXCEPT ![t] = "kill"]
            /\ UNCHANGED <<want, mine, got, signalled, before>>
       ELSE Return(t)
    /\ UNCHANGED <<procVars, upper, thrown, gets>>

\* The launch is taken out of m_mapInProgress, by the name of the executable.
Leave(t) ==
    /\ pc[t] \in {"leave", "leaveRunning"} /\ mine[t] # None
    /\ inProgress' = [inProgress EXCEPT ![AppOf(want[t])] = None]
    /\ IF got[t] = None /\ pc[t] = "leaveRunning"
       THEN /\ pc' = [pc EXCEPT ![t] = "kill"]
            /\ UNCHANGED <<want, mine, got, signalled, before>>
       ELSE Return(t)
    /\ UNCHANGED <<procVars, upper, thrown, gets>>

\* "Given up waiting for process": ITimeoutException.
Kill(t) == LET p == mine[t] IN
    /\ pc[t] = "kill"
    /\ IF IsRunning(p)
       THEN Ends(p, "killed")
       ELSE UNCHANGED <<proc, local, reg>>
    /\ Return(t)
    /\ UNCHANGED <<app, upper, inProgress, thrown, gets>>

-----------------------------------------------------------------------------

RegisterStep(p, o) ==
    \/ RegisterObject(p, o) \/ OnRegisterObject(p, o)
    \/ LocalRegister(p, o) \/ LocalRegisterFails(p, o) \/ UpperRevoke(p, o)

ThreadStep(t) ==
    \/ Look(t) \/ ReturnsFound(t) \/ Enter(t) \/ RegisterNotify(t) \/ Woken(t) \/ TimesOut(t)
    \/ Fetch(t) \/ Throws(t) \/ CheckRunning(t) \/ Leave(t) \/ Kill(t)

Handling ==
    \/ \E t \in Threads : ThreadStep(t)
    \/ \E p \in Procs, o \in Oids : RegisterStep(p, o)

Next ==
    \/ \E t \in Threads, o \in Oids : GetInstance(t, o)
    \/ Handling
    \/ \E p \in Procs : Hangs(p) \/ Exits(p) \/ \E o \in Oids : LocalRevoke(p, o)

\* Threads run, and a process registers its objects unless it hangs or ends.  As
\* activations are finitely many, it is enough that something is done while
\* something can be.
Fairness == WF_vars(Handling)

Spec == Init /\ [][Next]_vars /\ Fairness

-----------------------------------------------------------------------------
\* Properties

\* The two tables agree: an entry of the user's table whose process lives is one
\* of that process's own table too, or the process is at work on it.  Neither a
\* registration that fails half way nor a revocation leaves an entry that nobody
\* will ever take out.
TablesAgree ==
    \A e \in upper : IsAlive(e) =>
        \/ e.oid \in local[e.proc]
        \/ reg[e.proc][e.oid] \in {"listed", "told", "undone", "revoked"}

\* Whoever waits for an oid to be registered is told: an entry that has come
\* after its notifier signals it, or is about to (RegisterObject lists the entry
\* before it notifies, and the notifier is registered before the wait).  Not so
\* for public objects, which only the sandbox's table announces.
WaitersAreTold ==
    \A t \in Threads : pc[t] = "wait" /\ t \notin signalled =>
        \A e \in Entries(want[t]) \ before[t] :
            e.oid \in Public \/ ~IsAlive(e) \/ proc[e.proc] = "hung" \/ reg[e.proc][e.oid] = "listed"

\* m_mapInProgress has a launch in progress: the thread that put the entry there
\* is still at it, unless an exception has carried a thread past the removal.
InProgressIsTrue ==
    ~thrown => \A a \in Apps : inProgress[a] # None =>
        \E t \in Threads : mine[t] = inProgress[a] /\ pc[t] # "kill"

\* Every activation ends, whatever the process does: 30 s bound the wait.
ActivationEnds == \A t \in Threads : []<>(pc[t] = "idle")

\* "Wait for the process to start and register its parts..." (UserIPS.cpp:246),
\* and kill it if it does not.  The code breaks it: the launch may have missed the
\* registration, lost a single-use object to another launch of the application,
\* or wait for a public one.
KillsOnlyTheHung ==
    [][\A p \in Procs : Started(p) => proc'[p] # "killed"]_vars
=============================================================================
