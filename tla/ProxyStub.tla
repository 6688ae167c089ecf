------------------------------ MODULE ProxyStub ------------------------------
(***************************************************************************)
(* The object managers (StdObjectManager) at the two ends of a channel:    *)
(* the owner's, with a Stub for every object it has marshalled, and the    *)
(* holder's, with a Proxy for every stub it has been sent. Each manager is *)
(* both; what it does as an owner and as a holder shares m_lock only.      *)
(*                                                                         *)
(* Requests are served by a pool of threads at each end, so messages are   *)
(* handled in any order.                                                   *)
(***************************************************************************)
EXTENDS FiniteSets, Integers

CONSTANTS
    Objects,
    OwnerThreads, HolderThreads,
    Proxies,      \* places for Proxy objects in the holder's memory
    MaxId,        \* bound: stubs ever created
    MaxMarshals,  \* bound: references ever sent, reflections included
    None

ASSUME ProxyAssumption ==
    /\ IsFiniteSet(OwnerThreads) /\ IsFiniteSet(Proxies)
    /\ MaxId \in Nat /\ MaxMarshals \in Nat
    /\ None \notin Objects /\ None \notin Proxies /\ None \notin 1..MaxId

\* Ids of stubs. The handle table does not give an id a second time before it
\* has gone through all 2^32.
Ids == 1..MaxId

VARIABLES
    stubIds,   \* owner's m_mapStubIds
    stubObjs,  \* owner's m_mapStubObjs: the id of an object's stub
    objOf,     \* Stub::m_ptrObj
    count,     \* Stub::m_marshal_count
    nextId,
    otask,     \* what each thread of the owner is doing, and with which stub
    wire,      \* references on their way to the holder
    rel,       \* releases on their way to the owner
    proxyIds,  \* holder's m_mapProxyIds
    proxy,     \* the Proxy objects: id, references, and what has become of them
    htask,     \* what each thread of the holder is doing, and with which Proxy
    open,      \* is the channel connected?
    emptied,   \* has the owner's Shutdown come to its end?
    marshals,  \* references sent so far (bounded by MaxMarshals)
    kept,      \* history: references counted for which no release is ever sent: not
               \* undone, sent to a proxy that was there, or passed on to a third process
    raced      \* history: stubs marshalled while being removed, or charged for
               \* another's undo

ownerVars == <<stubIds, stubObjs, objOf, count, nextId, otask, emptied>>
holderVars == <<proxyIds, proxy, htask>>
vars == <<ownerVars, wire, rel, holderVars, open, marshals, kept, raced>>

-----------------------------------------------------------------------------

OTasks == [at : {"idle"}, id : {None}]
    \cup [at : {"create"}, id : Objects]
    \cup [at : {"found", "counted", "undo", "release", "remove"}, id : Ids]

HTasks == [at : {"idle"}, proxy : {None}]
    \cup [at : {"insert", "remove", "stuck"}, proxy : Proxies]

OIdle == [at |-> "idle", id |-> None]
HIdle == [at |-> "idle", proxy |-> None]
Free == [id |-> None, refs |-> 0, state |-> "free"]

TypeOK ==
    /\ stubIds \subseteq Ids
    /\ stubObjs \in [Objects -> Ids \cup {None}]
    /\ objOf \in [Ids -> Objects \cup {None}]
    /\ count \in [Ids -> Int]
    /\ nextId \in 1..MaxId + 1
    /\ otask \in [OwnerThreads -> OTasks]
    /\ wire \in [Ids -> Nat] /\ rel \in [Ids -> Nat] /\ kept \in [Ids -> Nat]
    /\ proxyIds \in [Ids -> Proxies \cup {None}]
    /\ proxy \in [Proxies -> [id : Ids \cup {None}, refs : Nat,
                              state : {"free", "new", "live", "final", "deleted"}]]
    /\ htask \in [HolderThreads -> HTasks]
    /\ open \in BOOLEAN /\ emptied \in BOOLEAN
    /\ marshals \in 0..MaxMarshals
    /\ raced \subseteq Ids

Init ==
    /\ stubIds = {} /\ stubObjs = [o \in Objects |-> None]
    /\ objOf = [i \in Ids |-> None] /\ count = [i \in Ids |-> 0] /\ nextId = 1
    /\ otask = [t \in OwnerThreads |-> OIdle]
    /\ wire = [i \in Ids |-> 0] /\ rel = [i \in Ids |-> 0]
    /\ proxyIds = [i \in Ids |-> None] /\ proxy = [p \in Proxies |-> Free]
    /\ htask = [h \in HolderThreads |-> HIdle]
    /\ open = TRUE /\ emptied = FALSE
    /\ marshals = 0 /\ kept = [i \in Ids |-> 0] /\ raced = {}

OTask(t, at, id) == otask' = [otask EXCEPT ![t] = [at |-> at, id |-> id]]
ODone(t) == otask' = [otask EXCEPT ![t] = OIdle]
HTask(h, at, p) == htask' = [htask EXCEPT ![h] = [at |-> at, proxy |-> p]]
HDone(h) == htask' = [htask EXCEPT ![h] = HIdle]
Add(f, i) == [f EXCEPT ![i] = @ + 1]
Sub(f, i) == [f EXCEPT ![i] = @ - 1]

\* A proxy that others than the thread that makes it have references to.
InUse(p) == proxy[p].refs > 0 /\ proxy[p].state \in {"live", "final"}

\* Threads of the owner, resp. of the holder, that are in a step.
OAt(at, i) == {t \in OwnerThreads : otask[t] = [at |-> at, id |-> i]}
HAt(at) == {h \in HolderThreads : htask[h].at = at}

-----------------------------------------------------------------------------
\* The owner.

\* MarshalInterface looks for the object's stub under the read lock. It asks if
\* there is a channel, not if that is open.
MarshalInterface(t, o) ==
    /\ otask[t] = OIdle /\ marshals < MaxMarshals
    /\ marshals' = marshals + 1
    /\ IF stubObjs[o] # None
         THEN OTask(t, "found", stubObjs[o])
         ELSE OTask(t, "create", o)
    /\ UNCHANGED <<stubIds, stubObjs, objOf, count, nextId, emptied, wire, rel,
                   holderVars, open, kept, raced>>

\* Mutant of CreateStub: it does not look again.
CreateStubUnchecked(t) ==
    /\ otask[t].at = "create"
    /\ nextId \in Ids
    /\ stubIds' = stubIds \cup {nextId}
    /\ stubObjs' = [stubObjs EXCEPT ![otask[t].id] = nextId]
    /\ objOf' = [objOf EXCEPT ![nextId] = otask[t].id]
    /\ nextId' = nextId + 1
    /\ OTask(t, "found", nextId)
    /\ UNCHANGED <<count, emptied, wire, rel, holderVars, open, marshals, kept, raced>>

\* It has found none: it looks again under the write lock, and creates it.
CreateStub(t) ==
    /\ otask[t].at = "create"
    /\ LET o == otask[t].id IN
         IF stubObjs[o] # None
           THEN /\ OTask(t, "found", stubObjs[o])
                /\ UNCHANGED <<stubIds, stubObjs, objOf, nextId>>
           ELSE /\ nextId \in Ids
                /\ stubIds' = stubIds \cup {nextId}
                /\ stubObjs' = [stubObjs EXCEPT ![o] = nextId]
                /\ objOf' = [objOf EXCEPT ![nextId] = o]
                /\ nextId' = nextId + 1
                /\ OTask(t, "found", nextId)
    /\ UNCHANGED <<count, emptied, wire, rel, holderVars, open, marshals, kept, raced>>

\* Stub::MarshalInterface counts the reference, outside the lock. The stub may
\* have been removed, or its count have come to 0, since it was found.
CountMarshal(t) ==
    /\ otask[t].at = "found"
    /\ LET i == otask[t].id IN
         /\ count' = Add(count, i)
         /\ OTask(t, "counted", i)
         /\ raced' = IF i \in stubIds /\ OAt("remove", i) = {}
                       THEN raced ELSE raced \cup {i}
    /\ UNCHANGED <<stubIds, stubObjs, objOf, nextId, emptied, wire, rel, holderVars,
                   open, marshals, kept>>

\* The message that carries the reference is sent; or it cannot be, and what it
\* carries is unpacked, which undoes an in_out parameter's reference. One in an in
\* parameter is passed over (no_op, export.h 606), and nothing is unpacked of a
\* response that is not sent: those references are never given up.
SendReference(t) ==
    /\ otask[t].at = "counted"
    /\ LET i == otask[t].id IN
         \/ open /\ wire' = Add(wire, i) /\ ODone(t) /\ UNCHANGED kept
         \/ OTask(t, "undo", i) /\ UNCHANGED <<wire, kept>>
         \/ kept' = Add(kept, i) /\ ODone(t) /\ UNCHANGED wire
    /\ UNCHANGED <<stubIds, stubObjs, objOf, count, nextId, emptied, rel, holderVars,
                   open, marshals, raced>>

\* ReleaseMarshalData of a message that could not be sent: it skips the id and
\* looks the stub up by the object, which may have another one by now.
ReleaseMarshalData(t) ==
    /\ otask[t].at = "undo"
    /\ LET i == otask[t].id
           j == stubObjs[objOf[i]]
       IN  /\ IF j = None THEN ODone(t) ELSE OTask(t, "release", j)
           /\ raced' = IF j = i THEN raced ELSE raced \cup ({i, j} \ {None})
    /\ UNCHANGED <<stubIds, stubObjs, objOf, count, nextId, emptied, wire, rel,
                   holderVars, open, marshals, kept>>

\* Mutant of InvokeRelease: a release may be handled twice.
InvokeReleaseTwice(t, i) ==
    /\ open /\ otask[t] = OIdle /\ i < nextId
    /\ rel' = Sub(rel, i)
    /\ IF i \in stubIds THEN OTask(t, "release", i) ELSE ODone(t)
    /\ UNCHANGED <<stubIds, stubObjs, objOf, count, nextId, emptied, wire, holderVars,
                   open, marshals, kept, raced>>

\* Invoke for a release: the stub is looked up under the read lock. "Proxy
\* references an object that has gone": the exception has nobody to go to.
InvokeRelease(t, i) ==
    /\ open /\ otask[t] = OIdle /\ rel[i] > 0
    /\ rel' = Sub(rel, i)
    /\ IF i \in stubIds THEN OTask(t, "release", i) ELSE ODone(t)
    /\ UNCHANGED <<stubIds, stubObjs, objOf, count, nextId, emptied, wire, holderVars,
                   open, marshals, kept, raced>>

\* Mutant of RemoteRelease: off by one.
RemoteReleaseEarly(t) ==
    /\ otask[t].at = "release"
    /\ LET i == otask[t].id IN
         /\ count' = Sub(count, i)
         /\ IF count[i] <= 2 THEN OTask(t, "remove", i) ELSE ODone(t)
    /\ UNCHANGED <<stubIds, stubObjs, objOf, nextId, emptied, wire, rel, holderVars,
                   open, marshals, kept, raced>>

\* Mutant of RemoteRelease: m_marshal_count-- for --m_marshal_count.
RemoteReleaseLate(t) ==
    /\ otask[t].at = "release"
    /\ LET i == otask[t].id IN
         /\ count' = Sub(count, i)
         /\ IF count[i] = 0 THEN OTask(t, "remove", i) ELSE ODone(t)
    /\ UNCHANGED <<stubIds, stubObjs, objOf, nextId, emptied, wire, rel, holderVars,
                   open, marshals, kept, raced>>

\* Stub::RemoteRelease.
RemoteRelease(t) ==
    /\ otask[t].at = "release"
    /\ LET i == otask[t].id IN
         /\ count' = Sub(count, i)
         /\ IF count[i] = 1 THEN OTask(t, "remove", i) ELSE ODone(t)
    /\ UNCHANGED <<stubIds, stubObjs, objOf, nextId, emptied, wire, rel, holderVars,
                   open, marshals, kept, raced>>

\* The tables without a stub.
WithoutStub(i) ==
    /\ stubIds' = stubIds \ {i}
    /\ stubObjs' = [o \in Objects |-> IF stubObjs[o] = i THEN None ELSE stubObjs[o]]

\* StdObjectManager::RemoveStub.
RemoveStub(t) ==
    /\ otask[t].at = "remove"
    /\ WithoutStub(otask[t].id)
    /\ ODone(t)
    /\ UNCHANGED <<objOf, count, nextId, emptied, wire, rel, holderVars, open, marshals,
                   kept, raced>>

\* Stub::MarshalStub: a process that holds a proxy passes it on to a third one.
\* The stub counts a reference, but the third process is given a stub of the
\* other channel, and that is the one its proxy releases.
MarshalStub(i) ==
    /\ open /\ marshals < MaxMarshals
    /\ i \in stubIds
    /\ \E p \in Proxies : proxy[p].id = i /\ InUse(p)
    /\ marshals' = marshals + 1
    /\ count' = Add(count, i)
    /\ kept' = Add(kept, i)
    /\ UNCHANGED <<stubIds, stubObjs, objOf, nextId, otask, emptied, wire, rel,
                   holderVars, open, raced>>

-----------------------------------------------------------------------------
\* The holder. Its m_lock is held for ever by a thread that is stuck.

Locked == HAt("stuck") # {}

\* UnmarshalInterface finds a proxy of that id under the read lock and takes a
\* reference: the message's own reference is forgotten, as a proxy releases its
\* stub when its last reference goes. The proxy it finds may be in Final_Release:
\* without a reference then, it gets one anew, and releases the stub once more.
UnmarshalFound(h, i) ==
    /\ open /\ htask[h] = HIdle /\ wire[i] > 0 /\ ~Locked
    /\ proxyIds[i] # None
    /\ wire' = Sub(wire, i)
    /\ proxy' = [proxy EXCEPT ![proxyIds[i]].refs = @ + 1]
    /\ kept' = IF proxy[proxyIds[i]].refs > 0 THEN Add(kept, i) ELSE kept
    /\ UNCHANGED <<ownerVars, rel, proxyIds, htask, open, marshals, raced>>

\* It finds none, and makes one.
UnmarshalNew(h, i, p) ==
    /\ open /\ htask[h] = HIdle /\ wire[i] > 0 /\ ~Locked
    /\ proxyIds[i] = None
    /\ proxy[p] = Free
    /\ wire' = Sub(wire, i)
    /\ proxy' = [proxy EXCEPT ![p] = [id |-> i, refs |-> 1, state |-> "new"]]
    /\ HTask(h, "insert", p)
    /\ UNCHANGED <<ownerVars, rel, proxyIds, open, marshals, kept, raced>>

\* The new proxy goes into the table, under the write lock. If there is one by
\* now, the pointer is set to that: the new proxy is released first, its
\* Final_Release sends a message, and to marshal it takes m_lock again.
InsertProxy(h) ==
    /\ htask[h].at = "insert" /\ ~Locked
    /\ LET p == htask[h].proxy
           i == proxy[p].id
       IN  IF proxyIds[i] = None
             THEN /\ proxyIds' = [proxyIds EXCEPT ![i] = p]
                  /\ proxy' = [proxy EXCEPT ![p].state = "live"]
                  /\ HDone(h)
             ELSE /\ HTask(h, "stuck", p)
                  /\ UNCHANGED <<proxyIds, proxy>>
    /\ UNCHANGED <<ownerVars, wire, rel, open, marshals, kept, raced>>

\* A reference to a proxy is released; not the last one.
ReleaseProxy(p) ==
    /\ InUse(p) /\ proxy[p].refs > 1
    /\ proxy' = [proxy EXCEPT ![p].refs = @ - 1]
    /\ UNCHANGED <<ownerVars, wire, rel, proxyIds, htask, open, marshals, kept, raced>>

\* The last one: Final_Release sends one release to the stub. The send fails if
\* the channel is closed, and the exception is absorbed. It runs again for a proxy
\* that was found in it.
FinalRelease(h, p) ==
    /\ htask[h] = HIdle /\ ~Locked
    /\ InUse(p) /\ proxy[p].refs = 1
    /\ proxy' = [proxy EXCEPT ![p].refs = 0, ![p].state = "final"]
    /\ rel' = IF open THEN Add(rel, proxy[p].id) ELSE rel
    /\ HTask(h, "remove", p)
    /\ UNCHANGED <<ownerVars, wire, proxyIds, open, marshals, kept, raced>>

\* Then it removes the proxy from the table, and deletes it, whoever may have
\* taken a reference in the meantime, or be in Final_Release as well. What they do
\* with the proxy that is deleted is undefined: no step of theirs follows.
RemoveProxy(h) ==
    /\ htask[h].at = "remove" /\ ~Locked
    /\ LET p == htask[h].proxy IN
         /\ proxy[p].state = "final"
         /\ proxyIds' = [proxyIds EXCEPT ![proxy[p].id] = None]
         /\ proxy' = IF proxy[p].refs > 0 \/ \E g \in HolderThreads \ {h} : htask[g] = htask[h]
                       THEN [proxy EXCEPT ![p].state = "deleted"]
                       ELSE [proxy EXCEPT ![p] = Free]
    /\ HDone(h)
    /\ UNCHANGED <<ownerVars, wire, rel, open, marshals, kept, raced>>

-----------------------------------------------------------------------------
\* The channel.

\* It closes, with what is on its way. The holder's Shutdown clears its table,
\* if it gets the lock.
Disconnect ==
    /\ open
    /\ open' = FALSE
    /\ wire' = [i \in Ids |-> 0] /\ rel' = [i \in Ids |-> 0]
    /\ proxyIds' = IF Locked THEN proxyIds ELSE [i \in Ids |-> None]
    /\ UNCHANGED <<ownerVars, proxy, htask, marshals, kept, raced>>

\* The owner's Shutdown removes the stubs one by one; the lock is free while
\* each of them releases its object.
ShutdownPop(i) ==
    /\ ~open /\ ~emptied
    /\ i \in stubIds
    /\ WithoutStub(i)
    /\ UNCHANGED <<objOf, count, nextId, otask, emptied, wire, rel, holderVars, open,
                   marshals, kept, raced>>

ShutdownEnd ==
    /\ ~open /\ ~emptied
    /\ stubIds = {}
    /\ emptied' = TRUE
    /\ stubObjs' = [o \in Objects |-> None]
    /\ UNCHANGED <<stubIds, objOf, count, nextId, otask, wire, rel, holderVars, open,
                   marshals, kept, raced>>

-----------------------------------------------------------------------------

\* What a thread has begun, and the messages it is there to serve.
Serve ==
    \/ \E t \in OwnerThreads :
         \/ CreateStub(t) \/ CountMarshal(t) \/ SendReference(t) \/ ReleaseMarshalData(t)
         \/ RemoteRelease(t) \/ RemoveStub(t)
         \/ \E i \in Ids : InvokeRelease(t, i)
    \/ \E h \in HolderThreads :
         \/ InsertProxy(h) \/ RemoveProxy(h)
         \/ \E i \in Ids : UnmarshalFound(h, i) \/ \E p \in Proxies : UnmarshalNew(h, i, p)
    \/ ShutdownEnd \/ \E i \in Ids : ShutdownPop(i)

\* What the programs at the two ends choose to do.
Use ==
    \/ \E t \in OwnerThreads, o \in Objects : MarshalInterface(t, o)
    \/ \E i \in Ids : MarshalStub(i)
    \/ \E p \in Proxies : ReleaseProxy(p) \/ \E h \in HolderThreads : FinalRelease(h, p)
    \/ Disconnect

Next == Serve \/ Use

Fairness == WF_vars(Serve)

Spec == Init /\ [][Next]_vars /\ Fairness

-----------------------------------------------------------------------------
\* Properties.

\* The releases a stub will be sent, or is being sent.
Owed(i) ==
    Cardinality(OAt("counted", i)) + Cardinality(OAt("undo", i))
      + Cardinality(OAt("release", i)) + wire[i] + rel[i]
      + Cardinality({p \in Proxies : proxy[p].id = i /\ proxy[p].refs > 0})

\* Those, and the references that no release is owed for.
Due(i) == Owed(i) + kept[i]

\* m_marshal_count is at any time what is owed to the stub, through failed sends
\* and releases under way, and the references that are never given up: no release
\* is lost on the way, and none is sent twice. That is but for stubs marshalled
\* while they were being removed (WireStub.cpp 44-59, 118-125).
CountIsAccounted ==
    open => \A i \in stubIds \ raced : count[i] = Due(i)

\* A stub is in the table for as long as a reference to it, or the release of
\* one, is anywhere (StdObjectManager.cpp 394-406), and for ever if one of its
\* references is never given up.
StubOutlivesReferences ==
    open => \A i \in Ids \ raced : Due(i) > 0 => i \in stubIds

\* An object has one stub, whichever threads marshal it first, and the two
\* tables of the manager agree (StdObjectManager.cpp 438-514).
OneStubPerObject ==
    /\ \A i \in stubIds : stubObjs[objOf[i]] = i
    /\ \A o \in Objects : stubObjs[o] # None => stubObjs[o] \in stubIds /\ objOf[stubObjs[o]] = o

\* The proxies in use are those of the table, so that a stub has one: a proxy
\* that ends does not take the entry of its successor (WireProxy.cpp 36-45).
OneProxyPerStub ==
    open => \A p \in Proxies : proxy[p].state = "live" => proxyIds[proxy[p].id] = p

\* All four: counts, tables and references agree.
ReferencesAreKept ==
    CountIsAccounted /\ StubOutlivesReferences /\ OneStubPerObject /\ OneProxyPerStub

\* A stub with no reference left to count, that no thread is about to use.
Garbage(i) ==
    /\ open /\ i \in stubIds \ raced
    /\ Due(i) = 0 /\ OAt("found", i) = {}

\* A stub that is referred to no more is removed in the end. Those with a
\* reference that is never given up stay until the channel closes: nothing is said
\* of those here.
GarbageGoes == \A i \in Ids : []<>~Garbage(i)

\* When the channel has closed every stub is removed, those included that are
\* marshalled then or later (StdObjectManager.cpp 94-120), but for the stubs that
\* such a marshalling makes and never gives up: those stay with the manager.
Emptied == \A i \in Ids : []<>(open \/ i \notin stubIds \ raced \/ kept[i] > 0)

\* Both: no stub outstays its references, or its channel.
Reclaimed == GarbageGoes /\ Emptied

\* The references of a stub that others hold; after the channel has closed and
\* of a stub marshalled while being removed nothing is known.
Refs == INSTANCE RemoteRefs WITH
    life <- [i \in Ids |-> IF i >= nextId THEN "none"
                           ELSE IF i \in raced THEN "lost"
                           ELSE IF i \in stubIds THEN "live" ELSE "gone"],
    held <- [i \in Ids |-> open /\ i \notin raced /\ Owed(i) > 0],
    open <- open

\* The managers keep the promise of RemoteRefs.
RemoteRefsSpec == Refs!Spec

==============================================================================
