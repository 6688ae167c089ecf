----------------------------- MODULE LibraryProofs -----------------------------
(***************************************************************************)
(* Why the object managers of ProxyStub lose no reference, and keep the    *)
(* promise of RemoteRefs, for any objects, threads and proxies: what is    *)
(* owed to a stub is moved from one place to another and never made from   *)
(* nothing, and the thread that has counted it down to nothing is the only *)
(* one that may take the stub away.                                        *)
(*                                                                         *)
(* At the end, what this and SafeShimsProofs say of MCLibrary, where the   *)
(* managers and the shims run beside the rest of OOCore.                   *)
(***************************************************************************)
EXTENDS MCLibrary, FiniteSetTheorems, TLAPS

\* Ids are given out in turn, and nothing names one that has not been.
Numbered ==
    /\ \A i \in Ids : i < nextId => objOf[i] \in Objects
    /\ \A i \in Ids : i >= nextId =>
           /\ i \notin stubIds /\ i \notin raced /\ count[i] = 0
           /\ wire[i] = 0 /\ rel[i] = 0 /\ kept[i] = 0
           /\ \A p \in Proxies : proxy[p].id # i
           /\ \A t \in OwnerThreads : otask[t].at \in {"idle", "create"} \/ otask[t].id # i

\* A proxy that is made has one thread at it; there may be more at one that ends.
ProxiesFit ==
    /\ \A p \in Proxies : proxy[p].state = "free" => proxy[p].id = None
    /\ \A p \in Proxies : proxy[p].state # "free" => proxy[p].id \in Ids
    /\ \A h \in HolderThreads : htask[h].at # "idle" =>
           proxy[htask[h].proxy].state \in IF htask[h].at = "remove" THEN {"final", "deleted"} ELSE {"new"}
    /\ \A h, g \in HolderThreads :
           htask[h].at \notin {"idle", "remove"} /\ htask[g].at # "idle" /\ htask[h].proxy = htask[g].proxy => h = g

\* The entry of a proxy stays until the proxy has ended, and no longer.
Listed ==
    open => /\ \A p \in Proxies : proxy[p].state \in {"live", "final"} => proxyIds[proxy[p].id] = p
            /\ \A i \in Ids : proxyIds[i] # None =>
                   proxy[proxyIds[i]].id = i /\ proxy[proxyIds[i]].state \in {"live", "final"}

\* Nothing is owed to a stub that a thread is about to remove.
Removing == open => \A i \in Ids \ raced : OAt("remove", i) # {} => Due(i) = 0

IInv ==
    /\ TypeOK /\ Numbered /\ ProxiesFit /\ Listed
    /\ CountIsAccounted /\ StubOutlivesReferences /\ OneStubPerObject /\ Removing

-----------------------------------------------------------------------------
\* What is owed is counted: by threads, by messages, by proxies.

Tasks(i) ==
    Cardinality(OAt("counted", i)) + Cardinality(OAt("undo", i)) + Cardinality(OAt("release", i))

Counts(p, i) == proxy[p].id = i /\ proxy[p].refs > 0
Held(i) == Cardinality({p \in Proxies : Counts(p, i)})

\* What the task of thread t counts for.
Owing(t, i) == otask[t].at \in {"counted", "undo", "release"} /\ otask[t].id = i

One(b) == IF b THEN 1 ELSE 0

LEMMA DueParts ==
    ASSUME TypeOK, NEW i \in Ids
    PROVE  /\ Tasks(i) \in Nat /\ Held(i) \in Nat /\ Due(i) \in Nat
           /\ wire[i] \in Nat /\ rel[i] \in Nat /\ kept[i] \in Nat
           /\ Due(i) = Tasks(i) + wire[i] + rel[i] + kept[i] + Held(i)
           /\ Owed(i) \in Nat /\ Due(i) = Owed(i) + kept[i]
           /\ Held(i) > 0 => Owed(i) > 0
<1>1. \A x : IsFiniteSet(OAt(x, i)) /\ Cardinality(OAt(x, i)) \in Nat
  <2> SUFFICES ASSUME NEW x PROVE IsFiniteSet(OAt(x, i)) /\ Cardinality(OAt(x, i)) \in Nat
    OBVIOUS
  <2>1. OAt(x, i) \in SUBSET OwnerThreads
    BY DEF OAt
  <2>2. IsFiniteSet(OAt(x, i))
    BY <2>1, FS_Subset, ProxyAssumption
  <2> QED
    BY <2>2, FS_CardinalityType
<1>2. Held(i) \in Nat
  <2>1. {p \in Proxies : Counts(p, i)} \in SUBSET Proxies
    OBVIOUS
  <2>2. IsFiniteSet({p \in Proxies : Counts(p, i)})
    BY <2>1, FS_Subset, ProxyAssumption
  <2> QED
    BY <2>2, FS_CardinalityType DEF Held
<1>3. wire[i] \in Nat /\ rel[i] \in Nat /\ kept[i] \in Nat
  BY DEF TypeOK
<1>4. Tasks(i) \in Nat
  BY <1>1 DEF Tasks
<1>5. Owed(i) = Tasks(i) + wire[i] + rel[i] + Held(i)
  <2> PICK a, b, c, h : /\ a = Cardinality(OAt("counted", i)) /\ b = Cardinality(OAt("undo", i))
                        /\ c = Cardinality(OAt("release", i)) /\ h = Held(i)
    OBVIOUS
  <2>1. a \in Nat /\ b \in Nat /\ c \in Nat /\ h \in Nat
    BY <1>1, <1>2
  <2>2. Owed(i) = a + b + c + wire[i] + rel[i] + h
    BY DEF Owed, Held, Counts
  <2>3. Tasks(i) = a + b + c
    BY DEF Tasks
  <2> QED
    BY <1>3, <2>1, <2>2, <2>3
<1>6. Due(i) = Owed(i) + kept[i]
  BY DEF Due
<1> QED
  BY <1>2, <1>3, <1>4, <1>5, <1>6

Summed ==
    \A i \in Ids : /\ Tasks(i) \in Nat /\ Held(i) \in Nat /\ Due(i) \in Nat
                   /\ wire[i] \in Nat /\ rel[i] \in Nat /\ kept[i] \in Nat
                   /\ Due(i) = Tasks(i) + wire[i] + rel[i] + kept[i] + Held(i)
                   /\ Owed(i) \in Nat /\ Due(i) = Owed(i) + kept[i]

LEMMA SummedNow == TypeOK => Summed
  BY DueParts DEF Summed

LEMMA SummedNext == TypeOK' => Summed'
  BY SummedNow, PTL

LEMMA OneChanges ==
    ASSUME NEW S, NEW T, NEW x, IsFiniteSet(S), T \ {x} = S \ {x}
    PROVE  /\ Cardinality(S) \in Nat /\ Cardinality(T) \in Nat /\ IsFiniteSet(T)
           /\ Cardinality(T) = Cardinality(S) - One(x \in S) + One(x \in T)
<1>1. /\ IsFiniteSet(S \ {x}) /\ Cardinality(S) \in Nat
      /\ Cardinality(S \ {x}) = Cardinality(S) - One(x \in S)
  BY FS_RemoveElement, FS_CardinalityType DEF One
<1>2. x \notin S \ {x}
  OBVIOUS
<1>3. T = IF x \in T THEN (S \ {x}) \cup {x} ELSE S \ {x}
  OBVIOUS
<1>4. IsFiniteSet(T) /\ Cardinality(T) = Cardinality(S \ {x}) + One(x \in T)
  <2>1. CASE x \in T
    BY <1>1, <1>2, <1>3, <2>1, FS_AddElement DEF One
  <2>2. CASE x \notin T
    <3>1. T = S \ {x} /\ Cardinality(S \ {x}) \in Nat
      BY <1>1, <1>3, <2>2, FS_CardinalityType
    <3> QED
      BY <1>1, <2>2, <3>1 DEF One
  <2> QED
    BY <2>1, <2>2
<1>5. Cardinality(T) \in Nat
  BY <1>4, FS_CardinalityType
<1> QED
  BY <1>1, <1>4, <1>5

\* A thread goes on to another task.
LEMMA TaskChanges ==
    ASSUME TypeOK, TypeOK', NEW t \in OwnerThreads, NEW i \in Ids,
           \A u \in OwnerThreads : u # t => otask'[u] = otask[u]
    PROVE  Tasks(i)' = Tasks(i) - One(Owing(t, i)) + One(Owing(t, i)')
<1>1. \A x : \A u \in OwnerThreads : u # t => (u \in OAt(x, i) <=> u \in OAt(x, i)')
  BY DEF OAt
<1>2. \A x : OAt(x, i)' \ {t} = OAt(x, i) \ {t} /\ IsFiniteSet(OAt(x, i))
  <2>1. \A x : OAt(x, i) \in SUBSET OwnerThreads /\ OAt(x, i)' \in SUBSET OwnerThreads
    BY DEF OAt
  <2> QED
    BY <1>1, <2>1, FS_Subset, ProxyAssumption
<1>3. \A x : /\ Cardinality(OAt(x, i)) \in Nat /\ Cardinality(OAt(x, i)') \in Nat
             /\ Cardinality(OAt(x, i)') = Cardinality(OAt(x, i)) - One(t \in OAt(x, i)) + One(t \in OAt(x, i)')
  BY <1>2, OneChanges
<1>4. \A x : /\ t \in OAt(x, i) <=> otask[t] = [at |-> x, id |-> i]
             /\ t \in OAt(x, i)' <=> otask'[t] = [at |-> x, id |-> i]
  BY DEF OAt
<1>5. otask[t] \in OTasks /\ otask'[t] \in OTasks
  BY DEF TypeOK
<1>6. \A x : /\ otask[t] = [at |-> x, id |-> i] <=> otask[t].at = x /\ otask[t].id = i
             /\ otask'[t] = [at |-> x, id |-> i] <=> otask'[t].at = x /\ otask'[t].id = i
  BY <1>5 DEF OTasks
<1>7. /\ One(Owing(t, i)) = One(t \in OAt("counted", i)) + One(t \in OAt("undo", i)) + One(t \in OAt("release", i))
      /\ One(Owing(t, i)') = One(t \in OAt("counted", i)') + One(t \in OAt("undo", i)') + One(t \in OAt("release", i)')
  <2>1. /\ Owing(t, i) <=> t \in OAt("counted", i) \/ t \in OAt("undo", i) \/ t \in OAt("release", i)
        /\ ~(t \in OAt("counted", i) /\ t \in OAt("undo", i))
        /\ ~(t \in OAt("counted", i) /\ t \in OAt("release", i))
        /\ ~(t \in OAt("undo", i) /\ t \in OAt("release", i))
    <3>1. /\ t \in OAt("counted", i) <=> otask[t].at = "counted" /\ otask[t].id = i
          /\ t \in OAt("undo", i) <=> otask[t].at = "undo" /\ otask[t].id = i
          /\ t \in OAt("release", i) <=> otask[t].at = "release" /\ otask[t].id = i
      BY <1>4, <1>6
    <3> QED
      BY <3>1 DEF Owing
  <2>2. /\ Owing(t, i)' <=> t \in OAt("counted", i)' \/ t \in OAt("undo", i)' \/ t \in OAt("release", i)'
        /\ ~(t \in OAt("counted", i)' /\ t \in OAt("undo", i)')
        /\ ~(t \in OAt("counted", i)' /\ t \in OAt("release", i)')
        /\ ~(t \in OAt("undo", i)' /\ t \in OAt("release", i)')
    <3>1. /\ t \in OAt("counted", i)' <=> otask'[t].at = "counted" /\ otask'[t].id = i
          /\ t \in OAt("undo", i)' <=> otask'[t].at = "undo" /\ otask'[t].id = i
          /\ t \in OAt("release", i)' <=> otask'[t].at = "release" /\ otask'[t].id = i
      BY <1>4, <1>6
    <3> QED
      BY <3>1 DEF Owing
  <2>3. \A a, b, c, d \in BOOLEAN :
            (d <=> a \/ b \/ c) /\ ~(a /\ b) /\ ~(a /\ c) /\ ~(b /\ c) => One(d) = One(a) + One(b) + One(c)
    BY DEF One
  <2>4. \A x : (t \in OAt(x, i)) \in BOOLEAN /\ (t \in OAt(x, i)') \in BOOLEAN
    OBVIOUS
  <2>5. Owing(t, i) \in BOOLEAN /\ Owing(t, i)' \in BOOLEAN
    BY DEF Owing
  <2> QED
    BY <2>1, <2>2, <2>3, <2>4, <2>5
<1>8. \A b : One(b) \in {0, 1}
  BY DEF One
<1> QED
  BY <1>3, <1>7, <1>8 DEF Tasks

\* A proxy changes.
LEMMA ProxyChanges ==
    ASSUME TypeOK, NEW p \in Proxies, NEW i \in Ids,
           \A q \in Proxies : q # p => proxy'[q] = proxy[q]
    PROVE  Held(i)' = Held(i) - One(Counts(p, i)) + One(Counts(p, i)')
<1> PICK S, T : S = {q \in Proxies : Counts(q, i)} /\ T = {q \in Proxies : Counts(q, i)'}
  OBVIOUS
<1>1. IsFiniteSet(S)
  <2>1. S \in SUBSET Proxies
    OBVIOUS
  <2> QED
    BY <2>1, FS_Subset, ProxyAssumption
<1>2. \A q \in Proxies : q # p => (Counts(q, i) <=> Counts(q, i)')
  BY DEF Counts
<1>3. T \ {p} = S \ {p}
  BY <1>2
<1>4. Cardinality(T) = Cardinality(S) - One(p \in S) + One(p \in T)
  BY <1>1, <1>3, OneChanges
<1>5. (p \in S <=> Counts(p, i)) /\ (p \in T <=> Counts(p, i)')
  OBVIOUS
<1>6. One(p \in S) = One(Counts(p, i)) /\ One(p \in T) = One(Counts(p, i)')
  BY <1>5 DEF One
<1>7. Held(i) = Cardinality(S) /\ Held(i)' = Cardinality(T)
  BY DEF Held
<1> QED
  BY <1>4, <1>6, <1>7

-----------------------------------------------------------------------------
\* What a thread is doing, and with what.

LEMMA TaskTyped ==
    ASSUME TypeOK, Numbered, NEW t \in OwnerThreads
    PROVE  /\ otask[t].at \in {"idle", "create", "found", "counted", "undo", "release", "remove"}
           /\ otask[t].at = "idle" => otask[t] = OIdle
           /\ otask[t].at = "create" => otask[t].id \in Objects
           /\ otask[t].at \notin {"idle", "create"} =>
                  /\ otask[t].id \in Ids /\ otask[t].id < nextId /\ objOf[otask[t].id] \in Objects
<1>1. otask[t] \in OTasks /\ nextId \in 1..MaxId + 1 /\ MaxId \in Nat
  BY ProxyAssumption DEF TypeOK
<1>2. otask[t].at = "idle" => otask[t] = OIdle
  BY <1>1 DEF OTasks, OIdle
<1>3. /\ otask[t].at \in {"idle", "create", "found", "counted", "undo", "release", "remove"}
      /\ otask[t].at = "create" => otask[t].id \in Objects
      /\ otask[t].at \notin {"idle", "create"} => otask[t].id \in Ids
  BY <1>1 DEF OTasks
<1>4. otask[t].at \notin {"idle", "create"} => otask[t].id < nextId
  BY <1>1, <1>3 DEF Numbered, Ids
<1> QED
  BY <1>2, <1>3, <1>4 DEF Numbered

LEMMA HolderTyped ==
    ASSUME TypeOK, ProxiesFit, NEW h \in HolderThreads
    PROVE  /\ htask[h].at \in {"idle", "insert", "remove", "stuck"}
           /\ htask[h].at = "idle" => htask[h] = HIdle
           /\ htask[h].at # "idle" =>
                  /\ htask[h].proxy \in Proxies /\ proxy[htask[h].proxy].id \in Ids
                  /\ proxy[htask[h].proxy].state \in IF htask[h].at = "remove" THEN {"final", "deleted"} ELSE {"new"}
<1>1. htask[h] \in HTasks
  BY DEF TypeOK
<1>2. htask[h].at = "idle" => htask[h] = HIdle
  BY <1>1 DEF HTasks, HIdle
<1>3. /\ htask[h].at \in {"idle", "insert", "remove", "stuck"}
      /\ htask[h].at # "idle" => htask[h].proxy \in Proxies
  BY <1>1 DEF HTasks
<1>4. htask[h].at # "idle" => proxy[htask[h].proxy].state # "free"
  BY DEF ProxiesFit
<1> QED
  BY <1>2, <1>3, <1>4 DEF ProxiesFit

LEMMA TaskStaysTyped ==
    ASSUME TypeOK, NEW t \in OwnerThreads, NEW x \in OTasks, otask' = [otask EXCEPT ![t] = x]
    PROVE  /\ otask' \in [OwnerThreads -> OTasks] /\ otask'[t] = x
           /\ \A u \in OwnerThreads : u # t => otask'[u] = otask[u]
  BY DEF TypeOK

LEMMA HolderStaysTyped ==
    ASSUME TypeOK, NEW h \in HolderThreads, NEW x \in HTasks, htask' = [htask EXCEPT ![h] = x]
    PROVE  /\ htask' \in [HolderThreads -> HTasks] /\ htask'[h] = x
           /\ \A g \in HolderThreads : g # h => htask'[g] = htask[g]
  BY DEF TypeOK

LEMMA TasksAre ==
    /\ OIdle \in OTasks /\ HIdle \in HTasks
    /\ \A o \in Objects : [at |-> "create", id |-> o] \in OTasks
    /\ \A i \in Ids : \A x \in {"found", "counted", "undo", "release", "remove"} :
           [at |-> x, id |-> i] \in OTasks
    /\ \A p \in Proxies : \A x \in {"insert", "remove", "stuck"} : [at |-> x, proxy |-> p] \in HTasks
  BY DEF OIdle, HIdle, OTasks, HTasks

\* The types that have to do with threads and proxies, and those that have not.
LEMMA TypesStep == TypeOK /\ Numbered /\ ProxiesFit /\ [Next]_vars => TypeOK'
<1> SUFFICES ASSUME TypeOK, Numbered, ProxiesFit, [Next]_vars PROVE TypeOK'
  OBVIOUS
<1>1. /\ nextId \in 1..MaxId + 1 /\ marshals \in 0..MaxMarshals /\ MaxId \in Nat /\ MaxMarshals \in Nat
      /\ None \notin Ids /\ None \notin Proxies /\ None \notin Objects
  BY ProxyAssumption DEF TypeOK, Ids
<1>2. ASSUME NEW t \in OwnerThreads, NEW o \in Objects, MarshalInterface(t, o) PROVE TypeOK'
  <2>1. otask' \in [OwnerThreads -> OTasks]
    <3>1. CASE stubObjs[o] # None
      <4>1. stubObjs[o] \in Ids
        BY <3>1 DEF TypeOK
      <4> QED
        BY <1>2, <3>1, <4>1, TasksAre, TaskStaysTyped DEF MarshalInterface, OTask
    <3>2. CASE stubObjs[o] = None
      BY <1>2, <3>2, TasksAre, TaskStaysTyped DEF MarshalInterface, OTask
    <3> QED
      BY <3>1, <3>2
  <2> QED
    BY <1>1, <1>2, <2>1 DEF MarshalInterface, TypeOK, holderVars
<1>3. ASSUME NEW t \in OwnerThreads, CreateStub(t) PROVE TypeOK'
  <2> PICK o : o = otask[t].id
    OBVIOUS
  <2>1. o \in Objects
    BY <1>3, TaskTyped DEF CreateStub
  <2>2. CASE stubObjs[o] # None
    <3>1. stubObjs[o] \in Ids
      BY <2>1, <2>2 DEF TypeOK
    <3>2. otask' \in [OwnerThreads -> OTasks]
      BY <1>3, <2>2, <3>1, TasksAre, TaskStaysTyped DEF CreateStub, OTask
    <3> QED
      BY <1>3, <2>2, <3>2 DEF CreateStub, TypeOK, holderVars
  <2>3. CASE stubObjs[o] = None
    <3>1. nextId \in Ids /\ otask' = [otask EXCEPT ![t] = [at |-> "found", id |-> nextId]]
      BY <1>3, <2>3 DEF CreateStub, OTask
    <3>2. otask' \in [OwnerThreads -> OTasks]
      BY <3>1, TasksAre, TaskStaysTyped
    <3>3. nextId' \in 1..MaxId + 1
      BY <1>1, <1>3, <2>3, <3>1 DEF CreateStub, Ids
    <3>4. /\ stubIds' = stubIds \cup {nextId} /\ stubObjs' = [stubObjs EXCEPT ![o] = nextId]
          /\ objOf' = [objOf EXCEPT ![nextId] = o]
      BY <1>3, <2>3 DEF CreateStub
    <3>5. /\ stubIds \subseteq Ids /\ stubObjs \in [Objects -> Ids \cup {None}]
          /\ objOf \in [Ids -> Objects \cup {None}]
      BY DEF TypeOK
    <3>6. /\ stubIds' \subseteq Ids /\ stubObjs' \in [Objects -> Ids \cup {None}]
          /\ objOf' \in [Ids -> Objects \cup {None}]
      BY <2>1, <3>1, <3>4, <3>5
    <3> QED
      BY <1>3, <3>2, <3>3, <3>6 DEF CreateStub, TypeOK, holderVars
  <2> QED
    BY <2>2, <2>3
<1>4. ASSUME NEW t \in OwnerThreads, CountMarshal(t) PROVE TypeOK'
  <2> PICK i : i = otask[t].id
    OBVIOUS
  <2>1. i \in Ids
    BY <1>4, TaskTyped DEF CountMarshal
  <2>2. otask' \in [OwnerThreads -> OTasks]
    BY <1>4, <2>1, TasksAre, TaskStaysTyped DEF CountMarshal, OTask
  <2>3. count' \in [Ids -> Int] /\ raced' \subseteq Ids
    BY <1>4, <2>1 DEF CountMarshal, Add, TypeOK
  <2> QED
    BY <1>4, <2>2, <2>3 DEF CountMarshal, TypeOK, holderVars
<1>5. ASSUME NEW t \in OwnerThreads, SendReference(t) PROVE TypeOK'
  <2> PICK i : i = otask[t].id
    OBVIOUS
  <2>1. i \in Ids
    BY <1>5, TaskTyped DEF SendReference
  <2>2. otask' \in [OwnerThreads -> OTasks]
    BY <1>5, <2>1, TasksAre, TaskStaysTyped DEF SendReference, OTask, ODone
  <2>3. wire' \in [Ids -> Nat] /\ kept' \in [Ids -> Nat]
    BY <1>5, <2>1 DEF SendReference, Add, TypeOK
  <2> QED
    BY <1>5, <2>2, <2>3 DEF SendReference, TypeOK, holderVars
<1>6. ASSUME NEW t \in OwnerThreads, ReleaseMarshalData(t) PROVE TypeOK'
  <2> PICK i, j : i = otask[t].id /\ j = stubObjs[objOf[i]]
    OBVIOUS
  <2>1. i \in Ids /\ objOf[i] \in Objects
    BY <1>6, TaskTyped DEF ReleaseMarshalData
  <2>2. j \in Ids \cup {None}
    BY <2>1 DEF TypeOK
  <2>3. otask' \in [OwnerThreads -> OTasks]
    BY <1>6, <2>2, TasksAre, TaskStaysTyped DEF ReleaseMarshalData, OTask, ODone
  <2>4. raced' \subseteq Ids
    BY <1>6, <2>1, <2>2 DEF ReleaseMarshalData, TypeOK
  <2> QED
    BY <1>6, <2>3, <2>4 DEF ReleaseMarshalData, TypeOK, holderVars
<1>7. ASSUME NEW t \in OwnerThreads, NEW i \in Ids, InvokeRelease(t, i) PROVE TypeOK'
  <2>1. otask' \in [OwnerThreads -> OTasks]
    BY <1>7, TasksAre, TaskStaysTyped DEF InvokeRelease, OTask, ODone
  <2>2. rel' \in [Ids -> Nat]
    BY <1>7 DEF InvokeRelease, Sub, TypeOK
  <2> QED
    BY <1>7, <2>1, <2>2 DEF InvokeRelease, TypeOK, holderVars
<1>8. ASSUME NEW t \in OwnerThreads, RemoteRelease(t) PROVE TypeOK'
  <2> PICK i : i = otask[t].id
    OBVIOUS
  <2>1. i \in Ids
    BY <1>8, TaskTyped DEF RemoteRelease
  <2>2. otask' \in [OwnerThreads -> OTasks]
    BY <1>8, <2>1, TasksAre, TaskStaysTyped DEF RemoteRelease, OTask, ODone
  <2>3. count' \in [Ids -> Int]
    BY <1>8, <2>1 DEF RemoteRelease, Sub, TypeOK
  <2> QED
    BY <1>8, <2>2, <2>3 DEF RemoteRelease, TypeOK, holderVars
<1>9. ASSUME NEW t \in OwnerThreads, RemoveStub(t) PROVE TypeOK'
  <2>1. otask' \in [OwnerThreads -> OTasks]
    BY <1>9, TasksAre, TaskStaysTyped DEF RemoveStub, ODone
  <2>2. stubIds' \subseteq Ids /\ stubObjs' \in [Objects -> Ids \cup {None}]
    BY <1>9 DEF RemoveStub, WithoutStub, TypeOK
  <2> QED
    BY <1>9, <2>1, <2>2 DEF RemoveStub, TypeOK, holderVars
<1>10. ASSUME NEW i \in Ids, MarshalStub(i) PROVE TypeOK'
  BY <1>1, <1>10 DEF MarshalStub, Add, TypeOK, holderVars
<1>11. ASSUME NEW h \in HolderThreads, NEW i \in Ids, UnmarshalFound(h, i) PROVE TypeOK'
  <2>1. proxyIds[i] \in Proxies
    BY <1>11 DEF UnmarshalFound, TypeOK
  <2>2. proxy' \in [Proxies -> [id : Ids \cup {None}, refs : Nat, state : {"free", "new", "live", "final", "deleted"}]]
    BY <1>11, <2>1 DEF UnmarshalFound, TypeOK
  <2> QED
    BY <1>11, <2>2 DEF UnmarshalFound, Sub, Add, TypeOK, ownerVars
<1>12. ASSUME NEW h \in HolderThreads, NEW i \in Ids, NEW p \in Proxies, UnmarshalNew(h, i, p) PROVE TypeOK'
  <2>1. proxy' \in [Proxies -> [id : Ids \cup {None}, refs : Nat, state : {"free", "new", "live", "final", "deleted"}]]
    BY <1>12 DEF UnmarshalNew, TypeOK
  <2>2. htask' \in [HolderThreads -> HTasks]
    BY <1>12, TasksAre, HolderStaysTyped DEF UnmarshalNew, HTask
  <2> QED
    BY <1>12, <2>1, <2>2 DEF UnmarshalNew, Sub, TypeOK, ownerVars
<1>13. ASSUME NEW h \in HolderThreads, InsertProxy(h) PROVE TypeOK'
  <2> PICK p, i : p = htask[h].proxy /\ i = proxy[p].id
    OBVIOUS
  <2>1. p \in Proxies /\ i \in Ids
    BY <1>13, HolderTyped DEF InsertProxy
  <2>2. htask' \in [HolderThreads -> HTasks]
    BY <1>13, <2>1, TasksAre, HolderStaysTyped DEF InsertProxy, HTask, HDone
  <2>3. /\ proxy' \in [Proxies -> [id : Ids \cup {None}, refs : Nat, state : {"free", "new", "live", "final", "deleted"}]]
        /\ proxyIds' \in [Ids -> Proxies \cup {None}]
    <3>1. CASE proxyIds[i] = None
      BY <1>13, <2>1, <3>1 DEF InsertProxy, TypeOK
    <3>2. CASE proxyIds[i] # None
      BY <1>13, <2>1, <3>2 DEF InsertProxy, TypeOK
    <3> QED
      BY <3>1, <3>2
  <2> QED
    BY <1>13, <2>2, <2>3 DEF InsertProxy, TypeOK, ownerVars
<1>14. ASSUME NEW p \in Proxies, ReleaseProxy(p) PROVE TypeOK'
  BY <1>14 DEF ReleaseProxy, TypeOK, ownerVars
<1>15. ASSUME NEW h \in HolderThreads, NEW p \in Proxies, FinalRelease(h, p) PROVE TypeOK'
  <2>1. proxy' \in [Proxies -> [id : Ids \cup {None}, refs : Nat, state : {"free", "new", "live", "final", "deleted"}]]
    BY <1>15 DEF FinalRelease, TypeOK
  <2>2. htask' \in [HolderThreads -> HTasks]
    BY <1>15, TasksAre, HolderStaysTyped DEF FinalRelease, HTask
  <2>3. proxy[p].id \in Ids
    BY <1>15 DEF FinalRelease, InUse, ProxiesFit
  <2>4. rel' \in [Ids -> Nat]
    BY <1>15, <2>3 DEF FinalRelease, Add, TypeOK
  <2> QED
    BY <1>15, <2>1, <2>2, <2>4 DEF FinalRelease, TypeOK, ownerVars
<1>16. ASSUME NEW h \in HolderThreads, RemoveProxy(h) PROVE TypeOK'
  <2> PICK p : p = htask[h].proxy
    OBVIOUS
  <2>1. p \in Proxies /\ proxy[p].id \in Ids
    BY <1>16, HolderTyped DEF RemoveProxy
  <2>2. htask' \in [HolderThreads -> HTasks]
    BY <1>16, TasksAre, HolderStaysTyped DEF RemoveProxy, HDone
  <2>3. /\ proxy' \in [Proxies -> [id : Ids \cup {None}, refs : Nat, state : {"free", "new", "live", "final", "deleted"}]]
        /\ proxyIds' \in [Ids -> Proxies \cup {None}]
    BY <1>16, <2>1 DEF RemoveProxy, Free, TypeOK
  <2> QED
    BY <1>16, <2>2, <2>3 DEF RemoveProxy, TypeOK, ownerVars
<1>17. ASSUME Disconnect PROVE TypeOK'
  BY <1>17 DEF Disconnect, TypeOK, ownerVars
<1>18. ASSUME NEW i \in Ids, ShutdownPop(i) PROVE TypeOK'
  BY <1>18 DEF ShutdownPop, WithoutStub, TypeOK, holderVars
<1>19. ASSUME ShutdownEnd PROVE TypeOK'
  BY <1>19 DEF ShutdownEnd, TypeOK, holderVars
<1>20. CASE UNCHANGED vars
  BY <1>20 DEF TypeOK, vars, ownerVars, holderVars
<1> QED
  BY <1>2, <1>3, <1>4, <1>5, <1>6, <1>7, <1>8, <1>9, <1>10, <1>11, <1>12, <1>13, <1>14, <1>15, <1>16,
     <1>17, <1>18, <1>19, <1>20 DEF Next, Serve, Use

-----------------------------------------------------------------------------
\* What each step does to what is owed.

LEMMA OwnerOwes ==
    ASSUME TypeOK, TypeOK', NEW t \in OwnerThreads, NEW i \in Ids, UNCHANGED proxy,
           \A u \in OwnerThreads : u # t => otask'[u] = otask[u]
    PROVE  Due(i)' = Due(i) - One(Owing(t, i)) + One(Owing(t, i)')
                          + (wire'[i] - wire[i]) + (rel'[i] - rel[i]) + (kept'[i] - kept[i])
<1>1. Held(i)' = Held(i)
  BY DEF Held, Counts
<1>2. Tasks(i)' = Tasks(i) - One(Owing(t, i)) + One(Owing(t, i)')
  BY TaskChanges
<1>3. /\ Due(i) = Tasks(i) + wire[i] + rel[i] + kept[i] + Held(i)
      /\ Tasks(i) \in Nat /\ Held(i) \in Nat /\ wire[i] \in Nat /\ rel[i] \in Nat /\ kept[i] \in Nat
  BY DueParts
<1>4. /\ Due(i)' = Tasks(i)' + wire'[i] + rel'[i] + kept'[i] + Held(i)'
      /\ wire'[i] \in Nat /\ rel'[i] \in Nat /\ kept'[i] \in Nat
  BY SummedNext DEF Summed
<1>5. One(Owing(t, i)) \in Nat /\ One(Owing(t, i)') \in Nat
  BY DEF One
<1> QED
  BY <1>1, <1>2, <1>3, <1>4, <1>5

LEMMA HolderOwes ==
    ASSUME TypeOK, TypeOK', NEW p \in Proxies, NEW i \in Ids, UNCHANGED otask,
           \A q \in Proxies : q # p => proxy'[q] = proxy[q]
    PROVE  Due(i)' = Due(i) - One(Counts(p, i)) + One(Counts(p, i)')
                          + (wire'[i] - wire[i]) + (rel'[i] - rel[i]) + (kept'[i] - kept[i])
<1>1. Held(i)' = Held(i) - One(Counts(p, i)) + One(Counts(p, i)')
  BY ProxyChanges
<1>2. Tasks(i)' = Tasks(i)
  BY DEF Tasks, OAt
<1>3. /\ Due(i) = Tasks(i) + wire[i] + rel[i] + kept[i] + Held(i)
      /\ Tasks(i) \in Nat /\ Held(i) \in Nat /\ wire[i] \in Nat /\ rel[i] \in Nat /\ kept[i] \in Nat
  BY DueParts
<1>4. /\ Due(i)' = Tasks(i)' + wire'[i] + rel'[i] + kept'[i] + Held(i)'
      /\ wire'[i] \in Nat /\ rel'[i] \in Nat /\ kept'[i] \in Nat
  BY SummedNext DEF Summed
<1>5. One(Counts(p, i)) \in Nat /\ One(Counts(p, i)') \in Nat
  BY DEF One
<1> QED
  BY <1>1, <1>2, <1>3, <1>4, <1>5

\* Neither threads nor proxies change.
LEMMA NobodyOwes ==
    ASSUME TypeOK, TypeOK', NEW i \in Ids, UNCHANGED <<otask, proxy>>
    PROVE  Due(i)' = Due(i) + (wire'[i] - wire[i]) + (rel'[i] - rel[i]) + (kept'[i] - kept[i])
<1>1. Held(i)' = Held(i) /\ Tasks(i)' = Tasks(i)
  BY DEF Held, Counts, Tasks, OAt
<1>3. /\ Due(i) = Tasks(i) + wire[i] + rel[i] + kept[i] + Held(i)
      /\ Tasks(i) \in Nat /\ Held(i) \in Nat /\ wire[i] \in Nat /\ rel[i] \in Nat /\ kept[i] \in Nat
  BY DueParts
<1>4. /\ Due(i)' = Tasks(i)' + wire'[i] + rel'[i] + kept'[i] + Held(i)'
      /\ wire'[i] \in Nat /\ rel'[i] \in Nat /\ kept'[i] \in Nat
  BY SummedNext DEF Summed
<1> QED
  BY <1>1, <1>3, <1>4

DueStays == \A i \in Ids : Due(i)' = Due(i)

\* What marshals looks for a stub, or makes one, and who has counted sends, or is
\* about to undo.
LEMMA MarshallingOwes ==
    ASSUME TypeOK, TypeOK', Numbered, NEW t \in OwnerThreads,
           \/ \E o \in Objects : MarshalInterface(t, o)
           \/ CreateStub(t) \/ SendReference(t) \/ RemoveStub(t)
    PROVE  DueStays
<1> SUFFICES ASSUME NEW i \in Ids PROVE Due(i)' = Due(i)
  BY DEF DueStays
<1>1. /\ wire[i] \in Nat /\ rel[i] \in Nat /\ kept[i] \in Nat /\ Due(i) \in Nat
      /\ otask \in [OwnerThreads -> OTasks]
  BY DueParts DEF TypeOK
<1>3. ASSUME NEW o \in Objects, MarshalInterface(t, o) PROVE Due(i)' = Due(i)
  <2>1. /\ UNCHANGED <<proxy, rel, kept, wire>> /\ otask[t] = OIdle
        /\ \A u \in OwnerThreads : u # t => otask'[u] = otask[u]
        /\ otask'[t] = IF stubObjs[o] # None THEN [at |-> "found", id |-> stubObjs[o]]
                       ELSE [at |-> "create", id |-> o]
    BY <1>1, <1>3 DEF MarshalInterface, OTask, holderVars
  <2>2. ~Owing(t, i) /\ ~Owing(t, i)'
    BY <2>1 DEF Owing, OIdle
  <2> QED
    BY <1>1, <2>1, <2>2, OwnerOwes DEF One
<1>4. ASSUME CreateStub(t) PROVE Due(i)' = Due(i)
  <2>1. /\ UNCHANGED <<proxy, rel, kept, wire>> /\ otask[t].at = "create"
        /\ \A u \in OwnerThreads : u # t => otask'[u] = otask[u]
        /\ otask'[t].at = "found"
    BY <1>1, <1>4 DEF CreateStub, OTask, holderVars
  <2>2. ~Owing(t, i) /\ ~Owing(t, i)'
    BY <2>1 DEF Owing
  <2> QED
    BY <1>1, <2>1, <2>2, OwnerOwes DEF One
<1>5. ASSUME SendReference(t) PROVE Due(i)' = Due(i)
  <2> PICK j : j = otask[t].id
    OBVIOUS
  <2>1. /\ otask[t].at = "counted" /\ UNCHANGED <<proxy, rel>> /\ j \in Ids
        /\ \A u \in OwnerThreads : u # t => otask'[u] = otask[u]
    <3>1. otask[t].at = "counted" /\ UNCHANGED <<proxy, rel>>
      BY <1>5 DEF SendReference, holderVars
    <3>2. otask' = [otask EXCEPT ![t] = OIdle] \/ \E x : otask' = [otask EXCEPT ![t] = x]
      BY <1>5 DEF SendReference, OTask, ODone
    <3> QED
      BY <1>1, <3>1, <3>2, TaskTyped
  <2>2. Owing(t, i) <=> i = j
    BY <2>1 DEF Owing
  <2>3. CASE wire' = Add(wire, j) /\ ODone(t) /\ UNCHANGED kept
    <3>1. otask'[t] = OIdle
      BY <1>1, <2>3 DEF ODone
    <3>2. ~Owing(t, i)'
      BY <3>1 DEF OIdle, Owing
    <3>3. wire'[i] = wire[i] + One(i = j)
      BY <1>1, <2>1, <2>3 DEF Add, One, TypeOK
    <3> QED
      BY <1>1, <2>1, <2>2, <2>3, <3>2, <3>3, OwnerOwes DEF One
  <2>4. CASE OTask(t, "undo", j) /\ UNCHANGED <<wire, kept>>
    <3>1. otask'[t] = [at |-> "undo", id |-> j]
      BY <1>1, <2>4 DEF OTask
    <3>2. Owing(t, i)' <=> i = j
      BY <3>1 DEF Owing
    <3> QED
      BY <1>1, <2>1, <2>2, <2>4, <3>2, OwnerOwes DEF One
  <2>5. CASE kept' = Add(kept, j) /\ ODone(t) /\ UNCHANGED wire
    <3>1. otask'[t] = OIdle
      BY <1>1, <2>5 DEF ODone
    <3>2. ~Owing(t, i)'
      BY <3>1 DEF OIdle, Owing
    <3>3. kept'[i] = kept[i] + One(i = j)
      BY <1>1, <2>1, <2>5 DEF Add, One, TypeOK
    <3> QED
      BY <1>1, <2>1, <2>2, <2>5, <3>2, <3>3, OwnerOwes DEF One
  <2> QED
    BY <1>5, <2>3, <2>4, <2>5 DEF SendReference
<1>6. ASSUME RemoveStub(t) PROVE Due(i)' = Due(i)
  <2>1. /\ UNCHANGED <<proxy, rel, kept, wire>> /\ otask[t].at = "remove"
        /\ \A u \in OwnerThreads : u # t => otask'[u] = otask[u]
        /\ otask'[t] = OIdle
    BY <1>1, <1>6 DEF RemoveStub, ODone, holderVars
  <2>2. ~Owing(t, i) /\ ~Owing(t, i)'
    BY <2>1 DEF Owing, OIdle
  <2> QED
    BY <1>1, <2>1, <2>2, OwnerOwes DEF One
<1> QED
  BY <1>3, <1>4, <1>5, <1>6

LEMMA CountingOwes ==
    ASSUME TypeOK, TypeOK', Numbered, NEW t \in OwnerThreads, CountMarshal(t), NEW i \in Ids
    PROVE  Due(i)' = Due(i) + One(i = otask[t].id)
<1>1. Due(i) \in Nat /\ otask \in [OwnerThreads -> OTasks] /\ wire[i] \in Nat /\ rel[i] \in Nat /\ kept[i] \in Nat
  BY DueParts DEF TypeOK
<1>2. /\ otask'[t] = [at |-> "counted", id |-> otask[t].id]
      /\ \A u \in OwnerThreads : u # t => otask'[u] = otask[u]
      /\ UNCHANGED <<proxy, rel, kept, wire>>
  BY <1>1 DEF CountMarshal, OTask, holderVars
<1>3. ~Owing(t, i) /\ (Owing(t, i)' <=> i = otask[t].id)
  BY <1>2 DEF CountMarshal, Owing
<1> QED
  BY <1>1, <1>2, <1>3, OwnerOwes DEF One

LEMMA UndoingOwes ==
    ASSUME TypeOK, TypeOK', Numbered, NEW t \in OwnerThreads, ReleaseMarshalData(t), NEW i \in Ids,
           NEW j, j = stubObjs[objOf[otask[t].id]], j = otask[t].id \/ i \notin {otask[t].id, j}
    PROVE  Due(i)' = Due(i)
<1>1. /\ Due(i) \in Nat /\ otask \in [OwnerThreads -> OTasks] /\ wire[i] \in Nat /\ rel[i] \in Nat
      /\ kept[i] \in Nat
  BY DueParts DEF TypeOK
<1>2. /\ otask'[t] = IF j = None THEN OIdle ELSE [at |-> "release", id |-> j]
      /\ \A u \in OwnerThreads : u # t => otask'[u] = otask[u]
      /\ UNCHANGED <<proxy, rel, kept, wire>>
  BY <1>1 DEF ReleaseMarshalData, OTask, ODone, holderVars
<1>3. otask[t].id # None
  BY TaskTyped, ProxyAssumption DEF ReleaseMarshalData, Ids
<1>4. Owing(t, i) <=> Owing(t, i)'
  BY <1>2, <1>3 DEF ReleaseMarshalData, Owing, OIdle
<1>5. One(Owing(t, i)) = One(Owing(t, i)') /\ One(Owing(t, i)) \in Nat
  BY <1>4 DEF One
<1> QED
  BY <1>1, <1>2, <1>5, OwnerOwes

LEMMA InvokingOwes ==
    ASSUME TypeOK, TypeOK', NEW t \in OwnerThreads, NEW j \in Ids, InvokeRelease(t, j), NEW i \in Ids
    PROVE  Due(i)' = Due(i) - One(i = j /\ j \notin stubIds)
<1>1. /\ Due(i) \in Nat /\ otask \in [OwnerThreads -> OTasks] /\ wire[i] \in Nat /\ rel[i] \in Nat
      /\ kept[i] \in Nat
  BY DueParts DEF TypeOK
<1>2. /\ otask'[t] = IF j \in stubIds THEN [at |-> "release", id |-> j] ELSE OIdle
      /\ \A u \in OwnerThreads : u # t => otask'[u] = otask[u]
      /\ UNCHANGED <<proxy, kept, wire>>
  BY <1>1 DEF InvokeRelease, OTask, ODone, holderVars
<1>3. rel'[i] = rel[i] - One(i = j)
  BY <1>1 DEF InvokeRelease, Sub, One, TypeOK
<1>4. ~Owing(t, i) /\ (Owing(t, i)' <=> i = j /\ j \in stubIds)
  BY <1>2 DEF InvokeRelease, Owing, OIdle
<1> QED
  BY <1>1, <1>2, <1>3, <1>4, OwnerOwes DEF One

LEMMA ReleasingOwes ==
    ASSUME TypeOK, TypeOK', NEW t \in OwnerThreads, RemoteRelease(t), NEW i \in Ids
    PROVE  Due(i)' = Due(i) - One(i = otask[t].id)
<1>1. /\ Due(i) \in Nat /\ otask \in [OwnerThreads -> OTasks] /\ wire[i] \in Nat /\ rel[i] \in Nat
      /\ kept[i] \in Nat
  BY DueParts DEF TypeOK
<1>2. /\ otask'[t].at \in {"idle", "remove"}
      /\ \A u \in OwnerThreads : u # t => otask'[u] = otask[u]
      /\ UNCHANGED <<proxy, rel, kept, wire>>
  BY <1>1 DEF RemoteRelease, OTask, ODone, OIdle, holderVars
<1>3. ~Owing(t, i)' /\ (Owing(t, i) <=> i = otask[t].id)
  BY <1>2 DEF RemoteRelease, Owing
<1> QED
  BY <1>1, <1>2, <1>3, OwnerOwes DEF One

LEMMA PassingOnOwes ==
    ASSUME TypeOK, TypeOK', NEW j \in Ids, MarshalStub(j), NEW i \in Ids
    PROVE  Due(i)' = Due(i) + One(i = j)
<1>1. Due(i) \in Nat /\ wire[i] \in Nat /\ rel[i] \in Nat /\ kept[i] \in Nat
  BY DueParts
<1>2. UNCHANGED <<otask, proxy, wire, rel>> /\ kept'[i] = kept[i] + One(i = j)
  BY <1>1 DEF MarshalStub, Add, One, TypeOK, holderVars
<1> QED
  BY <1>1, <1>2, NobodyOwes DEF One

\* What arrives is with a proxy, or for ever; what a proxy has goes back.
LEMMA HoldingOwes ==
    ASSUME TypeOK, TypeOK', ProxiesFit, Listed, NEW h \in HolderThreads,
           \/ \E j \in Ids : UnmarshalFound(h, j) \/ \E p \in Proxies : UnmarshalNew(h, j, p)
           \/ InsertProxy(h) \/ RemoveProxy(h)
           \/ open /\ \E p \in Proxies : FinalRelease(h, p)
    PROVE  DueStays
<1> SUFFICES ASSUME NEW i \in Ids PROVE Due(i)' = Due(i)
  BY DEF DueStays
<1>1. /\ wire[i] \in Nat /\ rel[i] \in Nat /\ kept[i] \in Nat /\ Due(i) \in Nat
      /\ proxy \in [Proxies -> [id : Ids \cup {None}, refs : Nat, state : {"free", "new", "live", "final", "deleted"}]]
      /\ None \notin Ids
  BY DueParts, ProxyAssumption DEF TypeOK, Ids
<1>2. ASSUME NEW j \in Ids, UnmarshalFound(h, j) PROVE Due(i)' = Due(i)
  <2> PICK p : p = proxyIds[j]
    OBVIOUS
  <2>1. /\ p \in Proxies /\ UNCHANGED <<otask, rel>>
        /\ \A q \in Proxies : q # p => proxy'[q] = proxy[q]
        /\ proxy'[p] = [proxy[p] EXCEPT !.refs = @ + 1]
    BY <1>1, <1>2 DEF UnmarshalFound, ownerVars, TypeOK
  <2>2. /\ proxy[p].id = j /\ proxy'[p].id = j /\ proxy'[p].refs = proxy[p].refs + 1
        /\ proxy[p].refs \in Nat
    BY <1>1, <1>2, <2>1 DEF UnmarshalFound, Listed
  <2>3. /\ Counts(p, i) <=> i = j /\ proxy[p].refs > 0
        /\ Counts(p, i)' <=> i = j
    BY <2>2 DEF Counts
  <2>4. /\ wire'[i] = wire[i] - One(i = j)
        /\ kept'[i] = kept[i] + One(i = j /\ proxy[p].refs > 0)
    BY <1>1, <1>2 DEF UnmarshalFound, Add, Sub, One, TypeOK
  <2>5. /\ One(Counts(p, i)) = One(i = j /\ proxy[p].refs > 0)
        /\ One(Counts(p, i)') = One(i = j)
        /\ One(i = j) \in Nat /\ One(i = j /\ proxy[p].refs > 0) \in Nat
    BY <2>3 DEF One
  <2>6. Due(i)' = Due(i) - One(Counts(p, i)) + One(Counts(p, i)')
                       + (wire'[i] - wire[i]) + (rel'[i] - rel[i]) + (kept'[i] - kept[i])
    BY <2>1, HolderOwes
  <2> QED
    BY <1>1, <2>1, <2>4, <2>5, <2>6
<1>3. ASSUME NEW j \in Ids, NEW p \in Proxies, UnmarshalNew(h, j, p) PROVE Due(i)' = Due(i)
  <2>1. /\ UNCHANGED <<otask, rel, kept>>
        /\ \A q \in Proxies : q # p => proxy'[q] = proxy[q]
        /\ proxy[p] = Free /\ proxy'[p] = [id |-> j, refs |-> 1, state |-> "new"]
    BY <1>1, <1>3 DEF UnmarshalNew, ownerVars
  <2>2. ~Counts(p, i) /\ (Counts(p, i)' <=> i = j)
    BY <2>1 DEF Counts, Free
  <2>3. wire'[i] = wire[i] - One(i = j)
    BY <1>1, <1>3 DEF UnmarshalNew, Sub, One, TypeOK
  <2> QED
    BY <1>1, <2>1, <2>2, <2>3, HolderOwes DEF One
<1>4. ASSUME InsertProxy(h) PROVE Due(i)' = Due(i)
  <2> PICK p : p = htask[h].proxy
    OBVIOUS
  <2>1. p \in Proxies /\ proxy[p].state = "new" /\ UNCHANGED <<otask, rel, kept, wire>>
    BY <1>4, HolderTyped DEF InsertProxy, ownerVars
  <2>2. proxy' = proxy \/ proxy' = [proxy EXCEPT ![p].state = "live"]
    BY <1>4 DEF InsertProxy
  <2>3. /\ \A q \in Proxies : q # p => proxy'[q] = proxy[q]
        /\ proxy'[p].id = proxy[p].id /\ proxy'[p].refs = proxy[p].refs
    BY <1>1, <2>1, <2>2
  <2>4. Counts(p, i)' <=> Counts(p, i)
    BY <2>1, <2>3 DEF Counts
  <2>5. One(Counts(p, i)') = One(Counts(p, i)) /\ One(Counts(p, i)) \in Nat
    BY <2>4 DEF One
  <2> QED
    BY <1>1, <2>1, <2>3, <2>5, HolderOwes
<1>5. ASSUME RemoveProxy(h) PROVE Due(i)' = Due(i)
  <2> PICK p : p = htask[h].proxy
    OBVIOUS
  <2>1. p \in Proxies /\ UNCHANGED <<otask, rel, kept, wire>>
    BY <1>5, HolderTyped DEF RemoveProxy, ownerVars
  <2>2. \A q \in Proxies : q # p => proxy'[q] = proxy[q]
    BY <1>1, <1>5, <2>1 DEF RemoveProxy
  <2>3. \/ proxy'[p].id = proxy[p].id /\ proxy'[p].refs = proxy[p].refs
        \/ proxy[p].refs = 0 /\ proxy'[p] = Free
    BY <1>1, <1>5, <2>1 DEF RemoveProxy
  <2>4. Counts(p, i)' <=> Counts(p, i)
    BY <2>3 DEF Counts, Free
  <2>5. One(Counts(p, i)') = One(Counts(p, i)) /\ One(Counts(p, i)) \in Nat
    BY <2>4 DEF One
  <2> QED
    BY <1>1, <2>1, <2>2, <2>5, HolderOwes
<1>6. ASSUME open, NEW p \in Proxies, FinalRelease(h, p) PROVE Due(i)' = Due(i)
  <2> PICK j : j = proxy[p].id
    OBVIOUS
  <2>1. /\ proxy[p].refs = 1 /\ UNCHANGED <<otask, kept, wire>> /\ j \in Ids
        /\ \A q \in Proxies : q # p => proxy'[q] = proxy[q]
        /\ proxy'[p].refs = 0
    BY <1>1, <1>6 DEF FinalRelease, InUse, ownerVars, ProxiesFit
  <2>2. (Counts(p, i) <=> i = j) /\ ~Counts(p, i)'
    BY <2>1 DEF Counts
  <2>3. rel'[i] = rel[i] + One(i = j)
    BY <1>1, <1>6, <2>1 DEF FinalRelease, Add, One, TypeOK
  <2>4. One(Counts(p, i)) = One(i = j) /\ One(Counts(p, i)') = 0 /\ One(i = j) \in {0, 1}
    BY <2>2 DEF One
  <2>5. Due(i)' = Due(i) - One(Counts(p, i)) + One(Counts(p, i)')
                       + (wire'[i] - wire[i]) + (rel'[i] - rel[i]) + (kept'[i] - kept[i])
    BY <2>1, HolderOwes
  <2> QED
    BY <1>1, <2>1, <2>3, <2>4, <2>5
<1> QED
  BY <1>2, <1>3, <1>4, <1>5, <1>6

LEMMA RestingOwes ==
    ASSUME TypeOK, TypeOK',
           \/ \E p \in Proxies : ReleaseProxy(p)
           \/ \E j \in Ids : ShutdownPop(j)
           \/ ShutdownEnd \/ UNCHANGED vars
    PROVE  DueStays
<1> SUFFICES ASSUME NEW i \in Ids PROVE Due(i)' = Due(i)
  BY DEF DueStays
<1>1. /\ wire[i] \in Nat /\ rel[i] \in Nat /\ kept[i] \in Nat /\ Due(i) \in Nat
      /\ proxy \in [Proxies -> [id : Ids \cup {None}, refs : Nat, state : {"free", "new", "live", "final", "deleted"}]]
  BY DueParts DEF TypeOK
<1>2. ASSUME NEW p \in Proxies, ReleaseProxy(p) PROVE Due(i)' = Due(i)
  <2>1. /\ UNCHANGED <<otask, rel, kept, wire>>
        /\ \A q \in Proxies : q # p => proxy'[q] = proxy[q]
        /\ proxy'[p].id = proxy[p].id /\ proxy[p].refs > 1 /\ proxy'[p].refs = proxy[p].refs - 1
        /\ proxy[p].refs \in Nat
    BY <1>1, <1>2 DEF ReleaseProxy, ownerVars
  <2>2. Counts(p, i)' <=> Counts(p, i)
    BY <2>1 DEF Counts
  <2>3. One(Counts(p, i)') = One(Counts(p, i)) /\ One(Counts(p, i)) \in Nat
    BY <2>2 DEF One
  <2> QED
    BY <1>1, <2>1, <2>3, HolderOwes
<1>3. CASE UNCHANGED <<otask, proxy, wire, rel, kept>>
  BY <1>1, <1>3, NobodyOwes
<1> QED
  BY <1>2, <1>3 DEF ShutdownPop, ShutdownEnd, vars, ownerVars, holderVars

-----------------------------------------------------------------------------
\* Ids, proxies and tables.

LEMMA NumberedStep == IInv /\ TypeOK' /\ [Next]_vars => Numbered'
<1> SUFFICES ASSUME IInv, TypeOK', [Next]_vars PROVE Numbered'
  OBVIOUS
<1>1. /\ TypeOK /\ Numbered /\ ProxiesFit /\ OneStubPerObject /\ nextId \in Nat
      /\ None \notin Ids /\ None \notin Proxies /\ None \notin Objects
      /\ otask \in [OwnerThreads -> OTasks] /\ stubIds \subseteq Ids
      /\ wire \in [Ids -> Nat] /\ rel \in [Ids -> Nat] /\ kept \in [Ids -> Nat]
      /\ stubObjs \in [Objects -> Ids \cup {None}] /\ objOf \in [Ids -> Objects \cup {None}]
      /\ proxy \in [Proxies -> [id : Ids \cup {None}, refs : Nat, state : {"free", "new", "live", "final", "deleted"}]]
  <2>1. None \notin Ids /\ None \notin Proxies /\ None \notin Objects /\ MaxId \in Nat
    BY ProxyAssumption DEF Ids
  <2>2. TypeOK /\ Numbered /\ ProxiesFit /\ OneStubPerObject
    BY DEF IInv
  <2>3. nextId \in Nat
    BY <2>1, <2>2 DEF TypeOK
  <2> QED
    BY <2>1, <2>2, <2>3 DEF TypeOK
<1>2. \A o \in Objects : stubObjs[o] # None => stubObjs[o] \in Ids /\ stubObjs[o] < nextId
  BY <1>1 DEF OneStubPerObject, Numbered, Ids
<1>3. ASSUME UNCHANGED <<nextId, objOf>>, stubIds' \subseteq stubIds,
             \A k \in Ids : k >= nextId =>
                 k \notin raced' /\ count'[k] = 0 /\ wire'[k] = 0 /\ rel'[k] = 0 /\ kept'[k] = 0,
             \A q \in Proxies :
                 proxy'[q].id = proxy[q].id \/ proxy'[q].id = None \/ (proxy'[q].id \in Ids /\ proxy'[q].id < nextId),
             \A u \in OwnerThreads :
                 \/ otask'[u] = otask[u] \/ otask'[u].at \in {"idle", "create"}
                 \/ otask'[u].id \in Ids /\ otask'[u].id < nextId
      PROVE  Numbered'
  <2>1. \A k \in Ids : k < nextId' => objOf'[k] \in Objects
    BY <1>1, <1>3 DEF Numbered
  <2>2. ASSUME NEW k \in Ids, k >= nextId, NEW q \in Proxies PROVE proxy'[q].id # k
    BY <1>1, <1>3, <2>2 DEF Numbered, Ids
  <2>3. ASSUME NEW k \in Ids, k >= nextId, NEW u \in OwnerThreads
        PROVE  otask'[u].at \in {"idle", "create"} \/ otask'[u].id # k
    BY <1>1, <1>3, <2>3 DEF Numbered, Ids
  <2> QED
    BY <1>1, <1>3, <2>1, <2>2, <2>3 DEF Numbered
<1>4. ASSUME NEW t \in OwnerThreads, NEW o \in Objects, MarshalInterface(t, o) PROVE Numbered'
  <2>1. \A u \in OwnerThreads : otask'[u] = otask[u] \/ otask'[u].at = "create" \/ (otask'[u].id \in Ids /\ otask'[u].id < nextId)
    BY <1>1, <1>2, <1>4 DEF MarshalInterface, OTask
  <2>2. UNCHANGED <<nextId, objOf, stubIds, raced, count, wire, rel, kept, proxy>>
    BY <1>4 DEF MarshalInterface, holderVars
  <2>7. stubIds' \subseteq stubIds /\ \A k \in Ids : k >= nextId =>
            k \notin raced' /\ count'[k] = 0 /\ wire'[k] = 0 /\ rel'[k] = 0 /\ kept'[k] = 0
    BY <1>1, <2>1, <2>2 DEF Numbered, Ids
  <2> QED
    BY <1>3, <2>7, <2>1, <2>2
<1>5. ASSUME NEW t \in OwnerThreads, CreateStub(t) PROVE Numbered'
  <2> PICK o : o = otask[t].id
    OBVIOUS
  <2>1. o \in Objects /\ UNCHANGED <<raced, count, wire, rel, kept, proxy>>
    BY <1>1, <1>5, TaskTyped DEF CreateStub, holderVars
  <2>2. CASE stubObjs[o] # None
    <3>1. \A u \in OwnerThreads : otask'[u] = otask[u] \/ (otask'[u].id \in Ids /\ otask'[u].id < nextId)
      BY <1>1, <1>2, <1>5, <2>1, <2>2 DEF CreateStub, OTask
    <3>2. UNCHANGED <<nextId, objOf, stubIds>>
      BY <1>5, <2>2 DEF CreateStub
    <3>7. stubIds' \subseteq stubIds /\ \A k \in Ids : k >= nextId =>
              k \notin raced' /\ count'[k] = 0 /\ wire'[k] = 0 /\ rel'[k] = 0 /\ kept'[k] = 0
      BY <1>1, <2>1, <3>1, <3>2 DEF Numbered, Ids
    <3> QED
      BY <1>3, <3>7, <2>1, <3>1, <3>2
  <2>3. CASE stubObjs[o] = None
    <3>1. /\ nextId \in Ids /\ nextId' = nextId + 1 /\ stubIds' = stubIds \cup {nextId}
          /\ objOf' = [objOf EXCEPT ![nextId] = o]
          /\ \A u \in OwnerThreads : otask'[u] = otask[u] \/ otask'[u].id = nextId
      BY <1>1, <1>5, <2>1, <2>3 DEF CreateStub, OTask
    <3>2. \A i \in Ids : i < nextId' => objOf'[i] \in Objects
      BY <1>1, <2>1, <3>1 DEF Numbered, Ids
    <3>3. \A i \in Ids : i >= nextId' => i >= nextId /\ i # nextId
      BY <1>1, <3>1 DEF Ids
    <3> QED
      BY <1>1, <2>1, <3>1, <3>2, <3>3 DEF Numbered
  <2> QED
    BY <2>2, <2>3
<1>6. ASSUME NEW t \in OwnerThreads, CountMarshal(t) PROVE Numbered'
  <2> PICK i : i = otask[t].id
    OBVIOUS
  <2>1. i \in Ids /\ i < nextId /\ UNCHANGED <<nextId, objOf, stubIds, wire, rel, kept, proxy>>
    BY <1>1, <1>6, TaskTyped DEF CountMarshal, holderVars
  <2>2. /\ \A u \in OwnerThreads : otask'[u] = otask[u] \/ otask'[u].id = i
        /\ \A k \in Ids : k # i => count'[k] = count[k] /\ (k \in raced' => k \in raced)
    BY <1>1, <1>6 DEF CountMarshal, OTask, Add, TypeOK
  <2>7. stubIds' \subseteq stubIds /\ \A k \in Ids : k >= nextId =>
            k \notin raced' /\ count'[k] = 0 /\ wire'[k] = 0 /\ rel'[k] = 0 /\ kept'[k] = 0
    BY <1>1, <2>1, <2>2 DEF Numbered, Ids
  <2> QED
    BY <1>3, <2>7, <2>1, <2>2
<1>7. ASSUME NEW t \in OwnerThreads, SendReference(t) PROVE Numbered'
  <2> PICK i : i = otask[t].id
    OBVIOUS
  <2>1. i \in Ids /\ i < nextId /\ UNCHANGED <<nextId, objOf, stubIds, rel, proxy, raced, count>>
    BY <1>1, <1>7, TaskTyped DEF SendReference, holderVars
  <2>2. /\ \A u \in OwnerThreads : otask'[u] = otask[u] \/ otask'[u].at = "idle" \/ otask'[u].id = i
        /\ \A k \in Ids : k # i => wire'[k] = wire[k] /\ kept'[k] = kept[k]
    BY <1>1, <1>7 DEF SendReference, OTask, ODone, OIdle, Add
  <2>7. stubIds' \subseteq stubIds /\ \A k \in Ids : k >= nextId =>
            k \notin raced' /\ count'[k] = 0 /\ wire'[k] = 0 /\ rel'[k] = 0 /\ kept'[k] = 0
    BY <1>1, <2>1, <2>2 DEF Numbered, Ids
  <2> QED
    BY <1>3, <2>7, <2>1, <2>2
<1>8. ASSUME NEW t \in OwnerThreads, ReleaseMarshalData(t) PROVE Numbered'
  <2> PICK i, j : i = otask[t].id /\ j = stubObjs[objOf[i]]
    OBVIOUS
  <2>1. /\ i \in Ids /\ i < nextId /\ objOf[i] \in Objects
        /\ UNCHANGED <<nextId, objOf, stubIds, wire, rel, kept, proxy, count>>
    BY <1>1, <1>8, TaskTyped DEF ReleaseMarshalData, holderVars
  <2>2. j = None \/ (j \in Ids /\ j < nextId)
    BY <1>1, <1>2, <2>1
  <2>3. /\ \A u \in OwnerThreads : otask'[u] = otask[u] \/ otask'[u].at = "idle" \/ (j # None /\ otask'[u].id = j)
        /\ \A k \in Ids : k \in raced' => k \in raced \/ k = i \/ (j # None /\ k = j)
    BY <1>1, <1>8 DEF ReleaseMarshalData, OTask, ODone, OIdle
  <2>7. stubIds' \subseteq stubIds /\ \A k \in Ids : k >= nextId =>
            k \notin raced' /\ count'[k] = 0 /\ wire'[k] = 0 /\ rel'[k] = 0 /\ kept'[k] = 0
    <3>1. ASSUME NEW k \in Ids, k >= nextId PROVE k \notin raced'
      <4>1. k # i /\ (j # None => k # j)
        BY <1>1, <2>1, <2>2, <3>1 DEF Ids
      <4>2. k \notin raced
        BY <1>1, <3>1 DEF Numbered
      <4> QED
        BY <2>3, <4>1, <4>2
    <3> QED
      BY <1>1, <2>1, <3>1 DEF Numbered
  <2> QED
    BY <1>3, <2>7, <2>1, <2>2, <2>3
<1>9. ASSUME NEW t \in OwnerThreads, NEW i \in Ids, InvokeRelease(t, i) PROVE Numbered'
  <2>1. /\ i < nextId /\ UNCHANGED <<nextId, objOf, stubIds, wire, raced, kept, proxy, count>>
        /\ \A u \in OwnerThreads : otask'[u] = otask[u] \/ otask'[u].at = "idle" \/ otask'[u].id = i
        /\ \A k \in Ids : k # i => rel'[k] = rel[k]
    BY <1>1, <1>9 DEF InvokeRelease, OTask, ODone, OIdle, Sub, Numbered, holderVars, Ids
  <2>7. stubIds' \subseteq stubIds /\ \A k \in Ids : k >= nextId =>
            k \notin raced' /\ count'[k] = 0 /\ wire'[k] = 0 /\ rel'[k] = 0 /\ kept'[k] = 0
    BY <1>1, <2>1 DEF Numbered, Ids
  <2> QED
    BY <1>3, <2>7, <2>1
<1>10. ASSUME NEW t \in OwnerThreads, RemoteRelease(t) PROVE Numbered'
  <2> PICK i : i = otask[t].id
    OBVIOUS
  <2>1. i \in Ids /\ i < nextId /\ UNCHANGED <<nextId, objOf, stubIds, rel, wire, kept, proxy, raced>>
    BY <1>1, <1>10, TaskTyped DEF RemoteRelease, holderVars
  <2>2. /\ \A u \in OwnerThreads : otask'[u] = otask[u] \/ otask'[u].at = "idle" \/ otask'[u].id = i
        /\ \A k \in Ids : k # i => count'[k] = count[k]
    BY <1>1, <1>10 DEF RemoteRelease, OTask, ODone, OIdle, Sub, TypeOK
  <2>3. \A k \in Ids : k >= nextId => k # i
    BY <1>1, <2>1 DEF Ids
  <2>7. stubIds' \subseteq stubIds /\ \A k \in Ids : k >= nextId =>
            k \notin raced' /\ count'[k] = 0 /\ wire'[k] = 0 /\ rel'[k] = 0 /\ kept'[k] = 0
    BY <1>1, <2>1, <2>2, <2>3 DEF Numbered
  <2> QED
    BY <1>3, <2>7, <2>1, <2>2
<1>11. ASSUME NEW t \in OwnerThreads, RemoveStub(t) PROVE Numbered'
  <2>1. /\ stubIds' \subseteq stubIds
        /\ UNCHANGED <<nextId, objOf, raced, wire, rel, kept, proxy, count>>
        /\ \A u \in OwnerThreads : otask'[u] = otask[u] \/ otask'[u].at = "idle"
    BY <1>1, <1>11 DEF RemoveStub, WithoutStub, ODone, OIdle, holderVars
  <2>7. stubIds' \subseteq stubIds /\ \A k \in Ids : k >= nextId =>
            k \notin raced' /\ count'[k] = 0 /\ wire'[k] = 0 /\ rel'[k] = 0 /\ kept'[k] = 0
    BY <1>1, <2>1 DEF Numbered, Ids
  <2> QED
    BY <1>3, <2>7, <2>1
<1>12. ASSUME NEW i \in Ids, MarshalStub(i) PROVE Numbered'
  <2>1. /\ i < nextId /\ UNCHANGED <<nextId, objOf, stubIds, raced, wire, rel, proxy, otask>>
        /\ \A k \in Ids : k # i => count'[k] = count[k] /\ kept'[k] = kept[k]
    BY <1>1, <1>12 DEF MarshalStub, Add, Numbered, holderVars, Ids, TypeOK
  <2>7. stubIds' \subseteq stubIds /\ \A k \in Ids : k >= nextId =>
            k \notin raced' /\ count'[k] = 0 /\ wire'[k] = 0 /\ rel'[k] = 0 /\ kept'[k] = 0
    BY <1>1, <2>1 DEF Numbered, Ids
  <2> QED
    BY <1>3, <2>7, <2>1
<1>13. ASSUME NEW h \in HolderThreads, NEW i \in Ids, UnmarshalFound(h, i) PROVE Numbered'
  <2>1. /\ i < nextId /\ UNCHANGED <<nextId, objOf, stubIds, raced, rel, count, otask>>
        /\ \A k \in Ids : k # i => wire'[k] = wire[k] /\ kept'[k] = kept[k]
        /\ proxyIds[i] \in Proxies
    <3>1. /\ i < nextId /\ UNCHANGED <<nextId, objOf, stubIds, raced, rel, count, otask>>
          /\ proxyIds[i] \in Proxies
      <4>1. UNCHANGED <<nextId, objOf, stubIds, raced, rel, count, otask>> /\ wire[i] > 0
        BY <1>13 DEF UnmarshalFound, ownerVars
      <4>2. proxyIds[i] \in Proxies
        BY <1>1, <1>13 DEF UnmarshalFound, TypeOK
      <4>3. i < nextId
        BY <1>1, <4>1 DEF Numbered, Ids
      <4> QED
        BY <4>1, <4>2, <4>3
    <3>2. wire' = Sub(wire, i) /\ (kept' = Add(kept, i) \/ kept' = kept)
      BY <1>13 DEF UnmarshalFound
    <3>3. \A k \in Ids : k # i => Sub(wire, i)[k] = wire[k] /\ Add(kept, i)[k] = kept[k]
      BY <1>1 DEF Sub, Add
    <3> QED
      BY <3>1, <3>2, <3>3
  <2>2. \A p \in Proxies : proxy'[p].id = proxy[p].id
    BY <1>1, <1>13, <2>1 DEF UnmarshalFound
  <2>7. stubIds' \subseteq stubIds /\ \A k \in Ids : k >= nextId =>
            k \notin raced' /\ count'[k] = 0 /\ wire'[k] = 0 /\ rel'[k] = 0 /\ kept'[k] = 0
    BY <1>1, <2>1, <2>2 DEF Numbered, Ids
  <2> QED
    BY <1>3, <2>7, <2>1, <2>2
<1>14. ASSUME NEW h \in HolderThreads, NEW i \in Ids, NEW p \in Proxies, UnmarshalNew(h, i, p) PROVE Numbered'
  <2>1. /\ i < nextId /\ UNCHANGED <<nextId, objOf, stubIds, raced, rel, count, otask, kept>>
        /\ \A k \in Ids : k # i => wire'[k] = wire[k]
        /\ \A q \in Proxies : proxy'[q].id = proxy[q].id \/ proxy'[q].id = i
    BY <1>1, <1>14 DEF UnmarshalNew, Sub, Numbered, ownerVars, Ids
  <2>7. stubIds' \subseteq stubIds /\ \A k \in Ids : k >= nextId =>
            k \notin raced' /\ count'[k] = 0 /\ wire'[k] = 0 /\ rel'[k] = 0 /\ kept'[k] = 0
    BY <1>1, <2>1 DEF Numbered, Ids
  <2> QED
    BY <1>3, <2>7, <2>1
<1>15. ASSUME NEW h \in HolderThreads, InsertProxy(h) PROVE Numbered'
  <2>1. /\ UNCHANGED <<nextId, objOf, stubIds, raced, rel, count, otask, kept, wire>>
        /\ htask[h].proxy \in Proxies
    BY <1>1, <1>15, HolderTyped DEF InsertProxy, ownerVars
  <2>2. proxy' = proxy \/ proxy' = [proxy EXCEPT ![htask[h].proxy].state = "live"]
    BY <1>15 DEF InsertProxy
  <2>3. \A q \in Proxies : proxy'[q].id = proxy[q].id
    BY <1>1, <2>1, <2>2
  <2>7. stubIds' \subseteq stubIds /\ \A k \in Ids : k >= nextId =>
            k \notin raced' /\ count'[k] = 0 /\ wire'[k] = 0 /\ rel'[k] = 0 /\ kept'[k] = 0
    BY <1>1, <2>1, <2>3 DEF Numbered, Ids
  <2> QED
    BY <1>3, <2>7, <2>1, <2>3
<1>16. ASSUME NEW p \in Proxies, ReleaseProxy(p) PROVE Numbered'
  <2>1. /\ UNCHANGED <<nextId, objOf, stubIds, raced, rel, count, otask, kept, wire>>
        /\ \A q \in Proxies : proxy'[q].id = proxy[q].id
    BY <1>1, <1>16 DEF ReleaseProxy, ownerVars
  <2>7. stubIds' \subseteq stubIds /\ \A k \in Ids : k >= nextId =>
            k \notin raced' /\ count'[k] = 0 /\ wire'[k] = 0 /\ rel'[k] = 0 /\ kept'[k] = 0
    BY <1>1, <2>1 DEF Numbered, Ids
  <2> QED
    BY <1>3, <2>7, <2>1
<1>17. ASSUME NEW h \in HolderThreads, NEW p \in Proxies, FinalRelease(h, p) PROVE Numbered'
  <2> PICK i : i = proxy[p].id
    OBVIOUS
  <2>1. i \in Ids /\ i < nextId
    <3>1. i \in Ids
      BY <1>1, <1>17 DEF FinalRelease, InUse, ProxiesFit
    <3> QED
      BY <1>1, <3>1 DEF Numbered, Ids
  <2>2. /\ UNCHANGED <<nextId, objOf, stubIds, raced, count, otask, kept, wire>>
        /\ \A k \in Ids : k # i => rel'[k] = rel[k]
        /\ \A q \in Proxies : proxy'[q].id = proxy[q].id
    BY <1>1, <1>17, <2>1 DEF FinalRelease, ownerVars, Add
  <2>7. stubIds' \subseteq stubIds /\ \A k \in Ids : k >= nextId =>
            k \notin raced' /\ count'[k] = 0 /\ wire'[k] = 0 /\ rel'[k] = 0 /\ kept'[k] = 0
    BY <1>1, <2>1, <2>2 DEF Numbered, Ids
  <2> QED
    BY <1>3, <2>7, <2>1, <2>2
<1>18. ASSUME NEW h \in HolderThreads, RemoveProxy(h) PROVE Numbered'
  <2>1. /\ UNCHANGED <<nextId, objOf, stubIds, raced, rel, count, otask, kept, wire>>
        /\ \A q \in Proxies : proxy'[q].id = proxy[q].id \/ proxy'[q].id = None
    BY <1>1, <1>18 DEF RemoveProxy, Free, ownerVars
  <2>7. stubIds' \subseteq stubIds /\ \A k \in Ids : k >= nextId =>
            k \notin raced' /\ count'[k] = 0 /\ wire'[k] = 0 /\ rel'[k] = 0 /\ kept'[k] = 0
    BY <1>1, <2>1 DEF Numbered, Ids
  <2> QED
    BY <1>3, <2>7, <2>1
<1>19. ASSUME Disconnect PROVE Numbered'
  <2>1. /\ UNCHANGED <<nextId, objOf, stubIds, raced, count, otask, kept, proxy>>
        /\ \A k \in Ids : rel'[k] = 0 /\ wire'[k] = 0
    BY <1>19 DEF Disconnect, ownerVars
  <2>7. stubIds' \subseteq stubIds /\ \A k \in Ids : k >= nextId =>
            k \notin raced' /\ count'[k] = 0 /\ wire'[k] = 0 /\ rel'[k] = 0 /\ kept'[k] = 0
    BY <1>1, <2>1 DEF Numbered, Ids
  <2> QED
    BY <1>3, <2>7, <2>1
<1>20. ASSUME NEW i \in Ids, ShutdownPop(i) PROVE Numbered'
  <2>1. /\ UNCHANGED <<nextId, objOf, raced, count, otask, kept, proxy, rel, wire>>
        /\ stubIds' \subseteq stubIds
    BY <1>20 DEF ShutdownPop, WithoutStub, holderVars
  <2>7. stubIds' \subseteq stubIds /\ \A k \in Ids : k >= nextId =>
            k \notin raced' /\ count'[k] = 0 /\ wire'[k] = 0 /\ rel'[k] = 0 /\ kept'[k] = 0
    BY <1>1, <2>1 DEF Numbered, Ids
  <2> QED
    BY <1>3, <2>7, <2>1
<1>21. CASE UNCHANGED vars \/ ShutdownEnd
  <2>1. UNCHANGED <<nextId, objOf, stubIds, raced, count, otask, kept, proxy, rel, wire>>
    BY <1>21 DEF ShutdownEnd, vars, ownerVars, holderVars
  <2>7. stubIds' \subseteq stubIds /\ \A k \in Ids : k >= nextId =>
            k \notin raced' /\ count'[k] = 0 /\ wire'[k] = 0 /\ rel'[k] = 0 /\ kept'[k] = 0
    BY <1>1, <2>1 DEF Numbered, Ids
  <2> QED
    BY <1>3, <2>7, <2>1
<1> QED
  BY <1>4, <1>5, <1>6, <1>7, <1>8, <1>9, <1>10, <1>11, <1>12, <1>13, <1>14, <1>15, <1>16,
     <1>17, <1>18, <1>19, <1>20, <1>21 DEF Next, Serve, Use

LEMMA ProxiesStep == IInv /\ TypeOK' /\ [Next]_vars => ProxiesFit' /\ Listed'
<1> SUFFICES ASSUME IInv, TypeOK', [Next]_vars PROVE ProxiesFit' /\ Listed'
  OBVIOUS
<1>1. /\ TypeOK /\ ProxiesFit /\ Listed
      /\ None \notin Ids /\ None \notin Proxies
      /\ htask \in [HolderThreads -> HTasks]
      /\ proxy \in [Proxies -> [id : Ids \cup {None}, refs : Nat, state : {"free", "new", "live", "final", "deleted"}]]
      /\ proxyIds \in [Ids -> Proxies \cup {None}]
  <2>1. None \notin Ids /\ None \notin Proxies
    BY ProxyAssumption DEF Ids
  <2>2. TypeOK /\ ProxiesFit /\ Listed
    BY DEF IInv
  <2> QED
    BY <2>1, <2>2 DEF TypeOK
<1>2. CASE UNCHANGED <<proxy, htask, open, proxyIds>>
  BY <1>1, <1>2 DEF ProxiesFit, Listed
<1>3. ASSUME NEW t \in OwnerThreads,
             \/ \E o \in Objects : MarshalInterface(t, o)
             \/ CreateStub(t) \/ CountMarshal(t) \/ SendReference(t) \/ ReleaseMarshalData(t)
             \/ RemoteRelease(t) \/ RemoveStub(t) \/ \E i \in Ids : InvokeRelease(t, i)
      PROVE  UNCHANGED <<proxy, htask, open, proxyIds>>
  BY <1>3 DEF MarshalInterface, CreateStub, CountMarshal, SendReference, ReleaseMarshalData, RemoteRelease,
              RemoveStub, InvokeRelease, holderVars
<1>4. ASSUME \/ \E i \in Ids : MarshalStub(i) \/ ShutdownPop(i)
             \/ ShutdownEnd \/ UNCHANGED vars
      PROVE  UNCHANGED <<proxy, htask, open, proxyIds>>
  BY <1>4 DEF MarshalStub, ShutdownPop, ShutdownEnd, vars, holderVars
<1>5. ASSUME UNCHANGED <<htask, open, proxyIds>>,
             \A p \in Proxies : proxy'[p].id = proxy[p].id /\ proxy'[p].state = proxy[p].state
      PROVE  ProxiesFit' /\ Listed'
  <2>1. \A h \in HolderThreads : htask[h].at # "idle" => htask[h].proxy \in Proxies
    BY <1>1, HolderTyped
  <2>2. ProxiesFit'
    BY <1>1, <1>5, <2>1 DEF ProxiesFit
  <2>3. Listed'
    BY <1>1, <1>5 DEF Listed
  <2> QED
    BY <2>2, <2>3
<1>6. ASSUME NEW h \in HolderThreads, NEW i \in Ids, UnmarshalFound(h, i) PROVE ProxiesFit' /\ Listed'
  <2>1. proxyIds[i] \in Proxies /\ UNCHANGED <<htask, open, proxyIds>>
    BY <1>1, <1>6 DEF UnmarshalFound
  <2>2. \A p \in Proxies : proxy'[p].id = proxy[p].id /\ proxy'[p].state = proxy[p].state
    BY <1>1, <1>6, <2>1 DEF UnmarshalFound
  <2> QED
    BY <1>5, <2>1, <2>2
<1>7. ASSUME NEW p \in Proxies, ReleaseProxy(p) PROVE ProxiesFit' /\ Listed'
  <2>1. UNCHANGED <<htask, open, proxyIds>>
    BY <1>7 DEF ReleaseProxy
  <2>2. \A q \in Proxies : proxy'[q].id = proxy[q].id /\ proxy'[q].state = proxy[q].state
    BY <1>1, <1>7 DEF ReleaseProxy
  <2> QED
    BY <1>5, <2>1, <2>2
<1>8. \A g \in HolderThreads : htask[g].at # "idle" => htask[g].proxy \in Proxies
  BY <1>1, HolderTyped
<1>9. ASSUME NEW h \in HolderThreads, NEW i \in Ids, NEW p \in Proxies, UnmarshalNew(h, i, p)
      PROVE  ProxiesFit' /\ Listed'
  <2>1. /\ proxy[p] = Free /\ proxy'[p] = [id |-> i, refs |-> 1, state |-> "new"] /\ htask[h] = HIdle
        /\ \A q \in Proxies : q # p => proxy'[q] = proxy[q]
        /\ htask'[h] = [at |-> "insert", proxy |-> p]
        /\ \A g \in HolderThreads : g # h => htask'[g] = htask[g]
        /\ UNCHANGED <<open, proxyIds>>
    BY <1>1, <1>9 DEF UnmarshalNew, HTask
  <2>2. \A g \in HolderThreads : htask[g].at # "idle" => htask[g].proxy # p
    BY <1>1, <1>8, <2>1 DEF Free, ProxiesFit
  <2>3. ProxiesFit'
    <3>1. \A q \in Proxies : /\ proxy'[q].state = "free" => proxy'[q].id = None
                             /\ proxy'[q].state # "free" => proxy'[q].id \in Ids
      BY <1>1, <2>1 DEF ProxiesFit
    <3>2. \A g \in HolderThreads : htask'[g].at # "idle" =>
              proxy'[htask'[g].proxy].state \in IF htask'[g].at = "remove" THEN {"final", "deleted"} ELSE {"new"}
      BY <1>1, <1>8, <2>1, <2>2 DEF ProxiesFit
    <3>3. \A g, k \in HolderThreads :
              htask'[g].at \notin {"idle", "remove"} /\ htask'[k].at # "idle"
                /\ htask'[g].proxy = htask'[k].proxy => g = k
      BY <1>1, <1>8, <2>1, <2>2 DEF ProxiesFit, HIdle
    <3> QED
      BY <3>1, <3>2, <3>3 DEF ProxiesFit
  <2>4. Listed'
    <3>1. open => \A k \in Ids : proxyIds[k] # p
      BY <1>1, <2>1 DEF Listed, Free
    <3> QED
      BY <1>1, <2>1, <3>1 DEF Listed
  <2> QED
    BY <2>3, <2>4
<1>10. ASSUME NEW h \in HolderThreads, NEW p \in Proxies, FinalRelease(h, p) PROVE ProxiesFit' /\ Listed'
  <2>1. /\ proxy[p].state \in {"live", "final"} /\ proxy'[p].state = "final" /\ proxy'[p].id = proxy[p].id
        /\ \A q \in Proxies : q # p => proxy'[q] = proxy[q]
        /\ htask[h] = HIdle /\ htask'[h] = [at |-> "remove", proxy |-> p]
        /\ \A g \in HolderThreads : g # h => htask'[g] = htask[g]
        /\ UNCHANGED <<open, proxyIds>>
    BY <1>1, <1>10 DEF FinalRelease, InUse, HTask
  <2>2. \A g \in HolderThreads : htask[g].at # "idle" /\ htask[g].proxy = p => htask[g].at = "remove"
    BY <1>1, <2>1 DEF ProxiesFit
  <2>3. proxy[p].id \in Ids
    BY <1>1, <2>1 DEF ProxiesFit
  <2>4. ProxiesFit'
    <3>1. \A q \in Proxies : /\ proxy'[q].state = "free" => proxy'[q].id = None
                             /\ proxy'[q].state # "free" => proxy'[q].id \in Ids
      BY <1>1, <2>1, <2>3 DEF ProxiesFit
    <3>2. \A g \in HolderThreads : htask'[g].at # "idle" =>
              proxy'[htask'[g].proxy].state \in IF htask'[g].at = "remove" THEN {"final", "deleted"} ELSE {"new"}
      BY <1>1, <1>8, <2>1, <2>2 DEF ProxiesFit
    <3>3. \A g, k \in HolderThreads :
              htask'[g].at \notin {"idle", "remove"} /\ htask'[k].at # "idle"
                /\ htask'[g].proxy = htask'[k].proxy => g = k
      BY <1>1, <1>8, <2>1, <2>2 DEF ProxiesFit, HIdle
    <3> QED
      BY <3>1, <3>2, <3>3 DEF ProxiesFit
  <2>5. Listed'
    BY <1>1, <2>1 DEF Listed
  <2> QED
    BY <2>4, <2>5
<1>11. ASSUME NEW h \in HolderThreads, InsertProxy(h) PROVE ProxiesFit' /\ Listed'
  <2> PICK p, i : p = htask[h].proxy /\ i = proxy[p].id
    OBVIOUS
  <2>1. p \in Proxies /\ i \in Ids /\ htask[h].at = "insert" /\ proxy[p].state = "new" /\ UNCHANGED open
    BY <1>1, <1>11, HolderTyped DEF InsertProxy
  <2>2. \A g \in HolderThreads : g # h /\ htask[g].at # "idle" => htask[g].proxy # p /\ htask[g].proxy \in Proxies
    BY <1>1, <2>1, HolderTyped DEF ProxiesFit
  <2>3. CASE proxyIds[i] = None
    <3>1. /\ \A g \in HolderThreads : g # h => htask'[g] = htask[g]
          /\ htask'[h].at = "idle"
          /\ \A q \in Proxies : q # p => proxy'[q] = proxy[q]
          /\ proxy'[p].id = i /\ proxy'[p].state = "live"
      BY <1>1, <1>11, <2>1, <2>3 DEF InsertProxy, HDone, HIdle
    <3>2. /\ \A k \in Ids : k # i => proxyIds'[k] = proxyIds[k]
          /\ proxyIds'[i] = p
      BY <1>1, <1>11, <2>1, <2>3 DEF InsertProxy
    <3>3. ProxiesFit'
      BY <1>1, <2>1, <2>2, <3>1 DEF ProxiesFit
    <3>4. Listed'
      <4>3. ASSUME open, NEW k \in Ids, proxyIds'[k] # None
            PROVE  proxy'[proxyIds'[k]].id = k /\ proxy'[proxyIds'[k]].state \in {"live", "final"}
        <5>1. k # i => proxyIds[k] # p
          BY <1>1, <2>1, <4>3 DEF Listed
        <5> QED
          BY <1>1, <3>1, <3>2, <4>3, <5>1 DEF Listed
      <4> SUFFICES ASSUME open, NEW q \in Proxies, proxy'[q].state \in {"live", "final"}
                   PROVE  proxyIds'[proxy'[q].id] = q
        BY <2>1, <4>3 DEF Listed
      <4>1. CASE q = p
        BY <3>1, <3>2, <4>1
      <4>2. CASE q # p
        <5>1. proxyIds[proxy[q].id] = q /\ proxy[q].id \in Ids /\ proxy'[q] = proxy[q]
          BY <1>1, <3>1, <4>2 DEF Listed, ProxiesFit
        <5>2. proxy[q].id # i
          BY <1>1, <2>3, <5>1
        <5> QED
          BY <3>2, <5>1, <5>2
      <4> QED
        BY <4>1, <4>2
    <3> QED
      BY <3>3, <3>4
  <2>4. CASE proxyIds[i] # None
    <3>1. /\ \A g \in HolderThreads : g # h => htask'[g] = htask[g]
          /\ htask'[h] = [at |-> "stuck", proxy |-> p]
          /\ UNCHANGED <<proxy, proxyIds>>
      BY <1>1, <1>11, <2>1, <2>4 DEF InsertProxy, HTask
    <3>2. ProxiesFit'
      BY <1>1, <2>1, <2>2, <3>1 DEF ProxiesFit
    <3>3. Listed'
      BY <1>1, <2>1, <3>1 DEF Listed
    <3> QED
      BY <3>2, <3>3
  <2> QED
    BY <2>3, <2>4
<1>12. ASSUME NEW h \in HolderThreads, RemoveProxy(h) PROVE ProxiesFit' /\ Listed'
  <2> PICK p, i : p = htask[h].proxy /\ i = proxy[p].id
    OBVIOUS
  <2>1. p \in Proxies /\ i \in Ids /\ htask[h].at = "remove" /\ proxy[p].state = "final" /\ UNCHANGED open
    BY <1>1, <1>12, HolderTyped DEF RemoveProxy
  <2>2. \A g \in HolderThreads : htask[g].at # "idle" /\ htask[g].proxy = p => htask[g].at = "remove"
    BY <1>1, <2>1 DEF ProxiesFit
  <2>3. /\ \A g \in HolderThreads : g # h => htask'[g] = htask[g]
        /\ htask'[h].at = "idle"
        /\ \A q \in Proxies : q # p => proxy'[q] = proxy[q]
        /\ \/ proxy'[p].id = i /\ proxy'[p].state = "deleted"
           \/ /\ proxy'[p].id = None /\ proxy'[p].state = "free"
              /\ \A g \in HolderThreads : g # h => htask[g] # htask[h]
        /\ \A k \in Ids : k # i => proxyIds'[k] = proxyIds[k]
        /\ proxyIds'[i] = None
    BY <1>1, <1>12, <2>1 DEF RemoveProxy, HDone, HIdle, Free
  <2>4. ProxiesFit'
    <3>1. \A q \in Proxies : /\ proxy'[q].state = "free" => proxy'[q].id = None
                             /\ proxy'[q].state # "free" => proxy'[q].id \in Ids
      BY <1>1, <2>1, <2>3 DEF ProxiesFit
    <3>2. ASSUME NEW g \in HolderThreads, htask'[g].at # "idle"
          PROVE  proxy'[htask'[g].proxy].state \in IF htask'[g].at = "remove" THEN {"final", "deleted"} ELSE {"new"}
      <4>1. g # h /\ htask'[g] = htask[g] /\ htask[g].at # "idle" /\ htask[g].proxy \in Proxies
        BY <1>8, <2>3, <3>2
      <4>2. CASE htask[g].proxy = p
        <5>1. htask[g] = htask[h]
          BY <1>1, <2>1, <2>2, <4>1, <4>2 DEF HTasks
        <5> QED
          BY <2>1, <2>3, <4>1, <4>2, <5>1
      <4>3. CASE htask[g].proxy # p
        BY <1>1, <2>3, <4>1, <4>3 DEF ProxiesFit
      <4> QED
        BY <4>2, <4>3
    <3>3. \A g, k \in HolderThreads :
              htask'[g].at \notin {"idle", "remove"} /\ htask'[k].at # "idle"
                /\ htask'[g].proxy = htask'[k].proxy => g = k
      BY <1>1, <2>3 DEF ProxiesFit
    <3> QED
      BY <3>1, <3>2, <3>3 DEF ProxiesFit
  <2>5. Listed'
    <3>4. ASSUME open, NEW k \in Ids, proxyIds'[k] # None
          PROVE  proxy'[proxyIds'[k]].id = k /\ proxy'[proxyIds'[k]].state \in {"live", "final"}
      <4>1. k # i /\ proxyIds'[k] = proxyIds[k] /\ proxyIds[k] \in Proxies
        BY <1>1, <2>3, <3>4
      <4>2. proxy[proxyIds[k]].id = k /\ proxy[proxyIds[k]].state \in {"live", "final"}
        BY <1>1, <3>4, <4>1 DEF Listed
      <4>3. proxyIds[k] # p
        BY <4>1, <4>2
      <4> QED
        BY <2>3, <4>1, <4>2, <4>3
    <3> SUFFICES ASSUME open, NEW q \in Proxies, proxy'[q].state \in {"live", "final"}
                 PROVE  proxyIds'[proxy'[q].id] = q
      BY <2>1, <3>4 DEF Listed
    <3>1. q # p /\ proxy'[q] = proxy[q]
      BY <2>3
    <3>2. proxyIds[proxy[q].id] = q /\ proxy[q].id \in Ids /\ proxyIds[i] = p
      BY <1>1, <2>1, <3>1 DEF Listed, ProxiesFit
    <3>3. proxy[q].id # i
      BY <3>1, <3>2
    <3> QED
      BY <2>3, <3>1, <3>2, <3>3
  <2> QED
    BY <2>4, <2>5
<1>13. ASSUME Disconnect PROVE ProxiesFit' /\ Listed'
  <2>1. UNCHANGED <<proxy, htask>> /\ ~open'
    BY <1>13 DEF Disconnect
  <2> QED
    BY <1>1, <2>1 DEF ProxiesFit, Listed
<1> QED
  BY <1>2, <1>3, <1>4, <1>6, <1>7, <1>9, <1>10, <1>11, <1>12, <1>13 DEF Next, Serve, Use

LEMMA StubsStep == IInv /\ TypeOK' /\ [Next]_vars => OneStubPerObject'
<1> SUFFICES ASSUME IInv, TypeOK', [Next]_vars PROVE OneStubPerObject'
  OBVIOUS
<1>1. /\ TypeOK /\ Numbered /\ OneStubPerObject /\ None \notin Ids
      /\ stubIds \subseteq Ids /\ stubObjs \in [Objects -> Ids \cup {None}]
      /\ objOf \in [Ids -> Objects \cup {None}] /\ nextId \in Nat /\ MaxId \in Nat
  <2>1. None \notin Ids /\ MaxId \in Nat
    BY ProxyAssumption DEF Ids
  <2>2. TypeOK /\ Numbered /\ OneStubPerObject
    BY DEF IInv
  <2>3. nextId \in Nat
    BY <2>1, <2>2 DEF TypeOK
  <2> QED
    BY <2>1, <2>2, <2>3 DEF TypeOK
<1>2. ASSUME UNCHANGED <<stubIds, stubObjs, objOf>> PROVE OneStubPerObject'
  BY <1>1, <1>2 DEF OneStubPerObject
<1>3. ASSUME NEW i \in Ids, WithoutStub(i), UNCHANGED objOf PROVE OneStubPerObject'
  <2>1. /\ stubIds' = stubIds \ {i}
        /\ \A o \in Objects : stubObjs'[o] = IF stubObjs[o] = i THEN None ELSE stubObjs[o]
    BY <1>3 DEF WithoutStub
  <2>2. \A j \in stubIds : objOf[j] \in Objects
    BY <1>1 DEF Numbered, Ids
  <2> QED
    BY <1>1, <1>3, <2>1, <2>2 DEF OneStubPerObject
<1>4. ASSUME NEW t \in OwnerThreads, CreateStub(t) PROVE OneStubPerObject'
  <2> PICK o : o = otask[t].id
    OBVIOUS
  <2>1. o \in Objects
    BY <1>1, <1>4, TaskTyped DEF CreateStub
  <2>2. CASE stubObjs[o] # None
    <3>1. UNCHANGED <<stubIds, stubObjs, objOf>>
      BY <1>4, <2>2 DEF CreateStub
    <3> QED
      BY <1>2, <3>1
  <2>3. CASE stubObjs[o] = None
    <3>1. /\ nextId \in Ids /\ stubIds' = stubIds \cup {nextId}
          /\ stubObjs' = [stubObjs EXCEPT ![o] = nextId] /\ objOf' = [objOf EXCEPT ![nextId] = o]
      BY <1>4, <2>3 DEF CreateStub
    <3>2. nextId \notin stubIds
      BY <1>1, <3>1 DEF Numbered
    <3>3. /\ stubObjs'[o] = nextId /\ \A x \in Objects : x # o => stubObjs'[x] = stubObjs[x]
          /\ objOf'[nextId] = o /\ \A j \in Ids : j # nextId => objOf'[j] = objOf[j]
      BY <1>1, <2>1, <3>1
    <3>4. ASSUME NEW j \in stubIds' PROVE stubObjs'[objOf'[j]] = j
      <4>1. CASE j = nextId
        BY <3>3, <4>1
      <4>2. CASE j # nextId
        <5>1. j \in stubIds /\ j \in Ids /\ objOf'[j] = objOf[j] /\ stubObjs[objOf[j]] = j /\ objOf[j] \in Objects
          BY <1>1, <3>1, <3>3, <4>2 DEF OneStubPerObject, Numbered, Ids
        <5>2. objOf[j] # o
          BY <1>1, <2>3, <5>1
        <5> QED
          BY <3>3, <5>1, <5>2
      <4> QED
        BY <4>1, <4>2
    <3>5. ASSUME NEW x \in Objects, stubObjs'[x] # None
          PROVE  stubObjs'[x] \in stubIds' /\ objOf'[stubObjs'[x]] = x
      <4>1. CASE x = o
        BY <3>1, <3>3, <4>1
      <4>2. CASE x # o
        <5>1. stubObjs'[x] = stubObjs[x] /\ stubObjs[x] \in stubIds /\ objOf[stubObjs[x]] = x
          BY <1>1, <3>3, <3>5, <4>2 DEF OneStubPerObject
        <5>2. stubObjs[x] # nextId /\ stubObjs[x] \in Ids
          BY <1>1, <3>2, <5>1
        <5> QED
          BY <3>1, <3>3, <5>1, <5>2
      <4> QED
        BY <4>1, <4>2
    <3> QED
      BY <3>4, <3>5 DEF OneStubPerObject
  <2> QED
    BY <2>2, <2>3
<1>5. ASSUME NEW t \in OwnerThreads, RemoveStub(t) PROVE OneStubPerObject'
  <2>1. otask[t].id \in Ids /\ WithoutStub(otask[t].id) /\ UNCHANGED objOf
    BY <1>1, <1>5, TaskTyped DEF RemoveStub
  <2> QED
    BY <1>3, <2>1
<1>6. ASSUME NEW i \in Ids, ShutdownPop(i) PROVE OneStubPerObject'
  BY <1>3, <1>6 DEF ShutdownPop
<1>7. ASSUME ShutdownEnd PROVE OneStubPerObject'
  BY <1>7 DEF ShutdownEnd, OneStubPerObject
<1>8. ASSUME NEW t \in OwnerThreads,
             \/ \E o \in Objects : MarshalInterface(t, o)
             \/ CountMarshal(t) \/ SendReference(t) \/ ReleaseMarshalData(t)
             \/ RemoteRelease(t) \/ \E i \in Ids : InvokeRelease(t, i)
      PROVE  UNCHANGED <<stubIds, stubObjs, objOf>>
  BY <1>8 DEF MarshalInterface, CountMarshal, SendReference, ReleaseMarshalData, RemoteRelease, InvokeRelease
<1>9. ASSUME NEW h \in HolderThreads,
             \/ \E i \in Ids : UnmarshalFound(h, i) \/ \E p \in Proxies : UnmarshalNew(h, i, p)
             \/ InsertProxy(h) \/ RemoveProxy(h) \/ \E p \in Proxies : FinalRelease(h, p)
      PROVE  UNCHANGED <<stubIds, stubObjs, objOf>>
  BY <1>9 DEF UnmarshalFound, UnmarshalNew, InsertProxy, RemoveProxy, FinalRelease, ownerVars
<1>10. ASSUME \/ \E i \in Ids : MarshalStub(i)
              \/ \E p \in Proxies : ReleaseProxy(p)
              \/ Disconnect \/ UNCHANGED vars
       PROVE  UNCHANGED <<stubIds, stubObjs, objOf>>
  BY <1>10 DEF MarshalStub, ReleaseProxy, Disconnect, vars, ownerVars
<1> QED
  BY <1>2, <1>4, <1>5, <1>6, <1>7, <1>8, <1>9, <1>10 DEF Next, Serve, Use

-----------------------------------------------------------------------------
\* The account of a stub.

Account(i) ==
    /\ i \in stubIds => count[i] = Due(i)
    /\ Due(i) > 0 => i \in stubIds
    /\ OAt("remove", i) # {} => Due(i) = 0

Accounted == open => \A i \in Ids \ raced : Account(i)

LEMMA AccountedNow == TypeOK => (Accounted <=> CountIsAccounted /\ StubOutlivesReferences /\ Removing)
<1> SUFFICES ASSUME TypeOK PROVE Accounted <=> CountIsAccounted /\ StubOutlivesReferences /\ Removing
  OBVIOUS
<1>1. stubIds \subseteq Ids
  BY DEF TypeOK
<1> QED
  BY <1>1 DEF Accounted, Account, CountIsAccounted, StubOutlivesReferences, Removing

LEMMA AccountedNext == TypeOK' => (Accounted' <=> CountIsAccounted' /\ StubOutlivesReferences' /\ Removing')
  BY AccountedNow, PTL

\* A proxy in use is owed for.
LEMMA HeldIsDue ==
    ASSUME TypeOK, NEW i \in Ids, NEW p \in Proxies, Counts(p, i)
    PROVE  Due(i) > 0 /\ Owed(i) > 0
<1> PICK S : S = {q \in Proxies : Counts(q, i)}
  OBVIOUS
<1>1. S \in SUBSET Proxies /\ S # {}
  OBVIOUS
<1>2. IsFiniteSet(S)
  BY <1>1, FS_Subset, ProxyAssumption
<1>3. Cardinality(S) # 0
  BY <1>1, <1>2, FS_EmptySet
<1>4. Held(i) # 0
  BY <1>3 DEF Held
<1> QED
  BY <1>4, DueParts

LEMMA AccountedStep == IInv /\ TypeOK' /\ [Next]_vars => Accounted'
<1> SUFFICES ASSUME IInv, TypeOK', [Next]_vars, open', NEW i \in Ids, i \notin raced' PROVE Account(i)'
  BY DEF Accounted
<1>1. /\ TypeOK /\ Numbered /\ ProxiesFit /\ Listed /\ OneStubPerObject /\ Accounted
      /\ otask \in [OwnerThreads -> OTasks] /\ stubIds \subseteq Ids
      /\ nextId \in 1..MaxId + 1 /\ count \in [Ids -> Int] /\ None \notin Ids
  <2>1. TypeOK /\ None \notin Ids
    BY ProxyAssumption DEF IInv, Ids
  <2> QED
    BY <2>1, AccountedNow DEF IInv, TypeOK
<1>2. /\ Due(i) \in Nat /\ Due(i)' \in Nat /\ count[i] \in Int
      /\ wire[i] \in Nat /\ rel[i] \in Nat /\ kept[i] \in Nat
  BY <1>1, DueParts, SummedNext DEF Summed
<1>3. ASSUME open, i \notin raced, Due(i)' = Due(i), count'[i] = count[i], i \in stubIds' <=> i \in stubIds,
             \A u \in OwnerThreads : otask'[u] = otask[u] \/ otask'[u].at # "remove" \/ otask'[u].id # i
      PROVE  Account(i)'
  <2>1. Account(i)
    BY <1>1, <1>3 DEF Accounted
  <2>2. OAt("remove", i)' \subseteq OAt("remove", i)
    BY <1>3 DEF OAt
  <2> QED
    BY <1>3, <2>1, <2>2 DEF Account
<1>4. ASSUME open, i \notin raced PROVE Account(i)
  BY <1>1, <1>4 DEF Accounted
<1>5. ASSUME NEW t \in OwnerThreads, NEW o \in Objects, MarshalInterface(t, o) PROVE Account(i)'
  <2>1. /\ UNCHANGED <<open, raced, count, stubIds>>
        /\ \A u \in OwnerThreads : otask'[u] = otask[u] \/ otask'[u].at # "remove"
    <3>1. UNCHANGED <<open, raced, count, stubIds>>
      BY <1>5 DEF MarshalInterface
    <3>2. OTask(t, "found", stubObjs[o]) \/ OTask(t, "create", o)
      BY <1>5 DEF MarshalInterface
    <3>3. otask'[t].at \in {"found", "create"} /\ \A u \in OwnerThreads : u # t => otask'[u] = otask[u]
      BY <1>1, <3>2 DEF OTask
    <3> QED
      BY <3>1, <3>3
  <2>2. Due(i)' = Due(i)
    BY <1>1, <1>5, MarshallingOwes DEF DueStays
  <2> QED
    BY <1>3, <2>1, <2>2
<1>6. ASSUME NEW t \in OwnerThreads, CreateStub(t) PROVE Account(i)'
  <2>1. /\ UNCHANGED <<open, raced, count>> /\ (i \in stubIds' => i \in stubIds \/ i = nextId)
        /\ stubIds \subseteq stubIds'
        /\ \A u \in OwnerThreads : otask'[u] = otask[u] \/ otask'[u].at # "remove"
    <3> PICK o : o = otask[t].id
      OBVIOUS
    <3>1. CASE stubObjs[o] # None
      <4>1. UNCHANGED <<open, raced, count, stubIds>> /\ otask' = [otask EXCEPT ![t] = [at |-> "found", id |-> stubObjs[o]]]
        BY <1>6, <3>1 DEF CreateStub, OTask
      <4>2. otask'[t].at = "found" /\ \A u \in OwnerThreads : u # t => otask'[u] = otask[u]
        BY <1>1, <4>1
      <4> QED
        BY <4>1, <4>2
    <3>2. CASE stubObjs[o] = None
      <4>1. /\ UNCHANGED <<open, raced, count>> /\ stubIds' = stubIds \cup {nextId}
            /\ otask' = [otask EXCEPT ![t] = [at |-> "found", id |-> nextId]]
        BY <1>6, <3>2 DEF CreateStub, OTask
      <4>2. otask'[t].at = "found" /\ \A u \in OwnerThreads : u # t => otask'[u] = otask[u]
        BY <1>1, <4>1
      <4> QED
        BY <4>1, <4>2
    <3> QED
      BY <3>1, <3>2
  <2>2. Due(i)' = Due(i)
    BY <1>1, <1>6, MarshallingOwes DEF DueStays
  <2>3. CASE i \in stubIds' /\ i \notin stubIds
    <3>1. i = nextId /\ Account(i)
      BY <1>4, <2>1, <2>3
    <3>2. count[i] = 0
      BY <1>1, <3>1 DEF Numbered, Ids
    <3>3. Due(i) = 0
      BY <1>2, <2>3, <3>1 DEF Account
    <3> QED
      BY <2>1, <2>2, <2>3, <3>2, <3>3 DEF Account
  <2> QED
    BY <1>3, <2>1, <2>2, <2>3
<1>7. ASSUME NEW t \in OwnerThreads, CountMarshal(t) PROVE Account(i)'
  <2> PICK j : j = otask[t].id
    OBVIOUS
  <2>1. /\ UNCHANGED <<open, stubIds>> /\ count' = Add(count, j) /\ i \notin raced
        /\ i = j => i \in stubIds /\ OAt("remove", i) = {}
    BY <1>7 DEF CountMarshal
  <2>2. otask'[t].at = "counted" /\ \A u \in OwnerThreads : u # t => otask'[u] = otask[u]
    BY <1>1, <1>7 DEF CountMarshal, OTask
  <2>3. Due(i)' = Due(i) + One(i = j)
    BY <1>1, <1>7, CountingOwes
  <2>4. CASE i # j
    <3>1. Due(i)' = Due(i) /\ count'[i] = count[i]
      BY <1>1, <1>2, <2>1, <2>3, <2>4 DEF One, Add
    <3>2. \A u \in OwnerThreads : otask'[u] = otask[u] \/ otask'[u].at # "remove"
      BY <2>2
    <3> QED
      BY <1>3, <2>1, <3>1, <3>2
  <2>5. CASE i = j
    <3>1. Due(i)' = Due(i) + 1 /\ count'[i] = count[i] + 1
      BY <1>1, <1>2, <2>1, <2>3, <2>5 DEF One, Add
    <3>2. OAt("remove", i)' = {}
      BY <2>1, <2>2, <2>5 DEF OAt
    <3>3. Account(i)
      BY <1>4, <2>1
    <3> QED
      BY <2>1, <2>5, <3>1, <3>2, <3>3 DEF Account
  <2> QED
    BY <2>4, <2>5
<1>8. ASSUME NEW t \in OwnerThreads, SendReference(t) PROVE Account(i)'
  <2>1. /\ UNCHANGED <<open, raced, count, stubIds>>
        /\ \A u \in OwnerThreads : otask'[u] = otask[u] \/ otask'[u].at # "remove"
    <3>1. UNCHANGED <<open, raced, count, stubIds>>
      BY <1>8 DEF SendReference
    <3>2. ODone(t) \/ OTask(t, "undo", otask[t].id)
      BY <1>8 DEF SendReference
    <3>3. otask'[t].at \in {"idle", "undo"} /\ \A u \in OwnerThreads : u # t => otask'[u] = otask[u]
      BY <1>1, <3>2 DEF OTask, ODone, OIdle
    <3> QED
      BY <3>1, <3>3
  <2>2. Due(i)' = Due(i)
    BY <1>1, <1>8, MarshallingOwes DEF DueStays
  <2> QED
    BY <1>3, <2>1, <2>2
<1>9. ASSUME NEW t \in OwnerThreads, ReleaseMarshalData(t) PROVE Account(i)'
  <2> PICK k, j : k = otask[t].id /\ j = stubObjs[objOf[k]]
    OBVIOUS
  <2>1. /\ UNCHANGED <<open, count, stubIds>> /\ i \notin raced
        /\ \A u \in OwnerThreads : otask'[u] = otask[u] \/ otask'[u].at # "remove"
        /\ j = k \/ i \notin {k, j} \ {None}
    <3>1. /\ UNCHANGED <<open, count, stubIds>>
          /\ raced' = IF j = k THEN raced ELSE raced \cup ({k, j} \ {None})
      BY <1>9 DEF ReleaseMarshalData
    <3>2. IF j = None THEN ODone(t) ELSE OTask(t, "release", j)
      BY <1>9 DEF ReleaseMarshalData
    <3>3. otask'[t].at \in {"idle", "release"} /\ \A u \in OwnerThreads : u # t => otask'[u] = otask[u]
      BY <1>1, <3>2 DEF OTask, ODone, OIdle
    <3> QED
      BY <3>1, <3>3
  <2>2. j = k \/ i \notin {k, j}
    BY <1>1, <2>1
  <2>3. Due(i)' = Due(i)
    BY <1>1, <1>9, <2>2, UndoingOwes
  <2> QED
    BY <1>3, <2>1, <2>3
<1>10. ASSUME NEW t \in OwnerThreads, NEW j \in Ids, InvokeRelease(t, j) PROVE Account(i)'
  <2>1. /\ UNCHANGED <<open, raced, count, stubIds>> /\ rel[j] > 0
        /\ \A u \in OwnerThreads : otask'[u] = otask[u] \/ otask'[u].at # "remove"
    BY <1>1, <1>10 DEF InvokeRelease, OTask, ODone, OIdle
  <2>2. Account(i)
    BY <1>4, <2>1
  <2>3. i = j => i \in stubIds
    <3>1. i = j => Due(i) > 0
      BY <1>1, <2>1, DueParts
    <3> QED
      BY <2>2, <3>1 DEF Account
  <2>4. Due(i)' = Due(i) - One(i = j /\ j \notin stubIds)
    BY <1>1, <1>10, InvokingOwes
  <2>5. Due(i)' = Due(i)
    BY <1>2, <2>3, <2>4 DEF One
  <2> QED
    BY <1>3, <2>1, <2>5
<1>11. ASSUME NEW t \in OwnerThreads, RemoteRelease(t) PROVE Account(i)'
  <2> PICK j : j = otask[t].id
    OBVIOUS
  <2>1. /\ UNCHANGED <<open, raced, stubIds>> /\ count' = Sub(count, j)
        /\ otask'[t] = IF count[j] = 1 THEN [at |-> "remove", id |-> j] ELSE OIdle
        /\ \A u \in OwnerThreads : u # t => otask'[u] = otask[u]
    BY <1>1, <1>11 DEF RemoteRelease, OTask, ODone
  <2>2. Due(i)' = Due(i) - One(i = j) /\ Account(i)
    BY <1>1, <1>4, <1>11, <2>1, ReleasingOwes
  <2>3. CASE i # j
    <3>1. Due(i)' = Due(i) /\ count'[i] = count[i]
      BY <1>1, <1>2, <2>1, <2>2, <2>3 DEF One, Sub
    <3>2. \A u \in OwnerThreads : otask'[u] = otask[u] \/ otask'[u].at # "remove" \/ otask'[u].id # i
      BY <2>1, <2>3 DEF OIdle
    <3> QED
      BY <1>3, <2>1, <3>1, <3>2
  <2>4. CASE i = j
    <3>1. Due(i)' = Due(i) - 1 /\ Due(i) > 0 /\ count'[i] = count[i] - 1
      BY <1>1, <1>2, <2>1, <2>2, <2>4 DEF One, Sub
    <3>2. i \in stubIds /\ count[i] = Due(i) /\ OAt("remove", i) = {}
      BY <1>2, <2>2, <3>1 DEF Account
    <3>3. OAt("remove", i)' # {} => count[j] = 1
      BY <2>1, <3>2 DEF OAt, OIdle
    <3> QED
      BY <1>2, <2>1, <2>4, <3>1, <3>2, <3>3 DEF Account
  <2> QED
    BY <2>3, <2>4
<1>12. ASSUME NEW t \in OwnerThreads, RemoveStub(t) PROVE Account(i)'
  <2> PICK j : j = otask[t].id
    OBVIOUS
  <2>1. /\ UNCHANGED <<open, raced, count>> /\ stubIds' = stubIds \ {j} /\ otask[t] = [at |-> "remove", id |-> j]
        /\ \A u \in OwnerThreads : otask'[u] = otask[u] \/ otask'[u].at # "remove"
    <3>1. otask[t].at = "remove" /\ otask[t] \in OTasks
      BY <1>1, <1>12 DEF RemoveStub
    <3>2. otask[t] = [at |-> "remove", id |-> j]
      BY <3>1 DEF OTasks
    <3> QED
      BY <1>1, <1>12, <3>2 DEF RemoveStub, WithoutStub, ODone, OIdle
  <2>2. Due(i)' = Due(i) /\ Account(i)
    BY <1>1, <1>4, <1>12, <2>1, MarshallingOwes DEF DueStays
  <2>3. CASE i # j
    BY <1>3, <2>1, <2>2, <2>3
  <2>4. CASE i = j
    <3>1. Due(i)' = 0
      BY <2>1, <2>2, <2>4 DEF Account, OAt
    <3> QED
      BY <2>1, <2>4, <3>1 DEF Account
  <2> QED
    BY <2>3, <2>4
<1>13. ASSUME NEW j \in Ids, MarshalStub(j) PROVE Account(i)'
  <2>1. UNCHANGED <<open, raced, stubIds, otask>> /\ count' = Add(count, j)
    BY <1>13 DEF MarshalStub
  <2>2. Due(i)' = Due(i) + One(i = j) /\ Account(i)
    BY <1>1, <1>4, <1>13, <2>1, PassingOnOwes
  <2>3. CASE i # j
    <3>1. Due(i)' = Due(i) /\ count'[i] = count[i]
      BY <1>1, <1>2, <2>1, <2>2, <2>3 DEF One, Add
    <3> QED
      BY <1>3, <2>1, <3>1
  <2>4. CASE i = j
    <3>1. Due(i)' = Due(i) + 1 /\ count'[i] = count[i] + 1
      BY <1>1, <1>2, <2>1, <2>2, <2>4 DEF One, Add
    <3>2. PICK p \in Proxies : Counts(p, j)
      BY <1>13 DEF MarshalStub, InUse, Counts
    <3>3. Due(i) > 0 /\ i \in stubIds
      BY <1>1, <1>13, <2>4, <3>2, HeldIsDue DEF MarshalStub
    <3>4. OAt("remove", i)' = {}
      BY <1>2, <2>1, <2>2, <3>3 DEF Account, OAt
    <3> QED
      BY <2>1, <2>2, <3>1, <3>3, <3>4 DEF Account
  <2> QED
    BY <2>3, <2>4
<1>14. ASSUME NEW h \in HolderThreads,
              \/ \E j \in Ids : UnmarshalFound(h, j) \/ \E p \in Proxies : UnmarshalNew(h, j, p)
              \/ InsertProxy(h) \/ RemoveProxy(h) \/ \E p \in Proxies : FinalRelease(h, p)
       PROVE  Account(i)'
  <2>1. UNCHANGED <<open, raced, count, stubIds, otask>>
    BY <1>14 DEF UnmarshalFound, UnmarshalNew, InsertProxy, RemoveProxy, FinalRelease, ownerVars
  <2>2. DueStays
    BY <1>1, <1>14, <2>1, HoldingOwes
  <2> QED
    BY <1>3, <2>1, <2>2 DEF DueStays
<1>15. ASSUME (\E p \in Proxies : ReleaseProxy(p)) \/ UNCHANGED vars PROVE Account(i)'
  <2>1. UNCHANGED <<open, raced, count, stubIds, otask>>
    BY <1>15 DEF ReleaseProxy, vars, ownerVars
  <2>2. DueStays
    BY <1>1, <1>15, RestingOwes
  <2> QED
    BY <1>3, <2>1, <2>2 DEF DueStays
<1>16. ~Disconnect /\ ~ShutdownEnd /\ \A j \in Ids : ~ShutdownPop(j)
  BY DEF Disconnect, ShutdownEnd, ShutdownPop
<1> QED
  BY <1>5, <1>6, <1>7, <1>8, <1>9, <1>10, <1>11, <1>12, <1>13, <1>14, <1>15, <1>16 DEF Next, Serve, Use

-----------------------------------------------------------------------------
\* The theorems of this module.

LEMMA NothingAtFirst ==
    ASSUME Init
    PROVE  TypeOK /\ nextId = 1 /\ \A i \in Ids : i >= nextId /\ Due(i) = 0 /\ \A x : OAt(x, i) = {}
<1>1. MaxId \in Nat /\ MaxMarshals \in Nat /\ None \notin Ids /\ None \notin Objects
  BY ProxyAssumption DEF Ids
<1>2. TypeOK
  <2>1. nextId \in 1..MaxId + 1 /\ marshals \in 0..MaxMarshals
    BY <1>1 DEF Init
  <2>2. /\ stubIds \subseteq Ids /\ raced \subseteq Ids /\ open \in BOOLEAN /\ emptied \in BOOLEAN
        /\ stubObjs \in [Objects -> Ids \cup {None}] /\ objOf \in [Ids -> Objects \cup {None}]
        /\ count \in [Ids -> Int] /\ proxyIds \in [Ids -> Proxies \cup {None}]
        /\ wire \in [Ids -> Nat] /\ rel \in [Ids -> Nat] /\ kept \in [Ids -> Nat]
    <3>1. stubIds \subseteq Ids /\ raced \subseteq Ids /\ open \in BOOLEAN /\ emptied \in BOOLEAN
      BY DEF Init
    <3>2. stubObjs \in [Objects -> Ids \cup {None}] /\ objOf \in [Ids -> Objects \cup {None}]
      BY DEF Init
    <3>3. count \in [Ids -> Int] /\ proxyIds \in [Ids -> Proxies \cup {None}]
      BY DEF Init
    <3>4. wire \in [Ids -> Nat] /\ rel \in [Ids -> Nat] /\ kept \in [Ids -> Nat]
      BY DEF Init
    <3> QED
      BY <3>1, <3>2, <3>3, <3>4
  <2>3. otask \in [OwnerThreads -> OTasks] /\ htask \in [HolderThreads -> HTasks]
    <3>1. OIdle \in OTasks /\ HIdle \in HTasks
      BY TasksAre
    <3> QED
      BY <3>1 DEF Init
  <2>4. proxy \in [Proxies -> [id : Ids \cup {None}, refs : Nat, state : {"free", "new", "live", "final", "deleted"}]]
    <3>1. Free \in [id : Ids \cup {None}, refs : Nat, state : {"free", "new", "live", "final", "deleted"}]
      BY DEF Free
    <3> QED
      BY <3>1 DEF Init
  <2> QED
    BY <2>1, <2>2, <2>3, <2>4 DEF TypeOK
<1>3. ASSUME NEW i \in Ids PROVE Due(i) = 0 /\ \A x : OAt(x, i) = {}
  <2>1. \A x : OAt(x, i) = {}
    BY <1>1 DEF Init, OAt, OIdle
  <2>2. Tasks(i) = 0
    BY <2>1, FS_EmptySet DEF Tasks
  <2>3. \A p \in Proxies : ~Counts(p, i)
    BY DEF Init, Counts, Free
  <2>4. {p \in Proxies : Counts(p, i)} = {}
    BY <2>3
  <2>5. Held(i) = 0
    BY <2>4, FS_EmptySet DEF Held
  <2>6. wire[i] = 0 /\ rel[i] = 0 /\ kept[i] = 0
    BY DEF Init
  <2> QED
    BY <1>2, <2>1, <2>2, <2>5, <2>6, DueParts
<1>4. nextId = 1 /\ \A i \in Ids : i >= nextId
  BY <1>1 DEF Init, Ids
<1> QED
  BY <1>2, <1>3, <1>4

LEMMA KeptAtFirst == Init => IInv
<1> SUFFICES ASSUME Init PROVE IInv
  OBVIOUS
<1>1. TypeOK /\ nextId = 1 /\ \A i \in Ids : i >= nextId /\ Due(i) = 0 /\ \A x : OAt(x, i) = {}
  BY NothingAtFirst
<1>2. None \notin Ids /\ \A i \in Ids : i \in Int
  BY ProxyAssumption DEF Ids
<1>3. Numbered
  BY <1>1, <1>2 DEF Init, Numbered, OIdle, Free
<1>4. ProxiesFit /\ Listed
  BY DEF Init, ProxiesFit, Listed, HIdle, Free
<1>5. OneStubPerObject
  BY DEF Init, OneStubPerObject
<1>6. Accounted
  BY <1>1 DEF Init, Accounted, Account
<1> QED
  BY <1>1, <1>3, <1>4, <1>5, <1>6, AccountedNow DEF IInv

LEMMA KeptByEachStep == IInv /\ [Next]_vars => IInv'
<1> SUFFICES ASSUME IInv, [Next]_vars PROVE IInv'
  OBVIOUS
<1>1. TypeOK'
  BY TypesStep DEF IInv
<1>2. Numbered' /\ ProxiesFit' /\ Listed' /\ OneStubPerObject' /\ Accounted'
  BY <1>1, NumberedStep, ProxiesStep, StubsStep, AccountedStep
<1> QED
  BY <1>1, <1>2, AccountedNext DEF IInv

\* The strengthened invariant, of any objects, threads and proxies: what a stub counts
\* is what is owed to it and what is never given up, whoever marshals, releases,
\* removes or fails to send when, with what is undone of it and what is not.
THEOREM AccountsAreKept == Spec => []IInv
  BY KeptAtFirst, KeptByEachStep, PTL DEF Spec

\* Tables, counts, proxies and tasks keep their types: what a thread has found, counted
\* or is to remove is a stub that was made.
THEOREM ManagersKeepTypes == Spec => []TypeOK
<1>1. IInv => TypeOK
  BY DEF IInv
<1> QED
  BY <1>1, AccountsAreKept, PTL

\* The count of a stub is what is owed to it and the references that the code never
\* gives up, it stays for as long as there are any of these, an object has one stub and a stub one proxy (WireStub.cpp, WireProxy.cpp,
\* StdObjectManager.cpp): for any threads at both ends, while the channel is open, and
\* but for the stubs that were marshalled while they were being removed.
THEOREM ReferencesAreAlwaysKept == Spec => []ReferencesAreKept
<1>1. IInv => ReferencesAreKept
  <2> SUFFICES ASSUME IInv PROVE ReferencesAreKept
    OBVIOUS
  <2>1. OneProxyPerStub
    BY DEF IInv, Listed, OneProxyPerStub
  <2> QED
    BY <2>1 DEF IInv, ReferencesAreKept
<1> QED
  BY <1>1, AccountsAreKept, PTL

-----------------------------------------------------------------------------
\* The promise of RemoteRefs.

Fate(i) == IF i >= nextId THEN "none"
           ELSE IF i \in raced THEN "lost"
           ELSE IF i \in stubIds THEN "live" ELSE "gone"

Referred(i) == open /\ i \notin raced /\ Owed(i) > 0

fates == [i \in Ids |-> Fate(i)]
refers == [i \in Ids |-> Referred(i)]

\* The actions of RemoteRefs, of what has become of the stubs of ProxyStub.
LEMMA InitIs ==
    Refs!Init <=> /\ fates = [i \in Ids |-> "none"] /\ refers = [i \in Ids |-> FALSE]
                  /\ open = TRUE
  BY DEF Refs!Init, fates, refers, Fate, Referred

LEMMA ExportIs ==
    ASSUME NEW i \in Ids
    PROVE  Refs!Export(i) <=> /\ fates[i] = "none" /\ fates' = [fates EXCEPT ![i] = "live"]
                              /\ UNCHANGED <<refers, open>>
  BY DEF Refs!Export, fates, refers, Fate, Referred

LEMMA ReferIs ==
    ASSUME NEW i \in Ids
    PROVE  Refs!Refer(i) <=> /\ fates[i] = "live" /\ ~refers[i]
                             /\ refers' = [refers EXCEPT ![i] = TRUE]
                             /\ UNCHANGED <<fates, open>>
  BY DEF Refs!Refer, fates, refers, Fate, Referred

LEMMA UnreferIs ==
    ASSUME NEW i \in Ids
    PROVE  Refs!Unrefer(i) <=> /\ refers[i] /\ refers' = [refers EXCEPT ![i] = FALSE]
                               /\ UNCHANGED <<fates, open>>
  BY DEF Refs!Unrefer, fates, refers, Fate, Referred

LEMMA WithdrawIs ==
    ASSUME NEW i \in Ids
    PROVE  Refs!Withdraw(i) <=> /\ fates[i] = "live" /\ ~refers[i]
                                /\ fates' = [fates EXCEPT ![i] = "gone"]
                                /\ UNCHANGED <<refers, open>>
  BY DEF Refs!Withdraw, fates, refers, Fate, Referred

LEMMA CloseIs ==
    Refs!Close <=> /\ open /\ open' = FALSE /\ UNCHANGED fates
                   /\ refers' = [i \in Ids |-> FALSE]
  BY DEF Refs!Close, fates, refers, Fate, Referred

LEMMA ForgetIs ==
    ASSUME NEW S
    PROVE  Refs!Forget(S) <=> /\ \A i \in S : fates[i] # "none"
                              /\ fates' = [i \in Ids |-> IF i \in S THEN "lost" ELSE fates[i]]
                              /\ refers' = [i \in Ids |-> i \notin S /\ refers[i]]
                              /\ UNCHANGED open
  BY DEF Refs!Forget, fates, refers, Fate, Referred

Promised == [Refs!Next]_Refs!vars

LEMMA RefsStutter == fates' = fates /\ refers' = refers /\ open' = open => Promised
  BY DEF Promised, Refs!vars, fates, refers, Fate, Referred

\* Steps of the two systems compared id by id.
SameFate(i) == Fate(i)' = Fate(i)
SameReferred(i) == Referred(i)' <=> Referred(i)

LEMMA FatesStay == ASSUME \A j \in Ids : SameFate(j) PROVE fates' = fates
  BY DEF SameFate, fates

LEMMA ReferredStay == ASSUME \A j \in Ids : SameReferred(j) PROVE refers' = refers
<1>1. \A j \in Ids : Referred(j)' \in BOOLEAN /\ Referred(j) \in BOOLEAN
  BY DEF Referred
<1>2. \A j \in Ids : Referred(j)' = Referred(j)
  BY <1>1 DEF SameReferred
<1> QED
  BY <1>2 DEF refers

\* The four steps of RemoteRefs that the managers make, in the terms of ids.
LEMMA Exports ==
    ASSUME NEW i \in Ids, Fate(i) = "none", Fate(i)' = "live", UNCHANGED open,
           \A j \in Ids : j # i => SameFate(j), \A j \in Ids : SameReferred(j)
    PROVE  Promised
<1>1. fates' = [fates EXCEPT ![i] = "live"] /\ fates[i] = "none"
  BY DEF fates, SameFate
<1>2. Refs!Export(i)
  BY <1>1, ReferredStay, ExportIs
<1> QED
  BY <1>2 DEF Promised, Refs!Next

LEMMA Withdraws ==
    ASSUME NEW i \in Ids, Fate(i) = "live", Fate(i)' = "gone", ~Referred(i), UNCHANGED open,
           \A j \in Ids : j # i => SameFate(j), \A j \in Ids : SameReferred(j)
    PROVE  Promised
<1>1. fates' = [fates EXCEPT ![i] = "gone"] /\ fates[i] = "live" /\ ~refers[i]
  BY DEF fates, refers, SameFate
<1>2. Refs!Withdraw(i)
  BY <1>1, ReferredStay, WithdrawIs
<1> QED
  BY <1>2 DEF Promised, Refs!Next

LEMMA RefersOrNot ==
    ASSUME NEW i \in Ids, \A j \in Ids : SameFate(j), UNCHANGED open,
           Referred(i) \/ Fate(i) = "live",
           \A j \in Ids : j # i => SameReferred(j)
    PROVE  Promised
<1>1. \A j \in Ids : Referred(j) \in BOOLEAN /\ Referred(j)' \in BOOLEAN
  BY DEF Referred
<1>2. CASE SameReferred(i)
  BY <1>2, FatesStay, ReferredStay, RefsStutter
<1>3. CASE Referred(i) /\ ~Referred(i)'
  <2>1. \A j \in Ids : Referred(j)' = IF j = i THEN FALSE ELSE Referred(j)
    BY <1>1, <1>3 DEF SameReferred
  <2>2. refers' = [refers EXCEPT ![i] = FALSE] /\ refers[i]
    BY <1>3, <2>1 DEF refers
  <2>3. Refs!Unrefer(i)
    BY <2>2, FatesStay, UnreferIs
  <2> QED
    BY <2>3 DEF Promised, Refs!Next
<1>4. CASE ~Referred(i) /\ Referred(i)'
  <2>1. \A j \in Ids : Referred(j)' = IF j = i THEN TRUE ELSE Referred(j)
    BY <1>1, <1>4 DEF SameReferred
  <2>2. refers' = [refers EXCEPT ![i] = TRUE] /\ ~refers[i] /\ fates[i] = "live"
    BY <1>4, <2>1 DEF refers, fates
  <2>3. Refs!Refer(i)
    BY <2>2, FatesStay, ReferIs
  <2> QED
    BY <2>3 DEF Promised, Refs!Next
<1> QED
  BY <1>1, <1>2, <1>3, <1>4 DEF SameReferred

LEMMA Forgets ==
    ASSUME NEW S \in SUBSET Ids, \A i \in S : Fate(i) # "none" /\ Fate(i)' = "lost" /\ ~Referred(i)',
           \A j \in Ids \ S : SameFate(j) /\ SameReferred(j), UNCHANGED open
    PROVE  Promised
<1>1. \A j \in Ids : Referred(j) \in BOOLEAN /\ Referred(j)' \in BOOLEAN
  BY DEF Referred
<1>2. /\ \A i \in S : fates[i] # "none"
      /\ fates' = [j \in Ids |-> IF j \in S THEN "lost" ELSE fates[j]]
  BY DEF fates, SameFate
<1>3. \A j \in Ids : Referred(j)' = (j \notin S /\ Referred(j))
  BY <1>1 DEF SameReferred
<1>4. refers' = [j \in Ids |-> j \notin S /\ refers[j]]
  BY <1>3 DEF refers
<1>5. Refs!Forget(S)
  BY <1>2, <1>4, ForgetIs
<1> QED
  BY <1>5 DEF Promised, Refs!Next

\* Steps after which the stubs are there as before, and owed to as before.
LEMMA Stays ==
    ASSUME UNCHANGED <<stubIds, nextId, raced, open>>,
           \A i \in Ids : open /\ i \notin raced => (Owed(i)' > 0 <=> Owed(i) > 0)
    PROVE  Promised
<1>1. \A i \in Ids : SameFate(i) /\ SameReferred(i)
  BY DEF SameFate, SameReferred, Fate, Referred
<1> QED
  BY <1>1, FatesStay, ReferredStay, RefsStutter

OwedStays == \A i \in Ids : Owed(i)' = Owed(i)

LEMMA StaysOwed ==
    ASSUME UNCHANGED <<stubIds, nextId, raced, open>>, OwedStays
    PROVE  Promised
  BY Stays DEF OwedStays

LEMMA DueIsOwed ==
    ASSUME TypeOK, TypeOK', DueStays, UNCHANGED kept
    PROVE  OwedStays
<1> SUFFICES ASSUME NEW i \in Ids PROVE Owed(i)' = Owed(i)
  BY DEF OwedStays
<1>1. /\ Due(i)' = Owed(i)' + kept'[i] /\ Owed(i)' \in Nat /\ kept'[i] \in Nat
      /\ Due(i) = Owed(i) + kept[i] /\ Owed(i) \in Nat
  BY DueParts, SummedNext DEF Summed
<1> QED
  BY <1>1 DEF DueStays

\* One less is owed to a stub.
LEMMA Lessens ==
    ASSUME NEW i \in Ids, UNCHANGED <<stubIds, nextId, raced, open>>, Owed(i) > 0,
           \A j \in Ids : j # i => Owed(j)' = Owed(j)
    PROVE  Promised
<1>1. \A j \in Ids : SameFate(j) /\ (j # i => SameReferred(j))
  BY DEF SameFate, SameReferred, Fate, Referred
<1>2. CASE open /\ i \notin raced
  <2>1. Referred(i)
    BY <1>2 DEF Referred
  <2> QED
    BY <1>1, <2>1, RefersOrNot
<1>3. CASE ~(open /\ i \notin raced)
  <2>1. SameReferred(i)
    BY <1>3 DEF SameReferred, Referred
  <2> QED
    BY <1>1, <2>1, FatesStay, ReferredStay, RefsStutter
<1> QED
  BY <1>2, <1>3

\* A stub is taken out of the tables.
LEMMA TakesAway ==
    ASSUME NEW i \in Ids, stubIds' = stubIds \ {i}, UNCHANGED <<nextId, raced, open>>, OwedStays,
           i < nextId, open /\ i \notin raced => Owed(i) = 0, nextId \in Int, i \in Int
    PROVE  Promised
<1>1. \A j \in Ids : SameReferred(j)
  BY DEF SameReferred, Referred, OwedStays
<1>2. \A j \in Ids : j # i => SameFate(j)
  BY DEF SameFate, Fate
<1>3. CASE i \in stubIds /\ i \notin raced
  <2>1. Fate(i) = "live" /\ Fate(i)' = "gone"
    BY <1>3 DEF Fate
  <2>2. ~Referred(i)
    BY <1>3 DEF Referred
  <2> QED
    BY <1>1, <1>2, <2>1, <2>2, Withdraws
<1>4. CASE i \notin stubIds \/ i \in raced
  <2>1. SameFate(i)
    BY <1>4 DEF SameFate, Fate
  <2> QED
    BY <1>1, <1>2, <2>1, FatesStay, ReferredStay, RefsStutter
<1> QED
  BY <1>3, <1>4

LEMMA PromiseKept == IInv /\ IInv' /\ [Next]_vars => Promised
<1> SUFFICES ASSUME IInv, IInv', [Next]_vars PROVE Promised
  OBVIOUS
<1>1. /\ TypeOK /\ TypeOK' /\ Numbered /\ ProxiesFit /\ Listed /\ OneStubPerObject /\ Accounted
      /\ stubIds \subseteq Ids /\ nextId \in Int /\ MaxId \in Nat /\ \A i \in Ids : i \in Int
      /\ None \notin Ids /\ None \notin Objects
  <2>1. TypeOK /\ TypeOK' /\ None \notin Ids /\ None \notin Objects /\ MaxId \in Nat
    BY ProxyAssumption DEF IInv, Ids
  <2>2. nextId \in Int /\ \A i \in Ids : i \in Int
    BY <2>1 DEF TypeOK, Ids
  <2> QED
    BY <2>1, <2>2, AccountedNow DEF IInv, TypeOK
<1>2. \A i \in Ids : open /\ i \notin raced => Account(i)
  BY <1>1 DEF Accounted
<1>3. \A i \in Ids : /\ Due(i) \in Nat /\ Due(i)' \in Nat /\ rel[i] \in Nat
                     /\ kept[i] \in Nat /\ kept'[i] \in Nat /\ Owed(i) \in Nat /\ Owed(i)' \in Nat
                     /\ Due(i) = Owed(i) + kept[i] /\ Due(i)' = Owed(i)' + kept'[i]
  BY <1>1, DueParts, SummedNext DEF Summed
<1>4. \A i \in stubIds : i \in Ids /\ i < nextId
  BY <1>1 DEF Numbered
<1>5. ASSUME NEW t \in OwnerThreads, NEW o \in Objects, MarshalInterface(t, o) PROVE Promised
  <2>1. OwedStays
    BY <1>1, <1>5, MarshallingOwes, DueIsOwed DEF MarshalInterface
  <2> QED
    BY <1>5, <2>1, StaysOwed DEF MarshalInterface
<1>6. ASSUME NEW t \in OwnerThreads, CreateStub(t) PROVE Promised
  <2> PICK o : o = otask[t].id
    OBVIOUS
  <2>1. OwedStays
    <3>1. UNCHANGED kept
      BY <1>6 DEF CreateStub
    <3> QED
      BY <1>1, <1>6, <3>1, MarshallingOwes, DueIsOwed
  <2>2. CASE stubObjs[o] # None
    BY <1>6, <2>1, <2>2, StaysOwed DEF CreateStub
  <2>3. CASE stubObjs[o] = None
    <3> PICK n : n = nextId
      OBVIOUS
    <3>1. /\ n \in Ids /\ stubIds' = stubIds \cup {n} /\ nextId' = n + 1 /\ UNCHANGED <<raced, open>>
      BY <1>6, <2>3 DEF CreateStub
    <3>2. Fate(n) = "none" /\ Fate(n)' = "live"
      BY <1>1, <3>1 DEF Fate, Numbered
    <3>3. \A j \in Ids : j # n => SameFate(j)
      BY <1>1, <3>1 DEF SameFate, Fate
    <3>4. \A j \in Ids : SameReferred(j)
      BY <2>1, <3>1 DEF SameReferred, Referred, OwedStays
    <3> QED
      BY <3>1, <3>2, <3>3, <3>4, Exports
  <2> QED
    BY <2>2, <2>3
<1>7. ASSUME NEW t \in OwnerThreads, CountMarshal(t) PROVE Promised
  <2> PICK i : i = otask[t].id
    OBVIOUS
  <2>1. i \in Ids /\ i < nextId
    BY <1>1, <1>7, TaskTyped DEF CountMarshal
  <2>2. \A j \in Ids : Due(j)' = Due(j) + One(j = i)
    BY <1>1, <1>7, CountingOwes
  <2>3. \A j \in Ids : j # i => Owed(j)' = Owed(j)
    <3>1. UNCHANGED kept
      BY <1>7 DEF CountMarshal
    <3> QED
      BY <1>3, <2>2, <3>1 DEF One
  <2>4. /\ UNCHANGED <<stubIds, nextId, open>>
        /\ raced' = IF i \in stubIds /\ OAt("remove", i) = {} THEN raced ELSE raced \cup {i}
    BY <1>7 DEF CountMarshal
  <2>5. \A j \in Ids : j # i => SameFate(j) /\ SameReferred(j)
    BY <2>3, <2>4 DEF SameFate, SameReferred, Fate, Referred
  <2>6. CASE i \in raced'
    <3>1. Fate(i) # "none" /\ Fate(i)' = "lost" /\ ~Referred(i)'
      BY <1>1, <2>1, <2>4, <2>6 DEF Fate, Referred
    <3> PICK S : S = {i}
      OBVIOUS
    <3>2. S \in SUBSET Ids /\ \A j \in S : Fate(j) # "none" /\ Fate(j)' = "lost" /\ ~Referred(j)'
      BY <2>1, <3>1
    <3>3. \A j \in Ids \ S : SameFate(j) /\ SameReferred(j)
      BY <2>5
    <3> QED
      BY <2>4, <3>2, <3>3, Forgets
  <2>7. CASE i \notin raced'
    <3>1. i \in stubIds /\ raced' = raced /\ i \notin raced
      BY <2>4, <2>7
    <3>2. SameFate(i) /\ Fate(i) = "live"
      BY <1>1, <2>1, <2>4, <3>1 DEF SameFate, Fate
    <3> QED
      BY <2>1, <2>4, <2>5, <3>2, RefersOrNot
  <2> QED
    BY <2>6, <2>7
<1>8. ASSUME NEW t \in OwnerThreads, SendReference(t) PROVE Promised
  <2> PICK i : i = otask[t].id
    OBVIOUS
  <2>1. DueStays /\ i \in Ids /\ UNCHANGED <<stubIds, nextId, raced, open>>
    BY <1>1, <1>8, MarshallingOwes, TaskTyped DEF SendReference
  <2>2. CASE UNCHANGED kept
    BY <1>1, <2>1, <2>2, DueIsOwed, StaysOwed
  <2>3. CASE kept' = Add(kept, i)
    <3>1. kept'[i] = kept[i] + 1 /\ \A j \in Ids : j # i => kept'[j] = kept[j]
      BY <1>1, <2>1, <2>3 DEF Add, TypeOK
    <3>2. Owed(i) > 0 /\ \A j \in Ids : j # i => Owed(j)' = Owed(j)
      BY <1>3, <2>1, <3>1 DEF DueStays
    <3> QED
      BY <2>1, <3>2, Lessens
  <2> QED
    BY <1>8, <2>2, <2>3 DEF SendReference
<1>9. ASSUME NEW t \in OwnerThreads, ReleaseMarshalData(t) PROVE Promised
  <2> PICK i, j : i = otask[t].id /\ j = stubObjs[objOf[i]]
    OBVIOUS
  <2>1. i \in Ids /\ i < nextId /\ objOf[i] \in Objects
    BY <1>1, <1>9, TaskTyped DEF ReleaseMarshalData
  <2>2. j # None => j \in Ids /\ j < nextId
    BY <1>1, <1>4, <2>1 DEF OneStubPerObject
  <2>3. /\ UNCHANGED <<stubIds, nextId, open>>
        /\ raced' = IF j = i THEN raced ELSE raced \cup ({i, j} \ {None})
    BY <1>9 DEF ReleaseMarshalData
  <2>4. \A k \in Ids : j = i \/ k \notin {i, j} => Owed(k)' = Owed(k)
    <3>1. \A k \in Ids : j = i \/ k \notin {i, j} => Due(k)' = Due(k)
      BY <1>1, <1>9, UndoingOwes
    <3>2. UNCHANGED kept
      BY <1>9 DEF ReleaseMarshalData
    <3> QED
      BY <1>3, <3>1, <3>2
  <2>5. CASE j = i
    BY <2>3, <2>4, <2>5, StaysOwed DEF OwedStays
  <2>6. CASE j # i
    <3> PICK S : S = {i, j} \ {None}
      OBVIOUS
    <3>1. S \in SUBSET Ids /\ \A k \in S : k \in Int /\ k < nextId /\ k \in raced'
      BY <1>1, <2>1, <2>2, <2>3, <2>6
    <3>2. \A k \in S : Fate(k) # "none" /\ Fate(k)' = "lost" /\ ~Referred(k)'
      BY <1>1, <2>3, <3>1 DEF Fate, Referred
    <3>3. \A k \in Ids \ S : Owed(k)' = Owed(k) /\ (k \in raced' <=> k \in raced)
      BY <1>1, <2>3, <2>4, <2>6
    <3>4. \A k \in Ids \ S : SameFate(k) /\ SameReferred(k)
      BY <2>3, <3>3 DEF SameFate, SameReferred, Fate, Referred
    <3> QED
      BY <2>3, <3>1, <3>2, <3>4, Forgets
  <2> QED
    BY <2>5, <2>6
<1>10. ASSUME NEW t \in OwnerThreads, NEW j \in Ids, InvokeRelease(t, j) PROVE Promised
  <2>1. /\ UNCHANGED <<stubIds, nextId, raced, open>> /\ open /\ rel[j] > 0
    BY <1>10 DEF InvokeRelease
  <2>2. \A i \in Ids : Due(i)' = Due(i) - One(i = j /\ j \notin stubIds)
    BY <1>1, <1>10, InvokingOwes
  <2>3. j \notin raced => j \in stubIds
    <3>1. Due(j) > 0
      BY <1>1, <2>1, DueParts
    <3> QED
      BY <1>2, <2>1, <3>1 DEF Account
  <2>4. \A i \in Ids : i \notin raced => Owed(i)' = Owed(i)
    <3>1. UNCHANGED kept
      BY <1>10 DEF InvokeRelease
    <3> QED
      BY <1>3, <2>2, <2>3, <3>1 DEF One
  <2> QED
    BY <2>1, <2>4, Stays
<1>11. ASSUME NEW t \in OwnerThreads, RemoteRelease(t) PROVE Promised
  <2> PICK i : i = otask[t].id
    OBVIOUS
  <2>1. i \in Ids /\ UNCHANGED <<stubIds, nextId, raced, open>>
    BY <1>1, <1>11, TaskTyped DEF RemoteRelease
  <2>2. \A j \in Ids : Due(j)' = Due(j) - One(j = i)
    BY <1>1, <1>11, ReleasingOwes
  <2>3. (\A j \in Ids : j # i => Owed(j)' = Owed(j)) /\ Owed(i) > 0
    <3>1. UNCHANGED kept
      BY <1>11 DEF RemoteRelease
    <3>2. Due(i)' = Due(i) - 1 /\ \A j \in Ids : j # i => Due(j)' = Due(j)
      BY <1>3, <2>1, <2>2 DEF One
    <3>3. kept'[i] = kept[i] /\ \A j \in Ids : kept'[j] = kept[j]
      BY <3>1
    <3>4. Owed(i) > 0
      BY <1>3, <2>1, <3>2, <3>3
    <3> QED
      BY <1>3, <3>2, <3>3, <3>4
  <2> QED
    BY <2>1, <2>3, Lessens
<1>12. ASSUME NEW t \in OwnerThreads, RemoveStub(t) PROVE Promised
  <2> PICK i : i = otask[t].id
    OBVIOUS
  <2>1. i \in Ids /\ i < nextId /\ t \in OAt("remove", i)
    <3>1. i \in Ids /\ i < nextId
      BY <1>1, <1>12, TaskTyped DEF RemoveStub
    <3>2. otask[t] \in OTasks /\ otask[t].at = "remove"
      BY <1>1, <1>12 DEF RemoveStub, TypeOK
    <3> QED
      BY <3>1, <3>2 DEF OAt, OTasks
  <2>2. stubIds' = stubIds \ {i} /\ UNCHANGED <<nextId, raced, open>>
    BY <1>12 DEF RemoveStub, WithoutStub
  <2>3. OwedStays
    BY <1>1, <1>12, MarshallingOwes, DueIsOwed DEF RemoveStub
  <2>4. open /\ i \notin raced => Owed(i) = 0
    <3>1. open /\ i \notin raced => Due(i) = 0
      BY <1>2, <2>1 DEF Account
    <3> QED
      BY <1>3, <2>1, <3>1
  <2> QED
    BY <1>1, <2>1, <2>2, <2>3, <2>4, TakesAway
<1>13. ASSUME NEW i \in Ids, ShutdownPop(i) PROVE Promised
  <2>1. stubIds' = stubIds \ {i} /\ UNCHANGED <<nextId, raced, open>> /\ ~open /\ i < nextId
    BY <1>4, <1>13 DEF ShutdownPop, WithoutStub
  <2>2. OwedStays
    BY <1>1, <1>13, RestingOwes, DueIsOwed DEF ShutdownPop
  <2> QED
    BY <1>1, <2>1, <2>2, TakesAway
<1>14. ASSUME NEW j \in Ids, MarshalStub(j) PROVE Promised
  <2>1. UNCHANGED <<stubIds, nextId, raced, open>>
    BY <1>14 DEF MarshalStub
  <2>2. \A i \in Ids : Due(i)' = Due(i) + One(i = j)
    BY <1>1, <1>14, PassingOnOwes
  <2>3. \A i \in Ids : kept'[i] = kept[i] + One(i = j)
    BY <1>1, <1>3, <1>14 DEF MarshalStub, Add, One, TypeOK
  <2>4. OwedStays
    BY <1>3, <2>2, <2>3 DEF OwedStays, One
  <2> QED
    BY <2>1, <2>4, StaysOwed
<1>15. ASSUME NEW h \in HolderThreads,
              \/ \E j \in Ids : UnmarshalFound(h, j) \/ \E p \in Proxies : UnmarshalNew(h, j, p)
              \/ InsertProxy(h) \/ RemoveProxy(h) \/ \E p \in Proxies : FinalRelease(h, p)
       PROVE  Promised
  <2>1. UNCHANGED <<stubIds, nextId, raced, open>>
    BY <1>15 DEF UnmarshalFound, UnmarshalNew, InsertProxy, RemoveProxy, FinalRelease, ownerVars
  <2>2. CASE ~open
    BY <2>1, <2>2, Stays
  <2>3. CASE open
    <3>1. DueStays
      BY <1>1, <1>15, <2>3, HoldingOwes
    <3>2. CASE UNCHANGED kept
      BY <1>1, <2>1, <3>1, <3>2, DueIsOwed, StaysOwed
    <3>3. ASSUME NEW i \in Ids, UnmarshalFound(h, i), kept' # kept PROVE Promised
      <4>1. kept' = Add(kept, i) /\ proxyIds[i] \in Proxies
        BY <1>1, <3>3 DEF UnmarshalFound, TypeOK
      <4>2. kept'[i] = kept[i] + 1 /\ \A j \in Ids : j # i => kept'[j] = kept[j]
        BY <1>1, <4>1 DEF Add, TypeOK
      <4>3. Owed(i) > 0 /\ \A j \in Ids : j # i => Owed(j)' = Owed(j)
        BY <1>3, <3>1, <4>2 DEF DueStays
      <4> QED
        BY <2>1, <4>3, Lessens
    <3> QED
      BY <1>15, <3>2, <3>3 DEF UnmarshalNew, InsertProxy, RemoveProxy, FinalRelease
  <2> QED
    BY <2>2, <2>3
<1>16. ASSUME (\E p \in Proxies : ReleaseProxy(p)) \/ ShutdownEnd \/ UNCHANGED vars PROVE Promised
  <2>1. UNCHANGED <<stubIds, nextId, raced, open>>
    BY <1>16 DEF ReleaseProxy, ShutdownEnd, vars, ownerVars
  <2>2. OwedStays
    BY <1>1, <1>16, RestingOwes, DueIsOwed DEF ReleaseProxy, ShutdownEnd, vars
  <2> QED
    BY <2>1, <2>2, StaysOwed
<1>17. ASSUME Disconnect PROVE Promised
  <2>1. open /\ open' = FALSE /\ UNCHANGED <<stubIds, nextId, raced>>
    BY <1>17 DEF Disconnect, ownerVars
  <2>2. \A j \in Ids : SameFate(j) /\ Referred(j)' = FALSE
    BY <2>1 DEF SameFate, Fate, Referred
  <2>3. refers' = [j \in Ids |-> FALSE]
    BY <2>2 DEF refers
  <2>4. Refs!Close
    BY <2>1, <2>2, <2>3, FatesStay, CloseIs
  <2> QED
    BY <2>4 DEF Promised, Refs!Next
<1> QED
  BY <1>5, <1>6, <1>7, <1>8, <1>9, <1>10, <1>11, <1>12, <1>13, <1>14, <1>15, <1>16, <1>17 DEF Next, Serve, Use

LEMMA PromiseStarts == Init => Refs!Init
<1> SUFFICES ASSUME Init PROVE Refs!Init
  OBVIOUS
<1>1. nextId = 1 /\ \A i \in Ids : i >= nextId /\ Owed(i) = 0
  BY NothingAtFirst, DueParts
<1>2. \A i \in Ids : Fate(i) = "none" /\ Referred(i) = FALSE
  BY <1>1 DEF Fate, Referred
<1>3. fates = [i \in Ids |-> "none"] /\ refers = [i \in Ids |-> FALSE] /\ open = TRUE
  BY <1>2 DEF fates, refers, Init
<1> QED
  BY <1>3, InitIs

\* Every step of the managers is one that RemoteRefs allows, or none of its: a stub
\* that another process refers to is withdrawn by nobody while the channel is open, an
\* id is given out once, and what is lost is lost by the two ways that RemoteRefs
\* names (WireStub.cpp 44-59, 118-125; StdObjectManager.cpp 394-406, 438-514).
THEOREM ManagersImplementRemoteRefs == Spec => RemoteRefsSpec
<1>1. Init => Refs!Init
  BY PromiseStarts
<1>2. IInv /\ IInv' /\ [Next]_vars => [Refs!Next]_Refs!vars
  BY PromiseKept DEF Promised
<1>3. Spec => []IInv
  BY AccountsAreKept
<1> QED
  BY <1>1, <1>2, <1>3, PTL DEF Spec, RemoteRefsSpec, Refs!Spec

-----------------------------------------------------------------------------
\* The parts of OOCore, side by side.

ShimsProofs == INSTANCE SafeShimsProofs WITH Proxies <- ShimProxies, late <- closed

\* The steps of the shims that are proved about are those of the shims that run.
LEMMA SameShims ==
    ASSUME NEW t
    PROVE  /\ \A m : Shims!Pass(t, m) <=> ShimsProofs!Pass(t, m)
           /\ Shims!Take(t) <=> ShimsProofs!Take(t)
           /\ Shims!Drop(t) <=> ShimsProofs!Drop(t)
           /\ Shims!CreateWireStub(t) <=> ShimsProofs!CreateWireStub(t)
           /\ Shims!WireStubEnds(t) <=> ShimsProofs!WireStubEnds(t)
           /\ Shims!find(t) <=> ShimsProofs!find(t)
           /\ Shims!AddRef_found(t) <=> ShimsProofs!AddRef_found(t)
           /\ Shims!new_stub(t) <=> ShimsProofs!new_stub(t)
           /\ Shims!add2(t) <=> ShimsProofs!add2(t)
           /\ Shims!bind(t) <=> ShimsProofs!bind(t)
           /\ Shims!add1(t) <=> ShimsProofs!add1(t)
           /\ Shims!AddRef_listed(t) <=> ShimsProofs!AddRef_listed(t)
           /\ Shims!new_proxy(t) <=> ShimsProofs!new_proxy(t)
           /\ Shims!Pin(t) <=> ShimsProofs!Pin(t)
           /\ Shims!release_shim(t) <=> ShimsProofs!release_shim(t)
           /\ Shims!release(t) <=> ShimsProofs!release(t)
           /\ Shims!Internal_Release(t) <=> ShimsProofs!Internal_Release(t)
           /\ Shims!Destruct_proxy(t) <=> ShimsProofs!Destruct_proxy(t)
           /\ Shims!release_stub(t) <=> ShimsProofs!release_stub(t)
           /\ Shims!release_pin(t) <=> ShimsProofs!release_pin(t)
           /\ Shims!Destruct_stub(t) <=> ShimsProofs!Destruct_stub(t)
           /\ Shims!Unpin_proxy(t) <=> ShimsProofs!Unpin_proxy(t)
<1> USE DEF Shims!Op, ShimsProofs!Op, Shims!Now, ShimsProofs!Now, Shims!Arg, ShimsProofs!Arg, Shims!Then,
         ShimsProofs!Then, Shims!Begins, ShimsProofs!Begins, Shims!Hold, ShimsProofs!Hold, Shims!Object,
         ShimsProofs!Object, Shims!Nothing, ShimsProofs!Nothing, Shims!ListedStubs,
         ShimsProofs!ListedStubs, Shims!ListedFor, ShimsProofs!ListedFor, Shims!Sought,
         ShimsProofs!Sought, Shims!NewProxy, ShimsProofs!NewProxy, Shims!NoStub, ShimsProofs!NoStub,
         Shims!NoProxy, ShimsProofs!NoProxy
<1>0. \A m : Shims!Pass(t, m) <=> ShimsProofs!Pass(t, m)
  BY DEF Shims!Pass, ShimsProofs!Pass
<1>1. Shims!Take(t) <=> ShimsProofs!Take(t)
  BY DEF Shims!Take, ShimsProofs!Take
<1>2. Shims!Drop(t) <=> ShimsProofs!Drop(t)
  BY DEF Shims!Drop, ShimsProofs!Drop
<1>3. Shims!CreateWireStub(t) <=> ShimsProofs!CreateWireStub(t)
  BY DEF Shims!CreateWireStub, ShimsProofs!CreateWireStub
<1>4. Shims!WireStubEnds(t) <=> ShimsProofs!WireStubEnds(t)
  BY DEF Shims!WireStubEnds, ShimsProofs!WireStubEnds
<1>5. Shims!find(t) <=> ShimsProofs!find(t)
  BY DEF Shims!find, ShimsProofs!find
<1>6. Shims!AddRef_found(t) <=> ShimsProofs!AddRef_found(t)
  BY DEF Shims!AddRef_found, ShimsProofs!AddRef_found
<1>7. Shims!new_stub(t) <=> ShimsProofs!new_stub(t)
  BY DEF Shims!new_stub, ShimsProofs!new_stub
<1>8. Shims!add2(t) <=> ShimsProofs!add2(t)
  BY DEF Shims!add2, ShimsProofs!add2
<1>9. Shims!bind(t) <=> ShimsProofs!bind(t)
  BY DEF Shims!bind, ShimsProofs!bind
<1>10. Shims!add1(t) <=> ShimsProofs!add1(t)
  BY DEF Shims!add1, ShimsProofs!add1
<1>11. Shims!AddRef_listed(t) <=> ShimsProofs!AddRef_listed(t)
  BY DEF Shims!AddRef_listed, ShimsProofs!AddRef_listed
<1>12. Shims!new_proxy(t) <=> ShimsProofs!new_proxy(t)
  BY DEF Shims!new_proxy, ShimsProofs!new_proxy
<1>13. Shims!Pin(t) <=> ShimsProofs!Pin(t)
  BY DEF Shims!Pin, ShimsProofs!Pin
<1>14. Shims!release_shim(t) <=> ShimsProofs!release_shim(t)
  BY DEF Shims!release_shim, ShimsProofs!release_shim
<1>15. Shims!release(t) <=> ShimsProofs!release(t)
  BY DEF Shims!release, ShimsProofs!release
<1>16. Shims!Internal_Release(t) <=> ShimsProofs!Internal_Release(t)
  BY DEF Shims!Internal_Release, ShimsProofs!Internal_Release
<1>17. Shims!Destruct_proxy(t) <=> ShimsProofs!Destruct_proxy(t)
  BY DEF Shims!Destruct_proxy, ShimsProofs!Destruct_proxy
<1>18. Shims!release_stub(t) <=> ShimsProofs!release_stub(t)
  BY DEF Shims!release_stub, ShimsProofs!release_stub
<1>19. Shims!release_pin(t) <=> ShimsProofs!release_pin(t)
  BY DEF Shims!release_pin, ShimsProofs!release_pin
<1>20. Shims!Destruct_stub(t) <=> ShimsProofs!Destruct_stub(t)
  BY DEF Shims!Destruct_stub, ShimsProofs!Destruct_stub
<1>21. Shims!Unpin_proxy(t) <=> ShimsProofs!Unpin_proxy(t)
  BY DEF Shims!Unpin_proxy, ShimsProofs!Unpin_proxy
<1> QED
  BY <1>0, <1>1, <1>2, <1>3, <1>4, <1>5, <1>6, <1>7, <1>8, <1>9, <1>10, <1>11,
     <1>12, <1>13, <1>14, <1>15, <1>16, <1>17, <1>18, <1>19, <1>20, <1>21

\* So is what is said of them.
LEMMA ShimsSame == ShimsProofs!ShimsAreOne => Shims!ShimsAreOne
<1>1. ShimsProofs!OneIdentity => Shims!OneIdentity
  BY DEF ShimsProofs!OneIdentity, Shims!OneIdentity, ShimsProofs!Hold, Shims!Hold,
         ShimsProofs!Object, Shims!Object, ShimsProofs!Nothing, Shims!Nothing
<1>2. ShimsProofs!NothingDangles => Shims!NothingDangles
  BY DEF ShimsProofs!NothingDangles, Shims!NothingDangles, ShimsProofs!Hold, Shims!Hold,
         ShimsProofs!Object, Shims!Object, ShimsProofs!Nothing, Shims!Nothing
<1>3. ShimsProofs!NothingLeaks => Shims!NothingLeaks
  <2> USE DEF ShimsProofs!Hold, Shims!Hold, ShimsProofs!Object, Shims!Object
  <2> SUFFICES ASSUME ShimsProofs!NothingLeaks, ~closed, \A t \in Threads : todo[t] = <<>>
               PROVE  Shims!NothingLeaks
    BY DEF Shims!NothingLeaks
  <2>0. \A S : ShimsProofs!Cardinality(S) = Shims!Cardinality(S)
    BY DEF ShimsProofs!Cardinality, Shims!Cardinality
  <2>1. object = 1 + Shims!Cardinality({t \in Threads : Shims!Hold(t) = Shims!Object})
                   + (IF \E t \in Threads : Shims!Hold(t) \in ShimProxies THEN 1 ELSE 0)
    BY <2>0 DEF ShimsProofs!NothingLeaks
  <2>2. \A p \in ShimProxies : proxies[p].live => \E t \in Threads : Shims!Hold(t) = p \/ wired[t] = p
    BY DEF ShimsProofs!NothingLeaks
  <2>3. \A s \in Stubs : stubs[s].live => \E p \in ShimProxies : proxies[p].live /\ proxies[p].shim = s
    BY DEF ShimsProofs!NothingLeaks
  <2> QED
    BY <2>1, <2>2, <2>3 DEF Shims!NothingLeaks
<1> QED
  BY <1>1, <1>2, <1>3 DEF ShimsProofs!ShimsAreOne, Shims!ShimsAreOne

\* Nothing but the shims moves what is theirs.
LEMMA ShimsAlone == LibrarySpec => ShimsProofs!Spec
<1>1. LibraryInit => ShimsProofs!Init
  BY DEF LibraryInit, Shims!Init, ShimsProofs!Init, Shims!NoStub, ShimsProofs!NoStub, Shims!NoProxy, ShimsProofs!NoProxy,
         Shims!Nothing, ShimsProofs!Nothing
<1>2. [LibraryNext]_<<part, vars, callsVars, safeVars, shimsVars, strsVars, castsVars, formsVars, numsVars>>
      => [ShimsProofs!Next]_(ShimsProofs!vars)
  <2>1. Shims!Next => ShimsProofs!Next
    BY SameShims DEF Shims!Next, ShimsProofs!Next
  <2> QED
    BY <2>1 DEF LibraryNext, shimsVars, ShimsProofs!vars
<1> QED
  BY <1>1, <1>2, PTL DEF LibrarySpec, ShimsProofs!Spec

\* Whatever runs beside them, an object handed between modules has one shim for each
\* module that is handed it, comes home as itself, outlives every reference and pin
\* to it or to a shim, and nothing is kept that nobody holds (safe_ps.h 35-496, 653-687;
\* Safe.cpp 31-195; safe.inl 78-214).
THEOREM LibraryShims == LibrarySpec => []ShimsAreOne
<1>1. ShimsProofs!ShimAssumption
  BY ShimAssumption DEF ShimsProofs!ShimAssumption
<1>2. ShimsProofs!Spec => []ShimsProofs!ShimsAreOne
  BY <1>1, ShimsProofs!ObjectsAndShimsAreOne
<1>3. ShimsProofs!ShimsAreOne => ShimsAreOne
  BY ShimsSame DEF ShimsAreOne
<1> QED
  BY <1>2, <1>3, ShimsAlone, PTL

\* Nothing but the managers moves what is theirs.
LEMMA ManagersAlone == LibrarySpec => Spec
<1>1. LibraryInit => Init
  BY DEF LibraryInit
<1>2. [LibraryNext]_<<part, vars, callsVars, safeVars, shimsVars, strsVars, castsVars, formsVars, numsVars>>
      => [Next]_vars
  BY DEF LibraryNext
<1> QED
  BY <1>1, <1>2, PTL DEF LibrarySpec, Spec

\* Whatever runs beside them, the managers lose no reference to a stub and remove none
\* that is referred to, an object has one stub and a stub one proxy, and they keep
\* the promise of RemoteRefs (WireStub.cpp 44-125; StdObjectManager.cpp 94-120, 394-587).
THEOREM LibraryReferences == LibrarySpec => []ReferencesAreKept /\ RemoteRefsSpec
  BY ManagersAlone, ReferencesAreAlwaysKept, ManagersImplementRemoteRefs, PTL

=============================================================================
