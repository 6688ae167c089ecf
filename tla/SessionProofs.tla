----------------------------- MODULE SessionProofs -----------------------------
(***************************************************************************)
(* The safety properties of sessions, for any number of threads and calls, *)
(* and how what a process holds is taken down: its compartments, its       *)
(* singletons and its services, for any of them, peers and bounds.         *)
(***************************************************************************)
EXTENDS MCSession, SequenceTheorems, FiniteSetTheorems, TLAPS

\* The four invariants of a session are inductive together.
IInv == TypeOK /\ StartStopExclusive /\ CountMatchesState /\ SessionIsOwned

Busy(t) == InStart(t) \/ InStop(t)

\* Waking waiters moves nobody into or out of start(), stop(), an initialised
\* place or the head of term(), other than a woken term() itself.
LEMMA NotifiedPlace ==
    ASSUME NEW spot \in Places
    PROVE  /\ Notified(spot) \in Places
           /\ Notified(spot) \in {"connect", "register", "cleanup", "join"} =>
                Notified(spot) = spot
           /\ spot \in {"in", "term"} => Notified(spot) = spot
  BY DEF Notified, Places

LEMMA Initially == Init => IInv
  BY LifecycleAssumption
     DEF Init, IInv, TypeOK, States, Places, StartStopExclusive, InStart, InStop,
         CountMatchesState, SessionIsOwned

\* A broadcast or a signal by t leaves every other thread where it was, or
\* moves it from a wait to the head of its loop.
LEMMA BroadcastEffect ==
    ASSUME TypeOK, NEW t \in Threads, NEW spot \in Places, Broadcast(t, spot)
    PROVE  /\ pc' \in [Threads -> Places]
           /\ pc'[t] = spot
           /\ \A u \in Threads \ {t} : pc'[u] = Notified(pc[u])
  BY NotifiedPlace DEF Broadcast, TypeOK

LEMMA SignalEffect ==
    ASSUME TypeOK, NEW t \in Threads, NEW spot \in Places, Signal(t, spot),
           ~Waiting(t)
    PROVE  /\ pc' \in [Threads -> Places]
           /\ pc'[t] = spot
           /\ \A u \in Threads \ {t} : pc'[u] \in {pc[u], Notified(pc[u])}
<1>1. CASE /\ \A u \in Threads : ~Waiting(u)
           /\ pc' = [pc EXCEPT ![t] = spot]
  BY <1>1 DEF TypeOK
<1>2. CASE \E u \in Threads :
             /\ Waiting(u)
             /\ pc' = [pc EXCEPT ![t] = spot, ![u] = Notified(@)]
  <2>1. PICK u \in Threads :
             /\ Waiting(u)
             /\ pc' = [pc EXCEPT ![t] = spot, ![u] = Notified(@)]
    BY <1>2
  <2>2. u # t
    BY <2>1
  <2> QED
    BY <2>1, <2>2, NotifiedPlace DEF TypeOK
<1> QED
  BY <1>1, <1>2 DEF Signal

\* A failed start() hands the state back as it found it.
LEMMA FailStartPreserves ==
    ASSUME IInv, NEW t \in Threads, InStart(t), FailStart(t)
    PROVE  IInv'
<1>1. ~Waiting(t) /\ "term" \in Places
  BY DEF InStart, Waiting, Places
<1>2. /\ pc' \in [Threads -> Places]
      /\ pc'[t] = "term"
      /\ \A u \in Threads \ {t} : pc'[u] \in {pc[u], Notified(pc[u])}
  BY <1>1, SignalEffect DEF IInv, FailStart
<1>3. initState = "Starting" /\ \A u \in Threads \ {t} : ~Busy(u)
  BY DEF IInv, StartStopExclusive, Busy
<1>4. \A u \in Threads : ~Busy(u)'
  BY <1>2, <1>3, NotifiedPlace DEF Busy, InStart, InStop, IInv, TypeOK
<1>5. TypeOK'
  BY <1>2 DEF IInv, TypeOK, FailStart, States
<1>6. StartStopExclusive'
  BY <1>4 DEF StartStopExclusive, Busy
<1>7. CountMatchesState' /\ SessionIsOwned'
  BY <1>3 DEF IInv, CountMatchesState, SessionIsOwned, FailStart
<1> QED
  BY <1>5, <1>6, <1>7 DEF IInv

LEMMA RegisterPreserves ==
    ASSUME IInv, NEW t \in Threads, Register(t)
    PROVE  IInv'
<1>1. "in" \in Places /\ Broadcast(t, "in") /\ InStart(t)
  BY DEF Register, Places, InStart
<1>2. /\ pc' \in [Threads -> Places]
      /\ pc'[t] = "in"
      /\ \A u \in Threads \ {t} : pc'[u] = Notified(pc[u])
  BY <1>1, BroadcastEffect DEF IInv
<1>3. \A u \in Threads \ {t} : ~Busy(u)
  BY <1>1 DEF IInv, StartStopExclusive, Busy
<1>4. \A u \in Threads : ~Busy(u)'
  BY <1>2, <1>3, NotifiedPlace DEF Busy, InStart, InStop, IInv, TypeOK
<1>5. TypeOK'
  BY <1>2 DEF IInv, TypeOK, Register, States
<1>6. StartStopExclusive'
  BY <1>4 DEF StartStopExclusive, Busy
<1>7. CountMatchesState' /\ SessionIsOwned'
  BY <1>2 DEF IInv, TypeOK, CountMatchesState, SessionIsOwned, Register
<1> QED
  BY <1>5, <1>6, <1>7 DEF IInv

LEMMA StopEndsPreserves ==
    ASSUME IInv, NEW t \in Threads, StopEnds(t)
    PROVE  IInv'
<1>1. "term" \in Places /\ Broadcast(t, "term") /\ InStop(t)
  BY DEF StopEnds, Places, InStop
<1>2. /\ pc' \in [Threads -> Places]
      /\ pc'[t] = "term"
      /\ \A u \in Threads \ {t} : pc'[u] = Notified(pc[u])
  BY <1>1, BroadcastEffect DEF IInv
<1>3. initState = "Stopping" /\ \A u \in Threads \ {t} : ~Busy(u)
  BY <1>1 DEF IInv, StartStopExclusive, Busy
<1>4. \A u \in Threads : ~Busy(u)'
  BY <1>2, <1>3, NotifiedPlace DEF Busy, InStart, InStop, IInv, TypeOK
<1>5. TypeOK'
  BY <1>2 DEF IInv, TypeOK, StopEnds, States
<1>6. StartStopExclusive'
  BY <1>4 DEF StartStopExclusive, Busy
<1>7. CountMatchesState' /\ SessionIsOwned'
  BY <1>3 DEF IInv, CountMatchesState, SessionIsOwned, StopEnds
<1> QED
  BY <1>5, <1>6, <1>7 DEF IInv

\* Every step preserves the invariant.
LEMMA Inductive == IInv /\ [Next]_vars => IInv'
<1> SUFFICES ASSUME IInv, [Next]_vars
             PROVE  IInv'
  OBVIOUS
<1> USE DEF IInv, TypeOK, States, Places, StartStopExclusive, InStart, InStop,
            CountMatchesState, SessionIsOwned
<1>1. ASSUME NEW t \in Threads, Initialize(t) PROVE IInv'
  BY <1>1, LifecycleAssumption DEF Initialize
<1>2. ASSUME NEW t \in Threads, Uninitialize(t) PROVE IInv'
  BY <1>2 DEF Uninitialize
<1>3. ASSUME NEW t \in Threads, InitStarts(t) PROVE IInv'
  BY <1>3 DEF InitStarts
<1>4. ASSUME NEW t \in Threads, InitWaits(t) PROVE IInv'
  BY <1>4 DEF InitWaits
<1>5. ASSUME NEW t \in Threads, InitJoins(t) PROVE IInv'
  BY <1>5 DEF InitJoins
<1>6. ASSUME NEW t \in Threads, Connect(t) PROVE IInv'
  BY <1>6 DEF Connect
<1>7. ASSUME NEW t \in Threads, ConnectFails(t) PROVE IInv'
  BY <1>7, FailStartPreserves DEF ConnectFails
<1>8. ASSUME NEW t \in Threads, Register(t) PROVE IInv'
  BY <1>8, RegisterPreserves
<1>9. ASSUME NEW t \in Threads, RegisterFails(t) PROVE IInv'
  BY <1>9, FailStartPreserves DEF RegisterFails
<1>10. ASSUME NEW t \in Threads, TermStops(t) PROVE IInv'
  BY <1>10 DEF TermStops
<1>11. ASSUME NEW t \in Threads, TermWaits(t) PROVE IInv'
  BY <1>11 DEF TermWaits
<1>12. ASSUME NEW t \in Threads, TermReturns(t) PROVE IInv'
  BY <1>12 DEF TermReturns
<1>13. ASSUME NEW t \in Threads, Cleanup(t) PROVE IInv'
  BY <1>13 DEF Cleanup
<1>14. ASSUME NEW t \in Threads, JoinTimesOut(t) PROVE IInv'
  BY <1>14 DEF JoinTimesOut
<1>15. ASSUME NEW t \in Threads, StopEnds(t) PROVE IInv'
  BY <1>15, StopEndsPreserves
<1>16. CASE HangUp
  BY <1>16 DEF HangUp
<1>17. CASE WorkerExits
  BY <1>17 DEF WorkerExits, ClosedQueues
<1>18. CASE UNCHANGED vars
  BY <1>18 DEF vars
<1> QED
  BY <1>1, <1>2, <1>3, <1>4, <1>5, <1>6, <1>7, <1>8, <1>9, <1>10, <1>11, <1>12,
     <1>13, <1>14, <1>15, <1>16, <1>17, <1>18 DEF Next, ThreadStep

THEOREM Invariance == Spec => []IInv
  BY Initially, Inductive, PTL DEF Spec

\* m_init_state, the count and the thread places stay in their types.
THEOREM LifecycleTypes == Spec => []TypeOK
  BY Invariance, PTL DEF IInv

\* start() and stop() never overlap, with each other or with themselves.
THEOREM StartAndStopAreExclusive == Spec => []StartStopExclusive
  BY Invariance, PTL DEF IInv

\* The session is up exactly while it is counted, so term() never spins.
THEOREM CountIsTheState == Spec => []CountMatchesState
  BY Invariance, PTL DEF IInv

\* A session that is up has a thread that will stop it.
THEOREM SessionAlwaysOwned == Spec => []SessionIsOwned
  BY Invariance, PTL DEF IInv


-----------------------------------------------------------------------------
\* The compartments: what their channels, tables and threads are of.
AllEnds == Ends \cup {Compts!Own(id) : id \in Compts!Ids}
Chans == [in : Compts!Ids, end : AllEnds, connected : BOOLEAN]
Listing == [end : AllEnds, ch : Nat, open : BOOLEAN]
Making == [in : Compts!Ids, end : AllEnds]
Notices == [of : AllEnds \cup {<<e[1], 0>> : e \in Ends} \cup {Nobody}, left : SUBSET Compts!Ids]

Fits(in, end) == in <= made /\ (Compts!IsOwn(end) => end[2] <= made) /\ end # Compts!Own(in)

ComptTypes ==
    /\ made \in Compts!Ids /\ m_mapCompartments \subseteq 0..made
    /\ channels \in Seq(Chans) /\ Len(channels) <= MaxChannels
    /\ tables \in [Compts!Ids -> SUBSET Listing]
    /\ runs \in [Makers -> Seq(0..made)] /\ \A t \in Makers : runs[t] # <<>>
    /\ makes \in [Makers -> Making \cup {Nobody}]
    /\ reader \in Notices
    /\ stop \in {"runs", "shutdown", "remove", "channels", "compartments"}
    /\ leaked \subseteq DOMAIN channels
    /\ \A i \in DOMAIN channels : Fits(channels[i].in, channels[i].end)
    /\ \A t \in Makers : makes[t] # Nobody => Fits(makes[t].in, makes[t].end)

\* The compartments are shut down from the latest to the first, and taken off the
\* session's list as they are; those from k on were made since.
AtShutdown(n, k) ==
    /\ stops = [i \in 1..n |-> n - i]
    /\ m_mapCompartments = (IF stop \in {"shutdown", "remove"} THEN 0..n - 1 ELSE 0..n - 2) \cup k..made
    /\ stop # "shutdown" => n > 0

InTurns == IF stop = "runs" THEN m_mapCompartments = 0..made /\ stops = <<>>
           ELSE \E k \in 1..made + 1 : \E n \in 0..k : AtShutdown(n, k)

\* An entry is of a channel of its table, that has its end, and no two are to one end.
Unique == \A c \in Compts!Ids : \A e, f \in tables[c] : e.end = f.end => e = f
Entered == \A c \in Compts!Ids : \A e \in tables[c] :
               e.ch \in DOMAIN channels /\ channels[e.ch].in = c /\ channels[e.ch].end = e.end

\* A channel that is connected is in its table, unless it is one that leaks.
Found == \A ch \in DOMAIN channels \ leaked :
             channels[ch].connected => \E e \in tables[channels[ch].in] : e.ch = ch

\* Where the shutdown has been, the entries left are of channels that leak, or are
\* connected no more.
Lost(e) == channels[e.ch].connected => e.ch \in leaked
SweptClean == \A c \in Compts!Ids : \A e \in tables[c] : Compts!Swept(c, e.end) => Lost(e)

ComptInv == ComptTypes /\ InTurns /\ Unique /\ Entered /\ Found /\ SweptClean

-----------------------------------------------------------------------------
LEMMA IdsAre ==
    /\ Compts!Ids = 0..MaxId /\ MaxId \in Nat /\ MaxChannels \in Nat
    /\ \A id : Compts!Own(id) = <<0, id>> /\ Compts!IsOwn(Compts!Own(id)) /\ Compts!Own(id)[2] = id
    /\ \A e \in Ends : ~Compts!IsOwn(e)
    /\ \A e \in AllEnds : Compts!IsOwn(e) => e[2] \in Compts!Ids /\ e = Compts!Own(e[2])
<1>1. \A id : Compts!Own(id) = <<0, id>> /\ Compts!IsOwn(Compts!Own(id)) /\ Compts!Own(id)[2] = id
  BY DEF Compts!Own, Compts!IsOwn
<1>2. \A e \in Ends : ~Compts!IsOwn(e)
  BY SessionAssumption DEF Ends, Compts!IsOwn
<1>3. ASSUME NEW e \in AllEnds, Compts!IsOwn(e)
      PROVE  e[2] \in Compts!Ids /\ e = Compts!Own(e[2])
  <2>1. PICK id \in Compts!Ids : e = Compts!Own(id)
    BY <1>2, <1>3 DEF AllEnds
  <2> QED
    BY <1>1, <2>1
<1> QED
  BY <1>1, <1>2, <1>3, SessionAssumption DEF Compts!Ids

LEMMA CurrentIs ==
    ASSUME ComptInv, NEW t \in Makers
    PROVE  Compts!Current(t) \in 0..made /\ Compts!Current(t) \in Compts!Ids
<1>1. runs[t] \in Seq(0..made) /\ runs[t] # <<>>
  BY DEF ComptInv, ComptTypes
<1>2. Len(runs[t]) \in 1..Len(runs[t])
  BY <1>1, EmptySeq
<1>3. runs[t][Len(runs[t])] \in 0..made
  BY <1>1, <1>2, ElementOfSeq
<1> QED
  BY <1>3, IdsAre DEF Compts!Current, ComptInv, ComptTypes

\* Channels are disconnected.
LEMMA Disconnects ==
    ASSUME channels \in Seq(Chans), NEW S, Compts!Disconnect(S)
    PROVE  /\ channels' \in Seq(Chans) /\ Len(channels') = Len(channels)
           /\ DOMAIN channels' = DOMAIN channels
           /\ \A i \in DOMAIN channels :
                  /\ channels'[i].in = channels[i].in /\ channels'[i].end = channels[i].end
                  /\ channels'[i].connected <=> channels[i].connected /\ i \notin S
<1>1. PICK n \in Nat : n = Len(channels) /\ channels \in [1..n -> Chans] /\ DOMAIN channels = 1..n
  BY LenProperties
<1>2. channels' = [i \in 1..n |-> IF i \in S THEN [channels[i] EXCEPT !.connected = FALSE]
                                  ELSE channels[i]]
  BY <1>1 DEF Compts!Disconnect
<1>3. ASSUME NEW i \in 1..n
      PROVE  /\ channels'[i] \in Chans
             /\ channels'[i].in = channels[i].in /\ channels'[i].end = channels[i].end
             /\ channels'[i].connected <=> channels[i].connected /\ i \notin S
  <2>1. channels[i] \in Chans
    BY <1>1
  <2> QED
    BY <1>2, <2>1 DEF Chans
<1>4. channels' \in [1..n -> Chans]
  BY <1>2, <1>3
<1>5. channels' \in Seq(Chans)
  BY <1>1, <1>4, SeqDef
<1>6. Len(channels') = n /\ DOMAIN channels' = 1..n
  BY <1>1, <1>4, <1>5, LenProperties
<1> QED
  BY <1>1, <1>3, <1>5, <1>6

\* What happens to the channels and the tables when none is made: channels are
\* disconnected, and entries leave whose channels are then disconnected or leak.
Fewer ==
    /\ channels' \in Seq(Chans) /\ Len(channels') = Len(channels) /\ DOMAIN channels' = DOMAIN channels
    /\ \A i \in DOMAIN channels :
           /\ channels'[i].in = channels[i].in /\ channels'[i].end = channels[i].end
           /\ channels'[i].connected => channels[i].connected
    /\ tables' \in [Compts!Ids -> SUBSET Listing]
    /\ \A c \in Compts!Ids : tables'[c] \subseteq tables[c]
    /\ \A c \in Compts!Ids : \A e \in tables[c] \ tables'[c] : Lost(e)'
    /\ leaked \subseteq leaked' /\ leaked' \subseteq DOMAIN channels

\* Swept as before, or emptied of what could be connected.
Cleaned == \A c \in Compts!Ids : \A e \in tables'[c] :
               Compts!Swept(c, e.end)' => Compts!Swept(c, e.end) \/ Lost(e)'

LEMMA Shrinks ==
    ASSUME ComptInv, Fewer, Cleaned
    PROVE  Unique' /\ Entered' /\ Found' /\ SweptClean'
<1>1. Unique'
  BY DEF ComptInv, Unique, Fewer
<1>2. Entered'
  BY DEF ComptInv, Entered, Fewer
<1>3. Found'
  <2> SUFFICES ASSUME NEW ch \in DOMAIN channels, ch \notin leaked', channels'[ch].connected
               PROVE  \E e \in tables'[channels'[ch].in] : e.ch = ch
    BY DEF Found, Fewer
  <2>1. ch \notin leaked /\ channels[ch].connected /\ channels'[ch].in = channels[ch].in
    BY DEF Fewer
  <2>2. PICK e \in tables[channels[ch].in] : e.ch = ch
    BY <2>1 DEF ComptInv, Found
  <2>3. channels[ch].in \in Compts!Ids
    <3>1. channels[ch] \in Chans
      BY ElementOfSeq, LenProperties DEF ComptInv, ComptTypes
    <3> QED
      BY <3>1 DEF Chans
  <2>4. ~Lost(e)'
    BY <2>2 DEF Lost
  <2> QED
    BY <2>1, <2>2, <2>3, <2>4 DEF Fewer
<1>4. SweptClean'
  <2> SUFFICES ASSUME NEW c \in Compts!Ids, NEW e \in tables'[c], Compts!Swept(c, e.end)'
               PROVE  Lost(e)'
    BY DEF SweptClean
  <2>1. CASE Compts!Swept(c, e.end)
    <3>1. e \in tables[c] /\ e.ch \in DOMAIN channels
      BY DEF Fewer, ComptInv, Entered
    <3>2. Lost(e)
      BY <2>1, <3>1 DEF ComptInv, SweptClean
    <3> QED
      BY <3>1, <3>2 DEF Fewer, Lost
  <2> QED
    BY <2>1 DEF Cleaned
<1> QED
  BY <1>1, <1>2, <1>3, <1>4

LEMMA Unswept ==
    ASSUME UNCHANGED <<stops, stop>>, m_mapCompartments \subseteq m_mapCompartments'
    PROVE  \A c, end : Compts!Swept(c, end)' => Compts!Swept(c, end)
  BY DEF Compts!Swept

\* What stays when no channel is touched.
LEMMA Untouched ==
    ASSUME ComptInv, ComptTypes', InTurns', UNCHANGED <<tables, channels, leaked, stops, stop>>,
           m_mapCompartments \subseteq m_mapCompartments'
    PROVE  ComptInv'
<1>1. Fewer /\ Cleaned
  BY Unswept DEF Fewer, Cleaned, ComptInv, ComptTypes
<1> QED
  BY <1>1, Shrinks DEF ComptInv

LEMMA NewCompartment ==
    ASSUME ComptInv, NEW t \in Makers, Compts!create_compartment(t)
    PROVE  ComptInv'
<1> PICK id : id = made + 1
  OBVIOUS
<1>1. /\ made < MaxId /\ made' = id
      /\ m_mapCompartments' = m_mapCompartments \cup {id}
      /\ makes' = [makes EXCEPT ![t] = [in |-> id, end |-> Compts!Own(Compts!Current(t))]]
      /\ UNCHANGED <<tables, channels, runs, reader, stops, stop, leaked>>
  BY DEF Compts!create_compartment
<1>2. made \in 0..MaxId /\ made \in Nat /\ id \in Compts!Ids /\ 0..made \subseteq 0..id
  BY <1>1, IdsAre DEF ComptInv, ComptTypes
<1> PICK m : m = [in |-> id, end |-> Compts!Own(Compts!Current(t))]
  OBVIOUS
<1>3. m \in Making /\ m.in = id /\ m.end = Compts!Own(Compts!Current(t))
  BY <1>2, CurrentIs DEF Making, AllEnds
<1>4. ASSUME NEW in, NEW end, Fits(in, end), in \in Nat, end \in AllEnds PROVE Fits(in, end)'
  <2>1. Compts!IsOwn(end) => end[2] \in Nat
    BY <1>4, IdsAre
  <2> QED
    BY <1>1, <1>2, <1>4, <2>1 DEF Fits
<1>5. Fits(m.in, m.end)'
  BY <1>1, <1>2, <1>3, CurrentIs, IdsAre DEF Fits
<1>6. makes' \in [Makers -> Making \cup {Nobody}]
      /\ \A u \in Makers : makes'[u] = IF u = t THEN m ELSE makes[u]
  BY <1>1, <1>3 DEF ComptInv, ComptTypes
<1>7. \A u \in Makers : makes'[u] # Nobody => Fits(makes[u].in, makes[u].end)'
  <2> SUFFICES ASSUME NEW u \in Makers, makes'[u] # Nobody, NEW w, w = makes'[u]
               PROVE  Fits(w.in, w.end)'
    OBVIOUS
  <2>1. CASE u = t
    BY <1>5, <1>6, <2>1
  <2>2. CASE u # t
    <3>1. w = makes[u] /\ makes[u] \in Making /\ Fits(w.in, w.end)
      BY <1>6, <2>2 DEF ComptInv, ComptTypes
    <3>2. w.in \in Nat /\ w.end \in AllEnds
      BY <3>1, IdsAre DEF Making
    <3> QED
      BY <1>4, <3>1, <3>2
  <2> QED
    BY <2>1, <2>2
<1>8. (\A i \in DOMAIN channels : Fits(channels[i].in, channels[i].end))'
  <2> SUFFICES ASSUME NEW i \in DOMAIN channels', NEW w, w = channels'[i]
               PROVE  Fits(w.in, w.end)'
    OBVIOUS
  <2>1. w = channels[i] /\ channels[i] \in Chans /\ Fits(w.in, w.end)
    BY <1>1, ElementOfSeq, LenProperties DEF ComptInv, ComptTypes
  <2>2. w.in \in Nat /\ w.end \in AllEnds
    BY <2>1, IdsAre DEF Chans
  <2> QED
    BY <1>4, <2>1, <2>2
<1>9. runs' \in [Makers -> Seq(0..made')]
  BY <1>1, <1>2, SeqMonotonic DEF ComptInv, ComptTypes
<1>10. m_mapCompartments' \subseteq 0..id /\ InTurns'
  <2>0. m_mapCompartments \subseteq 0..made /\ id \in 0..id
    BY <1>2, IdsAre DEF ComptInv, ComptTypes
  <2>1. m_mapCompartments' \subseteq 0..id
    BY <1>1, <1>2, <2>0
  <2>2. CASE stop = "runs"
    BY <1>1, <1>2, <2>2 DEF ComptInv, InTurns
  <2>3. CASE stop # "runs"
    <3>1. PICK k \in 1..made + 1 : \E n \in 0..k : AtShutdown(n, k)
      BY <2>3 DEF ComptInv, InTurns
    <3>2. PICK n \in 0..k : AtShutdown(n, k)
      BY <3>1
    <3>3. (k..made) \cup {id} = k..id /\ k \in 1..id + 1
      BY <1>2
    <3>4. AtShutdown(n, k)'
      BY <1>1, <3>2, <3>3 DEF AtShutdown
    <3>5. k \in 1..made' + 1 /\ stop' # "runs"
      BY <1>1, <2>3, <3>3
    <3> QED
      BY <2>1, <3>2, <3>4, <3>5 DEF InTurns
  <2> QED
    BY <2>1, <2>2, <2>3
<1>11. ComptTypes'
  <2>1. made' \in Compts!Ids /\ m_mapCompartments' \subseteq 0..made'
    BY <1>1, <1>2, <1>10
  <2>3. \A u \in Makers : runs'[u] # <<>>
    BY <1>1 DEF ComptInv, ComptTypes
  <2> QED
    BY <1>1, <1>6, <1>7, <1>8, <1>9, <2>1, <2>3 DEF ComptInv, ComptTypes
<1> QED
  BY <1>1, <1>10, <1>11, Untouched

LEMMA NewChannel ==
    ASSUME ComptInv, NEW t \in Makers, NEW end \in AllEnds, Compts!create_channel(t, end)
    PROVE  ComptInv'
<1> PICK c : c = Compts!Current(t)
  OBVIOUS
<1> PICK m : m = [in |-> c, end |-> end]
  OBVIOUS
<1>1. /\ Compts!IsOwn(end) => end[2] \in m_mapCompartments \ {c}
      /\ makes' = [makes EXCEPT ![t] = m]
      /\ UNCHANGED <<m_mapCompartments, made, tables, channels, runs, reader, stops, stop, leaked>>
  BY DEF Compts!create_channel
<1>2. c \in 0..made /\ c \in Compts!Ids /\ made \in Nat
  BY CurrentIs, IdsAre DEF ComptInv, ComptTypes
<1>3. m \in Making /\ m.in = c /\ m.end = end
  BY <1>2 DEF Making
<1>4. Fits(c, end)
  BY <1>1, <1>2, IdsAre DEF Fits, ComptInv, ComptTypes
<1>5. ComptTypes'
  BY <1>1, <1>3, <1>4 DEF ComptInv, ComptTypes, Fits
<1>6. InTurns'
  BY <1>1 DEF ComptInv, InTurns, AtShutdown
<1> QED
  BY <1>1, <1>5, <1>6, Untouched

LEMMA NotMade ==
    ASSUME ComptInv, NEW t \in Makers, Compts!MakeFails(t)
    PROVE  ComptInv'
<1>1. ComptTypes'
  BY DEF Compts!MakeFails, ComptInv, ComptTypes, Fits
<1>2. InTurns'
  BY DEF Compts!MakeFails, ComptInv, InTurns, AtShutdown
<1> QED
  BY <1>1, <1>2, Untouched DEF Compts!MakeFails

\* A thread goes into another compartment, or back, and perhaps begins to make a channel.
LEMMA Entering ==
    ASSUME ComptInv, NEW t \in Makers, NEW s \in Seq(0..made), s # <<>>,
           runs' = [runs EXCEPT ![t] = s],
           NEW m \in Making \cup {Nobody}, m # Nobody => Fits(m.in, m.end),
           makes' = makes \/ makes' = [makes EXCEPT ![t] = m],
           UNCHANGED <<m_mapCompartments, made, tables, channels, reader, stops, stop, leaked>>
    PROVE  ComptInv'
<1>1. ComptTypes'
  BY DEF ComptInv, ComptTypes, Fits
<1>2. InTurns'
  BY DEF ComptInv, InTurns, AtShutdown
<1> QED
  BY <1>1, <1>2, Untouched

LEMMA Shortened ==
    ASSUME NEW S, NEW seq \in Seq(S), NEW n \in Nat, n > 0, n <= Len(seq)
    PROVE  SubSeq(seq, 1, n) \in Seq(S) /\ SubSeq(seq, 1, n) # <<>>
<1>1. \A i \in 1..n : seq[i] \in S
  BY ElementOfSeq, LenProperties
<1>2. SubSeq(seq, 1, n) = [i \in 1..n |-> seq[i]]
  BY LenProperties
<1>3. SubSeq(seq, 1, n) \in Seq(S)
  BY <1>1, <1>2, SeqDef
<1>4. Len(SubSeq(seq, 1, n)) = n
  BY <1>2, <1>3, LenProperties
<1> QED
  BY <1>3, <1>4, EmptySeq

LEMMA Running ==
    ASSUME ComptInv, NEW t \in Makers,
           \/ \E c \in Compts!Ids : Compts!process_request(t, c)
           \/ Compts!compartment_message(t) \/ Compts!Return(t)
    PROVE  ComptInv'
<1>0. runs[t] \in Seq(0..made) /\ runs[t] # <<>> /\ runs \in [Makers -> Seq(0..made)]
      /\ m_mapCompartments \subseteq 0..made
  BY DEF ComptInv, ComptTypes
<1>1. ASSUME NEW c \in Compts!Ids, Compts!process_request(t, c) PROVE ComptInv'
  <2>1. Append(runs[t], c) \in Seq(0..made) /\ Append(runs[t], c) # <<>>
    BY <1>0, <1>1 DEF Compts!process_request
  <2>2. runs' = [runs EXCEPT ![t] = Append(runs[t], c)] /\ makes' = makes
    BY <1>1 DEF Compts!process_request
  <2> QED
    BY <1>1, <2>1, <2>2, Entering DEF Compts!process_request
<1>2. CASE Compts!compartment_message(t)
  <2> PICK b : b = Compts!Current(t)
    OBVIOUS
  <2>1. PICK e \in tables[b] :
           /\ Compts!IsOwn(e.end) /\ runs' = [runs EXCEPT ![t] = Append(runs[t], e.end[2])]
           /\ makes' = makes
              \/ makes' = [makes EXCEPT ![t] = [in |-> e.end[2], end |-> Compts!Own(b)]]
           /\ UNCHANGED <<m_mapCompartments, made, tables, channels, reader, stops, stop, leaked>>
    BY <1>2 DEF Compts!compartment_message
  <2> PICK d : d = e.end[2]
    OBVIOUS
  <2>2. b \in 0..made /\ b \in Compts!Ids /\ made \in Nat
    BY CurrentIs, IdsAre DEF ComptInv, ComptTypes
  <2>3. e \in Listing /\ Fits(b, e.end)
    <3>1. e \in Listing
      BY <2>2 DEF ComptInv, ComptTypes
    <3>2. e.ch \in DOMAIN channels /\ channels[e.ch].in = b /\ channels[e.ch].end = e.end
      BY <2>2 DEF ComptInv, Entered
    <3>3. Fits(channels[e.ch].in, channels[e.ch].end)
      BY <3>2 DEF ComptInv, ComptTypes
    <3> QED
      BY <3>1, <3>2, <3>3
  <2>4. d \in Compts!Ids /\ e.end = Compts!Own(d) /\ d <= made /\ d # b
    <3>1. e.end \in AllEnds /\ Compts!IsOwn(e.end)
      BY <2>1, <2>3 DEF Listing
    <3>2. d \in Compts!Ids /\ e.end = Compts!Own(d)
      BY <3>1, IdsAre
    <3> QED
      BY <2>3, <3>1, <3>2 DEF Fits
  <2> PICK m : m = [in |-> d, end |-> Compts!Own(b)]
    OBVIOUS
  <2>5. m \in Making /\ Fits(m.in, m.end)
    BY <2>2, <2>4, IdsAre DEF Making, AllEnds, Fits
  <2>6. Append(runs[t], d) \in Seq(0..made) /\ Append(runs[t], d) # <<>>
    BY <1>0, <2>4, IdsAre
  <2> QED
    BY <2>1, <2>5, <2>6, Entering
<1>3. CASE Compts!Return(t)
  <2> PICK n \in Nat : n = Len(runs[t])
    BY <1>0, LenProperties
  <2>0. DOMAIN runs[t] = 1..n
    BY <1>0, LenProperties
  <2>1. n > 1 /\ runs' = [runs EXCEPT ![t] = SubSeq(runs[t], 1, n - 1)] /\ makes' = makes
    BY <1>3 DEF Compts!Return
  <2>2. SubSeq(runs[t], 1, n - 1) \in Seq(0..made) /\ SubSeq(runs[t], 1, n - 1) # <<>>
    <3>1. n - 1 \in Nat /\ n - 1 > 0 /\ n - 1 <= Len(runs[t])
      BY <2>1
    <3> QED
      BY <1>0, <3>1, Shortened
  <2> QED
    BY <1>3, <2>1, <2>2, Entering DEF Compts!Return
<1> QED
  BY <1>1, <1>2, <1>3

LEMMA Inserted ==
    ASSUME ComptInv, NEW t \in Makers, Compts!insert(t)
    PROVE  ComptInv'
<1> PICK ch : ch = Len(channels) + 1
  OBVIOUS
<1> PICK c : c = makes[t].in
  OBVIOUS
<1> PICK end : end = makes[t].end
  OBVIOUS
<1> PICK r : r = [in |-> c, end |-> end, connected |-> TRUE]
  OBVIOUS
<1> PICK e : e = [end |-> end, ch |-> ch, open |-> TRUE]
  OBVIOUS
<1>1. /\ makes[t] # Nobody /\ ch <= MaxChannels /\ channels' = Append(channels, r)
      /\ \/ /\ Compts!Entry(c, end) = {} /\ tables' = [tables EXCEPT ![c] = tables[c] \cup {e}]
            /\ leaked' = IF Compts!Swept(c, end) THEN leaked \cup {ch} ELSE leaked
         \/ leaked' = leaked \cup {ch} /\ tables' = tables
      /\ makes' = [makes EXCEPT ![t] = Nobody]
      /\ UNCHANGED <<m_mapCompartments, made, runs, reader, stops, stop>>
  BY DEF Compts!insert
<1>2. makes[t] \in Making /\ Fits(c, end)
  BY <1>1 DEF ComptInv, ComptTypes
<1>3. c \in Compts!Ids /\ end \in AllEnds /\ r \in Chans /\ r.in = c /\ r.end = end
      /\ e.ch = ch /\ e.end = end
  BY <1>2 DEF Making, Chans
<1>4. /\ channels \in Seq(Chans) /\ Len(channels) \in Nat /\ DOMAIN channels = 1..Len(channels)
      /\ ch \in Nat /\ ch \notin DOMAIN channels
  BY LenProperties DEF ComptInv, ComptTypes
<1>5. /\ channels' \in Seq(Chans) /\ Len(channels') = ch /\ DOMAIN channels' = DOMAIN channels \cup {ch}
      /\ \A i \in DOMAIN channels : channels'[i] = channels[i]
      /\ channels'[ch] = r
  <2>1. /\ channels' \in Seq(Chans) /\ Len(channels') = ch
        /\ \A i \in 1..Len(channels) : channels'[i] = channels[i]
        /\ channels'[ch] = r
    BY <1>1, <1>3, <1>4, AppendProperties
  <2>2. DOMAIN channels' = 1..ch
    BY <2>1, LenProperties
  <2> QED
    BY <1>4, <2>1, <2>2
<1>6. leaked \subseteq leaked' /\ leaked' \subseteq leaked \cup {ch} /\ leaked \subseteq DOMAIN channels
  BY <1>1 DEF ComptInv, ComptTypes
<1>7. e \in Listing /\ tables \in [Compts!Ids -> SUBSET Listing]
  BY <1>3, <1>4 DEF Listing, ComptInv, ComptTypes
<1>8. /\ tables' \in [Compts!Ids -> SUBSET Listing]
      /\ \A b \in Compts!Ids : \A f \in tables'[b] :
             f \in tables[b] \/ (b = c /\ f = e /\ Compts!Entry(c, end) = {}
                               /\ (Compts!Swept(c, end) => ch \in leaked'))
      /\ \A b \in Compts!Ids : tables[b] \subseteq tables'[b]
  <2>1. CASE tables' = tables
    BY <1>7, <2>1
  <2>2. CASE /\ Compts!Entry(c, end) = {} /\ tables' = [tables EXCEPT ![c] = tables[c] \cup {e}]
             /\ leaked' = IF Compts!Swept(c, end) THEN leaked \cup {ch} ELSE leaked
    <3>1. \A b \in Compts!Ids : tables'[b] = IF b = c THEN tables[c] \cup {e} ELSE tables[b]
      BY <1>7, <2>2
    <3>2. Compts!Swept(c, end) => ch \in leaked'
      BY <2>2
    <3>3. tables[c] \cup {e} \in SUBSET Listing
      BY <1>3, <1>7
    <3>4. tables' \in [Compts!Ids -> SUBSET Listing]
      BY <1>3, <1>7, <2>2, <3>3
    <3> QED
      BY <2>2, <3>1, <3>2, <3>4
  <2> QED
    BY <1>1, <2>1, <2>2
<1>9. ch \in leaked' \/ e \in tables'[c]
  BY <1>1, <1>3, <1>7
<1>10. ComptTypes'
  <2>1. (\A i \in DOMAIN channels : Fits(channels[i].in, channels[i].end))'
    <3> SUFFICES ASSUME NEW i \in DOMAIN channels', NEW w, w = channels'[i]
                 PROVE  Fits(w.in, w.end)'
      OBVIOUS
    <3>1. CASE i = ch
      BY <1>1, <1>2, <1>3, <1>5, <3>1 DEF Fits
    <3>2. CASE i \in DOMAIN channels
      BY <1>1, <1>5, <3>2 DEF Fits, ComptInv, ComptTypes
    <3> QED
      BY <1>5, <3>1, <3>2
  <2>2. makes' \in [Makers -> Making \cup {Nobody}]
        /\ \A u \in Makers : makes'[u] # Nobody => makes'[u] = makes[u]
    BY <1>1 DEF ComptInv, ComptTypes
  <2>3. (\A u \in Makers : makes[u] # Nobody => Fits(makes[u].in, makes[u].end))'
    BY <1>1, <2>2 DEF ComptInv, ComptTypes, Fits
  <2> QED
    BY <1>1, <1>5, <1>6, <1>8, <2>1, <2>2, <2>3 DEF ComptInv, ComptTypes
<1>11. InTurns'
  BY <1>1 DEF ComptInv, InTurns, AtShutdown
<1>12. Unique'
  <2>1. ASSUME Compts!Entry(c, end) = {}, NEW f \in tables[c] PROVE f.end # e.end
    BY <1>3, <2>1 DEF Compts!Entry
  <2> SUFFICES ASSUME NEW b \in Compts!Ids, NEW f \in tables'[b], NEW g \in tables'[b], f.end = g.end
               PROVE  f = g
    BY DEF Unique
  <2>2. CASE f \in tables[b] /\ g \in tables[b]
    BY <2>2 DEF ComptInv, Unique
  <2>3. f \in tables[b] \/ (b = c /\ f = e /\ Compts!Entry(c, end) = {})
    BY <1>8
  <2>4. g \in tables[b] \/ (b = c /\ g = e /\ Compts!Entry(c, end) = {})
    BY <1>8
  <2> QED
    BY <2>1, <2>2, <2>3, <2>4
<1>13. Entered'
  BY <1>3, <1>5, <1>8 DEF ComptInv, Entered
<1>14. Found'
  <2> SUFFICES ASSUME NEW i \in DOMAIN channels', i \notin leaked', channels'[i].connected
               PROVE  \E f \in tables'[channels'[i].in] : f.ch = i
    BY DEF Found
  <2>1. CASE i = ch
    BY <1>3, <1>5, <1>9, <2>1
  <2>2. CASE i \in DOMAIN channels
    <3>1. channels'[i] = channels[i] /\ i \notin leaked /\ channels[i] \in Chans
      BY <1>4, <1>5, <1>6, <2>2, ElementOfSeq
    <3>2. channels[i].in \in Compts!Ids
      BY <3>1 DEF Chans
    <3> QED
      BY <1>8, <2>2, <3>1, <3>2 DEF ComptInv, Found
  <2> QED
    BY <1>5, <2>1, <2>2
<1>15. SweptClean'
  <2> SUFFICES ASSUME NEW b \in Compts!Ids, NEW f \in tables'[b], Compts!Swept(b, f.end)'
               PROVE  Lost(f)'
    BY DEF SweptClean
  <2>1. Compts!Swept(b, f.end)
    BY <1>1, Unswept
  <2>2. CASE f \in tables[b]
    <3>1. Lost(f) /\ f.ch \in DOMAIN channels
      BY <2>1, <2>2 DEF ComptInv, SweptClean, Entered
    <3> QED
      BY <1>5, <1>6, <3>1 DEF Lost
  <2>3. CASE f = e /\ b = c /\ (Compts!Swept(c, end) => ch \in leaked')
    BY <1>3, <2>1, <2>3 DEF Lost
  <2> QED
    BY <1>8, <2>2, <2>3
<1> QED
  BY <1>10, <1>11, <1>12, <1>13, <1>14, <1>15 DEF ComptInv

LEMMA Lessened ==
    ASSUME ComptInv, NEW S, Compts!Disconnect(S),
           tables' \in [Compts!Ids -> SUBSET Listing],
           \A c \in Compts!Ids : tables'[c] \subseteq tables[c],
           \A c \in Compts!Ids : \A e \in tables[c] \ tables'[c] : e.ch \in S \/ e.ch \in leaked',
           leaked \subseteq leaked', leaked' \subseteq DOMAIN channels
    PROVE  Fewer
<1>1. channels \in Seq(Chans)
  BY DEF ComptInv, ComptTypes
<1>2. /\ channels' \in Seq(Chans) /\ Len(channels') = Len(channels) /\ DOMAIN channels' = DOMAIN channels
      /\ \A i \in DOMAIN channels :
             /\ channels'[i].in = channels[i].in /\ channels'[i].end = channels[i].end
             /\ channels'[i].connected <=> channels[i].connected /\ i \notin S
  BY <1>1, Disconnects
<1>3. ASSUME NEW c \in Compts!Ids, NEW e \in tables[c] \ tables'[c] PROVE Lost(e)'
  <2>1. e.ch \in DOMAIN channels
    BY DEF ComptInv, Entered
  <2> QED
    BY <1>2, <2>1 DEF Lost
<1> QED
  BY <1>2, <1>3 DEF Fewer

LEMMA LessenedTypes ==
    ASSUME ComptInv, Fewer, UNCHANGED <<made, runs, makes>>,
           m_mapCompartments' \subseteq 0..made, reader' \in Notices,
           stop' \in {"runs", "shutdown", "remove", "channels", "compartments"}
    PROVE  ComptTypes'
<1>1. (\A i \in DOMAIN channels : Fits(channels[i].in, channels[i].end))'
  <2> SUFFICES ASSUME NEW i \in DOMAIN channels', NEW w, w = channels'[i]
               PROVE  Fits(w.in, w.end)'
    OBVIOUS
  <2>1. w.in = channels[i].in /\ w.end = channels[i].end /\ Fits(channels[i].in, channels[i].end)
    BY DEF Fewer, ComptInv, ComptTypes
  <2> QED
    BY <2>1 DEF Fits
<1>2. (\A t \in Makers : makes[t] # Nobody => Fits(makes[t].in, makes[t].end))'
  BY DEF ComptInv, ComptTypes, Fits
<1> QED
  BY <1>1, <1>2 DEF ComptInv, ComptTypes, Fewer

\* A step that disconnects, and lets go of what is disconnected or leaks.
LEMMA Lessening ==
    ASSUME ComptInv, Fewer, UNCHANGED <<m_mapCompartments, made, runs, makes, reader, stops, stop>>
    PROVE  ComptInv'
<1>1. ComptTypes'
  BY LessenedTypes DEF ComptInv, ComptTypes
<1>2. InTurns'
  BY DEF ComptInv, InTurns, AtShutdown
<1>3. Cleaned
  BY Unswept DEF Cleaned
<1> QED
  BY <1>1, <1>2, <1>3, Shrinks DEF ComptInv

LEMMA Failing ==
    ASSUME ComptInv, NEW t \in Makers, Compts!SendFails(t) \/ Compts!is_channel_open(t)
    PROVE  ComptInv'
<1>0. tables \in [Compts!Ids -> SUBSET Listing] /\ leaked \subseteq DOMAIN channels
  BY DEF ComptInv, ComptTypes
<1>1. CASE Compts!SendFails(t)
  <2>1. PICK e : Compts!Disconnect({e.ch}) /\ UNCHANGED <<m_mapCompartments, made, tables, runs, makes, reader, stops, stop, leaked>>
    BY <1>1 DEF Compts!SendFails
  <2>2. Fewer
    BY <1>0, <2>1, Lessened
  <2> QED
    BY <2>1, <2>2, Lessening
<1>2. CASE Compts!is_channel_open(t)
  <2> PICK c \in Compts!Ids : c = Compts!Current(t)
    BY CurrentIs
  <2>1. PICK e \in tables[c] :
          /\ tables' = [tables EXCEPT ![c] = tables[c] \ {e}] /\ leaked' = leaked \cup {e.ch}
          /\ UNCHANGED <<m_mapCompartments, made, channels, runs, makes, reader, stops, stop>>
    BY <1>2 DEF Compts!is_channel_open
  <2>2. e.ch \in DOMAIN channels
    BY DEF ComptInv, Entered
  <2>3. \A b \in Compts!Ids : tables'[b] = IF b = c THEN tables[c] \ {e} ELSE tables[b]
    BY <1>0, <2>1
  <2>4. tables' \in [Compts!Ids -> SUBSET Listing]
    BY <1>0, <2>1
  <2>5. Fewer
    BY <1>0, <2>1, <2>2, <2>3, <2>4 DEF Fewer, Lost, ComptInv, ComptTypes
  <2> QED
    BY <2>1, <2>5, Lessening
<1> QED
  BY <1>1, <1>2

\* process_compartment_close takes the channel back from the other compartment's
\* table, and disconnects both.
LEMMA ClosedThere ==
    ASSUME ComptInv, NEW ch \in DOMAIN channels, NEW E, \A e \in E : e.ch = ch, NEW tabs,
           tabs = [tables EXCEPT ![channels[ch].in] = tables[channels[ch].in] \ E],
           Compts!IsOwn(channels[ch].end), Compts!process_compartment_close(ch, tabs),
           leaked' = leaked
    PROVE  Fewer
<1> PICK c : c = channels[ch].in
  OBVIOUS
<1> PICK d : d = channels[ch].end[2]
  OBVIOUS
<1> PICK B : B = Compts!Back(ch)
  OBVIOUS
<1>1. channels[ch] \in Chans /\ Fits(c, channels[ch].end)
  BY ElementOfSeq, LenProperties DEF ComptInv, ComptTypes
<1>2. c \in Compts!Ids /\ d \in Compts!Ids /\ channels[ch].end = Compts!Own(d) /\ d # c
  BY <1>1, IdsAre DEF Chans, Fits
<1>3. tables \in [Compts!Ids -> SUBSET Listing] /\ leaked \subseteq DOMAIN channels
  BY DEF ComptInv, ComptTypes
<1>4. tables' = [tabs EXCEPT ![d] = tabs[d] \ B] /\ Compts!Disconnect(Compts!Closed(ch))
  BY DEF Compts!process_compartment_close
<1>5. \A b \in Compts!Ids : tabs[b] = IF b = c THEN tables[c] \ E ELSE tables[b]
  BY <1>2, <1>3
<1>6. tabs \in [Compts!Ids -> SUBSET Listing]
  BY <1>2, <1>3
<1>7. \A b \in Compts!Ids : tables'[b] = IF b = d THEN tabs[d] \ B ELSE tabs[b]
  BY <1>2, <1>4, <1>6
<1>8. tables' \in [Compts!Ids -> SUBSET Listing]
  BY <1>2, <1>4, <1>6
<1>9. \A b \in Compts!Ids : tables'[b] \subseteq tables[b]
  BY <1>5, <1>7
<1>10. \A b \in Compts!Ids : \A e \in tables[b] \ tables'[b] : e \in B \/ e.ch = ch
  BY <1>5, <1>7
<1>11. \A b \in Compts!Ids : \A e \in tables[b] \ tables'[b] : e.ch \in Compts!Closed(ch)
  BY <1>10 DEF Compts!Closed
<1> QED
  BY <1>3, <1>4, <1>8, <1>9, <1>11, Lessened

LEMMA Releasing ==
    ASSUME ComptInv, NEW ch \in DOMAIN channels, Compts!Final_Release(ch)
    PROVE  ComptInv'
<1>1. /\ Compts!IsOwn(channels[ch].end) /\ Compts!process_compartment_close(ch, tables)
      /\ UNCHANGED <<m_mapCompartments, made, runs, makes, reader, stops, stop, leaked>>
  BY DEF Compts!Final_Release
<1>2. tables = [tables EXCEPT ![channels[ch].in] = tables[channels[ch].in] \ {}]
  BY DEF ComptInv, ComptTypes
<1>3. Fewer
  BY <1>1, <1>2, ClosedThere
<1> QED
  BY <1>1, <1>3, Lessening

\* Entries are marked as closed: they are of the same channels, to the same ends.
LEMMA Marking ==
    ASSUME ComptInv, NEW c \in Compts!Ids, Compts!process_channel_close(c)
    PROVE  ComptInv'
<1> DEFINE Mark(e) == IF ~Compts!IsOwn(e.end) /\ Compts!Concerns(e.end, reader.of)
                      THEN [e EXCEPT !.open = FALSE] ELSE e
<1>1. /\ tables' = [tables EXCEPT ![c] = {Mark(e) : e \in tables[c]}]
      /\ reader' = [reader EXCEPT !.left = reader.left \ {c}]
      /\ UNCHANGED <<m_mapCompartments, made, channels, runs, makes, stops, stop, leaked>>
  BY DEF Compts!process_channel_close
<1>2. tables \in [Compts!Ids -> SUBSET Listing] /\ reader \in Notices
  BY DEF ComptInv, ComptTypes
<1>3. ASSUME NEW e \in Listing PROVE Mark(e) \in Listing /\ Mark(e).end = e.end /\ Mark(e).ch = e.ch
  BY DEF Listing
<1> HIDE DEF Mark
<1>4. reader' \in Notices
  BY <1>1, <1>2 DEF Notices
<1>5. \A b \in Compts!Ids : tables'[b] = IF b = c THEN {Mark(e) : e \in tables[c]} ELSE tables[b]
  BY <1>1, <1>2
<1>6. {Mark(e) : e \in tables[c]} \in SUBSET Listing
  BY <1>2, <1>3
<1>7. tables' \in [Compts!Ids -> SUBSET Listing]
  BY <1>1, <1>2, <1>6
<1>8. ASSUME NEW b \in Compts!Ids, NEW f \in tables'[b]
      PROVE  \E e \in tables[b] : f.end = e.end /\ f.ch = e.ch /\ f = (IF b = c THEN Mark(e) ELSE e)
  BY <1>2, <1>3, <1>5
<1>9. ASSUME NEW b \in Compts!Ids, NEW e \in tables[b]
      PROVE  \E f \in tables'[b] : f.end = e.end /\ f.ch = e.ch
  BY <1>2, <1>3, <1>5
<1>10. ComptTypes'
  BY <1>1, <1>4, <1>7 DEF ComptInv, ComptTypes, Fits
<1>11. InTurns'
  BY <1>1 DEF ComptInv, InTurns, AtShutdown
<1>12. Unique'
  <2> SUFFICES ASSUME NEW b \in Compts!Ids, NEW f \in tables'[b], NEW g \in tables'[b], f.end = g.end
               PROVE  f = g
    BY DEF Unique
  <2>1. PICK e \in tables[b] : f.end = e.end /\ f = (IF b = c THEN Mark(e) ELSE e)
    BY <1>8
  <2>2. PICK h \in tables[b] : g.end = h.end /\ g = (IF b = c THEN Mark(h) ELSE h)
    BY <1>8
  <2>3. e = h
    BY <2>1, <2>2 DEF ComptInv, Unique
  <2> QED
    BY <2>1, <2>2, <2>3
<1>13. Entered'
  BY <1>1, <1>8 DEF ComptInv, Entered
<1>14. Found'
  <2> SUFFICES ASSUME NEW i \in DOMAIN channels, i \notin leaked, channels[i].connected
               PROVE  \E f \in tables'[channels[i].in] : f.ch = i
    BY <1>1 DEF Found
  <2>1. channels[i].in \in Compts!Ids
    <3>1. channels[i] \in Chans
      BY ElementOfSeq, LenProperties DEF ComptInv, ComptTypes
    <3> QED
      BY <3>1 DEF Chans
  <2>2. PICK e \in tables[channels[i].in] : e.ch = i
    BY DEF ComptInv, Found
  <2> QED
    BY <1>9, <2>1, <2>2
<1>15. SweptClean'
  <2> SUFFICES ASSUME NEW b \in Compts!Ids, NEW f \in tables'[b], Compts!Swept(b, f.end)'
               PROVE  Lost(f)'
    BY DEF SweptClean
  <2>1. PICK e \in tables[b] : f.end = e.end /\ f.ch = e.ch
    BY <1>8
  <2>2. Compts!Swept(b, e.end)
    BY <1>1, <2>1, Unswept
  <2>3. Lost(e)
    BY <2>2 DEF ComptInv, SweptClean
  <2> QED
    BY <1>1, <2>1, <2>3 DEF Lost
<1> QED
  BY <1>10, <1>11, <1>12, <1>13, <1>14, <1>15 DEF ComptInv

LEMMA Reading ==
    ASSUME ComptInv, Compts!Reads
    PROVE  ComptInv'
<1>1. ASSUME NEW end \in Ends, NEW of \in {end, <<end[1], 0>>}, Compts!CloseComes(of) PROVE ComptInv'
  <2>1. reader' = [of |-> of, left |-> m_mapCompartments] /\ m_mapCompartments \subseteq Compts!Ids
    BY <1>1, IdsAre DEF Compts!CloseComes, ComptInv, ComptTypes
  <2>2. of \in AllEnds \cup {<<e[1], 0>> : e \in Ends} \cup {Nobody}
    BY DEF AllEnds
  <2>3. reader' \in Notices
    BY <2>1, <2>2 DEF Notices
  <2>4. ComptTypes'
    BY <1>1, <2>3 DEF Compts!CloseComes, ComptInv, ComptTypes, Fits
  <2>5. InTurns'
    BY <1>1 DEF Compts!CloseComes, ComptInv, InTurns, AtShutdown
  <2> QED
    BY <1>1, <2>4, <2>5, Untouched DEF Compts!CloseComes
<1>2. CASE Compts!CloseEnds
  <2>1. reader' \in Notices
    BY <1>2 DEF Compts!CloseEnds, Compts!Idle, Notices
  <2>2. ComptTypes'
    BY <1>2, <2>1 DEF Compts!CloseEnds, ComptInv, ComptTypes, Fits
  <2>3. InTurns'
    BY <1>2 DEF Compts!CloseEnds, ComptInv, InTurns, AtShutdown
  <2> QED
    BY <1>2, <2>2, <2>3, Untouched DEF Compts!CloseEnds
<1> QED
  BY <1>1, <1>2, Marking DEF Compts!Reads

LEMMA SameCardinality == \A S : Compts!Cardinality(S) = Cardinality(S)
  BY DEF Compts!Cardinality, Cardinality

\* The compartments that are to be shut down while they are.
LEMMA Turns ==
    ASSUME ComptInv, stop # "runs"
    PROVE  \E k \in 1..made + 1 : \E n \in Nat :
              /\ AtShutdown(n, k) /\ n <= k /\ DOMAIN stops = 1..n
              /\ stops = <<>> <=> n = 0
              /\ \A i \in 1..n : stops[i] = n - i
              /\ n > 0 => stops[1] = n - 1 /\ stops[1] \in Compts!Ids
<1>0. PICK k \in 1..made + 1 : \E n \in 0..k : AtShutdown(n, k)
  BY DEF ComptInv, InTurns
<1>1. PICK n \in 0..k : AtShutdown(n, k)
  BY <1>0
<1>2. k \in Nat /\ n \in Nat /\ made \in 0..MaxId /\ MaxId \in Nat /\ Compts!Ids = 0..MaxId
  BY IdsAre DEF ComptInv, ComptTypes
<1>3. stops = [i \in 1..n |-> n - i]
  BY <1>1 DEF AtShutdown
<1>4. stops \in [1..n -> Int]
  BY <1>2, <1>3
<1>5. stops \in Seq(Int) /\ Len(stops) = n
  BY <1>2, <1>4, SeqDef, LenProperties
<1>6. stops = <<>> <=> n = 0
  BY <1>2, <1>4, <1>5, EmptySeq
<1>7. n > 0 => stops[1] = n - 1 /\ stops[1] \in Compts!Ids
  BY <1>2, <1>3
<1> QED
  BY <1>1, <1>2, <1>3, <1>6, <1>7

\* The next of them.
LEMMA NextTurn ==
    ASSUME ComptInv, NEW n \in Nat, n > 0, stops = [i \in 1..n |-> n - i], stops' = Tail(stops)
    PROVE  /\ stops' = [i \in 1..n - 1 |-> n - 1 - i] /\ DOMAIN stops' = 1..n - 1
           /\ \A i \in 2..n : i - 1 \in 1..n - 1 /\ stops'[i - 1] = stops[i]
<1>1. stops \in [1..n -> Int]
  OBVIOUS
<1>2. stops \in Seq(Int) /\ Len(stops) = n
  BY <1>1, SeqDef, LenProperties
<1>3. stops' = [i \in 1..n - 1 |-> stops[i + 1]]
  BY <1>2
<1>4. ASSUME NEW i \in 1..n - 1 PROVE stops[i + 1] = n - 1 - i
  <2>1. i + 1 \in 1..n /\ n - (i + 1) = n - 1 - i
    OBVIOUS
  <2> QED
    BY <2>1
<1>5. stops' = [i \in 1..n - 1 |-> n - 1 - i]
  BY <1>3, <1>4
<1>6. ASSUME NEW i \in 2..n PROVE i - 1 \in 1..n - 1 /\ stops'[i - 1] = stops[i]
  <2>1. i - 1 \in 1..n - 1 /\ i \in 1..n /\ n - 1 - (i - 1) = n - i
    OBVIOUS
  <2> QED
    BY <1>5, <2>1
<1> QED
  BY <1>5, <1>6

LEMMA Closing ==
    ASSUME ComptInv, Compts!close_compartments
    PROVE  ComptInv'
<1>1. /\ stop = "runs" /\ m_mapCompartments = 0..made /\ stop' = "shutdown"
      /\ UNCHANGED <<m_mapCompartments, made, tables, channels, runs, makes, reader, leaked>>
  BY DEF Compts!close_compartments, ComptInv, InTurns
<1> PICK n : n = made + 1
  OBVIOUS
<1>2. made \in Nat /\ n \in Nat
  BY IdsAre DEF ComptInv, ComptTypes
<1>3. Cardinality(m_mapCompartments) = n /\ m_mapCompartments' = 0..n - 1
  BY <1>1, <1>2, FS_Interval
<1>4. stops' = [i \in 1..n |-> n - i]
  <2>1. Compts!Cardinality(m_mapCompartments) = n
    BY <1>3, SameCardinality
  <2> QED
    BY <2>1 DEF Compts!close_compartments
<1>5. AtShutdown(n, n)'
  BY <1>1, <1>2, <1>3, <1>4 DEF AtShutdown
<1>6. InTurns'
  <2>1. n \in 1..made' + 1 /\ n \in 0..n
    BY <1>1, <1>2
  <2> QED
    BY <1>1, <1>5, <2>1 DEF InTurns
<1>7. ComptTypes'
  BY <1>1 DEF ComptInv, ComptTypes, Fits
<1>8. Fewer
  BY <1>1 DEF Fewer, ComptInv, ComptTypes
<1>9. Cleaned
  <2> SUFFICES ASSUME NEW c \in Compts!Ids, NEW e \in tables'[c], Compts!Swept(c, e.end)'
               PROVE  FALSE
    BY DEF Cleaned
  <2>1. c \in Nat /\ c <= made
    BY <1>1, <1>2, IdsAre DEF ComptInv, ComptTypes, Entered, Fits
  <2>2. n - c \in 1..n /\ n - (n - c) = c
    BY <1>2, <2>1
  <2>3. n - c \in DOMAIN stops' /\ stops'[n - c] = c
    BY <1>4, <2>2
  <2> QED
    BY <1>1, <2>3 DEF Compts!Swept
<1> QED
  BY <1>6, <1>7, <1>8, <1>9, Shrinks DEF ComptInv

LEMMA ShuttingDown ==
    ASSUME ComptInv, Compts!shutdown \/ Compts!remove_compartment
    PROVE  ComptInv'
<1>1. /\ stop \in {"shutdown", "remove"} /\ stop' \in {"remove", "channels"}
      /\ UNCHANGED <<made, tables, channels, runs, makes, reader, stops, leaked>>
  BY DEF Compts!shutdown, Compts!remove_compartment
<1>0. PICK k \in 1..made + 1, n \in Nat :
         /\ AtShutdown(n, k) /\ n <= k /\ (stops = <<>> <=> n = 0)
         /\ n > 0 => stops[1] = n - 1
  BY <1>1, Turns
<1>2. k \in Nat /\ AtShutdown(n, k) /\ n \in 0..k /\ (stops = <<>> <=> n = 0) /\ (n > 0 => stops[1] = n - 1)
  BY <1>0, IdsAre DEF ComptInv, ComptTypes
<1>3. AtShutdown(n, k)' /\ m_mapCompartments' \subseteq m_mapCompartments
  <2>1. CASE Compts!shutdown
    BY <1>2, <2>1 DEF Compts!shutdown, AtShutdown
  <2>2. CASE Compts!remove_compartment
    <3>1. /\ n > 0 /\ m_mapCompartments = 0..n - 1 \cup k..made
          /\ m_mapCompartments' = m_mapCompartments \ {n - 1}
      BY <1>2, <2>2 DEF Compts!remove_compartment, AtShutdown
    <3>2. m_mapCompartments' = 0..n - 2 \cup k..made
      BY <1>0, <1>2, <3>1
    <3> QED
      BY <1>1, <1>2, <2>2, <3>1, <3>2 DEF Compts!remove_compartment, AtShutdown
  <2> QED
    BY <2>1, <2>2
<1>4. InTurns'
  BY <1>0, <1>1, <1>3 DEF InTurns
<1>5. ComptTypes'
  BY <1>1, <1>3 DEF ComptInv, ComptTypes, Fits
<1>6. Fewer
  BY <1>1 DEF Fewer, ComptInv, ComptTypes
<1>7. Cleaned
  <2>1. m_mapCompartments' = m_mapCompartments \/ m_mapCompartments' = m_mapCompartments \ {stops[1]}
    BY DEF Compts!shutdown, Compts!remove_compartment
  <2>2. n > 0
    BY <1>1, <1>2 DEF AtShutdown, Compts!shutdown, Compts!remove_compartment
  <2>3. 1 \in DOMAIN stops
    BY <1>2, <2>2 DEF AtShutdown
  <2>4. \A c, end : Compts!Swept(c, end)' => Compts!Swept(c, end)
    BY <1>1, <2>1, <2>3 DEF Compts!Swept
  <2> QED
    BY <2>4 DEF Cleaned
<1> QED
  BY <1>4, <1>5, <1>6, <1>7, Shrinks DEF ComptInv

\* A compartment is done with: what its table has left leaks, or is past being swept.
LEMMA Done ==
    ASSUME ComptInv, Fewer, stop \in {"channels", "compartments"},
           stops' = Tail(stops), stop' = "shutdown",
           UNCHANGED <<m_mapCompartments, made, runs, makes, reader>>,
           \A e \in tables'[stops[1]] :
               Lost(e)' \/ (stop = "compartments" /\ ~Compts!IsOwn(e.end))
    PROVE  ComptInv'
<1>0. made \in Nat
  BY IdsAre DEF ComptInv, ComptTypes
<1>1. PICK k \in 1..made + 1, n \in Nat :
         /\ AtShutdown(n, k) /\ n <= k /\ DOMAIN stops = 1..n /\ (stops = <<>> <=> n = 0)
         /\ \A i \in 1..n : stops[i] = n - i
         /\ n > 0 => stops[1] = n - 1
  BY Turns
<1>2. n > 0 /\ stops = [i \in 1..n |-> n - i] /\ m_mapCompartments = 0..n - 2 \cup k..made
  BY <1>1 DEF AtShutdown
<1>3. /\ stops' = [i \in 1..n - 1 |-> n - 1 - i] /\ DOMAIN stops' = 1..n - 1
      /\ \A i \in 2..n : i - 1 \in 1..n - 1 /\ stops'[i - 1] = stops[i]
  BY <1>1, <1>2, NextTurn
<1>4. InTurns'
  <2> PICK m : m = n - 1
    OBVIOUS
  <2>0. m - 1 = n - 2
    BY <1>1
  <2>3. stops' = [i \in 1..m |-> m - i]
    BY <1>3, Zenon
  <2>1. AtShutdown(m, k)'
    BY <1>2, <2>0, <2>3 DEF AtShutdown
  <2>2. m \in 0..k /\ k \in 1..made' + 1 /\ stop' # "runs"
    BY <1>0, <1>1, <1>2
  <2> QED
    BY <2>1, <2>2 DEF InTurns
<1>5. ComptTypes'
  BY LessenedTypes DEF ComptInv, ComptTypes
<1>6. Cleaned
  <2> SUFFICES ASSUME NEW c \in Compts!Ids, NEW e \in tables'[c], Compts!Swept(c, e.end)'
               PROVE  Compts!Swept(c, e.end) \/ Lost(e)'
    BY DEF Cleaned
  <2>1. c \notin m_mapCompartments /\ \A i \in 1..n - 1 : stops'[i] # c
    BY <1>3 DEF Compts!Swept
  <2>2. \A i \in 2..n : stops[i] # c
    BY <1>3, <2>1
  <2>3. CASE stops[1] # c
    <3>1. \A i \in 1..n : stops[i] # c
      <4> SUFFICES ASSUME NEW i \in 1..n PROVE stops[i] # c
        OBVIOUS
      <4>1. i = 1 \/ i \in 2..n
        BY <1>1
      <4> QED
        BY <2>2, <2>3, <4>1
    <3> QED
      BY <1>1, <2>1, <3>1 DEF Compts!Swept
  <2>4. CASE stops[1] = c /\ stop = "compartments" /\ ~Compts!IsOwn(e.end)
    <3>1. \A i \in 1..n : i = 1 \/ stops[i] # c
      <4> SUFFICES ASSUME NEW i \in 1..n PROVE i = 1 \/ stops[i] # c
        OBVIOUS
      <4>1. i = 1 \/ i \in 2..n
        BY <1>1
      <4> QED
        BY <2>2, <4>1
    <3> QED
      BY <1>1, <2>1, <2>4, <3>1 DEF Compts!Swept
  <2> QED
    BY <2>3, <2>4
<1> QED
  BY <1>4, <1>5, <1>6, Shrinks DEF ComptInv

LEMMA ChannelsPop ==
    ASSUME ComptInv, Compts!PopChannel
    PROVE  ComptInv'
<1> PICK c : c = stops[1]
  OBVIOUS
<1> DEFINE remote == {e \in tables[c] : ~Compts!IsOwn(e.end)}
<1>1. stop = "channels" /\ UNCHANGED <<m_mapCompartments, made, runs, makes, reader>>
  BY DEF Compts!PopChannel
<1>2. PICK k \in 1..made + 1, n \in Nat :
         /\ AtShutdown(n, k) /\ DOMAIN stops = 1..n /\ n <= k
         /\ n > 0 => stops[1] = n - 1 /\ stops[1] \in Compts!Ids
  BY <1>1, Turns
<1>3. n > 0 /\ c \in Compts!Ids
  BY <1>1, <1>2 DEF AtShutdown
<1>4. tables \in [Compts!Ids -> SUBSET Listing] /\ leaked \subseteq DOMAIN channels
  BY DEF ComptInv, ComptTypes
<1>5. CASE remote = {} /\ stop' = "compartments" /\ UNCHANGED <<tables, channels, leaked, stops>>
  <2>1. Fewer
    BY <1>5 DEF Fewer, ComptInv, ComptTypes
  <2>2. InTurns'
    BY <1>1, <1>2, <1>5 DEF InTurns, AtShutdown
  <2>3. ComptTypes'
    BY <1>1, <1>5, <2>1, LessenedTypes DEF ComptInv, ComptTypes
  <2>4. Cleaned
    <3> SUFFICES ASSUME NEW b \in Compts!Ids, NEW e \in tables[b], Compts!Swept(b, e.end)'
                 PROVE  Compts!Swept(b, e.end)
      BY <1>5 DEF Cleaned
    <3>1. b = c => Compts!IsOwn(e.end)
      BY <1>5
    <3> QED
      BY <1>1, <1>5, <3>1 DEF Compts!Swept
  <2> QED
    BY <2>1, <2>2, <2>3, <2>4, Shrinks DEF ComptInv
<1>6. CASE \E e \in remote : /\ tables' = [tables EXCEPT ![c] = tables[c] \ {e}]
                            /\ Compts!Disconnect({e.ch}) /\ UNCHANGED <<leaked, stops, stop>>
  <2>1. PICK e \in remote : /\ tables' = [tables EXCEPT ![c] = tables[c] \ {e}]
                            /\ Compts!Disconnect({e.ch}) /\ UNCHANGED <<leaked, stops, stop>>
    BY <1>6
  <2>2. \A b \in Compts!Ids : tables'[b] = IF b = c THEN tables[c] \ {e} ELSE tables[b]
    BY <1>4, <2>1
  <2>3. tables' \in [Compts!Ids -> SUBSET Listing]
    BY <1>3, <1>4, <2>1
  <2>4. Fewer
    BY <1>4, <2>1, <2>2, <2>3, Lessened
  <2> QED
    BY <1>1, <2>1, <2>4, Lessening
<1>7. CASE \E e \in remote : /\ tables' = [tables EXCEPT ![c] = tables[c] \ {e}]
                            /\ leaked' = leaked \cup {f.ch : f \in tables[c]}
                            /\ stops' = Tail(stops) /\ stop' = "shutdown" /\ UNCHANGED channels
  <2>1. PICK e \in remote : /\ tables' = [tables EXCEPT ![c] = tables[c] \ {e}]
                            /\ leaked' = leaked \cup {f.ch : f \in tables[c]}
                            /\ stops' = Tail(stops) /\ stop' = "shutdown" /\ UNCHANGED channels
    BY <1>7
  <2>2. \A b \in Compts!Ids : tables'[b] = IF b = c THEN tables[c] \ {e} ELSE tables[b]
    BY <1>4, <2>1
  <2>3. tables' \in [Compts!Ids -> SUBSET Listing]
    BY <1>3, <1>4, <2>1
  <2>4. \A f \in tables[c] : f.ch \in leaked' /\ f.ch \in DOMAIN channels
    BY <1>3, <2>1 DEF ComptInv, Entered
  <2>5. leaked \subseteq leaked' /\ leaked' \subseteq DOMAIN channels
    BY <1>4, <2>1, <2>4
  <2>6. \A b \in Compts!Ids : \A f \in tables[b] \ tables'[b] : Lost(f)'
    BY <2>2, <2>4 DEF Lost
  <2>7. \A b \in Compts!Ids : tables'[b] \subseteq tables[b]
    BY <2>2
  <2>8. Fewer
    BY <2>1, <2>3, <2>5, <2>6, <2>7 DEF Fewer, ComptInv, ComptTypes
  <2>9. \A f \in tables'[c] : Lost(f)'
    BY <1>3, <2>4, <2>7 DEF Lost
  <2> QED
    BY <1>1, <2>1, <2>8, <2>9, Done
<1> QED
  BY <1>5, <1>6, <1>7 DEF Compts!PopChannel

LEMMA CompartmentsPop ==
    ASSUME ComptInv, Compts!PopCompartment
    PROVE  ComptInv'
<1> PICK c : c = stops[1]
  OBVIOUS
<1> DEFINE own == {e \in tables[c] : Compts!IsOwn(e.end)}
<1>1. stop = "compartments" /\ UNCHANGED <<m_mapCompartments, made, runs, makes, reader, leaked>>
  BY DEF Compts!PopCompartment
<1>2. PICK k \in 1..made + 1, n \in Nat :
         AtShutdown(n, k) /\ n <= k /\ (n > 0 => stops[1] = n - 1 /\ stops[1] \in Compts!Ids)
  BY <1>1, Turns
<1>3. c \in Compts!Ids
  BY <1>1, <1>2 DEF AtShutdown
<1>4. CASE own = {} /\ stops' = Tail(stops) /\ stop' = "shutdown" /\ UNCHANGED <<tables, channels>>
  <2>1. Fewer
    BY <1>1, <1>4 DEF Fewer, ComptInv, ComptTypes
  <2>2. \A e \in tables'[c] : ~Compts!IsOwn(e.end)
    BY <1>4
  <2> QED
    BY <1>1, <1>4, <2>1, <2>2, Done
<1>5. CASE \E e \in own : /\ Compts!process_compartment_close(e.ch, [tables EXCEPT ![c] = tables[c] \ {e}])
                         /\ UNCHANGED <<stops, stop>>
  <2>1. PICK e \in own : /\ Compts!process_compartment_close(e.ch, [tables EXCEPT ![c] = tables[c] \ {e}])
                         /\ UNCHANGED <<stops, stop>>
    BY <1>5
  <2>2. e.ch \in DOMAIN channels /\ channels[e.ch].in = c /\ Compts!IsOwn(channels[e.ch].end)
    BY <1>3 DEF ComptInv, Entered
  <2>3. \A f \in {e} : f.ch = e.ch
    OBVIOUS
  <2>4. Fewer
    BY <1>1, <2>1, <2>2, <2>3, ClosedThere
  <2> QED
    BY <1>1, <2>1, <2>4, Lessening
<1> QED
  BY <1>4, <1>5 DEF Compts!PopCompartment

-----------------------------------------------------------------------------
LEMMA ComptInit ==
    ASSUME Compts!Init
    PROVE  ComptInv
<1>1. /\ m_mapCompartments = {0} /\ made = 0 /\ tables = [c \in Compts!Ids |-> {}] /\ channels = <<>>
      /\ runs = [t \in Makers |-> <<0>>] /\ makes = [t \in Makers |-> Nobody]
      /\ reader = [of |-> Nobody, left |-> {}] /\ stops = <<>> /\ stop = "runs" /\ leaked = {}
  BY DEF Compts!Init, Compts!Idle
<1>2. 0 \in Compts!Ids /\ made \in Compts!Ids /\ m_mapCompartments = 0..made
  BY <1>1, IdsAre
<1>3. channels \in Seq(Chans) /\ Len(channels) <= MaxChannels /\ DOMAIN channels = {}
  BY <1>1, EmptySeq, IdsAre
<1>4. <<0>> \in Seq(0..made) /\ <<0>> # <<>>
  BY <1>1
<1>5. reader \in Notices
  BY <1>1 DEF Notices
<1>6. ComptTypes
  BY <1>1, <1>2, <1>3, <1>4, <1>5 DEF ComptTypes
<1> QED
  BY <1>1, <1>2, <1>3, <1>6 DEF ComptInv, InTurns, Unique, Entered, Found, SweptClean

LEMMA ComptStep ==
    ASSUME ComptInv, [Compts!Next]_comptVars
    PROVE  ComptInv'
<1>1. CASE UNCHANGED comptVars
  <2>1. ComptTypes'
    BY <1>1 DEF comptVars, ComptInv, ComptTypes, Fits
  <2>2. InTurns'
    BY <1>1 DEF comptVars, ComptInv, InTurns, AtShutdown
  <2> QED
    BY <1>1, <2>1, <2>2, Untouched DEF comptVars
<1>2. ASSUME NEW t \in Makers, Compts!Step(t) PROVE ComptInv'
  <2>1. \A end \in Ends \cup {Compts!Own(id) : id \in Compts!Ids} :
            Compts!create_channel(t, end) => ComptInv'
    BY NewChannel DEF AllEnds
  <2> QED
    BY <1>2, <2>1, NewCompartment, Inserted, NotMade, Running, Failing DEF Compts!Step
<1>3. ASSUME NEW ch \in DOMAIN channels, Compts!Final_Release(ch) PROVE ComptInv'
  BY <1>3, Releasing
<1>4. CASE Compts!Stops
  BY <1>4, Closing, ShuttingDown, ChannelsPop, CompartmentsPop DEF Compts!Stops
<1> QED
  BY <1>1, <1>2, <1>3, <1>4, Reading DEF Compts!Next

\* How the invariant says that the compartments end.
LEMMA ComptEnds ==
    ASSUME ComptInv
    PROVE  CompartmentsEnd
<1>1. ASSUME stop = "shutdown", stops = <<>>, NEW ch \in DOMAIN channels \ leaked, channels[ch].connected,
             channels[ch].in \notin m_mapCompartments
      PROVE  FALSE
  <2>1. channels[ch] \in Chans
    BY ElementOfSeq, LenProperties DEF ComptInv, ComptTypes
  <2>2. PICK e \in tables[channels[ch].in] : e.ch = ch
    BY <1>1 DEF ComptInv, Found
  <2>3. channels[ch].in \in Compts!Ids /\ Compts!Swept(channels[ch].in, e.end)
    BY <1>1, <2>1 DEF Chans, Compts!Swept
  <2> QED
    BY <1>1, <2>2, <2>3 DEF ComptInv, SweptClean, Lost
<1>2. Compts!ConnectedIsKept
  BY <1>1 DEF Compts!ConnectedIsKept, ComptInv, Unique, Found
<1> QED
  BY <1>2 DEF CompartmentsEnd

\* The strengthened invariant: tables, channels and the order of the shutdown fit, of
\* the part of the sessions that has compartments.
THEOREM CompartmentInvariance == SessionSpec => []ComptInv
<1>1. SessionInit => ComptInv
  BY ComptInit DEF SessionInit
<1>2. ComptInv /\ [SessionNext]_<<part, vars, comptVars, sngtnVars, serverVars>> => ComptInv'
  <2>1. ASSUME [SessionNext]_<<part, vars, comptVars, sngtnVars, serverVars>>
        PROVE  [Compts!Next]_comptVars
    BY <2>1 DEF SessionNext
  <2> QED
    BY <2>1, ComptStep
<1> QED
  BY <1>1, <1>2, PTL DEF SessionSpec

\* The compartments of a session end as they should, whatever threads and peers it
\* has: a compartment keeps one channel to each end, what is connected is found in
\* its table but for what leaks, and when the last compartment has been shut down
\* all that is found is disconnected, but for the channels of compartments made since
\* close_compartments took its list.
THEOREM CompartmentsEndWell == SessionSpec => []CompartmentsEnd
<1>1. ComptInv => CompartmentsEnd
  BY ComptEnds
<1> QED
  BY <1>1, CompartmentInvariance, PTL

-----------------------------------------------------------------------------
\* The root server and its sandbox. A service that runs has been asked for, launched
\* and listed, each once and in that order, by a root that has been notified.
Underway(n) == n \in toLaunch \/ Servers!InTheInbox(n) \/ starting[n] # "no"
Asked == Servers!InTheInbox(Servers!All) \/ sweep # "no"
Past == {"clear", "threads", "stopped"}

\* The sandbox is spawned once, and the root does not end before it.
Alive ==
    /\ main \in {"load", "spawn", "again"} => user = "none"
    /\ user \in {"none", "connects"} => job = "none"
    /\ user \notin Servers!Ended => mapped
    /\ main \in {"threads", "stopped"} => user \in Servers!Ended
    /\ "root" \in accepting => main \in {"waits", "asks", "asked", "closes"}

\* A sandbox that notifies has booted, and closes for the root only.
Boots ==
    /\ notice # "no" => job = "done"
    /\ quits["boot"] # "no" => job = "done" /\ notice = "no"
    /\ quits["closed"] # "no" \/ upstream = "root" => main \in Past
    /\ ~open => quits["boot"] # "no" \/ quits["closed"] # "no"

\* Services are started once the root has been notified by a sandbox it knows, each once.
Known == \A n \in Services :
    Underway(n) \/ n \in m_mapServices \/ service[n] # "off" => m_sandbox_channel /\ notice = "taken"

InboxOnce == \A i, j \in DOMAIN inbox : inbox[i] = inbox[j] /\ inbox[i] # Servers!All => i = j

StartedOnce ==
    /\ \A n \in Services :
           /\ n \in toLaunch => ~Servers!InTheInbox(n) /\ starting[n] = "no"
           /\ Servers!InTheInbox(n) => starting[n] = "no"
           /\ service[n] # "off" => ~Underway(n)
    /\ InboxOnce

\* What is to run is on the list, being told to stop, or was told too early.
Accounted(n) == n \in m_mapServices \/ n \in telling["run"] \/ n \in telling["root"] \/ n \in missed

OneTold == \A s \in {"run", "root"} : \A m, n \in telling[s] : m = n

ListsThem ==
    /\ open => \A n \in Services : service[n] = "started" \/ starting[n] = "starts" => Accounted(n)
    /\ telling["run"] # {} => user \in {"stops", "killed"}
    /\ telling["root"] # {} => sweep = "going"
    /\ OneTold
    /\ user = "stopped" => sweep # "going"
    /\ user \in {"threads", "stopped"} => m_mapServices \subseteq late

\* When the root has asked for all to stop, only those are under way that were.
Settled ==
    /\ Asked => /\ main \in {"asked", "closes", "channels"} \cup Past
                /\ \A n \in Services \ unsettled : ~Underway(n) /\ notice = "taken"
    /\ sweep = "done" => m_mapServices \subseteq unsettled

ServerInv == Servers!TypeOK /\ Alive /\ Boots /\ Known /\ StartedOnce /\ ListsThem /\ Settled

-----------------------------------------------------------------------------
LEMMA AllIsNone == Servers!All = "all" /\ Servers!All \notin Services
  BY SessionAssumption DEF Servers!All

\* The sandbox's requests: one is added, or the first is taken.
LEMMA InboxAppends ==
    ASSUME NEW S, inbox \in Seq(S), NEW x \in S, inbox' = Append(inbox, x)
    PROVE  /\ inbox' \in Seq(S)
           /\ \A n : Servers!InTheInbox(n)' <=> Servers!InTheInbox(n) \/ n = x
           /\ InboxOnce /\ (x = Servers!All \/ ~Servers!InTheInbox(x)) => InboxOnce'
<1>1. PICK k \in Nat : k = Len(inbox) /\ DOMAIN inbox = 1..k
  BY LenProperties
<1>2. /\ inbox' \in Seq(S) /\ Len(inbox') = k + 1
      /\ \A i \in 1..k : inbox'[i] = inbox[i]
      /\ inbox'[k + 1] = x
  BY <1>1, AppendProperties
<1>3. DOMAIN inbox' = 1..k + 1 /\ \A i \in 1..k + 1 : i \in 1..k \/ i = k + 1
  BY <1>1, <1>2, LenProperties
<1>4. \A i \in 1..k : i \in 1..k + 1
  BY <1>1
<1>5. k + 1 \in 1..k + 1
  BY <1>1
<1>6. \A n : Servers!InTheInbox(n)' <=> Servers!InTheInbox(n) \/ n = x
  BY <1>1, <1>2, <1>3, <1>4, <1>5 DEF Servers!InTheInbox
<1>7. InboxOnce /\ (x = Servers!All \/ ~Servers!InTheInbox(x)) => InboxOnce'
  BY <1>1, <1>2, <1>3 DEF Servers!InTheInbox, InboxOnce
<1> QED
  BY <1>2, <1>6, <1>7

LEMMA InboxIsTaken ==
    ASSUME NEW S, inbox \in Seq(S), inbox # <<>>, inbox' = Tail(inbox), NEW h, h = Head(inbox)
    PROVE  /\ inbox' \in Seq(S) /\ h \in S
           /\ \A n : Servers!InTheInbox(n)' => Servers!InTheInbox(n)
           /\ Servers!InTheInbox(h)
           /\ InboxOnce => InboxOnce' /\ (h # Servers!All => ~Servers!InTheInbox(h)')
<1>1. PICK k \in Nat : k = Len(inbox) /\ DOMAIN inbox = 1..k /\ k > 0
  BY LenProperties, EmptySeq
<1>2. /\ inbox' \in Seq(S) /\ h \in S /\ Len(inbox') = k - 1
      /\ \A i \in 1..Len(inbox') : inbox'[i] = inbox[i + 1]
  BY <1>1, HeadTailProperties
<1>3. DOMAIN inbox' = 1..k - 1 /\ \A i \in 1..k - 1 : inbox'[i] = inbox[i + 1]
  BY <1>2, LenProperties
<1>4. \A i \in 1..k - 1 : i + 1 \in 1..k /\ i + 1 # 1
  BY <1>1
<1>5. h = inbox[1] /\ 1 \in 1..k
  BY <1>1
<1>6. InboxOnce => InboxOnce'
  <2> SUFFICES ASSUME InboxOnce, NEW i \in DOMAIN inbox', NEW j \in DOMAIN inbox',
                      inbox'[i] = inbox'[j], inbox'[i] # Servers!All
               PROVE  i = j
    BY Zenon DEF InboxOnce
  <2>1. /\ i \in 1..k - 1 /\ j \in 1..k - 1
        /\ inbox'[i] = inbox[i + 1] /\ inbox'[j] = inbox[j + 1]
    BY <1>3
  <2>2. i + 1 = j + 1
    BY <1>1, <1>4, <2>1 DEF InboxOnce
  <2> QED
    BY <1>1, <2>1, <2>2
<1>7. InboxOnce /\ h # Servers!All => ~Servers!InTheInbox(h)'
  <2> SUFFICES ASSUME InboxOnce, NEW i \in 1..k - 1, inbox[i + 1] = h, h # Servers!All
               PROVE  FALSE
    BY <1>3, <1>5 DEF Servers!InTheInbox
  <2> QED
    BY <1>1, <1>4, <1>5 DEF InboxOnce
<1> QED
  BY <1>1, <1>2, <1>3, <1>4, <1>5, <1>6, <1>7 DEF Servers!InTheInbox

LEMMA InboxStays ==
    ASSUME inbox' = inbox
    PROVE  /\ \A n : Servers!InTheInbox(n)' <=> Servers!InTheInbox(n)
           /\ InboxOnce' <=> InboxOnce
  BY DEF Servers!InTheInbox, InboxOnce

LEMMA RootGoesOn ==
    ASSUME ServerInv, Servers!RootMain, ~Servers!stop_services
    PROVE  ServerInv'
<1> USE DEF Servers!RootMain, Servers!Load, Servers!SpawnSandbox, Servers!SpawnFails,
        Servers!Spawned, Servers!Listen, Servers!wait_for_quit, Servers!Answered,
        Servers!StopAccepting, Servers!shutdown_channels, Servers!ClearProcesses,
        Servers!stop_request_threads, Servers!WaitsForIt, Servers!CutBy, Servers!Ended,
        Servers!rootVars, Servers!jobVars, Servers!serviceVars
<1>0. UNCHANGED <<inbox, toLaunch, starting, m_mapServices, service, telling, hung, late, missed, notice, sweep,
                  unsettled, open, job, quits, launching, quit>> /\ (m_sandbox_channel => m_sandbox_channel')
  BY DEF ServerInv, Servers!TypeOK
<1>1. Servers!TypeOK'
  <2>1. /\ main' \in {"load", "spawn", "again", "spawned", "listen", "waits", "asks", "asked", "closes",
                       "channels", "clear", "threads", "stopped"}
        /\ user' \in Servers!Ended \cup {"connects", "waits", "stops", "threads"}
        /\ m_sandbox_channel' \in BOOLEAN /\ mapped' \in BOOLEAN
        /\ accepting' \subseteq {"root", "sandbox"}
        /\ upstream' \in {"none", "up", "root", "sandbox"}
    BY DEF ServerInv, Servers!TypeOK
  <2> QED
    BY <1>0, <2>1 DEF ServerInv, Servers!TypeOK
<1>2. Alive'
  BY DEF ServerInv, Servers!TypeOK, Alive, Boots
<1>3. Boots'
  BY DEF ServerInv, Servers!TypeOK, Boots, Past
<1>4. Known' /\ StartedOnce'
  BY <1>0, InboxStays DEF ServerInv, Known, StartedOnce, Underway
<1>5. ListsThem'
  BY <1>0 DEF ServerInv, ListsThem, Alive, Accounted, OneTold
<1>6. Settled'
  BY <1>0, InboxStays DEF ServerInv, Settled, Asked, Underway, Past
<1> QED
  BY <1>1, <1>2, <1>3, <1>4, <1>5, <1>6 DEF ServerInv

\* The root asks the sandbox to stop all: what is under way is noted.
LEMMA RootAsks ==
    ASSUME ServerInv, Servers!stop_services
    PROVE  ServerInv'
<1>1. /\ main = "asks" /\ main' \in {"asked", "closes"}
      /\ unsettled' = toLaunch \cup {n \in Services : Servers!InTheInbox(n) \/ starting[n] # "no"}
                               \cup (IF notice = "taken" THEN {} ELSE Services)
      /\ UNCHANGED <<user, m_sandbox_channel, mapped, accepting, upstream, notice, launching, toLaunch,
                     sweep, quit, open, job, quits, starting, m_mapServices, service, telling, hung, late,
                     missed>>
  BY DEF Servers!stop_services, Servers!jobVars, Servers!serviceVars
<1>2. inbox \in Seq(Services \cup {Servers!All})
  BY DEF ServerInv, Servers!TypeOK
<1>3. /\ inbox' \in Seq(Services \cup {Servers!All})
      /\ \A n \in Services : Servers!InTheInbox(n)' <=> Servers!InTheInbox(n)
      /\ InboxOnce => InboxOnce'
  <2>1. CASE inbox' = Append(inbox, Servers!All)
    BY <1>2, <2>1, AllIsNone, InboxAppends
  <2>2. CASE inbox' = inbox
    BY <1>2, <2>2, InboxStays
  <2> QED
    BY <2>1, <2>2 DEF Servers!stop_services
<1>4. Servers!TypeOK'
  BY <1>1, <1>3 DEF ServerInv, Servers!TypeOK
<1>5. Alive' /\ Boots' /\ ListsThem'
  BY <1>1 DEF ServerInv, Alive, Boots, ListsThem, Past, Accounted, OneTold
<1>6. Known' /\ StartedOnce'
  BY <1>1, <1>3 DEF ServerInv, Known, StartedOnce, Underway
<1>7. Settled'
  <2>1. \A n \in Services \ unsettled' : ~Underway(n)' /\ notice' = "taken"
    BY <1>1, <1>3 DEF Underway
  <2>2. sweep' = "no"
    BY <1>1 DEF ServerInv, Settled, Asked, Past
  <2> QED
    BY <1>1, <2>1, <2>2 DEF Settled
<1> QED
  BY <1>4, <1>5, <1>6, <1>7 DEF ServerInv

LEMMA RootStarts ==
    ASSUME ServerInv, Servers!RootThreads
    PROVE  ServerInv'
<1>0. inbox \in Seq(Services \cup {Servers!All}) /\ toLaunch \subseteq Services
  BY DEF ServerInv, Servers!TypeOK
<1>1. CASE Servers!NotifyStarted
  <2>1. /\ notice = "sent" /\ notice' = "taken" /\ toLaunch' \subseteq Services
        /\ launching' \in BOOLEAN /\ (toLaunch' # {} => m_sandbox_channel)
        /\ UNCHANGED <<main, user, m_sandbox_channel, mapped, accepting, upstream, inbox, sweep, quit,
                       unsettled, open, job, quits, starting, m_mapServices, service, telling, hung, late,
                       missed>>
    BY <1>1 DEF Servers!NotifyStarted, Servers!jobVars, Servers!serviceVars, ServerInv, Servers!TypeOK
  <2>2. \A n \in Services : ~Underway(n) /\ n \notin m_mapServices /\ service[n] = "off"
    BY <2>1 DEF ServerInv, Known
  <2>3. Servers!TypeOK' /\ Alive' /\ ListsThem'
    BY <2>1 DEF ServerInv, Servers!TypeOK, Alive, ListsThem, Accounted, OneTold
  <2>4. Boots'
    BY <2>1 DEF ServerInv, Boots, Past
  <2>5. Known' /\ StartedOnce'
    BY <2>1, <2>2, InboxStays DEF ServerInv, Known, StartedOnce, Underway
  <2>6. Settled'
    <3>1. Asked => \A n \in Services : n \in unsettled
      BY <2>1 DEF ServerInv, Settled
    <3> QED
      BY <2>1, <3>1, InboxStays DEF ServerInv, Settled, Asked, Past
  <2> QED
    BY <2>3, <2>4, <2>5, <2>6 DEF ServerInv
<1>2. ASSUME NEW n \in Services, Servers!LaunchService(n) PROVE ServerInv'
  <2>1. /\ n \in toLaunch /\ toLaunch' = toLaunch \ {n}
        /\ UNCHANGED <<main, user, m_sandbox_channel, mapped, accepting, upstream, notice, launching, sweep,
                       quit, unsettled, open, job, quits, starting, m_mapServices, service, telling, hung,
                       late, missed>>
    BY <1>2 DEF Servers!LaunchService, Servers!jobVars, Servers!serviceVars
  <2>2. ~Servers!InTheInbox(n) /\ starting[n] = "no" /\ Underway(n) /\ n # Servers!All
    BY <2>1, AllIsNone DEF ServerInv, StartedOnce, Underway
  <2>3. /\ inbox' \in Seq(Services \cup {Servers!All})
        /\ \A m : Servers!InTheInbox(m)' => Servers!InTheInbox(m) \/ m = n
        /\ InboxOnce'
    <3>1. CASE inbox' = Append(inbox, n)
      BY <1>0, <2>2, <3>1, InboxAppends DEF ServerInv, StartedOnce
    <3>2. CASE inbox' = inbox
      BY <1>0, <3>2, InboxStays DEF ServerInv, StartedOnce
    <3> QED
      BY <1>2, <3>1, <3>2 DEF Servers!LaunchService
  <2>4. \A m \in Services : Underway(m)' => Underway(m)
    BY <2>1, <2>2, <2>3 DEF Underway
  <2>5. Servers!TypeOK' /\ Alive' /\ Boots' /\ ListsThem'
    BY <2>1, <2>3 DEF ServerInv, Servers!TypeOK, Alive, Boots, Past, ListsThem, Accounted, OneTold
  <2>6. Known' /\ StartedOnce'
    BY <2>1, <2>2, <2>3, <2>4 DEF ServerInv, Known, StartedOnce
  <2>7. Settled'
    <3>1. Asked' => Asked
      BY <2>1, <2>2, <2>3, AllIsNone DEF Asked
    <3> QED
      BY <2>1, <2>4, <3>1 DEF ServerInv, Settled, Past
  <2> QED
    BY <2>5, <2>6, <2>7 DEF ServerInv
<1>3. CASE Servers!AllLaunched \/ Servers!on_channel_closed
  <2>1. /\ launching' \in BOOLEAN /\ mapped' \in BOOLEAN
        /\ UNCHANGED <<main, m_sandbox_channel, accepting, upstream, notice, toLaunch, inbox, sweep, quit,
                       unsettled, open, job, quits, starting, m_mapServices, service, telling, hung, late,
                       missed>>
        /\ \/ UNCHANGED <<user, mapped>>
           \/ user' = (IF user \in Servers!Ended THEN user ELSE "killed")
    BY <1>3 DEF Servers!AllLaunched, Servers!on_channel_closed, Servers!WaitsForIt, Servers!jobVars,
                Servers!serviceVars, ServerInv, Servers!TypeOK
  <2>2. Servers!TypeOK'
    BY <2>1 DEF ServerInv, Servers!TypeOK, Servers!Ended
  <2>3. Alive' /\ Boots' /\ ListsThem'
    BY <2>1 DEF ServerInv, Alive, Boots, ListsThem, Past, Servers!Ended, Accounted, OneTold
  <2>4. Known' /\ StartedOnce' /\ Settled'
    BY <2>1, InboxStays DEF ServerInv, Known, StartedOnce, Settled, Asked, Underway, Past
  <2> QED
    BY <2>2, <2>3, <2>4 DEF ServerInv
<1> QED
  BY <1>1, <1>2, <1>3 DEF Servers!RootThreads

\* The sandbox's main thread, up to its stopping the services.
LEMMA SandboxGoesOn ==
    ASSUME ServerInv,
           \/ Servers!connect_root \/ Servers!UserQuits \/ Servers!AllStopped \/ Servers!Ends
           \/ \E p \in {"root", "sandbox"} : Servers!Signal(p)
           \/ Servers!Dies
    PROVE  ServerInv'
<1> USE DEF Servers!connect_root, Servers!UserQuits, Servers!AllStopped, Servers!Ends, Servers!Signal,
        Servers!Dies, Servers!CutBy, Servers!Ended, Servers!rootVars, Servers!jobVars, Servers!serviceVars
<1>0. UNCHANGED <<main, m_sandbox_channel, mapped, open, notice, launching, toLaunch, inbox, starting,
                  m_mapServices, service, telling, hung, sweep, quits, unsettled, late, missed>>
  OBVIOUS
<1>1. Servers!TypeOK'
  <2>1. /\ user' \in Servers!Ended \cup {"connects", "waits", "stops", "threads"}
        /\ accepting' \subseteq {"root", "sandbox"} /\ quit' \subseteq {"root", "sandbox"}
        /\ upstream' \in {"none", "up", "root", "sandbox"}
        /\ job' \in {"none", "bootstrap", "acceptor", "notify", "done"}
    BY DEF ServerInv, Servers!TypeOK
  <2> QED
    BY <1>0, <2>1 DEF ServerInv, Servers!TypeOK
<1>2. Alive'
  BY DEF ServerInv, Servers!TypeOK, Alive
<1>3. Boots'
  BY DEF ServerInv, Servers!TypeOK, Alive, Boots, Past
<1>4. Known' /\ StartedOnce' /\ Settled'
  BY <1>0, InboxStays DEF ServerInv, Known, StartedOnce, Settled, Asked, Underway, Past
<1>5. ListsThem'
  <2>1. Servers!connect_root => m_mapServices = {}
    BY DEF ServerInv, Servers!TypeOK, Alive, Boots, Known
  <2>2. Servers!connect_root => telling["run"] = {}
    BY DEF ServerInv, ListsThem
  <2>3. user' = "stopped" => sweep # "going"
    BY DEF ServerInv, ListsThem, Servers!Busy
  <2>4. telling["run"] # {} => user' \in {"stops", "killed"}
    BY <2>2 DEF ServerInv, ListsThem
  <2>5. open' => \A n \in Services : service'[n] = "started" \/ starting'[n] = "starts" => Accounted(n)'
    BY <1>0 DEF ServerInv, ListsThem, Accounted
  <2>6. user' \in {"threads", "stopped"} => m_mapServices' \subseteq late'
    BY <1>0, <2>1 DEF ServerInv, ListsThem
  <2> QED
    BY <1>0, <2>3, <2>4, <2>5, <2>6 DEF ServerInv, ListsThem, OneTold
<1> QED
  BY <1>1, <1>2, <1>3, <1>4, <1>5 DEF ServerInv

\* An entry is taken off the list, and its service told to stop.
LEMMA EntryIsPopped ==
    ASSUME ServerInv, NEW n \in Services, NEW s \in {"run", "root"}, Servers!Pops(s, n)
    PROVE  ServerInv'
<1>1. /\ m_mapServices' = m_mapServices \ {n}
      /\ telling[s] = {} /\ (s = "run" => user = "stops") /\ (s = "root" => sweep = "going")
      /\ telling' = IF starting[n] # "creating" /\ open THEN [telling EXCEPT ![s] = {n}] ELSE telling
      /\ UNCHANGED <<main, user, m_sandbox_channel, mapped, accepting, upstream, open, job, notice, launching,
                     toLaunch, inbox, starting, service, hung, sweep, quits, quit, unsettled, late, missed>>
  BY DEF Servers!Pops, Servers!Stops, Servers!rootVars, Servers!jobVars
<1>2. telling \in [{"run", "root"} -> SUBSET Services]
  BY DEF ServerInv, Servers!TypeOK
<1>3. /\ telling' \in [{"run", "root"} -> SUBSET Services]
      /\ telling'["run"] # {} => telling["run"] # {} \/ s = "run"
      /\ telling'["root"] # {} => telling["root"] # {} \/ s = "root"
      /\ OneTold'
  BY <1>1, <1>2 DEF ServerInv, ListsThem, OneTold
<1>4. Servers!TypeOK'
  BY <1>1, <1>3 DEF ServerInv, Servers!TypeOK
<1>5. Alive' /\ Boots'
  BY <1>1 DEF ServerInv, Alive, Boots, Past
<1>6. Known' /\ StartedOnce'
  BY <1>1, InboxStays DEF ServerInv, Known, StartedOnce, Underway
<1>7. ASSUME open, NEW m \in Services, service[m] = "started" \/ starting[m] = "starts"
      PROVE  Accounted(m)'
  <2>1. Accounted(m)
    BY <1>7 DEF ServerInv, ListsThem
  <2>2. telling["run"] \subseteq telling'["run"] /\ telling["root"] \subseteq telling'["root"]
    BY <1>1, <1>2
  <2>3. CASE m = n
    <3>1. starting[n] # "creating"
      BY <1>7, <2>3 DEF ServerInv, StartedOnce, Underway
    <3>2. telling' = [telling EXCEPT ![s] = {n}]
      BY <1>1, <1>7, <3>1
    <3> QED
      BY <1>2, <2>3, <3>2 DEF Accounted
  <2>4. CASE m # n
    BY <1>1, <2>1, <2>2, <2>4 DEF Accounted
  <2> QED
    BY <2>3, <2>4
<1>8. ListsThem'
  BY <1>1, <1>3, <1>7 DEF ServerInv, ListsThem
<1>9. Settled'
  BY <1>1, InboxStays DEF ServerInv, Settled, Asked, Underway, Past
<1> QED
  BY <1>4, <1>5, <1>6, <1>8, <1>9 DEF ServerInv

LEMMA ServiceIsTold ==
    ASSUME ServerInv, NEW n \in Services, NEW s \in {"run", "root"}, Servers!Tells(s, n)
    PROVE  ServerInv'
<1>1. /\ telling' = [telling EXCEPT ![s] = {}] /\ n \in telling[s]
      /\ service' = IF service[n] = "started" /\ open THEN [service EXCEPT ![n] = "told"] ELSE service
      /\ missed' = IF starting[n] = "starts" THEN missed \cup {n} ELSE missed
      /\ UNCHANGED <<main, user, m_sandbox_channel, mapped, accepting, upstream, open, job, notice, launching,
                     toLaunch, inbox, starting, m_mapServices, hung, sweep, quits, quit, unsettled, late>>
  BY DEF Servers!Tells, Servers!rootVars, Servers!jobVars
<1>2. /\ telling \in [{"run", "root"} -> SUBSET Services]
      /\ service \in [Services -> {"off", "started", "told"}]
  BY DEF ServerInv, Servers!TypeOK
<1>3. /\ telling' \in [{"run", "root"} -> SUBSET Services]
      /\ telling'["run"] \subseteq telling["run"] /\ telling'["root"] \subseteq telling["root"]
  BY <1>1, <1>2
<1>4. /\ service' \in [Services -> {"off", "started", "told"}]
      /\ \A m \in Services : /\ service'[m] = "started" <=> service[m] = "started" /\ (m # n \/ ~open)
                             /\ service'[m] = "off" <=> service[m] = "off"
  BY <1>1, <1>2
<1>5. Servers!TypeOK'
  BY <1>1, <1>3, <1>4 DEF ServerInv, Servers!TypeOK
<1>6. Alive' /\ Boots'
  BY <1>1 DEF ServerInv, Alive, Boots, Past
<1>7. Known' /\ StartedOnce'
  BY <1>1, <1>4, InboxStays DEF ServerInv, Known, StartedOnce, Underway
<1>8. ASSUME open, NEW m \in Services, service'[m] = "started" \/ starting[m] = "starts"
      PROVE  Accounted(m)'
  <2>1. Accounted(m)
    BY <1>4, <1>8 DEF ServerInv, ListsThem
  <2>2. CASE m = n
    BY <1>1, <1>4, <1>8, <2>2 DEF Accounted
  <2>3. CASE m # n
    <3>1. m \notin telling[s]
      BY <1>1, <2>3 DEF ServerInv, ListsThem, OneTold
    <3> QED
      BY <1>1, <1>2, <2>1, <2>3, <3>1 DEF Accounted
  <2> QED
    BY <2>2, <2>3
<1>9. ListsThem'
  BY <1>1, <1>3, <1>8 DEF ServerInv, ListsThem, OneTold
<1>10. Settled'
  BY <1>1, InboxStays DEF ServerInv, Settled, Asked, Underway, Past
<1> QED
  BY <1>5, <1>6, <1>7, <1>9, <1>10 DEF ServerInv

\* Its request threads: booting, quitting, and the end of a sweep.
LEMMA SandboxServes ==
    ASSUME ServerInv,
           \/ Servers!BootFails \/ Servers!bootstrap \/ Servers!start_acceptor \/ Servers!notify_started
           \/ Servers!RootCloses \/ Servers!Swept
           \/ \E q \in DOMAIN quits : Servers!do_quit_i(q)
    PROVE  ServerInv'
<1> USE DEF Servers!BootFails, Servers!bootstrap, Servers!start_acceptor, Servers!notify_started,
        Servers!RootCloses, Servers!Swept, Servers!do_quit_i, Servers!Serves, Servers!CutBy,
        Servers!rootVars, Servers!jobVars, Servers!serviceVars
<1>0. /\ UNCHANGED <<main, user, m_sandbox_channel, mapped, launching, toLaunch, inbox, starting,
                     m_mapServices, service, telling, hung, unsettled, late, missed>>
      /\ user \in {"waits", "stops", "threads"}
      /\ quits \in [{"boot", "closed"} -> {"no", "going", "done"}]
  BY DEF ServerInv, Servers!TypeOK
<1>1. Servers!TypeOK'
  <2>1. /\ accepting' \subseteq {"root", "sandbox"} /\ quit' \subseteq {"root", "sandbox"}
        /\ upstream' \in {"none", "up", "root", "sandbox"} /\ open' \in BOOLEAN
        /\ job' \in {"none", "bootstrap", "acceptor", "notify", "done"}
        /\ notice' \in {"no", "sent", "taken"} /\ sweep' \in {"no", "going", "done"}
    BY DEF ServerInv, Servers!TypeOK
  <2>2. quits' \in [{"boot", "closed"} -> {"no", "going", "done"}]
    BY <1>0
  <2> QED
    BY <1>0, <2>1, <2>2 DEF ServerInv, Servers!TypeOK
<1>2. Alive'
  BY <1>0 DEF ServerInv, Servers!TypeOK, Alive, Servers!Ended
<1>3. Boots'
  BY <1>0 DEF ServerInv, Servers!TypeOK, Boots, Past
<1>4. Known' /\ StartedOnce'
  <2>1. notice = "taken" => notice' = "taken"
    BY DEF ServerInv, Boots
  <2> QED
    BY <1>0, <2>1, InboxStays DEF ServerInv, Known, StartedOnce, Underway
<1>5. ListsThem'
  BY <1>0 DEF ServerInv, Servers!TypeOK, ListsThem, Accounted, OneTold
<1>6. Settled'
  <2>1. notice = "taken" => notice' = "taken"
    BY DEF ServerInv, Boots
  <2>2. /\ Asked' => Asked
        /\ sweep' = "done" => sweep = "done" \/ m_mapServices = {}
    BY <1>0, InboxStays DEF Asked
  <2> QED
    BY <1>0, <2>1, <2>2, InboxStays DEF ServerInv, Settled, Underway, Past
<1> QED
  BY <1>1, <1>2, <1>3, <1>4, <1>5, <1>6 DEF ServerInv

LEMMA RequestIsTaken ==
    ASSUME ServerInv, Servers!Takes
    PROVE  ServerInv'
<1> PICK h : h = Head(inbox)
  OBVIOUS
<1>1. /\ inbox # <<>> /\ inbox' = Tail(inbox) /\ inbox \in Seq(Services \cup {Servers!All})
      /\ \/ h = Servers!All /\ sweep' = "going" /\ starting' = starting
         \/ h # Servers!All /\ sweep' = sweep /\ starting' = [starting EXCEPT ![h] = "req"]
      /\ UNCHANGED <<main, user, m_sandbox_channel, mapped, accepting, upstream, open, job, notice, launching,
                     toLaunch, m_mapServices, service, telling, hung, quits, quit, unsettled, late, missed>>
      /\ user \in {"waits", "stops", "threads"}
  BY DEF Servers!Takes, Servers!Serves, Servers!rootVars, Servers!jobVars, ServerInv, Servers!TypeOK
<1>2. /\ inbox' \in Seq(Services \cup {Servers!All}) /\ h \in Services \cup {Servers!All}
      /\ \A n : Servers!InTheInbox(n)' => Servers!InTheInbox(n)
      /\ Servers!InTheInbox(h)
      /\ InboxOnce' /\ (h # Servers!All => ~Servers!InTheInbox(h)')
  BY <1>1, InboxIsTaken DEF ServerInv, StartedOnce
<1>3. starting \in [Services -> {"no", "req", "creating", "starts"}]
  BY DEF ServerInv, Servers!TypeOK
<1>4. \A n \in Services : starting'[n] = IF n = h THEN "req" ELSE starting[n]
  BY <1>1, <1>2, <1>3, AllIsNone
<1>5. \A n \in Services : Underway(n)' => Underway(n)
  BY <1>1, <1>2, <1>4 DEF Underway
<1>6. Servers!TypeOK'
  <2>1. starting' \in [Services -> {"no", "req", "creating", "starts"}] /\ sweep' \in {"no", "going", "done"}
    BY <1>1, <1>2, <1>3 DEF ServerInv, Servers!TypeOK
  <2> QED
    BY <1>1, <1>2, <2>1 DEF ServerInv, Servers!TypeOK
<1>7. Alive' /\ Boots' /\ ListsThem'
  <2>1. Alive' /\ Boots'
    BY <1>1 DEF ServerInv, Alive, Boots, Past
  <2>2. \A n \in Services : starting'[n] = "starts" => starting[n] = "starts"
    BY <1>4
  <2>3. ASSUME open', NEW n \in Services, service'[n] = "started" \/ starting'[n] = "starts"
        PROVE  Accounted(n)'
    BY <1>1, <2>2, <2>3 DEF ServerInv, ListsThem, Accounted
  <2>4. OneTold'
    BY <1>1 DEF ServerInv, ListsThem, OneTold
  <2> QED
    BY <1>1, <2>1, <2>3, <2>4 DEF ServerInv, ListsThem
<1>8. Known'
  BY <1>1, <1>5 DEF ServerInv, Known
<1>9. StartedOnce'
  BY <1>1, <1>2, <1>4, <1>5, AllIsNone DEF ServerInv, StartedOnce
<1>10. Settled'
  <2>1. Asked' => Asked
    BY <1>1, <1>2 DEF Asked
  <2>2. sweep' = "done" => sweep = "done"
    BY <1>1
  <2> QED
    BY <1>1, <1>5, <2>1, <2>2 DEF ServerInv, Settled, Past
<1> QED
  BY <1>6, <1>7, <1>8, <1>9, <1>10 DEF ServerInv

LEMMA ServiceStarts ==
    ASSUME ServerInv, NEW n \in Services,
           Servers!StartBegins(n) \/ Servers!StartFills(n) \/ Servers!StartEnds(n)
    PROVE  ServerInv'
<1>0. /\ UNCHANGED <<main, user, m_sandbox_channel, mapped, accepting, upstream, open, job, notice, launching,
                     toLaunch, inbox, telling, hung, sweep, quits, quit, unsettled, missed>>
      /\ starting \in [Services -> {"no", "req", "creating", "starts"}] /\ starting[n] # "no"
      /\ service \in [Services -> {"off", "started", "told"}]
      /\ user \in {"waits", "stops", "threads"}
  BY DEF Servers!StartBegins, Servers!StartFills, Servers!StartEnds, Servers!rootVars, Servers!jobVars,
         ServerInv, Servers!TypeOK, Servers!Serves
<1>1. /\ service[n] = "off" /\ Underway(n) /\ n \notin toLaunch /\ ~Servers!InTheInbox(n)
      /\ m_sandbox_channel /\ notice = "taken"
  BY <1>0 DEF ServerInv, Known, StartedOnce, Underway
<1>2. Asked => n \in unsettled
  BY <1>1 DEF ServerInv, Settled
<1>3. CASE Servers!StartBegins(n)
  <2>1. /\ starting' = [starting EXCEPT ![n] = "creating"] /\ m_mapServices' = m_mapServices \cup {n}
        /\ late' = (IF user = "threads" THEN late \cup {n} ELSE late) /\ service' = service
    BY <1>3 DEF Servers!StartBegins
  <2>2. \A m \in Services : /\ starting'[m] = "no" <=> starting[m] = "no"
                            /\ starting'[m] = "starts" => starting[m] = "starts"
    BY <1>0, <2>1
  <2>3. \A m \in Services : Underway(m)' <=> Underway(m)
    BY <1>0, <2>2, InboxStays DEF Underway
  <2>4. Servers!TypeOK' /\ Alive' /\ Boots'
    BY <1>0, <2>1 DEF ServerInv, Servers!TypeOK, Alive, Boots, Past
  <2>5. Known' /\ StartedOnce'
    BY <1>0, <1>1, <2>1, <2>2, <2>3, InboxStays DEF ServerInv, Known, StartedOnce
  <2>6. ListsThem'
    BY <1>0, <2>1, <2>2 DEF ServerInv, ListsThem, OneTold, Accounted
  <2>7. Settled'
    BY <1>0, <1>2, <2>1, <2>3, InboxStays DEF ServerInv, Settled, Asked, Past
  <2> QED
    BY <2>4, <2>5, <2>6, <2>7 DEF ServerInv
<1>4. CASE Servers!StartFills(n) \/ Servers!StartEnds(n)
  <2>1. /\ late' = late
        /\ \/ /\ starting' = [starting EXCEPT ![n] = "starts"] /\ n \in m_mapServices
              /\ m_mapServices' = m_mapServices /\ service' = service
           \/ /\ starting' = [starting EXCEPT ![n] = "no"]
              /\ m_mapServices' \in {m_mapServices, m_mapServices \ {n}} /\ service' = service
           \/ /\ starting' = [starting EXCEPT ![n] = "no"] /\ starting[n] = "starts"
              /\ m_mapServices' = m_mapServices /\ service' = [service EXCEPT ![n] = "started"]
    BY <1>4 DEF Servers!StartFills, Servers!StartEnds
  <2>2. /\ starting' \in [Services -> {"no", "req", "creating", "starts"}]
        /\ starting'[n] \in {"no", "starts"} /\ \A m \in Services \ {n} : starting'[m] = starting[m]
        /\ service' \in [Services -> {"off", "started", "told"}]
        /\ \A m \in Services \ {n} : service'[m] = service[m]
        /\ service'[n] # "off" => starting[n] = "starts" /\ starting'[n] = "no"
        /\ m_mapServices' \subseteq m_mapServices /\ \A m \in m_mapServices : m # n => m \in m_mapServices'
    BY <1>0, <1>1, <2>1
  <2>3. \A m \in Services : Underway(m)' => Underway(m)
    BY <1>0, <1>1, <2>2, InboxStays DEF Underway
  <2>4. Servers!TypeOK'
    <3>1. late' \subseteq Services /\ m_mapServices' \subseteq Services
      BY <2>1, <2>2 DEF ServerInv, Servers!TypeOK
    <3> QED
      BY <1>0, <2>2, <3>1 DEF ServerInv, Servers!TypeOK
  <2>5. Alive' /\ Boots'
    BY <1>0 DEF ServerInv, Alive, Boots, Past
  <2>6. Known'
    <3>1. ASSUME NEW m \in Services PROVE service'[m] # "off" \/ m \in m_mapServices' \/ Underway(m)'
                                            => service[m] # "off" \/ m \in m_mapServices \/ Underway(m)
      BY <1>1, <2>2, <2>3
    <3> QED
      BY <1>0, <3>1 DEF ServerInv, Known
  <2>7. StartedOnce'
    <3>1. ASSUME NEW m \in Services, service'[m] # "off" PROVE ~Underway(m)'
      <4>1. CASE m = n
        BY <1>0, <1>1, <2>2, <3>1, <4>1, InboxStays DEF Underway
      <4>2. CASE m # n
        BY <2>2, <2>3, <3>1, <4>2 DEF ServerInv, StartedOnce
      <4> QED
        BY <4>1, <4>2
    <3>2. \A m \in Services : starting[m] = "no" => starting'[m] = "no"
      BY <1>0, <2>2
    <3> QED
      BY <1>0, <3>1, <3>2, InboxStays DEF ServerInv, StartedOnce
  <2>8. ListsThem'
    <3>1. ASSUME open, NEW m \in Services, service'[m] = "started" \/ starting'[m] = "starts"
          PROVE  Accounted(m)'
      <4>1. CASE m = n
        <5>1. CASE n \in m_mapServices /\ m_mapServices' = m_mapServices
          BY <4>1, <5>1 DEF Accounted
        <5>2. CASE starting[n] = "starts" /\ m_mapServices' = m_mapServices
          BY <1>0, <3>1, <4>1, <5>2 DEF ServerInv, ListsThem, Accounted
        <5> QED
          BY <1>0, <1>1, <2>1, <3>1, <4>1, <5>1, <5>2
      <4>2. CASE m # n
        BY <1>0, <2>2, <3>1, <4>2 DEF ServerInv, ListsThem, Accounted
      <4> QED
        BY <4>1, <4>2
    <3> QED
      BY <1>0, <2>1, <2>2, <3>1 DEF ServerInv, ListsThem, OneTold
  <2>9. Settled'
    BY <1>0, <2>2, <2>3, InboxStays DEF ServerInv, Settled, Asked, Past
  <2> QED
    BY <2>4, <2>5, <2>6, <2>7, <2>8, <2>9 DEF ServerInv
<1> QED
  BY <1>3, <1>4

\* A host hangs: nothing moves.
LEMMA HostHangs ==
    ASSUME ServerInv, NEW n \in Services, Servers!Hangs(n)
    PROVE  ServerInv'
<1>1. /\ hung' = hung \cup {n}
      /\ UNCHANGED <<main, user, m_sandbox_channel, mapped, accepting, upstream, open, job, notice, launching,
                     toLaunch, inbox, starting, m_mapServices, service, telling, sweep, quits, quit, unsettled,
                     late, missed>>
  BY DEF Servers!Hangs, Servers!rootVars, Servers!jobVars
<1>2. Servers!TypeOK' /\ Alive' /\ Boots' /\ ListsThem'
  BY <1>1 DEF ServerInv, Servers!TypeOK, Alive, Boots, Past, ListsThem, Accounted, OneTold
<1>3. Known' /\ StartedOnce' /\ Settled'
  BY <1>1, InboxStays DEF ServerInv, Known, StartedOnce, Settled, Asked, Underway, Past
<1> QED
  BY <1>2, <1>3 DEF ServerInv

LEMMA ServerInit ==
    ASSUME NEW spot \in {"load", "stopped"}, Servers!InitAt(spot)
    PROVE  ServerInv
<1>1. inbox \in Seq(Services \cup {Servers!All}) /\ DOMAIN inbox = {}
  BY EmptySeq DEF Servers!InitAt
<1>2. \A n : ~Servers!InTheInbox(n)
  BY <1>1 DEF Servers!InTheInbox
<1>3. Servers!TypeOK
  BY <1>1 DEF Servers!InitAt, Servers!TypeOK, Servers!Ended
<1>4. Alive /\ Boots
  BY DEF Servers!InitAt, Alive, Boots, Servers!Ended
<1>5. Known /\ StartedOnce /\ ListsThem /\ Settled
  BY <1>1, <1>2 DEF Servers!InitAt, Known, StartedOnce, InboxOnce, ListsThem, Settled, Asked, Underway,
                    Accounted, OneTold
<1> QED
  BY <1>3, <1>4, <1>5 DEF ServerInv

LEMMA ServerStep ==
    ASSUME ServerInv, [Servers!Next]_serverVars
    PROVE  ServerInv'
<1>1. CASE UNCHANGED serverVars
  <2>1. Servers!TypeOK' /\ Alive' /\ Boots'
    BY <1>1 DEF serverVars, ServerInv, Servers!TypeOK, Alive, Boots
  <2>2. Known' /\ StartedOnce' /\ ListsThem' /\ Settled'
    BY <1>1, InboxStays DEF serverVars, ServerInv, Known, StartedOnce, ListsThem, Settled, Asked, Underway,
                            Accounted, OneTold
  <2> QED
    BY <2>1, <2>2 DEF ServerInv
<1>2. CASE Servers!RootMain
  BY <1>2, RootGoesOn, RootAsks
<1>3. CASE Servers!UserMain
  BY <1>3, SandboxGoesOn, EntryIsPopped, ServiceIsTold DEF Servers!UserMain
<1>4. CASE Servers!UserThreads
  BY <1>4, SandboxServes, RequestIsTaken, ServiceStarts, EntryIsPopped, ServiceIsTold DEF Servers!UserThreads
<1> QED
  BY <1>1, <1>2, <1>3, <1>4, RootStarts, SandboxGoesOn, HostHangs DEF Servers!Next

LEMMA ServersEnd ==
    ASSUME ServerInv
    PROVE  Servers!ServersEndWhole
<1>1. Servers!Running # {} => m_sandbox_channel /\ job = "done" /\ notice = "taken"
  BY DEF ServerInv, Known, Boots, Servers!Running
<1>2. open => Servers!Running \subseteq m_mapServices \cup Servers!Telling \cup missed
  BY DEF ServerInv, ListsThem, Accounted, Servers!Running, Servers!Telling
<1>3. ASSUME main \in {"closes", "channels"}, sweep = "done", Servers!Running # {}
      PROVE  Servers!Running \subseteq unsettled \cup telling["run"] \cup missed
  <2>1. open
    BY <1>1, <1>3 DEF ServerInv, Servers!TypeOK, Boots, Past
  <2>2. telling["root"] = {} /\ m_mapServices \subseteq unsettled
    BY <1>3 DEF ServerInv, ListsThem, Settled
  <2> QED
    BY <1>2, <2>1, <2>2 DEF Servers!Telling
<1>4. user = "stopped" /\ open => Servers!Running \subseteq late \cup missed
  <2>1. user = "stopped" => telling["run"] = {} /\ telling["root"] = {} /\ m_mapServices \subseteq late
    BY DEF ServerInv, ListsThem
  <2> QED
    BY <1>2, <2>1 DEF Servers!Telling
<1> QED
  BY <1>1, <1>2, <1>3, <1>4 DEF ServerInv, Alive, Servers!ServersEndWhole

-----------------------------------------------------------------------------
\* The singletons: what sequences of entries do as one is added, popped or removed.
Distinct(seq) == \A a, b \in DOMAIN seq : seq[a] = seq[b] => a = b

LEMMA AddsEntry ==
    ASSUME NEW S, NEW seq \in Seq(S), NEW x \in S
    PROVE  /\ Append(seq, x) \in Seq(S)
           /\ Sngtn!ToSet(Append(seq, x)) = Sngtn!ToSet(seq) \cup {x}
           /\ Distinct(seq) /\ x \notin Sngtn!ToSet(seq) => Distinct(Append(seq, x))
<1> PICK r : r = Append(seq, x)
  OBVIOUS
<1>1. PICK k \in Nat : k = Len(seq) /\ DOMAIN seq = 1..k
  BY LenProperties
<1>2. /\ r \in Seq(S) /\ Len(r) = k + 1
      /\ \A i \in 1..k : r[i] = seq[i]
      /\ r[k + 1] = x
  BY <1>1, AppendProperties
<1>3. DOMAIN r = 1..k + 1 /\ \A i \in 1..k + 1 : i \in 1..k \/ i = k + 1
  BY <1>1, <1>2, LenProperties
<1>4. (\A i \in 1..k : i \in 1..k + 1) /\ k + 1 \in 1..k + 1
  BY <1>1
<1>5. \A y : y \in Sngtn!ToSet(r) <=> y \in Sngtn!ToSet(seq) \/ y = x
  BY <1>1, <1>2, <1>3, <1>4 DEF Sngtn!ToSet
<1>6. Distinct(seq) /\ x \notin Sngtn!ToSet(seq) => Distinct(r)
  BY <1>1, <1>2, <1>3 DEF Distinct, Sngtn!ToSet
<1> QED
  BY <1>2, <1>5, <1>6

LEMMA PopsEntry ==
    ASSUME NEW S, NEW seq \in Seq(S), seq # <<>>
    PROVE  /\ Sngtn!Popped(seq) \in Seq(S) /\ Sngtn!Last(seq) \in S
           /\ Sngtn!Last(seq) \in Sngtn!ToSet(seq)
           /\ Distinct(seq) => /\ Distinct(Sngtn!Popped(seq))
                               /\ Sngtn!ToSet(Sngtn!Popped(seq)) = Sngtn!ToSet(seq) \ {Sngtn!Last(seq)}
<1> PICK r : r = Sngtn!Popped(seq)
  OBVIOUS
<1>1. PICK k \in Nat : k = Len(seq) /\ DOMAIN seq = 1..k /\ k > 0 /\ seq \in [1..k -> S]
  BY LenProperties, EmptySeq
<1>2. PICK m \in Nat : k = m + 1 /\ k - 1 = m
  <2>1. k - 1 \in Nat /\ k = (k - 1) + 1
    BY <1>1
  <2> QED
    BY <2>1
<1>3. \A i \in 1..m : i \in 1..k /\ i # k /\ 1 + i - 1 = i
  BY <1>2
<1>4. /\ k \in 1..k /\ \A i \in 1..k : i = k \/ i \in 1..m
      /\ (IF 1 <= m THEN m - 1 + 1 ELSE 0) = m /\ m - 1 + 1 = m
  BY <1>2
<1>5. r \in Seq(S) /\ DOMAIN r = 1..m /\ \A i \in 1..m : r[i] = seq[i]
  <2>1. r = SubSeq(seq, 1, m) /\ \A i \in 1..m : seq[i] \in S
    BY <1>1, <1>2, <1>3 DEF Sngtn!Popped
  <2>2. r \in Seq(S) /\ Len(r) = m /\ \A i \in 1..m : r[i] = seq[1 + i - 1]
    BY <1>4, <2>1, SubSeqProperties
  <2> QED
    BY <1>3, <2>2, LenProperties
<1>6. r \in Seq(S)
  BY <1>5
<1>7. Sngtn!Last(seq) = seq[k]
  BY <1>1 DEF Sngtn!Last
<1>8. Distinct(seq) => Distinct(r)
  BY <1>1, <1>3, <1>5 DEF Distinct
<1>9. ASSUME Distinct(seq) PROVE \A y : y \in Sngtn!ToSet(r) <=> y \in Sngtn!ToSet(seq) /\ y # seq[k]
  BY <1>1, <1>3, <1>4, <1>5, <1>9 DEF Distinct, Sngtn!ToSet
<1> QED
  BY <1>1, <1>4, <1>6, <1>7, <1>8, <1>9 DEF Sngtn!ToSet

LEMMA RemovesEntry ==
    ASSUME NEW S, NEW seq \in Seq(S), NEW x, Distinct(seq)
    PROVE  /\ Sngtn!WithoutEntry(seq, x) \in Seq(S) /\ Distinct(Sngtn!WithoutEntry(seq, x))
           /\ Sngtn!ToSet(Sngtn!WithoutEntry(seq, x)) = Sngtn!ToSet(seq) \ {x}
<1> PICK r : r = Sngtn!WithoutEntry(seq, x)
  OBVIOUS
<1>1. PICK k \in Nat : k = Len(seq) /\ DOMAIN seq = 1..k /\ seq \in [1..k -> S]
  BY LenProperties
<1>2. CASE ~\E i \in 1..k : seq[i] = x
  <2>1. r = seq
    BY <1>1, <1>2 DEF Sngtn!WithoutEntry, Sngtn!RemoveFirst
  <2>2. x \notin Sngtn!ToSet(seq)
    BY <1>1, <1>2 DEF Sngtn!ToSet
  <2> QED
    BY <2>1, <2>2
<1>3. ASSUME NEW p \in 1..k, seq[p] = x
      PROVE  /\ r \in Seq(S) /\ Distinct(r)
             /\ Sngtn!ToSet(r) = Sngtn!ToSet(seq) \ {x}
  <2>1. {i \in 1..k : seq[i] = x} = {p}
    BY <1>1, <1>3 DEF Distinct
  <2>2. Sngtn!Min({p}) = p
    BY <1>1 DEF Sngtn!Min
  <2>3. Sngtn!SelectInSeq(seq, LAMBDA v : v = x) = p
    BY <1>1, <2>1, <2>2 DEF Sngtn!SelectInSeq
  <2>4. r = SubSeq(seq, 1, p - 1) \o SubSeq(seq, p + 1, k)
    BY <1>1, <1>3, <2>3 DEF Sngtn!WithoutEntry, Sngtn!RemoveFirst, Sngtn!RemoveAt
  <2>5. PICK m \in Nat : k = m + 1 /\ p \in 1..m + 1
    <3>1. k - 1 \in Nat /\ k = (k - 1) + 1
      BY <1>1, <1>3
    <3> QED
      BY <3>1, <1>3
  <2>6. \A i \in 1..m : IF i < p THEN i \in 1..k /\ i # p ELSE i + 1 \in 1..k /\ i + 1 # p
    BY <2>5
  <2>7. \A i \in 1..k : i # p => (i < p /\ i \in 1..m) \/ (\E j \in 1..m : ~(j < p) /\ j + 1 = i)
    <3>1. ASSUME NEW i \in 1..k, i # p, ~(i < p)
          PROVE  i - 1 \in 1..m /\ ~(i - 1 < p) /\ (i - 1) + 1 = i
      BY <2>5, <3>1
    <3>2. \A i \in 1..k : i < p => i \in 1..m
      BY <2>5
    <3> QED
      BY <3>1, <3>2
  <2>8. r \in [1..m -> S] /\ \A i \in 1..m : r[i] = IF i < p THEN seq[i] ELSE seq[i + 1]
    <3>1. PICK q \in Nat : p = q + 1 /\ p - 1 = q /\ q <= m
      <4>1. p - 1 \in Nat /\ p = (p - 1) + 1 /\ p - 1 <= m
        BY <2>5
      <4> QED
        BY <4>1
    <3>2. PICK a : a = SubSeq(seq, 1, p - 1)
      OBVIOUS
    <3>3. PICK b : b = SubSeq(seq, p + 1, k)
      OBVIOUS
    <3>4. a \in Seq(S) /\ Len(a) = q /\ \A i \in 1..q : a[i] = seq[i]
      <4>1. a = SubSeq(seq, 1, q) /\ (IF 1 <= q THEN q - 1 + 1 ELSE 0) = q /\ q - 1 + 1 = q
        BY <3>1, <3>2
      <4>2. \A i \in 1..q : seq[i] \in S /\ 1 + i - 1 = i
        BY <1>1, <2>5, <3>1
      <4>3. a \in Seq(S) /\ Len(a) = q /\ \A i \in 1..q : a[i] = seq[1 + i - 1]
        BY <4>1, <4>2, SubSeqProperties
      <4> QED
        BY <4>2, <4>3
    <3>5. b \in Seq(S) /\ Len(b) = m - q /\ \A i \in 1..m - q : b[i] = seq[q + i + 1]
      <4>1. /\ (IF p + 1 <= k THEN k - (p + 1) + 1 ELSE 0) = m - q
            /\ k - (p + 1) + 1 = m - q /\ p + 1 \in Int /\ k \in Int
        BY <2>5, <3>1
      <4>2. \A i \in p + 1..k : seq[i] \in S
        BY <1>1
      <4>3. b \in Seq(S) /\ Len(b) = m - q /\ \A i \in 1..m - q : b[i] = seq[p + 1 + i - 1]
        BY <3>3, <4>1, <4>2, SubSeqProperties
      <4>4. \A i \in 1..m - q : p + 1 + i - 1 = q + i + 1
        BY <3>1
      <4> QED
        BY <4>3, <4>4
    <3>6. PICK n \in Nat : n = m - q /\ q + n = m
      <4>1. m - q \in Nat /\ q + (m - q) = m
        BY <3>1
      <4> QED
        BY <4>1
    <3>7. r \in Seq(S) /\ Len(r) = m /\ \A i \in 1..m : r[i] = IF i <= q THEN a[i] ELSE b[i - q]
      <4>1. r = a \o b
        BY <2>4, <3>2, <3>3, Zenon
      <4>2. Len(a) = q /\ Len(b) = n
        BY <3>4, <3>5, <3>6
      <4>3. /\ a \o b \in Seq(S) /\ Len(a \o b) = Len(a) + Len(b)
            /\ \A i \in 1..Len(a) + Len(b) : (a \o b)[i] = IF i <= Len(a) THEN a[i] ELSE b[i - Len(a)]
        BY <3>4, <3>5, ConcatProperties
      <4>4. Len(a) + Len(b) = m
        BY <4>2, <3>6
      <4> QED
        BY <4>1, <4>2, <4>3, <4>4
    <3>8. ASSUME NEW i \in 1..m
          PROVE  r[i] = IF i < p THEN seq[i] ELSE seq[i + 1]
      <4>1. CASE i <= q
        BY <3>1, <3>4, <3>7, <4>1
      <4>2. CASE ~(i <= q)
        <5>1. i - q \in 1..m - q /\ q + (i - q) + 1 = i + 1
          BY <3>1, <4>2
        <5>2. b[i - q] = seq[q + (i - q) + 1]
          BY <3>5, <5>1
        <5> QED
          BY <3>1, <3>7, <4>2, <5>1, <5>2
      <4> QED
        BY <4>1, <4>2
    <3>9. \A i \in 1..m : r[i] \in S
      BY <1>1, <2>6, <3>8
    <3> QED
      BY <3>7, <3>8, <3>9, LenProperties
  <2>9. r \in Seq(S) /\ DOMAIN r = 1..m
    BY <2>5, <2>8, SeqDef
  <2>10. Distinct(r)
    BY <1>1, <2>6, <2>8, <2>9 DEF Distinct
  <2>11. \A y : y \in Sngtn!ToSet(r) <=> y \in Sngtn!ToSet(seq) /\ y # x
    <3>1. ASSUME NEW i \in 1..m
          PROVE  \E j \in 1..k : j # p /\ r[i] = seq[j]
      BY <2>6, <2>8
    <3>2. ASSUME NEW j \in 1..k, j # p
          PROVE  \E i \in 1..m : r[i] = seq[j]
      BY <2>7, <2>8, <3>2
    <3>3. \A j \in 1..k : seq[j] = x <=> j = p
      BY <1>1, <1>3 DEF Distinct
    <3> QED
      BY <1>1, <2>9, <3>1, <3>2, <3>3 DEF Sngtn!ToSet
  <2> QED
    BY <2>9, <2>10, <2>11
<1> QED
  BY <1>2, <1>3

-----------------------------------------------------------------------------
EndsWithOmega(i) == singles[i].of \in AtUninit
Begins(i) == \E t \in Threads : on[t] = i /\ place[t] = "init"
Adds(i) == \E t \in Threads : on[t] = i /\ place[t] = "add"
Closes(t, i) == on[t] = i /\ place[t] \in {"guard2", "destructs"}
Ended(i) == \E t \in Threads : Closes(t, i)
Unloaded(i) == \E t \in Threads : on[t] = i /\ place[t] = "destroys"
InUninit(i) == i \in Sngtn!ToSet(uninit)
InStack(i) == i \in Sngtn!ToSet(stack)

\* Who is in the middle of an instance has one, and nobody else has the lock but who
\* makes one or destroys it; a singleton's pointer is to one of its own instances.
PlacesFit ==
    /\ on \in [Threads -> Singles \cup Nat \cup {Nobody}]
    /\ \A t \in Threads :
          /\ place[t] \in {"init", "add", "guard2", "destructs", "destroys"} => on[t] \in DOMAIN singles
          /\ place[t] = "once" => on[t] \in Singles
          /\ place[t] \in {"init", "add", "destructs"} <=> lock = t
    /\ \A s \in Singles : instance[s] # Nobody => singles[instance[s]].of = s

\* The module is unloaded once at a time, when nobody makes a singleton.
OneUnloads ==
    /\ \A t, u \in Threads : place[t] \in {"unload", "destroys"} /\ place[u] \in {"unload", "destroys"} => t = u
    /\ Sngtn!Unloading => \A t \in Threads : place[t] \notin {"once", "init", "add"}
    /\ ~crossed => ~(Sngtn!Closing /\ Sngtn!Unloading)

\* An instance has an entry at most once, and none any more when it is being destroyed
\* by way of that entry, or not yet.
EntriesFit ==
    /\ Distinct(uninit) /\ Distinct(stack)
    /\ \A i \in DOMAIN singles :
          /\ InUninit(i) => ~Ended(i)
          /\ \A t, u \in Threads : Closes(t, i) /\ Closes(u, i) => t = u
          /\ InStack(i) => ~Begins(i) /\ ~Adds(i) /\ ~Unloaded(i)
          /\ Begins(i) => ~InUninit(i) /\ ~Ended(i)
          /\ InUninit(i) \/ Ended(i) => EndsWithOmega(i)

Gone(i) == singles[i].is = "gone"

\* An instance is what its singleton's pointer is to until it is gone, has either
\* entry or is where that one is made or used, and nothing when it is gone.
Whole(i) ==
    /\ ~Gone(i) <=> instance[singles[i].of] = i
    /\ Begins(i) \/ Adds(i) => ~Gone(i)
    /\ ~Gone(i) => InStack(i) \/ Begins(i) \/ Adds(i) \/ Unloaded(i)
    /\ ~Gone(i) /\ EndsWithOmega(i) => InUninit(i) \/ Begins(i) \/ Ended(i)
    /\ Gone(i) /\ ~broken => ~InStack(i) /\ ~InUninit(i) /\ ~Ended(i) /\ ~Unloaded(i)
    /\ i \in freed => Gone(i)

AllWhole ==
    ~crossed =>
        /\ broken => raced # {}
        /\ \A i \in DOMAIN singles : singles[i].of \notin raced => Whole(i)

SngtnInv == Sngtn!TypeOK /\ PlacesFit /\ OneUnloads /\ EntriesFit /\ AllWhole

-----------------------------------------------------------------------------
LEMMA GoesThere ==
    ASSUME SngtnInv, NEW t \in Threads, NEW p, NEW w, Sngtn!Goes(t, p, w)
    PROVE  \A u \in Threads : /\ place'[u] = IF u = t THEN p ELSE place[u]
                              /\ on'[u] = IF u = t THEN w ELSE on[u]
  BY DEF SngtnInv, Sngtn!TypeOK, PlacesFit, Sngtn!Goes

LEMMA OneIsOf ==
    ASSUME SngtnInv, NEW i \in DOMAIN singles
    PROVE  i \in Nat /\ singles[i].of \in Singles /\ singles[i].is \in {"raw", "built", "gone"}
<1> DEFINE Made == [of : Singles, is : {"raw", "built", "gone"}]
<1>1. PICK k \in Nat : DOMAIN singles = 1..k /\ singles \in [1..k -> Made]
  BY LenProperties DEF SngtnInv, Sngtn!TypeOK
<1> HIDE DEF Made
<1>2. i \in Nat /\ singles[i] \in Made
  BY <1>1
<1> QED
  BY <1>2 DEF Made

LEMMA OneBecomes ==
    ASSUME SngtnInv, NEW i \in DOMAIN singles, NEW what \in {"raw", "built", "gone"}, Sngtn!Becomes(i, what)
    PROVE  /\ singles' \in Seq([of : Singles, is : {"raw", "built", "gone"}]) /\ Len(singles') <= MaxMade
           /\ DOMAIN singles' = DOMAIN singles
           /\ \A j \in DOMAIN singles : /\ singles'[j].of = singles[j].of
                                        /\ singles'[j].is = IF j = i THEN what ELSE singles[j].is
<1> DEFINE Made == [of : Singles, is : {"raw", "built", "gone"}]
<1>1. singles \in Seq(Made) /\ Len(singles) <= MaxMade
  BY DEF SngtnInv, Sngtn!TypeOK
<1>2. PICK k \in Nat : k = Len(singles) /\ DOMAIN singles = 1..k /\ singles \in [1..k -> Made]
  BY <1>1, LenProperties
<1> HIDE DEF Made
<1>3. singles' = [singles EXCEPT ![i].is = what]
  BY DEF Sngtn!Becomes
<1>4. /\ DOMAIN singles' = DOMAIN singles /\ singles' \in [1..k -> Made]
      /\ \A j \in DOMAIN singles : /\ singles'[j].of = singles[j].of
                                   /\ singles'[j].is = IF j = i THEN what ELSE singles[j].is
  BY <1>2, <1>3 DEF Made
<1>5. singles' \in Seq(Made) /\ Len(singles') = k
  BY <1>2, <1>4, SeqDef, LenProperties
<1> QED
  BY <1>1, <1>2, <1>4, <1>5 DEF Made

\* A step that has no part in an instance, and ends no singleton.
LEMMA QuietKeeps ==
    ASSUME SngtnInv, NEW t \in Threads, NEW p, NEW w, Sngtn!Goes(t, p, w),
           place[t] \notin {"init", "add", "guard2", "destructs", "destroys"},
           p \in {"idle", "once", "close", "unload"}, p = "once" => w \in Singles,
           w \in Singles \cup {Nobody}, crossed => crossed',
           UNCHANGED <<instance, singles, lock, uninit, stack, freed, raced, broken>>
    PROVE  Sngtn!TypeOK' /\ PlacesFit' /\ EntriesFit' /\ AllWhole'
<1> USE SessionAssumption
<1>1. \A u \in Threads : /\ place'[u] = IF u = t THEN p ELSE place[u]
                         /\ on'[u] = IF u = t THEN w ELSE on[u]
  BY GoesThere
<1>2. Sngtn!TypeOK'
  BY DEF SngtnInv, Sngtn!TypeOK, Sngtn!Goes
<1>3. PlacesFit'
  BY <1>1 DEF SngtnInv, PlacesFit, Sngtn!Goes
<1>4. \A i : /\ \A u \in Threads : Closes(u, i)' <=> Closes(u, i)
             /\ (Begins(i)' <=> Begins(i)) /\ (Adds(i)' <=> Adds(i))
             /\ (Ended(i)' <=> Ended(i)) /\ (Unloaded(i)' <=> Unloaded(i))
  BY <1>1 DEF Begins, Adds, Closes, Ended, Unloaded
<1>5. \A i : /\ (InUninit(i)' <=> InUninit(i)) /\ (InStack(i)' <=> InStack(i))
             /\ (EndsWithOmega(i)' <=> EndsWithOmega(i)) /\ (Gone(i)' <=> Gone(i))
  BY DEF InUninit, InStack, EndsWithOmega, Gone
<1>6. EntriesFit'
  BY <1>4, <1>5 DEF SngtnInv, EntriesFit
<1>7. AllWhole'
  BY <1>4, <1>5 DEF SngtnInv, AllWhole, Whole
<1> QED
  BY <1>2, <1>3, <1>6, <1>7

LEMMA LookKeeps ==
    ASSUME SngtnInv, NEW t \in Threads, NEW s \in Singles, Sngtn!Look(t, s)
    PROVE  SngtnInv'
<1>1. Sngtn!TypeOK' /\ PlacesFit' /\ EntriesFit' /\ AllWhole'
  BY QuietKeeps DEF Sngtn!Look
<1>2. OneUnloads'
  BY GoesThere DEF SngtnInv, OneUnloads, Sngtn!Look, Sngtn!Unloading, Sngtn!Closing
<1> QED
  BY <1>1, <1>2 DEF SngtnInv

LEMMA CloseSingletonsKeeps ==
    ASSUME SngtnInv, NEW t \in Threads, Sngtn!CloseSingletons(t)
    PROVE  SngtnInv'
<1>1. Sngtn!TypeOK' /\ PlacesFit' /\ EntriesFit' /\ AllWhole'
  BY QuietKeeps DEF Sngtn!CloseSingletons
<1>2. OneUnloads'
  <2>1. \A u \in Threads : place'[u] = IF u = t THEN "close" ELSE place[u]
    BY GoesThere DEF Sngtn!CloseSingletons
  <2>2. place[t] = "idle" /\ (~crossed' => ~crossed /\ ~Sngtn!Unloading)
    BY DEF Sngtn!CloseSingletons
  <2> QED
    BY <2>1, <2>2 DEF SngtnInv, OneUnloads, Sngtn!Unloading, Sngtn!Closing
<1> QED
  BY <1>1, <1>2 DEF SngtnInv

LEMMA UnloadKeeps ==
    ASSUME SngtnInv, NEW t \in Threads, Sngtn!Unload(t)
    PROVE  SngtnInv'
<1>1. Sngtn!TypeOK' /\ PlacesFit' /\ EntriesFit' /\ AllWhole'
  BY QuietKeeps DEF Sngtn!Unload
<1>2. OneUnloads'
  <2>1. \A u \in Threads : place'[u] = IF u = t THEN "unload" ELSE place[u]
    BY GoesThere DEF Sngtn!Unload
  <2>2. place[t] = "idle" /\ (~crossed' => ~crossed /\ ~Sngtn!Closing)
    BY DEF Sngtn!Unload
  <2> QED
    BY <2>1, <2>2 DEF SngtnInv, OneUnloads, Sngtn!Unload, Sngtn!Unloading, Sngtn!Closing
<1> QED
  BY <1>1, <1>2 DEF SngtnInv

LEMMA EntriesStay ==
    ASSUME NEW S, NEW T, S \subseteq T, NEW seq \in Seq(S)
    PROVE  seq \in Seq(T) /\ Sngtn!ToSet(seq) \subseteq S
<1>1. PICK n \in Nat : n = Len(seq) /\ seq \in [1..n -> S] /\ DOMAIN seq = 1..n
  BY LenProperties
<1>2. seq \in [1..n -> T]
  BY <1>1
<1> QED
  BY <1>1, <1>2, SeqDef DEF Sngtn!ToSet

LEMMA AllocateKeeps ==
    ASSUME SngtnInv, NEW t \in Threads, Sngtn!Allocate(t)
    PROVE  SngtnInv'
<1> USE SessionAssumption
<1> DEFINE Made == [of : Singles, is : {"raw", "built", "gone"}]
<1>1. PICK s \in Singles : s = on[t] /\ place[t] = "once"
  BY DEF SngtnInv, PlacesFit, Sngtn!Allocate
<1>2. PICK k \in Nat : k = Len(singles) /\ DOMAIN singles = 1..k /\ singles \in Seq(Made)
  BY LenProperties DEF SngtnInv, Sngtn!TypeOK
<1>3. PICK i \in Nat : i = k + 1 /\ i = Len(singles) + 1 /\ i \notin DOMAIN singles
  BY <1>2
<1>4. PICK new \in Made : new = [of |-> s, is |-> "raw"]
  OBVIOUS
<1> HIDE DEF Made
<1>5. /\ lock = Nobody /\ lock' = t /\ i <= MaxMade
      /\ instance' = [instance EXCEPT ![s] = i] /\ singles' = Append(singles, new)
      /\ raced' = IF instance[s] = Nobody THEN raced ELSE raced \cup {s}
      /\ Sngtn!Goes(t, "init", i)
      /\ UNCHANGED <<uninit, stack, freed, crossed, broken>>
  BY <1>1, <1>3, <1>4 DEF Sngtn!Allocate
<1>6. /\ singles' \in Seq(Made) /\ Len(singles') = i
      /\ DOMAIN singles' = DOMAIN singles \cup {i}
      /\ \A j \in DOMAIN singles : singles'[j] = singles[j]
      /\ singles'[i] = new
  <2>1. singles' \in Seq(Made) /\ Len(singles') = i /\ singles'[i] = new /\ \A j \in 1..k : singles'[j] = singles[j]
    BY <1>2, <1>3, <1>5, AppendProperties
  <2>2. 1..i = 1..k \cup {i}
    BY <1>3
  <2> QED
    BY <1>2, <2>1, <2>2, LenProperties
<1>7. \A u \in Threads : /\ place'[u] = IF u = t THEN "init" ELSE place[u]
                         /\ on'[u] = IF u = t THEN i ELSE on[u]
  BY <1>5, GoesThere
<1>8. /\ uninit \in Seq(DOMAIN singles') /\ stack \in Seq(DOMAIN singles')
      /\ Sngtn!ToSet(uninit) \subseteq DOMAIN singles /\ Sngtn!ToSet(stack) \subseteq DOMAIN singles
  BY <1>6, EntriesStay DEF SngtnInv, Sngtn!TypeOK
<1>9. Sngtn!TypeOK'
  BY <1>1, <1>5, <1>6, <1>8 DEF SngtnInv, Sngtn!TypeOK, Sngtn!Goes, Made
<1>10. PlacesFit'
  <2>1. on' \in [Threads -> Singles \cup Nat \cup {Nobody}]
    BY <1>3, <1>5 DEF SngtnInv, PlacesFit, Sngtn!Goes
  <2>2. \A j \in DOMAIN singles : singles'[j].of = singles[j].of
    BY <1>6
  <2>3. \A r \in Singles : /\ instance'[r] = IF r = s THEN i ELSE instance[r]
                           /\ instance[r] \in DOMAIN singles \cup {Nobody}
    BY <1>5 DEF SngtnInv, Sngtn!TypeOK
  <2>4. \A r \in Singles : instance'[r] # Nobody => singles'[instance'[r]].of = r
    BY <1>4, <1>6, <2>2, <2>3 DEF SngtnInv, PlacesFit
  <2> QED
    BY <1>1, <1>5, <1>6, <1>7, <2>1, <2>4 DEF SngtnInv, PlacesFit
<1>11. OneUnloads'
  BY <1>1, <1>5, <1>7 DEF SngtnInv, OneUnloads, Sngtn!Unloading, Sngtn!Closing
<1>12. \A j \in DOMAIN singles :
          /\ \A u \in Threads : Closes(u, j)' <=> Closes(u, j)
          /\ (Begins(j)' <=> Begins(j)) /\ (Adds(j)' <=> Adds(j))
          /\ (Ended(j)' <=> Ended(j)) /\ (Unloaded(j)' <=> Unloaded(j))
          /\ (InUninit(j)' <=> InUninit(j)) /\ (InStack(j)' <=> InStack(j))
          /\ (EndsWithOmega(j)' <=> EndsWithOmega(j)) /\ (Gone(j)' <=> Gone(j))
          /\ singles'[j].of = singles[j].of
  BY <1>1, <1>3, <1>5, <1>6, <1>7 DEF Begins, Adds, Closes, Ended, Unloaded, InUninit, InStack, EndsWithOmega, Gone
<1>13. /\ Begins(i)' /\ ~Adds(i)' /\ ~Ended(i)' /\ ~Unloaded(i)' /\ ~InUninit(i)' /\ ~InStack(i)' /\ ~Gone(i)'
       /\ singles'[i].of = s
       /\ \A u \in Threads : ~Closes(u, i)'
  <2>1. singles'[i].of = s /\ singles'[i].is = "raw"
    BY <1>4, <1>6
  <2>2. \A u \in Threads : on'[u] = i /\ u # t => place'[u] \notin {"init", "add", "guard2", "destructs", "destroys"}
    BY <1>3, <1>7 DEF SngtnInv, PlacesFit
  <2>3. ~InUninit(i)' /\ ~InStack(i)'
    BY <1>3, <1>5, <1>8 DEF InUninit, InStack
  <2>4. ~Adds(i)' /\ ~Ended(i)' /\ ~Unloaded(i)' /\ \A u \in Threads : ~Closes(u, i)'
    BY <1>7, <2>2 DEF Adds, Closes, Ended, Unloaded
  <2>5. Begins(i)'
    BY <1>7 DEF Begins
  <2> QED
    BY <2>1, <2>3, <2>4, <2>5 DEF Gone
<1>14. EntriesFit'
  BY <1>5, <1>6, <1>12, <1>13 DEF SngtnInv, EntriesFit
<1>15. ASSUME ~crossed', s \notin raced' PROVE \A j \in DOMAIN singles : singles[j].of = s => Gone(j)
  BY <1>3, <1>5, <1>15 DEF SngtnInv, AllWhole, Whole
<1>16. ASSUME ~crossed', NEW j \in DOMAIN singles', singles'[j].of \notin raced' PROVE Whole(j)'
  <2>1. CASE j = i
    <3>1. i \notin freed' /\ instance'[s] = i
      BY <1>3, <1>5 DEF SngtnInv, Sngtn!TypeOK
    <3> QED
      BY <1>13, <2>1, <3>1 DEF Whole
  <2>2. CASE j # i
    <3>1. Whole(j) /\ j \in DOMAIN singles /\ singles[j].of \in Singles
      <4>1. j \in DOMAIN singles /\ singles[j].of \notin raced /\ ~crossed
        BY <1>5, <1>6, <1>12, <1>16, <2>2
      <4> QED
        BY <4>1, OneIsOf DEF SngtnInv, AllWhole
    <3>2. instance'[singles[j].of] = j <=> instance[singles[j].of] = j
      BY <1>3, <1>5, <1>12, <1>15, <1>16, <2>2, <3>1 DEF SngtnInv, Sngtn!TypeOK, Whole
    <3> QED
      BY <1>5, <1>12, <3>1, <3>2 DEF Whole
  <2> QED
    BY <2>1, <2>2
<1>17. AllWhole'
  BY <1>5, <1>16 DEF SngtnInv, AllWhole
<1> QED
  BY <1>9, <1>10, <1>11, <1>14, <1>17 DEF SngtnInv

\* What is gone leaves no other instance without the pointer to it.
LEMMA OneGoes ==
    ASSUME SngtnInv, NEW i \in DOMAIN singles, instance' = [instance EXCEPT ![singles[i].of] = Nobody],
           Sngtn!Becomes(i, "gone")
    PROVE  /\ instance' \in [Singles -> DOMAIN singles \cup {Nobody}]
           /\ \A s \in Singles : instance'[s] # Nobody => singles[instance'[s]].of = s
           /\ Gone(i)' /\ instance'[singles[i].of] # i
           /\ \A j \in DOMAIN singles \ {i} :
                  (singles[i].of = singles[j].of /\ ~crossed /\ singles[i].of \notin raced => ~Gone(i)) =>
                      /\ Gone(j)' <=> Gone(j)
                      /\ ~crossed /\ singles[j].of \notin raced =>
                             (instance'[singles[j].of] = j <=> instance[singles[j].of] = j)
<1> USE SessionAssumption
<1>1. /\ i \in Nat /\ singles[i].of \in Singles
      /\ instance \in [Singles -> DOMAIN singles \cup {Nobody}]
      /\ \A j \in DOMAIN singles : j \in Nat /\ singles[j].of \in Singles
  BY OneIsOf DEF SngtnInv, Sngtn!TypeOK
<1>2. instance' \in [Singles -> DOMAIN singles \cup {Nobody}] /\ instance'[singles[i].of] # i
  BY <1>1
<1>3. \A j \in DOMAIN singles : Gone(j)' <=> Gone(j) \/ j = i
  BY OneBecomes DEF Gone
<1>4. \A s \in Singles : instance'[s] # Nobody => singles[instance'[s]].of = s
  BY <1>1 DEF SngtnInv, PlacesFit
<1>5. ASSUME NEW j \in DOMAIN singles \ {i}, ~crossed, singles[j].of \notin raced,
             singles[i].of = singles[j].of => ~Gone(i)
      PROVE  instance'[singles[j].of] = j <=> instance[singles[j].of] = j
  <2>1. CASE singles[i].of = singles[j].of
    <3>1. instance[singles[i].of] = i
      BY <1>5, <2>1 DEF SngtnInv, AllWhole, Whole
    <3> QED
      BY <1>1, <2>1, <3>1
  <2>2. CASE singles[i].of # singles[j].of
    BY <1>1, <2>2
  <2> QED
    BY <2>1, <2>2
<1> QED
  BY <1>2, <1>3, <1>4, <1>5

LEMMA InitThrowsKeeps ==
    ASSUME SngtnInv, NEW t \in Threads, Sngtn!InitThrows(t)
    PROVE  SngtnInv'
<1> USE SessionAssumption
<1>1. PICK i \in DOMAIN singles : i = on[t] /\ place[t] = "init"
  BY DEF SngtnInv, PlacesFit, Sngtn!InitThrows
<1>2. /\ lock' = Nobody /\ instance' = [instance EXCEPT ![singles[i].of] = Nobody] /\ Sngtn!Becomes(i, "gone")
      /\ Sngtn!Goes(t, "idle", Nobody)
      /\ UNCHANGED <<uninit, stack, freed, raced, crossed, broken>>
  BY <1>1 DEF Sngtn!InitThrows
<1>3. \A u \in Threads : /\ place'[u] = IF u = t THEN "idle" ELSE place[u]
                         /\ on'[u] = IF u = t THEN Nobody ELSE on[u]
  BY <1>2, GoesThere
<1>4. /\ singles' \in Seq([of : Singles, is : {"raw", "built", "gone"}]) /\ Len(singles') <= MaxMade
      /\ DOMAIN singles' = DOMAIN singles
      /\ \A j \in DOMAIN singles : singles'[j].of = singles[j].of
  BY <1>2, OneBecomes
<1>5. Sngtn!TypeOK'
  <2>1. instance' \in [Singles -> DOMAIN singles \cup {Nobody}]
    BY <1>2, OneGoes
  <2> QED
    BY <1>2, <1>4, <2>1 DEF SngtnInv, Sngtn!TypeOK, Sngtn!Goes
<1>6. PlacesFit'
  <2>1. on' \in [Threads -> Singles \cup Nat \cup {Nobody}]
    BY <1>2 DEF SngtnInv, PlacesFit, Sngtn!Goes
  <2>2. /\ instance' \in [Singles -> DOMAIN singles \cup {Nobody}]
        /\ \A s \in Singles : instance'[s] # Nobody => singles[instance'[s]].of = s
    BY <1>2, OneGoes
  <2>3. \A s \in Singles : instance'[s] # Nobody => singles'[instance'[s]].of = s
    BY <1>4, <2>2
  <2> QED
    BY <1>1, <1>2, <1>3, <1>4, <2>1, <2>3 DEF SngtnInv, PlacesFit
<1>7. OneUnloads'
  BY <1>1, <1>2, <1>3 DEF SngtnInv, OneUnloads, Sngtn!Unloading, Sngtn!Closing
<1>8. \A j \in DOMAIN singles :
          /\ \A u \in Threads : Closes(u, j)' <=> Closes(u, j)
          /\ (Begins(j)' <=> Begins(j) /\ j # i) /\ (Adds(j)' <=> Adds(j))
          /\ (Ended(j)' <=> Ended(j)) /\ (Unloaded(j)' <=> Unloaded(j))
          /\ (InUninit(j)' <=> InUninit(j)) /\ (InStack(j)' <=> InStack(j))
          /\ (EndsWithOmega(j)' <=> EndsWithOmega(j)) /\ (j # i => (Gone(j)' <=> Gone(j)))
          /\ singles'[j].of = singles[j].of
  <2>1. \A u \in Threads : place[u] = "init" => u = t
    BY <1>1 DEF SngtnInv, PlacesFit
  <2>2. \A j \in DOMAIN singles : j # i => (Gone(j)' <=> Gone(j))
    BY <1>2, OneBecomes DEF Gone
  <2>3. \A j \in DOMAIN singles : Begins(j)' <=> Begins(j) /\ j # i
    BY <1>1, <1>3, <2>1 DEF Begins
  <2> QED
    BY <1>1, <1>2, <1>3, <1>4, <2>2, <2>3 DEF Adds, Closes, Ended, Unloaded, InUninit, InStack, EndsWithOmega
<1>9. EntriesFit'
  BY <1>2, <1>4, <1>8 DEF SngtnInv, EntriesFit
<1>10. Begins(i) /\ ~Adds(i) /\ ~Unloaded(i) /\ ~InStack(i) /\ ~InUninit(i) /\ ~Ended(i)
  <2>1. Begins(i) /\ ~InStack(i) /\ ~InUninit(i) /\ ~Ended(i)
    BY <1>1 DEF Begins, SngtnInv, EntriesFit
  <2>2. ~Unloaded(i)
    BY <1>1 DEF SngtnInv, OneUnloads, Sngtn!Unloading, Unloaded
  <2>3. ~Adds(i)
    BY <1>1 DEF SngtnInv, PlacesFit, Adds
  <2> QED
    BY <2>1, <2>2, <2>3
<1>11. ASSUME ~crossed', NEW j \in DOMAIN singles, singles'[j].of \notin raced' PROVE Whole(j)'
  <2>1. Whole(j) /\ ~crossed /\ singles[j].of \notin raced
    BY <1>2, <1>8, <1>11 DEF SngtnInv, AllWhole
  <2>2. CASE j = i
    BY <1>2, <1>4, <1>8, <1>10, <2>1, <2>2, OneGoes DEF Whole
  <2>3. CASE j # i
    <3>1. singles[i].of = singles[j].of => ~Gone(i)
      BY <1>2, <1>10, <2>1 DEF SngtnInv, AllWhole, Whole
    <3>2. instance'[singles[j].of] = j <=> instance[singles[j].of] = j
      BY <1>2, <2>1, <2>3, <3>1, OneGoes
    <3> QED
      BY <1>2, <1>8, <2>1, <2>3, <3>2 DEF Whole
  <2> QED
    BY <2>2, <2>3
<1>12. AllWhole'
  BY <1>2, <1>4, <1>11 DEF SngtnInv, AllWhole
<1> QED
  BY <1>5, <1>6, <1>7, <1>9, <1>12 DEF SngtnInv

LEMMA do_initKeeps ==
    ASSUME SngtnInv, NEW t \in Threads, Sngtn!do_init(t)
    PROVE  SngtnInv'
<1> USE SessionAssumption
<1>1. PICK i \in DOMAIN singles : i = on[t] /\ place[t] = "init"
  BY DEF SngtnInv, PlacesFit, Sngtn!do_init
<1>2. /\ Sngtn!Becomes(i, "built")
      /\ uninit' = IF EndsWithOmega(i) THEN Append(uninit, i) ELSE uninit
      /\ Sngtn!Goes(t, "add", i)
      /\ UNCHANGED <<instance, lock, stack, freed, raced, crossed, broken>>
  BY <1>1, OneIsOf DEF Sngtn!do_init, EndsWithOmega
<1>3. \A u \in Threads : /\ place'[u] = IF u = t THEN "add" ELSE place[u]
                         /\ on'[u] = IF u = t THEN i ELSE on[u]
  BY <1>2, GoesThere
<1>4. /\ singles' \in Seq([of : Singles, is : {"raw", "built", "gone"}]) /\ Len(singles') <= MaxMade
      /\ DOMAIN singles' = DOMAIN singles
      /\ \A j \in DOMAIN singles : singles'[j].of = singles[j].of
  BY <1>2, OneBecomes
<1>5. Begins(i) /\ ~Adds(i) /\ ~Unloaded(i) /\ ~InStack(i) /\ ~InUninit(i) /\ ~Ended(i)
  <2>1. Begins(i) /\ ~InStack(i) /\ ~InUninit(i) /\ ~Ended(i)
    BY <1>1 DEF Begins, SngtnInv, EntriesFit
  <2>2. ~Unloaded(i)
    BY <1>1 DEF SngtnInv, OneUnloads, Sngtn!Unloading, Unloaded
  <2>3. ~Adds(i)
    BY <1>1 DEF SngtnInv, PlacesFit, Adds
  <2> QED
    BY <2>1, <2>2, <2>3
<1>6. /\ uninit' \in Seq(DOMAIN singles) /\ Distinct(uninit')
      /\ \A j \in DOMAIN singles : InUninit(j)' <=> InUninit(j) \/ (j = i /\ EndsWithOmega(i))
  <2>1. uninit \in Seq(DOMAIN singles) /\ Distinct(uninit) /\ i \notin Sngtn!ToSet(uninit)
    BY <1>5 DEF SngtnInv, Sngtn!TypeOK, EntriesFit, InUninit
  <2>2. /\ Append(uninit, i) \in Seq(DOMAIN singles) /\ Distinct(Append(uninit, i))
        /\ Sngtn!ToSet(Append(uninit, i)) = Sngtn!ToSet(uninit) \cup {i}
    BY <2>1, AddsEntry
  <2> QED
    BY <1>2, <2>1, <2>2 DEF InUninit
<1>7. Sngtn!TypeOK'
  BY <1>2, <1>4, <1>6 DEF SngtnInv, Sngtn!TypeOK, Sngtn!Goes
<1>8. PlacesFit'
  <2>1. on' \in [Threads -> Singles \cup Nat \cup {Nobody}]
    BY <1>2, OneIsOf DEF SngtnInv, PlacesFit, Sngtn!Goes
  <2>2. \A s \in Singles : instance'[s] # Nobody => singles'[instance'[s]].of = s
    BY <1>2, <1>4 DEF SngtnInv, PlacesFit, Sngtn!TypeOK
  <2> QED
    BY <1>1, <1>2, <1>3, <1>4, <2>1, <2>2 DEF SngtnInv, PlacesFit
<1>9. OneUnloads'
  BY <1>1, <1>2, <1>3 DEF SngtnInv, OneUnloads, Sngtn!Unloading, Sngtn!Closing
<1>10. \A j \in DOMAIN singles :
          /\ \A u \in Threads : Closes(u, j)' <=> Closes(u, j)
          /\ (Begins(j)' <=> Begins(j) /\ j # i) /\ (Adds(j)' <=> Adds(j) \/ j = i)
          /\ (Ended(j)' <=> Ended(j)) /\ (Unloaded(j)' <=> Unloaded(j))
          /\ (InStack(j)' <=> InStack(j)) /\ (EndsWithOmega(j)' <=> EndsWithOmega(j))
          /\ (Gone(j)' <=> Gone(j) /\ j # i)
          /\ singles'[j].of = singles[j].of
  <2>1. \A u \in Threads : place[u] = "init" => u = t
    BY <1>1 DEF SngtnInv, PlacesFit
  <2>2. \A j \in DOMAIN singles : Gone(j)' <=> Gone(j) /\ j # i
    BY <1>2, OneBecomes DEF Gone
  <2>3. \A j \in DOMAIN singles : Begins(j)' <=> Begins(j) /\ j # i
    BY <1>1, <1>3, <2>1 DEF Begins
  <2> QED
    BY <1>1, <1>2, <1>3, <1>4, <2>2, <2>3 DEF Adds, Closes, Ended, Unloaded, InStack, EndsWithOmega
<1>11. EntriesFit'
  BY <1>2, <1>4, <1>5, <1>6, <1>10 DEF SngtnInv, EntriesFit
<1>12. ASSUME ~crossed', NEW j \in DOMAIN singles, singles'[j].of \notin raced' PROVE Whole(j)'
  <2>1. Whole(j)
    BY <1>2, <1>10, <1>12 DEF SngtnInv, AllWhole
  <2> QED
    BY <1>2, <1>5, <1>6, <1>10, <2>1 DEF Whole
<1>13. AllWhole'
  BY <1>2, <1>4, <1>12 DEF SngtnInv, AllWhole
<1> QED
  BY <1>7, <1>8, <1>9, <1>11, <1>13 DEF SngtnInv

LEMMA add_destructorKeeps ==
    ASSUME SngtnInv, NEW t \in Threads, Sngtn!add_destructor(t)
    PROVE  SngtnInv'
<1> USE SessionAssumption
<1>1. PICK i \in DOMAIN singles : i = on[t] /\ place[t] = "add"
  BY DEF SngtnInv, PlacesFit, Sngtn!add_destructor
<1>2. /\ stack' = Append(stack, i) /\ lock' = Nobody
      /\ Sngtn!Goes(t, "idle", Nobody)
      /\ UNCHANGED <<instance, singles, uninit, freed, raced, crossed, broken>>
  BY <1>1 DEF Sngtn!add_destructor
<1>3. \A u \in Threads : /\ place'[u] = IF u = t THEN "idle" ELSE place[u]
                         /\ on'[u] = IF u = t THEN Nobody ELSE on[u]
  BY <1>2, GoesThere
<1>4. Adds(i) /\ ~Begins(i) /\ ~Unloaded(i) /\ ~InStack(i)
  <2>1. Adds(i) /\ ~InStack(i)
    BY <1>1 DEF Adds, SngtnInv, EntriesFit
  <2>2. ~Unloaded(i)
    BY <1>1 DEF SngtnInv, OneUnloads, Sngtn!Unloading, Unloaded
  <2>3. ~Begins(i)
    BY <1>1 DEF SngtnInv, PlacesFit, Begins
  <2> QED
    BY <2>1, <2>2, <2>3
<1>5. /\ stack' \in Seq(DOMAIN singles) /\ Distinct(stack')
      /\ \A j \in DOMAIN singles : InStack(j)' <=> InStack(j) \/ j = i
  <2>1. stack \in Seq(DOMAIN singles) /\ Distinct(stack) /\ i \notin Sngtn!ToSet(stack)
    BY <1>4 DEF SngtnInv, Sngtn!TypeOK, EntriesFit, InStack
  <2>2. /\ Append(stack, i) \in Seq(DOMAIN singles) /\ Distinct(Append(stack, i))
        /\ Sngtn!ToSet(Append(stack, i)) = Sngtn!ToSet(stack) \cup {i}
    BY <2>1, AddsEntry
  <2> QED
    BY <1>2, <2>1, <2>2 DEF InStack
<1>6. Sngtn!TypeOK'
  BY <1>2, <1>5 DEF SngtnInv, Sngtn!TypeOK, Sngtn!Goes
<1>7. PlacesFit'
  <2>1. on' \in [Threads -> Singles \cup Nat \cup {Nobody}]
    BY <1>2 DEF SngtnInv, PlacesFit, Sngtn!Goes
  <2> QED
    BY <1>1, <1>2, <1>3, <2>1 DEF SngtnInv, PlacesFit
<1>8. OneUnloads'
  BY <1>1, <1>2, <1>3 DEF SngtnInv, OneUnloads, Sngtn!Unloading, Sngtn!Closing
<1>9. \A j \in DOMAIN singles :
          /\ \A u \in Threads : Closes(u, j)' <=> Closes(u, j)
          /\ (Begins(j)' <=> Begins(j)) /\ (Adds(j)' <=> Adds(j) /\ j # i)
          /\ (Ended(j)' <=> Ended(j)) /\ (Unloaded(j)' <=> Unloaded(j))
          /\ (InUninit(j)' <=> InUninit(j)) /\ (EndsWithOmega(j)' <=> EndsWithOmega(j))
          /\ (Gone(j)' <=> Gone(j))
  <2>1. \A u \in Threads : place[u] = "add" => u = t
    BY <1>1 DEF SngtnInv, PlacesFit
  <2>2. \A j \in DOMAIN singles : Adds(j)' <=> Adds(j) /\ j # i
    BY <1>1, <1>3, <2>1 DEF Adds
  <2> QED
    BY <1>1, <1>2, <1>3, <2>2 DEF Begins, Closes, Ended, Unloaded, InUninit, EndsWithOmega, Gone
<1>10. EntriesFit'
  BY <1>2, <1>4, <1>5, <1>9 DEF SngtnInv, EntriesFit
<1>11. ASSUME ~crossed', NEW j \in DOMAIN singles, singles[j].of \notin raced' PROVE Whole(j)'
  <2>1. Whole(j)
    BY <1>2, <1>11 DEF SngtnInv, AllWhole
  <2> QED
    BY <1>2, <1>4, <1>5, <1>9, <2>1 DEF Whole
<1>12. AllWhole'
  BY <1>2, <1>11 DEF SngtnInv, AllWhole
<1> QED
  BY <1>6, <1>7, <1>8, <1>10, <1>12 DEF SngtnInv

LEMMA AddThrowsKeeps ==
    ASSUME SngtnInv, NEW t \in Threads, Sngtn!AddThrows(t)
    PROVE  SngtnInv'
<1> USE SessionAssumption
<1>1. PICK i \in DOMAIN singles : i = on[t] /\ place[t] = "add"
  BY DEF SngtnInv, PlacesFit, Sngtn!AddThrows
<1>2. /\ uninit' = Sngtn!WithoutEntry(uninit, i) /\ freed' = freed \cup {i}
      /\ lock' = Nobody /\ instance' = [instance EXCEPT ![singles[i].of] = Nobody] /\ Sngtn!Becomes(i, "gone")
      /\ raced' = IF EndsWithOmega(i) /\ ~InUninit(i) THEN raced \cup {singles[i].of} ELSE raced
      /\ Sngtn!Goes(t, "idle", Nobody)
      /\ UNCHANGED <<stack, crossed, broken>>
  BY <1>1, OneIsOf DEF Sngtn!AddThrows, EndsWithOmega, InUninit
<1>3. \A u \in Threads : /\ place'[u] = IF u = t THEN "idle" ELSE place[u]
                         /\ on'[u] = IF u = t THEN Nobody ELSE on[u]
  BY <1>2, GoesThere
<1>4. /\ singles' \in Seq([of : Singles, is : {"raw", "built", "gone"}]) /\ Len(singles') <= MaxMade
      /\ DOMAIN singles' = DOMAIN singles
      /\ \A j \in DOMAIN singles : singles'[j].of = singles[j].of
  BY <1>2, OneBecomes
<1>5. Adds(i) /\ ~Begins(i) /\ ~Unloaded(i) /\ ~InStack(i)
  <2>1. Adds(i) /\ ~InStack(i)
    BY <1>1 DEF Adds, SngtnInv, EntriesFit
  <2>2. ~Unloaded(i)
    BY <1>1 DEF SngtnInv, OneUnloads, Sngtn!Unloading, Unloaded
  <2>3. ~Begins(i)
    BY <1>1 DEF SngtnInv, PlacesFit, Begins
  <2> QED
    BY <2>1, <2>2, <2>3
<1>6. /\ uninit' \in Seq(DOMAIN singles) /\ Distinct(uninit')
      /\ \A j \in DOMAIN singles : InUninit(j)' <=> InUninit(j) /\ j # i
  <2>1. uninit \in Seq(DOMAIN singles) /\ Distinct(uninit)
    BY DEF SngtnInv, Sngtn!TypeOK, EntriesFit
  <2>2. /\ uninit' \in Seq(DOMAIN singles) /\ Distinct(uninit')
        /\ Sngtn!ToSet(uninit') = Sngtn!ToSet(uninit) \ {i}
    BY <1>2, <2>1, RemovesEntry
  <2> QED
    BY <2>2 DEF InUninit
<1>7. Sngtn!TypeOK'
  <2>1. instance' \in [Singles -> DOMAIN singles \cup {Nobody}]
    BY <1>2, OneGoes
  <2>2. raced' \subseteq Singles
    BY <1>2, OneIsOf DEF SngtnInv, Sngtn!TypeOK
  <2> QED
    BY <1>2, <1>4, <1>6, <2>1, <2>2 DEF SngtnInv, Sngtn!TypeOK, Sngtn!Goes
<1>8. PlacesFit'
  <2>1. on' \in [Threads -> Singles \cup Nat \cup {Nobody}]
    BY <1>2 DEF SngtnInv, PlacesFit, Sngtn!Goes
  <2>2. /\ instance' \in [Singles -> DOMAIN singles \cup {Nobody}]
        /\ \A s \in Singles : instance'[s] # Nobody => singles[instance'[s]].of = s
    BY <1>2, OneGoes
  <2>3. \A s \in Singles : instance'[s] # Nobody => singles'[instance'[s]].of = s
    BY <1>4, <2>2
  <2> QED
    BY <1>1, <1>2, <1>3, <1>4, <2>1, <2>3 DEF SngtnInv, PlacesFit
<1>9. OneUnloads'
  BY <1>1, <1>2, <1>3 DEF SngtnInv, OneUnloads, Sngtn!Unloading, Sngtn!Closing
<1>10. \A j \in DOMAIN singles :
          /\ \A u \in Threads : Closes(u, j)' <=> Closes(u, j)
          /\ (Begins(j)' <=> Begins(j)) /\ (Adds(j)' <=> Adds(j) /\ j # i)
          /\ (Ended(j)' <=> Ended(j)) /\ (Unloaded(j)' <=> Unloaded(j))
          /\ (InStack(j)' <=> InStack(j)) /\ (EndsWithOmega(j)' <=> EndsWithOmega(j))
          /\ (j # i => (Gone(j)' <=> Gone(j)))
          /\ singles'[j].of = singles[j].of
  <2>1. \A u \in Threads : place[u] = "add" => u = t
    BY <1>1 DEF SngtnInv, PlacesFit
  <2>2. \A j \in DOMAIN singles : Adds(j)' <=> Adds(j) /\ j # i
    BY <1>1, <1>3, <2>1 DEF Adds
  <2>3. \A j \in DOMAIN singles : j # i => (Gone(j)' <=> Gone(j))
    BY <1>2, OneBecomes DEF Gone
  <2> QED
    BY <1>1, <1>2, <1>3, <1>4, <2>2, <2>3 DEF Begins, Closes, Ended, Unloaded, InStack, EndsWithOmega
<1>11. EntriesFit'
  BY <1>2, <1>4, <1>6, <1>10 DEF SngtnInv, EntriesFit
<1>12. ASSUME ~crossed', NEW j \in DOMAIN singles, singles'[j].of \notin raced' PROVE Whole(j)'
  <2>1. Whole(j) /\ ~crossed /\ singles[j].of \notin raced
    BY <1>2, <1>10, <1>12 DEF SngtnInv, AllWhole
  <2>2. CASE j = i
    <3>1. ~Ended(i)
      BY <1>2, <1>10, <1>12, <2>2 DEF SngtnInv, EntriesFit
    <3>2. Gone(i)' /\ instance'[singles'[i].of] # i
      BY <1>2, <1>4, OneGoes
    <3> QED
      BY <1>5, <1>6, <1>10, <2>2, <3>1, <3>2 DEF Whole
  <2>3. CASE j # i
    <3>1. singles[i].of = singles[j].of => ~Gone(i)
      BY <1>2, <1>5, <2>1 DEF SngtnInv, AllWhole, Whole
    <3>2. instance'[singles[j].of] = j <=> instance[singles[j].of] = j
      BY <1>2, <2>1, <2>3, <3>1, OneGoes
    <3> QED
      BY <1>2, <1>6, <1>10, <2>1, <2>3, <3>2 DEF Whole
  <2> QED
    BY <2>2, <2>3
<1>13. AllWhole'
  BY <1>2, <1>4, <1>12 DEF SngtnInv, AllWhole
<1> QED
  BY <1>7, <1>8, <1>9, <1>11, <1>13 DEF SngtnInv

LEMMA Guard2Keeps ==
    ASSUME SngtnInv, NEW t \in Threads, Sngtn!Guard2(t)
    PROVE  SngtnInv'
<1> USE SessionAssumption
<1>1. PICK i \in DOMAIN singles : i = on[t] /\ place[t] = "guard2"
  BY DEF SngtnInv, PlacesFit, Sngtn!Guard2
<1>2. /\ lock = Nobody /\ lock' = t /\ Sngtn!Goes(t, "destructs", i)
      /\ UNCHANGED <<instance, singles, uninit, stack, freed, raced, crossed, broken>>
  BY <1>1 DEF Sngtn!Guard2
<1>3. \A u \in Threads : /\ place'[u] = IF u = t THEN "destructs" ELSE place[u]
                         /\ on'[u] = on[u]
  BY <1>1, <1>2, GoesThere
<1>4. Sngtn!TypeOK'
  BY <1>2 DEF SngtnInv, Sngtn!TypeOK, Sngtn!Goes
<1>5. PlacesFit'
  <2>1. on' \in [Threads -> Singles \cup Nat \cup {Nobody}]
    BY <1>2, OneIsOf DEF SngtnInv, PlacesFit, Sngtn!Goes
  <2> QED
    BY <1>1, <1>2, <1>3, <2>1 DEF SngtnInv, PlacesFit
<1>6. OneUnloads'
  BY <1>1, <1>2, <1>3 DEF SngtnInv, OneUnloads, Sngtn!Unloading, Sngtn!Closing
<1>7. \A j : /\ \A u \in Threads : Closes(u, j)' <=> Closes(u, j)
             /\ (Begins(j)' <=> Begins(j)) /\ (Adds(j)' <=> Adds(j))
             /\ (Ended(j)' <=> Ended(j)) /\ (Unloaded(j)' <=> Unloaded(j))
  BY <1>1, <1>3 DEF Begins, Adds, Closes, Ended, Unloaded
<1>8. \A j : /\ (InUninit(j)' <=> InUninit(j)) /\ (InStack(j)' <=> InStack(j))
             /\ (EndsWithOmega(j)' <=> EndsWithOmega(j)) /\ (Gone(j)' <=> Gone(j))
  BY <1>2 DEF InUninit, InStack, EndsWithOmega, Gone
<1>9. EntriesFit'
  BY <1>2, <1>7, <1>8 DEF SngtnInv, EntriesFit
<1>10. AllWhole'
  BY <1>2, <1>7, <1>8 DEF SngtnInv, AllWhole, Whole
<1> QED
  BY <1>4, <1>5, <1>6, <1>9, <1>10 DEF SngtnInv

LEMMA close_singletonsKeeps ==
    ASSUME SngtnInv, NEW t \in Threads, Sngtn!close_singletons(t)
    PROVE  SngtnInv'
<1> USE SessionAssumption
<1>1. place[t] = "close" /\ UNCHANGED <<instance, singles, lock, stack, freed, raced, crossed, broken>>
  BY DEF Sngtn!close_singletons
<1>2. CASE uninit = <<>>
  <2>1. Sngtn!Goes(t, "idle", Nobody) /\ UNCHANGED uninit
    BY <1>2 DEF Sngtn!close_singletons
  <2>2. Sngtn!TypeOK' /\ PlacesFit' /\ EntriesFit' /\ AllWhole'
    BY <1>1, <2>1, QuietKeeps
  <2>3. \A u \in Threads : place'[u] = IF u = t THEN "idle" ELSE place[u]
    BY <2>1, GoesThere
  <2>4. OneUnloads'
    BY <1>1, <2>3 DEF SngtnInv, OneUnloads, Sngtn!Unloading, Sngtn!Closing
  <2> QED
    BY <2>2, <2>4 DEF SngtnInv
<1>3. CASE uninit # <<>>
  <2>1. PICK i : i = Sngtn!Last(uninit)
    OBVIOUS
  <2>2. uninit' = Sngtn!Popped(uninit) /\ Sngtn!Goes(t, "guard2", i)
    BY <1>3, <2>1 DEF Sngtn!close_singletons
  <2>3. /\ i \in DOMAIN singles /\ InUninit(i) /\ uninit' \in Seq(DOMAIN singles) /\ Distinct(uninit')
        /\ \A j : InUninit(j)' <=> InUninit(j) /\ j # i
    <3>1. uninit \in Seq(DOMAIN singles) /\ Distinct(uninit)
      BY DEF SngtnInv, Sngtn!TypeOK, EntriesFit
    <3>2. /\ uninit' \in Seq(DOMAIN singles) /\ i \in DOMAIN singles /\ i \in Sngtn!ToSet(uninit)
          /\ Distinct(uninit') /\ Sngtn!ToSet(uninit') = Sngtn!ToSet(uninit) \ {i}
      BY <1>3, <2>1, <2>2, <3>1, PopsEntry
    <3> QED
      BY <3>2 DEF InUninit
  <2>4. \A u \in Threads : /\ place'[u] = IF u = t THEN "guard2" ELSE place[u]
                           /\ on'[u] = IF u = t THEN i ELSE on[u]
    BY <2>2, GoesThere
  <2>5. Sngtn!TypeOK'
    BY <1>1, <2>2, <2>3 DEF SngtnInv, Sngtn!TypeOK, Sngtn!Goes
  <2>6. PlacesFit'
    <3>1. on' \in [Threads -> Singles \cup Nat \cup {Nobody}]
      BY <2>2, <2>3, OneIsOf DEF SngtnInv, PlacesFit, Sngtn!Goes
    <3> QED
      BY <1>1, <2>3, <2>4, <3>1 DEF SngtnInv, PlacesFit
  <2>7. OneUnloads'
    BY <1>1, <2>4 DEF SngtnInv, OneUnloads, Sngtn!Unloading, Sngtn!Closing
  <2>8. ~Ended(i) /\ ~Begins(i) /\ EndsWithOmega(i)
    BY <2>3 DEF SngtnInv, EntriesFit
  <2>9. \A j \in DOMAIN singles :
            /\ \A u \in Threads : Closes(u, j)' <=> (IF j = i THEN u = t ELSE Closes(u, j))
            /\ (Begins(j)' <=> Begins(j)) /\ (Adds(j)' <=> Adds(j))
            /\ (Ended(j)' <=> Ended(j) \/ j = i) /\ (Unloaded(j)' <=> Unloaded(j))
            /\ (InStack(j)' <=> InStack(j)) /\ (EndsWithOmega(j)' <=> EndsWithOmega(j))
            /\ (Gone(j)' <=> Gone(j))
    <3>1. \A j \in DOMAIN singles : \A u \in Threads : Closes(u, j)' <=> (IF j = i THEN u = t ELSE Closes(u, j))
      BY <1>1, <2>4, <2>8 DEF Closes, Ended
    <3>2. \A j \in DOMAIN singles : Ended(j)' <=> Ended(j) \/ j = i
      BY <3>1 DEF Ended
    <3> QED
      BY <1>1, <2>4, <3>1, <3>2 DEF Begins, Adds, Unloaded, InStack, EndsWithOmega, Gone
  <2>10. EntriesFit'
    BY <1>1, <2>3, <2>8, <2>9 DEF SngtnInv, EntriesFit
  <2>11. ASSUME ~crossed', NEW j \in DOMAIN singles, singles[j].of \notin raced' PROVE Whole(j)'
    <3>1. Whole(j)
      BY <1>1, <2>11 DEF SngtnInv, AllWhole
    <3> QED
      BY <1>1, <2>3, <2>8, <2>9, <3>1 DEF Whole
  <2>12. AllWhole'
    BY <1>1, <2>11 DEF SngtnInv, AllWhole
  <2> QED
    BY <2>5, <2>6, <2>7, <2>10, <2>12 DEF SngtnInv
<1> QED
  BY <1>2, <1>3

LEMMA mod_destruct__dctorKeeps ==
    ASSUME SngtnInv, NEW t \in Threads, Sngtn!mod_destruct__dctor(t)
    PROVE  SngtnInv'
<1> USE SessionAssumption
<1>1. place[t] = "unload" /\ UNCHANGED <<instance, singles, lock, uninit, freed, raced, crossed, broken>>
  BY DEF Sngtn!mod_destruct__dctor
<1>2. CASE stack = <<>>
  <2>1. Sngtn!Goes(t, "idle", Nobody) /\ UNCHANGED stack
    BY <1>2 DEF Sngtn!mod_destruct__dctor
  <2>2. Sngtn!TypeOK' /\ PlacesFit' /\ EntriesFit' /\ AllWhole'
    BY <1>1, <2>1, QuietKeeps
  <2>3. \A u \in Threads : place'[u] = IF u = t THEN "idle" ELSE place[u]
    BY <2>1, GoesThere
  <2>4. OneUnloads'
    BY <1>1, <2>3 DEF SngtnInv, OneUnloads, Sngtn!Unloading, Sngtn!Closing
  <2> QED
    BY <2>2, <2>4 DEF SngtnInv
<1>3. CASE stack # <<>>
  <2>1. PICK i : i = Sngtn!Last(stack)
    OBVIOUS
  <2>2. stack' = Sngtn!Popped(stack) /\ Sngtn!Goes(t, "destroys", i)
    BY <1>3, <2>1 DEF Sngtn!mod_destruct__dctor
  <2>3. /\ i \in DOMAIN singles /\ InStack(i) /\ stack' \in Seq(DOMAIN singles) /\ Distinct(stack')
        /\ \A j : InStack(j)' <=> InStack(j) /\ j # i
    <3>1. stack \in Seq(DOMAIN singles) /\ Distinct(stack)
      BY DEF SngtnInv, Sngtn!TypeOK, EntriesFit
    <3>2. /\ stack' \in Seq(DOMAIN singles) /\ i \in DOMAIN singles /\ i \in Sngtn!ToSet(stack)
          /\ Distinct(stack') /\ Sngtn!ToSet(stack') = Sngtn!ToSet(stack) \ {i}
      BY <1>3, <2>1, <2>2, <3>1, PopsEntry
    <3> QED
      BY <3>2 DEF InStack
  <2>4. \A u \in Threads : /\ place'[u] = IF u = t THEN "destroys" ELSE place[u]
                           /\ on'[u] = IF u = t THEN i ELSE on[u]
    BY <2>2, GoesThere
  <2>5. Sngtn!TypeOK'
    BY <1>1, <2>2, <2>3 DEF SngtnInv, Sngtn!TypeOK, Sngtn!Goes
  <2>6. PlacesFit'
    <3>1. on' \in [Threads -> Singles \cup Nat \cup {Nobody}]
      BY <2>2, <2>3, OneIsOf DEF SngtnInv, PlacesFit, Sngtn!Goes
    <3> QED
      BY <1>1, <2>3, <2>4, <3>1 DEF SngtnInv, PlacesFit
  <2>7. OneUnloads'
    BY <1>1, <2>4 DEF SngtnInv, OneUnloads, Sngtn!Unloading, Sngtn!Closing
  <2>8. ~Unloaded(i) /\ ~Begins(i) /\ ~Adds(i)
    BY <2>3 DEF SngtnInv, EntriesFit
  <2>9. \A j \in DOMAIN singles :
            /\ \A u \in Threads : Closes(u, j)' <=> Closes(u, j)
            /\ (Begins(j)' <=> Begins(j)) /\ (Adds(j)' <=> Adds(j))
            /\ (Ended(j)' <=> Ended(j)) /\ (Unloaded(j)' <=> Unloaded(j) \/ j = i)
            /\ (InUninit(j)' <=> InUninit(j)) /\ (EndsWithOmega(j)' <=> EndsWithOmega(j))
            /\ (Gone(j)' <=> Gone(j))
    BY <1>1, <2>4 DEF Begins, Adds, Closes, Ended, Unloaded, InUninit, EndsWithOmega, Gone
  <2>10. EntriesFit'
    BY <1>1, <2>3, <2>8, <2>9 DEF SngtnInv, EntriesFit
  <2>11. ASSUME ~crossed', NEW j \in DOMAIN singles, singles[j].of \notin raced' PROVE Whole(j)'
    <3>1. Whole(j)
      BY <1>1, <2>11 DEF SngtnInv, AllWhole
    <3> QED
      BY <1>1, <2>3, <2>8, <2>9, <3>1 DEF Whole
  <2>12. AllWhole'
    BY <1>1, <2>11 DEF SngtnInv, AllWhole
  <2> QED
    BY <2>5, <2>6, <2>7, <2>10, <2>12 DEF SngtnInv
<1> QED
  BY <1>2, <1>3

\* What destroying an instance by way of an entry does.
Undone(i) ==
    /\ singles' \in Seq([of : Singles, is : {"raw", "built", "gone"}]) /\ Len(singles') <= MaxMade
    /\ DOMAIN singles' = DOMAIN singles /\ \A j \in DOMAIN singles : singles'[j].of = singles[j].of
    /\ instance' \in [Singles -> DOMAIN singles \cup {Nobody}]
    /\ \A s \in Singles : instance'[s] # Nobody => singles[instance'[s]].of = s
    /\ uninit' \in Seq(DOMAIN singles) /\ stack' \in Seq(DOMAIN singles) /\ Distinct(uninit') /\ Distinct(stack')
    /\ freed' \subseteq DOMAIN singles
    /\ \A j \in DOMAIN singles : (InUninit(j)' => InUninit(j)) /\ (InStack(j)' => InStack(j))
    /\ \A j \in DOMAIN singles \ {i} :
           (InUninit(j)' <=> InUninit(j)) /\ (InStack(j)' <=> InStack(j)) /\ (j \in freed' <=> j \in freed)
    /\ ~crossed /\ singles[i].of \notin raced =>
           ~broken' /\ Gone(i)' /\ instance'[singles[i].of] # i /\ ~InUninit(i)' /\ ~InStack(i)'
    /\ ~crossed => \A j \in DOMAIN singles \ {i} : singles[j].of \notin raced =>
                       (Gone(j)' <=> Gone(j)) /\ (instance'[singles[j].of] = j <=> instance[singles[j].of] = j)

LEMMA UndoneKeeps ==
    ASSUME SngtnInv, ~broken, NEW t \in Threads, NEW i \in DOMAIN singles, on[t] = i, Undone(i),
           \/ place[t] = "destructs" /\ Sngtn!Goes(t, "close", Nobody) /\ lock' = Nobody
           \/ place[t] = "destroys" /\ Sngtn!Goes(t, "unload", Nobody) /\ lock' = lock,
           UNCHANGED <<raced, crossed>>
    PROVE  SngtnInv'
<1> USE SessionAssumption
<1>1. PICK p \in {"close", "unload"} :
          /\ Sngtn!Goes(t, p, Nobody)
          /\ \/ place[t] = "destructs" /\ p = "close" /\ lock' = Nobody
             \/ place[t] = "destroys" /\ p = "unload" /\ lock' = lock
  <2>1. CASE place[t] = "destructs" /\ Sngtn!Goes(t, "close", Nobody) /\ lock' = Nobody
    BY <2>1
  <2>2. CASE place[t] = "destroys" /\ Sngtn!Goes(t, "unload", Nobody) /\ lock' = lock
    BY <2>2
  <2> QED
    BY <2>1, <2>2
<1>2. \A u \in Threads : /\ place'[u] = IF u = t THEN p ELSE place[u]
                         /\ on'[u] = IF u = t THEN Nobody ELSE on[u]
  BY <1>1, GoesThere
<1>3. Sngtn!TypeOK'
  BY <1>1 DEF SngtnInv, Sngtn!TypeOK, Sngtn!Goes, Undone
<1>4. PlacesFit'
  <2>1. on' \in [Threads -> Singles \cup Nat \cup {Nobody}]
    BY <1>1 DEF SngtnInv, PlacesFit, Sngtn!Goes
  <2>2. \A s \in Singles : instance'[s] # Nobody => singles'[instance'[s]].of = s
    BY DEF Undone
  <2>3. DOMAIN singles' = DOMAIN singles
    BY DEF Undone
  <2>4. \A u \in Threads : place'[u] \in {"init", "add", "destructs"} <=> lock' = u
    BY <1>1, <1>2 DEF SngtnInv, PlacesFit
  <2> QED
    BY <1>2, <2>1, <2>2, <2>3, <2>4 DEF SngtnInv, PlacesFit
<1>5. OneUnloads'
  BY <1>1, <1>2 DEF SngtnInv, OneUnloads, Sngtn!Unloading, Sngtn!Closing
<1>6. /\ \A u \in Threads : place[t] = "destructs" /\ Closes(u, i) => u = t
      /\ \A u \in Threads : place[t] = "destroys" /\ place[u] = "destroys" => u = t
      /\ ~Begins(i) /\ ~Adds(i)
  <2>1. \A u \in Threads : place[t] = "destructs" /\ Closes(u, i) => u = t
    BY DEF SngtnInv, EntriesFit, Closes
  <2>2. \A u \in Threads : place[t] = "destroys" /\ place[u] = "destroys" => u = t
    BY DEF SngtnInv, OneUnloads
  <2>3. ~Begins(i) /\ ~Adds(i)
    <3>1. CASE place[t] = "destructs"
      BY <3>1 DEF SngtnInv, PlacesFit, Begins, Adds
    <3>2. CASE place[t] = "destroys"
      BY <3>2 DEF SngtnInv, OneUnloads, Sngtn!Unloading, Begins, Adds
    <3> QED
      BY <3>1, <3>2
  <2> QED
    BY <2>1, <2>2, <2>3
<1>7. \A j \in DOMAIN singles :
          /\ \A u \in Threads : Closes(u, j)' => Closes(u, j)
          /\ (Begins(j)' <=> Begins(j)) /\ (Adds(j)' <=> Adds(j))
          /\ (Ended(j)' => Ended(j)) /\ (Unloaded(j)' => Unloaded(j))
          /\ (j # i => (Ended(j)' <=> Ended(j)) /\ (Unloaded(j)' <=> Unloaded(j)))
          /\ (EndsWithOmega(j)' <=> EndsWithOmega(j))
          /\ singles'[j].of = singles[j].of
  <2>1. \A j \in DOMAIN singles : \A u \in Threads : Closes(u, j)' <=> Closes(u, j) /\ u # t
    BY <1>1, <1>2 DEF Closes
  <2>2. \A j \in DOMAIN singles : j # i => ~Closes(t, j)
    BY DEF Closes
  <2>3. \A j \in DOMAIN singles : (Ended(j)' => Ended(j)) /\ (j # i => (Ended(j)' <=> Ended(j)))
    BY <2>1, <2>2 DEF Ended
  <2>4. \A j \in DOMAIN singles : (Unloaded(j)' => Unloaded(j)) /\ (j # i => (Unloaded(j)' <=> Unloaded(j)))
    BY <1>1, <1>2 DEF Unloaded
  <2>5. \A j \in DOMAIN singles : (Begins(j)' <=> Begins(j)) /\ (Adds(j)' <=> Adds(j))
    BY <1>1, <1>2 DEF Begins, Adds
  <2> QED
    BY <2>1, <2>3, <2>4, <2>5 DEF Undone, EndsWithOmega
<1>8. ASSUME ~crossed PROVE ~Ended(i)' /\ ~Unloaded(i)'
  <2>1. CASE place[t] = "destructs"
    <3>1. ~Sngtn!Unloading
      BY <1>8, <2>1 DEF SngtnInv, OneUnloads, Sngtn!Closing
    <3>2. ~Unloaded(i)'
      BY <1>1, <1>2, <3>1 DEF Sngtn!Unloading, Unloaded
    <3>3. ~Ended(i)'
      BY <1>1, <1>2, <1>6, <2>1 DEF Ended, Closes
    <3> QED
      BY <3>2, <3>3
  <2>2. CASE place[t] = "destroys"
    <3>1. ~Sngtn!Closing
      BY <1>8, <2>2 DEF SngtnInv, OneUnloads, Sngtn!Unloading
    <3>2. ~Unloaded(i)'
      BY <1>1, <1>2, <1>6, <2>2 DEF Unloaded
    <3>3. ~Ended(i)'
      BY <1>1, <1>2, <2>2, <3>1 DEF Ended, Closes, Sngtn!Closing
    <3> QED
      BY <3>2, <3>3
  <2> QED
    BY <1>1, <2>1, <2>2
<1>9. EntriesFit'
  BY <1>7 DEF SngtnInv, EntriesFit, Undone
<1>10. ASSUME ~crossed, NEW j \in DOMAIN singles, singles[j].of \notin raced PROVE Whole(j)'
  <2>1. Whole(j)
    BY <1>10 DEF SngtnInv, AllWhole
  <2>2. CASE j = i
    <3>1. ~broken' /\ Gone(i)' /\ instance'[singles[i].of] # i /\ ~InUninit(i)' /\ ~InStack(i)'
      BY <1>10, <2>2 DEF Undone
    <3> QED
      BY <1>6, <1>7, <1>8, <1>10, <2>2, <3>1 DEF Whole
  <2>3. CASE j # i
    <3>1. /\ (Gone(j)' <=> Gone(j)) /\ (instance'[singles[j].of] = j <=> instance[singles[j].of] = j)
          /\ (InUninit(j)' <=> InUninit(j)) /\ (InStack(j)' <=> InStack(j)) /\ (j \in freed' <=> j \in freed)
      BY <1>10, <2>3 DEF Undone
    <3> QED
      BY <1>7, <2>1, <2>3, <3>1 DEF Whole
  <2> QED
    BY <2>2, <2>3
<1>11. AllWhole'
  <2>1. ~crossed /\ broken' => raced # {}
    BY DEF Undone
  <2>2. \A j \in DOMAIN singles' : singles'[j].of = singles[j].of /\ j \in DOMAIN singles
    BY DEF Undone
  <2> QED
    BY <1>10, <2>1, <2>2 DEF AllWhole
<1> QED
  BY <1>3, <1>4, <1>5, <1>9, <1>11 DEF SngtnInv

LEMMA do_termUndoes ==
    ASSUME SngtnInv, ~broken, NEW i \in DOMAIN singles, Sngtn!do_term(singles[i].of),
           ~crossed /\ singles[i].of \notin raced => ~Gone(i)
    PROVE  /\ singles' \in Seq([of : Singles, is : {"raw", "built", "gone"}]) /\ Len(singles') <= MaxMade
           /\ DOMAIN singles' = DOMAIN singles /\ \A j \in DOMAIN singles : singles'[j].of = singles[j].of
           /\ instance' \in [Singles -> DOMAIN singles \cup {Nobody}]
           /\ \A s \in Singles : instance'[s] # Nobody => singles[instance'[s]].of = s
           /\ ~crossed /\ singles[i].of \notin raced => ~broken' /\ Gone(i)' /\ instance'[singles[i].of] # i
           /\ ~crossed => \A j \in DOMAIN singles \ {i} : singles[j].of \notin raced =>
                       (Gone(j)' <=> Gone(j)) /\ (instance'[singles[j].of] = j <=> instance[singles[j].of] = j)
<1> USE SessionAssumption
<1>1. /\ singles[i].of \in Singles /\ instance' = [instance EXCEPT ![singles[i].of] = Nobody]
      /\ instance \in [Singles -> DOMAIN singles \cup {Nobody}]
      /\ \A s \in Singles : instance[s] # Nobody => singles[instance[s]].of = s
  BY OneIsOf DEF Sngtn!do_term, SngtnInv, Sngtn!TypeOK, PlacesFit
<1>2. \A j \in DOMAIN singles : j \in Nat /\ singles[j].of \in Singles
  BY OneIsOf
<1>3. ~crossed => \A j \in DOMAIN singles : singles[j].of \notin raced => (~Gone(j) <=> instance[singles[j].of] = j)
  BY DEF SngtnInv, AllWhole, Whole
<1>4. CASE instance[singles[i].of] = Nobody
  <2>1. UNCHANGED singles
    BY <1>4 DEF Sngtn!do_term
  <2>2. instance' = instance
    BY <1>1, <1>4
  <2>3. crossed \/ singles[i].of \in raced
    BY <1>2, <1>3, <1>4
  <2>4. singles \in Seq([of : Singles, is : {"raw", "built", "gone"}]) /\ Len(singles) <= MaxMade
    BY DEF SngtnInv, Sngtn!TypeOK
  <2> QED
    BY <1>1, <2>1, <2>2, <2>3, <2>4 DEF Gone
<1>5. CASE instance[singles[i].of] # Nobody
  <2>1. PICK m \in DOMAIN singles : m = instance[singles[i].of] /\ singles[m].of = singles[i].of
    BY <1>1, <1>5
  <2>2. Sngtn!Becomes(m, "gone") /\ UNCHANGED broken /\ instance' = [instance EXCEPT ![singles[m].of] = Nobody]
    BY <1>1, <1>5, <2>1 DEF Sngtn!do_term
  <2>3. /\ singles' \in Seq([of : Singles, is : {"raw", "built", "gone"}]) /\ Len(singles') <= MaxMade
        /\ DOMAIN singles' = DOMAIN singles /\ \A j \in DOMAIN singles : singles'[j].of = singles[j].of
    BY <2>2, OneBecomes
  <2>4. /\ instance' \in [Singles -> DOMAIN singles \cup {Nobody}]
        /\ \A s \in Singles : instance'[s] # Nobody => singles[instance'[s]].of = s
    BY <2>2, OneGoes
  <2>5. ~crossed /\ singles[i].of \notin raced => m = i
    BY <1>3, <2>1
  <2>6. ~crossed /\ singles[i].of \notin raced => ~broken' /\ Gone(i)' /\ instance'[singles[i].of] # i
    <3>1. Gone(m)' /\ instance'[singles[m].of] # m /\ ~broken'
      BY <2>2, OneGoes
    <3> QED
      BY <2>1, <2>5, <3>1 DEF Gone
  <2>7. ASSUME ~crossed, NEW j \in DOMAIN singles \ {i}, singles[j].of \notin raced
        PROVE  (Gone(j)' <=> Gone(j)) /\ (instance'[singles[j].of] = j <=> instance[singles[j].of] = j)
    <3>1. j # m
      BY <2>1, <2>5, <2>7
    <3>2. singles[m].of = singles[j].of => ~Gone(m)
      BY <1>3, <2>1, <2>7
    <3>3. \A k \in DOMAIN singles \ {m} :
             (singles[m].of = singles[k].of /\ ~crossed /\ singles[m].of \notin raced => ~Gone(m)) =>
                 /\ Gone(k)' <=> Gone(k)
                 /\ ~crossed /\ singles[k].of \notin raced =>
                        (instance'[singles[k].of] = k <=> instance[singles[k].of] = k)
      BY <2>2, OneGoes
    <3>4. j \in DOMAIN singles \ {m}
      BY <2>7, <3>1
    <3> QED
      BY <2>7, <3>2, <3>3, <3>4
  <2> QED
    BY <2>3, <2>4, <2>6, <2>7
<1> QED
  BY <1>4, <1>5

LEMMA destructUndoes ==
    ASSUME SngtnInv, ~broken, NEW i \in DOMAIN singles, Sngtn!destruct(i),
           ~crossed /\ singles[i].of \notin raced => ~Gone(i)
    PROVE  Undone(i)
<1>1. /\ uninit \in Seq(DOMAIN singles) /\ stack \in Seq(DOMAIN singles) /\ Distinct(uninit) /\ Distinct(stack)
      /\ freed \subseteq DOMAIN singles
  BY DEF SngtnInv, Sngtn!TypeOK, EntriesFit
<1>2. CASE i \in freed
  <2>1. broken' = TRUE /\ UNCHANGED <<instance, singles, uninit, stack, freed>>
    BY <1>2 DEF Sngtn!destruct
  <2>2. crossed \/ singles[i].of \in raced
    BY <1>2 DEF SngtnInv, AllWhole, Whole
  <2>3. \A s \in Singles : instance'[s] # Nobody => singles[instance'[s]].of = s
    BY <2>1 DEF SngtnInv, PlacesFit
  <2>4. /\ singles' \in Seq([of : Singles, is : {"raw", "built", "gone"}]) /\ Len(singles') <= MaxMade
        /\ instance' \in [Singles -> DOMAIN singles \cup {Nobody}]
    BY <2>1 DEF SngtnInv, Sngtn!TypeOK
  <2> QED
    BY <1>1, <2>1, <2>2, <2>3, <2>4 DEF Undone, InUninit, InStack, Gone
<1>3. CASE i \notin freed
  <2>1. /\ uninit' = Sngtn!WithoutEntry(uninit, i) /\ stack' = Sngtn!WithoutEntry(stack, i)
        /\ Sngtn!do_term(singles[i].of) /\ freed' = freed \cup {i}
    BY <1>3 DEF Sngtn!destruct
  <2>2. /\ uninit' \in Seq(DOMAIN singles) /\ Distinct(uninit')
        /\ \A j : InUninit(j)' <=> InUninit(j) /\ j # i
    <3>1. /\ uninit' \in Seq(DOMAIN singles) /\ Distinct(uninit')
          /\ Sngtn!ToSet(uninit') = Sngtn!ToSet(uninit) \ {i}
      BY <1>1, <2>1, RemovesEntry
    <3> QED
      BY <3>1 DEF InUninit
  <2>3. /\ stack' \in Seq(DOMAIN singles) /\ Distinct(stack')
        /\ \A j : InStack(j)' <=> InStack(j) /\ j # i
    <3>1. /\ stack' \in Seq(DOMAIN singles) /\ Distinct(stack')
          /\ Sngtn!ToSet(stack') = Sngtn!ToSet(stack) \ {i}
      BY <1>1, <2>1, RemovesEntry
    <3> QED
      BY <3>1 DEF InStack
  <2>4. freed' \subseteq DOMAIN singles /\ \A j \in DOMAIN singles \ {i} : j \in freed' <=> j \in freed
    BY <1>1, <2>1
  <2> QED
    BY <2>1, <2>2, <2>3, <2>4, do_termUndoes DEF Undone
<1> QED
  BY <1>2, <1>3

LEMMA DestructsKeeps ==
    ASSUME SngtnInv, ~broken, NEW t \in Threads, Sngtn!Destructs(t)
    PROVE  SngtnInv'
<1>1. PICK i \in DOMAIN singles : i = on[t] /\ place[t] = "destructs"
  BY DEF SngtnInv, PlacesFit, Sngtn!Destructs
<1>2. /\ Sngtn!destruct(i) /\ lock' = Nobody /\ Sngtn!Goes(t, "close", Nobody) /\ UNCHANGED <<raced, crossed>>
  BY <1>1 DEF Sngtn!Destructs
<1>3. Ended(i)
  BY <1>1 DEF Ended, Closes
<1>4. ~crossed /\ singles[i].of \notin raced => ~Gone(i)
  BY <1>3 DEF SngtnInv, AllWhole, Whole
<1>5. Undone(i)
  BY <1>2, <1>4, destructUndoes
<1> QED
  BY <1>1, <1>2, <1>5, UndoneKeeps

LEMMA DestroysKeeps ==
    ASSUME SngtnInv, ~broken, NEW t \in Threads, Sngtn!Destroys(t)
    PROVE  SngtnInv'
<1>1. PICK i \in DOMAIN singles : i = on[t] /\ place[t] = "destroys"
  BY DEF SngtnInv, PlacesFit, Sngtn!Destroys
<1>2. /\ \/ EndsWithOmega(i) /\ Sngtn!destruct(i)
         \/ ~EndsWithOmega(i) /\ Sngtn!do_term(singles[i].of) /\ UNCHANGED <<uninit, stack, freed>>
      /\ lock' = lock /\ Sngtn!Goes(t, "unload", Nobody) /\ UNCHANGED <<raced, crossed>>
  BY <1>1, OneIsOf DEF Sngtn!Destroys, EndsWithOmega
<1>3. Unloaded(i)
  BY <1>1 DEF Unloaded
<1>4. ~crossed /\ singles[i].of \notin raced => ~Gone(i)
  BY <1>3 DEF SngtnInv, AllWhole, Whole
<1>5. CASE EndsWithOmega(i)
  <2>1. Undone(i)
    BY <1>2, <1>4, <1>5, destructUndoes
  <2> QED
    BY <1>1, <1>2, <2>1, UndoneKeeps
<1>6. CASE ~EndsWithOmega(i)
  <2>1. Sngtn!do_term(singles[i].of) /\ UNCHANGED <<uninit, stack, freed>>
    BY <1>2, <1>6
  <2>2. ~InUninit(i) /\ ~InStack(i)
    BY <1>3, <1>6 DEF SngtnInv, EntriesFit
  <2>3. \A j : (InUninit(j)' <=> InUninit(j)) /\ (InStack(j)' <=> InStack(j))
    BY <2>1 DEF InUninit, InStack
  <2>4. /\ uninit' \in Seq(DOMAIN singles) /\ stack' \in Seq(DOMAIN singles) /\ Distinct(uninit') /\ Distinct(stack')
        /\ freed' \subseteq DOMAIN singles
    BY <2>1 DEF SngtnInv, Sngtn!TypeOK, EntriesFit
  <2>5. Undone(i)
    BY <1>4, <2>1, <2>2, <2>3, <2>4, do_termUndoes DEF Undone
  <2> QED
    BY <1>1, <1>2, <2>5, UndoneKeeps
<1> QED
  BY <1>5, <1>6

LEMMA SngtnInit == Sngtn!Init => SngtnInv
<1> SUFFICES ASSUME Sngtn!Init PROVE SngtnInv
  OBVIOUS
<1> USE SessionAssumption
<1>1. /\ singles = <<>> /\ uninit = <<>> /\ stack = <<>> /\ freed = {} /\ raced = {} /\ lock = Nobody
      /\ ~broken /\ ~crossed
      /\ \A s \in Singles : instance[s] = Nobody
      /\ \A t \in Threads : place[t] = "idle"
  BY DEF Sngtn!Init
<1>2. DOMAIN singles = {} /\ Len(singles) = 0 /\ DOMAIN uninit = {} /\ DOMAIN stack = {}
  BY <1>1, EmptySeq
<1>3. Sngtn!TypeOK
  BY <1>1, <1>2, EmptySeq DEF Sngtn!Init, Sngtn!TypeOK
<1>4. PlacesFit
  BY <1>1 DEF PlacesFit, Sngtn!Init
<1>5. OneUnloads
  BY <1>1 DEF OneUnloads, Sngtn!Unloading, Sngtn!Closing
<1>6. EntriesFit /\ AllWhole
  BY <1>1, <1>2 DEF EntriesFit, AllWhole, Distinct
<1> QED
  BY <1>3, <1>4, <1>5, <1>6 DEF SngtnInv

LEMMA SngtnStep == SngtnInv /\ [Sngtn!Next]_sngtnVars => SngtnInv'
<1> SUFFICES ASSUME SngtnInv, [Sngtn!Next]_sngtnVars PROVE SngtnInv'
  OBVIOUS
<1>1. CASE UNCHANGED sngtnVars
  <2>1. UNCHANGED <<instance, singles, lock, uninit, stack, freed, place, on, raced, crossed, broken>>
    BY <1>1 DEF sngtnVars
  <2>2. Sngtn!TypeOK' /\ PlacesFit' /\ OneUnloads'
    BY <2>1 DEF SngtnInv, Sngtn!TypeOK, PlacesFit, OneUnloads, Sngtn!Unloading, Sngtn!Closing
  <2>3. \A i : /\ \A t \in Threads : Closes(t, i)' <=> Closes(t, i)
               /\ (Begins(i)' <=> Begins(i)) /\ (Adds(i)' <=> Adds(i))
               /\ (Ended(i)' <=> Ended(i)) /\ (Unloaded(i)' <=> Unloaded(i))
               /\ (InUninit(i)' <=> InUninit(i)) /\ (InStack(i)' <=> InStack(i))
               /\ (EndsWithOmega(i)' <=> EndsWithOmega(i)) /\ (Gone(i)' <=> Gone(i))
    BY <2>1 DEF Begins, Adds, Closes, Ended, Unloaded, InUninit, InStack, EndsWithOmega, Gone
  <2>4. EntriesFit' /\ AllWhole'
    BY <2>1, <2>3 DEF SngtnInv, EntriesFit, AllWhole, Whole
  <2> QED
    BY <2>2, <2>4 DEF SngtnInv
<1>2. ASSUME ~broken, NEW t \in Threads, Sngtn!Step(t) PROVE SngtnInv'
  BY <1>2, LookKeeps, AllocateKeeps, InitThrowsKeeps, do_initKeeps, add_destructorKeeps, AddThrowsKeeps,
     CloseSingletonsKeeps, close_singletonsKeeps, Guard2Keeps, DestructsKeeps,
     UnloadKeeps, mod_destruct__dctorKeeps, DestroysKeeps DEF Sngtn!Step
<1> QED
  BY <1>1, <1>2 DEF Sngtn!Next

LEMMA SngtnCardinality == ASSUME NEW S PROVE Sngtn!Cardinality(S) = Cardinality(S)
  BY DEF Sngtn!Cardinality, Cardinality

LEMMA OneOfEach == ASSUME SngtnInv PROVE Sngtn!SingletonsAreOne
<1> USE SessionAssumption
<1> SUFFICES ASSUME ~crossed PROVE
        /\ broken => raced # {}
        /\ \A s \in Singles \ raced : Sngtn!MadeOnce(s)
        /\ \A i \in DOMAIN singles :
               /\ singles[i].is # "gone" /\ singles[i].of \notin raced => Sngtn!HasItsEntry(i)
               /\ singles[i].is = "gone" /\ singles[i].of \notin raced /\ ~broken =>
                      i \notin Sngtn!ToSet(stack) \cup Sngtn!ToSet(uninit)
  BY DEF Sngtn!SingletonsAreOne
<1>1. broken => raced # {}
  BY DEF SngtnInv, AllWhole
<1>2. ASSUME NEW s \in Singles \ raced PROVE Sngtn!MadeOnce(s)
  <2> DEFINE There == {i \in DOMAIN singles : singles[i].of = s /\ singles[i].is # "gone"}
  <2>1. \A i \in DOMAIN singles : singles[i].of = s => (singles[i].is # "gone" <=> instance[s] = i)
    BY DEF SngtnInv, AllWhole, Whole, Gone
  <2>2. CASE instance[s] = Nobody
    <3>1. There = {}
      BY <2>1, <2>2, OneIsOf
    <3>2. Sngtn!Cardinality(There) = 0
      BY <3>1, SngtnCardinality, FS_EmptySet
    <3> QED
      BY <2>2, <3>2 DEF Sngtn!MadeOnce
  <2>3. CASE instance[s] # Nobody
    <3>1. instance[s] \in DOMAIN singles /\ singles[instance[s]].of = s
      BY <2>3 DEF SngtnInv, Sngtn!TypeOK, PlacesFit
    <3>2. There = {instance[s]}
      BY <2>1, <3>1
    <3>3. Sngtn!Cardinality(There) = 1
      BY <3>2, SngtnCardinality, FS_Singleton
    <3> QED
      BY <2>3, <3>3 DEF Sngtn!MadeOnce
  <2> QED
    BY <2>2, <2>3
<1>3. ASSUME NEW i \in DOMAIN singles, singles[i].of \notin raced
      PROVE  /\ singles[i].is # "gone" => Sngtn!HasItsEntry(i)
             /\ singles[i].is = "gone" /\ ~broken => i \notin Sngtn!ToSet(stack) \cup Sngtn!ToSet(uninit)
  <2>1. Whole(i)
    BY <1>3 DEF SngtnInv, AllWhole
  <2>2. singles[i].of \in Singles
    BY OneIsOf
  <2>3. singles[i].is # "gone" => Sngtn!HasItsEntry(i)
    BY <2>1, <2>2 DEF Whole, Gone, Sngtn!HasItsEntry, InStack, InUninit, Begins, Adds, Ended, Closes, Unloaded,
                      EndsWithOmega
  <2> QED
    BY <2>1, <2>3 DEF Whole, Gone, InStack, InUninit
<1> QED
  BY <1>1, <1>2, <1>3

-----------------------------------------------------------------------------
\* The strengthened invariant of the root and its sandbox: where services are between
\* being asked for and being told to stop, of the part of the sessions that has servers.
THEOREM ServerInvariance == SessionSpec => []ServerInv
<1>1. SessionInit => ServerInv
  BY ServerInit DEF SessionInit
<1>2. ServerInv /\ [SessionNext]_<<part, vars, comptVars, sngtnVars, serverVars>> => ServerInv'
  <2>1. ASSUME [SessionNext]_<<part, vars, comptVars, sngtnVars, serverVars>>
        PROVE  [Servers!Next]_serverVars
    BY <2>1 DEF SessionNext
  <2> QED
    BY <2>1, ServerStep
<1> QED
  BY <1>1, <1>2, PTL DEF SessionSpec

\* The strengthened invariant of the singletons: their pointers, entries and the threads
\* that make or destroy them fit, of the part of the sessions that has singletons.
THEOREM SingletonInvariance == SessionSpec => []SngtnInv
<1>1. SessionInit => SngtnInv
  BY SngtnInit DEF SessionInit
<1>2. SngtnInv /\ [SessionNext]_<<part, vars, comptVars, sngtnVars, serverVars>> => SngtnInv'
  <2>1. ASSUME [SessionNext]_<<part, vars, comptVars, sngtnVars, serverVars>>
        PROVE  [Sngtn!Next]_sngtnVars
    BY <2>1 DEF SessionNext
  <2> QED
    BY <2>1, SngtnStep
<1> QED
  BY <1>1, <1>2, PTL DEF SessionSpec

\* Processes are taken down whole, whatever threads, singletons and services they have.
\* A singleton that was not made twice is one, has the entries it is destroyed by until
\* it is and none after, unless Omega is closed as the module is unloaded. A service that
\* runs is on the sandbox's list, is being told to stop, or was told before it was
\* started; when the root is told that all have stopped, none runs but such, of the
\* sandbox's own stop, and what was being launched; and the root leaves no sandbox.
THEOREM AllIsTakenDown == SessionSpec => []TakenDownWhole
<1>1. ServerInv /\ SngtnInv => TakenDownWhole
  BY ServersEnd, OneOfEach DEF TakenDownWhole
<1> QED
  BY <1>1, ServerInvariance, SingletonInvariance, PTL

LEMMA ComptTyped == ASSUME ComptInv PROVE Compts!TypeOK
<1>1. \A t \in Makers : runs[t] \in Seq(Compts!Ids)
  <2>1. 0..made \subseteq Compts!Ids
    BY IdsAre DEF ComptInv, ComptTypes
  <2> QED
    BY <2>1, EntriesStay DEF ComptInv, ComptTypes
<1>2. ASSUME NEW c \in Compts!Ids, NEW e \in tables[c]
      PROVE  /\ e.end \in Ends \cup {Compts!Own(id) : id \in Compts!Ids \ {c}} /\ e.ch \in DOMAIN channels
             /\ channels[e.ch].in = c /\ channels[e.ch].end = e.end
  <2>1. e.ch \in DOMAIN channels /\ channels[e.ch].in = c /\ channels[e.ch].end = e.end
    BY DEF ComptInv, Entered
  <2>2. e.end \in AllEnds /\ e.end # Compts!Own(c)
    BY <2>1 DEF ComptInv, ComptTypes, Listing, Fits
  <2> QED
    BY <2>1, <2>2 DEF AllEnds
<1>3. reader.left \subseteq Compts!Ids
  BY DEF ComptInv, ComptTypes, Notices
<1>4. runs \in [Makers -> Seq(Compts!Ids)]
  BY <1>1 DEF ComptInv, ComptTypes
<1> QED
  BY <1>2, <1>3, <1>4 DEF ComptInv, ComptTypes, Compts!TypeOK

\* Each part of a session's processes keeps to its types.
THEOREM SessionTypes == SessionSpec => []SessionTypeOK
<1>1. SessionInit => IInv
  BY Initially DEF SessionInit
<1>2. IInv /\ [SessionNext]_<<part, vars, comptVars, sngtnVars, serverVars>> => IInv'
  <2>1. ASSUME [SessionNext]_<<part, vars, comptVars, sngtnVars, serverVars>>
        PROVE  [Next]_vars
    BY <2>1 DEF SessionNext
  <2> QED
    BY <2>1, Inductive
<1> DEFINE OnePart == part \in {"life", "compartments", "singletons", "servers"}
<1>3. SessionInit => OnePart
  BY DEF SessionInit
<1>4. OnePart /\ [SessionNext]_<<part, vars, comptVars, sngtnVars, serverVars>> => OnePart'
  BY DEF SessionNext
<1>5. OnePart /\ IInv /\ ComptInv /\ SngtnInv /\ ServerInv => SessionTypeOK
  BY ComptTyped DEF SessionTypeOK, IInv, SngtnInv, ServerInv
<1> HIDE DEF OnePart
<1> QED
  BY <1>1, <1>2, <1>3, <1>4, <1>5, CompartmentInvariance, ServerInvariance, SingletonInvariance, PTL DEF SessionSpec
================================================================================
