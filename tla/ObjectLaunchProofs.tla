-------------------------- MODULE ObjectLaunchProofs --------------------------
(***************************************************************************)
(* The safety properties of ObjectLaunch for any threads, executables,     *)
(* object maps and number of activations, and what MCActivation says of    *)
(* loads, for any registries and libraries, and of overlays.               *)
(***************************************************************************)
EXTENDS MCActivation, FiniteSetTheorems, SequenceTheorems, TLAPS

\* Entries are those of processes that have been started, and a process's own
\* table has what it has finished to register.
EntriesAreStarted == \A e \in upper : proc[e.proc] # "none"

LocalMeansIn == \A p \in Procs : \A o \in local[p] : reg[p][o] = "in"

\* A launch, and the entry of m_mapInProgress, have a process of the executable
\* they are about.
OwnExecutable ==
    /\ \A a \in Apps : inProgress[a] # None =>
          proc[inProgress[a]] # "none" /\ app[inProgress[a]] = a
    /\ \A t \in Threads : mine[t] # None =>
          /\ proc[mine[t]] # "none" /\ app[mine[t]] = AppOf(want[t])
          /\ pc[t] \notin {"idle", "look", "lookRevoke", "enter"}

IInv ==
    /\ TypeOK /\ TablesAgree /\ WaitersAreTold /\ InProgressIsTrue
    /\ EntriesAreStarted /\ LocalMeansIn /\ OwnExecutable

\* The registry names one executable for an oid.
LEMMA AppOfIsApp == \A o \in Oids : AppOf(o) \in Apps
  BY LaunchAssumption DEF AppOf

LEMMA Initially == Init => IInv
<1> SUFFICES ASSUME Init PROVE IInv
  OBVIOUS
<1>1. TypeOK
  <2>1. ProcessTypeOK /\ TableTypeOK
    BY DEF Init, ProcessTypeOK, TableTypeOK, RegPlaces
  <2>2. ThreadTypeOK
    BY DEF Init, ThreadTypeOK, Places
  <2>3. ActiveTypeOK
    BY DEF Init, ActiveTypeOK
  <2>4. thrown = FALSE /\ gets = 0 /\ MaxGets \in Nat
    BY LaunchAssumption DEF Init
  <2>5. thrown \in BOOLEAN
    BY <2>4
  <2>6. gets \in 0..MaxGets
    BY <2>4
  <2> QED
    BY <2>1, <2>2, <2>3, <2>5, <2>6 DEF TypeOK
<1>2. TablesAgree /\ WaitersAreTold
  <2>1. upper = {} /\ \A t \in Threads : pc[t] = "idle"
    BY DEF Init
  <2> QED
    BY <2>1 DEF TablesAgree, WaitersAreTold
<1>3. InProgressIsTrue /\ EntriesAreStarted /\ LocalMeansIn /\ OwnExecutable
  BY DEF Init, InProgressIsTrue, EntriesAreStarted, LocalMeansIn, OwnExecutable
<1> QED
  BY <1>1, <1>2, <1>3 DEF IInv

-----------------------------------------------------------------------------
\* The steps of the processes

\* What a registering process does leaves threads and launches alone.
LEMMA LaunchesUntouched ==
    ASSUME IInv, UNCHANGED <<inProgress, threadVars, thrown>>,
           \A p \in Procs : proc[p] # "none" => proc'[p] # "none" /\ app'[p] = app[p]
    PROVE  InProgressIsTrue' /\ OwnExecutable'
<1>1. InProgressIsTrue'
  BY DEF IInv, InProgressIsTrue, threadVars
<1>2. OwnExecutable'
  <2>1. inProgress' = inProgress /\ pc' = pc /\ want' = want /\ mine' = mine
    BY DEF threadVars
  <2>2. /\ \A a \in Apps : inProgress[a] # None => inProgress[a] \in Procs
        /\ \A t \in Threads : mine[t] # None => mine[t] \in Procs
    BY DEF IInv, TypeOK, TableTypeOK, ThreadTypeOK
  <2> QED
    BY <2>1, <2>2 DEF IInv, OwnExecutable
<1> QED
  BY <1>1, <1>2

\* A step of one registration moves that one only.
LEMMA GoesEffect ==
    ASSUME TypeOK, NEW p \in Procs, NEW o \in Oids, NEW place \in RegPlaces, Goes(p, o, place)
    PROVE  /\ reg' \in [Procs -> [Oids -> RegPlaces]]
           /\ reg'[p][o] = place
           /\ \A q \in Procs, x \in Oids : q # p \/ x # o => reg'[q][x] = reg[q][x]
<1>1. reg \in [Procs -> [Oids -> RegPlaces]] /\ reg' = [reg EXCEPT ![p][o] = place]
  BY DEF TypeOK, ProcessTypeOK, Goes
<1>2. reg[p] \in [Oids -> RegPlaces] /\ reg' = [reg EXCEPT ![p] = [reg[p] EXCEPT ![o] = place]]
  BY <1>1
<1>3. [reg[p] EXCEPT ![o] = place] \in [Oids -> RegPlaces]
  BY <1>2
<1> QED
  BY <1>1, <1>2, <1>3

LEMMA RegisterObjectPreserves ==
    ASSUME IInv, NEW p \in Procs, NEW o \in Oids, RegisterObject(p, o)
    PROVE  IInv'
<1> DEFINE new == [oid |-> o, proc |-> p]
<1>1. /\ proc[p] = "running" /\ reg[p][o] = "none" /\ new \in Entry
      /\ \/ Goes(p, o, "listed") /\ upper' = (upper \ Dead(o)) \cup {new}
         \/ Goes(p, o, "out") /\ UNCHANGED upper
      /\ UNCHANGED <<proc, app, local, inProgress, threadVars, signalled, before, thrown, gets>>
      /\ "listed" \in RegPlaces /\ "out" \in RegPlaces
  BY DEF RegisterObject, At, Entry, RegPlaces
<1>2. TypeOK'
  <2>1. ProcessTypeOK'
    BY <1>1, GoesEffect DEF IInv, TypeOK, ProcessTypeOK
  <2>2. TableTypeOK'
    BY <1>1 DEF IInv, TypeOK, TableTypeOK
  <2>3. ThreadTypeOK' /\ ActiveTypeOK'
    BY <1>1 DEF IInv, TypeOK, ThreadTypeOK, ActiveTypeOK, threadVars
  <2> QED
    BY <1>1, <2>1, <2>2, <2>3 DEF IInv, TypeOK
<1>3. \A q \in Procs, x \in Oids : q # p \/ x # o => reg'[q][x] = reg[q][x]
  BY <1>1, GoesEffect DEF IInv, TypeOK, ProcessTypeOK
<1>4. reg'[p][o] \in {"listed", "out"} /\ (new \in upper' \ upper => reg'[p][o] = "listed")
  BY <1>1, GoesEffect DEF IInv, TypeOK, ProcessTypeOK
<1>5. new \notin upper
  BY <1>1 DEF IInv, TypeOK, ProcessTypeOK, TablesAgree, IsAlive, IsRunning, LocalMeansIn
<1>6. \A e \in upper' : e = new \/ (e \in upper /\ e # new)
  BY <1>1, <1>5
<1>7. TablesAgree'
  <2> SUFFICES ASSUME NEW e \in upper', IsAlive(e)'
               PROVE  (\/ e.oid \in local[e.proc]
                       \/ reg[e.proc][e.oid] \in {"listed", "told", "undone", "revoked"})'
    BY DEF TablesAgree
  <2>1. CASE e = new
    BY <2>1, <1>4, <1>5
  <2>2. CASE e \in upper /\ e # new
    <3>1. e.oid \in Oids /\ e.proc \in Procs /\ (e.proc # p \/ e.oid # o)
      BY <2>2 DEF IInv, TypeOK, TableTypeOK, Entry
    <3> QED
      BY <2>2, <3>1, <1>1, <1>3 DEF IInv, TablesAgree, IsAlive, IsRunning
  <2> QED
    BY <2>1, <2>2, <1>6
<1>8. WaitersAreTold'
  <2> SUFFICES ASSUME NEW t \in Threads, pc[t] = "wait", t \notin signalled,
                      NEW e \in upper', e.oid = want[t], e \notin before[t]
               PROVE  \/ e.oid \in Public \/ ~IsAlive(e)' \/ proc'[e.proc] = "hung"
                      \/ reg'[e.proc][e.oid] = "listed"
    BY <1>1 DEF WaitersAreTold, Entries, threadVars
  <2>1. CASE e = new
    BY <2>1, <1>4, <1>5
  <2>2. CASE e \in upper /\ e # new
    <3>1. e.oid \in Oids /\ e.proc \in Procs /\ (e.proc # p \/ e.oid # o)
      BY <2>2 DEF IInv, TypeOK, TableTypeOK, Entry
    <3> QED
      BY <2>2, <3>1, <1>1, <1>3 DEF IInv, WaitersAreTold, Entries, IsAlive, IsRunning
  <2> QED
    BY <2>1, <2>2, <1>6
<1>9. EntriesAreStarted'
  BY <1>1, <1>6 DEF IInv, EntriesAreStarted
<1>10. LocalMeansIn'
  BY <1>1, <1>3 DEF IInv, TypeOK, ProcessTypeOK, LocalMeansIn
<1>11. InProgressIsTrue' /\ OwnExecutable'
  BY <1>1, LaunchesUntouched
<1> QED
  BY <1>2, <1>7, <1>8, <1>9, <1>10, <1>11 DEF IInv

\* The steps that take a registration further, or back.
LEMMA MovePreserves ==
    ASSUME IInv, NEW p \in Procs, NEW o \in Oids, NEW place \in RegPlaces, Goes(p, o, place),
           UNCHANGED <<proc, app, inProgress, threadVars, before, thrown, gets>>,
           upper' \subseteq upper,
           signalled \subseteq signalled', signalled' \subseteq Threads,
           local' \in [Procs -> SUBSET Oids],
           \A q \in Procs, x \in Oids : q # p \/ x # o => (x \in local'[q] <=> x \in local[q]),
           o \in local'[p] => place = "in",
           [oid |-> o, proc |-> p] \in upper' =>
                o \in local'[p] \/ place \in {"listed", "told", "undone", "revoked"},
           reg[p][o] = "listed" =>
                \A t \in Threads : pc[t] = "wait" /\ want[t] = o /\ o \notin Public => t \in signalled'
    PROVE  IInv'
<1>1. /\ reg' \in [Procs -> [Oids -> RegPlaces]]
      /\ reg'[p][o] = place
      /\ \A q \in Procs, x \in Oids : q # p \/ x # o => reg'[q][x] = reg[q][x]
  BY GoesEffect DEF IInv
<1>2. \A e \in upper' : /\ e \in upper /\ e.oid \in Oids /\ e.proc \in Procs
                        /\ e.oid = o /\ e.proc = p => e = [oid |-> o, proc |-> p]
  BY DEF IInv, TypeOK, TableTypeOK, Entry
<1>3. TypeOK'
  <2>1. ProcessTypeOK'
    BY <1>1 DEF IInv, TypeOK, ProcessTypeOK
  <2>2. TableTypeOK'
    BY DEF IInv, TypeOK, TableTypeOK
  <2>3. ThreadTypeOK' /\ ActiveTypeOK'
    BY DEF IInv, TypeOK, ThreadTypeOK, ActiveTypeOK, threadVars
  <2> QED
    BY <2>1, <2>2, <2>3 DEF IInv, TypeOK
<1>4. TablesAgree'
  <2> SUFFICES ASSUME NEW e \in upper', IsAlive(e)
               PROVE  \/ e.oid \in local'[e.proc]
                      \/ reg'[e.proc][e.oid] \in {"listed", "told", "undone", "revoked"}
    BY DEF TablesAgree, IsAlive, IsRunning
  <2>1. CASE e.oid = o /\ e.proc = p
    BY <2>1, <1>1, <1>2
  <2>2. CASE e.oid # o \/ e.proc # p
    BY <2>2, <1>1, <1>2 DEF IInv, TablesAgree
  <2> QED
    BY <2>1, <2>2
<1>5. WaitersAreTold'
  <2> SUFFICES ASSUME NEW t \in Threads, pc[t] = "wait", t \notin signalled',
                      NEW e \in upper', e.oid = want[t], e \notin before[t],
                      e.oid \notin Public, IsAlive(e), proc[e.proc] # "hung"
               PROVE  reg'[e.proc][e.oid] = "listed"
    BY DEF WaitersAreTold, Entries, threadVars, IsAlive, IsRunning
  <2>1. reg[e.proc][e.oid] = "listed"
    BY <1>2 DEF IInv, WaitersAreTold, Entries
  <2>2. e.oid # o \/ e.proc # p
    BY <2>1
  <2> QED
    BY <2>1, <2>2, <1>1, <1>2
<1>6. EntriesAreStarted'
  BY DEF IInv, EntriesAreStarted
<1>7. LocalMeansIn'
  <2> SUFFICES ASSUME NEW q \in Procs, NEW x \in local'[q] PROVE reg'[q][x] = "in"
    BY DEF LocalMeansIn
  <2>1. x \in Oids
    OBVIOUS
  <2>2. CASE q = p /\ x = o
    BY <2>2, <1>1
  <2>3. CASE q # p \/ x # o
    BY <2>1, <2>3, <1>1 DEF IInv, LocalMeansIn
  <2> QED
    BY <2>2, <2>3
<1>8. InProgressIsTrue' /\ OwnExecutable'
  BY LaunchesUntouched
<1> QED
  BY <1>3, <1>4, <1>5, <1>6, <1>7, <1>8 DEF IInv

LEMMA RegistrationPreserves ==
    ASSUME IInv, NEW p \in Procs, NEW o \in Oids, RegisterStep(p, o) \/ LocalRevoke(p, o)
    PROVE  IInv'
<1> USE DEF At
<1>1. /\ {"told", "in", "undone", "revoked", "out"} \subseteq RegPlaces
      /\ local \in [Procs -> SUBSET Oids] /\ signalled \subseteq Threads
      /\ o \in local[p] => reg[p][o] = "in"
  BY DEF IInv, TypeOK, ProcessTypeOK, TableTypeOK, RegPlaces, LocalMeansIn
<1>2. CASE RegisterObject(p, o)
  BY <1>2, RegisterObjectPreserves
<1>3. CASE OnRegisterObject(p, o)
  <2>1. \A t \in Threads :
            pc[t] = "wait" /\ want[t] = o /\ o \notin Public => t \in signalled'
    BY <1>3 DEF OnRegisterObject, Notified
  <2>2. signalled \subseteq signalled' /\ signalled' \subseteq Threads
    BY <1>3, <1>1 DEF OnRegisterObject, Notified
  <2> QED
    BY <1>3, <1>1, <2>1, <2>2, MovePreserves DEF OnRegisterObject
<1>4. CASE LocalRegister(p, o)
  <2>1. /\ local' \in [Procs -> SUBSET Oids]
        /\ \A q \in Procs, x \in Oids : q # p \/ x # o => (x \in local'[q] <=> x \in local[q])
        /\ o \in local'[p]
    BY <1>4, <1>1 DEF LocalRegister
  <2> QED
    BY <1>4, <1>1, <2>1, MovePreserves DEF LocalRegister
<1>5. CASE LocalRegisterFails(p, o)
  BY <1>5, <1>1, MovePreserves DEF LocalRegisterFails
<1>6. CASE LocalRevoke(p, o)
  <2>1. /\ local' \in [Procs -> SUBSET Oids]
        /\ \A q \in Procs, x \in Oids : q # p \/ x # o => (x \in local'[q] <=> x \in local[q])
        /\ o \notin local'[p]
    BY <1>6, <1>1 DEF LocalRevoke
  <2> QED
    BY <1>6, <1>1, <2>1, MovePreserves DEF LocalRevoke
<1>7. CASE UpperRevoke(p, o)
  BY <1>7, <1>1, MovePreserves DEF UpperRevoke
<1> QED
  BY <1>2, <1>3, <1>4, <1>5, <1>6, <1>7 DEF RegisterStep

-----------------------------------------------------------------------------
\* Processes that hang or end, and threads

\* A process that no longer registers anything has nothing to keep.
LEMMA ProcessesStop ==
    ASSUME IInv, NEW p \in Procs, NEW how \in {"hung", "gone", "killed"},
           proc' = [proc EXCEPT ![p] = how], UNCHANGED app,
           \/ how = "hung" /\ UNCHANGED <<reg, local>>
           \/ how # "hung" /\ Ends(p, how)
    PROVE  /\ ProcessTypeOK' /\ LocalMeansIn'
           /\ \A q \in Procs : /\ proc[q] # "none" => proc'[q] # "none"
                               /\ q # p => proc'[q] = proc[q] /\ reg'[q] = reg[q]
                                           /\ local'[q] = local[q]
           /\ proc'[p] = how
<1>1. /\ proc \in [Procs -> {"none", "running", "hung", "gone", "killed"}]
      /\ reg \in [Procs -> [Oids -> RegPlaces]] /\ local \in [Procs -> SUBSET Oids]
      /\ app \in [Procs -> Apps \cup {None}] /\ "out" \in RegPlaces
  BY DEF IInv, TypeOK, ProcessTypeOK, RegPlaces
<1>2. CASE how = "hung" /\ UNCHANGED <<reg, local>>
  BY <1>1, <1>2 DEF IInv, ProcessTypeOK, LocalMeansIn
<1>3. CASE how # "hung" /\ Ends(p, how)
  <2>1. /\ reg' = [reg EXCEPT ![p] = [x \in Oids |-> "out"]]
        /\ local' = [local EXCEPT ![p] = {}]
    BY <1>3 DEF Ends
  <2>2. reg' \in [Procs -> [Oids -> RegPlaces]] /\ local' \in [Procs -> SUBSET Oids]
    BY <1>1, <2>1
  <2>3. ProcessTypeOK'
    BY <1>1, <2>2 DEF ProcessTypeOK
  <2>4. LocalMeansIn'
    BY <1>1, <2>1 DEF IInv, LocalMeansIn
  <2> QED
    BY <1>1, <2>1, <2>3, <2>4
<1> QED
  BY <1>2, <1>3

\* Nor does it leave an entry that could count as alive and unlisted.
LEMMA TablesSurviveStop ==
    ASSUME IInv, NEW p \in Procs, NEW how \in {"hung", "gone", "killed"},
           proc' = [proc EXCEPT ![p] = how], UNCHANGED <<app, upper>>,
           how = "hung" => proc[p] = "running",
           \/ how = "hung" /\ UNCHANGED <<reg, local>>
           \/ how # "hung" /\ Ends(p, how)
    PROVE  TablesAgree' /\ EntriesAreStarted'
<1>1. \A e \in upper : e.proc \in Procs
  BY DEF IInv, TypeOK, TableTypeOK, Entry
<1>2. EntriesAreStarted'
  BY <1>1, ProcessesStop DEF IInv, EntriesAreStarted
<1>3. TablesAgree'
  <2> SUFFICES ASSUME NEW e \in upper, IsAlive(e)'
               PROVE  \/ e.oid \in local'[e.proc]
                      \/ reg'[e.proc][e.oid] \in {"listed", "told", "undone", "revoked"}
    BY DEF TablesAgree
  <2>1. CASE e.proc # p
    BY <2>1, <1>1, ProcessesStop DEF IInv, TablesAgree, IsAlive, IsRunning
  <2>2. CASE e.proc = p
    BY <2>2, <1>1, ProcessesStop DEF IInv, TablesAgree, IsAlive, IsRunning
  <2> QED
    BY <2>1, <2>2
<1> QED
  BY <1>2, <1>3

\* Whom a waiting thread has missed does not depend on processes that stop.
LEMMA WaitersSurviveStop ==
    ASSUME IInv, NEW p \in Procs, NEW how \in {"hung", "gone", "killed"},
           proc' = [proc EXCEPT ![p] = how], UNCHANGED <<app, upper>>,
           \/ how = "hung" /\ UNCHANGED <<reg, local>>
           \/ how # "hung" /\ Ends(p, how),
           \A t \in Threads : pc'[t] = "wait" =>
                /\ pc[t] = "wait" /\ want'[t] = want[t] /\ before'[t] = before[t]
                /\ t \in signalled => t \in signalled'
    PROVE  WaitersAreTold'
<1>stop. /\ proc'[p] = how
         /\ \A q \in Procs : q # p => proc'[q] = proc[q] /\ reg'[q] = reg[q]
  <2>1. UNCHANGED app
    OBVIOUS
  <2> QED
    BY <2>1, ProcessesStop, ZenonT(40)
<1> SUFFICES ASSUME NEW t \in Threads, pc'[t] = "wait", t \notin signalled',
                    NEW e \in upper, e.oid = want'[t], e \notin before'[t],
                    e.oid \notin Public, IsAlive(e)', proc'[e.proc] # "hung"
             PROVE  reg'[e.proc][e.oid] = "listed"
  BY DEF WaitersAreTold, Entries
<1>1. e.proc \in Procs
  BY DEF IInv, TypeOK, TableTypeOK, Entry
<1>2. e.proc # p
  BY <1>1, <1>stop DEF IsAlive, IsRunning
<1>3. proc'[e.proc] = proc[e.proc] /\ reg'[e.proc] = reg[e.proc]
  BY <1>1, <1>2, <1>stop
<1>4. IsAlive(e) /\ proc[e.proc] # "hung"
  BY <1>1, <1>3 DEF IsAlive, IsRunning
<1> QED
  BY <1>3, <1>4 DEF IInv, WaitersAreTold, Entries

LEMMA StopPreserves ==
    ASSUME IInv, NEW p \in Procs, Hangs(p) \/ Exits(p)
    PROVE  IInv'
<1>1. PICK how \in {"hung", "gone", "killed"} :
          /\ proc' = [proc EXCEPT ![p] = how]
          /\ how = "hung" => proc[p] = "running"
          /\ \/ how = "hung" /\ UNCHANGED <<reg, local>>
             \/ how # "hung" /\ Ends(p, how)
          /\ UNCHANGED <<app, upper, inProgress, threadVars, signalled, before, thrown, gets>>
  BY DEF Hangs, Exits, Ends
<1>2. ProcessTypeOK' /\ LocalMeansIn'
  BY <1>1, ProcessesStop
<1>3. TypeOK'
  BY <1>1, <1>2 DEF IInv, TypeOK, TableTypeOK, ThreadTypeOK, ActiveTypeOK, threadVars
<1>4. TablesAgree' /\ EntriesAreStarted'
  BY <1>1, TablesSurviveStop
<1>5. WaitersAreTold'
  BY <1>1, WaitersSurviveStop DEF threadVars
<1>6. InProgressIsTrue' /\ OwnExecutable'
  BY <1>1, ProcessesStop, LaunchesUntouched
<1> QED
  BY <1>2, <1>3, <1>4, <1>5, <1>6 DEF IInv

\* What a thread does, other than starting or killing a process: it may take
\* entries out of the user's table, it may start to wait with the entries there
\* are, it leaves its launch by removing it or by an exception.
LEMMA ThreadPreserves ==
    ASSUME IInv, NEW t \in Threads, TypeOK',
           UNCHANGED procVars, upper' \subseteq upper,
           \A u \in Threads \ {t} :
                /\ pc'[u] = pc[u] /\ want'[u] = want[u] /\ mine'[u] = mine[u]
                /\ before'[u] = before[u] /\ (u \in signalled' <=> u \in signalled),
           pc'[t] = "wait" => Entries(want[t]) \subseteq before'[t] /\ want'[t] = want[t],
           mine'[t] # None => /\ mine'[t] = mine[t] /\ want'[t] = want[t]
                              /\ pc'[t] \notin {"idle", "look", "lookRevoke", "enter"},
           thrown => thrown',
           \/ /\ UNCHANGED inProgress
              /\ \/ thrown' \/ mine[t] = None \/ pc[t] = "kill"
                 \/ mine'[t] = mine[t] /\ pc'[t] # "kill"
           \/ /\ mine[t] # None
              /\ inProgress' = [inProgress EXCEPT ![AppOf(want[t])] = None]
    PROVE  IInv'
<1>1. TablesAgree' /\ EntriesAreStarted' /\ LocalMeansIn'
  BY DEF procVars, IInv, TablesAgree, EntriesAreStarted, LocalMeansIn, IsAlive, IsRunning
<1>2. WaitersAreTold'
  <2> SUFFICES ASSUME NEW u \in Threads, pc'[u] = "wait", u \notin signalled',
                      NEW e \in upper', e.oid = want'[u], e \notin before'[u]
               PROVE  \/ e.oid \in Public \/ ~IsAlive(e) \/ proc[e.proc] = "hung"
                      \/ reg[e.proc][e.oid] = "listed"
    BY DEF WaitersAreTold, Entries, IsAlive, IsRunning, procVars
  <2>1. u # t
    BY DEF Entries
  <2> QED
    BY <2>1 DEF IInv, WaitersAreTold, Entries
<1>3. /\ inProgress \in [Apps -> Procs \cup {None}] /\ inProgress' \in [Apps -> Procs \cup {None}]
      /\ \A a \in Apps : inProgress'[a] # None => inProgress'[a] = inProgress[a]
  BY DEF IInv, TypeOK, TableTypeOK
<1>4. OwnExecutable'
  <2>1. \A a \in Apps : inProgress'[a] # None =>
            proc[inProgress'[a]] # "none" /\ app[inProgress'[a]] = a
    BY <1>3 DEF IInv, OwnExecutable
  <2>2. ASSUME NEW u \in Threads, mine'[u] # None
        PROVE  /\ mine'[u] = mine[u] /\ want'[u] = want[u]
               /\ pc'[u] \notin {"idle", "look", "lookRevoke", "enter"}
    BY <2>2 DEF IInv, OwnExecutable
  <2>3. \A u \in Threads : mine'[u] # None =>
            /\ proc[mine'[u]] # "none" /\ app[mine'[u]] = AppOf(want'[u])
            /\ pc'[u] \notin {"idle", "look", "lookRevoke", "enter"}
    BY <2>2 DEF IInv, OwnExecutable
  <2> QED
    BY <2>1, <2>3 DEF OwnExecutable, procVars
<1>5. InProgressIsTrue'
  <2> SUFFICES ASSUME ~thrown', NEW a \in Apps, inProgress'[a] # None
               PROVE  \E u \in Threads : mine'[u] = inProgress'[a] /\ pc'[u] # "kill"
    BY DEF InProgressIsTrue
  <2>1. PICK u \in Threads : mine[u] = inProgress[a] /\ pc[u] # "kill"
    BY <1>3 DEF IInv, InProgressIsTrue
  <2>2. CASE u # t
    BY <2>1, <2>2, <1>3
  <2>3. CASE u = t /\ inProgress' # [inProgress EXCEPT ![AppOf(want[t])] = None]
    <3>1. mine[t] # None /\ pc[t] # "kill"
      BY <2>1, <2>3, <1>3
    <3>2. mine'[t] = mine[t] /\ pc'[t] # "kill"
      BY <2>3, <3>1
    <3> QED
      BY <2>1, <2>3, <3>2, <1>3
  <2>4. CASE u = t /\ inProgress' = [inProgress EXCEPT ![AppOf(want[t])] = None]
    <3>1. a # AppOf(want[t])
      BY <2>4, <1>3
    <3>2. app[mine[t]] = AppOf(want[t]) /\ app[inProgress[a]] = a
      BY <2>1, <2>4, <1>3 DEF IInv, OwnExecutable
    <3> QED
      BY <2>1, <2>4, <3>1, <3>2
  <2> QED
    BY <2>2, <2>3, <2>4
<1> QED
  BY <1>1, <1>2, <1>4, <1>5 DEF IInv

\* A step that moves t, and gives it at most an object it has found.
LEMMA MoveTypes ==
    ASSUME TypeOK, NEW t \in Threads, NEW to \in Places \ {"idle"},
           pc' = [pc EXCEPT ![t] = to], pc[t] # "idle",
           got' \in [Threads -> Procs \cup {None}], UNCHANGED <<want, mine>>,
           to \in {"notifier", "wait", "fetch", "fetchRevoke", "check", "leaveRunning", "kill"}
                => mine[t] # None
    PROVE  /\ ThreadTypeOK' /\ ActiveTypeOK'
           /\ pc'[t] = to /\ \A u \in Threads \ {t} : pc'[u] = pc[u]
<1>1. pc \in [Threads -> Places]
  BY DEF TypeOK, ThreadTypeOK
<1>2. pc' \in [Threads -> Places] /\ pc'[t] = to /\ \A u \in Threads \ {t} : pc'[u] = pc[u]
  BY <1>1
<1>3. ThreadTypeOK'
  BY <1>2 DEF TypeOK, ThreadTypeOK
<1>4. ActiveTypeOK'
  BY <1>2 DEF TypeOK, ActiveTypeOK
<1> QED
  BY <1>2, <1>3, <1>4

\* The steps of a search and of a wait.
LEMMA MovePreservesThread ==
    ASSUME IInv, NEW t \in Threads, NEW from \in Places \ {"idle"}, NEW to \in Places \ {"idle"},
           Step(t, from, to),
           UNCHANGED <<procVars, inProgress, want, mine, signalled, thrown, gets>>,
           upper' \subseteq upper,
           got' \in [Threads -> Procs \cup {None}], before' \in [Threads -> SUBSET Entry],
           \A u \in Threads \ {t} : before'[u] = before[u],
           to = "wait" => before'[t] = Entries(want[t]),
           to # "kill",
           to \in {"look", "lookRevoke", "enter"} => from \in {"look", "lookRevoke", "enter"},
           to \in {"notifier", "wait", "fetch", "fetchRevoke", "check", "leaveRunning"}
                => mine[t] # None
    PROVE  IInv'
<1>1. ThreadTypeOK' /\ ActiveTypeOK' /\ pc'[t] = to /\ \A u \in Threads \ {t} : pc'[u] = pc[u]
  BY MoveTypes DEF IInv, Step
<1>2. TypeOK'
  <2>1. ProcessTypeOK'
    BY DEF IInv, TypeOK, ProcessTypeOK, procVars
  <2>2. TableTypeOK'
    BY DEF IInv, TypeOK, TableTypeOK
  <2> QED
    BY <1>1, <2>1, <2>2 DEF IInv, TypeOK
<1>3. mine[t] # None => pc[t] \notin {"idle", "look", "lookRevoke", "enter"}
  BY DEF IInv, OwnExecutable
<1>4. mine'[t] # None => pc'[t] \notin {"idle", "look", "lookRevoke", "enter"}
  BY <1>1, <1>3 DEF Step
<1> QED
  BY <1>1, <1>2, <1>4, ThreadPreserves

LEMMA SearchPreserves ==
    ASSUME IInv, NEW t \in Threads, Look(t) \/ Fetch(t)
    PROVE  IInv'
<1>1. PICK from \in {"look", "lookRevoke", "fetch", "fetchRevoke"},
           to \in {"lookRevoke", "enter", "leave", "fetchRevoke", "check"} :
          /\ Step(t, from, to)
          /\ to \in {"lookRevoke", "enter"} => from = "look"
          /\ to \in {"fetchRevoke", "check"} => from \in {"fetch", "fetchRevoke"}
          /\ UNCHANGED <<procVars, inProgress, want, mine, signalled, before, thrown, gets>>
          /\ upper' \subseteq upper
          /\ \/ UNCHANGED got
             \/ \E e \in upper : got' = [got EXCEPT ![t] = e.proc]
  <2>1. CASE Look(t)
    <3>1. CASE Finds(t, "look", "lookRevoke", "leave")
      BY <3>1 DEF Finds, Live, Entries
    <3>2. CASE FindsNone(t, "look", "enter")
      BY <3>2 DEF FindsNone
    <3>3. CASE RevokesUsed(t, "lookRevoke", "leave")
      BY <3>3 DEF RevokesUsed
    <3> QED
      BY <2>1, <3>1, <3>2, <3>3 DEF Look
  <2>2. CASE Fetch(t)
    <3>1. CASE Finds(t, "fetch", "fetchRevoke", "check")
      BY <3>1 DEF Finds, Live, Entries
    <3>2. CASE FindsNone(t, "fetch", "check")
      BY <3>2 DEF FindsNone
    <3>3. CASE RevokesUsed(t, "fetchRevoke", "check")
      BY <3>3 DEF RevokesUsed
    <3> QED
      BY <2>2, <3>1, <3>2, <3>3 DEF Fetch
  <2> QED
    BY <2>1, <2>2
<1>2. got' \in [Threads -> Procs \cup {None}] /\ before' \in [Threads -> SUBSET Entry]
  BY <1>1 DEF IInv, TypeOK, ThreadTypeOK, TableTypeOK, Entry
<1>3. from \in {"fetch", "fetchRevoke"} => mine[t] # None
  BY <1>1 DEF Step, IInv, TypeOK, ActiveTypeOK
<1>4. from \in Places \ {"idle"} /\ to \in Places \ {"idle"}
  BY <1>1 DEF Places
<1> QED
  BY <1>1, <1>2, <1>3, <1>4, MovePreservesThread

LEMMA WaitPreserves ==
    ASSUME IInv, NEW t \in Threads,
           RegisterNotify(t) \/ Woken(t) \/ TimesOut(t) \/ CheckRunning(t)
    PROVE  IInv'
<1>1. /\ got \in [Threads -> Procs \cup {None}] /\ before \in [Threads -> SUBSET Entry]
      /\ Entries(want[t]) \subseteq Entry
      /\ {"notifier", "wait", "fetch", "check", "leave", "leaveRunning"} \subseteq Places \ {"idle"}
  BY DEF IInv, TypeOK, ThreadTypeOK, TableTypeOK, Entries, Places
<1>2. pc[t] \in {"notifier", "wait", "check"} => mine[t] # None
  BY DEF IInv, TypeOK, ActiveTypeOK
<1>3. CASE RegisterNotify(t)
  <2>1. before' = [before EXCEPT ![t] = Entries(want[t])] /\ pc[t] = "notifier"
    BY <1>3 DEF RegisterNotify, Step
  <2>2. /\ before' \in [Threads -> SUBSET Entry] /\ before'[t] = Entries(want[t])
        /\ \A u \in Threads \ {t} : before'[u] = before[u]
    BY <1>1, <2>1
  <2> QED
    BY <1>1, <1>2, <1>3, <2>1, <2>2, MovePreservesThread DEF RegisterNotify
<1>4. CASE Woken(t)
  BY <1>1, <1>2, <1>4, MovePreservesThread DEF Woken, Step
<1>5. CASE TimesOut(t)
  BY <1>1, <1>2, <1>5, MovePreservesThread DEF TimesOut, Step
<1>6. CASE CheckRunning(t)
  BY <1>1, <1>2, <1>6, MovePreservesThread DEF CheckRunning, Step
<1> QED
  BY <1>3, <1>4, <1>5, <1>6

\* A thread that returns holds nothing, and leaves the others as they are.
LEMMA ReturnEffect ==
    ASSUME IInv, NEW t \in Threads, Return(t)
    PROVE  /\ ThreadTypeOK' /\ ActiveTypeOK'
           /\ signalled' \subseteq Threads /\ before' \in [Threads -> SUBSET Entry]
           /\ pc'[t] = "idle" /\ mine'[t] = None
           /\ \A u \in Threads \ {t} :
                /\ pc'[u] = pc[u] /\ want'[u] = want[u] /\ mine'[u] = mine[u]
                /\ before'[u] = before[u] /\ (u \in signalled' <=> u \in signalled)
<1>1. /\ pc \in [Threads -> Places] /\ want \in [Threads -> Oids \cup {None}]
      /\ mine \in [Threads -> Procs \cup {None}] /\ got \in [Threads -> Procs \cup {None}]
      /\ signalled \subseteq Threads /\ before \in [Threads -> SUBSET Entry] /\ "idle" \in Places
  BY DEF IInv, TypeOK, ThreadTypeOK, TableTypeOK, Places
<1>2. ThreadTypeOK'
  BY <1>1 DEF Return, ThreadTypeOK
<1>3. ActiveTypeOK'
  BY <1>1 DEF Return, IInv, TypeOK, ActiveTypeOK
<1> QED
  BY <1>1, <1>2, <1>3 DEF Return

LEMMA LeavePreserves ==
    ASSUME IInv, NEW t \in Threads, ReturnsFound(t) \/ Throws(t) \/ Leave(t)
    PROVE  IInv'
<1>1. /\ UNCHANGED <<procVars, upper, gets>>
      /\ thrown' \in BOOLEAN /\ (thrown => thrown')
  BY DEF ReturnsFound, Throws, Leave, IInv, TypeOK
<1>2. ProcessTypeOK'
  BY <1>1 DEF IInv, TypeOK, ProcessTypeOK, procVars
<1>3. CASE Leave(t) /\ got[t] = None /\ pc[t] = "leaveRunning"
  <2>1. /\ pc' = [pc EXCEPT ![t] = "kill"] /\ UNCHANGED <<want, mine, got, signalled, before, thrown>>
        /\ inProgress' = [inProgress EXCEPT ![AppOf(want[t])] = None] /\ mine[t] # None
        /\ "kill" \in Places \ {"idle"}
    BY <1>3 DEF Leave, Places
  <2>2. ThreadTypeOK' /\ ActiveTypeOK' /\ pc'[t] = "kill" /\ \A u \in Threads \ {t} : pc'[u] = pc[u]
    BY <1>3, <2>1, MoveTypes DEF IInv, TypeOK, ThreadTypeOK
  <2>3. TableTypeOK'
    BY <1>1, <2>1 DEF IInv, TypeOK, TableTypeOK
  <2>4. TypeOK'
    BY <1>1, <1>2, <2>2, <2>3 DEF IInv, TypeOK
  <2> QED
    BY <1>1, <2>1, <2>2, <2>4, ThreadPreserves
<1>4. CASE Return(t) /\ (ReturnsFound(t) \/ Throws(t) \/ Leave(t))
  <2>1. \/ /\ UNCHANGED inProgress
           /\ thrown' \/ mine[t] = None
        \/ /\ mine[t] # None
           /\ inProgress' = [inProgress EXCEPT ![AppOf(want[t])] = None]
    BY <1>4 DEF ReturnsFound, Throws, Leave, IInv, OwnExecutable
  <2>2. TableTypeOK'
    BY <1>1, <1>4, <2>1, ReturnEffect DEF IInv, TypeOK, TableTypeOK
  <2>3. TypeOK'
    BY <1>1, <1>2, <1>4, <2>2, ReturnEffect DEF IInv, TypeOK
  <2> QED
    BY <1>1, <1>4, <2>1, <2>3, ReturnEffect, ThreadPreserves
<1> QED
  BY <1>3, <1>4 DEF ReturnsFound, Throws, Leave

LEMMA GetInstancePreserves ==
    ASSUME IInv, NEW t \in Threads, NEW o \in Oids, GetInstance(t, o)
    PROVE  IInv'
<1>1. /\ pc[t] = "idle" /\ mine[t] = None
      /\ pc' = [pc EXCEPT ![t] = "look"] /\ want' = [want EXCEPT ![t] = o]
      /\ UNCHANGED <<procVars, upper, inProgress, mine, got, signalled, before, thrown>>
  BY DEF GetInstance, IInv, OwnExecutable
<1>2. /\ pc \in [Threads -> Places] /\ want \in [Threads -> Oids \cup {None}]
      /\ "look" \in Places /\ o # None
  BY LaunchAssumption DEF IInv, TypeOK, ThreadTypeOK, Places
<1>3. ThreadTypeOK'
  BY <1>1, <1>2 DEF IInv, TypeOK, ThreadTypeOK
<1>4. ActiveTypeOK'
  BY <1>1, <1>2 DEF IInv, TypeOK, ActiveTypeOK
<1>5. ProcessTypeOK' /\ TableTypeOK'
  BY <1>1 DEF IInv, TypeOK, ProcessTypeOK, TableTypeOK, procVars
<1>6. gets' \in 0..MaxGets
  <2>1. gets < MaxGets /\ gets' = gets + 1 /\ MaxGets \in Nat /\ gets \in 0..MaxGets
    BY LaunchAssumption DEF GetInstance, IInv, TypeOK
  <2> QED
    BY <2>1
<1>7. TypeOK'
  BY <1>1, <1>3, <1>4, <1>5, <1>6 DEF IInv, TypeOK
<1> QED
  BY <1>1, <1>2, <1>7, ThreadPreserves

\* A thread that enters a launch shares the process there is or starts one, of
\* which nothing is known to anybody yet.
LEMMA EnterPreserves ==
    ASSUME IInv, NEW t \in Threads, Enter(t)
    PROVE  IInv'
<1> DEFINE a == AppOf(want[t])
<1>1. /\ pc[t] = "enter" /\ pc' = [pc EXCEPT ![t] = "notifier"] /\ a \in Apps
      /\ UNCHANGED <<reg, local, upper, want, got, signalled, before, thrown, gets>>
      /\ mine[t] = None
  <2>1. want[t] \in Oids
    BY DEF Enter, Step, IInv, TypeOK, ActiveTypeOK, ThreadTypeOK
  <2> QED
    BY <2>1, AppOfIsApp DEF Enter, Step, IInv, OwnExecutable
<1>2. PICK p \in Procs :
          /\ mine' = [mine EXCEPT ![t] = p]
          /\ \/ /\ inProgress[a] = p /\ UNCHANGED <<proc, app, inProgress>>
             \/ /\ proc[p] = "none"
                /\ proc' = [proc EXCEPT ![p] = "running"]
                /\ app' = [app EXCEPT ![p] = a]
                /\ inProgress' = [inProgress EXCEPT ![a] = p]
  BY DEF Enter, IsRunning
<1>3. /\ proc \in [Procs -> {"none", "running", "hung", "gone", "killed"}]
      /\ app \in [Procs -> Apps \cup {None}]
      /\ inProgress \in [Apps -> Procs \cup {None}]
      /\ pc \in [Threads -> Places] /\ mine \in [Threads -> Procs \cup {None}]
      /\ "notifier" \in Places /\ None \notin Procs
  BY LaunchAssumption DEF IInv, TypeOK, ProcessTypeOK, TableTypeOK, ThreadTypeOK, Places
<1>4. /\ pc'[t] = "notifier" /\ mine'[t] = p
      /\ \A u \in Threads \ {t} : pc'[u] = pc[u] /\ mine'[u] = mine[u]
  BY <1>1, <1>2, <1>3
<1>5. /\ proc'[p] # "none" /\ app'[p] = a /\ inProgress'[a] = p
      /\ \A b \in Apps \ {a} : inProgress'[b] = inProgress[b]
      /\ \A q \in Procs : proc[q] # "none" => proc'[q] = proc[q] /\ app'[q] = app[q]
  BY <1>1, <1>2, <1>3 DEF IInv, OwnExecutable
<1>6. TypeOK'
  <2>1. ProcessTypeOK'
    BY <1>1, <1>2, <1>3 DEF IInv, TypeOK, ProcessTypeOK
  <2>2. TableTypeOK'
    BY <1>1, <1>2, <1>3 DEF IInv, TypeOK, TableTypeOK
  <2>3. ThreadTypeOK'
    BY <1>1, <1>2, <1>3 DEF IInv, TypeOK, ThreadTypeOK
  <2>4. ActiveTypeOK'
    BY <1>1, <1>3, <1>4 DEF IInv, TypeOK, ActiveTypeOK
  <2> QED
    BY <1>1, <2>1, <2>2, <2>3, <2>4 DEF IInv, TypeOK
<1>7. \A e \in upper : e.proc \in Procs /\ proc'[e.proc] = proc[e.proc]
  BY <1>5 DEF IInv, TypeOK, TableTypeOK, Entry, EntriesAreStarted
<1>8. TablesAgree' /\ EntriesAreStarted' /\ LocalMeansIn'
  BY <1>1, <1>7 DEF IInv, TablesAgree, EntriesAreStarted, LocalMeansIn, IsAlive, IsRunning
<1>9. WaitersAreTold'
  <2> SUFFICES ASSUME NEW u \in Threads, pc'[u] = "wait", u \notin signalled,
                      NEW e \in upper, e.oid = want[u], e \notin before[u],
                      e.oid \notin Public, IsAlive(e)', proc'[e.proc] # "hung"
               PROVE  reg[e.proc][e.oid] = "listed"
    BY <1>1 DEF WaitersAreTold, Entries
  <2>1. pc[u] = "wait"
    BY <1>4
  <2>2. IsAlive(e) /\ proc[e.proc] # "hung"
    BY <1>7 DEF IsAlive, IsRunning
  <2> QED
    BY <2>1, <2>2 DEF IInv, WaitersAreTold, Entries
<1>10. InProgressIsTrue'
  <2> SUFFICES ASSUME ~thrown, NEW b \in Apps, inProgress'[b] # None
               PROVE  \E u \in Threads : mine'[u] = inProgress'[b] /\ pc'[u] # "kill"
    BY <1>1 DEF InProgressIsTrue
  <2>1. CASE b = a
    BY <2>1, <1>4, <1>5
  <2>2. CASE b # a
    <3>1. PICK u \in Threads : mine[u] = inProgress[b] /\ pc[u] # "kill"
      BY <2>2, <1>5 DEF IInv, InProgressIsTrue
    <3>2. u # t
      BY <2>2, <3>1, <1>1, <1>5
    <3> QED
      BY <2>2, <3>1, <3>2, <1>4, <1>5
  <2> QED
    BY <2>1, <2>2
<1>11. OwnExecutable'
  <2>1. ASSUME NEW b \in Apps, inProgress'[b] # None
        PROVE  proc'[inProgress'[b]] # "none" /\ app'[inProgress'[b]] = b
    <3>1. CASE b = a
      BY <3>1, <1>5
    <3>2. CASE b # a
      BY <2>1, <3>2, <1>3, <1>5 DEF IInv, OwnExecutable
    <3> QED
      BY <3>1, <3>2
  <2>2. ASSUME NEW u \in Threads, mine'[u] # None
        PROVE  /\ proc'[mine'[u]] # "none" /\ app'[mine'[u]] = AppOf(want[u])
               /\ pc'[u] \notin {"idle", "look", "lookRevoke", "enter"}
    <3>1. CASE u = t
      BY <3>1, <1>4, <1>5
    <3>2. CASE u # t
      BY <2>2, <3>2, <1>3, <1>4, <1>5 DEF IInv, OwnExecutable
    <3> QED
      BY <3>1, <3>2
  <2> QED
    BY <1>1, <2>1, <2>2 DEF OwnExecutable
<1> QED
  BY <1>6, <1>8, <1>9, <1>10, <1>11 DEF IInv

LEMMA KillPreserves ==
    ASSUME IInv, NEW t \in Threads, Kill(t)
    PROVE  IInv'
<1>1. /\ pc[t] = "kill" /\ Return(t) /\ UNCHANGED <<app, upper, inProgress, thrown, gets>>
  BY DEF Kill
<1>2. CASE ~IsRunning(mine[t])
  <2>1. UNCHANGED procVars
    BY <1>1, <1>2 DEF Kill, procVars
  <2>2. ProcessTypeOK' /\ TableTypeOK'
    BY <1>1, <2>1, ReturnEffect DEF IInv, TypeOK, ProcessTypeOK, TableTypeOK, procVars
  <2>3. TypeOK'
    BY <1>1, <2>2, ReturnEffect DEF IInv, TypeOK
  <2> QED
    BY <1>1, <2>1, <2>3, ReturnEffect, ThreadPreserves
<1>3. CASE IsRunning(mine[t])
  <2> DEFINE p == mine[t]
  <2>1. p \in Procs /\ Ends(p, "killed") /\ proc' = [proc EXCEPT ![p] = "killed"]
    BY <1>3 DEF Kill, Ends, IsRunning
  <2>2. /\ ProcessTypeOK' /\ LocalMeansIn'
        /\ \A q \in Procs : proc[q] # "none" => proc'[q] # "none"
    BY <1>1, <2>1, ProcessesStop
  <2>3. TableTypeOK'
    BY <1>1, ReturnEffect DEF IInv, TypeOK, TableTypeOK
  <2>4. TypeOK'
    BY <1>1, <2>2, <2>3, ReturnEffect DEF IInv, TypeOK
  <2>5. TablesAgree' /\ EntriesAreStarted'
    BY <1>1, <2>1, TablesSurviveStop
  <2>6. \A u \in Threads : pc'[u] = "wait" =>
            /\ pc[u] = "wait" /\ want'[u] = want[u] /\ before'[u] = before[u]
            /\ u \in signalled => u \in signalled'
    BY <1>1, ReturnEffect
  <2>7. WaitersAreTold'
    BY <1>1, <2>1, <2>6, WaitersSurviveStop
  <2>8. InProgressIsTrue'
    BY <1>1, ReturnEffect DEF IInv, InProgressIsTrue
  <2>9. OwnExecutable'
    <3>1. /\ \A b \in Apps : inProgress[b] # None => inProgress[b] \in Procs
          /\ \A u \in Threads : mine[u] # None => mine[u] \in Procs
      BY DEF IInv, TypeOK, TableTypeOK, ThreadTypeOK
    <3>2. \A u \in Threads : mine'[u] # None =>
              /\ u # t /\ mine'[u] = mine[u] /\ want'[u] = want[u] /\ pc'[u] = pc[u]
      BY <1>1, ReturnEffect
    <3> QED
      BY <1>1, <2>2, <3>1, <3>2 DEF IInv, OwnExecutable
  <2> QED
    BY <2>2, <2>4, <2>5, <2>7, <2>8, <2>9 DEF IInv
<1> QED
  BY <1>2, <1>3

-----------------------------------------------------------------------------

LEMMA NextPreserves == IInv /\ [Next]_vars => IInv'
<1> SUFFICES ASSUME IInv, [Next]_vars PROVE IInv'
  OBVIOUS
<1>1. CASE UNCHANGED vars
  BY <1>1 DEF vars, procVars, threadVars, IInv, TypeOK, ProcessTypeOK, TableTypeOK, ThreadTypeOK,
              ActiveTypeOK, TablesAgree, WaitersAreTold, InProgressIsTrue, EntriesAreStarted,
              LocalMeansIn, OwnExecutable, Entries, IsAlive, IsRunning
<1>2. CASE \E t \in Threads, o \in Oids : GetInstance(t, o)
  BY <1>2, GetInstancePreserves
<1>3. CASE \E t \in Threads : ThreadStep(t)
  BY <1>3, SearchPreserves, WaitPreserves, LeavePreserves, EnterPreserves, KillPreserves
     DEF ThreadStep
<1>4. CASE \E p \in Procs, o \in Oids : RegisterStep(p, o) \/ LocalRevoke(p, o)
  BY <1>4, RegistrationPreserves
<1>5. CASE \E p \in Procs : Hangs(p) \/ Exits(p)
  BY <1>5, StopPreserves
<1> QED
  BY <1>1, <1>2, <1>3, <1>4, <1>5 DEF Next, Handling

\* The strengthened invariant holds whatever the applications, their object maps
\* and the interleaving of activations, registrations and ends of processes.
THEOREM LaunchInvariance == Spec => []IInv
  BY Initially, NextPreserves, PTL DEF Spec

\* The types, and that a launch has a process.
THEOREM LaunchTypes == Spec => []TypeOK
<1>1. IInv => TypeOK
  BY DEF IInv
<1> QED
  BY <1>1, LaunchInvariance, PTL

\* No failed registration, revocation or end of a process leaves the user's table
\* with an entry of a live process that the process does not know of.
THEOREM TablesAlwaysAgree == Spec => []TablesAgree
<1>1. IInv => TablesAgree
  BY DEF IInv
<1> QED
  BY <1>1, LaunchInvariance, PTL

\* A launch that has its notifier in place before the registration is told of it.
THEOREM WaitersAreAlwaysTold == Spec => []WaitersAreTold
<1>1. IInv => WaitersAreTold
  BY DEF IInv
<1> QED
  BY <1>1, LaunchInvariance, PTL

\* m_mapInProgress keeps no launch that nobody is at, but for an exception.
THEOREM InProgressAlwaysTrue == Spec => []InProgressIsTrue
<1>1. IInv => InProgressIsTrue
  BY DEF IInv
<1> QED
  BY <1>1, LaunchInvariance, PTL

-----------------------------------------------------------------------------
\* The loads of libraries

\* What a load looks up and remembers; a library's objects are the threads that hold one.
LoadTypes ==
    /\ objects \in [Names -> Loads!Versions]
    /\ library \in [Oids -> Libraries \cup {None, "invalid"}]
    /\ kind \in [Libraries -> Loads!LibraryKinds]
    /\ at \in [Threads -> {"idle", "name", "oid", "instance", "load", "launch", "surrogate", "library",
                           "unload", "erase", "entry", "left", "lacked"}]
    /\ asks \in [Threads -> [for : Oids \cup Names \cup {None}, flags : Loads!Flags, dont : BOOLEAN]]
    /\ did \in [Threads -> SUBSET {"load", "launch"}] /\ surrogates \in [Threads -> Nat]
    /\ m_dll_map \subseteq Libraries /\ left \subseteq m_dll_map /\ raced \subseteq Libraries
    /\ m_lock \in Threads \cup {None}
    /\ dll \in [Threads -> Libraries \cup {None}]
    /\ inside \in [Threads -> Libraries \cup {None}]
    /\ loads \in 0..MaxGets

Counted ==
    /\ holds \in [Threads -> Libraries \cup {None}]
    /\ lockCount \in [Libraries -> Nat]
    /\ \A l \in Libraries : lockCount[l] = Loads!Cardinality({t \in Threads : holds[t] = l})

\* A thread looks in the registry for what it has to, and has the library in hand that
\* it was sent for; the lock of the map is held by the one that unloads.
Searching(t) ==
    /\ at[t] \in {"name", "oid"} => asks[t].for \in Names
    /\ at[t] \in {"instance", "load", "launch", "surrogate", "library", "unload", "erase", "entry", "lacked"} =>
           asks[t].for \in Oids
    /\ at[t] \in {"surrogate", "library", "unload", "erase", "entry", "lacked"} =>
           library[asks[t].for] \in Libraries
    /\ at[t] \in {"unload", "erase"} <=> m_lock = t
    /\ at[t] \in {"erase", "entry", "lacked"} => dll[t] # None
    /\ at[t] \in {"entry", "lacked"} => dll[t] = library[asks[t].for]
    /\ at[t] = "lacked" => kind[dll[t]] = "lacking"
    /\ at[t] = "erase" => dll[t] \notin left
    /\ inside[t] # None => at[t] = "left"
    /\ at[t] \notin {"idle", "left"} => holds[t] = None

\* What is in use is in the map, but for what raced, and what is about to leave the map
\* is not in use.
InTheMap ==
    \A l \in Libraries \ raced :
        lockCount[l] > 0 \/ (\E t \in Threads : inside[t] = l \/ dll[t] = l) => l \in m_dll_map

UnusedGoes ==
    \A t \in Threads : at[t] = "erase" /\ dll[t] \notin raced =>
        /\ lockCount[dll[t]] = 0
        /\ \A u \in Threads \ {t} : dll[u] # dll[t] /\ inside[u] # dll[t]

\* An activation gets no further than it may.
Keeps(t) ==
    /\ asks[t].dont => /\ did[t] = {} /\ surrogates[t] = 0
                       /\ at[t] \in {"idle", "name", "oid", "instance", "left"}
    /\ asks[t].flags = "Process" => /\ "load" \notin did[t]
                                    /\ at[t] \notin {"library", "unload", "erase", "entry", "lacked"}
    /\ asks[t].flags = "Library" =>
           /\ "launch" \notin did[t] /\ at[t] # "launch"
           /\ surrogates[t] > 0 \/ at[t] = "surrogate" => kind[library[asks[t].for]] = "lacking"
    /\ at[t] \in {"name", "oid", "instance"} => did[t] = {} /\ surrogates[t] = 0

LoadInv ==
    /\ LoadTypes /\ Counted
    /\ \A t \in Threads : Searching(t) /\ Keeps(t)
    /\ InTheMap /\ UnusedGoes

-----------------------------------------------------------------------------
\* A step of a thread that looks for the object touches no library.
LEMMA Looking ==
    ASSUME LoadInv, NEW t \in Threads,
           NEW s \in {"idle", "name", "oid", "instance", "load", "launch", "surrogate", "library"},
           at' = [at EXCEPT ![t] = s], at[t] \notin {"unload", "erase", "left"},
           \A u \in Threads \ {t} : asks'[u] = asks[u] /\ did'[u] = did[u] /\ surrogates'[u] = surrogates[u],
           asks' \in [Threads -> [for : Oids \cup Names \cup {None}, flags : Loads!Flags, dont : BOOLEAN]],
           did' \in [Threads -> SUBSET {"load", "launch"}], surrogates' \in [Threads -> Nat],
           loads' \in 0..MaxGets,
           s \in {"name", "oid"} => asks'[t].for \in Names,
           s \in {"instance", "load", "launch", "surrogate", "library"} => asks'[t].for \in Oids,
           s \in {"surrogate", "library"} => library[asks'[t].for] \in Libraries,
           s = "idle" \/ holds[t] = None,
           Keeps(t)',
           UNCHANGED <<objects, library, kind, m_dll_map, m_lock, left, dll, inside, holds, lockCount, raced>>
    PROVE  LoadInv'
<1>1. LoadTypes' /\ Counted'
  <2>1. LoadTypes'
    BY DEF LoadInv, LoadTypes
  <2>2. Counted'
    BY DEF LoadInv, Counted
  <2> QED
    BY <2>1, <2>2
<1>2. \A u \in Threads : at'[u] = IF u = t THEN s ELSE at[u]
  BY DEF LoadInv, LoadTypes
<1>3. ASSUME NEW u \in Threads PROVE Searching(u)' /\ Keeps(u)'
  <2>1. CASE u = t
    BY <1>2, <2>1 DEF LoadInv, Searching
  <2>2. CASE u # t
    BY <1>2, <2>2 DEF LoadInv, Searching, Keeps
  <2> QED
    BY <2>1, <2>2
<1>4. InTheMap' /\ UnusedGoes'
  BY <1>2 DEF LoadInv, InTheMap, UnusedGoes
<1> QED
  BY <1>1, <1>3, <1>4 DEF LoadInv

\* The steps of a search: for a name, its oid, an object that is there, what to load.
LEMMA Searches ==
    ASSUME LoadInv, NEW t \in Threads,
           \/ Loads!GetObject(t) \/ Loads!GetNamed(t) \/ Loads!NameToOid(t) \/ Loads!GetLocalInstance(t)
           \/ Loads!LoadObject(t) \/ Loads!Launch(t) \/ Loads!LoadSurrogateObject(t)
    PROVE  LoadInv'
<1> USE ActivationAssumption, LaunchAssumption
<1>0. /\ Searching(t) /\ Keeps(t) /\ LoadTypes
      /\ UNCHANGED <<objects, library, kind, m_dll_map, m_lock, left, dll, inside, holds, lockCount, raced>>
  BY DEF LoadInv, Loads!GetObject, Loads!GetNamed, Loads!NameToOid, Loads!GetLocalInstance, Loads!LoadObject,
         Loads!Launch, Loads!LoadSurrogateObject, Loads!registry, Loads!libraries
<1>1. CASE Loads!GetObject(t)
  <2>1. PICK x \in Oids \cup Names, f \in Loads!Flags, dont \in BOOLEAN :
            /\ asks' = [asks EXCEPT ![t] = [for |-> x, flags |-> f, dont |-> dont]]
            /\ at' = [at EXCEPT ![t] = IF x \in Oids THEN "instance" ELSE "name"]
    BY <1>1 DEF Loads!GetObject, Loads!Goes
  <2>2. /\ at[t] = "idle" /\ holds[t] = None
        /\ did' = [did EXCEPT ![t] = {}] /\ surrogates' = [surrogates EXCEPT ![t] = 0]
        /\ loads < MaxGets /\ loads' = loads + 1
    BY <1>1 DEF Loads!GetObject
  <2>3. Keeps(t)'
    BY <1>0, <2>1, <2>2 DEF LoadTypes, Keeps
  <2>4. loads' \in 0..MaxGets
    BY <1>0, <2>2 DEF LoadTypes
  <2> QED
    BY <1>0, <2>1, <2>2, <2>3, <2>4, Looking DEF LoadTypes
<1>2. CASE Loads!GetNamed(t)
  <2>1. PICK s \in {"oid", "idle"} : at' = [at EXCEPT ![t] = s]
    BY <1>2 DEF Loads!GetNamed, Loads!Goes
  <2>2. at[t] = "name" /\ UNCHANGED <<asks, did, surrogates, loads>>
    BY <1>2 DEF Loads!GetNamed
  <2>3. Keeps(t)'
    BY <1>0, <2>1, <2>2 DEF LoadTypes, Keeps
  <2> QED
    BY <1>0, <2>1, <2>2, <2>3, Looking DEF LoadTypes, Searching
<1>3. CASE Loads!NameToOid(t)
  <2>1. PICK k \in Loads!Versions : k = objects[asks[t].for]
    BY <1>0, <1>3 DEF LoadTypes, Searching, Loads!NameToOid
  <2>2. /\ at[t] = "oid" /\ UNCHANGED <<did, surrogates, loads>>
        /\ asks' = IF k.is = "nothing" THEN asks ELSE [asks EXCEPT ![t].for = k.of]
        /\ at' = [at EXCEPT ![t] = CASE k.is = "version" -> "oid" [] k.is = "oid" -> "instance" [] OTHER -> "idle"]
    BY <1>3, <2>1 DEF Loads!NameToOid, Loads!Goes
  <2>3. CASE k.is = "version"
    <3>1. k.of \in Names
      BY <2>1, <2>3 DEF Loads!Versions
    <3>2. at' = [at EXCEPT ![t] = "oid"] /\ asks' = [asks EXCEPT ![t].for = k.of]
      BY <2>2, <2>3
    <3>3. Keeps(t)'
      <4>0. at'[t] = "oid" /\ asks'[t] = [asks[t] EXCEPT !.for = k.of]
        BY <1>0, <3>2 DEF LoadTypes
      <4>1. asks'[t].flags = asks[t].flags /\ asks'[t].dont = asks[t].dont
        <5>1. asks[t] \in [for : Oids \cup Names \cup {None}, flags : Loads!Flags, dont : BOOLEAN]
          BY <1>0 DEF LoadTypes
        <5> QED
          BY <4>0, <5>1
      <4>2. did'[t] = {} /\ surrogates'[t] = 0
        BY <1>0, <2>2 DEF Keeps
      <4> QED
        BY <1>0, <4>0, <4>1, <4>2 DEF Keeps
    <3>4. /\ asks' \in [Threads -> [for : Oids \cup Names \cup {None}, flags : Loads!Flags, dont : BOOLEAN]]
          /\ asks'[t].for = k.of /\ \A u \in Threads \ {t} : asks'[u] = asks[u]
      <4> DEFINE R == [for : Oids \cup Names \cup {None}, flags : Loads!Flags, dont : BOOLEAN]
      <4>1. asks \in [Threads -> R]
        BY <1>0 DEF LoadTypes
      <4>2. [asks[t] EXCEPT !.for = k.of] \in R /\ [asks[t] EXCEPT !.for = k.of].for = k.of
        BY <3>1, <4>1
      <4>3. asks' = [asks EXCEPT ![t] = [asks[t] EXCEPT !.for = k.of]]
        BY <3>2
      <4> HIDE DEF R
      <4>4. asks' \in [Threads -> R] /\ asks'[t].for = k.of /\ \A u \in Threads \ {t} : asks'[u] = asks[u]
        BY <4>1, <4>2, <4>3
      <4> QED
        BY <4>4 DEF R
    <3>5. /\ did' \in [Threads -> SUBSET {"load", "launch"}]
          /\ surrogates' \in [Threads -> Nat] /\ loads' \in 0..MaxGets
      BY <1>0, <2>2 DEF LoadTypes
    <3>6. holds[t] = None /\ at[t] \notin {"unload", "erase", "left"}
      BY <1>0, <2>2 DEF Searching
    <3> QED
      BY <1>0, <2>2, <3>1, <3>2, <3>3, <3>4, <3>5, <3>6, Looking
  <2>4. CASE k.is = "oid"
    <3>1. k.of \in Oids
      BY <2>1, <2>4 DEF Loads!Versions
    <3>2. at' = [at EXCEPT ![t] = "instance"] /\ asks' = [asks EXCEPT ![t].for = k.of]
      BY <2>2, <2>4
    <3>3. Keeps(t)'
      <4>0. at'[t] = "instance" /\ asks'[t] = [asks[t] EXCEPT !.for = k.of]
        BY <1>0, <3>2 DEF LoadTypes
      <4>1. asks'[t].flags = asks[t].flags /\ asks'[t].dont = asks[t].dont
        <5>1. asks[t] \in [for : Oids \cup Names \cup {None}, flags : Loads!Flags, dont : BOOLEAN]
          BY <1>0 DEF LoadTypes
        <5> QED
          BY <4>0, <5>1
      <4>2. did'[t] = {} /\ surrogates'[t] = 0
        BY <1>0, <2>2 DEF Keeps
      <4> QED
        BY <1>0, <4>0, <4>1, <4>2 DEF Keeps
    <3>4. /\ asks' \in [Threads -> [for : Oids \cup Names \cup {None}, flags : Loads!Flags, dont : BOOLEAN]]
          /\ asks'[t].for = k.of /\ \A u \in Threads \ {t} : asks'[u] = asks[u]
      <4> DEFINE R == [for : Oids \cup Names \cup {None}, flags : Loads!Flags, dont : BOOLEAN]
      <4>1. asks \in [Threads -> R]
        BY <1>0 DEF LoadTypes
      <4>2. [asks[t] EXCEPT !.for = k.of] \in R /\ [asks[t] EXCEPT !.for = k.of].for = k.of
        BY <3>1, <4>1
      <4>3. asks' = [asks EXCEPT ![t] = [asks[t] EXCEPT !.for = k.of]]
        BY <3>2
      <4> HIDE DEF R
      <4>4. asks' \in [Threads -> R] /\ asks'[t].for = k.of /\ \A u \in Threads \ {t} : asks'[u] = asks[u]
        BY <4>1, <4>2, <4>3
      <4> QED
        BY <4>4 DEF R
    <3>5. /\ did' \in [Threads -> SUBSET {"load", "launch"}]
          /\ surrogates' \in [Threads -> Nat] /\ loads' \in 0..MaxGets
      BY <1>0, <2>2 DEF LoadTypes
    <3>6. holds[t] = None /\ at[t] \notin {"unload", "erase", "left"}
      BY <1>0, <2>2 DEF Searching
    <3> QED
      BY <1>0, <2>2, <3>1, <3>2, <3>3, <3>4, <3>5, <3>6, Looking
  <2>5. CASE k.is = "nothing"
    <3>1. at' = [at EXCEPT ![t] = "idle"] /\ asks' = asks
      BY <2>2, <2>5
    <3>2. Keeps(t)'
      BY <1>0, <2>2, <3>1 DEF LoadTypes, Keeps
    <3> QED
      BY <1>0, <2>2, <3>1, <3>2, Looking DEF LoadTypes
  <2> QED
    BY <2>1, <2>3, <2>4, <2>5 DEF Loads!Versions
<1>4. CASE Loads!GetLocalInstance(t)
  <2>1. PICK s \in {"idle", "load"} : at' = [at EXCEPT ![t] = s] /\ (s = "load" => ~asks[t].dont)
    BY <1>4 DEF Loads!GetLocalInstance, Loads!Goes
  <2>2. at[t] = "instance" /\ UNCHANGED <<asks, did, surrogates, loads>>
    BY <1>4 DEF Loads!GetLocalInstance
  <2>3. Keeps(t)'
    BY <1>0, <2>1, <2>2 DEF LoadTypes, Keeps
  <2> QED
    BY <1>0, <2>1, <2>2, <2>3, Looking DEF LoadTypes, Searching
<1>5. CASE Loads!LoadObject(t)
  <2>1. PICK lib \in Libraries \cup {None, "invalid"} : lib = library[asks[t].for]
    BY <1>0, <1>5 DEF LoadTypes, Searching, Loads!LoadObject
  <2>2. at[t] = "load" /\ UNCHANGED <<asks, did, surrogates, loads>>
    BY <1>5 DEF Loads!LoadObject
  <2>3. PICK s \in {"idle", "surrogate", "library", "launch"} :
            /\ at' = [at EXCEPT ![t] = s]
            /\ s = "surrogate" => lib \in Libraries /\ asks[t].flags = "Process"
            /\ s = "library" => lib \in Libraries /\ asks[t].flags # "Process"
            /\ s = "launch" => asks[t].flags # "Library"
    <3>1. CASE lib = "invalid"
      BY <1>5, <2>1, <3>1 DEF Loads!LoadObject, Loads!Goes
    <3>2. CASE lib = None
      BY <1>5, <2>1, <3>2 DEF Loads!LoadObject, Loads!Goes
    <3>3. CASE lib \in Libraries
      BY <1>5, <2>1, <3>3 DEF Loads!LoadObject, Loads!Goes
    <3> QED
      BY <3>1, <3>2, <3>3
  <2>4. Keeps(t)'
    BY <1>0, <2>2, <2>3 DEF LoadTypes, Keeps
  <2> QED
    BY <1>0, <2>1, <2>2, <2>3, <2>4, Looking DEF LoadTypes, Searching
<1>6. CASE Loads!Launch(t)
  <2>1. /\ at[t] = "launch" /\ at' = [at EXCEPT ![t] = "idle"] /\ did' = [did EXCEPT ![t] = did[t] \cup {"launch"}]
        /\ UNCHANGED <<asks, surrogates, loads>>
    BY <1>6 DEF Loads!Launch, Loads!Goes, Loads!Does
  <2>2. Keeps(t)'
    BY <1>0, <2>1 DEF LoadTypes, Keeps
  <2> QED
    BY <1>0, <2>1, <2>2, Looking DEF LoadTypes
<1>7. CASE Loads!LoadSurrogateObject(t)
  <2>1. /\ at[t] = "surrogate" /\ surrogates' = [surrogates EXCEPT ![t] = surrogates[t] + 1]
        /\ UNCHANGED <<asks, did, loads>>
    BY <1>7 DEF Loads!LoadSurrogateObject
  <2>2. PICK s \in {"idle", "surrogate"} : at' = [at EXCEPT ![t] = s]
    BY <1>0, <1>7, <2>1 DEF Loads!LoadSurrogateObject, Loads!Goes, LoadTypes
  <2>3. Keeps(t)'
    <3>1. at'[t] \in {"idle", "surrogate"} /\ UNCHANGED <<asks, did, kind, library>>
      BY <1>0, <2>1, <2>2 DEF LoadTypes
    <3>2. ~asks[t].dont /\ (asks[t].flags = "Library" => kind[library[asks[t].for]] = "lacking")
      BY <1>0, <2>1 DEF Keeps
    <3> QED
      BY <1>0, <3>1, <3>2 DEF Keeps
  <2>4. surrogates' \in [Threads -> Nat]
    BY <1>0, <2>1 DEF LoadTypes
  <2> QED
    BY <1>0, <2>1, <2>2, <2>3, <2>4, Looking DEF LoadTypes, Searching
<1> QED
  BY <1>1, <1>2, <1>3, <1>4, <1>5, <1>6, <1>7

-----------------------------------------------------------------------------
\* What a step of one thread is to another, whatever it does to the libraries.
LEMMA OthersStay ==
    ASSUME LoadInv, NEW t \in Threads,
           NEW s \in {"idle", "surrogate", "unload", "erase", "entry", "left", "lacked"},
           at' = [at EXCEPT ![t] = s], UNCHANGED <<objects, library, kind, asks, surrogates, loads>>,
           \A u \in Threads \ {t} : /\ dll'[u] = dll[u] /\ inside'[u] = inside[u]
                                    /\ holds'[u] = holds[u] /\ did'[u] = did[u]
                                    /\ m_lock' = u <=> m_lock = u,
           left' \subseteq left \/ m_lock = None,
           m_dll_map' \subseteq Libraries, left' \subseteq m_dll_map', raced' \subseteq Libraries,
           m_lock' \in Threads \cup {None}, dll' \in [Threads -> Libraries \cup {None}],
           inside' \in [Threads -> Libraries \cup {None}], did' \in [Threads -> SUBSET {"load", "launch"}],
           Counted', Searching(t)', Keeps(t)', InTheMap', UnusedGoes'
    PROVE  LoadInv'
<1>1. LoadTypes'
  BY DEF LoadInv, LoadTypes
<1>2. \A u \in Threads : at'[u] = IF u = t THEN s ELSE at[u]
  BY DEF LoadInv, LoadTypes
<1>3. ASSUME NEW u \in Threads \ {t} PROVE Searching(u)' /\ Keeps(u)'
  <2>1. Searching(u) /\ Keeps(u) /\ u # None
    BY ActivationAssumption DEF LoadInv
  <2>2. Searching(u)'
    BY <1>2, <2>1 DEF Searching
  <2>3. Keeps(u)'
    BY <1>2, <2>1 DEF Keeps
  <2> QED
    BY <2>2, <2>3
<1> QED
  BY <1>1, <1>3 DEF LoadInv

\* find_dll has the library from the map, or holds the lock and asks all of them.
LEMMA FindsDll ==
    ASSUME LoadInv, NEW t \in Threads, Loads!find_dll(t)
    PROVE  LoadInv'
<1> USE ActivationAssumption
<1>0. /\ Searching(t) /\ Keeps(t) /\ LoadTypes /\ Counted /\ InTheMap /\ UnusedGoes
      /\ at[t] = "library" /\ m_lock = None /\ t # None
      /\ UNCHANGED <<objects, library, kind, asks, m_dll_map, inside, holds, lockCount, did, surrogates, loads,
                     raced>>
  BY DEF LoadInv, Loads!find_dll, Loads!registry
<1>1. PICK lib \in Libraries : lib = library[asks[t].for]
  BY <1>0 DEF Searching
<1>2. Counted'
  BY <1>0 DEF Counted
<1>3. \A u \in Threads : at[u] # "erase"
  BY <1>0 DEF LoadInv, Searching
<1>4. CASE lib \in m_dll_map
  <2>1. dll' = [dll EXCEPT ![t] = lib] /\ at' = [at EXCEPT ![t] = "entry"] /\ UNCHANGED <<m_lock, left>>
    BY <1>1, <1>4 DEF Loads!find_dll, Loads!Goes
  <2>2. at'[t] = "entry" /\ dll'[t] = lib /\ \A u \in Threads \ {t} : dll'[u] = dll[u] /\ at'[u] = at[u]
    BY <1>0, <2>1 DEF LoadTypes
  <2>3. Searching(t)'
    BY <1>0, <1>1, <2>1, <2>2 DEF Searching
  <2>4. Keeps(t)'
    BY <1>0, <2>2 DEF Keeps
  <2>5. InTheMap'
    BY <1>0, <1>4, <2>2 DEF InTheMap
  <2>6. UnusedGoes'
    BY <1>3, <2>2 DEF UnusedGoes
  <2>7. dll' \in [Threads -> Libraries \cup {None}]
    BY <1>0, <2>1 DEF LoadTypes
  <2> QED
    BY <1>0, <1>2, <2>1, <2>2, <2>3, <2>4, <2>5, <2>6, <2>7, OthersStay DEF LoadTypes
<1>5. CASE lib \notin m_dll_map
  <2>1. m_lock' = t /\ left' = m_dll_map /\ at' = [at EXCEPT ![t] = "unload"] /\ UNCHANGED dll
    BY <1>1, <1>5 DEF Loads!find_dll, Loads!Goes
  <2>2. at'[t] = "unload" /\ \A u \in Threads \ {t} : at'[u] = at[u]
    BY <1>0, <2>1 DEF LoadTypes
  <2>3. Searching(t)'
    BY <1>0, <1>1, <2>1, <2>2 DEF Searching
  <2>4. Keeps(t)'
    BY <1>0, <2>2 DEF Keeps
  <2>5. InTheMap' /\ UnusedGoes'
    BY <1>0, <1>3, <2>1, <2>2 DEF InTheMap, UnusedGoes
  <2> QED
    BY <1>0, <1>2, <2>1, <2>2, <2>3, <2>4, <2>5, OthersStay DEF LoadTypes
<1> QED
  BY <1>4, <1>5

\* unload_unused asks a library, which is one that nothing uses, or raced.
LEMMA AsksUnused ==
    ASSUME LoadInv, NEW t \in Threads, Loads!ask_unused(t)
    PROVE  LoadInv'
<1> USE ActivationAssumption
<1>0. /\ Searching(t) /\ Keeps(t) /\ LoadTypes /\ Counted /\ InTheMap /\ UnusedGoes /\ at[t] = "unload" /\ t # None
      /\ UNCHANGED <<objects, library, kind, asks, m_dll_map, m_lock, inside, holds, lockCount, did, surrogates,
                     loads>>
  BY DEF LoadInv, Loads!ask_unused, Loads!registry
<1>1. PICK l \in left :
          /\ left' = left \ {l}
          /\ IF Loads!can_unload(l) THEN dll' = [dll EXCEPT ![t] = l] /\ at' = [at EXCEPT ![t] = "erase"]
             ELSE UNCHANGED <<dll, at>>
          /\ raced' = IF Loads!can_unload(l) /\ \E u \in Threads \ {t} : dll[u] = l \/ inside[u] = l
                      THEN raced \cup {l} ELSE raced
  BY DEF Loads!ask_unused, Loads!Goes
<1>2. Counted' /\ m_lock = t /\ l \in Libraries /\ l \in m_dll_map /\ l # None
  BY <1>0 DEF Counted, Searching, LoadTypes
<1>3. \A u \in Threads \ {t} : at[u] # "erase"
  BY <1>2 DEF LoadInv, Searching
<1>4. left' \subseteq left /\ left' \subseteq m_dll_map' /\ raced \subseteq raced' /\ raced' \subseteq Libraries
  BY <1>0, <1>1, <1>2 DEF LoadTypes
<1>5. CASE Loads!can_unload(l)
  <2>1. dll' = [dll EXCEPT ![t] = l] /\ at' = [at EXCEPT ![t] = "erase"]
    BY <1>1, <1>5
  <2>2. at'[t] = "erase" /\ dll'[t] = l /\ \A u \in Threads \ {t} : dll'[u] = dll[u] /\ at'[u] = at[u]
    BY <1>0, <2>1 DEF LoadTypes
  <2>3. Searching(t)'
    BY <1>0, <1>1, <1>2, <2>1, <2>2 DEF Searching
  <2>4. Keeps(t)'
    BY <1>0, <2>2 DEF Keeps
  <2>5. InTheMap'
    BY <1>0, <1>2, <1>4, <2>2 DEF InTheMap
  <2>6. UnusedGoes'
    <3>1. lockCount[l] = 0 /\ (l \notin raced' => \A u \in Threads \ {t} : dll[u] # l /\ inside[u] # l)
      BY <1>1, <1>5 DEF Loads!can_unload
    <3> QED
      BY <1>0, <1>3, <2>2, <3>1 DEF UnusedGoes
  <2>7. dll' \in [Threads -> Libraries \cup {None}]
    BY <1>0, <1>2, <2>1 DEF LoadTypes
  <2> QED
    BY <1>0, <1>2, <1>4, <2>1, <2>2, <2>3, <2>4, <2>5, <2>6, <2>7, OthersStay DEF LoadTypes
<1>6. CASE ~Loads!can_unload(l)
  <2>1. UNCHANGED <<dll, at, raced>>
    BY <1>1, <1>6
  <2>2. at' = [at EXCEPT ![t] = "unload"]
    BY <1>0, <2>1 DEF LoadTypes
  <2>3. Searching(t)'
    BY <1>0, <1>4, <2>1 DEF Searching
  <2>4. Keeps(t)' /\ InTheMap' /\ UnusedGoes'
    BY <1>0, <2>1 DEF Keeps, InTheMap, UnusedGoes
  <2> QED
    BY <1>0, <1>2, <1>4, <2>1, <2>2, <2>3, <2>4, OthersStay DEF LoadTypes
<1> QED
  BY <1>5, <1>6

\* What it takes from the map is used by none.
LEMMA Erases ==
    ASSUME LoadInv, NEW t \in Threads, Loads!unload_unused(t)
    PROVE  LoadInv'
<1> USE ActivationAssumption
<1>0. /\ Searching(t) /\ Keeps(t) /\ LoadTypes /\ Counted /\ InTheMap /\ UnusedGoes /\ at[t] = "erase" /\ t # None
      /\ m_dll_map' = m_dll_map \ {dll[t]} /\ dll' = [dll EXCEPT ![t] = None] /\ at' = [at EXCEPT ![t] = "unload"]
      /\ UNCHANGED <<objects, library, kind, asks, m_lock, left, inside, holds, lockCount, did, surrogates, loads,
                     raced>>
  BY DEF LoadInv, Loads!unload_unused, Loads!registry, Loads!Goes
<1>1. Counted' /\ m_lock = t /\ inside[t] = None /\ dll[t] \notin left
  BY <1>0 DEF Counted, Searching
<1>2. at'[t] = "unload" /\ dll'[t] = None /\ \A u \in Threads \ {t} : dll'[u] = dll[u] /\ at'[u] = at[u]
  BY <1>0 DEF LoadTypes
<1>3. Searching(t)' /\ Keeps(t)'
  BY <1>0, <1>1, <1>2 DEF Searching, Keeps
<1>4. InTheMap'
  <2> SUFFICES ASSUME NEW l \in Libraries \ raced,
                      lockCount[l] > 0 \/ (\E u \in Threads : inside[u] = l \/ dll'[u] = l)
               PROVE  l \in m_dll_map'
    BY <1>0 DEF InTheMap
  <2>1. l # None
    OBVIOUS
  <2>2. lockCount[l] > 0 \/ (\E u \in Threads : inside[u] = l \/ dll[u] = l)
    BY <1>2, <2>1
  <2>3. l # dll[t]
    <3>1. SUFFICES ASSUME l = dll[t] PROVE FALSE
      OBVIOUS
    <3>2. lockCount[l] = 0 /\ \A u \in Threads \ {t} : dll[u] # l /\ inside[u] # l
      BY <1>0, <3>1 DEF UnusedGoes
    <3> QED
      BY <1>1, <1>2, <2>1, <3>2
  <2> QED
    BY <1>0, <2>2, <2>3 DEF InTheMap
<1>5. UnusedGoes'
  <2>1. \A u \in Threads : at'[u] # "erase"
    BY <1>1, <1>2 DEF LoadInv, Searching
  <2> QED
    BY <2>1 DEF UnusedGoes
<1>6. /\ dll' \in [Threads -> Libraries \cup {None}] /\ m_dll_map' \subseteq Libraries /\ left' \subseteq m_dll_map'
  BY <1>0, <1>1 DEF LoadTypes
<1> QED
  BY <1>0, <1>1, <1>2, <1>3, <1>4, <1>5, <1>6, OthersStay DEF LoadTypes

\* load_dll lets go of the lock, with the library in the map if it is one to use.
LEMMA LoadsDll ==
    ASSUME LoadInv, NEW t \in Threads, Loads!load_dll(t)
    PROVE  LoadInv'
<1> USE ActivationAssumption
<1>0. /\ Searching(t) /\ Keeps(t) /\ LoadTypes /\ Counted /\ InTheMap /\ UnusedGoes
      /\ at[t] = "unload" /\ left = {} /\ m_lock' = None /\ t # None
      /\ UNCHANGED <<objects, library, kind, asks, left, inside, holds, lockCount, surrogates, loads, raced>>
  BY DEF LoadInv, Loads!load_dll, Loads!registry
<1>1. PICK lib \in Libraries : lib = library[asks[t].for]
  BY <1>0 DEF Searching
<1>2. Counted' /\ m_lock = t /\ left' \subseteq left /\ lib # None
  BY <1>0 DEF Counted, Searching
<1>3. /\ \A u \in Threads \ {t} : at[u] # "erase"
      /\ \A u \in Threads \ {t} : m_lock' = u <=> m_lock = u
  BY <1>0, <1>2 DEF LoadInv, Searching
<1>4. CASE kind[lib] \in {"missing", "alien"}
  <2>1. PICK s \in {"idle", "surrogate"} :
            /\ at' = [at EXCEPT ![t] = s] /\ UNCHANGED <<m_dll_map, dll, did>>
            /\ s = "surrogate" => asks[t].flags = "Default"
    <3>1. CASE kind[lib] = "missing"
      BY <1>1, <3>1 DEF Loads!load_dll, Loads!Goes
    <3>2. CASE kind[lib] = "alien"
      BY <1>1, <3>2 DEF Loads!load_dll, Loads!Goes
    <3> QED
      BY <1>4, <3>1, <3>2
  <2>2. at'[t] = s /\ \A u \in Threads \ {t} : at'[u] = at[u]
    BY <1>0, <2>1 DEF LoadTypes
  <2>3. Searching(t)'
    BY <1>0, <1>1, <2>1, <2>2 DEF Searching
  <2>4. Keeps(t)'
    BY <1>0, <2>1, <2>2 DEF Keeps
  <2>5. InTheMap' /\ UnusedGoes'
    BY <1>0, <1>3, <2>1, <2>2 DEF InTheMap, UnusedGoes
  <2> QED
    BY <1>0, <1>2, <1>3, <2>1, <2>2, <2>3, <2>4, <2>5, OthersStay DEF LoadTypes
<1>5. CASE kind[lib] \notin {"missing", "alien"}
  <2>1. /\ m_dll_map' = m_dll_map \cup {lib} /\ dll' = [dll EXCEPT ![t] = lib]
        /\ did' = [did EXCEPT ![t] = did[t] \cup {"load"}] /\ at' = [at EXCEPT ![t] = "entry"]
    BY <1>1, <1>5 DEF Loads!load_dll, Loads!Goes, Loads!Does
  <2>2. /\ at'[t] = "entry" /\ dll'[t] = lib /\ did'[t] = did[t] \cup {"load"}
        /\ \A u \in Threads \ {t} : dll'[u] = dll[u] /\ at'[u] = at[u] /\ did'[u] = did[u]
    BY <1>0, <2>1 DEF LoadTypes
  <2>3. Searching(t)'
    BY <1>0, <1>1, <1>2, <2>2 DEF Searching
  <2>4. Keeps(t)'
    BY <1>0, <2>2 DEF Keeps
  <2>5. InTheMap'
    BY <1>0, <2>1, <2>2 DEF InTheMap
  <2>6. UnusedGoes'
    BY <1>3, <2>2 DEF UnusedGoes
  <2>7. /\ dll' \in [Threads -> Libraries \cup {None}] /\ did' \in [Threads -> SUBSET {"load", "launch"}]
        /\ m_dll_map' \subseteq Libraries /\ left' \subseteq m_dll_map'
    BY <1>0, <2>1 DEF LoadTypes
  <2> QED
    BY <1>0, <1>2, <1>3, <2>1, <2>2, <2>3, <2>4, <2>5, <2>6, <2>7, OthersStay DEF LoadTypes
<1> QED
  BY <1>4, <1>5

\* Returns lets go of the library; one that lacked the object is a surrogate's to load.
LEMMA ReturnsDll ==
    ASSUME LoadInv, NEW t \in Threads, Loads!Returns(t)
    PROVE  LoadInv'
<1> USE ActivationAssumption
<1>0. /\ Searching(t) /\ Keeps(t) /\ LoadTypes /\ Counted /\ InTheMap /\ UnusedGoes
      /\ at[t] \in {"left", "lacked"} /\ dll' = [dll EXCEPT ![t] = None] /\ inside' = [inside EXCEPT ![t] = None]
      /\ at' = [at EXCEPT ![t] = IF at[t] = "lacked" THEN "surrogate" ELSE "idle"]
      /\ UNCHANGED <<objects, library, kind, asks, m_dll_map, m_lock, left, holds, lockCount, did, surrogates, loads,
                     raced>>
  BY DEF LoadInv, Loads!Returns, Loads!registry, Loads!Goes
<1>1. PICK s \in {"idle", "surrogate"} :
          at' = [at EXCEPT ![t] = s] /\ s = IF at[t] = "lacked" THEN "surrogate" ELSE "idle"
  BY <1>0
<1>2. /\ at'[t] = s /\ dll'[t] = None /\ inside'[t] = None
      /\ \A u \in Threads \ {t} : dll'[u] = dll[u] /\ inside'[u] = inside[u] /\ at'[u] = at[u]
  BY <1>0, <1>1 DEF LoadTypes
<1>3. Searching(t)'
  BY <1>0, <1>1, <1>2 DEF Searching
<1>4. Keeps(t)'
  <2>1. s = "surrogate" => kind[library[asks[t].for]] = "lacking"
    BY <1>0, <1>1 DEF Searching
  <2> QED
    BY <1>0, <1>1, <1>2, <2>1 DEF Keeps
<1>5. InTheMap'
  <2> SUFFICES ASSUME NEW l \in Libraries \ raced,
                      lockCount[l] > 0 \/ (\E u \in Threads : inside'[u] = l \/ dll'[u] = l)
               PROVE  l \in m_dll_map
    BY <1>0 DEF InTheMap
  <2>1. lockCount[l] > 0 \/ (\E u \in Threads : inside[u] = l \/ dll[u] = l)
    BY <1>2
  <2> QED
    BY <1>0, <2>1 DEF InTheMap
<1>6. UnusedGoes'
  <2> SUFFICES ASSUME NEW u \in Threads, at'[u] = "erase", dll'[u] \notin raced
               PROVE  lockCount[dll'[u]] = 0 /\ \A v \in Threads \ {u} : dll'[v] # dll'[u] /\ inside'[v] # dll'[u]
    BY <1>0 DEF UnusedGoes
  <2>1. u # t /\ dll'[u] = dll[u] /\ at[u] = "erase"
    BY <1>1, <1>2
  <2>2. lockCount[dll[u]] = 0 /\ \A v \in Threads \ {u} : dll[v] # dll[u] /\ inside[v] # dll[u]
    BY <1>0, <2>1 DEF UnusedGoes
  <2>3. dll[u] # None
    BY <2>1 DEF LoadInv, Searching
  <2> QED
    BY <1>2, <2>1, <2>2, <2>3
<1>7. /\ dll' \in [Threads -> Libraries \cup {None}] /\ inside' \in [Threads -> Libraries \cup {None}] /\ Counted'
  BY <1>0 DEF LoadTypes, Counted
<1> QED
  BY <1>0, <1>1, <1>2, <1>3, <1>4, <1>5, <1>6, <1>7, OthersStay DEF LoadTypes

-----------------------------------------------------------------------------
\* The number of a library's objects, in the module of the loads and in this one.
LEMMA LoadsCardinality == \A S : Loads!Cardinality(S) = Cardinality(S)
  BY DEF Loads!Cardinality, Cardinality

\* A thread that has an object of a library, or has one no more, is one more of them,
\* or one less.
LEMMA OneMore ==
    ASSUME Counted, NEW t \in Threads, holds[t] = None, NEW lib \in Libraries,
           holds' = [holds EXCEPT ![t] = lib], lockCount' = [lockCount EXCEPT ![lib] = lockCount[lib] + 1]
    PROVE  Counted'
<1> USE ActivationAssumption
<1>1. holds' \in [Threads -> Libraries \cup {None}] /\ lockCount' \in [Libraries -> Nat]
  BY DEF Counted
<1>2. ASSUME NEW l \in Libraries PROVE lockCount'[l] = Loads!Cardinality({u \in Threads : holds'[u] = l})
  <2> DEFINE S == {u \in Threads : holds[u] = l}
             T == {u \in Threads : holds'[u] = l}
  <2>1. IsFiniteSet(S) /\ lockCount[l] = Cardinality(S) /\ t \notin S
    <3>1. IsFiniteSet(S)
      BY FS_Subset
    <3>2. lockCount[l] = Cardinality(S)
      BY LoadsCardinality DEF Counted
    <3> QED
      BY <3>1, <3>2
  <2>2. lockCount'[l] = IF l = lib THEN lockCount[l] + 1 ELSE lockCount[l]
    BY DEF Counted
  <2>3. CASE l = lib
    <3>1. T = S \cup {t}
      BY <2>3 DEF Counted
    <3>2. Cardinality(S \cup {t}) = Cardinality(S) + 1
      BY <2>1, FS_AddElement
    <3>3. lockCount'[l] = Cardinality(T)
      BY <2>1, <2>2, <2>3, <3>1, <3>2
    <3> QED
      BY <3>3, LoadsCardinality
  <2>4. CASE l # lib
    <3>1. T = S
      BY <2>4 DEF Counted
    <3>2. lockCount'[l] = Cardinality(T)
      BY <2>1, <2>2, <2>4, <3>1
    <3> QED
      BY <3>2, LoadsCardinality
  <2> QED
    BY <2>3, <2>4
<1> QED
  BY <1>1, <1>2 DEF Counted

LEMMA OneLess ==
    ASSUME Counted, NEW t \in Threads, NEW lib \in Libraries, holds[t] = lib,
           holds' = [holds EXCEPT ![t] = None], lockCount' = [lockCount EXCEPT ![lib] = lockCount[lib] - 1]
    PROVE  Counted' /\ lockCount[lib] > 0
<1> USE ActivationAssumption
<1>1. lockCount \in [Libraries -> Nat] /\ lockCount[lib] \in Nat
  BY DEF Counted
<1>2. lockCount[lib] > 0
  <2> DEFINE S == {u \in Threads : holds[u] = lib}
  <2>1. IsFiniteSet(S) /\ t \in S
    BY FS_Subset
  <2>2. lockCount[lib] = Cardinality(S)
    BY LoadsCardinality DEF Counted
  <2>3. Cardinality(S) # 0
    BY <2>1, FS_EmptySet
  <2> QED
    BY <1>1, <2>2, <2>3
<1>3. PICK n \in Nat : lockCount[lib] = n + 1
  <2>1. lockCount[lib] - 1 \in Nat /\ lockCount[lib] = (lockCount[lib] - 1) + 1
    BY <1>1, <1>2
  <2> QED
    BY <2>1
<1>4. lockCount' = [lockCount EXCEPT ![lib] = n]
  <2>1. lockCount[lib] - 1 = n
    BY <1>3
  <2> QED
    BY <2>1
<1>5. holds' \in [Threads -> Libraries \cup {None}] /\ lockCount' \in [Libraries -> Nat]
  BY <1>4 DEF Counted
<1>6. ASSUME NEW l \in Libraries PROVE lockCount'[l] = Loads!Cardinality({u \in Threads : holds'[u] = l})
  <2> DEFINE S == {u \in Threads : holds[u] = l}
             T == {u \in Threads : holds'[u] = l}
  <2>1. IsFiniteSet(S) /\ lockCount[l] = Cardinality(S)
    <3>1. IsFiniteSet(S)
      BY FS_Subset
    <3>2. lockCount[l] = Cardinality(S)
      BY LoadsCardinality DEF Counted
    <3> QED
      BY <3>1, <3>2
  <2>2. lockCount'[l] = IF l = lib THEN n ELSE lockCount[l]
    BY <1>4 DEF Counted
  <2>3. CASE l = lib
    <3>1. T = S \ {t} /\ t \in S
      BY <2>3 DEF Counted
    <3>2. Cardinality(S \ {t}) = Cardinality(S) - 1
      BY <2>1, <3>1, FS_RemoveElement
    <3>3. lockCount'[l] = Cardinality(T)
      <4>1. lockCount'[l] = n /\ Cardinality(S) = n + 1
        BY <1>3, <2>1, <2>2, <2>3
      <4> HIDE DEF S, T
      <4>2. Cardinality(T) = n
        BY <3>1, <3>2, <4>1
      <4> QED
        BY <4>1, <4>2
    <3> QED
      BY <3>3, LoadsCardinality
  <2>4. CASE l # lib
    <3>1. T = S
      BY <2>4 DEF Counted
    <3>2. lockCount'[l] = Cardinality(T)
      BY <2>1, <2>2, <2>4, <3>1
    <3> QED
      BY <3>2, LoadsCardinality
  <2> QED
    BY <2>3, <2>4
<1> QED
  BY <1>2, <1>5, <1>6 DEF Counted

\* GetLibraryObject: what the library counts is an object more, in a library that is
\* in the map, and that is not about to go.
LEMMA GetsObject ==
    ASSUME LoadInv, NEW t \in Threads, Loads!GetLibraryObject(t)
    PROVE  LoadInv'
<1> USE ActivationAssumption
<1>0. /\ Searching(t) /\ Keeps(t) /\ LoadTypes /\ Counted /\ InTheMap /\ UnusedGoes /\ at[t] = "entry"
      /\ UNCHANGED <<objects, library, kind, asks, m_dll_map, m_lock, left, dll, did, surrogates, loads, raced>>
  BY DEF LoadInv, Loads!GetLibraryObject, Loads!registry
<1>1. PICK lib \in Libraries : lib = dll[t] /\ lib = library[asks[t].for] /\ holds[t] = None /\ lib # None
  BY <1>0 DEF Searching
<1>2. CASE kind[lib] \in {"mute", "lacking"}
  <2>1. PICK s \in {"left", "lacked"} :
            /\ at' = [at EXCEPT ![t] = s] /\ UNCHANGED <<inside, lockCount, holds>>
            /\ s = "lacked" => kind[lib] = "lacking"
    <3>1. CASE kind[lib] = "mute"
      BY <1>1, <3>1 DEF Loads!GetLibraryObject, Loads!Goes
    <3>2. CASE kind[lib] = "lacking"
      BY <1>1, <3>2 DEF Loads!GetLibraryObject, Loads!Goes
    <3> QED
      BY <1>2, <3>1, <3>2
  <2>2. at'[t] = s /\ \A u \in Threads \ {t} : at'[u] = at[u]
    BY <1>0, <2>1 DEF LoadTypes
  <2>3. Searching(t)'
    BY <1>0, <1>1, <2>1, <2>2 DEF Searching
  <2>4. Keeps(t)'
    BY <1>0, <2>1, <2>2 DEF Keeps
  <2>5. InTheMap' /\ UnusedGoes' /\ Counted'
    BY <1>0, <2>1, <2>2 DEF InTheMap, UnusedGoes, Counted
  <2> QED
    BY <1>0, <2>1, <2>2, <2>3, <2>4, <2>5, OthersStay DEF LoadTypes
<1>3. CASE kind[lib] \notin {"mute", "lacking"}
  <2>1. /\ lockCount' = [lockCount EXCEPT ![lib] = lockCount[lib] + 1] /\ at' = [at EXCEPT ![t] = "left"]
        /\ holds' = [holds EXCEPT ![t] = lib] /\ inside' = [inside EXCEPT ![t] = lib]
    BY <1>1, <1>3 DEF Loads!GetLibraryObject, Loads!Goes
  <2>2. /\ at'[t] = "left" /\ inside'[t] = lib /\ \A l \in Libraries \ {lib} : lockCount'[l] = lockCount[l]
        /\ \A u \in Threads \ {t} : inside'[u] = inside[u] /\ at'[u] = at[u] /\ holds'[u] = holds[u]
    BY <1>0, <2>1 DEF LoadTypes, Counted
  <2>3. Searching(t)'
    BY <1>0, <2>2 DEF Searching
  <2>4. Keeps(t)'
    BY <1>0, <2>2 DEF Keeps
  <2>5. InTheMap'
    <3>1. lib \in m_dll_map \/ lib \in raced
      BY <1>0, <1>1 DEF InTheMap
    <3> QED
      BY <1>0, <2>2, <3>1 DEF InTheMap
  <2>6. UnusedGoes'
    <3> SUFFICES ASSUME NEW u \in Threads, at'[u] = "erase", dll[u] \notin raced
                 PROVE  lockCount'[dll[u]] = 0 /\ \A v \in Threads \ {u} : dll[v] # dll[u] /\ inside'[v] # dll[u]
      BY <1>0 DEF UnusedGoes
    <3>1. u # t /\ at[u] = "erase"
      BY <2>2
    <3>2. lockCount[dll[u]] = 0 /\ \A v \in Threads \ {u} : dll[v] # dll[u] /\ inside[v] # dll[u]
      BY <1>0, <3>1 DEF UnusedGoes
    <3>3. dll[u] # lib /\ dll[u] \in Libraries
      BY <1>0, <1>1, <3>1, <3>2 DEF LoadInv, Searching, LoadTypes
    <3> QED
      BY <2>2, <3>1, <3>2, <3>3
  <2>7. Counted' /\ inside' \in [Threads -> Libraries \cup {None}]
    BY <1>0, <1>1, <2>1, OneMore DEF LoadTypes
  <2> QED
    BY <1>0, <2>1, <2>2, <2>3, <2>4, <2>5, <2>6, <2>7, OthersStay DEF LoadTypes
<1> QED
  BY <1>2, <1>3

\* Release: the library is in the map until the return from its code.
LEMMA ReleasesObject ==
    ASSUME LoadInv, NEW t \in Threads, Loads!Release(t)
    PROVE  LoadInv'
<1> USE ActivationAssumption
<1>0. /\ Searching(t) /\ Keeps(t) /\ LoadTypes /\ Counted /\ InTheMap /\ UnusedGoes
      /\ at[t] = "idle" /\ holds[t] # None
      /\ UNCHANGED <<objects, library, kind, asks, m_dll_map, m_lock, left, dll, did, surrogates, loads, raced>>
  BY DEF LoadInv, Loads!Release, Loads!registry
<1>1. PICK lib \in Libraries : lib = holds[t]
  BY <1>0 DEF Counted
<1>2. /\ lockCount' = [lockCount EXCEPT ![lib] = lockCount[lib] - 1] /\ at' = [at EXCEPT ![t] = "left"]
      /\ inside' = [inside EXCEPT ![t] = lib] /\ holds' = [holds EXCEPT ![t] = None]
  BY <1>1 DEF Loads!Release, Loads!Goes
<1>3. Counted' /\ lockCount[lib] > 0
  BY <1>0, <1>1, <1>2, OneLess
<1>4. /\ at'[t] = "left" /\ inside'[t] = lib /\ \A l \in Libraries \ {lib} : lockCount'[l] = lockCount[l]
      /\ \A u \in Threads \ {t} : inside'[u] = inside[u] /\ at'[u] = at[u] /\ holds'[u] = holds[u]
  BY <1>0, <1>2 DEF LoadTypes, Counted
<1>5. Searching(t)'
  BY <1>0, <1>4 DEF Searching
<1>6. Keeps(t)'
  BY <1>0, <1>4 DEF Keeps
<1>7. InTheMap'
  <2>1. lib \in m_dll_map \/ lib \in raced
    BY <1>0, <1>3 DEF InTheMap
  <2> QED
    BY <1>0, <1>4, <2>1 DEF InTheMap
<1>8. UnusedGoes'
  <2> SUFFICES ASSUME NEW u \in Threads, at'[u] = "erase", dll[u] \notin raced
               PROVE  lockCount'[dll[u]] = 0 /\ \A v \in Threads \ {u} : dll[v] # dll[u] /\ inside'[v] # dll[u]
    BY <1>0 DEF UnusedGoes
  <2>1. u # t /\ at[u] = "erase"
    BY <1>4
  <2>2. lockCount[dll[u]] = 0 /\ \A v \in Threads \ {u} : dll[v] # dll[u] /\ inside[v] # dll[u]
    BY <1>0, <2>1 DEF UnusedGoes
  <2>3. dll[u] # lib /\ dll[u] \in Libraries
    BY <1>0, <1>3, <2>1, <2>2 DEF LoadInv, Searching, LoadTypes
  <2> QED
    BY <1>4, <2>1, <2>2, <2>3
<1>9. inside' \in [Threads -> Libraries \cup {None}]
  BY <1>0, <1>2 DEF LoadTypes
<1> QED
  BY <1>0, <1>2, <1>3, <1>4, <1>5, <1>6, <1>7, <1>8, <1>9, OthersStay DEF LoadTypes

-----------------------------------------------------------------------------
\* Nothing is loaded, and what is registered is one of the registries.
LEMMA NothingLoaded == Loads!Init => LoadInv
<1> SUFFICES ASSUME Loads!Init PROVE LoadInv
  OBVIOUS
<1> USE ActivationAssumption, LaunchAssumption
<1>1. LoadTypes
  <2>1. /\ objects \in [Names -> Loads!Versions] /\ kind \in [Libraries -> Loads!LibraryKinds]
        /\ library \in [Oids -> Libraries \cup {None, "invalid"}]
    BY DEF Loads!Init
  <2>2. asks \in [Threads -> [for : Oids \cup Names \cup {None}, flags : Loads!Flags, dont : BOOLEAN]]
    BY DEF Loads!Init, Loads!Flags
  <2>3. /\ m_dll_map \subseteq Libraries /\ left \subseteq m_dll_map /\ raced \subseteq Libraries
        /\ m_lock \in Threads \cup {None} /\ loads \in 0..MaxGets
    BY DEF Loads!Init
  <2>4. /\ dll \in [Threads -> Libraries \cup {None}] /\ inside \in [Threads -> Libraries \cup {None}]
        /\ did \in [Threads -> SUBSET {"load", "launch"}] /\ surrogates \in [Threads -> Nat]
    BY DEF Loads!Init
  <2>5. at \in [Threads -> {"idle", "name", "oid", "instance", "load", "launch", "surrogate", "library",
                            "unload", "erase", "entry", "left", "lacked"}]
    BY DEF Loads!Init
  <2> QED
    BY <2>1, <2>2, <2>3, <2>4, <2>5 DEF LoadTypes
<1>2. Counted
  <2>1. holds \in [Threads -> Libraries \cup {None}] /\ lockCount \in [Libraries -> Nat]
    BY DEF Loads!Init
  <2>2. ASSUME NEW l \in Libraries PROVE lockCount[l] = Loads!Cardinality({t \in Threads : holds[t] = l})
    <3>1. {t \in Threads : holds[t] = l} = {} /\ lockCount[l] = 0
      BY DEF Loads!Init
    <3> QED
      BY <3>1, FS_EmptySet, LoadsCardinality
  <2> QED
    BY <2>1, <2>2 DEF Counted
<1>3. ASSUME NEW t \in Threads PROVE Searching(t) /\ Keeps(t)
  <2>1. /\ at[t] = "idle" /\ m_lock # t /\ inside[t] = None /\ dll[t] = None /\ did[t] = {} /\ surrogates[t] = 0
        /\ asks[t].flags = "Default"
    BY DEF Loads!Init
  <2> QED
    BY <2>1 DEF Searching, Keeps
<1>4. InTheMap /\ UnusedGoes
  <2>1. /\ \A t \in Threads : at[t] = "idle" /\ inside[t] = None /\ dll[t] = None
        /\ \A l \in Libraries : lockCount[l] = 0
    BY DEF Loads!Init
  <2> QED
    BY <2>1 DEF InTheMap, UnusedGoes
<1> QED
  BY <1>1, <1>2, <1>3, <1>4 DEF LoadInv

\* Each step of a load keeps the invariant; a behaviour of another part leaves it alone.
LEMMA LoadsKeep == LoadInv /\ [ActivationNext]_<<part, vars, loadVars, ovlVars, tblVars>> => LoadInv'
<1> SUFFICES ASSUME LoadInv, [ActivationNext]_<<part, vars, loadVars, ovlVars, tblVars>> PROVE LoadInv'
  OBVIOUS
<1>1. CASE UNCHANGED loadVars
  BY <1>1 DEF loadVars, LoadInv, LoadTypes, Counted, Searching, Keeps, InTheMap, UnusedGoes
<1>2. CASE Loads!Next
  <2>1. PICK t \in Threads : Loads!Step(t)
    BY <1>2 DEF Loads!Next
  <2> QED
    BY <2>1, Searches, FindsDll, AsksUnused, Erases, LoadsDll, GetsObject, ReturnsDll, ReleasesObject
       DEF Loads!Step
<1> QED
  BY <1>1, <1>2 DEF ActivationNext

\* The invariant of the loads, whatever the registries, the libraries and the
\* interleaving of the threads that load and release.
THEOREM LoadInvariance == ActivationSpec => []LoadInv
<1>1. ActivationInit => LoadInv
  BY NothingLoaded DEF ActivationInit
<1> QED
  BY <1>1, LoadsKeep, PTL DEF ActivationSpec

\* ActivatesAsAsked: a library that has objects, or a thread in its code, stays
\* loaded unless a race took it from the map, and an activation loads and launches
\* only what its flags allow.
THEOREM ActivationsDoAsAsked == ActivationSpec => []ActivatesAsAsked
<1>1. LoadInv => ActivatesAsAsked
  <2> SUFFICES ASSUME LoadInv PROVE ActivatesAsAsked
    OBVIOUS
  <2>1. Loads!LibrariesStay
    BY DEF LoadInv, InTheMap, Loads!LibrariesStay, Loads!Loaded
  <2>2. Loads!DoesAsAsked
    BY DEF LoadInv, Keeps, Loads!DoesAsAsked
  <2> QED
    BY <2>1, <2>2 DEF ActivatesAsAsked, Loads!ActivatesAsAsked
<1> QED
  BY <1>1, LoadInvariance, PTL

-----------------------------------------------------------------------------
\* The overlays of the registry

\* What a layer had at the moments of the question that is asked now.
In(l) == Ovl!During(l, key, asked.asks)
Lacks(l) == None \in In(l)
Has(l) == \E x \in In(l) : x # None

\* A question is one to an overlay, or to the factory; it knows of this moment.
Asking ==
    /\ asked.asks \in Ovl!Asks /\ asked.step \in 1..4
    /\ asked.asks # "OpenKey" => key.place # "root"
    /\ Ovl!Now(ids, value) \in moments /\ answer = <<>>

\* What it was told so far was so at one of its moments.
Heard ==
    /\ asked.step = 1 => seen = <<>>
    /\ asked.asks \in {"IsKey", "IsValue"} => (asked.step = 2 => Lacks("over"))
    /\ asked.asks \in {"GetValue", "OpenKey"} =>
          /\ asked.step = 2 => \E b \in BOOLEAN : seen = <<b>> /\ IF b THEN Has("under") ELSE Lacks("under")
          /\ asked.step = 3 => /\ Has("under")
                               /\ \E b \in BOOLEAN : seen = <<TRUE, b>> /\ IF b THEN Has("over") ELSE Lacks("over")
    /\ asked.asks = "OpenKey" =>
          /\ asked.step = 4 => /\ Has("under")
                               /\ \E k \in In("over") \ {None} : seen = <<TRUE, TRUE, k>>
    /\ asked.asks \in {"EnumSubKeys", "EnumValues"} =>
          (asked.step = 2 => \E S \in {{}, {IF asked.asks = "EnumSubKeys" THEN "subkey" ELSE "value"}} :
                                 seen = <<S>> /\ IF S = {} THEN Lacks("over") ELSE Has("over"))

\* What can be set is no answer to whether it is.
Settable == [Ovl!Layers -> [Ovl!Places -> {n1, n2, None}]]

OverlayInv ==
    /\ value \in Settable /\ key.place \in {"root", "key", "subkey"}
    /\ IsFiniteSet(moments) /\ Ovl!AnswersWereSo
    /\ asked = Ovl!Idle \/ (asked = [asks |-> asked.asks, step |-> asked.step] /\ Asking /\ Heard)
    /\ asked = Ovl!Idle => seen = <<>>

-----------------------------------------------------------------------------
\* What there is now, there was at a moment of the question.
LEMMA NowIsAMoment ==
    ASSUME Asking, NEW l \in Ovl!Layers
    PROVE  /\ asked.asks \in {"IsKey", "EnumSubKeys", "OpenKey"} => Ovl!Sub(l) \in In(l)
           /\ asked.asks \in {"IsValue", "GetValue", "EnumValues"} => Ovl!Value(l) \in In(l)
           /\ ~Ovl!There(l) => None \in In(l)
<1> DEFINE m == Ovl!Now(ids, value)
<1>1. m \in moments /\ m.ids = ids /\ m.value = value
  BY DEF Asking, Ovl!Now
<1>2. CASE asked.asks \in {"IsKey", "EnumSubKeys", "OpenKey"}
  <2>1. (IF key.place = "root" \/ m.ids[l][key.place] = key.ids[l]
         THEN m.ids[l][IF key.place = "root" THEN "key" ELSE "subkey"] ELSE None) \in In(l)
    BY <1>1, <1>2 DEF In, Ovl!During
  <2>2. Ovl!Sub(l) = IF key.place = "root" \/ m.ids[l][key.place] = key.ids[l]
                     THEN m.ids[l][IF key.place = "root" THEN "key" ELSE "subkey"] ELSE None
    BY <1>1 DEF Ovl!Sub, Ovl!There, Ovl!Below
  <2>3. ~Ovl!There(l) => None \in In(l)
    BY <1>1, <2>1 DEF Ovl!There
  <2> QED
    BY <1>2, <2>1, <2>2, <2>3
<1>3. CASE asked.asks \in {"IsValue", "GetValue", "EnumValues"}
  <2>1. (IF key.place = "root" \/ m.ids[l][key.place] = key.ids[l] THEN m.value[l][key.place] ELSE None) \in In(l)
    BY <1>1, <1>3 DEF In, Ovl!During
  <2>2. Ovl!Value(l) = IF key.place = "root" \/ m.ids[l][key.place] = key.ids[l] THEN m.value[l][key.place] ELSE None
    BY <1>1, <1>3 DEF Ovl!Value, Ovl!There, Asking
  <2>3. ~Ovl!There(l) => None \in In(l)
    BY <1>1, <2>1 DEF Ovl!There
  <2> QED
    BY <1>3, <2>1, <2>2, <2>3
<1> QED
  BY <1>2, <1>3 DEF Asking, Ovl!Asks

\* A question whose moments become more remembers what it was told.
LEMMA MoreMoments ==
    ASSUME Heard, moments \subseteq moments', UNCHANGED <<key, asked, seen>>
    PROVE  Heard'
<1>1. \A l : In(l) \subseteq In(l)'
  BY DEF In, Ovl!During
<1>2. \A l : (Lacks(l) => Lacks(l)') /\ (Has(l) => Has(l)')
  BY <1>1 DEF Lacks, Has
<1> QED
  BY <1>1, <1>2 DEF Heard

\* Others change the keys: a question has a moment more, and no answer is left.
LEMMA ChangesAreMoments ==
    ASSUME OverlayInv, NEW l \in Ovl!Layers, NEW p \in Ovl!Places,
           Ovl!CreateKey(l, p) \/ Ovl!DeleteKey(l, p) \/ \E v \in {n1, n2, None} : Ovl!SetValue(l, p, v)
    PROVE  OverlayInv'
<1>1. PICK is, vals : Ovl!Change(is, vals) /\ vals \in Settable
  <2>1. value \in Settable
    BY DEF OverlayInv
  <2>2. CASE Ovl!CreateKey(l, p)
    BY <2>1, <2>2 DEF Ovl!CreateKey
  <2>3. CASE Ovl!DeleteKey(l, p)
    <3> DEFINE goes == IF p = "key" THEN Ovl!Places ELSE {p}
               Without(f) == [f EXCEPT ![l] = [q \in Ovl!Places |-> IF q \in goes THEN None ELSE f[l][q]]]
    <3>1. Ovl!Change(Without(ids), Without(value))
      BY <2>3 DEF Ovl!DeleteKey
    <3>2. Without(value) \in Settable
      BY <2>1 DEF Settable
    <3> QED
      BY <3>1, <3>2
  <2>4. ASSUME NEW v \in {n1, n2, None}, Ovl!SetValue(l, p, v)
        PROVE  \E is, vals : Ovl!Change(is, vals) /\ vals \in Settable
    <3>1. Ovl!Change(ids, [value EXCEPT ![l][p] = v])
      BY <2>4 DEF Ovl!SetValue
    <3>2. [value EXCEPT ![l][p] = v] \in Settable
      BY <2>1 DEF Settable
    <3> QED
      BY <3>1, <3>2
  <2> QED
    BY <2>2, <2>3, <2>4
<1>2. /\ ids' = is /\ value' = vals /\ answer' = <<>> /\ UNCHANGED <<key, asked, seen>>
      /\ moments' = IF asked = Ovl!Idle THEN {} ELSE moments \cup {Ovl!Now(is, vals)}
  BY <1>1 DEF Ovl!Change
<1>3. IsFiniteSet(moments') /\ Ovl!AnswersWereSo'
  BY <1>2, FS_EmptySet, FS_AddElement DEF OverlayInv, Ovl!AnswersWereSo
<1>4. CASE asked = Ovl!Idle
  BY <1>1, <1>2, <1>3, <1>4 DEF OverlayInv
<1>5. CASE asked # Ovl!Idle
  <2>1. Asking'
    BY <1>2, <1>5 DEF OverlayInv, Asking, Ovl!Now
  <2>2. Heard'
    BY <1>2, <1>5, MoreMoments DEF OverlayInv
  <2> QED
    BY <1>1, <1>2, <1>3, <1>5, <2>1, <2>2 DEF OverlayInv
<1> QED
  BY <1>4, <1>5

\* Ask and Close: nothing has been heard, and nothing is answered.
LEMMA QuestionsBegin ==
    ASSUME OverlayInv, (\E what \in Ovl!Asks : Ovl!Ask(what)) \/ Ovl!Close
    PROVE  OverlayInv'
<1>1. CASE Ovl!Close
  BY <1>1, FS_EmptySet DEF Ovl!Close, Ovl!NoKey, OverlayInv, Ovl!AnswersWereSo
<1>2. ASSUME NEW what \in Ovl!Asks, Ovl!Ask(what) PROVE OverlayInv'
  <2>1. /\ asked = Ovl!Idle /\ asked' = [asks |-> what, step |-> 1] /\ moments' = {Ovl!Now(ids, value)} /\ answer' = <<>>
        /\ UNCHANGED <<ids, value, last, key, seen>> /\ (what # "OpenKey" => key.place # "root")
    BY <1>2 DEF Ovl!Ask, Ovl!IsOverlay
  <2>2. IsFiniteSet(moments') /\ Ovl!AnswersWereSo'
    BY <2>1, FS_Singleton DEF Ovl!AnswersWereSo
  <2>3. Asking'
    BY <2>1 DEF Asking, Ovl!Now
  <2>4. asked'.asks = what /\ asked'.step = 1 /\ seen' = <<>> /\ asked' # Ovl!Idle
    BY <2>1 DEF OverlayInv, Ovl!Idle
  <2>5. Heard'
    BY <2>4 DEF Heard
  <2> QED
    BY <2>1, <2>2, <2>3, <2>4, <2>5 DEF OverlayInv
<1> QED
  BY <1>1, <1>2

\* A step that hears something: what was so before is so.
LEMMA HearsMore ==
    ASSUME OverlayInv, NEW what, NEW n \in 1..3, Ovl!Asked(what, n), NEW x, Ovl!Hears(x), Heard'
    PROVE  OverlayInv'
<1>1. asked = [asks |-> what, step |-> n] /\ asked' = [asks |-> what, step |-> n + 1]
  BY DEF Ovl!Asked, Ovl!Hears
<1>2. asked # Ovl!Idle /\ asked' # Ovl!Idle
  BY <1>1 DEF Ovl!Idle
<1>3. Asking'
  BY <1>1, <1>2 DEF OverlayInv, Asking, Ovl!Hears, Ovl!Now
<1>4. IsFiniteSet(moments') /\ Ovl!AnswersWereSo'
  BY <1>2 DEF OverlayInv, Asking, Ovl!Hears, Ovl!AnswersWereSo
<1>5. value' \in Settable /\ key'.place \in {"root", "key", "subkey"}
  BY DEF OverlayInv, Ovl!Hears
<1> QED
  BY <1>1, <1>2, <1>3, <1>4, <1>5 DEF OverlayInv

\* What is heard is appended, and what there was at the moments stays.
LEMMA WhatIsHeard ==
    ASSUME NEW x, Ovl!Hears(x)
    PROVE  /\ seen' = Append(seen, x) /\ asked'.asks = asked.asks
           /\ \A l : In(l)' = In(l) /\ (Has(l)' <=> Has(l)) /\ (Lacks(l)' <=> Lacks(l))
<1>1. seen' = Append(seen, x) /\ asked'.asks = asked.asks /\ moments' = moments /\ key' = key
  BY DEF Ovl!Hears
<1>2. \A l : In(l)' = In(l)
  BY <1>1 DEF In, Ovl!During
<1> QED
  BY <1>1, <1>2 DEF Has, Lacks

\* An answer ends the question; what it is has to be so.
LEMMA AnswersEnd ==
    ASSUME OverlayInv, NEW x, asked' = Ovl!Idle, seen' = <<>>, UNCHANGED <<moments, value>>,
           key'.place \in {"root", "key", "subkey"}, answer' = <<key, asked.asks, x>>, Ovl!AnswersWereSo'
    PROVE  OverlayInv'
  BY DEF OverlayInv

\* What AnswersWereSo says of an answer, of what was at the moments of its question.
AnswersSo(what, x) ==
    CASE what \in {"IsKey", "IsValue"} -> IF x THEN Has("over") \/ Has("under") ELSE Lacks("over") /\ Lacks("under")
      [] what = "GetValue" -> IF x \in BOOLEAN THEN Lacks("over") /\ Has("under") /\ (x \/ Lacks("under"))
                               ELSE /\ x \in In("over")
                                    /\ x = None => (Lacks("over") /\ Lacks("under")) \/ Cardinality(moments) > 1
      [] what = "OpenKey" ->
             IF \A l \in Ovl!Layers : x[l] = None
             THEN \/ Lacks("over") /\ Lacks("under")
                  \/ (Lacks("over") \/ Lacks("under")) /\ Cardinality(moments) > 1
             ELSE \A l \in Ovl!Layers : x[l] \in In(l)
      [] OTHER -> IF x = None THEN Lacks("over") \/ Lacks("under")
                  ELSE /\ x # {} => Has("over") \/ Has("under")
                       /\ x = {} => Lacks("over") /\ Lacks("under")

LEMMA SoIsWhatItSays ==
    ASSUME OverlayInv, Asking, Heard, NEW x, asked' = Ovl!Idle, seen' = <<>>, UNCHANGED <<moments, value>>,
           key'.place \in {"root", "key", "subkey"}, answer' = <<key, asked.asks, x>>, AnswersSo(asked.asks, x)
    PROVE  OverlayInv'
<1>1. \A l : In(l) # {} /\ In(l) = Ovl!During(l, key, asked.asks)
  BY DEF Asking, In, Ovl!During
<1>2. answer' # <<>> /\ answer'[1] = key /\ answer'[2] = asked.asks /\ answer'[3] = x /\ moments' = moments
  OBVIOUS
<1>3. \A S : Ovl!Cardinality(S) = Cardinality(S)
  BY DEF Ovl!Cardinality, Cardinality
<1>4. Ovl!AnswersWereSo'
  <2> DEFINE D(l) == {IF answer'[1].place = "root" \/ m.ids[l][answer'[1].place] = answer'[1].ids[l]
                      THEN IF answer'[2] \in {"IsKey", "EnumSubKeys", "OpenKey"}
                           THEN m.ids[l][IF answer'[1].place = "root" THEN "key" ELSE "subkey"]
                           ELSE m.value[l][answer'[1].place]
                      ELSE None : m \in moments'}
             K == {l \in Ovl!Layers : None \in D(l)}
             H == {l \in Ovl!Layers : D(l) # {None}}
  <2>1. \A l : D(l) = In(l)
    BY <1>2 DEF In, Ovl!During
  <2>2. /\ K = Ovl!Layers <=> Lacks("over") /\ Lacks("under")
        /\ K # {} <=> Lacks("over") \/ Lacks("under")
        /\ H # {} <=> Has("over") \/ Has("under")
        /\ "over" \in K <=> Lacks("over")
        /\ "under" \in H <=> Has("under")
        /\ "under" \in K <=> Lacks("under")
    <3>1. \A l \in Ovl!Layers : (l \in K <=> Lacks(l)) /\ (l \in H <=> In(l) # {None})
      BY <2>1 DEF Lacks
    <3>2. \A l \in Ovl!Layers : In(l) # {None} <=> Has(l)
      BY <1>1 DEF Has
    <3>3. K \subseteq Ovl!Layers /\ H \subseteq Ovl!Layers
      OBVIOUS
    <3> HIDE DEF K, H
    <3>4. "over" \in Ovl!Layers /\ "under" \in Ovl!Layers /\ \A l \in Ovl!Layers : l = "over" \/ l = "under"
      BY DEF Ovl!Layers
    <3>5. K = Ovl!Layers <=> "over" \in K /\ "under" \in K
      BY <3>3, <3>4
    <3>6. (K # {} <=> "over" \in K \/ "under" \in K) /\ (H # {} <=> "over" \in H \/ "under" \in H)
      BY <3>3, <3>4
    <3> QED
      BY <3>1, <3>2, <3>4, <3>5, <3>6
  <2>3. CASE asked.asks \in {"IsKey", "IsValue"}
    BY <1>2, <2>2, <2>3 DEF AnswersSo, Ovl!AnswersWereSo, Ovl!During
  <2>4. CASE asked.asks = "GetValue"
    BY <1>2, <1>3, <2>1, <2>2, <2>4 DEF AnswersSo, Ovl!AnswersWereSo, Ovl!During
  <2>5. CASE asked.asks = "OpenKey"
    BY <1>2, <1>3, <2>1, <2>2, <2>5 DEF AnswersSo, Ovl!AnswersWereSo, Ovl!During
  <2>6. CASE asked.asks \in {"EnumSubKeys", "EnumValues"}
    BY <1>2, <2>2, <2>6 DEF AnswersSo, Ovl!AnswersWereSo, Ovl!During
  <2> QED
    BY <2>3, <2>4, <2>5, <2>6 DEF Asking, Ovl!Asks
<1> QED
  BY <1>4, AnswersEnd

-----------------------------------------------------------------------------
\* What is asked, and how far it has got.
LEMMA AskedIs == \A what, n : Ovl!Asked(what, n) => asked.asks = what /\ asked.step = n
  BY DEF Ovl!Asked

LEMMA InAQuestion ==
    ASSUME OverlayInv, NEW what \in Ovl!Asks, NEW n \in 1..4, Ovl!Asked(what, n)
    PROVE  Asking /\ Heard
<1>1. asked.asks # "nothing"
  BY AskedIs DEF Ovl!Asks
<1>2. asked # Ovl!Idle
  BY <1>1 DEF Ovl!Idle
<1> QED
  BY <1>2 DEF OverlayInv

\* What a value is set to, and that there is none, are no truth values.
LEMMA SetIsNoTruth == None \notin BOOLEAN /\ n1 \notin BOOLEAN /\ n2 \notin BOOLEAN
  BY ActivationAssumption

\* IsKey and IsValue: what is not over is looked for below.
LEMMA EitherSo ==
    ASSUME OverlayInv, Ovl!IsEither
    PROVE  OverlayInv'
<1>1. PICK ask \in {"IsKey", "IsValue"} :
          LET Is(l) == IF ask = "IsKey" THEN Ovl!IsKey(l) ELSE Ovl!IsValue(l) IN
          \/ Ovl!Asked(ask, 1) /\ IF Is("over") THEN Ovl!Answers(TRUE) ELSE Ovl!Hears(FALSE)
          \/ Ovl!Asked(ask, 2) /\ Ovl!Answers(Is("under"))
  BY DEF Ovl!IsEither
<1> DEFINE Is(l) == IF ask = "IsKey" THEN Ovl!IsKey(l) ELSE Ovl!IsValue(l)
<1>2. Asking /\ Heard /\ asked.asks = ask
  <2>1. Ovl!Asked(ask, 1) \/ Ovl!Asked(ask, 2)
    BY <1>1
  <2>2. ask \in Ovl!Asks
    BY DEF Ovl!Asks
  <2> QED
    BY <2>1, <2>2, InAQuestion, AskedIs
<1>3. \A l \in Ovl!Layers : Is(l) \in BOOLEAN /\ IF Is(l) THEN Has(l) ELSE Lacks(l)
  <2>1. CASE ask = "IsKey"
    BY <1>2, <2>1, NowIsAMoment DEF Has, Lacks, Ovl!IsKey
  <2>2. CASE ask = "IsValue"
    BY <1>2, <2>2, NowIsAMoment DEF Has, Lacks, Ovl!IsValue
  <2> QED
    BY <2>1, <2>2
<1>4. "over" \in Ovl!Layers /\ "under" \in Ovl!Layers
  BY DEF Ovl!Layers
<1>5. CASE Ovl!Asked(ask, 1) /\ Is("over") /\ Ovl!Answers(TRUE)
  <2>1. AnswersSo(asked.asks, TRUE)
    BY <1>2, <1>3, <1>4, <1>5 DEF AnswersSo
  <2> QED
    BY <1>2, <1>5, <2>1, SoIsWhatItSays DEF Ovl!Answers, OverlayInv
<1>6. CASE Ovl!Asked(ask, 1) /\ ~Is("over") /\ Ovl!Hears(FALSE)
  <2>1. Lacks("over")
    BY <1>3, <1>4, <1>6
  <2>2. Heard'
    <3>1. asked'.step = 2
      BY <1>6 DEF Ovl!Asked, Ovl!Hears
    <3>2. asked'.asks = ask /\ Lacks("over")'
      BY <1>2, <1>6, <2>1, WhatIsHeard
    <3> QED
      BY <3>1, <3>2 DEF Heard
  <2>3. Ovl!Asked(ask, 1) /\ Ovl!Hears(FALSE)
    BY <1>6
  <2>4. 1 \in 1..3
    OBVIOUS
  <2> QED
    BY <2>2, <2>3, <2>4, HearsMore
<1>7. CASE Ovl!Asked(ask, 2) /\ Ovl!Answers(Is("under"))
  <2>1. Lacks("over")
    BY <1>2, <1>7 DEF Heard, Ovl!Asked
  <2>2. AnswersSo(asked.asks, Is("under"))
    BY <1>2, <1>3, <1>4, <2>1 DEF AnswersSo
  <2> QED
    BY <1>2, <1>7, <2>2, SoIsWhatItSays DEF Ovl!Answers, OverlayInv
<1> QED
  BY <1>1, <1>5, <1>6, <1>7

\* Of a layer that both had and lacked it there was more than a moment.
LEMMA TwoMoments ==
    ASSUME IsFiniteSet(moments), NEW l, Has(l), Lacks(l)
    PROVE  Cardinality(moments) > 1
<1> DEFINE In1(m) == IF key.place = "root" \/ m.ids[l][key.place] = key.ids[l]
                     THEN IF asked.asks \in {"IsKey", "EnumSubKeys", "OpenKey"}
                          THEN m.ids[l][IF key.place = "root" THEN "key" ELSE "subkey"] ELSE m.value[l][key.place]
                     ELSE None
<1>0. In(l) = {In1(m) : m \in moments}
  BY DEF In, Ovl!During
<1>1. PICK m1 \in moments, m2 \in moments : m1 # m2
  <2> HIDE DEF In1
  <2>1. PICK m1 \in moments : In1(m1) # None
    BY <1>0 DEF Has
  <2>2. PICK m2 \in moments : In1(m2) = None
    BY <1>0 DEF Lacks
  <2> QED
    BY <2>1, <2>2
<1>2. IsFiniteSet({m1}) /\ Cardinality({m1}) = 1
  BY FS_Singleton
<1>3. Cardinality({m1} \cup {m2}) = 2 /\ IsFiniteSet({m1} \cup {m2})
  BY <1>1, <1>2, FS_AddElement
<1>4. Cardinality({m1} \cup {m2}) <= Cardinality(moments)
  BY <1>1, FS_Subset
<1>5. Cardinality(moments) \in Nat
  BY FS_CardinalityType
<1> QED
  BY <1>3, <1>4, <1>5

\* What is heard comes last.
LEMMA Appended ==
    ASSUME NEW a, NEW b, NEW c
    PROVE  Append(<<a>>, b) = <<a, b>> /\ Append(<<a, b>>, c) = <<a, b, c>>
<1> DEFINE S == {a, b, c}
<1>1. /\ <<a>> \in Seq(S) /\ <<a, b>> \in Seq(S) /\ <<a, b, c>> \in Seq(S)
      /\ Len(<<a>>) = 1 /\ Len(<<a, b>>) = 2 /\ Len(<<a, b, c>>) = 3
  OBVIOUS
<1>2. Append(<<a>>, b) = <<a, b>>
  <2>1. /\ Append(<<a>>, b) \in Seq(S) /\ Len(Append(<<a>>, b)) = 2
        /\ Append(<<a>>, b)[1] = a /\ Append(<<a>>, b)[2] = b
    BY <1>1, AppendProperties
  <2>2. \A i \in 1..2 : Append(<<a>>, b)[i] = <<a, b>>[i]
    BY <2>1
  <2> QED
    BY <1>1, <2>1, <2>2, SeqEqual
<1>3. Append(<<a, b>>, c) = <<a, b, c>>
  <2>1. /\ Append(<<a, b>>, c) \in Seq(S) /\ Len(Append(<<a, b>>, c)) = 3
        /\ Append(<<a, b>>, c)[1] = a /\ Append(<<a, b>>, c)[2] = b /\ Append(<<a, b>>, c)[3] = c
    BY <1>1, AppendProperties
  <2>2. \A i \in 1..3 : Append(<<a, b>>, c)[i] = <<a, b, c>>[i]
    BY <2>1
  <2> QED
    BY <1>1, <2>1, <2>2, SeqEqual
<1> QED
  BY <1>2, <1>3

\* GetValue: the value over the other is answered, or whether there is one below.
LEMMA ValueSo ==
    ASSUME OverlayInv, Ovl!GetValue
    PROVE  OverlayInv'
<1>1. PICK n \in 1..3 : Ovl!Asked("GetValue", n)
  <2>1. Ovl!Asked("GetValue", 1) \/ Ovl!Asked("GetValue", 2) \/ Ovl!Asked("GetValue", 3)
    BY DEF Ovl!GetValue
  <2> QED
    BY <2>1
<1>2. Asking /\ Heard /\ asked.asks = "GetValue" /\ asked.step = n /\ IsFiniteSet(moments)
  BY <1>1, InAQuestion, AskedIs DEF Ovl!Asks, OverlayInv
<1>3. \A l \in Ovl!Layers : /\ Ovl!Value(l) \in In(l)
                            /\ Ovl!IsValue(l) \in BOOLEAN
                            /\ IF Ovl!IsValue(l) THEN Has(l) ELSE Lacks(l)
                            /\ Ovl!Value(l) = None => Lacks(l)
  BY <1>2, NowIsAMoment DEF Has, Lacks, Ovl!IsValue
<1>4. "over" \in Ovl!Layers /\ "under" \in Ovl!Layers
  BY DEF Ovl!Layers
<1>5. ASSUME NEW x, Ovl!Answers(x), AnswersSo("GetValue", x) PROVE OverlayInv'
  BY <1>2, <1>5, SoIsWhatItSays DEF Ovl!Answers, OverlayInv
<1>6. Ovl!Value("over") \notin BOOLEAN /\ Ovl!Value("over") \in In("over")
  <2>1. Ovl!Value("over") \in {n1, n2, None}
    BY <1>2, <1>4 DEF Ovl!Value, OverlayInv, Settable, Ovl!Places, Asking
  <2> QED
    BY <1>3, <1>4, <2>1, SetIsNoTruth
<1>7. Lacks("under") \/ Has("over") => AnswersSo("GetValue", Ovl!Value("over"))
  <2>1. Ovl!Value("over") = None => Lacks("over")
    BY <1>3, <1>4
  <2>2. Has("over") /\ Lacks("over") => Cardinality(moments) > 1
    BY <1>2, TwoMoments
  <2> QED
    BY <1>6, <2>1, <2>2 DEF AnswersSo
<1>8. CASE n = 1
  <2>1. Ovl!Hears(Ovl!IsValue("under")) /\ Ovl!Asked("GetValue", 1)
    BY <1>2, <1>8, AskedIs DEF Ovl!GetValue
  <2>2. seen = <<>> /\ asked'.step = 2
    BY <1>2, <1>8, <2>1 DEF Heard, Ovl!Hears, Ovl!Asked
  <2>3. seen' = <<Ovl!IsValue("under")>> /\ asked'.asks = "GetValue"
        /\ IF Ovl!IsValue("under") THEN Has("under")' ELSE Lacks("under")'
    BY <1>2, <1>3, <1>4, <2>1, <2>2, WhatIsHeard
  <2>4. Heard'
    BY <1>3, <1>4, <2>2, <2>3 DEF Heard
  <2> QED
    BY <2>1, <2>4, HearsMore
<1>9. CASE n = 2
  <2>1. PICK b \in BOOLEAN : seen = <<b>> /\ IF b THEN Has("under") ELSE Lacks("under")
    BY <1>2, <1>9 DEF Heard
  <2>2. IF b THEN Ovl!Hears(Ovl!IsValue("over")) ELSE Ovl!Answers(Ovl!Value("over"))
    BY <1>2, <1>9, <2>1, AskedIs DEF Ovl!GetValue
  <2>3. CASE b = FALSE
    BY <1>5, <1>7, <2>1, <2>2, <2>3
  <2>4. CASE b = TRUE
    <3>1. Ovl!Hears(Ovl!IsValue("over")) /\ Ovl!Asked("GetValue", 2) /\ Has("under") /\ seen = <<TRUE>>
      BY <1>1, <1>9, <2>1, <2>2, <2>4
    <3>2. asked'.step = 3
      BY <3>1 DEF Ovl!Hears, Ovl!Asked
    <3>3. seen' = <<TRUE, Ovl!IsValue("over")>>
      BY <3>1, WhatIsHeard, Appended
    <3>4. /\ asked'.asks = "GetValue" /\ Has("under")'
          /\ IF Ovl!IsValue("over") THEN Has("over")' ELSE Lacks("over")'
      BY <1>2, <1>3, <1>4, <3>1, WhatIsHeard
    <3>5. Heard'
      BY <1>3, <1>4, <3>2, <3>3, <3>4 DEF Heard
    <3> QED
      BY <3>1, <3>5, HearsMore
  <2> QED
    BY <2>3, <2>4
<1>10. CASE n = 3
  <2>1. PICK b \in BOOLEAN : seen = <<TRUE, b>> /\ IF b THEN Has("over") ELSE Lacks("over")
    BY <1>2, <1>10 DEF Heard
  <2>2. Has("under")
    BY <1>2, <1>10 DEF Heard
  <2>3. IF b THEN Ovl!Answers(Ovl!Value("over")) ELSE Ovl!Answers(Ovl!IsValue("under"))
    BY <1>2, <1>10, <2>1, AskedIs DEF Ovl!GetValue
  <2>4. CASE b = TRUE
    BY <1>5, <1>7, <2>1, <2>3, <2>4
  <2>5. CASE b = FALSE
    <3>1. AnswersSo("GetValue", Ovl!IsValue("under"))
      BY <1>3, <1>4, <2>1, <2>2, <2>5 DEF AnswersSo
    <3> QED
      BY <1>5, <2>3, <2>5, <3>1
  <2> QED
    BY <2>4, <2>5
<1> QED
  BY <1>8, <1>9, <1>10

\* OpenKey's answer ends the question, with a key of the layers that have it.
LEMMA OpensEnd ==
    ASSUME OverlayInv, Asking, Heard, asked.asks = "OpenKey", NEW f, Ovl!Opens(f), AnswersSo("OpenKey", f)
    PROVE  OverlayInv'
<1>1. key'.place \in {"root", "key", "subkey"}
  <2>1. Ovl!Below \in {"key", "subkey"} /\ key.place \in {"root", "key", "subkey"}
    BY DEF OverlayInv, Ovl!Below
  <2>2. key' = key \/ key' = [place |-> Ovl!Below, ids |-> f]
    BY DEF Ovl!Opens
  <2> QED
    BY <2>1, <2>2
<1> QED
  BY <1>1, SoIsWhatItSays DEF Ovl!Opens

\* OpenKey: a key of both is of what both had when each of them was asked last.
LEMMA OpenSo ==
    ASSUME OverlayInv, Ovl!OpenKey
    PROVE  OverlayInv'
<1>1. PICK n \in 1..4 : Ovl!Asked("OpenKey", n)
  <2>1. \/ Ovl!Asked("OpenKey", 1) \/ Ovl!Asked("OpenKey", 2)
        \/ Ovl!Asked("OpenKey", 3) \/ Ovl!Asked("OpenKey", 4)
    BY DEF Ovl!OpenKey
  <2> QED
    BY <2>1
<1>2. Asking /\ Heard /\ asked.asks = "OpenKey" /\ asked.step = n /\ IsFiniteSet(moments)
  <2>1. "OpenKey" \in Ovl!Asks
    BY DEF Ovl!Asks
  <2> QED
    BY <1>1, <2>1, InAQuestion, AskedIs DEF OverlayInv
<1>3. \A l \in Ovl!Layers : Ovl!Sub(l) \in In(l) /\ (Ovl!IsKey(l) <=> Ovl!Sub(l) # None)
  BY <1>2, NowIsAMoment DEF Ovl!IsKey
<1>4. \A l \in Ovl!Layers : (Ovl!IsKey(l) => Has(l)) /\ (~Ovl!IsKey(l) => Lacks(l)) /\ Ovl!IsKey(l) \in BOOLEAN
  BY <1>3 DEF Has, Lacks, Ovl!IsKey
<1>5. "over" \in Ovl!Layers /\ "under" \in Ovl!Layers /\ \A l \in Ovl!Layers : l = "over" \/ l = "under"
  BY DEF Ovl!Layers
<1>6. ASSUME n \in 1..3, NEW x, Ovl!Hears(x), Heard' PROVE OverlayInv'
  BY <1>1, <1>6, HearsMore
<1>7. ASSUME NEW x, Ovl!Hears(x)
      PROVE  /\ asked'.asks = "OpenKey" /\ asked'.step = n + 1 /\ seen' = Append(seen, x)
             /\ (Has("under")' <=> Has("under")) /\ (Lacks("under")' <=> Lacks("under"))
             /\ (Has("over")' <=> Has("over")) /\ (Lacks("over")' <=> Lacks("over")) /\ In("over")' = In("over")
  <2>1. asked'.step = n + 1
    BY <1>1, <1>7 DEF Ovl!Asked, Ovl!Hears
  <2> QED
    BY <1>2, <1>7, <2>1, WhatIsHeard
<1>8. CASE n = 1
  <2>1. Ovl!Hears(Ovl!IsKey("under"))
    <3>1. ~Ovl!Asked("OpenKey", 2) /\ ~Ovl!Asked("OpenKey", 3) /\ ~Ovl!Asked("OpenKey", 4)
      BY <1>2, <1>8, AskedIs
    <3> QED
      BY <3>1 DEF Ovl!OpenKey
  <2>2. PICK b \in BOOLEAN : Ovl!Hears(b) /\ IF b THEN Has("under") ELSE Lacks("under")
    BY <1>4, <1>5, <2>1
  <2>3. seen' = <<b>>
    <3>1. seen = <<>>
      BY <1>2, <1>8 DEF Heard
    <3> QED
      BY <1>7, <2>2, <3>1
  <2>4. Heard'
    BY <1>7, <1>8, <2>2, <2>3 DEF Heard
  <2>5. n \in 1..3
    BY <1>8
  <2> QED
    BY <1>6, <2>2, <2>4, <2>5
<1>9. \A l \in Ovl!Layers : Ovl!Only(l)[l] = Ovl!Sub(l) /\ \A m \in Ovl!Layers \ {l} : Ovl!Only(l)[m] = None
  BY DEF Ovl!Only
<1>10. CASE n = 2
  <2>1. PICK b \in BOOLEAN : seen = <<b>> /\ (b => Has("under")) /\ (~b => Lacks("under"))
    BY <1>2, <1>10 DEF Heard
  <2>2. /\ ~b => Ovl!Opens(Ovl!Only("over"))
        /\ b => Ovl!Hears(Ovl!IsKey("over"))
    <3>1. ~Ovl!Asked("OpenKey", 1) /\ ~Ovl!Asked("OpenKey", 3) /\ ~Ovl!Asked("OpenKey", 4)
      BY <1>2, <1>10, AskedIs
    <3>2. seen[1] = b
      BY <2>1
    <3> QED
      BY <3>1, <3>2 DEF Ovl!OpenKey
  <2>3. CASE ~b
    <3>1. AnswersSo("OpenKey", Ovl!Only("over"))
      BY <1>3, <1>4, <1>5, <1>9, <2>1, <2>3 DEF AnswersSo, Lacks
    <3> QED
      BY <1>2, <2>2, <2>3, <3>1, OpensEnd
  <2>4. CASE b
    <3>1. PICK c \in BOOLEAN : Ovl!Hears(c) /\ IF c THEN Has("over") ELSE Lacks("over")
      BY <1>4, <1>5, <2>2, <2>4
    <3>2. seen' = <<TRUE, c>> /\ Has("under")
      <4>1. seen = <<TRUE>> /\ Has("under")
        BY <2>1, <2>4
      <4>2. seen' = Append(seen, c)
        BY <1>7, <3>1
      <4> QED
        BY <4>1, <4>2, Appended
    <3>3. Heard'
      BY <1>7, <1>10, <3>1, <3>2 DEF Heard
    <3>4. n \in 1..3
      BY <1>10
    <3> QED
      BY <1>6, <3>1, <3>3, <3>4
  <2> QED
    BY <2>3, <2>4
<1>11. CASE n = 3
  <2>1. PICK b \in BOOLEAN : seen = <<TRUE, b>> /\ Has("under") /\ (b => Has("over")) /\ (~b => Lacks("over"))
    BY <1>2, <1>11 DEF Heard
  <2>2. /\ ~b => Ovl!Opens(Ovl!Only("under"))
        /\ b /\ Ovl!IsKey("over") => Ovl!Hears(Ovl!Sub("over"))
        /\ b /\ ~Ovl!IsKey("over") => Ovl!Opens(Ovl!Only("over"))
    <3>1. ~Ovl!Asked("OpenKey", 1) /\ ~Ovl!Asked("OpenKey", 2) /\ ~Ovl!Asked("OpenKey", 4)
      BY <1>2, <1>11, AskedIs
    <3>2. seen[2] = b
      BY <2>1
    <3> QED
      BY <3>1, <3>2 DEF Ovl!OpenKey
  <2>3. CASE ~b
    <3>1. AnswersSo("OpenKey", Ovl!Only("under"))
      BY <1>3, <1>4, <1>5, <1>9, <2>1, <2>3 DEF AnswersSo, Lacks
    <3> QED
      BY <1>2, <2>2, <2>3, <3>1, OpensEnd
  <2>4. CASE b /\ Ovl!IsKey("over")
    <3>1. seen' = <<TRUE, TRUE, Ovl!Sub("over")>>
      <4>1. seen = <<TRUE, TRUE>>
        BY <2>1, <2>4
      <4>2. seen' = Append(seen, Ovl!Sub("over"))
        BY <1>7, <2>2, <2>4
      <4> QED
        BY <4>1, <4>2, Appended
    <3>2. Ovl!Sub("over") \in In("over") \ {None}
      BY <1>3, <1>5, <2>4
    <3>3. Heard'
      BY <1>7, <1>11, <2>1, <2>2, <2>4, <3>1, <3>2 DEF Heard
    <3>4. n \in 1..3
      BY <1>11
    <3> QED
      BY <1>6, <2>2, <2>4, <3>3, <3>4
  <2>5. CASE b /\ ~Ovl!IsKey("over")
    <3>1. Lacks("over") /\ Cardinality(moments) > 1
      BY <1>2, <1>4, <1>5, <2>1, <2>5, TwoMoments
    <3>2. \A l \in Ovl!Layers : Ovl!Only("over")[l] = None
      BY <1>3, <1>5, <1>9, <2>5
    <3>3. AnswersSo("OpenKey", Ovl!Only("over"))
      BY <3>1, <3>2 DEF AnswersSo
    <3> QED
      BY <1>2, <2>2, <2>5, <3>3, OpensEnd
  <2> QED
    BY <2>3, <2>4, <2>5
<1>12. CASE n = 4
  <2>1. PICK k \in In("over") \ {None} : seen = <<TRUE, TRUE, k>> /\ Has("under")
    BY <1>2, <1>12 DEF Heard
  <2> DEFINE both == [l \in Ovl!Layers |-> IF l = "over" THEN k ELSE Ovl!Sub("under")]
  <2>2. /\ Ovl!IsKey("under") => Ovl!Opens(both)
        /\ ~Ovl!IsKey("under") => Ovl!Opens(Ovl!Only("under"))
    <3>1. ~Ovl!Asked("OpenKey", 1) /\ ~Ovl!Asked("OpenKey", 2) /\ ~Ovl!Asked("OpenKey", 3)
      BY <1>2, <1>12, AskedIs
    <3>2. seen[3] = k
      BY <2>1
    <3> QED
      BY <3>1, <3>2 DEF Ovl!OpenKey
  <2>3. CASE Ovl!IsKey("under")
    <3>1. both["over"] = k /\ both["under"] = Ovl!Sub("under")
      BY <1>5
    <3>2. AnswersSo("OpenKey", both)
      <4> HIDE DEF both
      <4> QED
        BY <1>3, <1>5, <2>1, <3>1 DEF AnswersSo
    <3> QED
      BY <1>2, <2>2, <2>3, <3>2, OpensEnd
  <2>4. CASE ~Ovl!IsKey("under")
    <3>1. Lacks("under") /\ Cardinality(moments) > 1
      BY <1>2, <1>4, <1>5, <2>1, <2>4, TwoMoments
    <3>2. \A l \in Ovl!Layers : Ovl!Only("under")[l] = None
      BY <1>3, <1>5, <1>9, <2>4
    <3>3. AnswersSo("OpenKey", Ovl!Only("under"))
      BY <3>1, <3>2 DEF AnswersSo
    <3> QED
      BY <1>2, <2>2, <2>4, <3>3, OpensEnd
  <2> QED
    BY <2>3, <2>4
<1> QED
  BY <1>8, <1>10, <1>11, <1>12

\* EnumSubKeys and EnumValues: what either lists is listed, and one that is gone fails.
LEMMA EnumSo ==
    ASSUME OverlayInv, Ovl!Enum
    PROVE  OverlayInv'
<1>1. PICK ask \in {"EnumSubKeys", "EnumValues"} :
          LET Lists(l) == IF ask = "EnumSubKeys" THEN Ovl!EnumSubKeys(l) ELSE Ovl!EnumValues(l) IN
          \/ /\ Ovl!Asked(ask, 1)
             /\ IF Ovl!There("over") THEN Ovl!Hears(Lists("over")) ELSE Ovl!Answers(None)
          \/ /\ Ovl!Asked(ask, 2)
             /\ IF Ovl!There("under") THEN Ovl!Answers(seen[1] \cup Lists("under")) ELSE Ovl!Answers(None)
  BY DEF Ovl!Enum
<1> DEFINE Lists(l) == IF ask = "EnumSubKeys" THEN Ovl!EnumSubKeys(l) ELSE Ovl!EnumValues(l)
           one == IF ask = "EnumSubKeys" THEN "subkey" ELSE "value"
<1>2. Asking /\ Heard /\ asked.asks = ask
  <2>1. Ovl!Asked(ask, 1) \/ Ovl!Asked(ask, 2)
    BY <1>1
  <2>2. ask \in Ovl!Asks
    BY DEF Ovl!Asks
  <2> QED
    BY <2>1, <2>2, InAQuestion, AskedIs
<1>3. \A l \in Ovl!Layers : Lists(l) \in {{}, {one}} /\ (Lists(l) = {} => Lacks(l)) /\ (Lists(l) # {} => Has(l))
  <2>1. CASE ask = "EnumSubKeys"
    BY <1>2, <2>1, NowIsAMoment DEF Has, Lacks, Ovl!IsKey, Ovl!EnumSubKeys
  <2>2. CASE ask = "EnumValues"
    BY <1>2, <2>2, NowIsAMoment DEF Has, Lacks, Ovl!IsValue, Ovl!EnumValues
  <2> QED
    BY <2>1, <2>2
<1>4. "over" \in Ovl!Layers /\ "under" \in Ovl!Layers
  BY DEF Ovl!Layers
<1>5. \A l \in Ovl!Layers : ~Ovl!There(l) => Lacks(l)
  BY <1>2, NowIsAMoment DEF Lacks
<1>6. ASSUME NEW x, Ovl!Answers(x), AnswersSo(ask, x) PROVE OverlayInv'
  BY <1>2, <1>6, SoIsWhatItSays DEF Ovl!Answers, OverlayInv
<1>7. ASSUME Ovl!Answers(None), Lacks("over") \/ Lacks("under") PROVE OverlayInv'
  <2>1. AnswersSo(ask, None)
    BY <1>7 DEF AnswersSo
  <2> QED
    BY <1>6, <1>7, <2>1
<1>8. CASE Ovl!Asked(ask, 1)
  <2>1. ~Ovl!Asked(ask, 2)
    BY <1>8, AskedIs
  <2>2. CASE ~Ovl!There("over")
    <3>1. Ovl!Answers(None) /\ Lacks("over")
      BY <1>1, <1>4, <1>5, <2>1, <2>2
    <3> QED
      BY <1>7, <3>1
  <2>3. CASE Ovl!There("over")
    <3>1. Ovl!Hears(Lists("over"))
      BY <1>1, <2>1, <2>3
    <3>2. PICK S \in {{}, {one}} : S = Lists("over") /\ IF S = {} THEN Lacks("over") ELSE Has("over")
      BY <1>3, <1>4
    <3>3. Ovl!Hears(S)
      BY <3>1, <3>2
    <3> HIDE DEF Lists
    <3>4. /\ asked'.asks = ask /\ asked'.step = 2 /\ seen' = <<S>>
          /\ (Has("over")' <=> Has("over")) /\ (Lacks("over")' <=> Lacks("over"))
      <4>1. seen = <<>>
        BY <1>2, <1>8, AskedIs DEF Heard
      <4>2. asked'.step = 2
        BY <1>8, <3>3 DEF Ovl!Asked, Ovl!Hears
      <4> QED
        BY <1>2, <3>3, <4>1, <4>2, WhatIsHeard
    <3>5. Heard'
      BY <3>2, <3>4 DEF Heard
    <3>6. 1 \in 1..3
      OBVIOUS
    <3> QED
      BY <1>8, <3>3, <3>5, <3>6, HearsMore
  <2> QED
    BY <2>2, <2>3
<1>9. CASE Ovl!Asked(ask, 2)
  <2>1. ~Ovl!Asked(ask, 1)
    BY <1>9, AskedIs
  <2>2. CASE ~Ovl!There("under")
    <3>1. Ovl!Answers(None) /\ Lacks("under")
      BY <1>1, <1>4, <1>5, <2>1, <2>2
    <3> QED
      BY <1>7, <3>1
  <2>3. CASE Ovl!There("under")
    <3>1. Ovl!Answers(seen[1] \cup Lists("under"))
      BY <1>1, <2>1, <2>3
    <3>2. PICK S \in {{}, {one}} : seen = <<S>> /\ IF S = {} THEN Lacks("over") ELSE Has("over")
      BY <1>2, <1>9, AskedIs DEF Heard
    <3>3. PICK T \in {{}, {one}} : T = Lists("under") /\ IF T = {} THEN Lacks("under") ELSE Has("under")
      BY <1>3, <1>4
    <3>4. Ovl!Answers(S \cup T)
      BY <3>1, <3>2, <3>3
    <3>5. (S \cup T = {} <=> S = {} /\ T = {}) /\ S \cup T # None
      BY ActivationAssumption
    <3>6. AnswersSo(ask, S \cup T)
      BY <3>2, <3>3, <3>5 DEF AnswersSo
    <3> QED
      BY <1>6, <3>4, <3>6
  <2> QED
    BY <2>2, <2>3
<1> QED
  BY <1>1, <1>8, <1>9

-----------------------------------------------------------------------------
\* The overlay's invariant; in a behaviour of another part nothing is asked.
LEMMA NothingAsked == Ovl!Init => OverlayInv
<1> SUFFICES ASSUME Ovl!Init PROVE OverlayInv
  OBVIOUS
<1>1. value \in Settable
  <2>1. value \in [Ovl!Layers -> [Ovl!Places -> Ovl!Values]]
    BY DEF Ovl!Init
  <2>2. Ovl!Values \subseteq {n1, n2, None}
    BY DEF Ovl!Values, Ovl!Layers
  <2> QED
    BY <2>1, <2>2 DEF Settable
<1> QED
  BY <1>1, FS_EmptySet DEF Ovl!Init, Ovl!NoKey, OverlayInv, Ovl!AnswersWereSo

LEMMA OverlayKeeps ==
    /\ part = "overlay" => OverlayInv
    /\ [ActivationNext]_<<part, vars, loadVars, ovlVars, tblVars>>
    => (part = "overlay" => OverlayInv)'
<1> SUFFICES ASSUME part = "overlay" => OverlayInv, [ActivationNext]_<<part, vars, loadVars, ovlVars, tblVars>>,
                    part' = "overlay"
             PROVE  OverlayInv'
  OBVIOUS
<1>1. part = "overlay"
  BY DEF ActivationNext
<1>2. CASE UNCHANGED ovlVars
  <2>1. UNCHANGED <<ids, value, last, key, asked, seen, moments, answer>> /\ OverlayInv
    BY <1>1, <1>2 DEF ovlVars
  <2>2. Ovl!AnswersWereSo'
    <3>1. Ovl!AnswersWereSo
      BY <2>1 DEF OverlayInv
    <3> DEFINE D(l) == {IF answer[1].place = "root" \/ m.ids[l][answer[1].place] = answer[1].ids[l]
                        THEN IF answer[2] \in {"IsKey", "EnumSubKeys", "OpenKey"}
                             THEN m.ids[l][IF answer[1].place = "root" THEN "key" ELSE "subkey"]
                             ELSE m.value[l][answer[1].place]
                        ELSE None : m \in moments}
               K == {l \in Ovl!Layers : None \in D(l)}
               H == {l \in Ovl!Layers : D(l) # {None}}
    <3>2. answer' = answer /\ moments' = moments
      BY <2>1
    <3>3. \A l : D(l)' = D(l)
      BY <3>2
    <3>4. K' = K /\ H' = H
      BY <3>3
    <3> QED
      BY <3>1, <3>2, <3>3, <3>4 DEF Ovl!AnswersWereSo, Ovl!During
  <2>3. (Asking => Asking') /\ (Heard => Heard')
    BY <2>1, MoreMoments DEF Asking, Ovl!Now
  <2> QED
    BY <2>1, <2>2, <2>3 DEF OverlayInv
<1>3. CASE Ovl!Next
  <2>1. CASE \E l \in Ovl!Layers, p \in Ovl!Places :
                 \/ Ovl!CreateKey(l, p) \/ Ovl!DeleteKey(l, p) \/ \E v \in {n1, n2, None} : Ovl!SetValue(l, p, v)
    BY <1>1, <2>1, ChangesAreMoments
  <2>2. CASE (\E what \in Ovl!Asks : Ovl!Ask(what)) \/ Ovl!Close
    BY <1>1, <2>2, QuestionsBegin
  <2>3. CASE Ovl!IsEither \/ Ovl!GetValue \/ Ovl!OpenKey \/ Ovl!Enum
    BY <1>1, <2>3, EitherSo, ValueSo, OpenSo, EnumSo
  <2>4. \A l \in Ovl!Layers : [k \in {"over", "under"} |-> IF k = "over" THEN n1 ELSE n2][l] \in {n1, n2}
    BY DEF Ovl!Layers
  <2> QED
    BY <1>3, <2>1, <2>2, <2>3, <2>4 DEF Ovl!Next
<1> QED
  BY <1>1, <1>2, <1>3 DEF ActivationNext

\* AnswersWereSo, for overlays: however the layers change while they are asked, what
\* an overlay answers was so in each layer at some moment of the question.
THEOREM OverlaysAnswerSo == ActivationSpec => [](part # "tables" => AnswersWereSo)
<1>1. ActivationInit => (part = "overlay" => OverlayInv)
  BY NothingAsked DEF ActivationInit
<1>2. (part = "overlay" => OverlayInv) => (part # "tables" => AnswersWereSo)
  BY DEF OverlayInv, AnswersWereSo
<1> QED
  BY <1>1, <1>2, OverlayKeeps, PTL DEF ActivationSpec
=============================================================================
