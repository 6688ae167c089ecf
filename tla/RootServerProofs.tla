---------------------------- MODULE RootServerProofs ----------------------------
(***************************************************************************)
(* The root's parts beside routing, for any values of the constants: a     *)
(* login has one process, a service is listed as it runs, the registry's   *)
(* hives are trees. Proofs about UserProcesses, ServiceControl and         *)
(* Registry, as MCRootServer puts them side by side.                       *)
(***************************************************************************)
EXTENDS MCRootServer, SequenceTheorems, WellFoundedInduction, TLAPS

-----------------------------------------------------------------------------
\* The processes of the users

\* Numbers above the last are of processes not started yet, which nothing names.
NotYet ==
    \A p \in Procs : p > last =>
        /\ ~procs[p].alive /\ p \notin m_mapUserProcesses
        /\ \A c \in Clients : at[c].proc # p /\ p \notin at[c].dead

\* Who is in the table was started for a client.
TableIsOfClients == \A p \in m_mapUserProcesses : procs[p].for \in Clients

\* A thread that sets a process up started it for its client, so no other
\* thread is at the same one, and it is not in the table yet.
Settling(c) == at[c].pc \in {"bootstrap", "insert"}
SetUpByOne ==
    \A c \in Clients : Settling(c) =>
        /\ at[c].proc \in Procs \ m_mapUserProcesses
        /\ procs[at[c].proc].for = c

\* What a thread found dead stays dead.
DeadStayDead == \A c \in Clients : \A p \in at[c].dead : ~procs[p].alive

IInv ==
    /\ TypeOK /\ NotYet /\ TableIsOfClients /\ SetUpByOne /\ DeadStayDead
    /\ OneProcessPerLogin /\ NoneStrays

LEMMA Initially == Init => IInv
<1> SUFFICES ASSUME Init PROVE IInv
  OBVIOUS
<1>1. None \notin Procs
  BY ProcessesAssumption DEF Procs
<1>2. TypeOK
  <2>1. last \in 0..MaxProcs
    BY ProcessesAssumption DEF Init
  <2> QED
    BY <2>1 DEF Init, TypeOK, Proc, Thread
<1>3. NotYet /\ DeadStayDead /\ NoneStrays
  BY <1>1 DEF Init, NotYet, DeadStayDead, NoneStrays
<1>4. TableIsOfClients /\ SetUpByOne /\ OneProcessPerLogin
  BY DEF Init, TableIsOfClients, SetUpByOne, Settling, OneProcessPerLogin
<1> QED
  BY <1>2, <1>3, <1>4 DEF IInv

-----------------------------------------------------------------------------
\* Steps of one thread

\* A thread that was setting nothing up, and is not after the step, changes
\* nothing that the invariant says of processes.
LEMMA ThreadOnly ==
    ASSUME IInv, NEW c \in Clients, NEW t \in Thread, ~Settling(c),
           at' = [at EXCEPT ![c] = t],
           t.pc \notin {"bootstrap", "insert"},
           t.dead = at[c].dead \/ \A p \in t.dead : p \in m_mapUserProcesses /\ ~procs[p].alive,
           t.proc \in {at[c].proc, None} \cup m_mapUserProcesses,
           files' \in [Uids -> {"absent", "copying", "whole"}],
           UNCHANGED <<m_mapUserProcesses, procs, last>>
    PROVE  IInv'
<1>1. /\ at' \in [Clients -> Thread] /\ at'[c] = t
      /\ \A d \in Clients : d # c => at'[d] = at[d]
  BY DEF IInv, TypeOK
<1>2. TypeOK'
  BY <1>1 DEF IInv, TypeOK
<1>3. NotYet'
  <2> SUFFICES ASSUME NEW p \in Procs, p > last, NEW d \in Clients
               PROVE  ~procs[p].alive /\ p \notin m_mapUserProcesses
                      /\ at'[d].proc # p /\ p \notin at'[d].dead
    BY DEF NotYet
  <2>1. ~procs[p].alive /\ p \notin m_mapUserProcesses /\ at[d].proc # p /\ p \notin at[d].dead
    BY DEF IInv, NotYet
  <2>2. p # None
    BY ProcessesAssumption DEF Procs
  <2> QED
    BY <1>1, <2>1, <2>2
<1>4. DeadStayDead'
  BY <1>1 DEF IInv, DeadStayDead
<1>5. SetUpByOne'
  BY <1>1 DEF IInv, SetUpByOne, Settling
<1>6. NoneStrays'
  BY <1>1 DEF IInv, NoneStrays, Settling
<1>7. TableIsOfClients' /\ OneProcessPerLogin'
  BY DEF IInv, TableIsOfClients, OneProcessPerLogin, Login
<1> QED
  BY <1>2, <1>3, <1>4, <1>5, <1>6, <1>7 DEF IInv

LEMMA ScansPreserves == ASSUME IInv, NEW c \in Clients, Scans(c) PROVE IInv'
<1> DEFINE dead == {p \in m_mapUserProcesses : ~IsRunning(p)}
           pcOf(pc) == IF dead = {} THEN pc ELSE "sweep"
           next(pc, hive, p) == [pc |-> pcOf(pc), dead |-> dead, hive |-> hive, proc |-> p]
<1>1. /\ at[c].pc = "start" /\ UNCHANGED <<m_mapUserProcesses, procs, files, last>>
      /\ \/ \E p \in m_mapUserProcesses : at' = [at EXCEPT ![c] = next("answered", None, p)]
         \/ at' = [at EXCEPT ![c] = next("hive", None, None)]
         \/ \E p \in m_mapUserProcesses : at' = [at EXCEPT ![c] = next("spawn", procs[p].hive, None)]
  BY DEF Scans
<1>2. PICK pc \in {"answered", "hive", "spawn"}, hive \in Clients \cup {None},
           p \in m_mapUserProcesses \cup {None} : at' = [at EXCEPT ![c] = next(pc, hive, p)]
  <2>1. \A p \in m_mapUserProcesses : procs[p].hive \in Clients \cup {None}
    BY DEF IInv, TypeOK, Proc
  <2> QED
    BY <1>1, <2>1
<1>3. next(pc, hive, p) \in Thread
  <2>1. dead \in SUBSET Procs /\ p \in Procs \cup {None}
    BY DEF IInv, TypeOK
  <2>2. pcOf(pc) \in {"answered", "hive", "spawn", "sweep"}
    OBVIOUS
  <2> HIDE DEF dead, pcOf
  <2> QED
    BY <2>1, <2>2 DEF Thread
<1>4. next(pc, hive, p).pc \notin {"bootstrap", "insert"}
  OBVIOUS
<1>5. \A q \in next(pc, hive, p).dead : q \in m_mapUserProcesses /\ ~procs[q].alive
  BY DEF IsRunning
<1>6. next(pc, hive, p).proc \in {at[c].proc, None} \cup m_mapUserProcesses
  OBVIOUS
<1>7. ~Settling(c) /\ files' \in [Uids -> {"absent", "copying", "whole"}]
  BY <1>1 DEF Settling, IInv, TypeOK
<1> HIDE DEF next
<1> QED
  BY <1>1, <1>2, <1>3, <1>4, <1>5, <1>6, <1>7, ThreadOnly

\* A step in get_registry_hive, or one that refuses the client.
LEMMA MovesPreserves ==
    ASSUME IInv, NEW c \in Clients, ~Settling(c),
           NEW pc \in {"start", "hive", "copy", "spawn", "answered", "refused"},
           NEW hive \in {at[c].hive, c},
           at' = [at EXCEPT ![c].pc = pc, ![c].hive = hive],
           files' \in [Uids -> {"absent", "copying", "whole"}],
           UNCHANGED <<m_mapUserProcesses, procs, last>>
    PROVE  IInv'
<1> DEFINE t == [at[c] EXCEPT !.pc = pc, !.hive = hive]
<1>1. at[c] \in Thread /\ at' = [at EXCEPT ![c] = t]
  BY DEF IInv, TypeOK
<1>2. t \in Thread /\ t.pc = pc /\ t.dead = at[c].dead /\ t.proc = at[c].proc
  BY <1>1 DEF Thread
<1> HIDE DEF t
<1> QED
  BY <1>1, <1>2, ThreadOnly

LEMMA GoesMoves ==
    ASSUME TypeOK, NEW c \in Clients, NEW pc, Goes(c, pc)
    PROVE  at' = [at EXCEPT ![c].pc = pc, ![c].hive = at[c].hive]
<1>1. at[c] \in Thread /\ at' = [at EXCEPT ![c] = [at[c] EXCEPT !.pc = pc]]
  BY DEF TypeOK, Goes
<1>2. [at[c] EXCEPT !.pc = pc] = [at[c] EXCEPT !.pc = pc, !.hive = at[c].hive]
  BY <1>1 DEF Thread
<1> QED
  BY <1>1, <1>2 DEF TypeOK

LEMMA FindsHivePreserves == ASSUME IInv, NEW c \in Clients, FindsHive(c) PROVE IInv'
<1> DEFINE uid == LoginOf[c].uid
<1>1. /\ uid \in Uids /\ TypeOK /\ ~Settling(c)
      /\ UNCHANGED <<m_mapUserProcesses, procs, last>>
      /\ files \in [Uids -> {"absent", "copying", "whole"}]
  BY DEF IInv, TypeOK, FindsHive, Uids, Settling
<1>2. CASE Goes(c, "copy") /\ files' = [files EXCEPT ![uid] = "copying"]
  BY <1>1, <1>2, GoesMoves, MovesPreserves
<1>3. CASE Goes(c, "refused") /\ UNCHANGED files
  BY <1>1, <1>3, GoesMoves, MovesPreserves
<1>4. CASE at' = [at EXCEPT ![c].pc = "spawn", ![c].hive = c] /\ UNCHANGED files
  BY <1>1, <1>4, MovesPreserves
<1>5. files[uid] \in {"absent", "copying", "whole"}
  BY <1>1
<1> QED
  BY <1>2, <1>3, <1>4, <1>5 DEF FindsHive

LEMMA CopiesPreserves == ASSUME IInv, NEW c \in Clients, Copies(c) PROVE IInv'
<1> DEFINE uid == LoginOf[c].uid
<1>1. /\ uid \in Uids /\ TypeOK /\ ~Settling(c)
      /\ UNCHANGED <<m_mapUserProcesses, procs, last>>
      /\ files \in [Uids -> {"absent", "copying", "whole"}]
  BY DEF IInv, TypeOK, Copies, Uids, Settling
<1>2. CASE /\ files' = [files EXCEPT ![uid] = "whole"]
           /\ at' = [at EXCEPT ![c].pc = "spawn", ![c].hive = c]
  BY <1>1, <1>2, MovesPreserves
<1>3. CASE files' = [files EXCEPT ![uid] = "absent"] /\ Goes(c, "refused")
  BY <1>1, <1>3, GoesMoves, MovesPreserves
<1> QED
  BY <1>2, <1>3 DEF Copies

LEMMA ComesAgainPreserves == ASSUME IInv, NEW c \in Clients, ComesAgain(c) PROVE IInv'
<1> DEFINE t == [pc |-> "start", dead |-> {}, hive |-> None, proc |-> None]
<1>1. t \in Thread /\ ~Settling(c) /\ files' \in [Uids -> {"absent", "copying", "whole"}]
  BY DEF Thread, ComesAgain, Settling, IInv, TypeOK
<1>2. t.pc = "start" /\ t.dead = {} /\ t.proc = None
  OBVIOUS
<1>3. at' = [at EXCEPT ![c] = t] /\ UNCHANGED <<m_mapUserProcesses, procs, last>>
  BY DEF ComesAgain
<1> HIDE DEF t
<1> QED
  BY <1>1, <1>2, <1>3, ThreadOnly

-----------------------------------------------------------------------------
\* Steps that change the table or a process

\* The dead leave: every thread's process stays out of the table.
LEMMA SweepsPreserves == ASSUME IInv, NEW c \in Clients, Sweeps(c) PROVE IInv'
<1> DEFINE pc == IF at[c].proc # None THEN "answered" ELSE IF at[c].hive # None THEN "spawn" ELSE "hive"
<1>1. /\ at[c].pc = "sweep" /\ at' = [at EXCEPT ![c].pc = pc]
      /\ m_mapUserProcesses' = m_mapUserProcesses \ at[c].dead
      /\ UNCHANGED <<procs, files, last>>
  BY DEF Sweeps, Goes
<1>2. pc \in {"answered", "spawn", "hive"}
  OBVIOUS
<1> HIDE DEF pc
<1>3. /\ at' \in [Clients -> Thread]
      /\ \A d \in Clients : at'[d].proc = at[d].proc /\ at'[d].dead = at[d].dead
      /\ \A d \in Clients : d # c => at'[d] = at[d]
      /\ at'[c].pc = pc
  BY <1>1, <1>2 DEF IInv, TypeOK, Thread
<1>4. TypeOK'
  BY <1>1, <1>3 DEF IInv, TypeOK
<1>5. NotYet' /\ DeadStayDead'
  BY <1>1, <1>3 DEF IInv, NotYet, DeadStayDead
<1>6. SetUpByOne' /\ TableIsOfClients' /\ OneProcessPerLogin'
  BY <1>1, <1>2, <1>3 DEF IInv, SetUpByOne, Settling, TableIsOfClients, OneProcessPerLogin, Login
<1>7. NoneStrays'
  BY <1>1, <1>2, <1>3 DEF IInv, NoneStrays, DeadStayDead
<1> QED
  BY <1>4, <1>5, <1>6, <1>7 DEF IInv

\* A process of a number not used before, which its thread sets up.
LEMMA SpawnsPreserves == ASSUME IInv, NEW c \in Clients, Spawns(c) PROVE IInv'
<1>1. at[c].pc = "spawn" /\ UNCHANGED <<m_mapUserProcesses, files>>
  BY DEF Spawns
<1>2. CASE Goes(c, "refused") /\ UNCHANGED <<procs, last>>
  <2>1. ~Settling(c) /\ files' \in [Uids -> {"absent", "copying", "whole"}]
    BY <1>1 DEF Settling, IInv, TypeOK
  <2> QED
    BY <1>1, <1>2, <2>1, GoesMoves, MovesPreserves DEF IInv
<1>3. CASE /\ last < MaxProcs /\ last' = last + 1
           /\ procs' = Started(c)
           /\ at' = [at EXCEPT ![c].pc = "bootstrap", ![c].proc = last + 1]
  <2> DEFINE new == last + 1
  <2>1. /\ new \in Procs /\ new > last /\ new \in 0..MaxProcs
        /\ \A p \in Procs : p > new => p > last /\ p # new
    BY <1>3, ProcessesAssumption DEF IInv, TypeOK, Procs
  <2>2. last' = new
    BY <1>3
  <2> HIDE DEF new
  <2>3. ~procs[new].alive /\ new \notin m_mapUserProcesses
    BY <2>1 DEF IInv, NotYet
  <2>4. \A d \in Clients : at[d].proc # new /\ new \notin at[d].dead
    BY <2>1 DEF IInv, NotYet
  <2>5. /\ at' \in [Clients -> Thread]
        /\ at'[c].pc = "bootstrap" /\ at'[c].proc = new /\ at'[c].dead = at[c].dead
        /\ \A d \in Clients : d # c => at'[d] = at[d]
    <3>1. at' = [at EXCEPT ![c].pc = "bootstrap", ![c].proc = new]
      BY <1>3 DEF new
    <3> QED
      BY <2>1, <3>1 DEF IInv, TypeOK, Thread
  <2>6. /\ procs' \in [Procs -> Proc] /\ procs'[new].for = c /\ procs'[new].alive
        /\ \A p \in Procs : p # new => procs'[p] = procs[p]
    <3>1. procs' = [procs EXCEPT ![new] =
                      [for |-> c, alive |-> TRUE, hive |-> at[c].hive, channel |-> "none"]]
      BY <1>3 DEF new, Started
    <3>2. [for |-> c, alive |-> TRUE, hive |-> at[c].hive, channel |-> "none"] \in Proc
      BY DEF IInv, TypeOK, Proc, Thread
    <3> QED
      BY <2>1, <3>1, <3>2 DEF IInv, TypeOK
  <2>7. TypeOK'
    BY <1>1, <2>1, <2>2, <2>5, <2>6 DEF IInv, TypeOK
  <2>8. NotYet'
    <3> SUFFICES ASSUME NEW p \in Procs, p > new, NEW d \in Clients
                 PROVE  ~procs'[p].alive /\ p \notin m_mapUserProcesses
                        /\ at'[d].proc # p /\ p \notin at'[d].dead
      BY <1>1, <2>2 DEF NotYet
    <3>1. p > last /\ p # new
      BY <2>1
    <3>2. ~procs[p].alive /\ p \notin m_mapUserProcesses /\ at[d].proc # p /\ p \notin at[d].dead
      BY <3>1 DEF IInv, NotYet
    <3> QED
      BY <2>5, <2>6, <3>1, <3>2
  <2>9. \A p \in m_mapUserProcesses : procs'[p] = procs[p]
    BY <2>3, <2>6 DEF IInv, TypeOK
  <2>10. TableIsOfClients' /\ OneProcessPerLogin'
    BY <1>1, <2>9 DEF IInv, TableIsOfClients, OneProcessPerLogin, Login
  <2>11. SetUpByOne'
    <3> SUFFICES ASSUME NEW d \in Clients, Settling(d)'
                 PROVE  /\ at'[d].proc \in Procs \ m_mapUserProcesses
                        /\ procs'[at'[d].proc].for = d
      BY <1>1 DEF SetUpByOne
    <3>1. CASE d = c
      BY <2>1, <2>3, <2>5, <2>6, <3>1
    <3>2. CASE d # c
      BY <2>4, <2>5, <2>6, <3>2 DEF IInv, SetUpByOne, Settling
    <3> QED
      BY <3>1, <3>2
  <2>12. DeadStayDead'
    BY <2>4, <2>5, <2>6 DEF IInv, DeadStayDead, TypeOK, Thread
  <2>13. NoneStrays'
    <3> SUFFICES ASSUME NEW p \in Procs, procs'[p].alive, p \notin m_mapUserProcesses
                 PROVE  \E d \in Clients : at'[d].proc = p /\ at'[d].pc \in {"bootstrap", "insert"}
      BY <1>1 DEF NoneStrays
    <3>1. CASE p = new
      BY <2>5, <3>1
    <3>2. CASE p # new
      BY <1>1, <2>5, <2>6, <3>2 DEF IInv, NoneStrays
    <3> QED
      BY <3>1, <3>2
  <2> QED
    BY <2>7, <2>8, <2>10, <2>11, <2>12, <2>13 DEF IInv
<1> QED
  BY <1>2, <1>3 DEF Spawns

\* A process of the table, or one that is being set up, with all but its
\* client changed at will, as long as it does not come to life.
LEMMA ProcessChanges ==
    ASSUME IInv, NEW p \in Procs, NEW r \in Proc, r.for = procs[p].for,
           r.alive => procs[p].alive,
           procs' = [procs EXCEPT ![p] = r]
    PROVE  /\ procs' \in [Procs -> Proc]
           /\ \A q \in Procs : procs'[q].for = procs[q].for /\ (procs'[q].alive => procs[q].alive)
           /\ procs'[p] = r
  BY DEF IInv, TypeOK

LEMMA BootstrapsPreserves == ASSUME IInv, NEW c \in Clients, Bootstraps(c) PROVE IInv'
<1> DEFINE p == at[c].proc
           r == [procs[p] EXCEPT !.channel = "registered"]
<1>1. /\ at[c].pc = "bootstrap" /\ UNCHANGED <<m_mapUserProcesses, files, last>>
      /\ \/ procs[p].alive /\ procs' = [procs EXCEPT ![p] = r] /\ Goes(c, "insert")
         \/ ~procs[p].alive /\ Goes(c, "refused") /\ UNCHANGED procs
  BY DEF Bootstraps
<1>2. p \in Procs
  BY <1>1 DEF IInv, SetUpByOne, Settling
<1>3. r \in Proc /\ r.for = procs[p].for /\ r.alive = procs[p].alive
  BY <1>2 DEF IInv, TypeOK, Proc
<1>4. /\ procs' \in [Procs -> Proc]
      /\ \A q \in Procs : procs'[q].for = procs[q].for /\ (procs'[q].alive => procs[q].alive)
  <2> HIDE DEF r
  <2> QED
    BY <1>1, <1>2, <1>3, ProcessChanges DEF IInv, TypeOK
<1>5. PICK pc \in {"insert", "refused"} : Goes(c, pc) /\ (pc = "refused" => ~procs'[p].alive)
  BY <1>1
<1>6. /\ at' \in [Clients -> Thread] /\ at'[c].pc = pc
      /\ \A d \in Clients : at'[d].proc = at[d].proc /\ at'[d].dead = at[d].dead
      /\ \A d \in Clients : d # c => at'[d] = at[d]
  BY <1>5 DEF IInv, TypeOK, Goes, Thread
<1> HIDE DEF p
<1>7. TypeOK'
  BY <1>1, <1>4, <1>6 DEF IInv, TypeOK
<1>8. NotYet' /\ DeadStayDead'
  <2>1. \A d \in Clients : at[d].dead \subseteq Procs
    BY DEF IInv, TypeOK, Thread
  <2> QED
    BY <1>1, <1>4, <1>6, <2>1 DEF IInv, NotYet, DeadStayDead
<1>9. TableIsOfClients' /\ OneProcessPerLogin'
  BY <1>1, <1>4 DEF IInv, TypeOK, TableIsOfClients, OneProcessPerLogin, Login
<1>10. SetUpByOne'
  BY <1>1, <1>4, <1>6 DEF IInv, SetUpByOne, Settling
<1>11. NoneStrays'
  BY <1>1, <1>4, <1>5, <1>6 DEF IInv, NoneStrays, p
<1> QED
  BY <1>7, <1>8, <1>9, <1>10, <1>11 DEF IInv

\* A duplicate is destroyed; a process that goes into the table is the first of
\* its login there.
LEMMA InsertsPreserves == ASSUME IInv, NEW c \in Clients, Inserts(c) PROVE IInv'
<1> DEFINE p == at[c].proc
           same == {q \in m_mapUserProcesses : IsSameLogin(q, c)}
<1>1. at[c].pc = "insert" /\ UNCHANGED <<files, last>>
  BY DEF Inserts
<1>2. p \in Procs \ m_mapUserProcesses /\ procs[p].for = c
  BY <1>1 DEF IInv, SetUpByOne, Settling
<1>3. \A d \in Clients : at[d].dead \subseteq Procs
  BY DEF IInv, TypeOK, Thread
<1>4. CASE /\ \E q \in same : at' = [at EXCEPT ![c].pc = "answered", ![c].proc = q]
           /\ procs' = Destroyed(p)
           /\ UNCHANGED m_mapUserProcesses
  <2> DEFINE r == [procs[p] EXCEPT !.alive = FALSE]
  <2>1. /\ procs[p] \in Proc
        /\ procs' = [procs EXCEPT ![p] = r]
    BY <1>2, <1>4 DEF IInv, TypeOK, Destroyed
  <2>2. r \in Proc /\ r.for = procs[p].for /\ r.alive = FALSE
    BY <2>1 DEF Proc
  <2> HIDE DEF r
  <2>3. /\ procs' \in [Procs -> Proc] /\ ~procs'[p].alive
        /\ \A q \in Procs : procs'[q].for = procs[q].for /\ (procs'[q].alive => procs[q].alive)
    BY <1>2, <2>1, <2>2, ProcessChanges
  <2>4. PICK q \in m_mapUserProcesses : at' = [at EXCEPT ![c].pc = "answered", ![c].proc = q]
    BY <1>4
  <2>5. /\ at' \in [Clients -> Thread] /\ at'[c].pc = "answered" /\ at'[c].proc = q
        /\ \A d \in Clients : d # c => at'[d] = at[d]
        /\ \A d \in Clients : at'[d].dead = at[d].dead
    BY <2>4 DEF IInv, TypeOK, Thread
  <2> HIDE DEF p
  <2>6. TypeOK'
    BY <1>1, <1>4, <2>3, <2>5 DEF IInv, TypeOK
  <2>7. NotYet' /\ DeadStayDead'
    <3>1. \A x \in Procs : x > last => x # q
      BY <2>4 DEF IInv, NotYet
    <3> QED
      BY <1>1, <1>3, <1>4, <2>3, <2>5, <3>1 DEF IInv, NotYet, DeadStayDead
  <2>8. TableIsOfClients' /\ OneProcessPerLogin'
    BY <1>4, <2>3 DEF IInv, TypeOK, TableIsOfClients, OneProcessPerLogin, Login
  <2>9. SetUpByOne'
    BY <1>4, <2>3, <2>5 DEF IInv, SetUpByOne, Settling
  <2>10. NoneStrays'
    BY <1>4, <2>3, <2>5 DEF IInv, NoneStrays, p
  <2> QED
    BY <2>6, <2>7, <2>8, <2>9, <2>10 DEF IInv
<1>5. CASE /\ same = {}
           /\ m_mapUserProcesses' = m_mapUserProcesses \cup {p}
           /\ procs' = [procs EXCEPT ![p].channel = "open"]
           /\ Goes(c, "answered")
  <2> DEFINE r == [procs[p] EXCEPT !.channel = "open"]
  <2>1. /\ r \in Proc /\ r.for = procs[p].for /\ r.alive = procs[p].alive
        /\ procs' = [procs EXCEPT ![p] = r]
    BY <1>2, <1>5 DEF IInv, TypeOK, Proc
  <2> HIDE DEF r
  <2>2. /\ procs' \in [Procs -> Proc]
        /\ \A q \in Procs : procs'[q].for = procs[q].for /\ (procs'[q].alive => procs[q].alive)
    BY <1>2, <2>1, ProcessChanges
  <2>3. /\ at' \in [Clients -> Thread] /\ at'[c].pc = "answered" /\ at'[c].proc = p
        /\ \A d \in Clients : d # c => at'[d] = at[d]
        /\ \A d \in Clients : at'[d].proc = at[d].proc /\ at'[d].dead = at[d].dead
    BY <1>5 DEF IInv, TypeOK, Thread, Goes
  <2>4. \A q \in m_mapUserProcesses : Login(q) # LoginOf[c]
    BY <1>5 DEF IsSameLogin
  <2> HIDE DEF p, same
  <2>5. TypeOK'
    BY <1>1, <1>2, <1>5, <2>2, <2>3 DEF IInv, TypeOK
  <2>6. NotYet' /\ DeadStayDead'
    <3>1. \A x \in Procs : x > last => x # p
      BY DEF IInv, NotYet, p
    <3> QED
      BY <1>1, <1>3, <1>5, <2>2, <2>3, <3>1 DEF IInv, NotYet, DeadStayDead
  <2>7. TableIsOfClients'
    BY <1>2, <1>5, <2>2 DEF IInv, TypeOK, TableIsOfClients
  <2>8. OneProcessPerLogin'
    <3> SUFFICES ASSUME NEW x \in m_mapUserProcesses', NEW y \in m_mapUserProcesses',
                        Login(x)' = Login(y)'
                 PROVE  x = y
      BY DEF OneProcessPerLogin
    <3>1. Login(x)' = Login(x) /\ Login(y)' = Login(y) /\ Login(p) = LoginOf[c]
      BY <1>2, <1>5, <2>2 DEF Login, IInv, TypeOK
    <3> QED
      BY <1>5, <2>4, <3>1 DEF IInv, OneProcessPerLogin
  <2>9. SetUpByOne'
    BY <1>2, <1>5, <2>2, <2>3 DEF IInv, SetUpByOne, Settling
  <2>10. NoneStrays'
    BY <1>5, <2>2, <2>3 DEF IInv, NoneStrays, p
  <2> QED
    BY <2>5, <2>6, <2>7, <2>8, <2>9, <2>10 DEF IInv
<1> QED
  BY <1>4, <1>5 DEF Inserts

LEMMA DiesPreserves == ASSUME IInv, NEW p \in Procs, Dies(p) PROVE IInv'
<1> DEFINE r == [procs[p] EXCEPT !.alive = FALSE]
<1>1. /\ UNCHANGED <<m_mapUserProcesses, files, at, last>>
      /\ r \in Proc /\ r.for = procs[p].for /\ r.alive = FALSE /\ procs' = [procs EXCEPT ![p] = r]
  BY DEF Dies, Destroyed, IInv, TypeOK, Proc
<1> HIDE DEF r
<1>2. /\ procs' \in [Procs -> Proc]
      /\ \A q \in Procs : procs'[q].for = procs[q].for /\ (procs'[q].alive => procs[q].alive)
  BY <1>1, ProcessChanges
<1>3. TypeOK' /\ NotYet' /\ NoneStrays'
  BY <1>1, <1>2 DEF IInv, TypeOK, NotYet, NoneStrays
<1>4. DeadStayDead'
  BY <1>1, <1>2 DEF IInv, DeadStayDead, TypeOK, Thread
<1>5. TableIsOfClients' /\ OneProcessPerLogin' /\ SetUpByOne'
  BY <1>1, <1>2 DEF IInv, TypeOK, TableIsOfClients, OneProcessPerLogin, Login, SetUpByOne, Settling
<1> QED
  BY <1>3, <1>4, <1>5 DEF IInv

LEMMA ChannelClosedPreserves == ASSUME IInv, NEW p \in Procs, on_channel_closed(p) PROVE IInv'
<1> DEFINE r == [procs[p] EXCEPT !.channel = "closed"]
<1>1. /\ UNCHANGED <<files, at, last>> /\ ~procs[p].alive
      /\ m_mapUserProcesses' = m_mapUserProcesses \ {p}
      /\ r \in Proc /\ r.for = procs[p].for /\ r.alive = procs[p].alive
      /\ procs' = [procs EXCEPT ![p] = r]
  BY DEF on_channel_closed, IInv, TypeOK, Proc
<1> HIDE DEF r
<1>2. /\ procs' \in [Procs -> Proc]
      /\ \A q \in Procs : procs'[q].for = procs[q].for /\ (procs'[q].alive => procs[q].alive)
  BY <1>1, ProcessChanges
<1>3. TypeOK' /\ NotYet' /\ NoneStrays'
  BY <1>1, <1>2 DEF IInv, TypeOK, NotYet, NoneStrays
<1>4. DeadStayDead'
  BY <1>1, <1>2 DEF IInv, DeadStayDead, TypeOK, Thread
<1>5. TableIsOfClients' /\ OneProcessPerLogin' /\ SetUpByOne'
  BY <1>1, <1>2 DEF IInv, TypeOK, TableIsOfClients, OneProcessPerLogin, Login, SetUpByOne, Settling
<1> QED
  BY <1>3, <1>4, <1>5 DEF IInv

LEMMA Inductive == IInv /\ [Next]_vars => IInv'
<1> SUFFICES ASSUME IInv, [Next]_vars PROVE IInv'
  OBVIOUS
<1>1. ASSUME NEW c \in Clients,
             \/ Scans(c) \/ Sweeps(c) \/ FindsHive(c) \/ Copies(c) \/ Spawns(c)
             \/ Bootstraps(c) \/ Inserts(c) \/ ComesAgain(c)
      PROVE  IInv'
  BY <1>1, ScansPreserves, SweepsPreserves, FindsHivePreserves, CopiesPreserves,
     SpawnsPreserves, BootstrapsPreserves, InsertsPreserves, ComesAgainPreserves
<1>2. ASSUME NEW p \in Procs, Dies(p) \/ on_channel_closed(p) PROVE IInv'
  BY <1>2, DiesPreserves, ChannelClosedPreserves
<1>3. CASE UNCHANGED vars
  BY <1>3 DEF vars, IInv, TypeOK, NotYet, TableIsOfClients, SetUpByOne, Settling, DeadStayDead,
              OneProcessPerLogin, Login, NoneStrays
<1> QED
  BY <1>1, <1>2, <1>3 DEF Next

\* Every process that a thread is setting up, or that a login has in the table, is
\* accounted for once (IInv).
THEOREM InductiveInvariant == Spec => []IInv
  BY Initially, Inductive, PTL DEF Spec

\* The root's table, its processes and its threads keep their types.
THEOREM TypesHold == Spec => []TypeOK
<1>1. IInv => TypeOK
  BY DEF IInv
<1> QED
  BY <1>1, InductiveInvariant, PTL

\* Whoever connects when, and whatever dies meanwhile, the table never holds two
\* processes of a login, and every process that is alive is in the table or is
\* still being set up by one thread (RootManager.cpp 585-641).
THEOREM LoginsHaveOneProcess == Spec => []LoginHasOneProcess
<1>1. IInv => LoginHasOneProcess
  BY DEF IInv, LoginHasOneProcess
<1> QED
  BY <1>1, InductiveInvariant, PTL

\* A process is set up by one thread: what a thread destroys as a duplicate, no
\* other thread is about to put into the table (RootManager.cpp 604-626).
THEOREM OneThreadSetsUp ==
    Spec => [](\A c, d \in Clients :
                  Settling(c) /\ Settling(d) /\ at[c].proc = at[d].proc => c = d)
<1>1. IInv => \A c, d \in Clients :
                 Settling(c) /\ Settling(d) /\ at[c].proc = at[d].proc => c = d
  BY DEF IInv, SetUpByOne
<1> QED
  BY <1>1, InductiveInvariant, PTL

-----------------------------------------------------------------------------
\* A set of naturals with 0 and with every successor of its own has them all.
LEMMA Induction ==
    ASSUME NEW S, 0 \in S, \A n \in Nat : n \in S => n + 1 \in S
    PROVE  Nat \subseteq S
<1> SUFFICES ASSUME Nat \ S # {} PROVE FALSE
  OBVIOUS
<1> DEFINE R == OpToRel(<, Nat)
<1>1. \A m, n \in Nat : m < n => <<m, n>> \in R
  BY DEF OpToRel
<1>2. IsWellFoundedOn(R, Nat)
  BY NatLessThanWellFounded
<1> HIDE DEF R
<1>3. PICK n \in Nat \ S : \A m \in Nat \ S : ~(<<m, n>> \in R)
  BY <1>2, WFMin
<1>4. n # 0 /\ n - 1 \in Nat /\ (n - 1) + 1 = n /\ n - 1 < n
  OBVIOUS
<1>5. n - 1 \in S
  BY <1>1, <1>3, <1>4
<1> QED
  BY <1>4, <1>5

-----------------------------------------------------------------------------
\* Sequences

\* What is left of a sequence without one of its elements: the others, each once.
LEMMA Removal ==
    ASSUME NEW S, NEW q \in Seq(S), NEW i \in 1..Len(q)
    PROVE  LET r == Svc!RemoveAt(q, i) IN
           /\ r \in Seq(S) /\ Len(r) = Len(q) - 1
           /\ \A j \in 1..Len(r) : r[j] = IF j < i THEN q[j] ELSE q[j + 1]
           /\ \A k \in 1..Len(q) : k # i => \E j \in 1..Len(r) : r[j] = q[k]
<1> PICK n \in Nat : n = Len(q)
  BY LenProperties
<1> DEFINE a == SubSeq(q, 1, i - 1)
           b == SubSeq(q, i + 1, n)
<1>1. \A k \in 1..n : q[k] \in S
  BY ElementOfSeq
<1>2. a \in Seq(S) /\ Len(a) = i - 1 /\ \A j \in 1..i - 1 : a[j] = q[j]
  <2>1. \A k \in 1..i - 1 : q[k] \in S
    BY <1>1
  <2>2. 1 \in Int /\ i - 1 \in Int
    OBVIOUS
  <2> HIDE DEF a
  <2>3. a \in Seq(S) /\ Len(a) = (IF 1 <= i - 1 THEN (i - 1) - 1 + 1 ELSE 0)
        /\ \A j \in 1..(i - 1) - 1 + 1 : a[j] = q[1 + j - 1]
    BY <2>1, <2>2, SubSeqProperties DEF a
  <2>4. \A j \in 1..i - 1 : 1 + j - 1 = j /\ j \in 1..(i - 1) - 1 + 1
    OBVIOUS
  <2> QED
    BY <2>3, <2>4
<1>3. b \in Seq(S) /\ Len(b) = n - i /\ \A j \in 1..n - i : b[j] = q[i + j]
  <2>1. \A k \in i + 1..n : q[k] \in S
    BY <1>1
  <2>2. i + 1 \in Int /\ n \in Int
    OBVIOUS
  <2> HIDE DEF b
  <2>3. b \in Seq(S) /\ Len(b) = (IF i + 1 <= n THEN n - (i + 1) + 1 ELSE 0)
        /\ \A j \in 1..n - (i + 1) + 1 : b[j] = q[i + 1 + j - 1]
    BY <2>1, <2>2, SubSeqProperties DEF b
  <2>4. \A j \in 1..n - i : i + 1 + j - 1 = i + j /\ j \in 1..n - (i + 1) + 1
    OBVIOUS
  <2> QED
    BY <2>3, <2>4
<1>4. Svc!RemoveAt(q, i) = a \o b
  BY DEF Svc!RemoveAt
<1> HIDE DEF a, b
<1> DEFINE r == Svc!RemoveAt(q, i)
<1>5. /\ r \in Seq(S) /\ Len(r) = n - 1
      /\ \A j \in 1..n - 1 : r[j] = IF j <= i - 1 THEN a[j] ELSE b[j - (i - 1)]
  <2>1. /\ a \o b \in Seq(S) /\ Len(a \o b) = Len(a) + Len(b)
        /\ \A j \in 1..Len(a) + Len(b) : (a \o b)[j] = IF j <= Len(a) THEN a[j] ELSE b[j - Len(a)]
    BY <1>2, <1>3, ConcatProperties
  <2>2. Len(a) + Len(b) = n - 1
    BY <1>2, <1>3
  <2> QED
    BY <1>2, <1>4, <2>1, <2>2
<1> HIDE DEF r
<1>6. \A j \in 1..n - 1 : r[j] = IF j < i THEN q[j] ELSE q[j + 1]
  <2> SUFFICES ASSUME NEW j \in 1..n - 1 PROVE r[j] = IF j < i THEN q[j] ELSE q[j + 1]
    OBVIOUS
  <2>1. CASE j < i
    <3>1. j <= i - 1 /\ j \in 1..i - 1
      BY <2>1
    <3> QED
      BY <1>2, <1>5, <2>1, <3>1
  <2>2. CASE ~(j < i)
    <3>1. ~(j <= i - 1) /\ j - (i - 1) \in 1..n - i /\ i + (j - (i - 1)) = j + 1
      BY <2>2
    <3>2. r[j] = b[j - (i - 1)]
      BY <1>5, <3>1
    <3>3. b[j - (i - 1)] = q[i + (j - (i - 1))]
      BY <1>3, <3>1
    <3> QED
      BY <2>2, <3>1, <3>2, <3>3
  <2> QED
    BY <2>1, <2>2
<1>7. ASSUME NEW k \in 1..n, k # i PROVE \E j \in 1..n - 1 : r[j] = q[k]
  <2>1. CASE k < i
    BY <1>6, <2>1
  <2>2. CASE k > i
    <3>1. k - 1 \in 1..n - 1 /\ ~(k - 1 < i) /\ (k - 1) + 1 = k
      BY <2>2
    <3> QED
      BY <1>6, <3>1
  <2> QED
    BY <1>7, <2>1, <2>2
<1> QED
  BY <1>5, <1>6, <1>7 DEF r

LEMMA Appending ==
    ASSUME NEW S, NEW q \in Seq(S), NEW e \in S
    PROVE  /\ Append(q, e) \in Seq(S) /\ Len(Append(q, e)) = Len(q) + 1
           /\ \A j \in 1..Len(q) + 1 : Append(q, e)[j] = IF j = Len(q) + 1 THEN e ELSE q[j]
           /\ Append(q, e) # <<>>
<1> Len(q) \in Nat
  BY LenProperties
<1>1. /\ Append(q, e) \in Seq(S) /\ Len(Append(q, e)) = Len(q) + 1 /\ Append(q, e) # <<>>
      /\ \A j \in 1..Len(q) : Append(q, e)[j] = q[j]
      /\ Append(q, e)[Len(q) + 1] = e
  BY AppendProperties
<1> QED
  BY <1>1

\* The last element, and what is left without it.
LEMMA LastOut ==
    ASSUME NEW S, NEW q \in Seq(S), q # <<>>
    PROVE  /\ Len(q) \in Nat \ {0} /\ Svc!Last(q) = q[Len(q)] /\ Svc!Last(q) \in S
           /\ Svc!Front(q) \in Seq(S) /\ Len(Svc!Front(q)) = Len(q) - 1
           /\ \A j \in 1..Len(q) - 1 : Svc!Front(q)[j] = q[j]
<1> PICK n \in Nat \ {0} : n = Len(q)
  BY EmptySeq
<1>1. Svc!Last(q) = q[n] /\ Svc!Front(q) = SubSeq(q, 1, n - 1) /\ n \in 1..n
  BY DEF Svc!Last, Svc!Front
<1>2. \A k \in 1..n - 1 : q[k] \in S
  BY ElementOfSeq
<1>3. 1 \in Int /\ n - 1 \in Int
  OBVIOUS
<1> DEFINE f == SubSeq(q, 1, n - 1)
<1> HIDE DEF f
<1>4. f \in Seq(S) /\ Len(f) = (IF 1 <= n - 1 THEN (n - 1) - 1 + 1 ELSE 0)
      /\ \A j \in 1..(n - 1) - 1 + 1 : f[j] = q[1 + j - 1]
  BY <1>2, <1>3, SubSeqProperties DEF f
<1>5. \A j \in 1..n - 1 : 1 + j - 1 = j /\ j \in 1..(n - 1) - 1 + 1
  OBVIOUS
<1>6. Len(f) = n - 1 /\ \A j \in 1..n - 1 : f[j] = q[j]
  BY <1>4, <1>5
<1>7. q[n] \in S
  BY <1>1, ElementOfSeq
<1> QED
  BY <1>1, <1>4, <1>6, <1>7 DEF f

LEMMA FirstOut ==
    ASSUME NEW S, NEW q \in Seq(S), q # <<>>
    PROVE  /\ Head(q) \in S /\ Tail(q) \in Seq(S) /\ Len(q) \in Nat \ {0} /\ Len(Tail(q)) = Len(q) - 1
           /\ \A j \in 1..Len(q) - 1 : Tail(q)[j] = q[j + 1]
  BY HeadTailProperties, EmptySeq

-----------------------------------------------------------------------------
\* Services: the enumeration

\* Boot's invariant: no name is queued twice, and while the enumeration is on,
\* whatever is not in the queue and belongs there is still to be looked at.
Queued(n) == \E i \in 1..Len(boot) : boot[i] = n
Enumerates ==
    /\ deps \in Graphs
    /\ \A i \in 1..Len(boot) : boot[i] \in DOMAIN deps
    /\ \A n \in DOMAIN deps : Queued(n) \/ n \in visits[1]
    /\ \A n \in DOMAIN deps : Queued(n) =>
          \A d \in deps[n] : Queued(d) \/ \E i \in 2..Len(visits) : d \in visits[i]
BootInv ==
    /\ \A i, j \in 1..Len(boot) : boot[i] = boot[j] => i = j
    /\ visits # <<>> => Enumerates

\* A service on the list is one that was started by that name, and one in its
\* host has an entry unless a stop or another start has removed it.
Alive == {"created", "told", "connected", "running"}
StartOK(x) ==
    /\ x.root = "idle" => x.req = "none" /\ x.inst = "none"
    /\ x.req \in {"none", "sent", "creating"} => x.inst = "none"
    /\ x.req = "filled" => x.inst \in {"created", "dead"}
    /\ x.root # "idle" => x.name \in Names
EntryOK(st, e) ==
    /\ e.ptr = None => \E a \in Svc!Starts : st[a].req = "creating" /\ st[a].name = e.name
    /\ e.ptr # None => /\ st[e.ptr].name = e.name
                       /\ st[e.ptr].req \notin {"none", "sent", "creating"}
ListOK(list, st, away) ==
    /\ \A a \in Svc!Starts : StartOK(st[a])
    /\ \A i \in 1..Len(list) : EntryOK(st, list[i])
    /\ \A i, j \in 1..Len(list) : list[i].name = list[j].name => i = j
    /\ \A a \in Svc!Starts : st[a].inst \in Alive =>
          a \in away \/ \E i \in 1..Len(list) : list[i].ptr = a

Away == stopped \cup lost \cup {x[2] : x \in stopping}
ListInv == ListOK(m_mapServices, starts, Away)

SvcInv == Svc!TypeOK /\ BootInv /\ ListInv

-----------------------------------------------------------------------------
\* Services: what a step does to one start, or to the list

\* One start moves on, in a way that nothing on the list is about.
LEMMA OneStart ==
    ASSUME NEW list \in Seq(Svc!Entry), NEW st \in [Svc!Starts -> Svc!Start], NEW away,
           ListOK(list, st, away), NEW a \in Svc!Starts, NEW r \in Svc!Start, StartOK(r),
           r.name = st[a].name \/ st[a].root = "idle",
           st[a].req = "creating" =>
               r.req = "creating" \/ \A k \in 1..Len(list) : list[k].name = st[a].name => list[k].ptr # None,
           st[a].req \notin {"none", "sent", "creating"} => r.req \notin {"none", "sent", "creating"},
           r.inst \in Alive => st[a].inst \in Alive
    PROVE  /\ ListOK(list, [st EXCEPT ![a] = r], away)
           /\ [st EXCEPT ![a] = r] \in [Svc!Starts -> Svc!Start]
<1> PICK st2 : st2 = [st EXCEPT ![a] = r]
  OBVIOUS
<1>1. /\ st2 \in [Svc!Starts -> Svc!Start] /\ st2[a] = r
      /\ \A b \in Svc!Starts : b # a => st2[b] = st[b]
  OBVIOUS
<1>2. \A b \in Svc!Starts : StartOK(st2[b])
  BY <1>1 DEF ListOK
<1>3. \A i \in 1..Len(list) : EntryOK(st2, list[i])
  <2> SUFFICES ASSUME NEW i \in 1..Len(list) PROVE EntryOK(st2, list[i])
    OBVIOUS
  <2> PICK e \in Svc!Entry : e = list[i]
    BY ElementOfSeq
  <2>1. EntryOK(st, e)
    BY DEF ListOK
  <2>2. CASE e.ptr = None
    <3>1. PICK b \in Svc!Starts : st[b].req = "creating" /\ st[b].name = e.name
      BY <2>1, <2>2 DEF EntryOK
    <3>2. st2[b].req = "creating" /\ st2[b].name = e.name
      <4>1. st[b].root # "idle"
        BY <3>1 DEF ListOK, StartOK
      <4>2. CASE b = a
        <5>1. r.req = "creating"
          BY <2>2, <3>1, <4>2
        <5> QED
          BY <1>1, <3>1, <4>1, <4>2, <5>1
      <4> QED
        BY <1>1, <3>1, <4>2
    <3> QED
      BY <2>2, <3>2 DEF EntryOK
  <2>3. CASE e.ptr # None
    <3>1. e.ptr \in Svc!Starts
      BY <2>3 DEF Svc!Entry
    <3>2. st[e.ptr].name = e.name /\ st[e.ptr].req \notin {"none", "sent", "creating"}
      BY <2>1, <2>3 DEF EntryOK
    <3>3. st[e.ptr].root # "idle"
      BY <3>1, <3>2 DEF ListOK, StartOK
    <3>4. st2[e.ptr].name = e.name /\ st2[e.ptr].req \notin {"none", "sent", "creating"}
      BY <1>1, <3>1, <3>2, <3>3
    <3> QED
      BY <2>3, <3>4 DEF EntryOK
  <2> QED
    BY <2>2, <2>3
<1>4. \A b \in Svc!Starts : st2[b].inst \in Alive =>
          b \in away \/ \E i \in 1..Len(list) : list[i].ptr = b
  <2> SUFFICES ASSUME NEW b \in Svc!Starts, st2[b].inst \in Alive
               PROVE  b \in away \/ \E i \in 1..Len(list) : list[i].ptr = b
    OBVIOUS
  <2>1. st[b].inst \in Alive
    BY <1>1
  <2> QED
    BY <2>1 DEF ListOK
<1> QED
  BY <1>1, <1>2, <1>3, <1>4 DEF ListOK

\* The list gets shorter, and no service that is alive goes but to be stopped.
Shorter(r, list, st, away2) ==
    /\ r \in Seq(Svc!Entry)
    /\ \A j \in 1..Len(r) : \E k \in 1..Len(list) : r[j] = list[k]
    /\ \A i, j \in 1..Len(r) : r[i].name = r[j].name => i = j
    /\ \A k \in 1..Len(list) :
           \/ \E j \in 1..Len(r) : r[j] = list[k]
           \/ list[k].ptr = None \/ st[list[k].ptr].inst \notin Alive \/ list[k].ptr \in away2

LEMMA Fewer ==
    ASSUME NEW list \in Seq(Svc!Entry), NEW st, NEW away, ListOK(list, st, away),
           NEW r, NEW away2, away \subseteq away2, Shorter(r, list, st, away2)
    PROVE  ListOK(r, st, away2)
<1> USE DEF Shorter
<1>1. \A a \in Svc!Starts : StartOK(st[a])
  BY DEF ListOK
<1>2. \A j \in 1..Len(r) : EntryOK(st, r[j])
  BY DEF ListOK
<1>3. ASSUME NEW a \in Svc!Starts, st[a].inst \in Alive
      PROVE  a \in away2 \/ \E i \in 1..Len(r) : r[i].ptr = a
  <2>1. a \in away \/ \E i \in 1..Len(list) : list[i].ptr = a
    BY <1>3 DEF ListOK
  <2>2. CASE a \in away
    BY <2>2
  <2>3. ASSUME NEW k \in 1..Len(list), list[k].ptr = a
        PROVE  a \in away2 \/ \E i \in 1..Len(r) : r[i].ptr = a
    <3>1. a # None
      BY RootAssumption DEF Svc!Starts
    <3> QED
      BY <1>3, <2>3, <3>1
  <2> QED
    BY <2>1, <2>2, <2>3
<1> QED
  BY <1>1, <1>2, <1>3 DEF ListOK

\* One entry is removed.
LEMMA Without ==
    ASSUME NEW list \in Seq(Svc!Entry), NEW st, NEW away, ListOK(list, st, away),
           NEW i \in 1..Len(list), NEW away2, away \subseteq away2,
           list[i].ptr = None \/ st[list[i].ptr].inst \notin Alive \/ list[i].ptr \in away2
    PROVE  /\ ListOK(Svc!RemoveAt(list, i), st, away2) /\ Svc!RemoveAt(list, i) \in Seq(Svc!Entry)
           /\ \A j \in 1..Len(Svc!RemoveAt(list, i)) : Svc!RemoveAt(list, i)[j].name # list[i].name
<1> PICK r : r = Svc!RemoveAt(list, i)
  OBVIOUS
<1> PICK n \in Nat : n = Len(list)
  BY LenProperties
<1>1. /\ r \in Seq(Svc!Entry) /\ Len(r) = n - 1
      /\ \A j \in 1..n - 1 : r[j] = IF j < i THEN list[j] ELSE list[j + 1]
      /\ \A k \in 1..n : k # i => \E j \in 1..n - 1 : r[j] = list[k]
  <2>1. /\ r \in Seq(Svc!Entry) /\ Len(r) = Len(list) - 1
        /\ \A j \in 1..Len(r) : r[j] = IF j < i THEN list[j] ELSE list[j + 1]
        /\ \A k \in 1..Len(list) : k # i => \E j \in 1..Len(r) : r[j] = list[k]
    BY Removal, Zenon
  <2> QED
    BY <2>1
<1>2. \A j, k \in 1..n : list[j].name = list[k].name => j = k
  BY DEF ListOK
<1> DEFINE pos(j) == IF j < i THEN j ELSE j + 1
<1>3. \A j \in 1..n - 1 : pos(j) \in 1..n /\ pos(j) # i /\ r[j] = list[pos(j)]
  <2>1. ASSUME NEW j \in 1..n - 1 PROVE j + 1 \in 1..n /\ j \in 1..n /\ (~(j < i) => j + 1 # i)
    OBVIOUS
  <2> QED
    BY <1>1, <2>1
<1>4. \A j, k \in 1..n - 1 : pos(j) = pos(k) => j = k
  OBVIOUS
<1> HIDE DEF pos
<1>5. \A j, k \in 1..n - 1 : r[j].name = r[k].name => j = k
  BY <1>2, <1>3, <1>4
<1>6. \A j \in 1..n - 1 : r[j].name # list[i].name
  BY <1>2, <1>3
<1>7. \A j \in 1..n - 1 : \E k \in 1..n : r[j] = list[k]
  BY <1>3
<1>8. \A k \in 1..n :
          \/ \E j \in 1..n - 1 : r[j] = list[k]
          \/ list[k].ptr = None \/ st[list[k].ptr].inst \notin Alive \/ list[k].ptr \in away2
  BY <1>1
<1>9. Shorter(r, list, st, away2)
  <2>1. Len(list) = n /\ Len(r) = n - 1
    BY <1>1
  <2> QED
    BY <1>1, <1>5, <1>7, <1>8, <2>1 DEF Shorter
<1>10. ListOK(r, st, away2)
  BY <1>9, Fewer
<1> QED
  BY <1>1, <1>6, <1>10

\* One entry is added, of a name that the list has not.
LEMMA Added ==
    ASSUME NEW list \in Seq(Svc!Entry), NEW st, NEW away, ListOK(list, st, away),
           NEW e \in Svc!Entry, EntryOK(st, e), \A k \in 1..Len(list) : list[k].name # e.name
    PROVE  ListOK(Append(list, e), st, away) /\ Append(list, e) \in Seq(Svc!Entry)
<1> PICK n \in Nat : n = Len(list)
  BY LenProperties
<1> PICK q : q = Append(list, e)
  OBVIOUS
<1>1. /\ q \in Seq(Svc!Entry) /\ Len(q) = n + 1
      /\ \A j \in 1..n + 1 : q[j] = IF j = n + 1 THEN e ELSE list[j]
  BY Appending
<1>2. q[n + 1] = e /\ \A j \in 1..n : j \in 1..n + 1 /\ q[j] = list[j]
  BY <1>1
<1>3. \A j \in 1..n + 1 : EntryOK(st, q[j])
  <2>1. \A j \in 1..n + 1 : j = n + 1 \/ j \in 1..n
    OBVIOUS
  <2> QED
    BY <1>2, <2>1 DEF ListOK
<1>4. \A i, j \in 1..n + 1 : q[i].name = q[j].name => i = j
  <2> SUFFICES ASSUME NEW i \in 1..n + 1, NEW j \in 1..n + 1, q[i].name = q[j].name PROVE i = j
    OBVIOUS
  <2>1. CASE i = n + 1 /\ j \in 1..n
    BY <1>2, <2>1
  <2>2. CASE i \in 1..n /\ j = n + 1
    BY <1>2, <2>2
  <2>3. CASE i \in 1..n /\ j \in 1..n
    BY <1>2, <2>3 DEF ListOK
  <2>4. (i = n + 1 \/ i \in 1..n) /\ (j = n + 1 \/ j \in 1..n)
    OBVIOUS
  <2> QED
    BY <2>1, <2>2, <2>3, <2>4
<1>5. \A a \in Svc!Starts : st[a].inst \in Alive => a \in away \/ \E i \in 1..n + 1 : q[i].ptr = a
  BY <1>2 DEF ListOK
<1> QED
  BY <1>1, <1>3, <1>4, <1>5 DEF ListOK

\* A start that creates fills an entry of its name, which had no service.
LEMMA Filled ==
    ASSUME NEW list \in Seq(Svc!Entry), NEW st \in [Svc!Starts -> Svc!Start], NEW away,
           ListOK(list, st, away), NEW i \in 1..Len(list), NEW a \in Svc!Starts,
           list[i].ptr = None, list[i].name = st[a].name, st[a].req = "creating",
           NEW r \in Svc!Start, StartOK(r), r.name = st[a].name, r.req = "filled"
    PROVE  /\ ListOK([list EXCEPT ![i].ptr = a], [st EXCEPT ![a] = r], away)
           /\ [list EXCEPT ![i].ptr = a] \in Seq(Svc!Entry)
<1> PICK n \in Nat : n = Len(list)
  BY LenProperties
<1> DEFINE e == [name |-> st[a].name, ptr |-> a]
<1>1. list[i] \in Svc!Entry /\ \A k \in 1..n : list[k] \in Svc!Entry
  BY ElementOfSeq
<1>2. e \in Svc!Entry /\ e = [list[i] EXCEPT !.ptr = a] /\ e.name = list[i].name /\ e.ptr = a
  BY <1>1 DEF Svc!Entry
<1> HIDE DEF e
<1>3. list \in [1..n -> Svc!Entry]
  BY LenProperties
<1> PICK q : q = [list EXCEPT ![i].ptr = a]
  OBVIOUS
<1>4. q = [list EXCEPT ![i] = e]
  BY <1>2, <1>3
<1>5. /\ q \in Seq(Svc!Entry) /\ Len(q) = n
      /\ \A j \in 1..n : q[j] = IF j = i THEN e ELSE list[j]
  BY <1>2, <1>4, ExceptSeq
<1> PICK st2 : st2 = [st EXCEPT ![a] = r]
  OBVIOUS
<1>6. st2[a] = r /\ \A b \in Svc!Starts : b # a => st2[b] = st[b]
  OBVIOUS
<1>7. a # None
  BY RootAssumption DEF Svc!Starts
<1>8. \A j \in 1..n : EntryOK(st2, q[j])
  <2> SUFFICES ASSUME NEW j \in 1..n PROVE EntryOK(st2, q[j])
    OBVIOUS
  <2>1. CASE j = i
    <3>1. EntryOK(st2, e)
      BY <1>2, <1>6, <1>7 DEF EntryOK
    <3> QED
      BY <1>5, <2>1, <3>1
  <2>2. CASE j # i
    <3> PICK d \in Svc!Entry : d = list[j] /\ d = q[j]
      BY <1>1, <1>5, <2>2
    <3>1. EntryOK(st, d) /\ d.name # st[a].name
      BY <2>2 DEF ListOK
    <3>2. CASE d.ptr = None
      BY <1>6, <3>1, <3>2 DEF EntryOK
    <3>3. CASE d.ptr # None
      <4>1. d.ptr \in Svc!Starts /\ d.ptr # a
        BY <3>1, <3>3 DEF Svc!Entry, EntryOK
      <4> QED
        BY <1>6, <3>1, <3>3, <4>1 DEF EntryOK
    <3> QED
      BY <3>2, <3>3
  <2> QED
    BY <2>1, <2>2
<1>9. \A j, k \in 1..n : q[j].name = q[k].name => j = k
  <2>1. \A j \in 1..n : q[j].name = list[j].name
    BY <1>2, <1>5
  <2> QED
    BY <2>1 DEF ListOK
<1>10. ASSUME NEW b \in Svc!Starts, st2[b].inst \in Alive
       PROVE  b \in away \/ \E j \in 1..n : q[j].ptr = b
  <2>1. CASE b = a
    BY <1>2, <1>5, <2>1
  <2>2. CASE b # a
    <3>1. b \in away \/ \E j \in 1..n : list[j].ptr = b
      BY <1>6, <1>10, <2>2 DEF ListOK
    <3>2. ASSUME NEW j \in 1..n, list[j].ptr = b PROVE q[j].ptr = b
      <4>1. b # None
        BY RootAssumption DEF Svc!Starts
      <4> QED
        BY <1>5, <3>2, <4>1
    <3> QED
      BY <3>1, <3>2
  <2> QED
    BY <2>1, <2>2
<1>11. \A b \in Svc!Starts : StartOK(st2[b])
  BY <1>6 DEF ListOK
<1> QED
  BY <1>5, <1>8, <1>9, <1>10, <1>11 DEF ListOK

LEMMA BootStays == ASSUME BootInv, UNCHANGED <<deps, visits, boot>> PROVE BootInv'
  BY DEF BootInv, Enumerates, Queued

\* What the list's invariant is about, in one state and in the next.
LEMMA Typed ==
    ASSUME SvcInv
    PROVE  /\ m_mapServices \in Seq(Svc!Entry) /\ starts \in [Svc!Starts -> Svc!Start]
           /\ ListOK(m_mapServices, starts, Away)
           /\ \A a \in Svc!Starts : StartOK(starts[a])
  BY DEF SvcInv, ListInv, ListOK, Svc!TypeOK

\* The steps that only move one start on.
Moves(a) ==
    \/ Svc!Answer(a) \/ Svc!Accept(a) \/ Svc!TimesOut(a) \/ Svc!Told(a)
    \/ Svc!Connects(a) \/ Svc!Runs(a) \/ Svc!RunEnds(a) \/ Svc!Dies(a)

LEMMA MovesPreserve == ASSUME SvcInv, NEW a \in Svc!Starts, Moves(a) PROVE SvcInv'
<1> PICK x \in Svc!Start : x = starts[a]
  BY DEF SvcInv, Svc!TypeOK
<1>0. UNCHANGED <<m_mapServices, deps, visits, boot, stopAll, stopping, stopped, stops, lost>>
  BY DEF Moves, Svc!Answer, Svc!Accept, Svc!TimesOut, Svc!Told, Svc!Connects, Svc!Runs,
         Svc!RunEnds, Svc!Dies
<1> DEFINE OK(r) ==
        /\ r \in Svc!Start /\ starts' = [starts EXCEPT ![a] = r] /\ r.name = x.name
        /\ r.root # "idle" /\ x.root # "idle" /\ (r.req = "creating" <=> x.req = "creating")
        /\ (x.req \notin {"none", "sent", "creating"} => r.req \notin {"none", "sent", "creating"})
        /\ (r.inst \in Alive => x.inst \in Alive)
        /\ StartOK(r)
<1>1. StartOK(x) /\ starts \in [Svc!Starts -> Svc!Start] /\ (x.root # "idle" => x.name \in Names)
  BY Typed DEF StartOK
<1>2. \E r : OK(r)
  <2>1. CASE Svc!Answer(a)
    <3> DEFINE r == [x EXCEPT !.root = IF x.req = "ok" THEN "accepting" ELSE "failed"]
    <3>1. starts' = [starts EXCEPT ![a] = r] /\ x.root = "sent"
      BY <1>1, <2>1 DEF Svc!Answer, Svc!Set
    <3>2. OK(r)
      BY <1>1, <3>1 DEF Svc!Start, StartOK
    <3> QED
      BY <3>2
  <2>2. CASE Svc!Accept(a)
    <3> DEFINE r == [x EXCEPT !.root = "ok"]
    <3>1. starts' = [starts EXCEPT ![a] = r] /\ x.root = "accepting"
      BY <1>1, <2>2 DEF Svc!Accept, Svc!Set
    <3>2. OK(r)
      BY <1>1, <3>1 DEF Svc!Start, StartOK
    <3> QED
      BY <3>2
  <2>3. CASE Svc!TimesOut(a)
    <3> DEFINE r == [x EXCEPT !.root = "failed"]
    <3>1. starts' = [starts EXCEPT ![a] = r] /\ x.root = "accepting"
      BY <1>1, <2>3 DEF Svc!TimesOut, Svc!Set
    <3>2. OK(r)
      BY <1>1, <3>1 DEF Svc!Start, StartOK
    <3> QED
      BY <3>2
  <2>4. CASE Svc!Told(a)
    <3> DEFINE r == [x EXCEPT !.req = "ok", !.inst = "told"]
    <3>1. starts' = [starts EXCEPT ![a] = r] /\ x.req = "filled" /\ x.inst # "dead"
      BY <1>1, <2>4 DEF Svc!Told
    <3>2. x.inst = "created" /\ x.root # "idle"
      BY <1>1, <3>1 DEF StartOK
    <3>3. OK(r)
      BY <1>1, <3>1, <3>2 DEF Svc!Start, StartOK, Alive
    <3> QED
      BY <3>3
  <2>5. CASE Svc!Connects(a)
    <3> DEFINE r == [x EXCEPT !.inst = "connected"]
    <3>1. starts' = [starts EXCEPT ![a] = r] /\ x.inst = "told" /\ x.root \in {"sent", "accepting"}
      BY <1>1, <2>5 DEF Svc!Connects, Svc!Set
    <3>2. OK(r)
      BY <1>1, <3>1 DEF Svc!Start, StartOK, Alive
    <3> QED
      BY <3>2
  <2>6. CASE Svc!Runs(a)
    <3> DEFINE r == [x EXCEPT !.inst = "running"]
    <3>1. starts' = [starts EXCEPT ![a] = r] /\ x.inst = "connected" /\ x.root = "ok"
      BY <1>1, <2>6 DEF Svc!Runs, Svc!Set
    <3>2. OK(r)
      BY <1>1, <3>1 DEF Svc!Start, StartOK, Alive
    <3> QED
      BY <3>2
  <2>7. CASE Svc!RunEnds(a)
    <3> DEFINE r == [x EXCEPT !.inst = "ended"]
    <3>1. starts' = [starts EXCEPT ![a] = r] /\ x.inst \in {"told", "connected", "running"}
      BY <1>1, <2>7 DEF Svc!RunEnds, Svc!Set
    <3>2. OK(r)
      BY <1>1, <3>1 DEF Svc!Start, StartOK, Alive
    <3> QED
      BY <3>2
  <2>8. CASE Svc!Dies(a)
    <3> DEFINE r == [x EXCEPT !.inst = "dead"]
    <3>1. starts' = [starts EXCEPT ![a] = r] /\ x.inst \notin {"none", "dead"}
      BY <1>1, <2>8 DEF Svc!Dies, Svc!Set
    <3>2. OK(r)
      BY <1>1, <3>1 DEF Svc!Start, StartOK, Alive
    <3> QED
      BY <3>2
  <2> QED
    BY <2>1, <2>2, <2>3, <2>4, <2>5, <2>6, <2>7, <2>8 DEF Moves
<1>3. PICK r : OK(r)
  BY <1>2
<1>4. Away' = Away /\ BootInv'
  BY <1>0, BootStays DEF Away, SvcInv
<1>5. ListOK(m_mapServices, starts', Away) /\ starts' \in [Svc!Starts -> Svc!Start]
  BY <1>3, Typed, OneStart
<1> QED
  BY <1>0, <1>4, <1>5 DEF SvcInv, ListInv, Svc!TypeOK

\* A launch: of a name, in a start that nothing is about yet.
LEMMA LaunchPreserves ==
    ASSUME SvcInv, NEW a \in Svc!Starts, NEW name \in Names, NEW async \in BOOLEAN,
           Svc!LaunchService(a, name, async)
    PROVE  ListInv' /\ starts' \in [Svc!Starts -> Svc!Start]
<1> PICK x \in Svc!Start : x = starts[a]
  BY DEF SvcInv, Svc!TypeOK
<1> DEFINE root == IF async THEN "accepting" ELSE "sent"
           r == [x EXCEPT !.name = name, !.async = async, !.req = "sent", !.root = root]
<1>1. /\ starts' = [starts EXCEPT ![a] = r] /\ x.root = "idle"
      /\ UNCHANGED <<m_mapServices, stopping, stopped, lost>>
  BY DEF Svc!LaunchService, Svc!Idle
<1>2. x.req = "none" /\ x.inst = "none"
  BY <1>1, Typed DEF StartOK
<1>3. root \in {"accepting", "sent"}
  OBVIOUS
<1> HIDE DEF root
<1>4. r \in Svc!Start /\ r.name = name /\ r.req = "sent" /\ r.root = root /\ r.inst = "none"
  BY <1>2, <1>3 DEF Svc!Start
<1> HIDE DEF r
<1>5. Away' = Away
  BY <1>1 DEF Away
<1>6. StartOK(r)
  BY <1>3, <1>4 DEF StartOK
<1>7. ListOK(m_mapServices, starts', Away) /\ starts' \in [Svc!Starts -> Svc!Start]
  BY <1>1, <1>2, <1>4, <1>6, Typed, OneStart DEF Alive
<1> QED
  BY <1>1, <1>5, <1>7 DEF ListInv

LEMMA StartPreserves ==
    ASSUME SvcInv, NEW a \in Svc!Starts, NEW name \in Names, Svc!start_service(a, name)
    PROVE  SvcInv'
<1>1. UNCHANGED <<m_mapServices, deps, visits, boot, stopAll, stopping, stopped, stops, lost>>
  BY DEF Svc!start_service, Svc!LaunchService
<1>2. ListInv' /\ starts' \in [Svc!Starts -> Svc!Start]
  BY LaunchPreserves DEF Svc!start_service
<1>3. BootInv'
  BY <1>1, BootStays DEF SvcInv
<1> QED
  BY <1>1, <1>2, <1>3 DEF SvcInv, Svc!TypeOK

LEMMA BootPreserves ==
    ASSUME SvcInv, NEW a \in Svc!Starts, Svc!start_services(a)
    PROVE  SvcInv'
<1>1. /\ UNCHANGED <<m_mapServices, deps, visits, stopAll, stopping, stopped, stops, lost>>
      /\ boot # <<>> /\ boot' = Tail(boot) /\ visits = <<>>
  BY DEF Svc!start_services, Svc!LaunchService, Svc!Idle
<1>2. /\ Head(boot) \in Names /\ Tail(boot) \in Seq(Names) /\ Len(boot) \in Nat \ {0}
      /\ Len(Tail(boot)) = Len(boot) - 1 /\ \A j \in 1..Len(boot) - 1 : Tail(boot)[j] = boot[j + 1]
  BY <1>1, FirstOut DEF SvcInv, Svc!TypeOK
<1>3. ListInv' /\ starts' \in [Svc!Starts -> Svc!Start]
  BY <1>2, LaunchPreserves DEF Svc!start_services
<1>4. BootInv'
  <2> PICK b : b = Tail(boot)
    OBVIOUS
  <2> PICK n \in Nat \ {0} : n = Len(boot)
    BY <1>2
  <2> SUFFICES ASSUME NEW i \in 1..n - 1, NEW j \in 1..n - 1, b[i] = b[j] PROVE i = j
    BY <1>1, <1>2 DEF BootInv
  <2>1. i + 1 \in 1..n /\ j + 1 \in 1..n /\ boot[i + 1] = boot[j + 1]
    BY <1>2
  <2>2. i + 1 = j + 1
    BY <2>1 DEF SvcInv, BootInv
  <2> QED
    BY <2>2
<1> QED
  BY <1>1, <1>2, <1>3, <1>4 DEF SvcInv, Svc!TypeOK

-----------------------------------------------------------------------------
\* Services: the sandbox's list

\* The first position of a name is the only one.
LEMMA OnePosition ==
    ASSUME SvcInv, NEW name, NEW i \in Svc!Positions(name)
    PROVE  /\ i \in 1..Len(m_mapServices) /\ m_mapServices[i].name = name
           /\ Svc!Positions(name) = {i} /\ Svc!Min({i}) = i
<1>1. \A k \in Svc!Positions(name) : k \in 1..Len(m_mapServices) /\ m_mapServices[k].name = name
  BY LenProperties DEF Svc!Positions, SvcInv, Svc!TypeOK
<1>2. Svc!Positions(name) = {i}
  BY <1>1 DEF SvcInv, ListInv, ListOK
<1>3. i \in Int
  BY <1>1
<1>4. Svc!Min({i}) = i
  BY <1>3 DEF Svc!Min
<1> QED
  BY <1>1, <1>2, <1>4

LEMMA StartBeginsPreserves ==
    ASSUME SvcInv, NEW a \in Svc!Starts, Svc!StartBegins(a)
    PROVE  SvcInv'
<1> PICK x \in Svc!Start : x = starts[a]
  BY DEF SvcInv, Svc!TypeOK
<1>1. /\ UNCHANGED <<deps, visits, boot, stopAll, stopping, stopped, stops, lost>>
      /\ x.req = "sent" /\ x.inst = "none" /\ x.root # "idle" /\ x.name \in Names
  BY Typed DEF Svc!StartBegins, StartOK
<1>2. BootInv' /\ Away' = Away
  BY <1>1, BootStays DEF SvcInv, Away
<1>3. CASE Svc!Positions(x.name) # {}
  <2> DEFINE r == [x EXCEPT !.req = "err"]
  <2>1. UNCHANGED m_mapServices /\ starts' = [starts EXCEPT ![a] = r]
    BY <1>3 DEF Svc!StartBegins, Svc!Set, SvcInv, Svc!TypeOK
  <2>2. r \in Svc!Start /\ r.name = x.name /\ r.req = "err" /\ r.inst = "none" /\ StartOK(r)
    BY <1>1 DEF Svc!Start, StartOK
  <2> HIDE DEF r
  <2>3. ListOK(m_mapServices, starts', Away) /\ starts' \in [Svc!Starts -> Svc!Start]
    BY <1>1, <2>1, <2>2, Typed, OneStart DEF Alive
  <2> QED
    BY <1>1, <1>2, <2>1, <2>3 DEF SvcInv, ListInv, Svc!TypeOK
<1>4. CASE Svc!Positions(x.name) = {}
  <2> DEFINE r == [x EXCEPT !.req = "creating"]
             e == [name |-> x.name, ptr |-> None]
  <2>1. m_mapServices' = Append(m_mapServices, e) /\ starts' = [starts EXCEPT ![a] = r]
    BY <1>4 DEF Svc!StartBegins, Svc!Set, SvcInv, Svc!TypeOK
  <2>2. r \in Svc!Start /\ r.name = x.name /\ r.req = "creating" /\ r.inst = "none" /\ StartOK(r)
    BY <1>1 DEF Svc!Start, StartOK
  <2>3. e \in Svc!Entry /\ e.name = x.name /\ e.ptr = None
    BY <1>1 DEF Svc!Entry
  <2> HIDE DEF r, e
  <2>4. ListOK(m_mapServices, starts', Away) /\ starts' \in [Svc!Starts -> Svc!Start]
    BY <1>1, <2>1, <2>2, Typed, OneStart DEF Alive
  <2>5. EntryOK(starts', e)
    BY <2>1, <2>2, <2>3, <2>4, Typed DEF EntryOK
  <2>6. \A k \in 1..Len(m_mapServices) : m_mapServices[k].name # e.name
    <3>1. \A k \in 1..Len(m_mapServices) : k \in DOMAIN m_mapServices
      BY Typed, LenProperties
    <3> QED
      BY <1>4, <2>3, <3>1 DEF Svc!Positions
  <2>7. ListOK(m_mapServices', starts', Away) /\ m_mapServices' \in Seq(Svc!Entry)
    BY <2>1, <2>3, <2>4, <2>5, <2>6, Typed, Added
  <2> QED
    BY <1>1, <1>2, <2>4, <2>7 DEF SvcInv, ListInv, Svc!TypeOK
<1> QED
  BY <1>3, <1>4

LEMMA CreatedPreserves ==
    ASSUME SvcInv, NEW a \in Svc!Starts, Svc!Created(a)
    PROVE  SvcInv'
<1> PICK x \in Svc!Start : x = starts[a]
  BY DEF SvcInv, Svc!TypeOK
<1> PICK mine : mine = {i \in Svc!Positions(x.name) : m_mapServices[i].ptr = None}
  OBVIOUS
<1>1. /\ UNCHANGED <<deps, visits, boot, stopAll, stopping, stopped, stops, lost>>
      /\ x.req = "creating" /\ x.inst = "none" /\ x.root # "idle" /\ x.name \in Names
      /\ starts \in [Svc!Starts -> Svc!Start]
  BY Typed DEF Svc!Created, StartOK
<1>2. BootInv' /\ Away' = Away
  BY <1>1, BootStays DEF SvcInv, Away
<1>3. CASE mine = {}
  <2> DEFINE r == [x EXCEPT !.req = "ok", !.inst = "ended"]
  <2>1. UNCHANGED m_mapServices /\ starts' = [starts EXCEPT ![a] = r]
    BY <1>1, <1>3 DEF Svc!Created
  <2>2. r \in Svc!Start /\ r.name = x.name /\ r.req = "ok" /\ r.inst = "ended" /\ StartOK(r)
    BY <1>1 DEF Svc!Start, StartOK
  <2> HIDE DEF r
  <2>3. \A k \in 1..Len(m_mapServices) : m_mapServices[k].name = x.name => m_mapServices[k].ptr # None
    <3>1. \A k \in 1..Len(m_mapServices) : k \in DOMAIN m_mapServices
      BY Typed, LenProperties
    <3> QED
      BY <1>3, <3>1 DEF Svc!Positions
  <2>4. ListOK(m_mapServices, starts', Away) /\ starts' \in [Svc!Starts -> Svc!Start]
    BY <1>1, <2>1, <2>2, <2>3, Typed, OneStart DEF Alive
  <2> QED
    BY <1>1, <1>2, <2>1, <2>4 DEF SvcInv, ListInv, Svc!TypeOK
<1>4. ASSUME NEW i \in mine PROVE SvcInv'
  <2> DEFINE r == [x EXCEPT !.req = "filled", !.inst = "created"]
  <2>1. /\ i \in 1..Len(m_mapServices) /\ m_mapServices[i].name = x.name
        /\ m_mapServices[i].ptr = None /\ mine = {i} /\ Svc!Min(mine) = i
    <3>1. i \in Svc!Positions(x.name) /\ m_mapServices[i].ptr = None
      BY <1>4
    <3>2. /\ i \in 1..Len(m_mapServices) /\ m_mapServices[i].name = x.name
          /\ Svc!Positions(x.name) = {i} /\ Svc!Min({i}) = i
      BY <3>1, OnePosition
    <3>3. mine = {i}
      BY <3>1, <3>2
    <3> QED
      BY <3>1, <3>2, <3>3
  <2>2. starts' = [starts EXCEPT ![a] = r]
    BY <1>1, <2>1 DEF Svc!Created
  <2>3. m_mapServices' = [m_mapServices EXCEPT ![i].ptr = a]
    BY <2>1 DEF Svc!Created
  <2>4. r \in Svc!Start /\ r.name = x.name /\ r.req = "filled" /\ StartOK(r)
    BY <1>1 DEF Svc!Start, StartOK
  <2> HIDE DEF r
  <2>5. /\ ListOK(m_mapServices', starts', Away) /\ m_mapServices' \in Seq(Svc!Entry)
        /\ starts' \in [Svc!Starts -> Svc!Start]
    BY <1>1, <2>1, <2>2, <2>3, <2>4, Typed, Filled
  <2> QED
    BY <1>1, <1>2, <2>5 DEF SvcInv, ListInv, Svc!TypeOK
<1> QED
  BY <1>3, <1>4

LEMMA ThrowsPreserves ==
    ASSUME SvcInv, NEW a \in Svc!Starts, Svc!Throws(a)
    PROVE  SvcInv'
<1> PICK x \in Svc!Start : x = starts[a]
  BY DEF SvcInv, Svc!TypeOK
<1> PICK found : found = Svc!Positions(x.name)
  OBVIOUS
<1> DEFINE r == [x EXCEPT !.req = "err"]
<1>1. /\ UNCHANGED <<deps, visits, boot, stopAll, stopping, stopped, stops>>
      /\ x.req = "creating" \/ (x.req = "filled" /\ x.inst = "dead")
      /\ starts' = [starts EXCEPT ![a] = r]
      /\ starts \in [Svc!Starts -> Svc!Start] /\ StartOK(x)
  BY Typed DEF Svc!Throws, Svc!Set
<1>2. x.root # "idle" /\ x.name \in Names /\ x.inst \notin Alive
  BY <1>1 DEF StartOK, Alive
<1>3. r \in Svc!Start /\ r.name = x.name /\ r.req = "err" /\ r.inst = x.inst /\ StartOK(r)
  BY <1>2 DEF Svc!Start, StartOK
<1> HIDE DEF r
<1>4. BootInv'
  BY <1>1, BootStays DEF SvcInv
<1>5. CASE found = {}
  <2>1. UNCHANGED <<m_mapServices, lost>>
    BY <1>5 DEF Svc!Throws
  <2>2. \A k \in 1..Len(m_mapServices) : m_mapServices[k].name # x.name
    <3>1. \A k \in 1..Len(m_mapServices) : k \in DOMAIN m_mapServices
      BY Typed, LenProperties
    <3> QED
      BY <1>5, <3>1 DEF Svc!Positions
  <2>3. ListOK(m_mapServices, starts', Away) /\ starts' \in [Svc!Starts -> Svc!Start]
    BY <1>1, <1>2, <1>3, <2>2, Typed, OneStart
  <2>4. Away' = Away
    BY <1>1, <2>1 DEF Away
  <2> QED
    BY <1>1, <1>4, <2>1, <2>3, <2>4 DEF SvcInv, ListInv, Svc!TypeOK
<1>6. ASSUME NEW i \in found PROVE SvcInv'
  <2>1. /\ i \in 1..Len(m_mapServices) /\ m_mapServices[i].name = x.name
        /\ found = {i} /\ Svc!Min(found) = i
    BY <1>6, OnePosition
  <2> PICK e \in Svc!Entry : e = m_mapServices[i]
    BY <2>1, Typed, ElementOfSeq
  <2> PICK list : list = Svc!RemoveAt(m_mapServices, i)
    OBVIOUS
  <2>2. m_mapServices' = list
    BY <2>1 DEF Svc!Throws
  <2>3. lost' = lost \cup ({e.ptr} \ {None, a})
    BY <2>1 DEF Svc!Throws
  <2> PICK away2 : away2 = Away'
    OBVIOUS
  <2>4. away2 = Away \cup ({e.ptr} \ {None, a})
    BY <1>1, <2>3 DEF Away
  <2>5. e.ptr = None \/ starts[e.ptr].inst \notin Alive \/ e.ptr \in away2
    BY <1>2, <2>4
  <2>6. /\ ListOK(list, starts, away2) /\ list \in Seq(Svc!Entry)
        /\ \A j \in 1..Len(list) : list[j].name # x.name
    BY <2>1, <2>4, <2>5, Typed, Without
  <2>7. ListOK(list, starts', away2) /\ starts' \in [Svc!Starts -> Svc!Start]
    BY <1>1, <1>2, <1>3, <2>6, OneStart
  <2>8. lost' \subseteq Svc!Starts
    BY <2>3 DEF SvcInv, Svc!TypeOK, Svc!Entry
  <2> QED
    BY <1>1, <1>4, <2>2, <2>6, <2>7, <2>8 DEF SvcInv, ListInv, Svc!TypeOK
<1> QED
  BY <1>5, <1>6

\* The steps that change the list and no start: each takes entries out.
LEMMA StopPreserves ==
    ASSUME SvcInv, NEW name \in Names, Svc!stop_service(name)
    PROVE  SvcInv'
<1>1. /\ UNCHANGED <<starts, deps, visits, boot, stopAll, stopped, lost>>
      /\ stops < MaxStops /\ stops' = stops + 1
  BY DEF Svc!stop_service
<1> PICK i \in Svc!Positions(name) :
        /\ i = Svc!Min(Svc!Positions(name)) /\ m_mapServices' = Svc!RemoveAt(m_mapServices, i)
        /\ stopping' = IF Svc!IsAlive(m_mapServices[i].ptr)
                       THEN stopping \cup {<<"one", m_mapServices[i].ptr>>} ELSE stopping
  BY DEF Svc!stop_service
<1>2. i \in 1..Len(m_mapServices)
  BY OnePosition
<1> PICK e \in Svc!Entry : e = m_mapServices[i]
  BY <1>2, Typed, ElementOfSeq
<1> PICK away2 : away2 = Away'
  OBVIOUS
<1>5. /\ Away \subseteq away2 /\ stopping' \subseteq {"one", "all"} \X Svc!Starts
      /\ e.ptr = None \/ starts[e.ptr].inst \notin Alive \/ e.ptr \in away2
  <2>1. CASE Svc!IsAlive(e.ptr)
    <3>1. stopping' = stopping \cup {<<"one", e.ptr>>} /\ e.ptr \in Svc!Starts
      BY <2>1 DEF Svc!IsAlive, Svc!Entry
    <3>2. <<"one", e.ptr>> \in stopping' /\ <<"one", e.ptr>>[2] = e.ptr
      BY <3>1
    <3>3. Away \subseteq away2 /\ e.ptr \in away2
      BY <1>1, <3>1, <3>2 DEF Away
    <3>4. stopping' \subseteq {"one", "all"} \X Svc!Starts
      BY <3>1 DEF SvcInv, Svc!TypeOK
    <3> QED
      BY <3>3, <3>4
  <2>2. CASE ~Svc!IsAlive(e.ptr)
    BY <1>1, <2>2 DEF Away, Alive, Svc!IsAlive, SvcInv, Svc!TypeOK
  <2> QED
    BY <2>1, <2>2
<1>6. ListOK(m_mapServices', starts, away2) /\ m_mapServices' \in Seq(Svc!Entry)
  BY <1>2, <1>5, Typed, Without
<1>7. BootInv'
  BY <1>1, BootStays DEF SvcInv
<1>8. stops' \in 0..MaxStops
  BY <1>1, RootAssumption DEF SvcInv, Svc!TypeOK
<1> QED
  BY <1>1, <1>5, <1>6, <1>7, <1>8 DEF SvcInv, ListInv, Svc!TypeOK

LEMMA StopAllPreserves == ASSUME SvcInv, Svc!stop_all_services PROVE SvcInv'
<1>1. /\ UNCHANGED <<m_mapServices, starts, deps, visits, boot, stopping, stopped, lost>>
      /\ stopAll' = TRUE /\ stops < MaxStops /\ stops' = stops + 1
  BY DEF Svc!stop_all_services
<1>2. Away' = Away /\ BootInv'
  BY <1>1, BootStays DEF SvcInv, Away
<1>3. stops' \in 0..MaxStops
  BY <1>1, RootAssumption DEF SvcInv, Svc!TypeOK
<1> QED
  BY <1>1, <1>2, <1>3 DEF SvcInv, ListInv, Svc!TypeOK

LEMMA StopsNextPreserves == ASSUME SvcInv, Svc!StopsNext PROVE SvcInv'
<1>1. UNCHANGED <<starts, deps, visits, boot, stopped, stops, lost>>
  BY DEF Svc!StopsNext
<1>2. BootInv'
  BY <1>1, BootStays DEF SvcInv
<1>3. CASE m_mapServices = <<>>
  <2>1. stopAll' = FALSE /\ UNCHANGED <<m_mapServices, stopping>>
    BY <1>3 DEF Svc!StopsNext
  <2>2. Away' = Away
    BY <1>1, <2>1 DEF Away
  <2> QED
    BY <1>1, <1>2, <2>1, <2>2 DEF SvcInv, ListInv, Svc!TypeOK
<1>4. CASE m_mapServices # <<>>
  <2> PICK q \in Seq(Svc!Entry) : q = m_mapServices
    BY Typed
  <2> PICK r : r = Svc!Front(q)
    OBVIOUS
  <2> PICK n \in Nat \ {0} : n = Len(q)
    BY <1>4, LastOut
  <2> PICK e \in Svc!Entry : e = Svc!Last(q)
    BY <1>4, LastOut
  <2>1. /\ e = q[n] /\ r \in Seq(Svc!Entry) /\ Len(r) = n - 1
        /\ \A j \in 1..n - 1 : r[j] = q[j]
    BY <1>4, LastOut
  <2>2. /\ m_mapServices' = r /\ UNCHANGED stopAll
        /\ stopping' = IF Svc!IsAlive(e.ptr) THEN stopping \cup {<<"all", e.ptr>>} ELSE stopping
    BY <1>4 DEF Svc!StopsNext
  <2> PICK away2 : away2 = Away'
    OBVIOUS
  <2>3. /\ Away \subseteq away2 /\ stopping' \subseteq {"one", "all"} \X Svc!Starts
        /\ e.ptr = None \/ starts[e.ptr].inst \notin Alive \/ e.ptr \in away2
    <3>1. CASE Svc!IsAlive(e.ptr)
      <4>1. stopping' = stopping \cup {<<"all", e.ptr>>} /\ e.ptr \in Svc!Starts
        BY <2>2, <3>1 DEF Svc!IsAlive, Svc!Entry
      <4>2. <<"all", e.ptr>> \in stopping' /\ <<"all", e.ptr>>[2] = e.ptr
        BY <4>1
      <4>3. Away \subseteq away2 /\ e.ptr \in away2
        BY <1>1, <4>1, <4>2 DEF Away
      <4>4. stopping' \subseteq {"one", "all"} \X Svc!Starts
        BY <4>1 DEF SvcInv, Svc!TypeOK
      <4> QED
        BY <4>3, <4>4
    <3>2. CASE ~Svc!IsAlive(e.ptr)
      BY <1>1, <2>2, <3>2 DEF Away, Alive, Svc!IsAlive, SvcInv, Svc!TypeOK
    <3> QED
      BY <3>1, <3>2
  <2>4. ListOK(q, starts, Away)
    BY Typed
  <2>5. \A j \in 1..n - 1 : j \in 1..n /\ r[j] = q[j]
    BY <2>1
  <2>6. \A j \in 1..Len(r) : \E k \in 1..Len(q) : r[j] = q[k]
    BY <2>1, <2>5
  <2>7. \A i, j \in 1..Len(r) : r[i].name = r[j].name => i = j
    BY <2>1, <2>4, <2>5 DEF ListOK
  <2>8. \A k \in 1..Len(q) :
            \/ \E j \in 1..Len(r) : r[j] = q[k]
            \/ q[k].ptr = None \/ starts[q[k].ptr].inst \notin Alive \/ q[k].ptr \in away2
    <3>1. \A k \in 1..n : k = n \/ k \in 1..n - 1
      OBVIOUS
    <3> QED
      BY <2>1, <2>3, <2>5, <3>1
  <2>9. Shorter(r, q, starts, away2)
    BY <2>1, <2>6, <2>7, <2>8 DEF Shorter
  <2>10. ListOK(r, starts, away2)
    BY <2>3, <2>4, <2>9, Fewer
  <2> QED
    BY <1>1, <1>2, <2>1, <2>2, <2>3, <2>10 DEF SvcInv, ListInv, Svc!TypeOK
<1> QED
  BY <1>3, <1>4

LEMMA StopsPreserves == ASSUME SvcInv, NEW x \in stopping, Svc!Stops(x) PROVE SvcInv'
<1>1. /\ UNCHANGED <<m_mapServices, starts, deps, visits, boot, stopAll, stops, lost>>
      /\ stopping' = stopping \ {x} /\ stopped' = stopped \cup {x[2]}
  BY DEF Svc!Stops
<1>2. Away' = Away
  BY <1>1 DEF Away
<1>3. BootInv' /\ x[2] \in Svc!Starts
  BY <1>1, BootStays DEF SvcInv, Svc!TypeOK
<1> QED
  BY <1>1, <1>2, <1>3 DEF SvcInv, ListInv, Svc!TypeOK

LEMMA IsRunningPreserves ==
    ASSUME SvcInv, NEW name \in Names, Svc!service_is_running(name)
    PROVE  SvcInv'
<1>1. UNCHANGED <<starts, deps, visits, boot, stopAll, stopping, stopped, stops, lost>>
  BY DEF Svc!service_is_running
<1> PICK i \in Svc!Positions(name) :
        /\ ~Svc!IsAlive(m_mapServices[i].ptr) /\ m_mapServices' = Svc!RemoveAt(m_mapServices, i)
  BY DEF Svc!service_is_running
<1>2. i \in 1..Len(m_mapServices) /\ Away' = Away /\ BootInv'
  BY <1>1, OnePosition, BootStays DEF SvcInv, Away
<1>3. m_mapServices[i].ptr = None \/ starts[m_mapServices[i].ptr].inst \notin Alive
  BY DEF Svc!IsAlive, Alive
<1>4. ListOK(m_mapServices', starts, Away) /\ m_mapServices' \in Seq(Svc!Entry)
  BY <1>2, <1>3, Typed, Without
<1> QED
  BY <1>1, <1>2, <1>4 DEF SvcInv, ListInv, Svc!TypeOK

\* list_services, entry by entry: what it keeps are entries of the list, in
\* their order, all that have no service or one that is alive.
Keeps(st, e) == e.ptr = None \/ (e.ptr # None /\ st[e.ptr].inst # "dead")
KeptNext(q, st, f, i) ==
    IF i = 0 THEN <<>> ELSE IF Keeps(st, q[i]) THEN Append(f[i - 1], q[i]) ELSE f[i - 1]
KeptUpTo(q, st, k, f) == f = [i \in 0..k |-> KeptNext(q, st, f, i)]

LEMMA KeptExists ==
    ASSUME NEW q, NEW st, NEW n \in Nat
    PROVE  \E f : KeptUpTo(q, st, n, f)
<1> DEFINE S == {k \in Nat : \E f : KeptUpTo(q, st, k, f)}
<1>1. 0 \in S
  <2>1. \A f : KeptNext(q, st, f, 0) = <<>>
    BY DEF KeptNext
  <2>2. [i \in 0..0 |-> <<>>] = [i \in 0..0 |-> KeptNext(q, st, [j \in 0..0 |-> <<>>], i)]
    BY <2>1
  <2> QED
    BY <2>2 DEF KeptUpTo
<1>2. ASSUME NEW k \in Nat, k \in S PROVE k + 1 \in S
  <2> PICK f : KeptUpTo(q, st, k, f)
    BY <1>2
  <2> DEFINE g == [i \in 0..k + 1 |-> IF i = k + 1 THEN KeptNext(q, st, f, k + 1) ELSE f[i]]
  <2>1. \A i \in 0..k : g[i] = f[i] /\ f[i] = KeptNext(q, st, f, i)
    BY DEF KeptUpTo
  <2>2. g[k + 1] = KeptNext(q, st, f, k + 1) /\ g = [i \in 0..k + 1 |-> g[i]]
    OBVIOUS
  <2> HIDE DEF g
  <2>3. \A i \in 0..k + 1 : KeptNext(q, st, g, i) = KeptNext(q, st, f, i)
    <3>1. \A i \in 0..k + 1 : i = 0 \/ i - 1 \in 0..k
      OBVIOUS
    <3> QED
      BY <2>1, <3>1 DEF KeptNext
  <2>4. \A i \in 0..k + 1 : i = k + 1 \/ i \in 0..k
    OBVIOUS
  <2>5. \A i \in 0..k + 1 : g[i] = KeptNext(q, st, g, i)
    BY <2>1, <2>2, <2>3, <2>4
  <2>6. KeptUpTo(q, st, k + 1, g)
    BY <2>2, <2>5 DEF KeptUpTo
  <2> QED
    BY <2>6
<1> HIDE DEF S
<1>3. n \in S
  BY <1>1, <1>2, Induction
<1> QED
  BY <1>3 DEF S

\* pos says of what is kept where it was.
Kept(q, st, m, r, pos) ==
    /\ r \in Seq(Svc!Entry) /\ pos \in [1..Len(r) -> 1..m]
    /\ \A j \in 1..Len(r) : r[j] = q[pos[j]]
    /\ \A i, j \in 1..Len(r) : pos[i] = pos[j] => i = j
    /\ \A k \in 1..m : Keeps(st, q[k]) => \E j \in 1..Len(r) : pos[j] = k

LEMMA KeptGrows ==
    ASSUME NEW q \in Seq(Svc!Entry), NEW st, NEW m \in Nat, m + 1 <= Len(q),
           NEW r, NEW pos, Kept(q, st, m, r, pos)
    PROVE  IF Keeps(st, q[m + 1])
           THEN \E pos2 : Kept(q, st, m + 1, Append(r, q[m + 1]), pos2)
           ELSE Kept(q, st, m + 1, r, pos)
<1>0. r \in Seq(Svc!Entry)
  BY DEF Kept
<1> PICK l \in Nat : l = Len(r)
  BY <1>0, LenProperties
<1>1. \A k \in 1..m + 1 : k = m + 1 \/ k \in 1..m
  OBVIOUS
<1>2. \A k \in 1..m : k \in 1..m + 1 /\ k # m + 1
  OBVIOUS
<1>3. pos \in [1..l -> 1..m] /\ \A j \in 1..l : pos[j] \in 1..m
  BY DEF Kept
<1>4. CASE ~Keeps(st, q[m + 1])
  <2>1. pos \in [1..l -> 1..m + 1]
    BY <1>2, <1>3
  <2>2. Kept(q, st, m + 1, r, pos)
    BY <1>1, <1>4, <2>1 DEF Kept
  <2> QED
    BY <1>4, <2>2
<1>5. CASE Keeps(st, q[m + 1])
  <2> PICK r2 : r2 = Append(r, q[m + 1])
    OBVIOUS
  <2>1. q[m + 1] \in Svc!Entry
    <3>1. m + 1 \in 1..Len(q)
      BY LenProperties
    <3> QED
      BY <3>1, ElementOfSeq
  <2>2. /\ r2 \in Seq(Svc!Entry) /\ Len(r2) = l + 1
        /\ \A j \in 1..l + 1 : r2[j] = IF j = l + 1 THEN q[m + 1] ELSE r[j]
    BY <1>0, <2>1, Appending
  <2> PICK pos2 : pos2 = [j \in 1..l + 1 |-> IF j = l + 1 THEN m + 1 ELSE pos[j]]
    OBVIOUS
  <2>3. \A j \in 1..l + 1 : j = l + 1 \/ (j \in 1..l /\ j # l + 1)
    OBVIOUS
  <2>4. \A j \in 1..l : j \in 1..l + 1 /\ pos2[j] = pos[j] /\ r2[j] = r[j]
    BY <2>2
  <2>5. l + 1 \in 1..l + 1 /\ pos2[l + 1] = m + 1 /\ r2[l + 1] = q[m + 1]
    BY <2>2
  <2>6. pos2 \in [1..l + 1 -> 1..m + 1]
    <3>1. \A j \in 1..l + 1 : pos2[j] \in 1..m + 1
      BY <1>2, <1>3, <2>3, <2>4, <2>5
    <3> QED
      BY <3>1
  <2>7. \A j \in 1..l + 1 : r2[j] = q[pos2[j]]
    BY <2>3, <2>4, <2>5 DEF Kept
  <2>8. \A i, j \in 1..l + 1 : pos2[i] = pos2[j] => i = j
    <3> SUFFICES ASSUME NEW i \in 1..l + 1, NEW j \in 1..l + 1, pos2[i] = pos2[j] PROVE i = j
      OBVIOUS
    <3>1. CASE i \in 1..l /\ j \in 1..l
      BY <2>4, <3>1 DEF Kept
    <3>2. CASE i = l + 1 /\ j \in 1..l
      BY <1>2, <1>3, <2>4, <2>5, <3>2
    <3>3. CASE i \in 1..l /\ j = l + 1
      BY <1>2, <1>3, <2>4, <2>5, <3>3
    <3> QED
      BY <2>3, <3>1, <3>2, <3>3
  <2>9. \A k \in 1..m + 1 : Keeps(st, q[k]) => \E j \in 1..l + 1 : pos2[j] = k
    <3> SUFFICES ASSUME NEW k \in 1..m + 1, Keeps(st, q[k]) PROVE \E j \in 1..l + 1 : pos2[j] = k
      OBVIOUS
    <3>1. CASE k = m + 1
      BY <2>5, <3>1
    <3>2. CASE k \in 1..m
      <4>1. PICK j \in 1..l : pos[j] = k
        BY <3>2 DEF Kept
      <4> QED
        BY <2>4, <4>1
    <3> QED
      BY <1>1, <3>1, <3>2
  <2>10. Kept(q, st, m + 1, r2, pos2)
    BY <2>2, <2>6, <2>7, <2>8, <2>9 DEF Kept
  <2> QED
    BY <1>5, <2>10
<1> QED
  BY <1>4, <1>5

LEMMA Keeping ==
    ASSUME NEW q \in Seq(Svc!Entry), NEW st, NEW f, KeptUpTo(q, st, Len(q), f)
    PROVE  \E pos : Kept(q, st, Len(q), f[Len(q)], pos)
<1> PICK n \in Nat : n = Len(q)
  BY LenProperties
<1> DEFINE S == {m \in Nat : m <= n => \E pos : Kept(q, st, m, f[m], pos)}
<1>1. \A i \in 0..n : f[i] = KeptNext(q, st, f, i)
  BY DEF KeptUpTo
<1>2. 0 \in S
  <2>1. Len(<<>>) = 0 /\ <<>> \in Seq(Svc!Entry) /\ 1..0 = {}
    OBVIOUS
  <2>2. [j \in {} |-> j] \in [{} -> {}]
    OBVIOUS
  <2>3. Kept(q, st, 0, <<>>, [j \in {} |-> j])
    BY <2>1, <2>2 DEF Kept
  <2>4. f[0] = <<>>
    BY <1>1 DEF KeptNext
  <2> QED
    BY <2>3, <2>4
<1>3. ASSUME NEW m \in Nat, m \in S PROVE m + 1 \in S
  <2>1. ASSUME m + 1 <= n PROVE \E pos : Kept(q, st, m + 1, f[m + 1], pos)
    <3>1. PICK pos : Kept(q, st, m, f[m], pos)
      BY <1>3, <2>1
    <3>2. f[m + 1] = IF Keeps(st, q[m + 1]) THEN Append(f[m], q[m + 1]) ELSE f[m]
      <4>1. m + 1 \in 0..n /\ m + 1 # 0 /\ (m + 1) - 1 = m
        BY <2>1
      <4> QED
        BY <1>1, <4>1 DEF KeptNext
    <3> QED
      BY <2>1, <3>1, <3>2, KeptGrows
  <2> QED
    BY <2>1
<1> HIDE DEF S
<1>4. n \in S
  BY <1>2, <1>3, Induction
<1> QED
  BY <1>4 DEF S

LEMMA ListPreserves == ASSUME SvcInv, Svc!list_services PROVE SvcInv'
<1> PICK q \in Seq(Svc!Entry) : q = m_mapServices
  BY Typed
<1> DEFINE F == CHOOSE f : KeptUpTo(q, starts, Len(q), f)
<1>1. KeptUpTo(q, starts, Len(q), F)
  <2>1. Len(q) \in Nat
    BY LenProperties
  <2> QED
    BY <2>1, KeptExists
<1>2. m_mapServices' = F[Len(q)]
  BY Zenon DEF Svc!list_services, Svc!IsAlive, KeptUpTo, KeptNext, Keeps
<1>3. UNCHANGED <<starts, deps, visits, boot, stopAll, stopping, stopped, stops, lost>>
  BY DEF Svc!list_services
<1> HIDE DEF F
<1> PICK r : r = F[Len(q)]
  OBVIOUS
<1>4. PICK pos : Kept(q, starts, Len(q), r, pos)
  BY <1>1, Keeping
<1>5. ListOK(q, starts, Away)
  BY Typed
<1>6. /\ r \in Seq(Svc!Entry)
      /\ \A j \in 1..Len(r) : pos[j] \in 1..Len(q) /\ r[j] = q[pos[j]]
  BY <1>4 DEF Kept
<1>7. \A i, j \in 1..Len(r) : r[i].name = r[j].name => i = j
  <2> SUFFICES ASSUME NEW i \in 1..Len(r), NEW j \in 1..Len(r), r[i].name = r[j].name PROVE i = j
    OBVIOUS
  <2>1. pos[i] = pos[j]
    <3>1. \A k, l \in 1..Len(q) : q[k].name = q[l].name => k = l
      BY <1>5 DEF ListOK
    <3>2. pos[i] \in 1..Len(q) /\ pos[j] \in 1..Len(q) /\ r[i] = q[pos[i]] /\ r[j] = q[pos[j]]
      BY <1>6
    <3>3. q[pos[i]].name = q[pos[j]].name
      BY <3>2
    <3> QED
      BY <3>1, <3>2, <3>3
  <2>2. \A k, l \in 1..Len(r) : pos[k] = pos[l] => k = l
    BY <1>4 DEF Kept
  <2> QED
    BY <2>1, <2>2
<1>8. \A k \in 1..Len(q) :
          \/ \E j \in 1..Len(r) : r[j] = q[k]
          \/ q[k].ptr = None \/ starts[q[k].ptr].inst \notin Alive \/ q[k].ptr \in Away
  <2> SUFFICES ASSUME NEW k \in 1..Len(q), q[k].ptr # None, starts[q[k].ptr].inst \in Alive
               PROVE  \E j \in 1..Len(r) : r[j] = q[k]
    OBVIOUS
  <2>1. Keeps(starts, q[k])
    BY DEF Alive, Keeps
  <2>2. PICK j \in 1..Len(r) : pos[j] = k
    BY <1>4, <2>1 DEF Kept
  <2> QED
    BY <1>6, <2>2
<1>9. Shorter(r, q, starts, Away)
  BY <1>6, <1>7, <1>8 DEF Shorter
<1>10. ListOK(r, starts, Away)
  BY <1>5, <1>9, Fewer
<1>11. Away' = Away /\ BootInv'
  BY <1>3, BootStays DEF SvcInv, Away
<1> QED
  BY <1>2, <1>3, <1>6, <1>10, <1>11 DEF SvcInv, ListInv, Svc!TypeOK

-----------------------------------------------------------------------------
\* Services: the enumeration

\* The turn of a level, by what it leaves of the level.
LEMMA TurnAt ==
    ASSUME SvcInv, visits # <<>>, NEW rest, rest \subseteq Svc!Last(visits)
    PROVE  /\ Len(visits) \in Nat \ {0} /\ Svc!Last(visits) = visits[Len(visits)]
           /\ Len(Svc!Turn(rest)) = Len(visits)
           /\ Svc!Turn(rest) \in Seq(SUBSET UNION {Svc!Mentioned(g) : g \in Graphs})
           /\ \A i \in 1..Len(visits) :
                 Svc!Turn(rest)[i] = IF i = Len(visits) THEN rest ELSE visits[i]
<1> DEFINE U == SUBSET UNION {Svc!Mentioned(g) : g \in Graphs}
<1> HIDE DEF U
<1>1. visits \in Seq(U)
  BY DEF SvcInv, Svc!TypeOK, U
<1> PICK n \in Nat \ {0} : n = Len(visits)
  BY <1>1, LastOut
<1>2. Svc!Last(visits) = visits[n] /\ Svc!Last(visits) \in U
  BY <1>1, LastOut
<1>3. rest \in U
  BY <1>2 DEF U
<1>4. Svc!Turn(rest) = [visits EXCEPT ![n] = rest]
  BY DEF Svc!Turn
<1>5. n \in 1..Len(visits)
  OBVIOUS
<1>6. /\ Svc!Turn(rest) \in Seq(U) /\ Len(Svc!Turn(rest)) = n
      /\ \A i \in 1..n : Svc!Turn(rest)[i] = IF i = n THEN rest ELSE visits[i]
  BY <1>1, <1>3, <1>4, <1>5, ExceptSeq
<1> QED
  BY <1>2, <1>6 DEF U

LEMMA ReturnsPreserves == ASSUME SvcInv, Svc!Returns PROVE SvcInv'
<1> DEFINE U == SUBSET UNION {Svc!Mentioned(g) : g \in Graphs}
<1> HIDE DEF U
<1>1. /\ UNCHANGED <<m_mapServices, starts, boot, stopAll, stopping, stopped, stops, lost>>
      /\ visits # <<>> /\ Svc!Last(visits) = {} /\ visits' = Svc!Front(visits)
      /\ deps' = IF Len(visits) = 1 THEN Svc!NoDeps ELSE deps
  BY DEF Svc!Returns
<1> PICK w \in Seq(U) : w = visits
  BY DEF SvcInv, Svc!TypeOK, U
<1> PICK n \in Nat \ {0} : n = Len(w)
  BY <1>1, LastOut
<1> PICK r \in Seq(U) : r = Svc!Front(w)
  BY <1>1, LastOut
<1>2. w[n] = {} /\ Len(r) = n - 1 /\ \A j \in 1..n - 1 : r[j] = w[j]
  BY <1>1, LastOut
<1>3. Enumerates
  BY <1>1 DEF SvcInv, BootInv
<1>4. BootInv'
  <2>1. \A i, j \in 1..Len(boot) : boot[i] = boot[j] => i = j
    BY DEF SvcInv, BootInv
  <2>2. CASE n = 1
    <3>1. r = <<>>
      BY <1>2, <2>2, EmptySeq
    <3> QED
      BY <1>1, <2>1, <3>1 DEF BootInv
  <2>3. CASE n # 1
    <3>1. deps' = deps /\ \A x : Queued(x)' <=> Queued(x)
      BY <1>1, <2>3 DEF Queued
    <3>2. \A x \in DOMAIN deps : Queued(x) \/ x \in r[1]
      <4>1. 1 \in 1..n - 1
        BY <2>3
      <4> QED
        BY <1>2, <1>3, <4>1 DEF Enumerates
    <3>3. \A x \in DOMAIN deps : Queued(x) =>
              \A d \in deps[x] : Queued(d) \/ \E i \in 2..n - 1 : d \in r[i]
      <4> SUFFICES ASSUME NEW x \in DOMAIN deps, Queued(x), NEW d \in deps[x], ~Queued(d)
                   PROVE  \E i \in 2..n - 1 : d \in r[i]
        OBVIOUS
      <4>1. PICK i \in 2..n : d \in w[i]
        BY <1>3 DEF Enumerates
      <4>2. i # n
        BY <1>2, <4>1
      <4>3. i \in 2..n - 1 /\ i \in 1..n - 1
        BY <4>2
      <4> QED
        BY <1>2, <4>1, <4>3
    <3>4. Enumerates'
      BY <1>1, <1>2, <1>3, <3>1, <3>2, <3>3 DEF Enumerates
    <3> QED
      BY <1>1, <2>1, <3>4 DEF BootInv
  <2> QED
    BY <2>2, <2>3
<1>5. Away' = Away
  BY <1>1 DEF Away
<1>6. Svc!TypeOK'
  <2>1. visits' \in Seq(U)
    BY <1>1
  <2>2. deps' = Svc!NoDeps \/ deps' \in Graphs
    BY <1>1, <1>3 DEF Enumerates
  <2> QED
    BY <1>1, <2>1, <2>2 DEF SvcInv, Svc!TypeOK, U
<1> QED
  BY <1>1, <1>4, <1>5, <1>6 DEF SvcInv, ListInv

LEMMA VisitsPreserves == ASSUME SvcInv, Svc!Visits PROVE SvcInv'
<1> DEFINE U == SUBSET UNION {Svc!Mentioned(g) : g \in Graphs}
<1>0. /\ UNCHANGED <<m_mapServices, starts, stopAll, stopping, stopped, stops, lost>>
      /\ visits # <<>>
  BY DEF Svc!Visits
<1> PICK name \in Svc!Last(visits) :
         \/ /\ Svc!Contains(boot, name)
            /\ visits' = Svc!Turn(Svc!Last(visits) \ {name}) /\ UNCHANGED <<deps, boot>>
         \/ /\ ~Svc!Contains(boot, name) /\ name \in DOMAIN deps
            /\ boot' = Append(boot, name)
            /\ visits' = Append(Svc!Turn(Svc!Last(visits) \ {name}), deps[name])
            /\ UNCHANGED deps
         \/ /\ ~Svc!Contains(boot, name) /\ name \notin DOMAIN deps
            /\ visits' = <<>> /\ boot' = <<>> /\ deps' = Svc!NoDeps
  BY DEF Svc!Visits
<1> PICK turn : turn = Svc!Turn(Svc!Last(visits) \ {name})
  OBVIOUS
<1> PICK w : w = visits
  OBVIOUS
<1> PICK n \in Nat \ {0} : n = Len(w)
  BY <1>0, TurnAt
<1>1. /\ Svc!Last(visits) = w[n] /\ name \in w[n] /\ Len(turn) = n /\ turn \in Seq(U)
      /\ \A i \in 1..n : turn[i] = IF i = n THEN w[n] \ {name} ELSE w[i]
  <2>1. Svc!Last(visits) \ {name} \subseteq Svc!Last(visits)
    OBVIOUS
  <2>2. /\ Svc!Last(visits) = visits[Len(visits)] /\ Len(turn) = Len(visits) /\ turn \in Seq(U)
        /\ \A i \in 1..Len(visits) :
              turn[i] = IF i = Len(visits) THEN Svc!Last(visits) \ {name} ELSE visits[i]
    BY <1>0, <2>1, TurnAt, Zenon
  <2> HIDE DEF U
  <2> QED
    BY <2>2
<1>2. /\ deps \in Graphs /\ \A x : Queued(x) <=> Svc!Contains(boot, x)
      /\ \A x \in DOMAIN deps : Queued(x) \/ x \in w[1]
      /\ \A x \in DOMAIN deps : Queued(x) =>
            \A d \in deps[x] : Queued(d) \/ \E i \in 2..n : d \in w[i]
      /\ \A i \in 1..Len(boot) : boot[i] \in DOMAIN deps
      /\ \A i, j \in 1..Len(boot) : boot[i] = boot[j] => i = j
      /\ boot \in Seq(Names)
      /\ deps[name] \subseteq Svc!Mentioned(deps) \/ name \notin DOMAIN deps
  BY <1>0 DEF SvcInv, BootInv, Enumerates, Svc!TypeOK, Queued, Svc!Contains, Svc!Mentioned
<1>3. boot \in Seq(Names) /\ Len(boot) \in Nat
  <2>1. boot \in Seq(Names)
    BY DEF SvcInv, Svc!TypeOK
  <2> QED
    BY <2>1, LenProperties
<1>4. \A i \in 1..n : \A x \in w[i] : x = name \/ x \in turn[i]
  BY <1>1
<1>5. ASSUME Svc!Contains(boot, name), visits' = turn, UNCHANGED <<deps, boot>> PROVE SvcInv'
  <2>1. \A x : Queued(x)' <=> Queued(x)
    BY <1>5 DEF Queued
  <2>2. Queued(name)
    BY <1>2, <1>5
  <2>3. \A x \in DOMAIN deps : Queued(x) \/ x \in turn[1]
    <3>1. 1 \in 1..n
      OBVIOUS
    <3> QED
      BY <1>2, <1>4, <2>2, <3>1
  <2>4. \A x \in DOMAIN deps : Queued(x) =>
            \A d \in deps[x] : Queued(d) \/ \E i \in 2..n : d \in turn[i]
    <3>1. \A i \in 2..n : i \in 1..n
      OBVIOUS
    <3> QED
      BY <1>2, <1>4, <2>2, <3>1
  <2>5. Enumerates'
    BY <1>1, <1>2, <1>5, <2>1, <2>3, <2>4 DEF Enumerates
  <2>6. BootInv'
    BY <1>2, <1>5, <2>5 DEF BootInv
  <2>7. Svc!TypeOK'
    BY <1>0, <1>1, <1>5 DEF SvcInv, Svc!TypeOK
  <2>8. ListInv'
    BY <1>0 DEF SvcInv, ListInv, Away
  <2> QED
    BY <2>6, <2>7, <2>8 DEF SvcInv
<1>6. ASSUME ~Svc!Contains(boot, name), name \in DOMAIN deps, boot' = Append(boot, name),
             visits' = Append(turn, deps[name]), UNCHANGED deps
      PROVE  SvcInv'
  <2> PICK l \in Nat : l = Len(boot)
    BY <1>3
  <2> PICK b : b = boot'
    OBVIOUS
  <2> PICK w2 : w2 = visits'
    OBVIOUS
  <2>0. name \in Names
    BY <1>2, <1>6, RootAssumption
  <2>1. b \in Seq(Names) /\ Len(b) = l + 1 /\ \A j \in 1..l + 1 : b[j] = IF j = l + 1 THEN name ELSE boot[j]
    BY <1>3, <1>6, <2>0, Appending
  <2>2. deps[name] \in U
    BY <1>2, <1>6 DEF Svc!Mentioned
  <2>3. w2 \in Seq(U) /\ Len(w2) = n + 1
        /\ \A j \in 1..n + 1 : w2[j] = IF j = n + 1 THEN deps[name] ELSE turn[j]
    <3> HIDE DEF U
    <3> PICK d \in U : d = deps[name]
      BY <2>2
    <3>1. Len(turn) = n /\ w2 = Append(turn, d)
      BY <1>1, <1>6
    <3> PICK q \in Seq(U) : q = turn
      BY <1>1
    <3>2. /\ Append(q, d) \in Seq(U) /\ Len(Append(q, d)) = Len(q) + 1
          /\ \A j \in 1..Len(q) + 1 : Append(q, d)[j] = IF j = Len(q) + 1 THEN d ELSE q[j]
      BY Appending
    <3> QED
      BY <3>1, <3>2
  <2>4. \A j \in 1..l + 1 : j = l + 1 \/ j \in 1..l
    OBVIOUS
  <2>5. l + 1 \in 1..l + 1 /\ b[l + 1] = name /\ \A j \in 1..l : j \in 1..l + 1 /\ b[j] = boot[j]
    BY <2>1
  <2>6. \A x : Queued(x)' <=> Queued(x) \/ x = name
    BY <2>1, <2>4, <2>5 DEF Queued
  <2>7. w2[n + 1] = deps[name] /\ n + 1 \in 2..n + 1 /\ \A j \in 1..n : j \in 1..n + 1 /\ w2[j] = turn[j]
    <3>1. n + 1 \in 1..n + 1 /\ n + 1 \in 2..n + 1 /\ \A j \in 1..n : j \in 1..n + 1 /\ j # n + 1
      OBVIOUS
    <3>2. \A j \in 1..n + 1 : w2[j] = IF j = n + 1 THEN deps[name] ELSE turn[j]
      BY <2>3
    <3> QED
      BY <3>1, <3>2
  <2>8. \A i, j \in 1..l + 1 : b[i] = b[j] => i = j
    <3>1. \A j \in 1..l : boot[j] # name
      BY <1>6 DEF Svc!Contains
    <3> QED
      BY <1>2, <2>4, <2>5, <3>1
  <2>9. \A x \in DOMAIN deps : Queued(x)' \/ x \in w2[1]
    <3>1. 1 \in 1..n
      OBVIOUS
    <3> QED
      BY <1>2, <1>4, <2>6, <2>7, <3>1
  <2>10. \A x \in DOMAIN deps : Queued(x)' =>
            \A d \in deps[x] : Queued(d)' \/ \E i \in 2..n + 1 : d \in w2[i]
    <3> SUFFICES ASSUME NEW x \in DOMAIN deps, Queued(x)', NEW d \in deps[x], ~Queued(d)'
                 PROVE  \E i \in 2..n + 1 : d \in w2[i]
      OBVIOUS
    <3>1. CASE x = name
      BY <2>7, <3>1
    <3>2. CASE x # name
      <4>1. PICK i \in 2..n : d \in w[i]
        BY <1>2, <2>6, <3>2
      <4>2. i \in 1..n /\ i \in 2..n + 1
        OBVIOUS
      <4> QED
        BY <1>4, <2>6, <2>7, <4>1, <4>2
    <3> QED
      BY <3>1, <3>2
  <2>11. \A i \in 1..l + 1 : b[i] \in DOMAIN deps
    BY <1>2, <1>6, <2>4, <2>5
  <2>12. Enumerates'
    <3>1. Len(w2) = n + 1 /\ Len(b) = l + 1 /\ w2 = visits' /\ b = boot' /\ deps' = deps
      BY <1>6, <2>1, <2>3
    <3>2. \A i \in 1..Len(boot') : boot'[i] \in DOMAIN deps
      BY <2>11, <3>1
    <3>3. \A x \in DOMAIN deps : Queued(x)' \/ x \in visits'[1]
      BY <2>9, <3>1
    <3>4. \A x \in DOMAIN deps : Queued(x)' =>
              \A d \in deps[x] : Queued(d)' \/ \E i \in 2..Len(visits') : d \in visits'[i]
      BY <2>10, <3>1
    <3> QED
      BY <1>2, <3>1, <3>2, <3>3, <3>4 DEF Enumerates
  <2>13. BootInv'
    BY <2>1, <2>8, <2>12 DEF BootInv
  <2>14. Svc!TypeOK'
    BY <1>0, <1>6, <2>1, <2>3 DEF SvcInv, Svc!TypeOK
  <2>15. ListInv'
    BY <1>0 DEF SvcInv, ListInv, Away
  <2> QED
    BY <2>13, <2>14, <2>15 DEF SvcInv
<1>7. ASSUME visits' = <<>>, boot' = <<>>, deps' = Svc!NoDeps PROVE SvcInv'
  <2>1. BootInv'
    <3>1. Len(<<>>) = 0 /\ 1..0 = {}
      OBVIOUS
    <3> QED
      BY <1>7, <3>1 DEF BootInv
  <2>2. Svc!TypeOK'
    <3>1. <<>> \in Seq(U) /\ <<>> \in Seq(Names)
      OBVIOUS
    <3> QED
      BY <1>0, <1>7, <3>1 DEF SvcInv, Svc!TypeOK
  <2>3. ListInv'
    BY <1>0 DEF SvcInv, ListInv, Away
  <2> QED
    BY <2>1, <2>2, <2>3 DEF SvcInv
<1> QED
  BY <1>5, <1>6, <1>7

-----------------------------------------------------------------------------
\* Services: all of it

LEMMA SvcBegins == ASSUME RootInit PROVE SvcInv
<1>1. Svc!Init
  BY DEF RootInit
<1>2. Svc!NotStarted \in Svc!Start /\ StartOK(Svc!NotStarted) /\ Svc!NotStarted.inst \notin Alive
  BY DEF Svc!NotStarted, Svc!Start, StartOK, Alive
<1>3. Len(<<>>) = 0 /\ 1..0 = {} /\ <<>> \in Seq(Svc!Entry) /\ <<>> \in Seq(Names)
  OBVIOUS
<1>4. \A a \in Svc!Starts : starts[a] = Svc!NotStarted
  BY <1>1 DEF Svc!Init
<1>5. ListInv
  BY <1>1, <1>2, <1>3, <1>4 DEF Svc!Init, ListInv, ListOK
<1> PICK n : n = DOMAIN deps
  OBVIOUS
<1>6. visits = <<n>> /\ visits[1] = n /\ n \in SUBSET UNION {Svc!Mentioned(g) : g \in Graphs}
  BY <1>1 DEF Svc!Init, Svc!Mentioned
<1>7. BootInv
  BY <1>1, <1>3, <1>6 DEF Svc!Init, BootInv, Enumerates, Queued
<1>8. visits \in Seq(SUBSET UNION {Svc!Mentioned(g) : g \in Graphs})
  BY <1>6
<1>9. Svc!TypeOK
  <2>1. starts \in [Svc!Starts -> Svc!Start]
    BY <1>1, <1>2 DEF Svc!Init
  <2>2. stops \in 0..MaxStops
    BY <1>1, RootAssumption DEF Svc!Init
  <2> QED
    BY <1>1, <1>3, <1>8, <2>1, <2>2 DEF Svc!Init, Svc!TypeOK
<1> QED
  BY <1>5, <1>7, <1>9 DEF SvcInv

LEMMA SvcGoesOn == ASSUME SvcInv, Svc!Next PROVE SvcInv'
<1>1. ASSUME NEW a \in Svc!Starts, Svc!Working(a) PROVE SvcInv'
  BY <1>1, MovesPreserve, StartBeginsPreserves, CreatedPreserves, ThrowsPreserves
     DEF Svc!Working, Moves
<1>2. ASSUME NEW a \in Svc!Starts,
             Svc!Connects(a) \/ Svc!Runs(a) \/ Svc!RunEnds(a) \/ Svc!Dies(a)
      PROVE  SvcInv'
  BY <1>2, MovesPreserve DEF Moves
<1> QED
  BY <1>1, <1>2, BootPreserves, StartPreserves, ReturnsPreserves, VisitsPreserves, StopPreserves,
     IsRunningPreserves, StopAllPreserves, StopsNextPreserves, StopsPreserves, ListPreserves
     DEF Svc!Next

LEMMA SvcListed == ASSUME SvcInv PROVE Svc!ServicesAreListed
<1>1. Svc!BootsEachOnce
  <2> SUFFICES ASSUME visits = <<{}>> PROVE
        /\ Svc!ToSet(boot) = DOMAIN deps
        /\ \A i, j \in DOMAIN boot : boot[i] = boot[j] => i = j
        /\ \A n \in DOMAIN deps : deps[n] \subseteq DOMAIN deps
    BY DEF Svc!BootsEachOnce
  <2>1. visits # <<>> /\ visits[1] = {} /\ Len(visits) = 1 /\ 2..1 = {}
    OBVIOUS
  <2>2. DOMAIN boot = 1..Len(boot)
    BY LenProperties DEF SvcInv, Svc!TypeOK
  <2>3. Enumerates /\ \A i, j \in 1..Len(boot) : boot[i] = boot[j] => i = j
    BY <2>1 DEF SvcInv, BootInv
  <2>4. \A n \in DOMAIN deps : Queued(n)
    BY <2>1, <2>3 DEF Enumerates
  <2>5. \A n \in DOMAIN deps : \A d \in deps[n] : Queued(d)
    BY <2>1, <2>3, <2>4 DEF Enumerates
  <2>6. \A n : Queued(n) => n \in DOMAIN deps
    BY <2>3 DEF Enumerates, Queued
  <2>7. Svc!ToSet(boot) = {n \in DOMAIN deps : Queued(n)}
    BY <2>2, <2>6 DEF Svc!ToSet, Queued
  <2> QED
    BY <2>2, <2>3, <2>4, <2>5, <2>6, <2>7
<1>2. DOMAIN m_mapServices = 1..Len(m_mapServices)
  BY Typed, LenProperties
<1>3. Svc!RunningIsListed
  BY <1>2 DEF SvcInv, ListInv, ListOK, Alive, Away, Svc!RunningIsListed
<1>4. Svc!EntryIsBeingStarted
  BY <1>2 DEF SvcInv, ListInv, ListOK, EntryOK, Svc!EntryIsBeingStarted
<1> QED
  BY <1>1, <1>3, <1>4 DEF Svc!ServicesAreListed

LEMMA SvcRests == ASSUME SvcInv, UNCHANGED svcVars PROVE SvcInv'
  BY DEF svcVars, SvcInv, Svc!TypeOK, BootInv, Enumerates, Queued, ListInv, Away

-----------------------------------------------------------------------------
\* The registry

HiveType == [keys : SUBSET [id : Reg!Ids, name : Reg!Words, parent : 0..MaxKey],
             vals : SUBSET [key : 0..MaxKey, name : Reg!Words, value : Reg!Values],
             last : 0..MaxKey]

\* A hive's tables: ids are given in order, so that a key's is greater than its
\* parent's, and no id is given again. off are the keys made below one that was gone.
HiveOK(h, off) ==
    /\ h \in HiveType
    /\ \A r \in h.keys : r.id <= h.last /\ r.parent < r.id
    /\ \A r, q \in h.keys : r.id = q.id \/ (r.name = q.name /\ r.parent = q.parent) => r = q
    /\ \A r \in h.keys : r.id \notin off => Reg!Exists(h, r.parent)
    /\ \A w \in h.vals : Reg!Exists(h, w.key)

Off(x) == {i \in Reg!Ids : <<x, i>> \in orphans}

\* A key object names a key that its hive has or had.
RegInv ==
    /\ Reg!TypeOK
    /\ \A x \in Reg!Hives : HiveOK(hives[x], Off(x))
    /\ \A c \in Callers : \A hd \in handles[c] :
          hd.key <= hives[Reg!registry_open_hive(c, hd.type)].last

-----------------------------------------------------------------------------
\* The registry: finding a key

LEMMA OneElement == ASSUME NEW S, NEW e \in S PROVE <<e>> \in Seq(S) /\ Len(<<e>>) = 1
  OBVIOUS

LEMMA TwoElements == ASSUME NEW S, NEW d \in S, NEW e \in S PROVE <<d, e>> \in Seq(S)
  OBVIOUS

LEMMA Numbers == MaxKey \in Nat /\ MaxKey >= 4 /\ MaxChanges \in Nat
  BY RootAssumption

LEMMA PathsTyped == ASSUME NEW path \in Paths PROVE path \in Seq(Reg!Words)
<1>1. path \in Seq(STRING)
  BY RootAssumption
<1> PICK n \in Nat : n = Len(path) /\ DOMAIN path = 1..n
  BY <1>1, LenProperties
<1>2. \A i \in 1..n : path[i] \in Reg!Words
  <2>1. Reg!ToSet(path) = {path[i] : i \in 1..n}
    BY DEF Reg!ToSet
  <2>2. Reg!ToSet(path) \subseteq UNION {Reg!ToSet(p) : p \in Paths}
    OBVIOUS
  <2> QED
    BY <2>1, <2>2 DEF Reg!Words
<1>3. path \in [1..n -> STRING]
  BY <1>1, LenProperties
<1>4. path \in [1..n -> Reg!Words]
  BY <1>2, <1>3
<1> QED
  BY <1>4, SeqDef

LEMMA MaskTyped == ASSUME NEW h \in HiveType, NEW k PROVE Reg!Mask(h, k) \subseteq Reg!Rights
<1>1. \A w \in h.vals : w.value.rights \subseteq Reg!Rights
  BY DEF HiveType, Reg!Values
<1>2. \A x \in Reg!ValueOf(h, k, ".access") : x.rights \subseteq Reg!Rights
  BY <1>1 DEF Reg!ValueOf
<1>3. {"protect", "write"} \subseteq Reg!Rights
  BY DEF Reg!Rights
<1> QED
  BY <1>2, <1>3 DEF Reg!Mask

\* The walk, turn by turn.
WalkNext(h, c, hive, start, path, f, i) ==
    IF i = 0
      THEN [key |-> start, mask |-> Reg!Mask(h, start), rest |-> <<>>, link |-> Reg!Text,
            err |-> IF ~Reg!Exists(h, start) THEN "NotFound"
                    ELSE IF Reg!Passes(c, hive, Reg!Mask(h, start), "read") THEN "Ok"
                    ELSE "Denied"]
      ELSE LET w == f[i - 1]
               info == Reg!get_key_info(h, c, hive, w, path[i])
           IN  IF w.err # "Ok" THEN [w EXCEPT !.rest = Append(@, path[i])]
               ELSE IF info.err \in {"Ok", "Linked"} THEN info
               ELSE [info EXCEPT !.rest = <<path[i]>>]
WalkUpTo(h, c, hive, start, path, k, f) ==
    f = [i \in 0..k |-> WalkNext(h, c, hive, start, path, f, i)]

LEMMA WalkExists ==
    ASSUME NEW h, NEW c, NEW hive, NEW start, NEW path, NEW n \in Nat
    PROVE  \E f : WalkUpTo(h, c, hive, start, path, n, f)
<1> DEFINE S == {k \in Nat : \E f : WalkUpTo(h, c, hive, start, path, k, f)}
           N(f, i) == WalkNext(h, c, hive, start, path, f, i)
<1>0. ASSUME NEW f, NEW g, NEW i, i = 0 \/ f[i - 1] = g[i - 1] PROVE N(f, i) = N(g, i)
  <2>1. CASE i = 0
    BY <2>1, Zenon DEF WalkNext
  <2>2. CASE f[i - 1] = g[i - 1]
    BY <2>2, Zenon DEF WalkNext
  <2> QED
    BY <1>0, <2>1, <2>2
<1>1. 0 \in S
  <2> PICK f : f = [i \in 0..0 |-> N(<<>>, 0)]
    OBVIOUS
  <2>1. N(f, 0) = N(<<>>, 0)
    BY <1>0
  <2>2. f = [i \in 0..0 |-> N(f, i)]
    BY <2>1
  <2>3. WalkUpTo(h, c, hive, start, path, 0, f)
    BY <2>2 DEF WalkUpTo
  <2> QED
    BY <2>3
<1>2. ASSUME NEW k \in Nat, k \in S PROVE k + 1 \in S
  <2> PICK f : WalkUpTo(h, c, hive, start, path, k, f)
    BY <1>2
  <2> DEFINE g == [i \in 0..k + 1 |-> IF i = k + 1 THEN N(f, k + 1) ELSE f[i]]
  <2>1. \A i \in 0..k : g[i] = f[i] /\ f[i] = N(f, i)
    BY DEF WalkUpTo
  <2>2. g[k + 1] = N(f, k + 1) /\ g = [i \in 0..k + 1 |-> g[i]]
    OBVIOUS
  <2> HIDE DEF g
  <2>3. \A i \in 0..k + 1 : N(g, i) = N(f, i)
    <3>1. \A i \in 0..k + 1 : i = 0 \/ i - 1 \in 0..k
      OBVIOUS
    <3> QED
      BY <1>0, <2>1, <3>1
  <2>4. \A i \in 0..k + 1 : i = k + 1 \/ i \in 0..k
    OBVIOUS
  <2>5. \A i \in 0..k + 1 : g[i] = N(g, i)
    BY <2>1, <2>2, <2>3, <2>4
  <2>6. WalkUpTo(h, c, hive, start, path, k + 1, g)
    BY <2>2, <2>5 DEF WalkUpTo
  <2> QED
    BY <2>6
<1> HIDE DEF S
<1>3. n \in S
  BY <1>1, <1>2, Induction
<1> QED
  BY <1>3 DEF S

\* find_key is where a walk ends.
LEMMA FindKeyWalks ==
    ASSUME NEW h, NEW c, NEW hive, NEW start, NEW path, Len(path) \in Nat
    PROVE  \E f : /\ WalkUpTo(h, c, hive, start, path, Len(path), f)
                  /\ Reg!find_key(h, c, hive, start, path) = f[Len(path)]
<1> DEFINE F == CHOOSE f : WalkUpTo(h, c, hive, start, path, Len(path), f)
<1>1. WalkUpTo(h, c, hive, start, path, Len(path), F)
  BY WalkExists
<1>2. Reg!find_key(h, c, hive, start, path) = F[Len(path)]
  BY Zenon DEF Reg!find_key, WalkUpTo, WalkNext
<1> QED
  BY <1>1, <1>2

\* What a walk has at each of its turns.
Place == [key : 0..MaxKey, mask : SUBSET Reg!Rights, rest : Seq(Reg!Words), link : Reg!Values,
          err : {"Ok", "Denied", "NotFound", "Linked"}]
PlaceOK(h, start, w) == w \in Place /\ (w.key = start \/ \E r \in h.keys : r.id = w.key)

LEMMA InfoTyped ==
    ASSUME NEW h \in HiveType, NEW c, NEW hive, NEW start, NEW w, PlaceOK(h, start, w),
           NEW name \in Reg!Words
    PROVE  PlaceOK(h, start, Reg!get_key_info(h, c, hive, w, name))
<1> DEFINE links == IF name \in {".links", ".access"} THEN {} ELSE Reg!Child(h, w.key, ".links")
           lmask == UNION {Reg!Mask(h, l) : l \in links}
           keys == Reg!Child(h, w.key, name)
           all == UNION {Reg!ValueOf(h, l, name) : l \in links}
           link == CHOOSE x \in all : TRUE
           k == CHOOSE x \in keys : TRUE
<1>1. lmask \subseteq Reg!Rights /\ Reg!Mask(h, k) \subseteq Reg!Rights
  BY MaskTyped
<1>2. all \subseteq Reg!Values
  BY DEF Reg!ValueOf, HiveType
<1>3. (\E l \in links : Reg!ValueOf(h, l, name) # {}) => link \in Reg!Values
  BY <1>2
<1>4. keys # {} => \E r \in h.keys : r.id = k
  <2>1. keys # {} => k \in keys
    OBVIOUS
  <2> QED
    BY <2>1 DEF Reg!Child
<1>5. \A r \in h.keys : r.id \in 0..MaxKey
  BY Numbers DEF HiveType, Reg!Ids
<1>6. w \in Place /\ (w.key = start \/ \E r \in h.keys : r.id = w.key)
  BY DEF PlaceOK
<1> DEFINE r1 == [w EXCEPT !.err = "Denied", !.mask = lmask]
           r2 == [w EXCEPT !.err = "Linked", !.mask = lmask, !.link = link]
           r3 == [w EXCEPT !.err = "NotFound", !.mask = IF links = {} THEN w.mask ELSE lmask]
           r4 == [w EXCEPT !.key = k, !.mask = Reg!Mask(h, k),
                           !.err = IF Reg!Passes(c, hive, Reg!Mask(h, k), "read") THEN "Ok" ELSE "Denied"]
<1>7. Reg!get_key_info(h, c, hive, w, name) =
         CASE ~Reg!Passes(c, hive, lmask, "read") -> r1
           [] \E l \in links : Reg!ValueOf(h, l, name) # {} -> r2
           [] keys = {} -> r3
           [] OTHER -> r4
  BY DEF Reg!get_key_info
<1> HIDE DEF links, lmask, keys, all, link, k
<1>8. PlaceOK(h, start, r1)
  BY <1>1, <1>6 DEF Place, PlaceOK
<1>9. (\E l \in links : Reg!ValueOf(h, l, name) # {}) => PlaceOK(h, start, r2)
  BY <1>1, <1>3, <1>6 DEF Place, PlaceOK
<1>10. PlaceOK(h, start, r3)
  BY <1>1, <1>6 DEF Place, PlaceOK
<1>11. keys # {} => PlaceOK(h, start, r4)
  BY <1>1, <1>4, <1>5, <1>6 DEF Place, PlaceOK
<1> HIDE DEF r1, r2, r3, r4
<1> QED
  BY <1>7, <1>8, <1>9, <1>10, <1>11

LEMMA FindKeyTyped ==
    ASSUME NEW h \in HiveType, NEW c, NEW hive, NEW start \in 0..MaxKey, NEW path \in Seq(Reg!Words)
    PROVE  PlaceOK(h, start, Reg!find_key(h, c, hive, start, path))
<1> PICK n \in Nat : n = Len(path)
  BY LenProperties
<1>1. PICK f : /\ WalkUpTo(h, c, hive, start, path, n, f)
               /\ Reg!find_key(h, c, hive, start, path) = f[n]
  BY FindKeyWalks
<1>2. \A i \in 0..n : f[i] = WalkNext(h, c, hive, start, path, f, i)
  BY <1>1 DEF WalkUpTo
<1> DEFINE S == {i \in Nat : i <= n => PlaceOK(h, start, f[i])}
<1>3. 0 \in S
  <2>1. f[0] = WalkNext(h, c, hive, start, path, f, 0)
    BY <1>2
  <2>2. Reg!Mask(h, start) \subseteq Reg!Rights /\ Reg!Text \in Reg!Values /\ <<>> \in Seq(Reg!Words)
    BY MaskTyped DEF Reg!Text, Reg!Values
  <2>3. PlaceOK(h, start, f[0])
    BY <2>1, <2>2 DEF WalkNext, Place, PlaceOK
  <2> QED
    BY <2>3
<1>4. ASSUME NEW i \in Nat, i \in S PROVE i + 1 \in S
  <2> SUFFICES ASSUME i + 1 <= n PROVE PlaceOK(h, start, f[i + 1])
    OBVIOUS
  <2> PICK w : w = f[i]
    OBVIOUS
  <2>1. PlaceOK(h, start, w)
    BY <1>4
  <2>2. i + 1 \in 1..n /\ i + 1 \in 0..n /\ (i + 1) - 1 = i /\ i + 1 # 0
    OBVIOUS
  <2> PICK name \in Reg!Words : name = path[i + 1]
    BY <2>2, ElementOfSeq
  <2> PICK info : info = Reg!get_key_info(h, c, hive, w, name)
    OBVIOUS
  <2>3. PlaceOK(h, start, info)
    BY <2>1, InfoTyped
  <2>4. f[i + 1] = IF w.err # "Ok" THEN [w EXCEPT !.rest = Append(@, name)]
                   ELSE IF info.err \in {"Ok", "Linked"} THEN info
                   ELSE [info EXCEPT !.rest = <<name>>]
    BY <1>2, <2>2 DEF WalkNext
  <2>5. PlaceOK(h, start, [w EXCEPT !.rest = Append(@, name)])
    <3> PICK rest \in Seq(Reg!Words) : rest = Append(w.rest, name)
      <4>1. w.rest \in Seq(Reg!Words)
        BY <2>1 DEF Place, PlaceOK
      <4> QED
        BY <4>1, AppendProperties
    <3>1. [w EXCEPT !.rest = Append(@, name)] = [w EXCEPT !.rest = rest]
      OBVIOUS
    <3> QED
      BY <2>1, <3>1 DEF Place, PlaceOK
  <2>6. PlaceOK(h, start, [info EXCEPT !.rest = <<name>>])
    <3> PICK rest \in Seq(Reg!Words) : rest = <<name>>
      BY OneElement
    <3> QED
      BY <2>3 DEF Place, PlaceOK
  <2> QED
    BY <2>3, <2>4, <2>5, <2>6
<1> HIDE DEF S
<1>5. n \in S
  BY <1>3, <1>4, Induction
<1> QED
  BY <1>1, <1>5 DEF S

\* Where a request leads: to a hive of the caller's, and to a key it has there,
\* the one to start from, or where the second walk starts.
FollowOK(hs, c, type, start, again, w) ==
    /\ w.type \in {0, 1} /\ w.hive = Reg!registry_open_hive(c, w.type) /\ w.hive \in Reg!Hives
    /\ w.key \in 0..MaxKey /\ w.mask \subseteq Reg!Rights /\ w.rest \in Seq(Reg!Words)
    /\ \/ \E r \in hs[w.hive].keys : r.id = w.key
       \/ w.type = type /\ w.key = start
       \/ w.key = again

LEMMA HivesTyped ==
    ASSUME NEW c \in Callers, NEW type \in {0, 1}
    PROVE  Reg!registry_open_hive(c, type) \in Reg!Hives
  BY DEF Reg!registry_open_hive, Reg!Hives

LEMMA FollowTyped ==
    ASSUME NEW hs, \A x \in Reg!Hives : hs[x] \in HiveType, NEW c \in Callers, NEW type \in {0, 1},
           NEW start \in 0..MaxKey, NEW again \in 0..MaxKey, NEW path \in Seq(Reg!Words)
    PROVE  FollowOK(hs, c, type, start, again, Reg!follow(hs, c, type, start, again, path))
<1> DEFINE hive == Reg!registry_open_hive(c, type)
           there == Reg!registry_open_hive(c, 1)
           w == Reg!find_key(hs[hive], c, hive, start, path)
           rest == IF c = Sandbox THEN <<"System", "Sandbox">> \o w.rest ELSE w.rest
           w2 == Reg!find_key(hs[there], c, there, again, rest)
           ty == IF c = Sandbox THEN 0 ELSE 1
           a == [hive |-> there, type |-> ty, linked |-> TRUE,
                 err |-> w2.err, key |-> w2.key, mask |-> w2.mask, rest |-> w2.rest]
           b == [hive |-> hive, type |-> type, linked |-> FALSE,
                 err |-> w.err, key |-> w.key, mask |-> w.mask, rest |-> w.rest]
<1>1. hive \in Reg!Hives /\ there \in Reg!Hives
  BY HivesTyped
<1>2. ty \in {0, 1} /\ there = Reg!registry_open_hive(c, ty)
  BY DEF Reg!registry_open_hive
<1>3. Reg!follow(hs, c, type, start, again, path) =
         IF w.err = "Linked" /\ type = 0 /\ w.link.link = "system:user/" THEN a ELSE b
  BY Zenon DEF Reg!follow
<1> HIDE DEF hive, there, ty
<1>4. PlaceOK(hs[hive], start, w)
  BY <1>1, FindKeyTyped
<1>5. rest \in Seq(Reg!Words)
  <2>1. w.rest \in Seq(Reg!Words)
    BY <1>4 DEF PlaceOK, Place
  <2>2. <<"System", "Sandbox">> \in Seq(Reg!Words)
    <3>1. "System" \in Reg!Words /\ "Sandbox" \in Reg!Words
      BY DEF Reg!Words
    <3> QED
      BY <3>1, TwoElements
  <2> HIDE DEF w
  <2> QED
    BY <2>1, <2>2, ConcatProperties
<1> HIDE DEF rest
<1>6. PlaceOK(hs[there], again, w2)
  BY <1>1, <1>5, FindKeyTyped
<1> HIDE DEF w, w2
<1>7. FollowOK(hs, c, type, start, again, a)
  BY <1>1, <1>2, <1>6 DEF FollowOK, PlaceOK, Place
<1>8. FollowOK(hs, c, type, start, again, b)
  <2>1. hive = Reg!registry_open_hive(c, type)
    BY DEF hive
  <2> QED
    BY <1>1, <1>4, <2>1 DEF FollowOK, PlaceOK, Place
<1> HIDE DEF a, b
<1> QED
  BY <1>3, <1>7, <1>8

-----------------------------------------------------------------------------
\* The registry: the keys below a key

AboveNext(h, f, i) == {i} \cup UNION {f[r.parent] : r \in {q \in h.keys : q.id = i}}
AboveUpTo(h, k, f) == f = [i \in 0..k |-> AboveNext(h, f, i)]

LEMMA AboveExists ==
    ASSUME NEW h \in HiveType, \A r \in h.keys : r.parent < r.id, NEW n \in Nat
    PROVE  \E f : AboveUpTo(h, n, f)
<1> DEFINE S == {k \in Nat : \E f : AboveUpTo(h, k, f)}
           A(f, i) == AboveNext(h, f, i)
<1>0. \A r \in h.keys : r.id \in Nat \ {0} /\ r.parent \in Nat /\ r.parent < r.id
  BY Numbers DEF HiveType, Reg!Ids
<1>1. 0 \in S
  <2> PICK f : f = [i \in 0..0 |-> {0}]
    OBVIOUS
  <2>1. {q \in h.keys : q.id = 0} = {}
    BY <1>0
  <2>2. A(f, 0) = {0}
    BY <2>1 DEF AboveNext
  <2>3. f = [i \in 0..0 |-> A(f, i)]
    BY <2>2
  <2>4. AboveUpTo(h, 0, f)
    BY <2>3 DEF AboveUpTo
  <2> QED
    BY <2>4
<1>2. ASSUME NEW k \in Nat, k \in S PROVE k + 1 \in S
  <2> PICK f : AboveUpTo(h, k, f)
    BY <1>2
  <2> DEFINE g == [i \in 0..k + 1 |-> IF i = k + 1 THEN A(f, k + 1) ELSE f[i]]
  <2>1. \A i \in 0..k : g[i] = f[i] /\ f[i] = A(f, i)
    BY DEF AboveUpTo
  <2>2. g[k + 1] = A(f, k + 1) /\ g = [i \in 0..k + 1 |-> g[i]]
    OBVIOUS
  <2> HIDE DEF g
  <2>3. ASSUME NEW i \in 0..k + 1 PROVE A(g, i) = A(f, i)
    <3>1. \A r \in {q \in h.keys : q.id = i} : g[r.parent] = f[r.parent]
      <4>1. \A r \in {q \in h.keys : q.id = i} : r.parent \in 0..k
        BY <1>0
      <4> QED
        BY <2>1, <4>1
    <3> QED
      BY <3>1 DEF AboveNext
  <2>4. \A i \in 0..k + 1 : i = k + 1 \/ i \in 0..k
    OBVIOUS
  <2>5. \A i \in 0..k + 1 : g[i] = A(g, i)
    BY <2>1, <2>2, <2>3, <2>4
  <2>6. AboveUpTo(h, k + 1, g)
    BY <2>2, <2>5 DEF AboveUpTo
  <2> QED
    BY <2>6
<1> HIDE DEF S
<1>3. n \in S
  BY <1>1, <1>2, Induction
<1> QED
  BY <1>3 DEF S

\* What is below what is below a key is below the key, which is below itself.
LEMMA SubtreeClosed ==
    ASSUME NEW h \in HiveType, \A r \in h.keys : r.parent < r.id, NEW k
    PROVE  /\ Reg!Subtree(h, k) \subseteq Reg!Ids
           /\ \A r \in h.keys : r.parent \in Reg!Subtree(h, k) => r.id \in Reg!Subtree(h, k)
           /\ k \in Reg!Ids /\ Reg!Exists(h, k) => k \in Reg!Subtree(h, k)
<1> DEFINE F == CHOOSE f : AboveUpTo(h, MaxKey, f)
<1>1. AboveUpTo(h, MaxKey, F)
  BY Numbers, AboveExists
<1>2. Reg!Subtree(h, k) = {i \in Reg!Ids : k \in F[i] /\ Reg!Exists(h, i)}
  BY Zenon DEF Reg!Subtree, AboveUpTo, AboveNext
<1> HIDE DEF F
<1>3. \A i \in Reg!Ids : F[i] = {i} \cup UNION {F[r.parent] : r \in {q \in h.keys : q.id = i}}
  <2>1. \A i \in 0..MaxKey : F[i] = AboveNext(h, F, i)
    BY <1>1 DEF AboveUpTo
  <2>2. Reg!Ids \subseteq 0..MaxKey
    BY Numbers DEF Reg!Ids
  <2> QED
    BY <2>1, <2>2 DEF AboveNext
<1>4. ASSUME NEW r \in h.keys, r.parent \in Reg!Subtree(h, k) PROVE r.id \in Reg!Subtree(h, k)
  <2>1. r.id \in Reg!Ids /\ Reg!Exists(h, r.id)
    BY DEF HiveType, Reg!Exists
  <2>2. k \in F[r.parent]
    BY <1>2, <1>4
  <2>3. F[r.parent] \subseteq F[r.id]
    BY <1>3, <2>1
  <2> QED
    BY <1>2, <2>1, <2>2, <2>3
<1>5. k \in Reg!Ids => k \in F[k]
  BY <1>3
<1> QED
  BY <1>2, <1>4, <1>5

-----------------------------------------------------------------------------
\* The registry: changing a hive

\* create_key, below a key that its hive has or had and that has no such key yet.
LEMMA Creates ==
    ASSUME NEW h, NEW off, HiveOK(h, off), NEW w, w.key \in 0..h.last, w.mask \subseteq Reg!Rights,
           w.rest \in Seq(Reg!Words), w.rest # <<>> => Reg!Child(h, w.key, Head(w.rest)) = {},
           LET to == Reg!create_key(h, w).hive IN to # h => to.last <= MaxKey,
           NEW off2, off \subseteq off2,
           Reg!Exists(h, w.key) \/ w.rest = <<>> \/ h.last + 1 \in off2
    PROVE  LET new == Reg!create_key(h, w) IN
           /\ HiveOK(new.hive, off2) /\ h.last <= new.hive.last
           /\ new.key \in 0..new.hive.last
           /\ w.rest # <<>> => h.last + 1 \in Reg!Ids
<1> PICK n \in Nat : n = Len(w.rest)
  BY LenProperties
<1> DEFINE mask == w.mask \ {"protect"}
           Id(i) == IF i = 0 THEN w.key ELSE h.last + i
           rows == {Reg!KeyRow(Id(i), w.rest[i], Id(i - 1)) : i \in 1..n}
           vals == IF mask = {} THEN {}
                   ELSE {Reg!ValueRow(Id(i), ".access", Reg!MaskText(mask)) : i \in 1..n}
           to == [keys |-> h.keys \cup rows, vals |-> h.vals \cup vals, last |-> h.last + n]
           new == Reg!create_key(h, w)
<1>1. new.hive = to /\ new.key = Id(n)
  BY DEF Reg!create_key
<1>2. h \in HiveType /\ h.last \in 0..MaxKey
  BY DEF HiveOK, HiveType
<1>3. ASSUME NEW r \in rows
      PROVE  \E i \in 1..n : r.id = Id(i) /\ r.name = w.rest[i] /\ r.parent = Id(i - 1)
  <2> HIDE DEF Id
  <2>1. PICK i \in 1..n : r = Reg!KeyRow(Id(i), w.rest[i], Id(i - 1))
    BY <1>3
  <2> QED
    BY <2>1 DEF Reg!KeyRow
<1>4. \A i \in 1..n : \E r \in rows : r.id = Id(i)
  <2> HIDE DEF Id
  <2>1. \A i \in 1..n : Reg!KeyRow(Id(i), w.rest[i], Id(i - 1)) \in rows
    OBVIOUS
  <2>2. \A i \in 1..n : Reg!KeyRow(Id(i), w.rest[i], Id(i - 1)).id = Id(i)
    BY DEF Reg!KeyRow
  <2> QED
    BY <2>1, <2>2
<1>5. ASSUME NEW x \in vals
      PROVE  \E i \in 1..n : x.key = Id(i) /\ x \in [key : {Id(i)}, name : Reg!Words, value : Reg!Values]
  <2>1. Reg!MaskText(mask) \in Reg!Values
    BY DEF Reg!MaskText, Reg!Values
  <2>2. ".access" \in Reg!Words
    BY DEF Reg!Words
  <2> HIDE DEF Id
  <2> QED
    BY <1>5, <2>1, <2>2 DEF Reg!ValueRow
<1>6. ASSUME n # 0 PROVE h.last + n <= MaxKey
  <2>1. to.last # h.last
    BY <1>2, <1>6
  <2> QED
    BY <1>1, <2>1
<1>7. \A i \in 0..n : Id(i) \in 0..h.last + n /\ Id(i) \in 0..MaxKey
  BY <1>2, <1>6, Numbers
<1>8. \A i \in 1..n : /\ Id(i) = h.last + i /\ Id(i) \in Reg!Ids /\ Id(i - 1) < Id(i)
                      /\ Id(i - 1) \in 0..MaxKey /\ i - 1 \in 0..n
                      /\ i # 1 => Id(i - 1) = h.last + i - 1 /\ i - 1 \in 1..n
  <2> SUFFICES ASSUME NEW i \in 1..n
               PROVE  /\ Id(i) = h.last + i /\ Id(i) \in Reg!Ids /\ Id(i - 1) < Id(i)
                      /\ Id(i - 1) \in 0..MaxKey /\ i - 1 \in 0..n
                      /\ i # 1 => Id(i - 1) = h.last + i - 1 /\ i - 1 \in 1..n
    OBVIOUS
  <2>1. i - 1 \in 0..n /\ i # 0 /\ i \in 0..n
    OBVIOUS
  <2>2. Id(i - 1) \in 0..MaxKey /\ Id(i) \in 0..MaxKey
    BY <1>7, <2>1
  <2>3. Id(i) = h.last + i /\ h.last \in Nat
    BY <1>2
  <2>4. Id(i) \in Reg!Ids
    BY <2>2, <2>3, Numbers DEF Reg!Ids
  <2>5. CASE i = 1
    BY <1>2, <2>1, <2>2, <2>3, <2>4, <2>5
  <2>6. CASE i # 1
    BY <1>2, <2>1, <2>2, <2>3, <2>4, <2>6
  <2> QED
    BY <2>5, <2>6
<1>9. Id(0) = w.key /\ \A i \in 1..n : w.rest[i] \in Reg!Words
  BY ElementOfSeq
<1> HIDE DEF Id
<1>10. rows \subseteq [id : Reg!Ids, name : Reg!Words, parent : 0..MaxKey]
  BY <1>8, <1>9 DEF Reg!KeyRow
<1> HIDE DEF rows, vals
<1>11. vals \subseteq [key : 0..MaxKey, name : Reg!Words, value : Reg!Values]
  <2> SUFFICES ASSUME NEW x \in vals PROVE x \in [key : 0..MaxKey, name : Reg!Words, value : Reg!Values]
    OBVIOUS
  <2>1. PICK i \in 1..n : x.key = Id(i) /\ x \in [key : {Id(i)}, name : Reg!Words, value : Reg!Values]
    BY <1>5
  <2>2. Id(i) \in 0..MaxKey
    BY <1>8, Numbers DEF Reg!Ids
  <2> QED
    BY <2>1, <2>2
<1>12. to \in HiveType
  <2>1. h.last + n \in 0..MaxKey
    BY <1>2, <1>6
  <2> QED
    BY <1>2, <1>10, <1>11, <2>1 DEF HiveType
<1>13. \A r \in h.keys : r.id \in Nat /\ r.id <= h.last /\ r.parent \in Nat /\ r.parent < r.id
  BY <1>2, Numbers DEF HiveOK, HiveType, Reg!Ids
<1>14. \A r \in to.keys : r.id <= to.last /\ r.parent < r.id
  <2> SUFFICES ASSUME NEW r \in to.keys PROVE r.id <= h.last + n /\ r.parent < r.id
    OBVIOUS
  <2>1. CASE r \in h.keys
    BY <1>2, <1>13, <2>1
  <2>2. CASE r \in rows
    <3>1. PICK i \in 1..n : r.id = Id(i) /\ r.parent = Id(i - 1)
      BY <1>3, <2>2
    <3> QED
      BY <1>2, <1>8, <3>1
  <2> QED
    BY <2>1, <2>2
<1>15. ASSUME NEW r \in to.keys, NEW q \in to.keys,
              r.id = q.id \/ (r.name = q.name /\ r.parent = q.parent)
       PROVE  r = q
  <2>1. ASSUME NEW d \in h.keys, NEW e \in rows
        PROVE  d.id # e.id /\ ~(d.name = e.name /\ d.parent = e.parent)
    <3>1. PICK i \in 1..n : e.id = Id(i) /\ e.name = w.rest[i] /\ e.parent = Id(i - 1)
      BY <1>3, <2>1
    <3>2. d.id # e.id
      BY <1>2, <1>8, <1>13, <3>1
    <3>3. CASE i = 1
      <4>1. e.parent = w.key /\ w.rest # <<>> /\ e.name = Head(w.rest)
        BY <1>9, <3>1, <3>3, HeadTailProperties
      <4>2. \A z \in h.keys : ~(z.parent = w.key /\ z.name = Head(w.rest))
        BY <4>1 DEF Reg!Child
      <4> QED
        BY <3>2, <4>1, <4>2
    <3>4. CASE i # 1
      BY <1>2, <1>8, <1>13, <3>1, <3>2, <3>4
    <3> QED
      BY <3>3, <3>4
  <2>2. CASE r \in h.keys /\ q \in h.keys
    BY <1>15, <2>2 DEF HiveOK
  <2>3. CASE r \in rows /\ q \in rows
    <3>1. PICK i \in 1..n : r.id = Id(i) /\ r.name = w.rest[i] /\ r.parent = Id(i - 1)
      BY <1>3, <2>3
    <3>2. PICK j \in 1..n : q.id = Id(j) /\ q.name = w.rest[j] /\ q.parent = Id(j - 1)
      BY <1>3, <2>3
    <3>3. i = j
      <4>1. CASE r.id = q.id
        <5>1. Id(i) = h.last + i /\ Id(j) = h.last + j /\ h.last \in Nat
          BY <1>2, <1>8
        <5>2. \A L \in Nat : L + i = L + j => i = j
          OBVIOUS
        <5>3. h.last + i = h.last + j
          BY <3>1, <3>2, <4>1, <5>1
        <5> QED
          BY <5>1, <5>2, <5>3
      <4>2. CASE r.parent = q.parent
        <5>1. ASSUME NEW l \in 1..n PROVE Id(l - 1) <= h.last <=> l = 1
          <6>1. CASE l = 1
            BY <1>9, <6>1
          <6>2. CASE l # 1
            BY <1>2, <1>8, <6>2
          <6> QED
            BY <6>1, <6>2
        <5>2. CASE i = 1 \/ j = 1
          BY <3>1, <3>2, <4>2, <5>1, <5>2
        <5>3. CASE i # 1 /\ j # 1
          BY <1>2, <1>8, <3>1, <3>2, <4>2, <5>3
        <5> QED
          BY <5>2, <5>3
      <4> QED
        BY <1>15, <4>1, <4>2
    <3>4. r \in [id : Reg!Ids, name : Reg!Words, parent : 0..MaxKey]
          /\ q \in [id : Reg!Ids, name : Reg!Words, parent : 0..MaxKey]
      BY <1>10, <2>3
    <3> QED
      BY <3>1, <3>2, <3>3, <3>4
  <2> QED
    BY <1>15, <2>1, <2>2, <2>3
<1>16. \A k : Reg!Exists(h, k) => Reg!Exists(to, k)
  BY DEF Reg!Exists
<1>17. \A i \in 1..n : Reg!Exists(to, Id(i))
  BY <1>4 DEF Reg!Exists
<1>18. \A r \in to.keys : r.id \notin off2 => Reg!Exists(to, r.parent)
  <2> SUFFICES ASSUME NEW r \in to.keys, r.id \notin off2 PROVE Reg!Exists(to, r.parent)
    OBVIOUS
  <2>1. CASE r \in h.keys
    BY <1>16, <2>1 DEF HiveOK
  <2>2. CASE r \in rows
    <3>1. PICK i \in 1..n : r.id = Id(i) /\ r.parent = Id(i - 1)
      BY <1>3, <2>2
    <3>2. CASE i = 1
      <4>1. r.id = h.last + 1 /\ r.parent = w.key /\ w.rest # <<>>
        BY <1>8, <1>9, <3>1, <3>2, EmptySeq
      <4> QED
        BY <1>16, <4>1
    <3>3. CASE i # 1
      BY <1>8, <1>17, <3>1, <3>3
    <3> QED
      BY <3>2, <3>3
  <2> QED
    BY <2>1, <2>2
<1>19. \A x \in to.vals : Reg!Exists(to, x.key)
  <2> SUFFICES ASSUME NEW x \in to.vals PROVE Reg!Exists(to, x.key)
    OBVIOUS
  <2>1. CASE x \in h.vals
    BY <1>16, <2>1 DEF HiveOK
  <2>2. CASE x \in vals
    BY <1>5, <1>17, <2>2
  <2> QED
    BY <2>1, <2>2
<1>20. h.last <= to.last /\ Id(n) \in 0..to.last
  BY <1>2, <1>7
<1>21. w.rest # <<>> => h.last + 1 \in Reg!Ids
  <2> SUFFICES ASSUME w.rest # <<>> PROVE h.last + 1 \in Reg!Ids
    OBVIOUS
  <2>1. 1 \in 1..n
    BY EmptySeq
  <2> QED
    BY <1>8, <2>1
<1>22. HiveOK(to, off2)
  <2> HIDE DEF to
  <2> QED
    BY <1>12, <1>14, <1>15, <1>18, <1>19 DEF HiveOK
<1> HIDE DEF to, new
<1> QED
  BY <1>1, <1>20, <1>21, <1>22 DEF new

LEMMA Deletes ==
    ASSUME NEW h, NEW off, HiveOK(h, off), NEW k
    PROVE  /\ HiveOK(Reg!delete_key(h, k), off) /\ Reg!delete_key(h, k).last = h.last
           /\ Reg!delete_key(h, k).keys = {r \in h.keys : r.id \notin Reg!Subtree(h, k)}
<1> PICK gone : gone = Reg!Subtree(h, k)
  OBVIOUS
<1> PICK to : to = Reg!delete_key(h, k)
  OBVIOUS
<1>1. h \in HiveType /\ \A r \in h.keys : r.parent < r.id
  BY DEF HiveOK
<1>2. gone \subseteq Reg!Ids /\ \A r \in h.keys : r.parent \in gone => r.id \in gone
  BY <1>1, SubtreeClosed
<1>3. /\ to.keys = {r \in h.keys : r.id \notin gone} /\ to.last = h.last
      /\ to.vals = {x \in h.vals : x.key \notin gone} /\ to \in HiveType
  BY <1>1 DEF Reg!delete_key, HiveType
<1>4. \A j : Reg!Exists(h, j) /\ j \notin gone => Reg!Exists(to, j)
  BY <1>3 DEF Reg!Exists
<1>5. \A r \in to.keys : r.id \notin off => Reg!Exists(to, r.parent)
  BY <1>2, <1>3, <1>4 DEF HiveOK
<1>6. \A x \in to.vals : Reg!Exists(to, x.key)
  BY <1>3, <1>4 DEF HiveOK
<1>7. HiveOK(to, off)
  BY <1>3, <1>5, <1>6 DEF HiveOK
<1> QED
  BY <1>3, <1>7

\* Values change, of a key that is there.
LEMMA Revalues ==
    ASSUME NEW h, NEW off, HiveOK(h, off), NEW vals, NEW k, Reg!Exists(h, k), k \in 0..MaxKey,
           \A x \in vals : x \in h.vals \/ (x.key = k /\ x \in [key : 0..MaxKey, name : Reg!Words, value : Reg!Values])
    PROVE  HiveOK([h EXCEPT !.vals = vals], off) /\ [h EXCEPT !.vals = vals].last = h.last
<1> PICK to : to = [h EXCEPT !.vals = vals]
  OBVIOUS
<1>1. h \in HiveType
  BY DEF HiveOK
<1>2. to.keys = h.keys /\ to.last = h.last /\ to.vals = vals /\ to \in HiveType
  BY <1>1 DEF HiveType
<1>3. \A j : Reg!Exists(to, j) <=> Reg!Exists(h, j)
  BY <1>2 DEF Reg!Exists
<1> QED
  BY <1>2, <1>3 DEF HiveOK

-----------------------------------------------------------------------------
\* The registry: what callers do

LEMMA HivesAre == ASSUME RegInv, NEW x \in Reg!Hives
    PROVE hives[x] \in HiveType /\ hives[x].last \in 0..MaxKey /\ HiveOK(hives[x], Off(x))
  BY DEF RegInv, HiveOK, HiveType

LEMMA OffGrows == ASSUME NEW h, NEW off, NEW off2, off \subseteq off2, HiveOK(h, off)
    PROVE HiveOK(h, off2)
  BY DEF HiveOK

\* One hive changes, and the key objects of a caller.
LEMMA HiveChanges ==
    ASSUME RegInv, NEW x \in Reg!Hives, NEW h, hives' = [hives EXCEPT ![x] = h],
           changes' \in 0..MaxChanges, orphans' \subseteq Reg!Hives \X Reg!Ids, orphans \subseteq orphans',
           HiveOK(h, Off(x)'), hives[x].last <= h.last,
           handles' \in [Callers -> SUBSET Reg!Handles],
           \A c \in Callers : \A hd \in handles'[c] :
               hd \in handles[c] \/ hd.key <= hives'[Reg!registry_open_hive(c, hd.type)].last
    PROVE  RegInv'
<1>1. hives \in [Reg!Hives -> HiveType]
  BY DEF RegInv, Reg!TypeOK, HiveType
<1>2. h \in HiveType
  BY DEF HiveOK
<1>3. hives' \in [Reg!Hives -> HiveType] /\ hives'[x] = h
      /\ \A y \in Reg!Hives : y # x => hives'[y] = hives[y]
  BY <1>1, <1>2
<1>4. \A y \in Reg!Hives : Off(y) \subseteq Off(y)'
  BY DEF Off
<1>5. \A y \in Reg!Hives : HiveOK(hives'[y], Off(y)')
  BY <1>3, <1>4, HivesAre, OffGrows
<1>6. ASSUME NEW c \in Callers, NEW hd \in handles'[c]
      PROVE  hd.key <= hives'[Reg!registry_open_hive(c, hd.type)].last
  <2> SUFFICES ASSUME hd \in handles[c] PROVE hd.key <= hives'[Reg!registry_open_hive(c, hd.type)].last
    BY <1>6
  <2> DEFINE y == Reg!registry_open_hive(c, hd.type)
  <2>1. hd \in Reg!Handles /\ hd.type \in {0, 1} /\ hd.key \in 0..MaxKey /\ hd.key <= hives[y].last
    BY DEF RegInv, Reg!TypeOK, Reg!Handles
  <2>2. y \in Reg!Hives
    BY <2>1, HivesTyped
  <2> HIDE DEF y
  <2>3. hives[y].last \in Nat /\ hives'[y].last \in Nat /\ hives[y].last <= hives'[y].last
    <3>1. hives[y] \in HiveType /\ hives'[y] \in HiveType
      BY <1>1, <1>3, <2>2
    <3>2. hives[y].last \in Nat /\ hives'[y].last \in Nat
      BY <3>1, Numbers DEF HiveType
    <3>3. y = x \/ hives'[y] = hives[y]
      BY <1>3, <2>2
    <3> QED
      BY <1>3, <3>2, <3>3
  <2>4. hd.key <= hives'[y].last
    <3> PICK p \in Nat : p = hd.key
      BY <2>1, Numbers
    <3> PICK l \in Nat : l = hives[y].last
      BY <2>3
    <3> PICK l2 \in Nat : l2 = hives'[y].last
      BY <2>3
    <3> QED
      BY <2>1, <2>3
  <2> QED
    BY <2>4 DEF y
<1>7. Reg!TypeOK'
  BY <1>3 DEF Reg!TypeOK, HiveType
<1> QED
  BY <1>5, <1>6, <1>7 DEF RegInv

LEMMA HoldTyped ==
    ASSUME RegInv, NEW c \in Callers, NEW type \in {0, 1}, NEW key \in 0..MaxKey, Reg!Hold(c, type, key)
    PROVE  /\ handles' \in [Callers -> SUBSET Reg!Handles]
           /\ \A d \in Callers : \A hd \in handles'[d] :
                 hd \in handles[d] \/ (d = c /\ hd.type = type /\ hd.key = key)
<1> PICK new : new = [type |-> type, key |-> key]
  OBVIOUS
<1>1. new \in Reg!Handles /\ new.type = type /\ new.key = key
  BY DEF Reg!Handles
<1>2. handles \in [Callers -> SUBSET Reg!Handles]
  BY DEF RegInv, Reg!TypeOK
<1>3. handles' = handles \/ handles' = [handles EXCEPT ![c] = @ \cup {new}]
  BY DEF Reg!Hold
<1> QED
  BY <1>1, <1>2, <1>3

LEMMA FromTyped ==
    ASSUME RegInv, NEW c \in Callers, NEW from \in Reg!From(c)
    PROVE  /\ from.type \in {0, 1} /\ from.key \in 0..MaxKey
           /\ Reg!registry_open_hive(c, from.type) \in Reg!Hives
           /\ from.key <= hives[Reg!registry_open_hive(c, from.type)].last
<1>1. CASE from \in handles[c]
  <2>1. from \in Reg!Handles /\ from.key <= hives[Reg!registry_open_hive(c, from.type)].last
    BY <1>1 DEF RegInv, Reg!TypeOK
  <2>2. from.type \in {0, 1} /\ from.key \in 0..MaxKey
    BY <2>1 DEF Reg!Handles
  <2> QED
    BY <2>1, <2>2, HivesTyped
<1>2. CASE from = Reg!Root
  <2>1. from.type = 0 /\ from.key = 0
    BY <1>2 DEF Reg!Root
  <2>2. Reg!registry_open_hive(c, from.type) \in Reg!Hives
    BY <2>1, HivesTyped
  <2>3. hives[Reg!registry_open_hive(c, from.type)].last \in 0..MaxKey
    BY <2>2, HivesAre
  <2>4. 0 <= hives[Reg!registry_open_hive(c, from.type)].last
    BY <2>3
  <2> QED
    BY <2>1, <2>2, <2>4, Numbers
<1> QED
  BY <1>1, <1>2 DEF Reg!From

\* Where opening a key ends is in a hive of the caller's, at a key that is or was
\* there.
LEMMA OpenedTyped ==
    ASSUME RegInv, NEW c \in Callers, NEW from \in Reg!From(c), NEW path \in Paths,
           NEW w, w = Reg!Opened(hives, c, from, path)
    PROVE  /\ w.type \in {0, 1} /\ w.hive = Reg!registry_open_hive(c, w.type) /\ w.hive \in Reg!Hives
           /\ w.key \in 0..MaxKey /\ w.key \in 0..hives[w.hive].last
           /\ w.mask \subseteq Reg!Rights /\ w.rest \in Seq(Reg!Words)
<1>1. FollowOK(hives, c, from.type, from.key, 0, w)
  <2>1. \A x \in Reg!Hives : hives[x] \in HiveType
    BY HivesAre
  <2>2. from.type \in {0, 1} /\ from.key \in 0..MaxKey /\ 0 \in 0..MaxKey
    BY FromTyped, Numbers
  <2>3. path \in Seq(Reg!Words)
    BY PathsTyped
  <2> QED
    BY <2>1, <2>2, <2>3, FollowTyped DEF Reg!Opened
<1>2. /\ w.type \in {0, 1} /\ w.hive = Reg!registry_open_hive(c, w.type) /\ w.hive \in Reg!Hives
      /\ w.key \in 0..MaxKey /\ w.mask \subseteq Reg!Rights /\ w.rest \in Seq(Reg!Words)
      /\ \/ \E r \in hives[w.hive].keys : r.id = w.key
         \/ w.type = from.type /\ w.key = from.key
         \/ w.key = 0
  BY <1>1 DEF FollowOK
<1>3. HiveOK(hives[w.hive], Off(w.hive)) /\ hives[w.hive].last \in 0..MaxKey
  BY <1>2, HivesAre
<1>4. w.key <= hives[w.hive].last
  <2>1. CASE \E r \in hives[w.hive].keys : r.id = w.key
    BY <1>3, <2>1 DEF HiveOK
  <2>2. CASE w.type = from.type /\ w.key = from.key
    BY <1>2, <2>2, FromTyped
  <2>3. CASE w.key = 0
    BY <1>3, <2>3
  <2> QED
    BY <1>2, <2>1, <2>2, <2>3
<1>5. w.key \in Nat /\ hives[w.hive].last \in Nat
  BY <1>2, <1>3, Numbers
<1>6. w.key \in 0..hives[w.hive].last
  BY <1>4, <1>5
<1> QED
  BY <1>2, <1>6

LEMMA ChangeTyped ==
    ASSUME RegInv, NEW x \in Reg!Hives, NEW h, Reg!Change(x, h)
    PROVE  /\ hives' = [hives EXCEPT ![x] = h] /\ changes' \in 0..MaxChanges
           /\ h # hives[x] => h.last <= MaxKey
<1>1. changes \in 0..MaxChanges
  BY DEF RegInv, Reg!TypeOK
<1> QED
  BY <1>1, Numbers DEF Reg!Change

LEMMA OpenKeyPreserves ==
    ASSUME RegInv, NEW c \in Callers, NEW from \in Reg!From(c), NEW path \in Paths,
           Reg!OpenKey(c, from, path)
    PROVE  RegInv'
<1> PICK w : w = Reg!Opened(hives, c, from, path)
  OBVIOUS
<1>1. Reg!Hold(c, w.type, w.key) /\ UNCHANGED <<hives, changes, orphans>>
  BY DEF Reg!OpenKey
<1>2. /\ w.type \in {0, 1} /\ w.hive = Reg!registry_open_hive(c, w.type)
      /\ w.key \in 0..MaxKey /\ w.key \in 0..hives[w.hive].last
  BY OpenedTyped
<1>3. /\ handles' \in [Callers -> SUBSET Reg!Handles]
      /\ \A d \in Callers : \A hd \in handles'[d] :
            hd \in handles[d] \/ (d = c /\ hd.type = w.type /\ hd.key = w.key)
  BY <1>1, <1>2, HoldTyped
<1>4. w.key <= hives[w.hive].last
  BY <1>2
<1>5. \A d \in Callers : \A hd \in handles'[d] :
          hd.key <= hives'[Reg!registry_open_hive(d, hd.type)].last
  BY <1>1, <1>2, <1>3, <1>4 DEF RegInv
<1>6. \A x \in Reg!Hives : HiveOK(hives'[x], Off(x)')
  BY <1>1, HivesAre DEF Off
<1> QED
  BY <1>1, <1>3, <1>5, <1>6 DEF RegInv, Reg!TypeOK

LEMMA CreateKeyPreserves ==
    ASSUME RegInv, NEW c \in Callers, NEW from \in Reg!From(c), NEW path \in Paths,
           Reg!CreateKey(c, from, path)
    PROVE  RegInv'
<1> PICK w : w = Reg!Opened(hives, c, from, path)
  OBVIOUS
<1> PICK x : x = w.hive
  OBVIOUS
<1> PICK new : new = Reg!create_key(hives[x], w)
  OBVIOUS
<1>1. /\ w.rest # <<>> => Reg!Child(hives[x], w.key, Head(w.rest)) = {}
      /\ Reg!Change(x, new.hive) /\ Reg!Hold(c, w.type, new.key)
      /\ orphans' = IF Reg!Exists(hives[x], w.key) \/ w.rest = <<>> THEN orphans
                    ELSE orphans \cup {<<x, hives[x].last + 1>>}
  BY DEF Reg!CreateKey
<1>2. /\ w.type \in {0, 1} /\ x = Reg!registry_open_hive(c, w.type) /\ x \in Reg!Hives
      /\ w.key \in 0..hives[x].last
      /\ w.mask \subseteq Reg!Rights /\ w.rest \in Seq(Reg!Words)
  BY OpenedTyped
<1>3. /\ hives' = [hives EXCEPT ![x] = new.hive] /\ changes' \in 0..MaxChanges
      /\ new.hive # hives[x] => new.hive.last <= MaxKey
  BY <1>1, <1>2, ChangeTyped
<1>4. HiveOK(hives[x], Off(x)) /\ hives[x].last \in 0..MaxKey
  BY <1>2, HivesAre
<1> DEFINE off2 == IF Reg!Exists(hives[x], w.key) \/ w.rest = <<>> THEN Off(x)
                   ELSE Off(x) \cup {hives[x].last + 1}
<1>5. Off(x) \subseteq off2 /\ (Reg!Exists(hives[x], w.key) \/ w.rest = <<>> \/ hives[x].last + 1 \in off2)
  OBVIOUS
<1>6. /\ HiveOK(new.hive, off2) /\ hives[x].last <= new.hive.last
      /\ new.key \in 0..new.hive.last
      /\ w.rest # <<>> => hives[x].last + 1 \in Reg!Ids
  <2> HIDE DEF off2
  <2>1. LET to == Reg!create_key(hives[x], w).hive IN to # hives[x] => to.last <= MaxKey
    BY <1>3
  <2> QED
    BY <1>1, <1>2, <1>4, <1>5, <2>1, Creates
<1>7. orphans' \subseteq Reg!Hives \X Reg!Ids /\ orphans \subseteq orphans'
  <2>1. orphans \subseteq Reg!Hives \X Reg!Ids
    BY DEF RegInv, Reg!TypeOK
  <2> QED
    BY <1>1, <1>2, <1>6, <2>1
<1>8. off2 = Off(x)'
  <2>1. CASE Reg!Exists(hives[x], w.key) \/ w.rest = <<>>
    BY <1>1, <2>1 DEF Off
  <2>2. CASE ~(Reg!Exists(hives[x], w.key) \/ w.rest = <<>>)
    <3>1. orphans' = orphans \cup {<<x, hives[x].last + 1>>} /\ hives[x].last + 1 \in Reg!Ids
      BY <1>1, <1>6, <2>2
    <3> QED
      BY <2>2, <3>1 DEF Off
  <2> QED
    BY <2>1, <2>2
<1> HIDE DEF off2
<1>9. new.hive \in HiveType /\ new.hive.last \in 0..MaxKey
  BY <1>6 DEF HiveOK, HiveType
<1>10. new.key \in 0..MaxKey /\ new.key <= new.hive.last
  <2> PICK l \in Nat : l = new.hive.last /\ l <= MaxKey
    BY <1>9, Numbers
  <2> QED
    BY <1>6, Numbers
<1>11. /\ handles' \in [Callers -> SUBSET Reg!Handles]
       /\ \A d \in Callers : \A hd \in handles'[d] :
             hd \in handles[d] \/ (d = c /\ hd.type = w.type /\ hd.key = new.key)
  BY <1>1, <1>2, <1>10, HoldTyped
<1>12. hives'[x] = new.hive
  BY <1>2, <1>3 DEF RegInv, Reg!TypeOK
<1>13. \A d \in Callers : \A hd \in handles'[d] :
          hd \in handles[d] \/ hd.key <= hives'[Reg!registry_open_hive(d, hd.type)].last
  BY <1>2, <1>10, <1>11, <1>12
<1> QED
  BY <1>2, <1>3, <1>6, <1>7, <1>8, <1>11, <1>13, HiveChanges

LEMMA DeleteSubKeyPreserves ==
    ASSUME RegInv, NEW c \in Callers, NEW from \in Reg!From(c), NEW path \in Paths,
           Reg!DeleteSubKey(c, from, path)
    PROVE  /\ RegInv'
           /\ \E x \in Reg!Hives, k \in 0..MaxKey :
                 /\ hives' = [hives EXCEPT ![x] = Reg!delete_key(hives[x], k)]
                 /\ Reg!Deletable(hives[x], c, x, k)
<1> PICK w : w = Reg!follow(hives, c, from.type, from.key, from.key, path)
  OBVIOUS
<1> PICK x : x = w.hive
  OBVIOUS
<1> PICK h : h = Reg!delete_key(hives[x], w.key)
  OBVIOUS
<1>1. /\ Reg!Deletable(hives[x], c, x, w.key) /\ Reg!Change(x, h) /\ UNCHANGED <<handles, orphans>>
  BY DEF Reg!DeleteSubKey
<1>2. FollowOK(hives, c, from.type, from.key, from.key, w)
  <2>1. \A y \in Reg!Hives : hives[y] \in HiveType
    BY HivesAre
  <2>2. from.type \in {0, 1} /\ from.key \in 0..MaxKey
    BY FromTyped
  <2>3. path \in Seq(Reg!Words)
    BY PathsTyped
  <2> QED
    BY <2>1, <2>2, <2>3, FollowTyped
<1>3. x \in Reg!Hives /\ w.key \in 0..MaxKey
  BY <1>2 DEF FollowOK
<1>4. hives' = [hives EXCEPT ![x] = h] /\ changes' \in 0..MaxChanges
  BY <1>1, <1>3, ChangeTyped
<1>5. HiveOK(hives[x], Off(x)) /\ hives[x].last \in 0..MaxKey
  BY <1>3, HivesAre
<1>6. HiveOK(h, Off(x)) /\ h.last = hives[x].last
  BY <1>5, Deletes
<1>7. Off(x)' = Off(x) /\ hives[x].last <= h.last
  BY <1>1, <1>5, <1>6 DEF Off
<1>8. orphans' \subseteq Reg!Hives \X Reg!Ids /\ handles' \in [Callers -> SUBSET Reg!Handles]
  BY <1>1 DEF RegInv, Reg!TypeOK
<1>9. RegInv'
  BY <1>1, <1>3, <1>4, <1>6, <1>7, <1>8, HiveChanges
<1> QED
  BY <1>1, <1>3, <1>4, <1>9

LEMMA ValuesPreserve ==
    ASSUME RegInv, NEW c \in Callers, NEW from \in Reg!From(c), Reg!Writable(c, from),
           NEW vals,
           LET x == Reg!registry_open_hive(c, from.type) IN
           /\ Reg!Change(x, [hives[x] EXCEPT !.vals = vals])
           /\ \A z \in vals :
                 \/ z \in hives[x].vals
                 \/ z.key = from.key /\ z \in [key : 0..MaxKey, name : Reg!Words, value : Reg!Values],
           UNCHANGED <<handles, orphans>>
    PROVE  RegInv' /\ \A y \in Reg!Hives : hives'[y].keys = hives[y].keys
<1> PICK x : x = Reg!registry_open_hive(c, from.type)
  OBVIOUS
<1> PICK h : h = [hives[x] EXCEPT !.vals = vals]
  OBVIOUS
<1>1. x \in Reg!Hives /\ from.key \in 0..MaxKey
  BY FromTyped
<1>2. Reg!Exists(hives[x], from.key)
  BY DEF Reg!Writable
<1>3. HiveOK(hives[x], Off(x)) /\ hives[x].last \in 0..MaxKey /\ hives[x] \in HiveType
  BY <1>1, HivesAre
<1>4. HiveOK(h, Off(x)) /\ h.last = hives[x].last /\ h.keys = hives[x].keys
  BY <1>1, <1>2, <1>3, Revalues DEF HiveType
<1>5. hives' = [hives EXCEPT ![x] = h] /\ changes' \in 0..MaxChanges
  BY <1>1, ChangeTyped
<1>6. Off(x)' = Off(x) /\ hives[x].last <= h.last
  BY <1>3, <1>4 DEF Off
<1>7. orphans' \subseteq Reg!Hives \X Reg!Ids /\ handles' \in [Callers -> SUBSET Reg!Handles]
  BY DEF RegInv, Reg!TypeOK
<1>8. RegInv'
  BY <1>1, <1>4, <1>5, <1>6, <1>7, HiveChanges
<1>9. \A y \in Reg!Hives : hives'[y].keys = hives[y].keys
  BY <1>1, <1>4, <1>5 DEF RegInv, Reg!TypeOK
<1> QED
  BY <1>8, <1>9

LEMMA SetValuePreserves ==
    ASSUME RegInv, NEW c \in Callers, NEW from \in Reg!From(c), NEW name \in NewNames,
           NEW value \in Reg!NewValues(name), Reg!SetValue(c, from, name, value)
    PROVE  RegInv' /\ \A y \in Reg!Hives : hives'[y].keys = hives[y].keys
<1> PICK x : x = Reg!registry_open_hive(c, from.type)
  OBVIOUS
<1> DEFINE vals == {z \in hives[x].vals : z.key # from.key \/ z.name # name}
                      \cup {Reg!ValueRow(from.key, name, value)}
<1>1. /\ Reg!Writable(c, from) /\ UNCHANGED <<handles, orphans>>
      /\ Reg!Change(x, [hives[x] EXCEPT !.vals = vals])
  BY DEF Reg!SetValue, Reg!set_value_i
<1>2. value \in Reg!Values
  BY RootAssumption DEF Reg!NewValues, Reg!MaskText, Reg!UserLink, Reg!Values
<1>3. Reg!ValueRow(from.key, name, value) \in [key : 0..MaxKey, name : Reg!Words, value : Reg!Values]
      /\ Reg!ValueRow(from.key, name, value).key = from.key
  <2>1. from.key \in 0..MaxKey /\ name \in Reg!Words
    BY FromTyped DEF Reg!Words
  <2> QED
    BY <1>2, <2>1 DEF Reg!ValueRow
<1>4. \A z \in vals :
          \/ z \in hives[x].vals
          \/ z.key = from.key /\ z \in [key : 0..MaxKey, name : Reg!Words, value : Reg!Values]
  BY <1>3
<1> HIDE DEF vals
<1> QED
  BY <1>1, <1>4, ValuesPreserve

LEMMA DeleteValuePreserves ==
    ASSUME RegInv, NEW c \in Callers, NEW from \in Reg!From(c), NEW name \in NewNames,
           Reg!DeleteValue(c, from, name)
    PROVE  RegInv' /\ \A y \in Reg!Hives : hives'[y].keys = hives[y].keys
<1> PICK x : x = Reg!registry_open_hive(c, from.type)
  OBVIOUS
<1> DEFINE vals == {z \in hives[x].vals : z.key # from.key \/ z.name # name}
<1>1. /\ Reg!Writable(c, from) /\ UNCHANGED <<handles, orphans>>
      /\ Reg!Change(x, [hives[x] EXCEPT !.vals = vals])
  BY DEF Reg!DeleteValue
<1>2. \A z \in vals : z \in hives[x].vals
  OBVIOUS
<1> HIDE DEF vals
<1> QED
  BY <1>1, <1>2, ValuesPreserve

LEMMA ReleasePreserves ==
    ASSUME RegInv, NEW c \in Callers, NEW from \in Reg!From(c), Reg!Release(c, from)
    PROVE  RegInv'
<1>1. UNCHANGED <<hives, changes, orphans>> /\ handles' = [handles EXCEPT ![c] = @ \ {from}]
  BY DEF Reg!Release
<1>2. handles' \in [Callers -> SUBSET Reg!Handles] /\ \A d \in Callers : handles'[d] \subseteq handles[d]
  BY <1>1 DEF RegInv, Reg!TypeOK
<1>3. \A x \in Reg!Hives : HiveOK(hives'[x], Off(x)')
  BY <1>1, HivesAre DEF Off
<1> QED
  BY <1>1, <1>2, <1>3 DEF RegInv, Reg!TypeOK

\* A new installation's tables, with the two names that have spaces as any others.
SystemKeys(au) == {Reg!KeyRow(1, "System", 0), Reg!KeyRow(2, "Sandbox", 1),
                   Reg!KeyRow(3, au, 0), Reg!KeyRow(4, ".links", 0)}
SystemVals(lu) == {Reg!ValueRow(1, ".access", Reg!MaskText(Reg!Rights)),
                   Reg!ValueRow(2, ".access", Reg!MaskText({"write", "protect"})),
                   Reg!ValueRow(3, ".access", Reg!MaskText({"write", "protect"})),
                   Reg!ValueRow(4, ".access", Reg!MaskText(Reg!Rights)),
                   Reg!ValueRow(4, lu, Reg!UserLink)}

LEMMA SystemHiveIs ==
    \E au, lu \in Reg!Words :
        /\ au # "System" /\ au # ".links"
        /\ Reg!SystemHive = [keys |-> SystemKeys(au), vals |-> SystemVals(lu), last |-> 4]
<1>1. "All Users" \in Reg!Words /\ "Local User" \in Reg!Words
  BY Zenon DEF Reg!Words
<1>2. "All Users" # "System" /\ "All Users" # ".links"
  BY Zenon
<1>3. Reg!SystemHive = [keys |-> SystemKeys("All Users"), vals |-> SystemVals("Local User"), last |-> 4]
  BY Zenon DEF Reg!SystemHive, SystemKeys, SystemVals
<1> QED
  BY <1>1, <1>2, <1>3, Zenon

LEMMA RegBegins == ASSUME RootInit PROVE RegInv
<1>1. Reg!Init
  BY DEF RootInit
<1>2. 1 \in Reg!Ids /\ 2 \in Reg!Ids /\ 3 \in Reg!Ids /\ 4 \in Reg!Ids
      /\ 0 \in 0..MaxKey /\ 1 \in 0..MaxKey /\ 2 \in 0..MaxKey /\ 3 \in 0..MaxKey /\ 4 \in 0..MaxKey
  BY Numbers DEF Reg!Ids
<1>3. {"System", "Sandbox", ".links", "Objects", ".access"} \subseteq Reg!Words
  BY Zenon DEF Reg!Words
<1>4. /\ Reg!MaskText(Reg!Rights) \in Reg!Values /\ Reg!MaskText({"write", "protect"}) \in Reg!Values
      /\ Reg!UserLink \in Reg!Values
  BY DEF Reg!MaskText, Reg!UserLink, Reg!Values, Reg!Rights
<1>5. HiveOK(Reg!SystemHive, {})
  <2> PICK h : h = Reg!SystemHive
    OBVIOUS
  <2> PICK au \in Reg!Words, lu \in Reg!Words :
        /\ au # "System" /\ au # ".links"
        /\ h = [keys |-> SystemKeys(au), vals |-> SystemVals(lu), last |-> 4]
    BY SystemHiveIs
  <2>1. h.keys = SystemKeys(au) /\ h.vals = SystemVals(lu) /\ h.last = 4
        /\ h = [keys |-> h.keys, vals |-> h.vals, last |-> 4]
    OBVIOUS
  <2>2. h.keys \subseteq [id : Reg!Ids, name : Reg!Words, parent : 0..MaxKey]
    BY <1>2, <1>3, <2>1 DEF SystemKeys, Reg!KeyRow
  <2>3. h.vals \subseteq [key : 0..MaxKey, name : Reg!Words, value : Reg!Values]
    BY <1>2, <1>3, <1>4, <2>1 DEF SystemVals, Reg!ValueRow
  <2>4. h \in HiveType
    BY <1>2, <2>1, <2>2, <2>3 DEF HiveType
  <2>5. \A r \in h.keys : r.id <= h.last /\ r.parent < r.id
    BY <2>1 DEF SystemKeys, Reg!KeyRow
  <2>6. \A r, q \in h.keys : r.id = q.id \/ (r.name = q.name /\ r.parent = q.parent) => r = q
    BY <2>1 DEF SystemKeys, Reg!KeyRow
  <2>7. Reg!Exists(h, 0) /\ Reg!Exists(h, 1) /\ Reg!Exists(h, 2) /\ Reg!Exists(h, 3) /\ Reg!Exists(h, 4)
    <3>1. /\ Reg!KeyRow(1, "System", 0) \in h.keys /\ Reg!KeyRow(2, "Sandbox", 1) \in h.keys
          /\ Reg!KeyRow(3, au, 0) \in h.keys /\ Reg!KeyRow(4, ".links", 0) \in h.keys
      BY <2>1 DEF SystemKeys
    <3>2. /\ Reg!KeyRow(1, "System", 0).id = 1 /\ Reg!KeyRow(2, "Sandbox", 1).id = 2
          /\ Reg!KeyRow(3, au, 0).id = 3 /\ Reg!KeyRow(4, ".links", 0).id = 4
      BY DEF Reg!KeyRow
    <3> HIDE <3>1
    <3> QED
      BY <3>1, <3>2 DEF Reg!Exists
  <2>8. \A r \in h.keys : Reg!Exists(h, r.parent)
    BY <2>1, <2>7 DEF SystemKeys, Reg!KeyRow
  <2>9. \A z \in h.vals : Reg!Exists(h, z.key)
    BY <2>1, <2>7 DEF SystemVals, Reg!ValueRow
  <2> QED
    BY <2>4, <2>5, <2>6, <2>8, <2>9 DEF HiveOK
<1>6. HiveOK(Reg!UserHive, {})
  <2> PICK h : h = Reg!UserHive
    OBVIOUS
  <2>1. /\ h.keys = {Reg!KeyRow(1, "Objects", 0)}
        /\ h.vals = {Reg!ValueRow(1, ".access", Reg!MaskText({"write", "protect"}))}
        /\ h.last = 1 /\ h = [keys |-> h.keys, vals |-> h.vals, last |-> 1]
    BY DEF Reg!UserHive
  <2>2. h.keys \subseteq [id : Reg!Ids, name : Reg!Words, parent : 0..MaxKey]
    BY <1>2, <1>3, <2>1 DEF Reg!KeyRow
  <2>3. h.vals \subseteq [key : 0..MaxKey, name : Reg!Words, value : Reg!Values]
    BY <1>2, <1>3, <1>4, <2>1 DEF Reg!ValueRow
  <2>4. h \in HiveType
    BY <1>2, <2>1, <2>2, <2>3 DEF HiveType
  <2>5. Reg!Exists(h, 0) /\ Reg!Exists(h, 1)
    BY <2>1 DEF Reg!KeyRow, Reg!Exists
  <2> QED
    BY <2>1, <2>4, <2>5 DEF HiveOK, Reg!KeyRow, Reg!ValueRow
<1>7. \A x \in Reg!Hives : HiveOK(hives[x], {})
  BY <1>1, <1>5, <1>6 DEF Reg!Init
<1>8. \A x \in Reg!Hives : HiveOK(hives[x], Off(x))
  BY <1>7, OffGrows
<1>9. hives \in [Reg!Hives -> HiveType]
  <2>1. \A x \in Reg!Hives : hives[x] \in HiveType
    BY <1>7 DEF HiveOK
  <2> QED
    BY <1>1, <2>1 DEF Reg!Init
<1>10. Reg!TypeOK /\ \A c \in Callers : handles[c] = {}
  BY <1>1, <1>9, Numbers DEF Reg!Init, Reg!TypeOK, HiveType
<1> QED
  BY <1>8, <1>10 DEF RegInv

LEMMA RegGoesOn == ASSUME RegInv, Reg!Next PROVE RegInv'
  BY OpenKeyPreserves, CreateKeyPreserves, DeleteSubKeyPreserves, SetValuePreserves,
     DeleteValuePreserves, ReleasePreserves DEF Reg!Next

-----------------------------------------------------------------------------
\* The registry: its tree

LEMMA TreeKept == ASSUME RegInv PROVE Reg!KeysAreATree
<1> SUFFICES ASSUME NEW x \in Reg!Hives
             PROVE  LET h == hives[x] IN
                    /\ \A r, q \in h.keys : r.id = q.id \/ (r.name = q.name /\ r.parent = q.parent) => r = q
                    /\ \A r \in h.keys : <<x, r.id>> \notin orphans => Reg!Exists(h, r.parent)
                    /\ \A w \in h.vals : Reg!Exists(h, w.key)
  BY DEF Reg!KeysAreATree
<1>1. HiveOK(hives[x], Off(x))
  BY HivesAre
<1> QED
  BY <1>1 DEF HiveOK, Off

\* The walk of one name from a key that may be read and has no links.
LEMMA OneNameWalks ==
    ASSUME NEW h, NEW off, HiveOK(h, off), NEW c, NEW x, NEW k, Reg!Readable(h, c, x, k),
           Reg!Child(h, k, ".links") = {}, NEW r \in h.keys, r.parent = k
    PROVE  Reg!find_key(h, c, x, k, <<r.name>>).err = "Ok" <=> Reg!Passes(c, x, Reg!Mask(h, r.id), "read")
<1>c. ASSUME NEW p, Len(p) \in Nat
      PROVE  \E f : WalkUpTo(h, c, x, k, p, Len(p), f) /\ Reg!find_key(h, c, x, k, p) = f[Len(p)]
  BY <1>c, FindKeyWalks
<1> PICK path : path = <<r.name>>
  OBVIOUS
<1>1. Len(path) = 1 /\ path[1] = r.name
  OBVIOUS
<1>a. Len(path) \in Nat
  BY <1>1
<1>b. \E f : WalkUpTo(h, c, x, k, path, Len(path), f) /\ Reg!find_key(h, c, x, k, path) = f[Len(path)]
  BY <1>a, <1>c
<1>2. PICK f : WalkUpTo(h, c, x, k, path, 1, f) /\ Reg!find_key(h, c, x, k, path) = f[1]
  BY <1>1, <1>b
<1>3. f[0] = WalkNext(h, c, x, k, path, f, 0) /\ f[1] = WalkNext(h, c, x, k, path, f, 1)
  BY <1>2 DEF WalkUpTo
<1> PICK w : w = f[0]
  OBVIOUS
<1>4. w = [key |-> k, mask |-> Reg!Mask(h, k), rest |-> <<>>, link |-> Reg!Text, err |-> "Ok"]
  BY <1>3 DEF WalkNext, Reg!Readable
<1>5. w.key = k /\ w.err = "Ok"
  BY <1>4
<1> PICK info : info = Reg!get_key_info(h, c, x, w, r.name)
  OBVIOUS
<1>6. f[1] = IF info.err \in {"Ok", "Linked"} THEN info ELSE [info EXCEPT !.rest = <<r.name>>]
  BY <1>1, <1>3, <1>5 DEF WalkNext
<1>7. Reg!Child(h, k, r.name) = {r.id}
  BY DEF Reg!Child, HiveOK
<1> DEFINE links == IF r.name \in {".links", ".access"} THEN {} ELSE Reg!Child(h, w.key, ".links")
           lmask == UNION {Reg!Mask(h, l) : l \in links}
           key == CHOOSE z \in Reg!Child(h, w.key, r.name) : TRUE
           place == [w EXCEPT !.key = key, !.mask = Reg!Mask(h, key),
                             !.err = IF Reg!Passes(c, x, Reg!Mask(h, key), "read") THEN "Ok" ELSE "Denied"]
<1>8. links = {} /\ lmask = {}
  BY <1>5
<1>9. key = r.id
  BY <1>5, <1>7
<1>10. Reg!Passes(c, x, lmask, "read")
  BY <1>8 DEF Reg!Passes
<1>11. info = place
  <2>1. info = CASE ~Reg!Passes(c, x, lmask, "read") -> [w EXCEPT !.err = "Denied", !.mask = lmask]
                 [] \E l \in links : Reg!ValueOf(h, l, r.name) # {} ->
                      [w EXCEPT !.err = "Linked", !.mask = lmask,
                                !.link = CHOOSE z \in UNION {Reg!ValueOf(h, l, r.name) : l \in links} : TRUE]
                 [] Reg!Child(h, w.key, r.name) = {} ->
                      [w EXCEPT !.err = "NotFound", !.mask = IF links = {} THEN @ ELSE lmask]
                 [] OTHER -> place
    BY Zenon DEF Reg!get_key_info
  <2>2. ~(\E l \in links : Reg!ValueOf(h, l, r.name) # {})
    BY <1>8
  <2>3. Reg!Child(h, w.key, r.name) # {}
    BY <1>5, <1>7
  <2> HIDE DEF links, lmask, place
  <2> QED
    BY <1>10, <2>1, <2>2, <2>3
<1>12. info.err = IF Reg!Passes(c, x, Reg!Mask(h, r.id), "read") THEN "Ok" ELSE "Denied"
  BY <1>4, <1>9, <1>11
<1>13. f[1].err = info.err
  <2>1. [info EXCEPT !.rest = <<r.name>>].err = info.err
    BY <1>4, <1>11
  <2> QED
    BY <1>6, <2>1
<1> QED
  BY <1>2, <1>12, <1>13

\* Who may read a key at all may read any that is checked.
LEMMA ReadersRead ==
    ASSUME NEW c \in Callers, NEW x \in Reg!Hives, NEW m1, NEW m2, "read" \in m1, "read" \in m2
    PROVE  Reg!Passes(c, x, m1, "read") <=> Reg!Passes(c, x, m2, "read")
<1>1. Perm[c][x] \in {{}, {"read"}, {"read", "write"}}
  BY RootAssumption
<1>2. ASSUME NEW m, "read" \in m PROVE Reg!Passes(c, x, m, "read") <=> Perm[c][x] # {}
  BY <1>1, <1>2 DEF Reg!Passes, Reg!Allowed
<1> QED
  BY <1>2

\* What the property says of one caller and one hive.
Matches(h, c, x) ==
    LET Checked(k) == {r.id : r \in {q \in h.keys : q.parent = k /\ "read" \in Reg!Mask(h, q.id)}}
    IN  \A k \in {r.id : r \in h.keys} \cup {0} :
          /\ Reg!enum_values(h, c, x, k) = {n \in {w.name : w \in h.vals} : Reg!get_value(h, c, x, k, n) # {}}
          /\ (Reg!Readable(h, c, x, k) /\ Reg!Child(h, k, ".links") = {}) =>
               \A first \in IF Checked(k) = {} THEN {k} ELSE Checked(k) :
                 \A r \in {q \in h.keys : q.parent = k} :
                   r.name \in Reg!enum_subkeys(h, c, x, k, first)
                     <=> Reg!find_key(h, c, x, k, <<r.name>>).err = "Ok"

LEMMA HiveMatches ==
    ASSUME NEW h, NEW off, HiveOK(h, off), NEW c \in Callers, NEW x \in Reg!Hives
    PROVE  Matches(h, c, x)
<1> DEFINE Checked(k) == {r.id : r \in {q \in h.keys : q.parent = k /\ "read" \in Reg!Mask(h, q.id)}}
<1>2. ASSUME NEW k
      PROVE  Reg!enum_values(h, c, x, k)
                = {n \in {w.name : w \in h.vals} : Reg!get_value(h, c, x, k, n) # {}}
  <2>1. \A n : Reg!ValueOf(h, k, n) # {} <=> \E w \in h.vals : w.key = k /\ w.name = n
    BY DEF Reg!ValueOf
  <2>2. CASE Reg!Readable(h, c, x, k)
    BY <2>1, <2>2 DEF Reg!enum_values, Reg!get_value
  <2>3. CASE ~Reg!Readable(h, c, x, k)
    BY <2>3 DEF Reg!enum_values, Reg!get_value
  <2> QED
    BY <2>2, <2>3
<1>3. ASSUME NEW k, Reg!Readable(h, c, x, k), Reg!Child(h, k, ".links") = {},
             NEW first \in IF Checked(k) = {} THEN {k} ELSE Checked(k),
             NEW r \in h.keys, r.parent = k
      PROVE  r.name \in Reg!enum_subkeys(h, c, x, k, first)
                <=> Reg!find_key(h, c, x, k, <<r.name>>).err = "Ok"
  <2> DEFINE checked == IF "read" \in Reg!Mask(h, k) THEN k ELSE first
             Listed(q) == "read" \in Reg!Mask(h, q.id) => Reg!Passes(c, x, Reg!Mask(h, checked), "read")
  <2>1. Reg!find_key(h, c, x, k, <<r.name>>).err = "Ok" <=> Reg!Passes(c, x, Reg!Mask(h, r.id), "read")
    BY <1>3, OneNameWalks
  <2>2. Reg!enum_subkeys(h, c, x, k, first) = {q.name : q \in {z \in h.keys : z.parent = k /\ Listed(z)}}
    BY Zenon DEF Reg!enum_subkeys
  <2>3. r.name \in Reg!enum_subkeys(h, c, x, k, first) <=> Listed(r)
    <3>1. \A q \in h.keys : q.parent = k /\ q.name = r.name => q = r
      BY <1>3 DEF HiveOK
    <3> HIDE DEF Listed
    <3> QED
      BY <1>3, <2>2, <3>1
  <2>4. CASE "read" \notin Reg!Mask(h, r.id)
    BY <2>1, <2>3, <2>4 DEF Reg!Passes
  <2>5. CASE "read" \in Reg!Mask(h, r.id)
    <3>1. "read" \in Reg!Mask(h, checked)
      <4>1. CASE "read" \in Reg!Mask(h, k)
        BY <4>1
      <4>2. CASE "read" \notin Reg!Mask(h, k)
        <5>1. r.id \in Checked(k)
          BY <1>3, <2>5
        <5>2. first \in Checked(k)
          BY <1>3, <5>1
        <5>3. "read" \in Reg!Mask(h, first)
          BY <5>2
        <5> QED
          BY <4>2, <5>3
      <4> QED
        BY <4>1, <4>2
    <3>2. Listed(r) <=> Reg!Passes(c, x, Reg!Mask(h, checked), "read")
      BY <2>5
    <3> HIDE DEF Listed, checked
    <3>3. Reg!Passes(c, x, Reg!Mask(h, checked), "read") <=> Reg!Passes(c, x, Reg!Mask(h, r.id), "read")
      BY <2>5, <3>1, ReadersRead
    <3> QED
      BY <2>1, <2>3, <3>2, <3>3
  <2> QED
    BY <2>4, <2>5
<1> HIDE DEF Checked
<1>4. \A k \in {r.id : r \in h.keys} \cup {0} :
        /\ Reg!enum_values(h, c, x, k) = {n \in {w.name : w \in h.vals} : Reg!get_value(h, c, x, k, n) # {}}
        /\ (Reg!Readable(h, c, x, k) /\ Reg!Child(h, k, ".links") = {}) =>
             \A first \in IF Checked(k) = {} THEN {k} ELSE Checked(k) :
               \A r \in {q \in h.keys : q.parent = k} :
                 r.name \in Reg!enum_subkeys(h, c, x, k, first)
                   <=> Reg!find_key(h, c, x, k, <<r.name>>).err = "Ok"
  <2> TAKE k \in {r.id : r \in h.keys} \cup {0}
  <2>1. ASSUME Reg!Readable(h, c, x, k), Reg!Child(h, k, ".links") = {},
               NEW first \in IF Checked(k) = {} THEN {k} ELSE Checked(k),
               NEW r \in {q \in h.keys : q.parent = k}
        PROVE  r.name \in Reg!enum_subkeys(h, c, x, k, first)
                 <=> Reg!find_key(h, c, x, k, <<r.name>>).err = "Ok"
    BY <1>3, <2>1
  <2> QED
    BY <1>2, <2>1, Zenon
<1> QED
  BY <1>4, Zenon DEF Checked, Matches

LEMMA EnumsMatch == ASSUME RegInv PROVE Reg!EnumMatchesOpen
<1>1. ASSUME NEW c \in Callers, NEW type \in {0, 1}
      PROVE  Matches(hives[Reg!registry_open_hive(c, type)], c, Reg!registry_open_hive(c, type))
  <2>1. Reg!registry_open_hive(c, type) \in Reg!Hives
    BY HivesTyped
  <2>2. HiveOK(hives[Reg!registry_open_hive(c, type)], Off(Reg!registry_open_hive(c, type)))
    BY <2>1, HivesAre
  <2> QED
    BY <2>1, <2>2, HiveMatches
<1> QED
  BY <1>1, Zenon DEF Reg!EnumMatchesOpen, Matches

LEMMA RegRests == ASSUME RegInv, UNCHANGED regVars PROVE RegInv'
<1>1. UNCHANGED <<hives, handles, changes, orphans>>
  BY DEF regVars
<1>2. \A x : Off(x)' = Off(x)
  BY <1>1 DEF Off
<1> QED
  BY <1>1, <1>2 DEF RegInv, Reg!TypeOK

-----------------------------------------------------------------------------
\* The registry: what goes, goes together

SubtreeStep ==
    \A x \in Reg!Hives :
        /\ \A r \in Reg!Gone(x) : "protect" \notin Reg!Mask(hives[x], r.id)
        /\ \A r \in hives'[x].keys : \A g \in Reg!Gone(x) : r.parent # g.id

LEMMA NoneGone == ASSUME \A x \in Reg!Hives : hives[x].keys \subseteq hives'[x].keys PROVE SubtreeStep
  BY DEF SubtreeStep, Reg!Gone

LEMMA CreateKeyKeeps ==
    ASSUME RegInv, NEW c \in Callers, NEW from \in Reg!From(c), NEW path \in Paths,
           Reg!CreateKey(c, from, path)
    PROVE  SubtreeStep
<1> PICK w : w = Reg!Opened(hives, c, from, path)
  OBVIOUS
<1> PICK x : x = w.hive
  OBVIOUS
<1> PICK h : h = Reg!create_key(hives[x], w).hive
  OBVIOUS
<1>1. hives' = [hives EXCEPT ![x] = h]
  BY DEF Reg!CreateKey, Reg!Change
<1>2. hives[x].keys \subseteq h.keys
  BY DEF Reg!create_key
<1>3. \A y \in Reg!Hives : hives[y].keys \subseteq hives'[y].keys
  BY <1>1, <1>2 DEF RegInv, Reg!TypeOK
<1> QED
  BY <1>3, NoneGone

LEMMA DeleteSubKeyTakesAll ==
    ASSUME RegInv, NEW c \in Callers, NEW from \in Reg!From(c), NEW path \in Paths,
           Reg!DeleteSubKey(c, from, path)
    PROVE  SubtreeStep
<1> PICK x \in Reg!Hives, k \in 0..MaxKey :
        /\ hives' = [hives EXCEPT ![x] = Reg!delete_key(hives[x], k)]
        /\ Reg!Deletable(hives[x], c, x, k)
  BY DeleteSubKeyPreserves
<1> PICK h : h = hives[x]
  OBVIOUS
<1> PICK gone : gone = Reg!Subtree(h, k)
  OBVIOUS
<1>1. HiveOK(h, Off(x)) /\ h \in HiveType
  BY HivesAre
<1>2. Reg!delete_key(h, k).keys = {r \in h.keys : r.id \notin gone}
  BY <1>1, Deletes
<1>3. \A r \in h.keys : r.parent < r.id
  BY <1>1 DEF HiveOK
<1>4. \A r \in h.keys : r.parent \in gone => r.id \in gone
  BY <1>1, <1>3, SubtreeClosed
<1>5. \A i \in gone : "protect" \notin Reg!Mask(h, i)
  BY DEF Reg!Deletable
<1>6. /\ hives'[x].keys = {r \in h.keys : r.id \notin gone}
      /\ \A y \in Reg!Hives : y # x => hives'[y] = hives[y]
  BY <1>2 DEF RegInv, Reg!TypeOK
<1>7. SUFFICES ASSUME NEW y \in Reg!Hives
               PROVE  /\ \A r \in Reg!Gone(y) : "protect" \notin Reg!Mask(hives[y], r.id)
                      /\ \A r \in hives'[y].keys : \A g \in Reg!Gone(y) : r.parent # g.id
  BY DEF SubtreeStep
<1>8. CASE y = x
  <2>1. Reg!Gone(x) = {r \in h.keys : r.id \in gone}
    BY <1>6 DEF Reg!Gone
  <2> QED
    BY <1>4, <1>5, <1>6, <1>8, <2>1
<1>9. CASE y # x
  BY <1>6, <1>9 DEF Reg!Gone
<1> QED
  BY <1>8, <1>9

LEMMA KeysGoTogether == ASSUME RegInv, Reg!Next PROVE SubtreeStep
<1> PICK c \in Callers : \E from \in Reg!From(c) :
       \/ \E path \in Paths :
             Reg!OpenKey(c, from, path) \/ Reg!CreateKey(c, from, path) \/ Reg!DeleteSubKey(c, from, path)
       \/ \E name \in NewNames :
             \/ \E value \in Reg!NewValues(name) : Reg!SetValue(c, from, name, value)
             \/ Reg!DeleteValue(c, from, name)
       \/ Reg!Release(c, from)
  BY DEF Reg!Next
<1> PICK from \in Reg!From(c) :
       \/ \E path \in Paths :
             Reg!OpenKey(c, from, path) \/ Reg!CreateKey(c, from, path) \/ Reg!DeleteSubKey(c, from, path)
       \/ \E name \in NewNames :
             \/ \E value \in Reg!NewValues(name) : Reg!SetValue(c, from, name, value)
             \/ Reg!DeleteValue(c, from, name)
       \/ Reg!Release(c, from)
  OBVIOUS
<1>1. ASSUME NEW path \in Paths, Reg!OpenKey(c, from, path) PROVE SubtreeStep
  BY <1>1, NoneGone DEF Reg!OpenKey
<1>2. ASSUME Reg!Release(c, from) PROVE SubtreeStep
  BY <1>2, NoneGone DEF Reg!Release
<1>3. ASSUME NEW name \in NewNames, NEW value \in Reg!NewValues(name), Reg!SetValue(c, from, name, value)
      PROVE  SubtreeStep
  BY <1>3, SetValuePreserves, NoneGone
<1>4. ASSUME NEW name \in NewNames, Reg!DeleteValue(c, from, name) PROVE SubtreeStep
  BY <1>4, DeleteValuePreserves, NoneGone
<1> QED
  BY <1>1, <1>2, <1>3, <1>4, CreateKeyKeeps, DeleteSubKeyTakesAll

-----------------------------------------------------------------------------
\* The parts together

\* A step of the root is one of one part, so each part's invariant holds of it.
PartsHold ==
    /\ part \in {"registry", "services", "processes"}
    /\ IInv
    /\ part = "services" => SvcInv
    /\ part = "registry" => RegInv

LEMMA PartsBegin == RootInit => PartsHold
  BY Initially, SvcBegins, RegBegins DEF RootInit, PartsHold

LEMMA PartsGoOn == PartsHold /\ [RootNext]_<<part, regVars, svcVars, vars>> => PartsHold'
<1> SUFFICES ASSUME PartsHold, [RootNext]_<<part, regVars, svcVars, vars>> PROVE PartsHold'
  OBVIOUS
<1>1. [Next]_vars
  BY DEF RootNext
<1>2. IInv'
  BY <1>1, Inductive DEF PartsHold
<1>3. part' = part
  BY DEF RootNext
<1>4. part = "services" => SvcInv'
  BY SvcGoesOn, SvcRests DEF PartsHold, RootNext
<1>5. part = "registry" => RegInv'
  BY RegGoesOn, RegRests DEF PartsHold, RootNext
<1> QED
  BY <1>2, <1>3, <1>4, <1>5 DEF PartsHold

\* At any time the invariant of the processes holds, and that of the part that
\* is running: the services' and the registry's (SvcInv, RegInv).
THEOREM RootInvariant == RootSpec => []PartsHold
  BY PartsBegin, PartsGoOn, PTL DEF RootSpec

\* The registry's hives and key objects, the services' list, queue and starts, and
\* the table of user processes keep their types.
THEOREM RootTypesHold == RootSpec => []RootTypeOK
<1>1. PartsHold => RootTypeOK
  BY DEF PartsHold, IInv, SvcInv, RegInv, RootTypeOK
<1> QED
  BY <1>1, RootInvariant, PTL

\* For any dependencies, circular ones included, the enumeration queues each
\* service once; the sandbox's list is of services that run or are being started,
\* and has each name once (RootServices.cpp 53-129, UserServices.cpp 70-127).
THEOREM ServicesListed == RootSpec => []ServicesAreListed
<1>1. PartsHold => ServicesAreListed
  BY SvcListed DEF PartsHold, ServicesAreListed
<1> QED
  BY <1>1, RootInvariant, PTL

\* A hive is a tree of keys and values, and a key lists the subkeys and values
\* that its caller opens and gets (RegistryHive.cpp 206-296, 331-573, 653-881).
THEOREM TreesAreWhole == RootSpec => []TreeIsWhole
<1>1. PartsHold => TreeIsWhole
  BY TreeKept, EnumsMatch DEF PartsHold, TreeIsWhole, Reg!TreeIsWhole
<1> QED
  BY <1>1, RootInvariant, PTL

\* A key goes with all that is below it, and none of these keys is protected:
\* the first part of ChangesWhatItNames (RegistryHive.cpp 423-573).
THEOREM SubtreesGoTogether == RootSpec => Reg!GoesWithItsSubtree
<1>1. PartsHold /\ [RootNext]_<<part, regVars, svcVars, vars>> => [SubtreeStep]_(Reg!vars)
  BY KeysGoTogether DEF PartsHold, RootNext, regVars, Reg!vars
<1> QED
  BY <1>1, RootInvariant, PTL DEF RootSpec, Reg!GoesWithItsSubtree, SubtreeStep

===============================================================================
