---------------------------- MODULE UserProcesses -----------------------------
(***************************************************************************)
(* The root's table of user processes: a client that connects is told the  *)
(* pipe of its login's process, which the root starts if there is none     *)
(* (Root::Manager::get_user_process, spawn_user, on_channel_closed, and    *)
(* RootProcessUnix). Every client has a thread of the root's, and the      *)
(* table its lock; processes and the copying of hives take their time.     *)
(***************************************************************************)
EXTENDS FiniteSets, Integers

CONSTANTS
    Clients,   \* clients that connect
    LoginOf,   \* [Clients -> [uid, session]]: their credentials
    MaxProcs,  \* bound: processes started
    None

ASSUME ProcessesAssumption ==
    /\ MaxProcs \in Nat
    /\ None \notin Clients \cup (1..MaxProcs)

Procs == 1..MaxProcs
Uids == {LoginOf[c].uid : c \in Clients}

VARIABLES
    m_mapUserProcesses,  \* the processes of the table
    procs,               \* all that were ever started: for whom, and what became of them
    files,               \* hives on the disk: absent, being copied, or whole
    at,                  \* where each client's thread is
    last                 \* the last process started (bounded by MaxProcs)

vars == <<m_mapUserProcesses, procs, files, at, last>>

\* A hive object has the name of the client whose thread has opened it. The
\* channel of a process is registered, then read ("open").
Proc == [for : Clients \cup {None}, alive : BOOLEAN, hive : Clients \cup {None},
         channel : {"none", "registered", "open", "closed"}]

Thread == [pc : {"start", "sweep", "hive", "copy", "spawn", "bootstrap", "insert", "answered", "refused"},
           dead : SUBSET Procs, hive : Clients \cup {None}, proc : Procs \cup {None}]

Login(p) == LoginOf[procs[p].for]

\* RootProcessUnix::IsSameLogin and IsSameUser: of processes that were started
\* for a client, the sandbox being no one's.
IsSameLogin(p, c) == Login(p) = LoginOf[c]
IsSameUser(p, c) == Login(p).uid = LoginOf[c].uid
IsRunning(p) == procs[p].alive

Init ==
    /\ m_mapUserProcesses = {}
    /\ procs = [p \in Procs |-> [for |-> None, alive |-> FALSE, hive |-> None, channel |-> "none"]]
    /\ files \in [Uids -> {"absent", "whole"}]
    /\ at = [c \in Clients |-> [pc |-> "start", dead |-> {}, hive |-> None, proc |-> None]]
    /\ last = 0

Goes(c, pc) == at' = [at EXCEPT ![c].pc = pc]

-----------------------------------------------------------------------------
\* get_user_process.

\* With the lock for reading: what is dead, a process of the login, a hive of
\* the user.
Scans(c) ==
    LET dead == {p \in m_mapUserProcesses : ~IsRunning(p)}
        same == {p \in m_mapUserProcesses \ dead : IsSameLogin(p, c)}
        user == {p \in m_mapUserProcesses \ dead : IsSameUser(p, c)}
        next(pc, hive, p) == [pc |-> IF dead = {} THEN pc ELSE "sweep", dead |-> dead,
                              hive |-> hive, proc |-> p]
    IN  /\ at[c].pc = "start"
        /\ \/ \E p \in same : at' = [at EXCEPT ![c] = next("answered", None, p)]
           \/ /\ same = {}
              /\ \/ user = {} /\ at' = [at EXCEPT ![c] = next("hive", None, None)]
                 \/ \E p \in user : at' = [at EXCEPT ![c] = next("spawn", procs[p].hive, None)]
        /\ UNCHANGED <<m_mapUserProcesses, procs, files, last>>

\* With the lock for writing: the dead go, and with them their objects.
Sweeps(c) ==
    /\ at[c].pc = "sweep"
    /\ m_mapUserProcesses' = m_mapUserProcesses \ at[c].dead
    /\ Goes(c, IF at[c].proc # None THEN "answered" ELSE IF at[c].hive # None THEN "spawn" ELSE "hive")
    /\ UNCHANGED <<procs, files, last>>

-----------------------------------------------------------------------------
\* spawn_user.

\* get_registry_hive: the first thread creates the file and copies the template
\* into it; a thread that finds a file opens it, and fails if it is not whole.
FindsHive(c) ==
    LET uid == LoginOf[c].uid IN
    /\ at[c].pc = "hive"
    /\ CASE files[uid] = "absent" -> Goes(c, "copy") /\ files' = [files EXCEPT ![uid] = "copying"]
         [] files[uid] = "copying" -> Goes(c, "refused") /\ UNCHANGED files
         [] files[uid] = "whole" ->
              at' = [at EXCEPT ![c].pc = "spawn", ![c].hive = c] /\ UNCHANGED files
    /\ UNCHANGED <<m_mapUserProcesses, procs, last>>

\* The copy is whole, or has failed and is removed.
Copies(c) ==
    /\ at[c].pc = "copy"
    /\ \/ /\ files' = [files EXCEPT ![LoginOf[c].uid] = "whole"]
          /\ at' = [at EXCEPT ![c].pc = "spawn", ![c].hive = c]
       \/ files' = [files EXCEPT ![LoginOf[c].uid] = "absent"] /\ Goes(c, "refused")
    /\ UNCHANGED <<m_mapUserProcesses, procs, last>>

\* RootProcessUnix::Spawn: fork and exec.
Started(c) ==
    [procs EXCEPT ![last + 1] =
        [for |-> c, alive |-> TRUE, hive |-> at[c].hive, channel |-> "none"]]

\* platform_spawn, which may fail.
Spawns(c) ==
    /\ at[c].pc = "spawn"
    /\ \/ /\ last < MaxProcs
          /\ last' = last + 1
          /\ procs' = Started(c)
          /\ at' = [at EXCEPT ![c].pc = "bootstrap", ![c].proc = last + 1]
       \/ Goes(c, "refused") /\ UNCHANGED <<procs, last>>
    /\ UNCHANGED <<m_mapUserProcesses, files>>

\* The destructor of the last reference to a process waits for its end, and
\* kills it in the end.
Destroyed(p) == [procs EXCEPT ![p].alive = FALSE]

\* bootstrap_user: the process tells its pipe, its channel is registered.
Bootstraps(c) ==
    LET p == at[c].proc IN
    /\ at[c].pc = "bootstrap"
    /\ \/ /\ procs[p].alive
          /\ procs' = [procs EXCEPT ![p].channel = "registered"]
          /\ Goes(c, "insert")
       \/ ~procs[p].alive /\ Goes(c, "refused") /\ UNCHANGED procs
    /\ UNCHANGED <<m_mapUserProcesses, files, last>>

\* Mutant: a duplicate is neither looked for nor destroyed.
InsertsAlways(c) ==
    LET p == at[c].proc IN
    /\ at[c].pc = "insert"
    /\ m_mapUserProcesses' = m_mapUserProcesses \cup {p}
    /\ procs' = [procs EXCEPT ![p].channel = "open"]
    /\ Goes(c, "answered")
    /\ UNCHANGED <<files, last>>

\* Mutant: the channel is not read.
InsertsUnread(c) ==
    LET same == {q \in m_mapUserProcesses : IsSameLogin(q, c)} IN
    /\ at[c].pc = "insert"
    /\ IF same # {}
         THEN /\ \E q \in same : at' = [at EXCEPT ![c].pc = "answered", ![c].proc = q]
              /\ procs' = Destroyed(at[c].proc)
              /\ UNCHANGED m_mapUserProcesses
         ELSE /\ m_mapUserProcesses' = m_mapUserProcesses \cup {at[c].proc}
              /\ Goes(c, "answered")
              /\ UNCHANGED procs
    /\ UNCHANGED <<files, last>>

\* With the lock for writing: a process of the login that got there first, dead
\* or alive, is the answer, and the channel of the other stays registered. The
\* one that goes into the table is read from then on, not before: its end, seen
\* by that read, finds it there.
Inserts(c) ==
    LET p == at[c].proc
        same == {q \in m_mapUserProcesses : IsSameLogin(q, c)}
    IN  /\ at[c].pc = "insert"
        /\ IF same # {}
             THEN /\ \E q \in same : at' = [at EXCEPT ![c].pc = "answered", ![c].proc = q]
                  /\ procs' = Destroyed(p)
                  /\ UNCHANGED m_mapUserProcesses
             ELSE /\ m_mapUserProcesses' = m_mapUserProcesses \cup {p}
                  /\ procs' = [procs EXCEPT ![p].channel = "open"]
                  /\ Goes(c, "answered")
        /\ UNCHANGED <<files, last>>

-----------------------------------------------------------------------------
\* Ends, and clients that come again.

Dies(p) ==
    /\ procs[p].alive
    /\ procs' = Destroyed(p)
    /\ UNCHANGED <<m_mapUserProcesses, files, at, last>>

\* The read of the channel fails.
on_channel_closed(p) ==
    /\ procs[p].channel = "open"
    /\ ~procs[p].alive
    /\ procs' = [procs EXCEPT ![p].channel = "closed"]
    /\ m_mapUserProcesses' = m_mapUserProcesses \ {p}
    /\ UNCHANGED <<files, at, last>>

ComesAgain(c) ==
    /\ at[c].pc \in {"answered", "refused"}
    /\ last < MaxProcs
    /\ at' = [at EXCEPT ![c] = [pc |-> "start", dead |-> {}, hive |-> None, proc |-> None]]
    /\ UNCHANGED <<m_mapUserProcesses, procs, files, last>>

Next ==
    \/ \E c \in Clients :
          \/ Scans(c) \/ Sweeps(c) \/ FindsHive(c) \/ Copies(c) \/ Spawns(c)
          \/ Bootstraps(c) \/ Inserts(c) \/ ComesAgain(c)
    \/ \E p \in Procs : Dies(p) \/ on_channel_closed(p)

Fairness == \A p \in Procs : WF_vars(on_channel_closed(p))

Spec == Init /\ [][Next]_vars /\ Fairness

-----------------------------------------------------------------------------
TypeOK ==
    /\ m_mapUserProcesses \subseteq Procs
    /\ procs \in [Procs -> Proc]
    /\ files \in [Uids -> {"absent", "copying", "whole"}]
    /\ at \in [Clients -> Thread]
    /\ last \in 0..MaxProcs

\* Two clients of one login that come at the same time, or a client that comes
\* while the process of its login dies, never leave two processes for it in the
\* table (RootManager.cpp 604-622).
OneProcessPerLogin ==
    \A p, q \in m_mapUserProcesses : Login(p) = Login(q) => p = q

\* No process strays: one that is alive is in the table, where its requests
\* find its hive and clients find it, or a client's thread is at setting it up
\* (RootManager.cpp 585-641).
NoneStrays ==
    \A p \in Procs : procs[p].alive =>
        \/ p \in m_mapUserProcesses
        \/ \E c \in Clients : at[c].proc = p /\ at[c].pc \in {"bootstrap", "insert"}

\* A process that has died leaves the table even if no client comes and sweeps
\* it (RootManager.cpp 414-420, 628-634).
TheDeadLeave ==
    \A p \in Procs : []<>(procs[p].alive \/ p \notin m_mapUserProcesses)

\* Both: a login has one process, in the table or on its way there.
LoginHasOneProcess == OneProcessPerLogin /\ NoneStrays

===============================================================================
