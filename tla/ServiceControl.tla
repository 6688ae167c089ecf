---------------------------- MODULE ServiceControl ----------------------------
(***************************************************************************)
(* Services: the root names them and launches each by way of the sandbox   *)
(* (Root::Manager's ...service..., RootProcessUnix::LaunchService), the    *)
(* sandbox keeps the list of those that run (User::Manager's), and a host  *)
(* process runs each (Host::StartService).                                 *)
(*                                                                         *)
(* A start is one call of LaunchService. Its pipe and secret tie together  *)
(* the root's thread, the sandbox's and the host, so one number names all. *)
(***************************************************************************)
EXTENDS FiniteSetsExt, Integers, Sequences, SequencesExt

CONSTANTS
    Names,      \* services under /System/Services
    Graphs,     \* dependencies they may have: functions from names to sets
    MaxStarts,  \* bound: starts
    MaxStops,   \* bound: requests to stop, of one service or of all
    None

Starts == 1..MaxStarts

VARIABLES
    m_mapServices,  \* the sandbox's stack of entries: a name, and a service or None
    starts,         \* what each start has come to
    deps,           \* dependencies of the services, while they are enumerated
    visits,         \* the names each call of the enumeration has still to look at
    boot,           \* queueNames: names that start_services has still to launch
    stopAll,        \* is stop_all_services at work?
    stopping,       \* services that are off the list and about to be stopped, with by whom
    stopped,        \* services that have been told to stop
    stops,          \* requests to stop so far (bounded by MaxStops)
    lost            \* history: services whose entry another start has removed

vars == <<m_mapServices, starts, deps, visits, boot, stopAll, stopping, stopped, stops, lost>>

Entry == [name : Names, ptr : Starts \cup {None}]

\* root: LaunchService's thread; req: start_service's in the sandbox; inst: the
\* service in its host, which is alive unless it is "none" or "dead".
Start ==
    [name : Names \cup {None}, async : BOOLEAN,
     root : {"idle", "sent", "accepting", "ok", "failed"},
     req : {"none", "sent", "creating", "filled", "ok", "err"},
     inst : {"none", "created", "told", "connected", "running", "ended", "dead"}]

NotStarted == [name |-> None, async |-> FALSE, root |-> "idle", req |-> "none", inst |-> "none"]

NoDeps == <<>>

\* The sandbox is up, and enum_services has the keys of /System/Services.
Init ==
    /\ m_mapServices = <<>>
    /\ starts = [a \in Starts |-> NotStarted]
    /\ deps \in Graphs
    /\ visits = <<DOMAIN deps>>
    /\ boot = <<>>
    /\ stopAll = FALSE
    /\ stopping = {}
    /\ stopped = {}
    /\ stops = 0
    /\ lost = {}

-----------------------------------------------------------------------------
\* The root: what it starts when the sandbox is up. A turn of the loop of
\* enum_services, the first level, or of get_service_dependencies in a level below.

Turn(rest) == [visits EXCEPT ![Len(visits)] = rest]

\* A level is done. After the first the queue is complete.
Returns ==
    /\ visits # <<>> /\ Last(visits) = {}
    /\ visits' = Front(visits)
    /\ deps' = IF Len(visits) = 1 THEN NoDeps ELSE deps
    /\ UNCHANGED <<m_mapServices, starts, boot, stopAll, stopping, stopped, stops, lost>>

\* A name goes into the queue before its dependencies, which ends circles. A
\* dependency that is no service fails all of it: start_services ends at once.
Visits ==
    /\ visits # <<>>
    /\ \E name \in Last(visits) :
         \/ /\ Contains(boot, name)
            /\ visits' = Turn(Last(visits) \ {name}) /\ UNCHANGED <<deps, boot>>
         \/ /\ ~Contains(boot, name) /\ name \in DOMAIN deps
            /\ boot' = Append(boot, name)
            /\ visits' = Append(Turn(Last(visits) \ {name}), deps[name])
            /\ UNCHANGED deps
         \/ /\ ~Contains(boot, name) /\ name \notin DOMAIN deps
            /\ visits' = <<>> /\ boot' = <<>> /\ deps' = NoDeps
    /\ UNCHANGED <<m_mapServices, starts, stopAll, stopping, stopped, stops, lost>>

-----------------------------------------------------------------------------
\* The root: LaunchService listens, asks the sandbox, and accepts.

\* The enumeration, which reads what no start writes, is before any of them.
Idle(a) ==
    /\ visits = <<>>
    /\ starts[a].root = "idle" /\ \A b \in 1..(a - 1) : starts[b].root # "idle"

LaunchService(a, name, async) ==
    /\ Idle(a)
    /\ starts' = [starts EXCEPT ![a] = [@ EXCEPT !.name = name, !.async = async, !.req = "sent",
                                        !.root = IF async THEN "accepting" ELSE "sent"]]
    /\ UNCHANGED <<m_mapServices, deps, visits, stopAll, stopping, stopped, stops, lost>>

\* start_services launches one after the other, without the sandbox's answers.
start_services(a) ==
    /\ boot # <<>>
    /\ \A b \in Starts : starts[b].async => starts[b].root # "accepting"
    /\ LaunchService(a, Head(boot), TRUE)
    /\ boot' = Tail(boot)

start_service(a, name) == LaunchService(a, name, FALSE) /\ UNCHANGED boot

Set(a, field, value) == starts' = [starts EXCEPT ![a][field] = value]

\* Mutant: the sandbox's answer becomes the root's.
AnswerPassedOn(a) ==
    /\ starts[a].root = "sent"
    /\ starts[a].req \in {"ok", "err"}
    /\ Set(a, "root", starts[a].req)
    /\ UNCHANGED <<m_mapServices, deps, visits, boot, stopAll, stopping, stopped, stops, lost>>

\* The sandbox's answer to a start that waits for it.
Answer(a) ==
    /\ starts[a].root = "sent"
    /\ starts[a].req \in {"ok", "err"}
    /\ Set(a, "root", IF starts[a].req = "ok" THEN "accepting" ELSE "failed")
    /\ UNCHANGED <<m_mapServices, deps, visits, boot, stopAll, stopping, stopped, stops, lost>>

\* accept, the secret, and the sockets of enum_sockets.
Accept(a) ==
    /\ starts[a].root = "accepting"
    /\ starts[a].inst = "connected"
    /\ Set(a, "root", "ok")
    /\ UNCHANGED <<m_mapServices, deps, visits, boot, stopAll, stopping, stopped, stops, lost>>

\* Mutant: accept without a timeout.
TimesOutNever(a) == FALSE /\ UNCHANGED vars

TimesOut(a) ==
    /\ starts[a].root = "accepting"
    /\ Set(a, "root", "failed")
    /\ UNCHANGED <<m_mapServices, deps, visits, boot, stopAll, stopping, stopped, stops, lost>>

-----------------------------------------------------------------------------
\* The sandbox: start_service, in three sections with the lock and two calls
\* without it.

Positions(name) == {i \in DOMAIN m_mapServices : m_mapServices[i].name = name}

\* Is it running already? If not, an entry without a service says that it is
\* being started.
StartBegins(a) ==
    /\ starts[a].req = "sent"
    /\ IF Positions(starts[a].name) # {}
         THEN Set(a, "req", "err") /\ UNCHANGED m_mapServices
         ELSE /\ Set(a, "req", "creating")
              /\ m_mapServices' = Append(m_mapServices, [name |-> starts[a].name, ptr |-> None])
    /\ UNCHANGED <<deps, visits, boot, stopAll, stopping, stopped, stops, lost>>

\* Create has returned a service: it goes into an entry of that name without
\* one. If there is none it has been stopped meanwhile, and is dropped.
Created(a) ==
    LET mine == {i \in Positions(starts[a].name) : m_mapServices[i].ptr = None} IN
    /\ starts[a].req = "creating"
    /\ IF mine = {}
         THEN /\ starts' = [starts EXCEPT ![a].req = "ok", ![a].inst = "ended"]
              /\ UNCHANGED m_mapServices
         ELSE /\ starts' = [starts EXCEPT ![a].req = "filled", ![a].inst = "created"]
              /\ m_mapServices' = [m_mapServices EXCEPT ![Min(mine)].ptr = a]
    /\ UNCHANGED <<deps, visits, boot, stopAll, stopping, stopped, stops, lost>>

\* Start is an asynchronous call: to a host that is there it is sent.
Told(a) ==
    /\ starts[a].req = "filled"
    /\ starts[a].inst # "dead"
    /\ starts' = [starts EXCEPT ![a].req = "ok", ![a].inst = "told"]
    /\ UNCHANGED <<m_mapServices, deps, visits, boot, stopAll, stopping, stopped, stops, lost>>

\* Mutant: the entry stays when Create throws.
ThrowsOnly(a) ==
    /\ starts[a].req = "creating"
    /\ Set(a, "req", "err")
    /\ UNCHANGED <<m_mapServices, deps, visits, boot, stopAll, stopping, stopped, stops, lost>>

\* Create or Start throws: the first entry of the name is removed, which may be
\* that of a later start.
Throws(a) ==
    LET found == Positions(starts[a].name) IN
    /\ \/ starts[a].req = "creating"
       \/ starts[a].req = "filled" /\ starts[a].inst = "dead"
    /\ Set(a, "req", "err")
    /\ m_mapServices' = IF found = {} THEN m_mapServices ELSE RemoveAt(m_mapServices, Min(found))
    /\ lost' = lost \cup ({m_mapServices[i].ptr : i \in found} \ {None, a})
    /\ UNCHANGED <<deps, visits, boot, stopAll, stopping, stopped, stops>>

-----------------------------------------------------------------------------
\* The sandbox: stopping and asking.

IsAlive(ptr) == ptr # None /\ starts[ptr].inst # "dead"

\* The entry goes; a service that is alive is then stopped without the lock.
stop_service(name) ==
    /\ stops < MaxStops
    /\ stops' = stops + 1
    /\ \E i \in Positions(name) :
         /\ i = Min(Positions(name))
         /\ m_mapServices' = RemoveAt(m_mapServices, i)
         /\ stopping' = IF IsAlive(m_mapServices[i].ptr)
                        THEN stopping \cup {<<"one", m_mapServices[i].ptr>>} ELSE stopping
    /\ UNCHANGED <<starts, deps, visits, boot, stopAll, stopped, lost>>

stop_all_services ==
    /\ ~stopAll
    /\ stops < MaxStops
    /\ stops' = stops + 1
    /\ stopAll' = TRUE
    /\ UNCHANGED <<m_mapServices, starts, deps, visits, boot, stopping, stopped, lost>>

\* The next turn of its loop, when the Stop before has returned.
StopsNext ==
    /\ stopAll
    /\ \A s \in stopping : s[1] # "all"
    /\ IF m_mapServices = <<>>
         THEN stopAll' = FALSE /\ UNCHANGED <<m_mapServices, stopping>>
         ELSE /\ m_mapServices' = Front(m_mapServices)
              /\ stopping' = IF IsAlive(Last(m_mapServices).ptr)
                             THEN stopping \cup {<<"all", Last(m_mapServices).ptr>>} ELSE stopping
              /\ UNCHANGED stopAll
    /\ UNCHANGED <<starts, deps, visits, boot, stopped, stops, lost>>

\* Stop returns, or throws as the service has died.
Stops(s) ==
    /\ s \in stopping
    /\ stopping' = stopping \ {s}
    /\ stopped' = stopped \cup {s[2]}
    /\ UNCHANGED <<m_mapServices, starts, deps, visits, boot, stopAll, stops, lost>>

\* Asking for a service sweeps its dead entry, listing them sweeps all.
service_is_running(name) ==
    /\ \E i \in Positions(name) :
         /\ m_mapServices[i].ptr # None /\ ~IsAlive(m_mapServices[i].ptr)
         /\ m_mapServices' = RemoveAt(m_mapServices, i)
    /\ UNCHANGED <<starts, deps, visits, boot, stopAll, stopping, stopped, stops, lost>>

list_services ==
    LET Kept[i \in 0..Len(m_mapServices)] ==
            IF i = 0 THEN <<>>
            ELSE LET e == m_mapServices[i] IN
                 IF e.ptr = None \/ IsAlive(e.ptr) THEN Append(Kept[i - 1], e) ELSE Kept[i - 1]
    IN  /\ m_mapServices' = Kept[Len(m_mapServices)]
        /\ m_mapServices' # m_mapServices
        /\ UNCHANGED <<starts, deps, visits, boot, stopAll, stopping, stopped, stops, lost>>

-----------------------------------------------------------------------------
\* The host: it connects to the root's pipe, sends the secret, reads its
\* sockets, and runs.

Connects(a) ==
    /\ starts[a].inst = "told"
    /\ starts[a].root \in {"sent", "accepting"}
    /\ Set(a, "inst", "connected")
    /\ UNCHANGED <<m_mapServices, deps, visits, boot, stopAll, stopping, stopped, stops, lost>>

Runs(a) ==
    /\ starts[a].inst = "connected"
    /\ starts[a].root = "ok"
    /\ Set(a, "inst", "running")
    /\ UNCHANGED <<m_mapServices, deps, visits, boot, stopAll, stopping, stopped, stops, lost>>

\* The root has gone from the pipe, or Run returns. The entry does not know, as
\* its service is an object that is alive.
RunEnds(a) ==
    /\ \/ starts[a].inst \in {"told", "connected"} /\ starts[a].root = "failed"
       \/ starts[a].inst = "running"
    /\ Set(a, "inst", "ended")
    /\ UNCHANGED <<m_mapServices, deps, visits, boot, stopAll, stopping, stopped, stops, lost>>

Dies(a) ==
    /\ starts[a].inst \notin {"none", "dead"}
    /\ Set(a, "inst", "dead")
    /\ UNCHANGED <<m_mapServices, deps, visits, boot, stopAll, stopping, stopped, stops, lost>>

-----------------------------------------------------------------------------
\* What goes on by itself, once a start has been asked for.
Working(a) ==
    \/ Answer(a) \/ Accept(a) \/ TimesOut(a)
    \/ StartBegins(a) \/ Created(a) \/ Told(a) \/ Throws(a)

Next ==
    \/ \E a \in Starts :
          \/ Working(a)
          \/ start_services(a)
          \/ \E name \in Names : start_service(a, name)
          \/ Connects(a) \/ Runs(a) \/ RunEnds(a) \/ Dies(a)
    \/ Returns \/ Visits
    \/ \E name \in Names : stop_service(name) \/ service_is_running(name)
    \/ stop_all_services \/ StopsNext
    \/ \E s \in stopping : Stops(s)
    \/ list_services

Fairness == WF_vars(\E a \in Starts : Working(a))

Spec == Init /\ [][Next]_vars /\ Fairness

-----------------------------------------------------------------------------
\* The names that dependencies are of or on.
Mentioned(g) == DOMAIN g \cup UNION {g[n] : n \in DOMAIN g}

TypeOK ==
    /\ m_mapServices \in Seq(Entry)
    /\ starts \in [Starts -> Start]
    /\ deps = NoDeps \/ deps \in Graphs
    /\ visits \in Seq(SUBSET UNION {Mentioned(g) : g \in Graphs})
    /\ boot \in Seq(Names)
    /\ stopAll \in BOOLEAN
    /\ stopping \subseteq {"one", "all"} \X Starts
    /\ stopped \subseteq Starts
    /\ stops \in 0..MaxStops
    /\ lost \subseteq Starts

\* When the enumeration has nothing left to look at, the queue holds every
\* service once, with any dependencies, circular ones included, and none of them
\* is on a service that does not exist (RootServices.cpp 53-129).
BootsEachOnce ==
    visits = <<{}>> =>
        /\ ToSet(boot) = DOMAIN deps
        /\ \A i, j \in DOMAIN boot : boot[i] = boot[j] => i = j
        /\ \A n \in DOMAIN deps : deps[n] \subseteq DOMAIN deps

\* A service that runs is on the sandbox's list, where a stop finds it, or has
\* been told to stop already. But for one whose entry was removed by an earlier
\* start of its name that failed late (UserServices.cpp 119-127).
RunningIsListed ==
    \A a \in Starts : starts[a].inst = "running" =>
        \/ \E i \in DOMAIN m_mapServices : m_mapServices[i].ptr = a
        \/ a \in stopped \cup lost \cup {s[2] : s \in stopping}

\* A name is on the list once, and an entry without a service has a start that
\* is about to fill or to remove it: no name stays "already running" for good
\* without there being a service (UserServices.cpp 70-127).
EntryIsBeingStarted ==
    /\ \A i, j \in DOMAIN m_mapServices : m_mapServices[i].name = m_mapServices[j].name => i = j
    /\ \A i \in DOMAIN m_mapServices : m_mapServices[i].ptr = None =>
         \E a \in Starts : starts[a].req = "creating" /\ starts[a].name = m_mapServices[i].name

\* The root's thread that starts a service gets away from it, whatever the
\* sandbox answers and the service does, as long as Create returns
\* (RootProcessUnix.cpp 448-502).
StartsEnd == []<>(\A a \in Starts : starts[a].root \notin {"sent", "accepting"})

\* All three: each service is to be started once, and the list is that of those
\* that run or are being started.
ServicesAreListed == BootsEachOnce /\ RunningIsListed /\ EntryIsBeingStarted

===============================================================================
