------------------------------ MODULE ServerLife ------------------------------
(***************************************************************************)
(* The life of the root server and of the sandbox that it spawns: how      *)
(* Root::Manager::run and User::Manager::run bring them up, start the      *)
(* services once both are ready, and take everything down again. Each has  *)
(* a main thread, and threads that serve requests. ServiceControl has the  *)
(* steps of one service's start.                                           *)
(***************************************************************************)
EXTENDS FiniteSets, Sequences

CONSTANT Names  \* the services that start_services finds

VARIABLES
    main,       \* where Root::Manager::run is
    user,       \* and the sandbox's User::Manager::run, "none" before it is spawned
    m_sandbox_channel,  \* is it set?
    mapped,     \* is the sandbox in m_mapUserProcesses?
    accepting,  \* which of them have an acceptor
    link,       \* the connection of the two: none, up, or who has closed it
    open,       \* FALSE once the sandbox has shut down its channels
    job,        \* where do_bootstrap is
    notice,     \* User_NotifyStarted: no, sent, or taken
    launching, toLaunch,  \* start_services: is it at work, and what is left
    inbox,      \* requests for the sandbox in the order sent: a service, or All
    starting,   \* start_service's call for each service: no, req, creating, or starts
    m_mapServices,  \* services that have an entry, filled once they are created
    service,    \* what each service is: off, started, or told to stop
    telling,    \* what run() and the root's request are telling to stop, off the list already
    hung,       \* the services whose host will not return from a call
    sweep,      \* stop_all_services for the root: no, going, or done
    quits,      \* do_quit_i, after a failed bootstrap and when the root has closed
    quit,       \* which of them have been told to quit
    unsettled,  \* history: services whose launch was under way when the root asked for all to stop
    late,       \* history: services that got an entry when run() had stopped all
    missed      \* history: services told to stop before they were started

vars == <<main, user, m_sandbox_channel, mapped, accepting, link, open, job, notice, launching,
          toLaunch, inbox, starting, m_mapServices, service, telling, hung, sweep, quits, quit, unsettled, late,
          missed>>

rootVars == <<m_sandbox_channel, mapped, launching, toLaunch, unsettled>>
jobVars == <<open, job, quits>>
serviceVars == <<starting, m_mapServices, service, telling, hung, late, missed>>

All == "all"
Ended == {"none", "stopped", "killed"}
Serves == user \in {"waits", "stops", "threads"}
RootServes == main \notin {"load", "spawn", "again", "stopped"}

InitAt(place) ==
    /\ main = place /\ user = "none" /\ m_sandbox_channel = FALSE /\ mapped = FALSE
    /\ accepting = {} /\ link = "none" /\ open = TRUE /\ job = "none" /\ notice = "no"
    /\ launching = FALSE /\ toLaunch = {} /\ inbox = <<>>
    /\ starting = [n \in Names |-> "no"] /\ m_mapServices = {} /\ service = [n \in Names |-> "off"]
    /\ sweep = "no" /\ quits = [q \in {"boot", "closed"} |-> "no"] /\ quit = {}
    /\ telling = [s \in {"run", "root"} |-> {}] /\ hung = {}
    /\ unsettled = {} /\ late = {} /\ missed = {}

Init == InitAt("load")

CutBy(who) == IF link = "up" THEN who ELSE link

-----------------------------------------------------------------------------
\* Root::Manager::run.

\* load_config, init_database, the proactor and its threads, the request threads.
Load ==
    /\ main = "load" /\ main' \in {"spawn", "stopped"}
    /\ UNCHANGED <<user, accepting, link, notice, inbox, sweep, quit, rootVars, jobVars, serviceVars>>

\* spawn_sandbox. The process has its channel and its entry, and the root reads what
\* it sends, before spawn_user returns.
SpawnSandbox ==
    /\ main \in {"spawn", "again"}
    /\ main' = "spawned" /\ user' = "connects" /\ link' = "up" /\ mapped' = TRUE
    /\ UNCHANGED <<m_sandbox_channel, accepting, notice, launching, toLaunch, inbox, sweep, quit,
                   unsettled, jobVars, serviceVars>>

\* In unsafe mode it is tried again as the root's own user.
SpawnFails ==
    /\ main \in {"spawn", "again"}
    /\ main' \in (IF main = "spawn" THEN {"again", "threads"} ELSE {"threads"})
    /\ UNCHANGED <<user, accepting, link, notice, inbox, sweep, quit, rootVars, jobVars, serviceVars>>

Spawned ==
    /\ main = "spawned" /\ main' = "listen" /\ m_sandbox_channel' = TRUE
    /\ UNCHANGED <<user, mapped, accepting, link, notice, launching, toLaunch, inbox, sweep, quit,
                   unsettled, jobVars, serviceVars>>

\* start_client_acceptor; without it all is taken down.
Listen ==
    /\ main = "listen"
    /\ \/ main' = "waits" /\ accepting' = accepting \cup {"root"}
       \/ main' = "channels" /\ UNCHANGED accepting
    /\ UNCHANGED <<user, link, notice, inbox, sweep, quit, rootVars, jobVars, serviceVars>>

wait_for_quit ==
    /\ main = "waits" /\ "root" \in quit /\ main' = "asks"
    /\ UNCHANGED <<user, accepting, link, notice, inbox, sweep, quit, rootVars, jobVars, serviceVars>>

\* stop_services: the sandbox is asked to stop all, and its answer waited for, which
\* the end of their connection ends as well.
InTheInbox(n) == \E i \in DOMAIN inbox : inbox[i] = n

stop_services ==
    /\ main = "asks"
    /\ IF link = "up" THEN main' = "asked" /\ inbox' = Append(inbox, All)
       ELSE main' = "closes" /\ UNCHANGED inbox
    /\ unsettled' = toLaunch \cup {n \in Names : InTheInbox(n) \/ starting[n] # "no"}
                             \cup (IF notice = "taken" THEN {} ELSE Names)
    /\ UNCHANGED <<user, m_sandbox_channel, mapped, accepting, link, notice, launching, toLaunch, sweep,
                   quit, jobVars, serviceVars>>

Answered ==
    /\ main = "asked" /\ (sweep = "done" \/ link # "up") /\ main' = "closes"
    /\ UNCHANGED <<user, accepting, link, notice, inbox, sweep, quit, rootVars, jobVars, serviceVars>>

StopAccepting ==
    /\ main = "closes" /\ main' = "channels" /\ accepting' = accepting \ {"root"}
    /\ UNCHANGED <<user, link, notice, inbox, sweep, quit, rootVars, jobVars, serviceVars>>

shutdown_channels ==
    /\ main = "channels" /\ main' = "clear" /\ link' = CutBy("root")
    /\ UNCHANGED <<user, accepting, notice, inbox, sweep, quit, rootVars, jobVars, serviceVars>>

\* ~RootProcessUnix: five seconds for it to end, and it is killed.
WaitsForIt == user' = IF user \in Ended THEN user ELSE "killed"

\* m_mapUserProcesses.clear()
ClearProcesses ==
    /\ main = "clear" /\ main' = "threads"
    /\ mapped' = FALSE
    /\ IF mapped THEN WaitsForIt ELSE UNCHANGED user
    /\ UNCHANGED <<m_sandbox_channel, accepting, link, notice, launching, toLaunch, inbox, sweep, quit,
                   unsettled, jobVars, serviceVars>>

\* stop_request_threads, which joins the one that launches services.
stop_request_threads ==
    /\ main = "threads" /\ ~launching /\ main' = "stopped"
    /\ UNCHANGED <<user, accepting, link, notice, inbox, sweep, quit, rootVars, jobVars, serviceVars>>

-----------------------------------------------------------------------------
\* The root's requests and callbacks.

\* User_NotifyStarted: start_services, if it comes from the sandbox that is known, and
\* that is in the table.
NotifyStarted ==
    /\ RootServes /\ notice = "sent" /\ notice' = "taken"
    /\ launching' = (m_sandbox_channel /\ mapped)
    /\ toLaunch' = IF m_sandbox_channel /\ mapped THEN Names ELSE {}
    /\ UNCHANGED <<main, user, m_sandbox_channel, mapped, accepting, link, inbox, sweep, quit, unsettled,
                   jobVars, serviceVars>>

\* LaunchService: the sandbox is asked, and need not answer.
LaunchService(n) ==
    /\ launching /\ n \in toLaunch /\ toLaunch' = toLaunch \ {n}
    /\ inbox' = IF link = "up" THEN Append(inbox, n) ELSE inbox
    /\ UNCHANGED <<main, user, m_sandbox_channel, mapped, accepting, link, notice, launching, sweep, quit,
                   unsettled, jobVars, serviceVars>>

AllLaunched ==
    /\ launching /\ toLaunch = {} /\ launching' = FALSE
    /\ UNCHANGED <<main, user, m_sandbox_channel, mapped, accepting, link, notice, toLaunch, inbox, sweep,
                   quit, unsettled, jobVars, serviceVars>>

\* on_channel_closed: the sandbox has gone, or closes, and is not spawned again.
on_channel_closed ==
    /\ RootServes /\ main # "clear" /\ link = "sandbox" /\ mapped
    /\ mapped' = FALSE /\ WaitsForIt
    /\ UNCHANGED <<main, m_sandbox_channel, accepting, link, notice, launching, toLaunch, inbox, sweep, quit,
                   unsettled, jobVars, serviceVars>>

-----------------------------------------------------------------------------
\* User::Manager: the main thread.

\* connect_root: do_bootstrap is left to a request thread.
connect_root ==
    /\ user = "connects"
    /\ \/ user' = "waits" /\ job' = "bootstrap" /\ UNCHANGED link
       \/ user' = "threads" /\ link' = CutBy("sandbox") /\ UNCHANGED job
    /\ UNCHANGED <<main, accepting, open, notice, inbox, sweep, quits, quit, rootVars, serviceVars>>

UserQuits ==
    /\ user = "waits" /\ "sandbox" \in quit /\ user' = "stops"
    /\ UNCHANGED <<main, accepting, link, notice, inbox, sweep, quit, rootVars, jobVars, serviceVars>>

\* stop_all_services, for run() and for the root: entry by entry. m_lock is released
\* while a service is told. An entry whose service is not there yet, or can be reached
\* no more, is only taken off the list.
Stops(s) == IF s = "run" THEN user = "stops" ELSE Serves /\ sweep = "going"

Pops(s, n) ==
    /\ Stops(s) /\ telling[s] = {} /\ n \in m_mapServices
    /\ m_mapServices' = m_mapServices \ {n}
    /\ telling' = IF starting[n] # "creating" /\ open THEN [telling EXCEPT ![s] = {n}] ELSE telling
    /\ UNCHANGED <<main, user, accepting, link, notice, inbox, starting, service, hung, sweep, quit, late,
                   missed, rootVars, jobVars>>

\* IService::Stop; the start of a service that is not made to run yet goes on all the same.
Tells(s, n) ==
    /\ Stops(s) /\ n \in telling[s] \ hung /\ telling' = [telling EXCEPT ![s] = {}]
    /\ service' = IF service[n] = "started" /\ open THEN [service EXCEPT ![n] = "told"] ELSE service
    /\ missed' = IF starting[n] = "starts" THEN missed \cup {n} ELSE missed
    /\ UNCHANGED <<main, user, accepting, link, notice, inbox, starting, m_mapServices, hung, sweep, quit,
                   late, rootVars, jobVars>>

AllStopped ==
    /\ user = "stops" /\ m_mapServices = {} /\ telling["run"] = {} /\ user' = "threads"
    /\ UNCHANGED <<main, accepting, link, notice, inbox, sweep, quit, rootVars, jobVars, serviceVars>>

\* stop_request_threads: what they do, and what is queued, is done first.
Busy ==
    \/ \E n \in Names : starting[n] # "no"
    \/ sweep = "going" \/ inbox # <<>>
    \/ \E q \in DOMAIN quits : quits[q] = "going"
    \/ job \in {"bootstrap", "acceptor", "notify"}

Ends ==
    /\ user = "threads" /\ ~Busy
    /\ user' = "stopped" /\ link' = CutBy("sandbox") /\ accepting' = accepting \ {"sandbox"}
    /\ UNCHANGED <<main, notice, inbox, sweep, quit, rootVars, jobVars, serviceVars>>

-----------------------------------------------------------------------------
\* The threads of the sandbox that serve requests.

\* do_bootstrap: bootstrap, start_acceptor, notify_started, or else do_quit, which is
\* a request of its own.
BootFails ==
    /\ Serves /\ job \in {"bootstrap", "acceptor", "notify"}
    /\ job' = "done"
    /\ \/ quits' = [quits EXCEPT !["boot"] = "going"]
       \/ user = "threads" /\ UNCHANGED quits
    /\ UNCHANGED <<main, user, accepting, link, open, notice, inbox, sweep, quit, rootVars, serviceVars>>

bootstrap ==
    /\ Serves /\ job = "bootstrap" /\ job' = "acceptor"
    /\ UNCHANGED <<main, user, accepting, link, open, notice, inbox, sweep, quits, quit, rootVars, serviceVars>>

start_acceptor ==
    /\ Serves /\ job = "acceptor" /\ job' = "notify" /\ accepting' = accepting \cup {"sandbox"}
    /\ UNCHANGED <<main, user, link, open, notice, inbox, sweep, quits, quit, rootVars, serviceVars>>

notify_started ==
    /\ Serves /\ job = "notify" /\ link = "up"
    /\ job' = "done" /\ notice' = "sent"
    /\ UNCHANGED <<main, user, accepting, link, open, inbox, sweep, quits, quit, rootVars, serviceVars>>

\* do_channel_closed_i, of the root's channel.
RootCloses ==
    /\ Serves /\ link = "root" /\ quits["closed"] = "no"
    /\ quits' = [quits EXCEPT !["closed"] = "going"]
    /\ UNCHANGED <<main, user, accepting, link, open, job, notice, inbox, sweep, quit, rootVars, serviceVars>>

\* do_quit_i, perhaps by two threads: no acceptor, and no channels before run() is told.
do_quit_i(q) ==
    /\ Serves /\ quits[q] = "going" /\ quits' = [quits EXCEPT ![q] = "done"]
    /\ accepting' = accepting \ {"sandbox"}
    /\ open' = FALSE /\ link' = CutBy("sandbox")
    /\ quit' = quit \cup {"sandbox"}
    /\ UNCHANGED <<main, user, job, notice, inbox, sweep, rootVars, serviceVars>>

\* One of the threads takes the next request.
Takes ==
    /\ Serves /\ inbox # <<>> /\ inbox' = Tail(inbox)
    /\ IF Head(inbox) = All THEN sweep' = "going" /\ UNCHANGED starting
       ELSE starting' = [starting EXCEPT ![Head(inbox)] = "req"] /\ UNCHANGED sweep
    /\ UNCHANGED <<main, user, accepting, link, notice, m_mapServices, service, telling, hung, quit, late, missed,
                   rootVars, jobVars>>

\* start_service: the entry ...
StartBegins(n) ==
    /\ Serves /\ starting[n] = "req" /\ starting' = [starting EXCEPT ![n] = "creating"]
    /\ m_mapServices' = m_mapServices \cup {n}
    /\ late' = IF user = "threads" THEN late \cup {n} ELSE late
    /\ UNCHANGED <<main, user, accepting, link, notice, inbox, service, telling, hung, sweep, quit, missed,
                   rootVars, jobVars>>

\* ... is filled with the service that a host creates, if it is still there. If this
\* or the next fails, the entry goes.
StartFills(n) ==
    /\ Serves /\ starting[n] = "creating" /\ n \notin hung
    /\ \/ /\ open /\ starting' = [starting EXCEPT ![n] = IF n \in m_mapServices THEN "starts" ELSE "no"]
          /\ UNCHANGED m_mapServices
       \/ starting' = [starting EXCEPT ![n] = "no"] /\ m_mapServices' = m_mapServices \ {n}
    /\ UNCHANGED <<main, user, accepting, link, notice, inbox, service, telling, hung, sweep, quit, late, missed,
                   rootVars, jobVars>>

\* The host is sent IServiceManager::Start, which is asynchronous and without m_lock.
StartEnds(n) ==
    /\ Serves /\ starting[n] = "starts" /\ starting' = [starting EXCEPT ![n] = "no"]
    /\ \/ open /\ service' = [service EXCEPT ![n] = "started"] /\ UNCHANGED m_mapServices
       \/ m_mapServices' = m_mapServices \ {n} /\ UNCHANGED service
    /\ UNCHANGED <<main, user, accepting, link, notice, inbox, telling, hung, sweep, quit, late, missed,
                   rootVars, jobVars>>

\* The calls of a host, Create and Stop, have no timeout.
Hangs(n) ==
    /\ n \notin hung /\ (starting[n] = "creating" \/ n \in telling["run"] \cup telling["root"])
    /\ hung' = hung \cup {n}
    /\ UNCHANGED <<main, user, accepting, link, notice, inbox, starting, m_mapServices, service, telling, sweep,
                   quit, late, missed, rootVars, jobVars>>

Swept ==
    /\ Serves /\ sweep = "going" /\ m_mapServices = {} /\ telling["root"] = {} /\ sweep' = "done"
    /\ UNCHANGED <<main, user, accepting, link, notice, inbox, quit, rootVars, jobVars, serviceVars>>

-----------------------------------------------------------------------------
\* A signal tells either to quit; the sandbox may crash.
Signal(p) ==
    /\ p \notin quit /\ quit' = quit \cup {p}
    /\ IF p = "root" THEN main = "waits" ELSE user = "waits"
    /\ UNCHANGED <<main, user, accepting, link, notice, inbox, sweep, rootVars, jobVars, serviceVars>>

Dies ==
    /\ user \notin Ended /\ user' = "killed" /\ link' = CutBy("sandbox") /\ accepting' = accepting \ {"sandbox"}
    /\ UNCHANGED <<main, notice, inbox, sweep, quit, rootVars, jobVars, serviceVars>>

RootMain ==
    \/ Load \/ SpawnSandbox \/ SpawnFails \/ Spawned \/ Listen \/ wait_for_quit \/ stop_services
    \/ Answered \/ StopAccepting \/ shutdown_channels \/ ClearProcesses \/ stop_request_threads
RootThreads == NotifyStarted \/ (\E n \in Names : LaunchService(n)) \/ AllLaunched \/ on_channel_closed
UserMain == connect_root \/ UserQuits \/ AllStopped \/ Ends \/ (\E n \in Names : Pops("run", n) \/ Tells("run", n))
UserThreads ==
    \/ BootFails \/ bootstrap \/ start_acceptor \/ notify_started \/ RootCloses \/ Takes
    \/ \E q \in DOMAIN quits : do_quit_i(q)
    \/ \E n \in Names : \/ StartBegins(n) \/ StartFills(n) \/ StartEnds(n)
                        \/ Pops("root", n) \/ Tells("root", n)
    \/ Swept

Next ==
    \/ RootMain \/ RootThreads \/ UserMain \/ UserThreads
    \/ \E p \in {"root", "sandbox"} : Signal(p)
    \/ Dies \/ (\E n \in Names : Hangs(n))

Spec == Init /\ [][Next]_vars

\* Each thread goes on, but in a call of a host that hangs; none need be signalled.
Fairness == WF_vars(RootMain) /\ WF_vars(RootThreads) /\ WF_vars(UserMain) /\ WF_vars(UserThreads)

-----------------------------------------------------------------------------
TypeOK ==
    /\ main \in {"load", "spawn", "again", "spawned", "listen", "waits", "asks", "asked", "closes",
                 "channels", "clear", "threads", "stopped"}
    /\ user \in Ended \cup {"connects", "waits", "stops", "threads"}
    /\ {m_sandbox_channel, mapped, open, launching} \subseteq BOOLEAN
    /\ accepting \subseteq {"root", "sandbox"} /\ quit \subseteq {"root", "sandbox"}
    /\ link \in {"none", "up", "root", "sandbox"}
    /\ job \in {"none", "bootstrap", "acceptor", "notify", "done"}
    /\ notice \in {"no", "sent", "taken"} /\ sweep \in {"no", "going", "done"}
    /\ inbox \in Seq(Names \cup {All})
    /\ starting \in [Names -> {"no", "req", "creating", "starts"}]
    /\ service \in [Names -> {"off", "started", "told"}]
    /\ quits \in [{"boot", "closed"} -> {"no", "going", "done"}]
    /\ telling \in [{"run", "root"} -> SUBSET Names]
    /\ UNION {toLaunch, m_mapServices, hung, unsettled, late, missed} \subseteq Names

\* Started, and not told to stop.
Running == {n \in Names : service[n] = "started"}
Telling == telling["run"] \cup telling["root"]

\* Services come after the sandbox is ready and known to the root, and one that runs
\* is on the list, is being told to stop, or was told before it was started. When the
\* sandbox has stopped, only such run, those whose hosts it could not reach any more,
\* and those it began to start when it had stopped the rest. When the root has asked
\* for all to stop and been told that they have, none runs but what was being
\* launched, what was told too early, and what run() has taken off the list and not
\* told yet. The root leaves no sandbox behind.
ServersEndWhole ==
    /\ Running # {} => m_sandbox_channel /\ job = "done" /\ notice = "taken"
    /\ open => Running \subseteq m_mapServices \cup Telling \cup missed
    /\ user = "stopped" /\ open => Running \subseteq late \cup missed
    /\ main \in {"closes", "channels"} /\ sweep = "done" => Running \subseteq unsettled \cup telling["run"] \cup missed
    /\ main = "stopped" => user \in Ended /\ "root" \notin accepting

\* Once it is told to quit the root stops, whatever becomes of the sandbox: but if a
\* service's host hangs, the root may wait for ever for the answer that all have stopped.
ShutdownEnds == []<>("root" \in quit => main = "stopped" \/ (main = "asked" /\ hung # {}))
===============================================================================
