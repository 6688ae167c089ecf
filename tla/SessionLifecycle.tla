--------------------------- MODULE SessionLifecycle ---------------------------
(***************************************************************************)
(* The life of OOCore::UserSession, the per-process connection to the      *)
(* user's ooserver: Omega::Initialize and Omega::Uninitialize called by    *)
(* several threads, the condition variable they meet on, the steps of      *)
(* start() and stop(), and the io worker thread that reads the stream.     *)
(*                                                                         *)
(* Every region of UserSession.cpp that runs under m_cond_mutex is one     *)
(* action.  A thread blocked in m_cond.wait() has pc "initWait" or         *)
(* "termWait"; a notified thread is back at "init" or "term", where it     *)
(* takes the mutex again and looks at m_init_state.                        *)
(***************************************************************************)
EXTENDS Naturals

CONSTANTS
    Threads,    \* threads of the process that initialise Omega
    MaxCalls,   \* bound: calls of Initialize by all the threads together
    Failures    \* whether the user process may refuse, fail or go away

ASSUME LifecycleAssumption ==
    /\ MaxCalls \in Nat \ {0}
    /\ Failures \in BOOLEAN

VARIABLES
    initState,  \* m_init_state
    initCount,  \* m_init_count
    pc,         \* where each thread is in Initialize and Uninitialize
    calls,      \* calls of Initialize made so far (bounded by MaxCalls)
    io,         \* the thread behind m_worker_thread
    orphans,    \* io worker threads m_worker_thread no longer refers to
    link,       \* m_stream
    queue,      \* m_msg_queue of each thread's ThreadContext
    cookies     \* length of m_rot_cookies

vars == <<initState, initCount, pc, calls, io, orphans, link, queue, cookies>>

-----------------------------------------------------------------------------

States == {"Stopped", "Starting", "Started", "Stopping"}

Places == {"out",                               \* not initialised
           "init", "initWait",                  \* in init()
           "connect", "register",               \* in start()
           "in",                                \* initialised
           "term", "termWait",                  \* in term()
           "cleanup", "join"}                   \* in stop()

TypeOK ==
    /\ initState \in States
    /\ initCount \in Nat
    /\ pc \in [Threads -> Places]
    /\ calls \in 0..MaxCalls
    /\ io \in {"none", "running", "exited"}
    /\ orphans \in Nat
    /\ link \in {"none", "open", "shut", "closed"}
    /\ queue \in [Threads -> {"none", "open", "closed"}]
    /\ cookies \in Nat

Init ==
    /\ initState = "Stopped"
    /\ initCount = 0
    /\ pc = [t \in Threads |-> "out"]
    /\ calls = 0
    /\ io = "none"
    /\ orphans = 0
    /\ link = "none"
    /\ queue = [t \in Threads |-> "none"]
    /\ cookies = 0

-----------------------------------------------------------------------------
\* m_cond

Notified(place) ==
    CASE place = "initWait" -> "init"
      [] place = "termWait" -> "term"
      [] OTHER -> place

Waiting(t) == pc[t] \in {"initWait", "termWait"}

\* m_cond.broadcast() by t, which then goes on to place.
Broadcast(t, place) ==
    pc' = [u \in Threads |-> IF u = t THEN place ELSE Notified(pc[u])]

\* m_cond.signal() by t, which then goes on to place: one waiter, any one,
\* leaves the wait.
Signal(t, place) ==
    \/ /\ \A u \in Threads : ~Waiting(u)
       /\ pc' = [pc EXCEPT ![t] = place]
    \/ \E u \in Threads :
          /\ Waiting(u)
          /\ pc' = [pc EXCEPT ![t] = place, ![u] = Notified(@)]

-----------------------------------------------------------------------------
\* Omega::Initialize

Initialize(t) ==
    /\ pc[t] = "out"
    /\ calls < MaxCalls
    /\ calls' = calls + 1
    /\ pc' = [pc EXCEPT ![t] = "init"]
    /\ UNCHANGED <<initState, initCount, io, orphans, link, queue, cookies>>

\* Mutant of InitStarts: eStarting is not published before the mutex is released.
InitStartsUnseen(t) ==
    /\ pc[t] = "init"
    /\ initState = "Stopped"
    /\ pc' = [pc EXCEPT ![t] = "connect"]
    /\ UNCHANGED <<initState, initCount, calls, io, orphans, link, queue, cookies>>

InitStarts(t) ==
    /\ pc[t] = "init"
    /\ initState = "Stopped"
    /\ initState' = "Starting"
    /\ pc' = [pc EXCEPT ![t] = "connect"]
    /\ UNCHANGED <<initCount, calls, io, orphans, link, queue, cookies>>

InitWaits(t) ==
    /\ pc[t] = "init"
    /\ initState \in {"Starting", "Stopping"}
    /\ pc' = [pc EXCEPT ![t] = "initWait"]
    /\ UNCHANGED <<initState, initCount, calls, io, orphans, link, queue, cookies>>

InitJoins(t) ==
    /\ pc[t] = "init"
    /\ initState = "Started"
    /\ initCount' = initCount + 1
    /\ pc' = [pc EXCEPT ![t] = "in"]
    /\ UNCHANGED <<initState, calls, io, orphans, link, queue, cookies>>

\* Mutant of FailStart: the count is given back although it was never taken.
FailStartUncounts(t) ==
    /\ initState' = "Stopped"
    /\ initCount' = initCount - 1
    /\ Signal(t, "term")
    /\ UNCHANGED <<calls, io, orphans, link, queue, cookies>>

\* The catch (...) of init(), then the one of OOCore_Omega_Initialize, which
\* calls term() before it reports the failure.
FailStart(t) ==
    /\ initState' = "Stopped"
    /\ Signal(t, "term")
    /\ UNCHANGED <<initCount, calls, io, orphans, link, queue, cookies>>

\* start() up to m_worker_thread.run(): the stream is connected, the zero
\* compartment and the channel factory registered, the reader spawned.
Connect(t) ==
    /\ pc[t] = "connect"
    /\ link' = "open"
    /\ cookies' = cookies + 1
    /\ orphans' = IF io = "running" THEN orphans + 1 ELSE orphans
    /\ io' = "running"
    /\ queue' = [queue EXCEPT ![t] = IF @ = "none" THEN "open" ELSE @]
    /\ pc' = [pc EXCEPT ![t] = "register"]
    /\ UNCHANGED <<initState, initCount, calls>>

ConnectFails(t) ==
    /\ pc[t] = "connect"
    /\ Failures
    /\ FailStart(t)

\* The rest of start(): the user process answers GetRemoteInstance, the IPS
\* and the registry are registered; then init() publishes eStarted and, still
\* under the mutex, goes round its loop to count itself.
Register(t) ==
    /\ pc[t] = "register"
    /\ io = "running"
    /\ queue[t] = "open"
    /\ cookies' = cookies + 2
    /\ initState' = "Started"
    /\ initCount' = initCount + 1
    /\ Broadcast(t, "in")
    /\ UNCHANGED <<calls, io, orphans, link, queue>>

\* GetRemoteInstance throws: the user process says so, or the reader has
\* closed this thread's queue, now or when an earlier session ended.
RegisterFails(t) ==
    /\ pc[t] = "register"
    /\ Failures \/ queue[t] = "closed"
    /\ FailStart(t)

-----------------------------------------------------------------------------
\* Omega::Uninitialize

Uninitialize(t) ==
    /\ pc[t] = "in"
    /\ pc' = [pc EXCEPT ![t] = "term"]
    /\ UNCHANGED <<initState, initCount, calls, io, orphans, link, queue, cookies>>

\* Mutant of TermStops: stops the session, but takes off only its own count.
TermStopsKeepsCount(t) ==
    /\ pc[t] = "term"
    /\ initState = "Started"
    /\ initCount > 0
    /\ initCount' = initCount - 1
    /\ initState' = "Stopping"
    /\ pc' = [pc EXCEPT ![t] = "cleanup"]
    /\ UNCHANGED <<calls, io, orphans, link, queue, cookies>>

\* Mutant of TermStops: "if (m_init_count-- == 0)", off by one.
TermStopsLate(t) ==
    /\ pc[t] = "term"
    /\ initState = "Started"
    /\ initCount > 0
    /\ initCount' = initCount - 1
    /\ pc' = [pc EXCEPT ![t] = "out"]
    /\ UNCHANGED <<initState, calls, io, orphans, link, queue, cookies>>

\* case eStarted: leaves the switch, not the loop, when the count is not yet
\* zero, so one call takes the count all the way down without giving up the
\* mutex and stops the session.  With a zero count it would spin for ever.
TermStops(t) ==
    /\ pc[t] = "term"
    /\ initState = "Started"
    /\ initCount > 0
    /\ initCount' = 0
    /\ initState' = "Stopping"
    /\ pc' = [pc EXCEPT ![t] = "cleanup"]
    /\ UNCHANGED <<calls, io, orphans, link, queue, cookies>>

TermWaits(t) ==
    /\ pc[t] = "term"
    /\ initState \in {"Starting", "Stopping"}
    /\ pc' = [pc EXCEPT ![t] = "termWait"]
    /\ UNCHANGED <<initState, initCount, calls, io, orphans, link, queue, cookies>>

TermReturns(t) ==
    /\ pc[t] = "term"
    /\ initState = "Stopped"
    /\ pc' = [pc EXCEPT ![t] = "out"]
    /\ UNCHANGED <<initState, initCount, calls, io, orphans, link, queue, cookies>>

\* stop() up to the disconnect message.  An exception out of RevokeIPS or of
\* the ROT lookup is swallowed and skips the revocation of the cookies.
Cleanup(t) ==
    /\ pc[t] = "cleanup"
    /\ cookies' \in {0, cookies}
    /\ link' = IF link = "open" THEN "shut" ELSE link
    /\ pc' = [pc EXCEPT ![t] = "join"]
    /\ UNCHANGED <<initState, initCount, calls, io, orphans, queue>>

\* Mutant of JoinTimesOut: the stream is not closed when the join times out.
JoinTimesOutOnly(t) ==
    /\ pc[t] = "join"
    /\ io = "running"
    /\ UNCHANGED vars

\* m_worker_thread.join(wait) times out after 5 s: m_stream->close().
JoinTimesOut(t) ==
    /\ pc[t] = "join"
    /\ io = "running"
    /\ link # "closed"
    /\ link' = "closed"
    /\ UNCHANGED <<initState, initCount, pc, calls, io, orphans, queue, cookies>>

\* The reader has been joined: term() publishes eStopped and loops.
StopEnds(t) ==
    /\ pc[t] = "join"
    /\ io # "running"
    /\ initState' = "Stopped"
    /\ Broadcast(t, "term")
    /\ UNCHANGED <<initCount, calls, io, orphans, link, queue, cookies>>

-----------------------------------------------------------------------------
\* The user process and the io worker

HangUp ==
    /\ link = "shut" \/ (Failures /\ link = "open")
    /\ link' = "closed"
    /\ UNCHANGED <<initState, initCount, pc, calls, io, orphans, queue, cookies>>

ClosedQueues ==
    [t \in Threads |-> IF queue[t] = "open" THEN "closed" ELSE queue[t]]

\* run_read_loop() ends and closes the queue of every thread context.
WorkerExits ==
    /\ link = "closed"
    /\ \/ /\ io = "running"
          /\ io' = "exited"
          /\ UNCHANGED orphans
       \/ /\ orphans > 0
          /\ orphans' = orphans - 1
          /\ UNCHANGED io
    /\ queue' = ClosedQueues
    /\ UNCHANGED <<initState, initCount, pc, calls, link, cookies>>

-----------------------------------------------------------------------------

ThreadStep(t) ==
    \/ InitStarts(t) \/ InitWaits(t) \/ InitJoins(t)
    \/ Connect(t) \/ ConnectFails(t) \/ Register(t) \/ RegisterFails(t)
    \/ TermStops(t) \/ TermWaits(t) \/ TermReturns(t)
    \/ Cleanup(t) \/ JoinTimesOut(t) \/ StopEnds(t)

Next ==
    \/ \E t \in Threads : Initialize(t) \/ Uninitialize(t) \/ ThreadStep(t)
    \/ HangUp
    \/ WorkerExits

\* A thread waits without a timeout for the user process to answer GetRemoteInstance,
\* and in stop() for compartments, other processes and singletons to let go.
Awaits(t) ==
    \/ pc[t] = "register" /\ queue[t] = "open"
    \/ pc[t] = "cleanup"

\* But for that a thread inside Initialize or Uninitialize keeps running, connecting
\* gives up after 15 s, joining after 5 s, and a reader whose stream is closed leaves
\* its loop.  Nobody has to call anything, and the user process promises nothing.
Fairness ==
    /\ \A t \in Threads : WF_vars(~Awaits(t) /\ ThreadStep(t))
    /\ WF_vars(WorkerExits)

Spec == Init /\ [][Next]_vars /\ Fairness

-----------------------------------------------------------------------------
\* Properties

InStart(t) == pc[t] \in {"connect", "register"}
InStop(t)  == pc[t] \in {"cleanup", "join"}

\* start() and stop() run without m_cond_mutex; m_init_state is what keeps them
\* apart.  Only one thread is ever inside either of them, and the state says
\* which one for as long as it is there.
StartStopExclusive ==
    /\ \A t \in Threads : InStart(t) => initState = "Starting"
    /\ \A t \in Threads : InStop(t) => initState = "Stopping"
    /\ \A t, u \in Threads :
          (InStart(t) \/ InStop(t)) /\ (InStart(u) \/ InStop(u)) => t = u

\* A session is up exactly while it is counted.  Were the two ever to part,
\* term() would spin in case eStarted with the mutex held, or a later init()
\* would count itself into a session that is being stopped.
CountMatchesState == initState = "Started" <=> initCount > 0

\* A session that is up has a thread that will stop it: one that has returned
\* from Initialize, or one already on its way into term().  No interleaving of
\* failing and succeeding initialisers leaves a session nobody owns.
SessionIsOwned ==
    initState = "Started" => \E t \in Threads : pc[t] \in {"in", "term"}

\* start() and stop() end: the session does not stay in a transitional state, but
\* while a start waits for an answer over a stream that is open, or a stop is at what
\* it does before it closes the stream.
TransitionEnds ==
    []<>(\/ initState \in {"Started", "Stopped"}
         \/ \E t \in Threads : Awaits(t) /\ (pc[t] = "register" => link = "open"))

\* What m_init_count is kept for (UserSession.cpp:118): the session is stopped
\* only when every thread whose Initialize succeeded has called Uninitialize.
\* The code breaks it: the first term() takes the count down to zero.
StopsAfterLastTerm ==
    initState \in {"Stopping", "Stopped"} => \A t \in Threads : pc[t] # "in"

\* "Wait for a change in state" (UserSession.cpp:113 and 149): while a thread
\* waits on m_cond, some other thread is inside Initialize or Uninitialize and
\* going to change the state.  The code breaks it: a failed start() signals one
\* waiter only, and when that is a term() nobody wakes the others.
NobodyStranded ==
    (\E t \in Threads : Waiting(t)) =>
        \E t \in Threads : pc[t] # "out" /\ ~Waiting(t)

=============================================================================
