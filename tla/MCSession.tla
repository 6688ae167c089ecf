------------------------------- MODULE MCSession -------------------------------
(***************************************************************************)
(* How processes begin and end: the life of a session, the compartments it *)
(* has while it lives and shuts down in stop(), the singletons of a        *)
(* process, and the root server with its sandbox. The first takes of the   *)
(* second that its shutdown returns, and no others share state, so a       *)
(* behaviour is one of one of the four, the others resting.                *)
(***************************************************************************)
EXTENDS SessionLifecycle, Integers, Sequences

CONSTANTS
    Makers,                 \* the threads that make compartments and channels,
    Others, TheirIds,       \* the other processes, and the compartments they have,
    AtUninit, AtUnload,     \* the singletons that end with Omega, and with their module,
    Services,               \* and what the sandbox starts
    Nobody, MaxId, MaxChannels, MaxDepth, MaxMade

ASSUME SessionAssumption ==
    /\ Others \subseteq Nat \ {0} /\ TheirIds \subseteq Nat
    /\ AtUninit \cap AtUnload = {} /\ "all" \notin Services
    /\ Nobody \notin Nat \cup Threads
    /\ {MaxId, MaxChannels, MaxDepth, MaxMade} \subseteq Nat

Ends == Others \X TheirIds
Singles == AtUninit \cup AtUnload

VARIABLES
    part, m_mapCompartments, made, tables, channels, runs, makes, reader, stops, stop, leaked,
    instance, singles, lock, uninit, stack, freed, place, on, raced, crossed, broken,
    main, user, m_sandbox_channel, mapped, accepting, upstream, open, job, notice, launching, toLaunch,
    inbox, starting, m_mapServices, service, telling, hung, sweep, quits, quit, unsettled, late, missed

Compts == INSTANCE Compartments WITH Threads <- Makers, Peers <- Ends, None <- Nobody

Sngtn == INSTANCE Singletons WITH
    None <- Nobody, Names <- Singles,
    Lifetime <- [n \in Singles |-> IF n \in AtUninit THEN "initialise" ELSE "module"],
    made <- singles, at <- place

\* The root and its sandbox.
Servers == INSTANCE ServerLife WITH Names <- Services, link <- upstream

comptVars == <<m_mapCompartments, made, tables, channels, runs, makes, reader, stops, stop, leaked>>
sngtnVars == <<instance, singles, lock, uninit, stack, freed, place, on, raced, crossed, broken>>
serverVars == <<main, user, m_sandbox_channel, mapped, accepting, upstream, open, job, notice, launching,
                toLaunch, inbox, starting, m_mapServices, service, telling, hung, sweep, quits, quit, unsettled,
                late, missed>>

\* Servers that rest have stopped: fairness would have them go on.
SessionInit ==
    /\ part \in {"life", "compartments", "singletons", "servers"}
    /\ Init /\ Compts!Init /\ Sngtn!Init
    /\ Servers!InitAt(IF part = "servers" THEN "load" ELSE "stopped")

SessionNext ==
    \/ part = "life" /\ Next /\ UNCHANGED <<part, comptVars, sngtnVars, serverVars>>
    \/ part = "compartments" /\ Compts!Next /\ UNCHANGED <<part, vars, sngtnVars, serverVars>>
    \/ part = "singletons" /\ Sngtn!Next /\ UNCHANGED <<part, vars, comptVars, serverVars>>
    \/ part = "servers" /\ Servers!Next /\ UNCHANGED <<part, vars, comptVars, sngtnVars>>

SessionSpec ==
    /\ SessionInit /\ [][SessionNext]_<<part, vars, comptVars, sngtnVars, serverVars>>
    /\ Fairness /\ Servers!Fairness

\* Each part is of its type.
SessionTypeOK ==
    CASE part = "life" -> TypeOK
      [] part = "compartments" -> Compts!TypeOK
      [] part = "singletons" -> Sngtn!TypeOK
      [] part = "servers" -> Servers!TypeOK

\* Each of these is what its part's module says of it.
CompartmentsEnd == Compts!ConnectedIsKept
TakenDownWhole ==
    /\ part = "singletons" => Sngtn!SingletonsAreOne
    /\ part = "servers" => Servers!ServersEndWhole
TransitionsEnd == TransitionEnds /\ Servers!ShutdownEnds
================================================================================
