-------------------------- MODULE MCMessageConnection --------------------------
(***************************************************************************)
(* What a handler of messages does, of the root or of a user: it routes    *)
(* messages between processes, keeps a table of connections, and has       *)
(* threads for the requests. Routing takes the table and the threads to be *)
(* what they should, so a behaviour is one of one of the three, the others *)
(* resting: what MessageRouting says is said of all.                       *)
(***************************************************************************)
EXTENDS MCMessageRouting

CONSTANTS
    Streams,    \* the connections that come, and who queues requests
    Mask, MaxSends, MaxThreads, MaxRequests, MaxFailed

ASSUME HandlerAssumption ==
    /\ Mask \in Nat /\ MaxSends \in Nat /\ Nobody \notin Streams
    /\ MaxThreads \in Nat /\ MaxThreads >= 2 /\ MaxRequests \in Nat /\ MaxFailed \in Nat

VARIABLES part, ids, next, conn, peers, pend, closing, told, popped, deaf, age,
          m_waiting_threads, threads, queue, senders, sent, channels, ending, failed

\* What the connections are given ids of; a stream is a connection here.
Conns == INSTANCE Connections WITH
    Conns <- Streams, None <- Nobody, table <- ids, stopping <- closing

\* Two threads at first, and two more for two who queue requests.
Pool == INSTANCE RequestPool WITH AtFirst <- 2, Senders <- Streams, stopping <- ending

connVars == <<ids, next, conn, peers, pend, closing, told, popped, deaf, age>>
poolVars == <<m_waiting_threads, threads, queue, senders, sent, channels, ending, failed>>

\* What rests has nothing under way that fairness would have go on.
HandlerInit ==
    /\ part \in {"routing", "connections", "pool"}
    /\ Init /\ Conns!Init
    /\ IF part = "pool" THEN Pool!Init
       ELSE /\ m_waiting_threads = 0 /\ threads = [k \in Pool!Doing \X BOOLEAN |-> 0]
            /\ queue = [length |-> 0, closed |-> FALSE] /\ senders = [c \in Streams |-> Pool!Idle]
            /\ sent = 0 /\ channels = "open" /\ ending = "no" /\ failed = 0

HandlerNext ==
    \/ part = "routing" /\ Next /\ UNCHANGED <<part, connVars, poolVars>>
    \/ part = "connections" /\ Conns!Next /\ UNCHANGED <<part, vars, poolVars>>
    \/ part = "pool" /\ Pool!Next /\ UNCHANGED <<part, vars, connVars>>

\* The fairness of each part, of which the others, at rest, have no need.
HandlerFairness ==
    /\ WF_vars(part = "routing" /\ \E n \in Nodes : Step(n))
    /\ WF_connVars(part = "connections" /\ Conns!Going)
    /\ WF_poolVars(part = "pool" /\ Pool!Waiting) /\ WF_poolVars(part = "pool" /\ Pool!Begun)
    /\ WF_poolVars(part = "pool" /\ Pool!Ends(TRUE))
    /\ SF_poolVars(part = "pool" /\ Pool!Step("serves"))

HandlerSpec ==
    /\ HandlerInit /\ [][HandlerNext]_<<part, vars, connVars, poolVars>>
    /\ HandlerFairness

\* Each part is of its type.
HandlerTypeOK ==
    CASE part = "routing" -> TypeOK
      [] part = "connections" -> Conns!TypeOK
      [] part = "pool" -> Pool!TypeOK /\ Pool!SomeStay

\* Each of these is what its part's module says of it.
Attended == part = "connections" => Conns!Attended
ClosingsAreOwn == Conns!ClosingsAreOwn
PoolServes == Pool!PoolServes
================================================================================
