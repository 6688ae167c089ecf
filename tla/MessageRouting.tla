---------------------------- MODULE MessageRouting ----------------------------
(***************************************************************************)
(* How requests, responses and channel-close notices travel between the    *)
(* processes: the tree of OOServer::MessageHandlers (ooserverd at the      *)
(* root, one ooserver per user, one of them the sandbox) with the          *)
(* applications' UserSessions as its leaves.                               *)
(*                                                                         *)
(* A channel id is the place of a process in the tree: m_uChannelMask and  *)
(* m_uChildMask cut the id into the user process and the application, so a *)
(* process stands for its id, Within for "(id & m_uChannelMask) ==         *)
(* m_uChannelId" and Hop for "id & (m_uChannelMask | m_uChildMask)".       *)
(***************************************************************************)
EXTENDS FiniteSets, Naturals, Sequences

CONSTANTS
    Root,      \* ooserverd
    Users,     \* the user processes, all connected to the root
    Sandbox,   \* m_sandbox_channel: the user process of the sandbox
    Apps,      \* the applications
    UserOf,    \* [Apps -> Users]: the user process an application connects to
    Calls,     \* <<caller, callee>>: who may call whom
    Late,      \* applications that connect when others are already running
    Mortal,    \* processes that may die
    Nobody,    \* no process
    MaxCalls   \* bound: synchronous calls made altogether

Handlers == {Root} \cup Users
Nodes == Handlers \cup Apps

ASSUME RoutingAssumption ==
    /\ Root \notin Users /\ Handlers \cap Apps = {}
    /\ Nobody \notin Nodes
    /\ Sandbox \in Users
    /\ UserOf \in [Apps -> Users]
    /\ Calls \subseteq {p \in Nodes \X Nodes : p[1] # p[2]}
    /\ Late \subseteq Apps
    /\ Mortal \subseteq Nodes \ {Root}
    /\ MaxCalls \in Nat

VARIABLES
    life,     \* whether each process is up
    table,    \* m_mapChannelIds of each handler: the neighbours it is linked to
    wire,     \* the bytes in flight on each direction of each connection
    entry,    \* m_mapChannels of an application: the channels it holds
    waits,    \* the channel each process waits on in wait_for_response
    result,   \* how its last wait_for_response ended
    serving,  \* the callers whose requests each process is working on
    calls     \* calls made so far (bounded by MaxCalls)

vars == <<life, table, wire, entry, waits, result, serving, calls>>

-----------------------------------------------------------------------------
\* The tree

UserSide(n) == IF n \in Apps THEN UserOf[n] ELSE n

Parent(n) == IF n \in Apps THEN UserOf[n] ELSE Root

Edges == UNION {{<<n, Parent(n)>>, <<Parent(n), n>>} : n \in Nodes \ {Root}}

\* Is n at or below h?
Within(h, n) == h = Root \/ h = UserSide(n)

\* Mutant of Hop: the branch that sends upstream is missing.
HopNeverUp(h, n) == IF h = Root THEN UserSide(n) ELSE n

\* The neighbour h hands a message for n to.
Hop(h, n) ==
    IF h = Root THEN UserSide(n) ELSE IF h = UserSide(n) THEN n ELSE Root

\* Mutant of CanRoute: Root::Manager does not override can_route.
CanRouteAnywhere(h, src, dst) == src # dst

\* MessageHandler::can_route, and Root::Manager::can_route: the root only
\* routes into or out of the sandbox.
CanRoute(h, src, dst) ==
    /\ src # dst
    /\ h = Root => Sandbox \in {UserSide(src), UserSide(dst)}

-----------------------------------------------------------------------------
\* Messages

Message == [kind : {"request", "response"}, src : Nodes, dst : Nodes]
Notice  == [kind : {"close"}, src : Handlers, dst : Nodes, about : Nodes]
Eof     == [kind |-> "eof"]

Close(h, n, c) == [kind |-> "close", src |-> h, dst |-> n, about |-> c]

TypeOK ==
    /\ life \in [Nodes -> {"unborn", "up", "down"}]
    /\ table \in [Handlers -> SUBSET Nodes]
    /\ wire \in [Edges -> Seq(Message \cup Notice \cup {Eof})]
    /\ entry \in [Apps -> [Nodes -> {"none", "open", "closed"}]]
    /\ waits \in [Nodes -> Nodes \cup {Nobody}]
    /\ result \in [Nodes -> {"none", "answer", "closed"}]
    /\ serving \in [Nodes -> SUBSET Nodes]
    /\ calls \in 0..MaxCalls

Init ==
    /\ life = [n \in Nodes |-> IF n \in Late THEN "unborn" ELSE "up"]
    /\ table = [h \in Handlers |->
                  IF h = Root THEN Users ELSE {Root} \cup {a \in Apps \ Late : UserOf[a] = h}]
    /\ wire = [e \in Edges |-> <<>>]
    /\ entry = [a \in Apps |-> [n \in Nodes |-> "none"]]
    /\ waits = [n \in Nodes |-> Nobody]
    /\ result = [n \in Nodes |-> "none"]
    /\ serving = [n \in Nodes |-> {}]
    /\ calls = 0

\* The wires after a step that reads the head of one of them (or of none) and
\* puts the messages ms[n] on the wire of process h to its neighbour n.  What
\* is written to a process that is down is lost.
Wires(read, h, ms) ==
    [e \in Edges |->
        LET left == IF e = read THEN Tail(wire[e]) ELSE wire[e]
        IN  IF e[1] = h /\ e[2] \in DOMAIN ms /\ life[e[2]] = "up"
            THEN left \o ms[e[2]] ELSE left]

NoEdge == <<>>
First(x, n) == Head(wire[<<x, n>>])
Quiet == [n \in {} |-> <<>>]

\* send_message by h for m.dst, on the connection its table has for it; without
\* one the message is dropped (io_result::channel_closed).
SendBy(h, m) ==
    LET next == Hop(h, m.dst)
    IN  IF next \in table[h] THEN [n \in {next} |-> <<m>>] ELSE Quiet

\* UserSession::send_request and send_response: an application has one stream.
SendUp(a, m) == [n \in {UserOf[a]} |-> <<m>>]

Msg(kind, src, dst) == [kind |-> kind, src |-> src, dst |-> dst]

-----------------------------------------------------------------------------
\* Connections come and go

\* User::Manager::on_accept_i and UserSession::start: register_channel.
Connect(a) ==
    LET u == UserOf[a] IN
    /\ life[a] = "unborn" /\ life[u] = "up"
    /\ life' = [life EXCEPT ![a] = "up"]
    /\ table' = [table EXCEPT ![u] = @ \cup {a}]
    /\ UNCHANGED <<wire, entry, waits, result, serving, calls>>

\* The wires when n goes down: its neighbours find the end of the stream after
\* what it had written, and nobody reads what was written to it.
Hangup(n, w) ==
    [e \in Edges |-> IF e[1] = n /\ life[e[2]] = "up" THEN Append(w[e], Eof)
                     ELSE IF e[2] = n THEN <<>> ELSE w[e]]

Down(n) ==
    /\ life' = [life EXCEPT ![n] = "down"]
    /\ serving' = [serving EXCEPT ![n] = {}]

Die(n) ==
    /\ n \in Mortal /\ life[n] = "up"
    /\ Down(n)
    /\ wire' = Hangup(n, wire)
    /\ waits' = [waits EXCEPT ![n] = Nobody]
    /\ result' = [result EXCEPT ![n] = "none"]
    /\ UNCHANGED <<table, entry, calls>>

-----------------------------------------------------------------------------
\* MessageHandler::channel_closed

\* h drops its connection c, or is told by src that c has closed further away;
\* it tells every other neighbour that may hold c.
ClosedNotices(h, c, src) ==
    [n \in {k \in table[h] \ {c, src} : k = Root \/ CanRoute(h, c, k)} |->
        <<Close(h, n, c)>>]

\* All threads are pulsed and look again whether the neighbour their call went
\* through is still in the table.
Unblocked(h, c) == waits[h] # Nobody /\ c \in table[h] /\ Hop(h, waits[h]) = c

ChannelClosed(h, c, src, read) ==
    /\ table' = [table EXCEPT ![h] = @ \ {c}]
    /\ wire' = IF c \notin table[h] /\ src = Nobody
               THEN Wires(read, h, Quiet)
               ELSE Wires(read, h, ClosedNotices(h, c, src))
    /\ IF Unblocked(h, c)
       THEN /\ waits' = [waits EXCEPT ![h] = Nobody]
            /\ result' = [result EXCEPT ![h] = "closed"]
       ELSE UNCHANGED <<waits, result>>

\* MessageConnection::on_closed, when the read of x's connection fails ...
ReadsEof(h, x) ==
    /\ life[h] = "up" /\ wire[<<x, h>>] # <<>> /\ First(x, h) = Eof
    /\ x # Root
    /\ ChannelClosed(h, x, Nobody, <<x, h>>)
    /\ UNCHANGED <<life, entry, serving, calls>>

\* ... or a write to it (on_sent), while what x wrote last is still unread.
WriteFails(h, x) ==
    /\ life[h] = "up" /\ life[x] = "down" /\ x \in table[h] /\ x # Root
    /\ ChannelClosed(h, x, Nobody, NoEdge)
    /\ UNCHANGED <<life, entry, serving, calls>>

\* The root has dropped the connection of the user process u: do_channel_closed
\* makes u quit, which ends the sessions of its applications.
UserQuits(u) ==
    /\ life[u] = "up" /\ wire[<<Root, u>>] # <<>> /\ First(Root, u) = Eof
    /\ Down(u)
    /\ table' = [table EXCEPT ![u] = {}]
    /\ LET told == Wires(<<Root, u>>, u, ClosedNotices(u, Root, Nobody))
       IN  wire' = [Hangup(u, told) EXCEPT ![<<u, Root>>] = <<>>]
    /\ waits' = [waits EXCEPT ![u] = Nobody]
    /\ result' = [result EXCEPT ![u] = "none"]
    /\ UNCHANGED <<entry, calls>>

-----------------------------------------------------------------------------
\* MessageHandler::parse_message: h reads a message from its neighbour x.  A
\* connection the root has dropped itself is not read any more.

Reads(h, x) ==
    /\ life[h] = "up" /\ (x \in table[h] \/ life[x] = "down")
    /\ wire[<<x, h>>] # <<>> /\ First(x, h) # Eof

HandlesClose(h, x) == LET m == First(x, h) IN
    /\ Reads(h, x) /\ m.dst = h /\ m.kind = "close"
    /\ ChannelClosed(h, m.about, m.src, <<x, h>>)
    /\ UNCHANGED <<life, entry, serving, calls>>

\* queue_message, and the thread that takes the message up.
HandlesMessage(h, x) == LET m == First(x, h) IN
    /\ Reads(h, x) /\ m.dst = h /\ m.kind # "close"
    /\ wire' = Wires(<<x, h>>, h, Quiet)
    /\ IF m.kind = "request"
       THEN /\ serving' = [serving EXCEPT ![h] = @ \cup {m.src}]
            /\ UNCHANGED <<waits, result>>
       ELSE /\ waits' = [waits EXCEPT ![h] = Nobody]
            /\ result' = [result EXCEPT ![h] = IF waits[h] = Nobody THEN @ ELSE "answer"]
            /\ UNCHANGED serving
    /\ UNCHANGED <<life, table, entry, calls>>

MayRoute(h, m) ==
    Within(h, m.src) /\ Within(h, m.dst) => CanRoute(h, m.src, m.dst)

\* The connection that brought a message for an illegal path is dropped.
DropsConnection(h, x) == LET m == First(x, h) IN
    /\ Reads(h, x) /\ m.dst # h /\ ~MayRoute(h, m)
    /\ table' = [table EXCEPT ![h] = @ \ {x}]
    /\ LET told == Wires(<<x, h>>, h, ClosedNotices(h, x, Nobody))
       IN  wire' = [told EXCEPT ![<<x, h>>] = <<>>, ![<<h, x>>] = Append(@, Eof)]
    /\ IF Unblocked(h, x)
       THEN /\ waits' = [waits EXCEPT ![h] = Nobody]
            /\ result' = [result EXCEPT ![h] = "closed"]
       ELSE UNCHANGED <<waits, result>>
    /\ UNCHANGED <<life, entry, serving, calls>>

\* Where h sends m: on to the next process, or, if that is not in the table,
\* a notice that m.dst has closed back to where m came from.
Forwarded(h, m) ==
    IF Hop(h, m.dst) \in table[h] THEN SendBy(h, m)
    ELSE SendBy(h, Close(h, m.src, m.dst))

Routes(h, x) == LET m == First(x, h) IN
    /\ Reads(h, x) /\ m.dst # h /\ MayRoute(h, m)
    /\ wire' = Wires(<<x, h>>, h, Forwarded(h, m))
    /\ UNCHANGED <<life, table, entry, waits, result, serving, calls>>

-----------------------------------------------------------------------------
\* UserSession::run_read_loop

AppReads(a, kind) ==
    LET stream == <<UserOf[a], a>> IN
    /\ life[a] = "up" /\ wire[stream] # <<>> /\ Head(wire[stream]).kind = kind
    /\ wire' = Wires(stream, a, Quiet)

Returns(n, how) ==
    /\ waits' = [waits EXCEPT ![n] = Nobody]
    /\ result' = [result EXCEPT ![n] = IF waits[n] = Nobody THEN @ ELSE how]

\* Mutant of AppHandlesClose: whoever waits is told that its channel has closed.
AppCloseEndsAll(a) == LET m == First(UserOf[a], a) IN
    /\ AppReads(a, "close")
    /\ Returns(a, "closed")
    /\ entry' = [entry EXCEPT ![a][m.about] = "none"]
    /\ UNCHANGED <<life, table, serving, calls>>

\* process_channel_close: the channel is marked closed; a thread waiting on it
\* is pulsed, finds it closed and removes it.
AppHandlesClose(a) == LET m == First(UserOf[a], a) IN
    /\ AppReads(a, "close")
    /\ IF waits[a] = m.about
       THEN /\ Returns(a, "closed")
            /\ entry' = [entry EXCEPT ![a][m.about] = "none"]
       ELSE /\ entry' = [entry EXCEPT ![a][m.about] = IF @ = "open" THEN "closed" ELSE @]
            /\ UNCHANGED <<waits, result>>
    /\ UNCHANGED <<life, table, serving, calls>>

\* A request opens a channel to where it came from (get_channel_om).
AppHandlesRequest(a) == LET m == First(UserOf[a], a) IN
    /\ AppReads(a, "request")
    /\ entry' = [entry EXCEPT ![a][m.src] = IF @ = "none" THEN "open" ELSE @]
    /\ serving' = [serving EXCEPT ![a] = @ \cup {m.src}]
    /\ UNCHANGED <<life, table, waits, result, calls>>

AppHandlesResponse(a) ==
    /\ AppReads(a, "response")
    /\ Returns(a, "answer")
    /\ UNCHANGED <<life, table, entry, serving, calls>>

\* The stream has ended: every thread queue is closed.
AppLosesSession(a) ==
    /\ AppReads(a, "eof")
    /\ Down(a)
    /\ Returns(a, "closed")
    /\ UNCHANGED <<table, entry, calls>>

-----------------------------------------------------------------------------
\* Calls

\* UserSession::send_request through a proxy for c, old or newly unmarshalled.
\* wait_for_response looks at the channel before it waits.
AppCalls(a, c) ==
    /\ life[a] = "up" /\ waits[a] = Nobody
    /\ wire' = Wires(NoEdge, a, SendUp(a, Msg("request", a, c)))
    /\ IF entry[a][c] = "closed"
       THEN /\ entry' = [entry EXCEPT ![a][c] = "none"]
            /\ result' = [result EXCEPT ![a] = "closed"]
            /\ UNCHANGED waits
       ELSE /\ entry' = [entry EXCEPT ![a][c] = "open"]
            /\ result' = [result EXCEPT ![a] = "none"]
            /\ waits' = [waits EXCEPT ![a] = c]

\* MessageHandler::send_request; it fails at once without a connection.
HandlerCalls(h, c) ==
    /\ life[h] = "up" /\ waits[h] = Nobody /\ Hop(h, c) \in table[h]
    /\ wire' = Wires(NoEdge, h, SendBy(h, Msg("request", h, c)))
    /\ waits' = [waits EXCEPT ![h] = c]
    /\ result' = [result EXCEPT ![h] = "none"]
    /\ UNCHANGED entry

Call(n, c) ==
    /\ <<n, c>> \in Calls /\ calls < MaxCalls /\ life[c] # "unborn"
    /\ calls' = calls + 1
    /\ IF n \in Apps THEN AppCalls(n, c) ELSE HandlerCalls(n, c)
    /\ UNCHANGED <<life, table, serving>>

\* n has done what c asked for: send_response.
Respond(n, c) ==
    /\ serving' = [serving EXCEPT ![n] = @ \ {c}]
    /\ LET m == Msg("response", n, c)
       IN  wire' = Wires(NoEdge, n, IF n \in Apps THEN SendUp(n, m) ELSE SendBy(n, m))
    /\ UNCHANGED <<life, table, entry, waits, result, calls>>

-----------------------------------------------------------------------------

HandlerStep(h) ==
    \/ \E x \in Nodes : /\ <<x, h>> \in Edges
                       /\ \/ ReadsEof(h, x) \/ HandlesClose(h, x) \/ HandlesMessage(h, x)
                          \/ DropsConnection(h, x) \/ Routes(h, x)
    \/ h # Root /\ UserQuits(h)

AppStep(a) ==
    \/ AppHandlesClose(a) \/ AppHandlesRequest(a)
    \/ AppHandlesResponse(a) \/ AppLosesSession(a)

\* What a process does with the messages and the work it has.
Step(n) ==
    \/ n \in Handlers /\ HandlerStep(n)
    \/ n \in Apps /\ AppStep(n)
    \/ \E c \in serving[n] : Respond(n, c)

Next ==
    \/ \E n \in Nodes : Step(n) \/ Die(n)
    \/ \E a \in Apps : Connect(a)
    \/ \E h \in Handlers, x \in Nodes : WriteFails(h, x)
    \/ \E n, c \in Nodes : Call(n, c)

\* The proactor of a handler keeps reading its connections, the io worker of a
\* session its stream, and a process that is up finishes the work it was asked
\* for.  As the messages are finitely many, it is enough that some process with
\* something to do does it.  Nobody has to connect, call or die, and no write
\* has to fail.
Fairness == WF_vars(\E n \in Nodes : Step(n))

Spec == Init /\ [][Next]_vars /\ Fairness

-----------------------------------------------------------------------------
\* Properties

\* Is n still linked to the root, as far as the tables go?
Attached(n) == n \in table[Parent(n)] /\ UserSide(n) \in table[Root]

Gone == {n \in Nodes \ {Root} : life[n] = "down" \/ (life[n] = "up" /\ ~Attached(n))}

\* Across the root nothing passes between two users unless one of them is the
\* sandbox: no request, no response, no news of a channel (Root::Manager::
\* can_route, whichever of parse_message and channel_closed asks it).
OnlySandboxAcrossRoot ==
    \A u \in Users : \A i \in DOMAIN wire[<<Root, u>>] :
        LET m == wire[<<Root, u>>][i]
            from == IF m.kind = "close" THEN m.about ELSE m.src
        IN  m # Eof => from = Root \/ Sandbox \in {u, UserSide(from)}

\* A channel is reported closed only once it really is unreachable: no routing
\* decision, made on whatever state of the tables, turns a live peer's channel
\* into a closed one.
CloseIsTrue ==
    \A e \in Edges : \A i \in DOMAIN wire[e] :
        LET m == wire[e][i] IN
        m # Eof /\ m.kind = "close" /\ m.about # Root => m.about \in Gone

\* Synchronous calls behave as CallService says: send_request gives an answer, or
\* IChannelClosedException when the callee or the caller is cut off, and returns.
Service == INSTANCE CallService WITH
    Callers <- Nodes, Callees <- Nodes, Nobody <- Nobody,
    pending <- waits, result <- result, gone <- Gone

ImplementsCallService == Service!Spec

\* Every call comes back.  "Check if the channel we are waiting on is still
\* valid..." (MessageConnection.cpp:776): for a channel that is not one of its
\* own applications a user process checks the connection to the root instead,
\* so the code breaks this when a process of another user dies in a call.
CallEnds == \A n \in Nodes : []<>(waits[n] = Nobody)

=============================================================================
