------------------------------ MODULE Connections ------------------------------
(***************************************************************************)
(* The connections of a message handler (MessageConnection.cpp 69-237,     *)
(* 429-492, 556-595, 741-753; User::Manager::on_accept): how each is       *)
(* accepted, given a channel id, read from, written to, closed by its read *)
(* and by its write, and how all are shut down. The table of channels is   *)
(* under the handler's lock; a connection's id is under its own, and what  *)
(* is done with it is done later.                                          *)
(***************************************************************************)
EXTENDS Integers, FiniteSets

CONSTANTS
    Conns, None,
    Mask,         \* m_uNextChannelMask: ids are 1 to Mask
    MaxSends      \* bound: messages on their way out on one connection

VARIABLES
    table,        \* m_mapChannelIds: [Ids -> connection or None]
    next,         \* m_uNextChannelId, as the mask shows it
    conn,         \* [Conns -> its place in on_accept and channel_id there, m_channel_id, ...]
    peers,        \* connections whose other end is there
    pend,         \* closings read off an id and not yet carried out, by who reads from the
                  \* connection, or accepts it, and by who writes to it
    stopping,     \* shutdown_channels: not called, walking the table, or over
    told,         \* history: how often the closing of each was reported
    popped, deaf, \* history: taken out by the shutdown; accepted but never read
    age           \* history: how far the counter has gone since each was given its id,
                  \* Mask + 1 for a round or more

vars == <<table, next, conn, peers, pend, stopping, told, popped, deaf, age>>

Ids == 1..Mask
Entries == {i \in Ids : table[i] # None}

Init ==
    /\ table = [i \in Ids |-> None] /\ next = 0
    /\ conn = [c \in Conns |-> [at |-> "new", channel_id |-> 0, id |-> 0, reads |-> FALSE, sends |-> 0]]
    /\ peers = Conns /\ pend = {} /\ stopping = "no"
    /\ told = [c \in Conns |-> 0] /\ popped = {} /\ deaf = {} /\ age = [c \in Conns |-> 0]

-----------------------------------------------------------------------------
\* A mutant: the lowest free id.
LowestId(n) == CHOOSE i \in Ids : table[i] = None /\ \A j \in 1..i - 1 : table[j] # None

\* The counter goes on from the id n to the first that is neither our own nor taken:
\* by how much, and to which.
Nth(n, k) == (n + k) % (Mask + 1)
Fits(n, k) == Nth(n, k) # 0 /\ table[Nth(n, k)] = None
Turns(n) == CHOOSE k \in 1..Mask + 1 : Fits(n, k) /\ \A j \in 1..k - 1 : ~Fits(n, j)
NewId(n) == Nth(n, Turns(n))

\* The last id given: that of the last of these connections; or else others have come
\* since, and have gone again with nothing left of them but that the counter is at
\* the end of its round. So ids go round, with few connections to look at; it is
\* enough when an id that was given is free again.
LastGiven == {next} \cup IF next # 0 /\ Entries = {} THEN {Mask} ELSE {}

\* Of the history: every id that was given is so much older.
Older(a, k) == IF a + k > Mask THEN Mask + 1 ELSE a + k
Aged(n) ==
    [c \in Conns |-> IF conn[c].channel_id = 0 THEN age[c] ELSE Older(age[c], n - next + Turns(n))]

\* register_channel, with no fixed id: two ids are kept back, and the insert may
\* fail, when the counter has gone on. Whether all are being shut down, or have
\* been, is not asked.
register_channel(c) ==
    /\ conn[c].at = "new"
    /\ IF Cardinality(Entries) < Mask - 1
       THEN \E n \in LastGiven :
              /\ next' = NewId(n)
              /\ \/ /\ table' = [table EXCEPT ![NewId(n)] = c]
                    /\ conn' = [conn EXCEPT ![c].at = "inserted", ![c].channel_id = NewId(n)]
                    /\ age' = [Aged(n) EXCEPT ![c] = 0]
                 \/ conn' = [conn EXCEPT ![c].at = "refused"] /\ age' = Aged(n) /\ UNCHANGED table
       ELSE conn' = [conn EXCEPT ![c].at = "refused"] /\ UNCHANGED <<table, next, age>>
    /\ UNCHANGED <<peers, pend, stopping, told, popped, deaf>>

\* Its tail, out of the lock: the connection learns its id.
set_channel_id(c) ==
    /\ conn[c].at = "inserted"
    /\ conn' = [conn EXCEPT ![c].at = "named", ![c].id = conn[c].channel_id]
    /\ UNCHANGED <<table, next, peers, pend, stopping, told, popped, deaf, age>>

\* A write is given to the socket, or the call fails.
Writes(cs, c) == IF cs[c].sends < MaxSends THEN {[cs EXCEPT ![c].sends = @ + 1]} ELSE {}

\* on_accept sends the peer its id; if that fails it closes the channel.
Greet(c) ==
    /\ conn[c].at = "named"
    /\ \/ conn' \in Writes([conn EXCEPT ![c].at = "greeted"], c) /\ UNCHANGED pend
       \/ /\ conn' = [conn EXCEPT ![c].at = "up"]
          /\ pend' = pend \cup {[c |-> c, id |-> conn[c].channel_id, by |-> "read"]}
    /\ UNCHANGED <<table, next, peers, stopping, told, popped, deaf, age>>

\* It starts to read; if it cannot it asks the peer to close, and the entry stays.
Listen(c) ==
    /\ conn[c].at = "greeted"
    /\ \/ conn' = [conn EXCEPT ![c].at = "up", ![c].reads = TRUE] /\ UNCHANGED deaf
       \/ /\ LET up == [conn EXCEPT ![c].at = "up"] IN conn' \in Writes(up, c) \cup {up}
          /\ deaf' = deaf \cup {c}
    /\ UNCHANGED <<table, next, peers, pend, stopping, told, popped, age>>

\* on_closed: with no id yet there is nothing to close.
on_closed(c, by) == IF conn[c].id = 0 THEN pend ELSE pend \cup {[c |-> c, id |-> conn[c].id, by |-> by]}

\* on_recv ends the reading: the peer has closed or asks for it, the message makes
\* no sense, or the next read cannot be started.
ReadEnds(c) ==
    /\ conn[c].reads
    /\ conn' = [conn EXCEPT ![c].reads = FALSE]
    /\ pend' = on_closed(c, "read")
    /\ UNCHANGED <<table, next, peers, stopping, told, popped, deaf, age>>

\* parse_message sends what it read on to another channel; when the call to send it
\* fails, it is the connection that the message came on that is closed.
Route(c, i) ==
    /\ conn[c].reads /\ c \in peers /\ table[i] # None
    /\ \/ conn' \in Writes(conn, table[i]) /\ UNCHANGED pend
       \/ conn' = [conn EXCEPT ![c].reads = FALSE] /\ pend' = on_closed(c, "read")
    /\ UNCHANGED <<table, next, peers, stopping, told, popped, deaf, age>>

on_sent(c) ==
    /\ conn[c].sends > 0
    /\ conn' = [conn EXCEPT ![c].sends = @ - 1]
    /\ \/ pend' = on_closed(c, "write")
       \/ c \in peers /\ UNCHANGED pend
    /\ UNCHANGED <<table, next, peers, stopping, told, popped, deaf, age>>

PeerGoes(c) ==
    /\ c \in peers /\ conn[c].at \notin {"new", "refused"}
    /\ peers' = peers \ {c}
    /\ UNCHANGED <<table, next, conn, pend, stopping, told, popped, deaf, age>>

\* A mutant: whoever closes it reports it.
reportedByAll(e) == IF table[e.id] = None THEN {e.c} ELSE {table[e.id]}

\* channel_closed(id, 0): only who finds the channel there reports it.
reported(e) == IF table[e.id] = None THEN {} ELSE {table[e.id]}

channel_closed(e) ==
    /\ pend' = pend \ {e}
    /\ table' = [table EXCEPT ![e.id] = None]
    /\ told' = [c \in Conns |-> IF c \in reported(e) THEN told[c] + 1 ELSE told[c]]
    /\ UNCHANGED <<next, conn, peers, stopping, popped, deaf, age>>

\* shutdown_channels: the lock is let go for each connection it has taken out, that
\* then asks its peer to close.
shutdown_channels ==
    /\ stopping = "no" /\ stopping' = "popping"
    /\ UNCHANGED <<table, next, conn, peers, pend, told, popped, deaf, age>>

Pop(i) ==
    /\ stopping = "popping" /\ table[i] # None
    /\ table' = [table EXCEPT ![i] = None]
    /\ popped' = popped \cup {table[i]}
    /\ conn' \in Writes(conn, table[i]) \cup {conn}
    /\ UNCHANGED <<next, peers, pend, stopping, told, deaf, age>>

PoppedAll ==
    /\ stopping = "popping" /\ Entries = {}
    /\ stopping' = "over"
    /\ UNCHANGED <<table, next, conn, peers, pend, told, popped, deaf, age>>

Accepting(c) ==
    \/ register_channel(c)
    \/ set_channel_id(c)
    \/ Greet(c)
    \/ Listen(c)

Next ==
    \/ \E c \in Conns : Accepting(c) \/ ReadEnds(c) \/ on_sent(c) \/ PeerGoes(c)
    \/ \E c \in Conns, i \in Ids : Route(c, i)
    \/ \E e \in pend : channel_closed(e)
    \/ shutdown_channels \/ (\E i \in Ids : Pop(i)) \/ PoppedAll

\* The threads of the proactor go on with what they have begun, and a read ends when
\* the peer has gone. As none of this is done twice to a connection, it is enough
\* that some of it is done.
Going ==
    \/ \E c \in Conns : conn[c].at # "new" /\ Accepting(c)
    \/ \E c \in Conns : c \notin peers /\ ReadEnds(c)
    \/ \E e \in pend : channel_closed(e)
    \/ (\E i \in Ids : Pop(i)) \/ PoppedAll

Fairness == WF_vars(Going)

Spec == Init /\ [][Next]_vars /\ Fairness

-----------------------------------------------------------------------------
TypeOK ==
    /\ table \in [Ids -> Conns \cup {None}]
    /\ next \in 0..Mask
    /\ conn \in [Conns -> [at : {"new", "refused", "inserted", "named", "greeted", "up"},
                           channel_id : 0..Mask, id : 0..Mask, reads : BOOLEAN, sends : 0..MaxSends]]
    /\ pend \subseteq [c : Conns, id : Ids, by : {"read", "write"}]
    /\ peers \subseteq Conns /\ popped \subseteq Conns /\ deaf \subseteq Conns
    /\ stopping \in {"no", "popping", "over"} /\ told \in [Conns -> 0..2]
    /\ age \in [Conns -> 0..Mask + 1]

In(c) == \E i \in Ids : table[i] = c

\* A channel in the table is being accepted, is read from, or is about to be
\* closed, whatever read or write has failed: but not one whose first read could
\* not be started.
ReadOrClosing ==
    \A i \in Entries :
        LET c == table[i] IN
        \/ conn[c].at # "up" \/ conn[c].reads \/ c \in deaf
        \/ \E e \in pend : e.id = i

\* A channel that has left is reported once, to the others and to the derived
\* class, though its read and its writes each close it; but not one that the
\* shutdown has taken out.
ToldOnce ==
    \A c \in Conns :
        IF conn[c].at \in {"new", "refused"} \/ In(c) THEN told[c] = 0
        ELSE told[c] = IF c \in popped THEN 0 ELSE 1

Attended == ReadOrClosing /\ ToldOnce

\* A connection takes no channel but its own out of the table, however late it
\* closes, before the counter has gone a whole round since it was given its id. Then
\* the id is given again, and a second closing, or one that comes after the shutdown
\* has taken the channel out, is of whoever has it (MessageConnection.cpp 98-108, 458-468).
ClosesItsOwn ==
    [][\A e \in pend :
         pend' = pend \ {e} /\ table' # table => table[e.id] = e.c \/ age[e.c] > Mask]_vars

\* A channel whose peer has gone leaves the table.
GoneLeave == \A c \in Conns : []<>(c \in peers \/ ~In(c) \/ c \in deaf)

\* Both: a closing is of the connection that closes, and is carried out.
ClosingsAreOwn == ClosesItsOwn /\ GoneLeave

===============================================================================
