----------------------------- MODULE Compartments -----------------------------
(***************************************************************************)
(* The compartments of a process and their channels (Compartment.cpp,      *)
(* Channel.cpp and what UserSession.cpp does with them): threads make and  *)
(* find channels to other compartments and processes, the thread that      *)
(* reads from the session hands on notices of closed channels, and the     *)
(* last Uninitialize shuts every compartment down.                         *)
(*                                                                         *)
(* A channel's end is <<process, compartment>>; process 0 is this one. A   *)
(* channel and its object manager refer to each other until disconnect:    *)
(* one that is forgotten before holds its stubs and proxies for ever.      *)
(***************************************************************************)
EXTENDS Integers, FiniteSets, Sequences

CONSTANTS
    Threads,
    Peers,         \* the ends in other processes,
    None,
    MaxId,         \* bound: compartments made beside 0,
    MaxChannels,   \* bound: channels made,
    MaxDepth       \* bound: calls nested in a thread

Ids == 0..MaxId
Own(id) == <<0, id>>
IsOwn(end) == end[1] = 0

VARIABLES
    m_mapCompartments,  \* the session's,
    made,               \* and the last id it gave
    tables,             \* each compartment's m_mapChannels and m_mapCompartments: its
                        \* channels by their ends, with m_bOpen
    channels,           \* the channels made: in which compartment, to which end, and
                        \* whether they are connected
    runs,               \* the compartments of each thread's ThreadContext, the current last,
    makes,              \* and the channel that it is at making, or None
    reader,             \* the notice handed on, and to whom still, under the session's m_lock
    stops, stop,        \* the compartments to shut down, and where the first of them is
    leaked              \* history: channels nobody will disconnect

vars == <<m_mapCompartments, made, tables, channels, runs, makes, reader, stops, stop, leaked>>

Idle == [of |-> None, left |-> {}]

Init ==
    /\ m_mapCompartments = {0} /\ made = 0
    /\ tables = [c \in Ids |-> {}] /\ channels = <<>>
    /\ runs = [t \in Threads |-> <<0>>] /\ makes = [t \in Threads |-> None]
    /\ reader = Idle
    /\ stops = <<>> /\ stop = "runs"
    /\ leaked = {}

Current(t) == runs[t][Len(runs[t])]

\* m_lock of the session is free to a writer; that of a compartment to anyone.
SessionFree == reader = Idle
CompartmentFree(c) == ~(stop = "remove" /\ stops[1] = c)

Disconnect(chs) ==
    channels' = [i \in DOMAIN channels |-> IF i \in chs THEN [channels[i] EXCEPT !.connected = FALSE] ELSE channels[i]]
Entry(c, end) == {e \in tables[c] : e.end = end}

-----------------------------------------------------------------------------
\* create_compartment_i: the new compartment makes the channel to the current one
\* itself, and it is this channel that its creator gets. Nothing stops this while the
\* session shuts down: what is made then is not among those to shut down.
create_compartment(t) ==
    LET id == made + 1 IN
    /\ makes[t] = None /\ made < MaxId /\ SessionFree
    /\ m_mapCompartments' = m_mapCompartments \cup {id} /\ made' = id
    /\ makes' = [makes EXCEPT ![t] = [in |-> id, end |-> Own(Current(t))]]
    /\ UNCHANGED <<tables, channels, runs, reader, stops, stop, leaked>>

\* create_channel and create_compartment_channel: what is in the table, open or
\* not, is what the caller gets; a channel to a compartment that has gone is not
\* made.
create_channel(t, end) ==
    LET c == Current(t) IN
    /\ makes[t] = None /\ CompartmentFree(c) /\ c \in m_mapCompartments
    /\ Entry(c, end) = {} /\ (IsOwn(end) => end[2] \in m_mapCompartments \ {c})
    /\ makes' = [makes EXCEPT ![t] = [in |-> c, end |-> end]]
    /\ UNCHANGED <<m_mapCompartments, made, tables, channels, runs, reader, stops, stop, leaked>>

\* Has shutdown emptied the part of c's table that end would be in?
Swept(c, end) ==
    /\ stop # "runs" /\ c \notin m_mapCompartments
    /\ \A i \in DOMAIN stops : stops[i] # c \/ (i = 1 /\ stop = "compartments" /\ ~IsOwn(end))

\* What is inserted too late stays connected, and what was made beside another
\* thread's is dropped.
insert(t) ==
    LET ch == Len(channels) + 1
        c == makes[t].in
        end == makes[t].end IN
    /\ makes[t] # None /\ ch <= MaxChannels /\ CompartmentFree(c)
    /\ channels' = Append(channels, [in |-> c, end |-> end, connected |-> TRUE])
    /\ IF Entry(c, end) = {}
       THEN /\ tables' = [tables EXCEPT ![c] = @ \cup {[end |-> end, ch |-> ch, open |-> TRUE]}]
            /\ leaked' = IF Swept(c, end) THEN leaked \cup {ch} ELSE leaked
       ELSE leaked' = leaked \cup {ch} /\ UNCHANGED tables
    /\ makes' = [makes EXCEPT ![t] = None]
    /\ UNCHANGED <<m_mapCompartments, made, runs, reader, stops, stop>>

\* get_compartment finds none: what was to be made is not.
MakeFails(t) ==
    /\ makes[t] # None
    /\ IsOwn(makes[t].end) /\ makes[t].end[2] \notin m_mapCompartments
    /\ makes' = [makes EXCEPT ![t] = None]
    /\ UNCHANGED <<m_mapCompartments, made, tables, channels, runs, reader, stops, stop, leaked>>

-----------------------------------------------------------------------------
\* A thread serves a request of a peer in another of the compartments ...
process_request(t, c) ==
    /\ makes[t] = None /\ Len(runs[t]) < MaxDepth /\ c \in m_mapCompartments \ {Current(t)}
    /\ runs' = [runs EXCEPT ![t] = Append(@, c)]
    /\ UNCHANGED <<m_mapCompartments, made, tables, channels, makes, reader, stops, stop, leaked>>

\* ... or calls through a channel of its compartment to another, which makes its own
\* channel back.
compartment_message(t) ==
    /\ makes[t] = None /\ Len(runs[t]) < MaxDepth
    /\ \E e \in tables[Current(t)] :
           LET d == e.end[2] IN
           /\ IsOwn(e.end) /\ channels[e.ch].connected /\ CompartmentFree(d)
           /\ runs' = [runs EXCEPT ![t] = Append(@, d)]
           /\ makes' = IF Entry(d, Own(Current(t))) # {} THEN makes
                       ELSE [makes EXCEPT ![t] = [in |-> d, end |-> Own(Current(t))]]
    /\ UNCHANGED <<m_mapCompartments, made, tables, channels, reader, stops, stop, leaked>>

\* ComptState and process_request restore the current compartment.
Return(t) ==
    /\ makes[t] = None /\ Len(runs[t]) > 1
    /\ runs' = [runs EXCEPT ![t] = SubSeq(@, 1, Len(@) - 1)]
    /\ UNCHANGED <<m_mapCompartments, made, tables, channels, makes, reader, stops, stop, leaked>>

\* Channel::SendAndReceive and IsConnected: a request that cannot be sent, or a peer
\* that does not know its compartment, disconnects a channel that stays in the table.
SendFails(t) ==
    /\ \E e \in tables[Current(t)] : ~IsOwn(e.end) /\ Disconnect({e.ch})
    /\ UNCHANGED <<m_mapCompartments, made, tables, runs, makes, reader, stops, stop, leaked>>

\* is_channel_open, of a thread that waits for a response: an entry that was closed
\* is removed, and the channel left as it is.
is_channel_open(t) ==
    LET c == Current(t) IN
    /\ CompartmentFree(c)
    /\ \E e \in tables[c] :
           /\ ~e.open
           /\ tables' = [tables EXCEPT ![c] = @ \ {e}]
           /\ leaked' = leaked \cup {e.ch}
    /\ UNCHANGED <<m_mapCompartments, made, channels, runs, makes, reader, stops, stop>>

\* A channel's end in the other compartment.
Back(ch) == Entry(channels[ch].end[2], Own(channels[ch].in))
Closed(ch) == {ch} \cup {e.ch : e \in Back(ch)}

\* A mutant: the other compartment's channel is taken from its table, and left.
process_compartment_close_only(ch, tabs) ==
    LET d == channels[ch].end[2] IN
    /\ CompartmentFree(d)
    /\ tables' = [tabs EXCEPT ![d] = @ \ Back(ch)]
    /\ Disconnect({ch})

\* process_compartment_close in the compartment that channel ch leads to, and
\* ComptChannel::shutdown, which disconnects the channel. Its own entry stays.
process_compartment_close(ch, tabs) ==
    LET d == channels[ch].end[2] IN
    /\ CompartmentFree(d)
    /\ tables' = [tabs EXCEPT ![d] = @ \ Back(ch)]
    /\ Disconnect(Closed(ch))

\* An application releases the compartment it has created.
Final_Release(ch) ==
    /\ IsOwn(channels[ch].end) /\ channels[ch].in > channels[ch].end[2] /\ channels[ch].connected
    /\ process_compartment_close(ch, tables)
    /\ UNCHANGED <<m_mapCompartments, made, runs, makes, reader, stops, stop, leaked>>

-----------------------------------------------------------------------------
\* UserSession::process_channel_close goes from compartment to compartment with the
\* session's m_lock, which each of them takes its own in addition to.
CloseComes(end) ==
    /\ reader = Idle
    /\ reader' = [of |-> end, left |-> m_mapCompartments]
    /\ UNCHANGED <<m_mapCompartments, made, tables, channels, runs, makes, stops, stop, leaked>>

\* The end of compartment 0 is that of its process.
Concerns(end, closed) == end = closed \/ (closed[2] = 0 /\ end[1] = closed[1])

process_channel_close(c) ==
    /\ c \in reader.left /\ CompartmentFree(c)
    /\ tables' = [tables EXCEPT ![c] =
                     {IF ~IsOwn(e.end) /\ Concerns(e.end, reader.of) THEN [e EXCEPT !.open = FALSE] ELSE e : e \in @}]
    /\ reader' = [reader EXCEPT !.left = @ \ {c}]
    /\ UNCHANGED <<m_mapCompartments, made, channels, runs, makes, stops, stop, leaked>>

CloseEnds ==
    /\ reader # Idle /\ reader.left = {}
    /\ reader' = Idle
    /\ UNCHANGED <<m_mapCompartments, made, tables, channels, runs, makes, stops, stop, leaked>>

-----------------------------------------------------------------------------
\* close_compartments: the latest first.
close_compartments ==
    /\ stop = "runs"
    /\ stops' = [i \in 1..Cardinality(m_mapCompartments) |-> Cardinality(m_mapCompartments) - i]
    /\ stop' = "shutdown"
    /\ UNCHANGED <<m_mapCompartments, made, tables, channels, runs, makes, reader, leaked>>

\* shutdown takes the compartment's m_lock, and the session's to leave it ...
shutdown ==
    /\ stop = "shutdown" /\ stops # <<>>
    /\ stop' = "remove"
    /\ UNCHANGED <<m_mapCompartments, made, tables, channels, runs, makes, reader, stops, leaked>>

remove_compartment ==
    /\ stop = "remove" /\ SessionFree
    /\ m_mapCompartments' = m_mapCompartments \ {stops[1]}
    /\ stop' = "channels"
    /\ UNCHANGED <<made, tables, channels, runs, makes, reader, stops, leaked>>

\* ... tells the other ends of the open channels, and disconnects them. If that
\* throws, what is in the tables still is left there ...
PopChannel ==
    LET c == stops[1]
        remote == {e \in tables[c] : ~IsOwn(e.end)} IN
    /\ stop = "channels"
    /\ IF remote = {} THEN stop' = "compartments" /\ UNCHANGED <<tables, channels, leaked, stops>>
       ELSE \E e \in remote :
               \/ /\ tables' = [tables EXCEPT ![c] = @ \ {e}] /\ Disconnect({e.ch})
                  /\ UNCHANGED <<leaked, stops, stop>>
               \/ /\ e.open
                  /\ tables' = [tables EXCEPT ![c] = @ \ {e}]
                  /\ leaked' = leaked \cup {f.ch : f \in tables[c]}
                  /\ stops' = Tail(stops) /\ stop' = "shutdown"
                  /\ UNCHANGED channels
    /\ UNCHANGED <<m_mapCompartments, made, runs, makes, reader>>

\* ... and then the channels to the other compartments, with those back.
PopCompartment ==
    LET c == stops[1]
        own == {e \in tables[c] : IsOwn(e.end)} IN
    /\ stop = "compartments"
    /\ IF own = {} THEN stops' = Tail(stops) /\ stop' = "shutdown" /\ UNCHANGED <<tables, channels>>
       ELSE \E e \in own : /\ process_compartment_close(e.ch, [tables EXCEPT ![c] = @ \ {e}])
                           /\ UNCHANGED <<stops, stop>>
    /\ UNCHANGED <<m_mapCompartments, made, runs, makes, reader, leaked>>

Step(t) ==
    \/ create_compartment(t) \/ (\E end \in Peers \cup {Own(id) : id \in Ids} : create_channel(t, end))
    \/ insert(t) \/ MakeFails(t)
    \/ (\E c \in Ids : process_request(t, c)) \/ compartment_message(t) \/ Return(t)
    \/ SendFails(t) \/ is_channel_open(t)

Reads == \/ \E end \in Peers : CloseComes(end) \/ CloseComes(<<end[1], 0>>)
         \/ \E c \in Ids : process_channel_close(c)
         \/ CloseEnds

Stops == close_compartments \/ shutdown \/ remove_compartment \/ PopChannel \/ PopCompartment

Next ==
    \/ \E t \in Threads : Step(t)
    \/ \E ch \in DOMAIN channels : Final_Release(ch)
    \/ Reads \/ Stops

Spec == Init /\ [][Next]_vars

-----------------------------------------------------------------------------
TypeOK ==
    /\ m_mapCompartments \subseteq 0..made /\ made \in Ids
    /\ \A c \in Ids : \A e \in tables[c] :
           /\ e.end \in Peers \cup {Own(id) : id \in Ids \ {c}} /\ e.ch \in DOMAIN channels
           /\ channels[e.ch].in = c /\ channels[e.ch].end = e.end
    /\ Len(channels) <= MaxChannels
    /\ runs \in [Threads -> Seq(Ids)]
    /\ reader.left \subseteq Ids
    /\ stop \in {"runs", "shutdown", "remove", "channels", "compartments"}
    /\ leaked \subseteq DOMAIN channels

\* A compartment has one channel to each end, and a channel that is connected is the
\* one in its compartment's table, to be disconnected with it: but for those that
\* were made beside another thread's or after the shutdown, whose peer has closed
\* while a thread waited for it, or whose shutdown failed. When the last one has been
\* shut down, channels are connected only in compartments that were made since
\* close_compartments took its list, which the session lists still and nobody ends.
ConnectedIsKept ==
    /\ \A c \in Ids : \A e, f \in tables[c] : e.end = f.end => e = f
    /\ \A ch \in DOMAIN channels \ leaked :
           channels[ch].connected => \E e \in tables[channels[ch].in] : e.ch = ch
    /\ stop = "shutdown" /\ stops = <<>> =>
           \A ch \in DOMAIN channels \ leaked :
               channels[ch].connected => channels[ch].in \in m_mapCompartments
===============================================================================
