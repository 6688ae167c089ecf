------------------------ MODULE MessageConnectionProofs ------------------------
(***************************************************************************)
(* A handler and the messages that go through it. What travels on the      *)
(* wires of MessageRouting, for any tree of users and applications, any    *)
(* calls between them and any deaths.                                      *)
(*                                                                         *)
(* Then, why every connection in a handler's table is attended to:         *)
(* whatever its accept, its read, its writes, its peer and the shutdown    *)
(* do, somebody reads from it or is about to close it, and its end is      *)
(* reported once; for any connections and ids. And why a closing takes its *)
(* own connection from the table, for as long as ids are not given a       *)
(* second time.                                                            *)
(*                                                                         *)
(* At the end, the threads of the pool: the count of those that wait is    *)
(* what it should be, and two stay until the queue is closed.              *)
(***************************************************************************)
EXTENDS MCMessageConnection, FiniteSetTheorems, WellFoundedInduction, TLAPS

AnyMessage == Message \cup Notice \cup {Eof}

\* A message is on its way to where it is for: downwards on the branch of its
\* destination, upwards from where it comes from.
Travels(e, m) ==
    /\ m.src # m.dst
    /\ e[1] \in Apps => m.kind # "close" /\ m.src = e[1]
    /\ e[2] \in Apps => m.dst = e[2]
    /\ e[1] = Root => UserSide(m.dst) = e[2]

\* News of a channel that is passed on across the root are of a channel on the
\* side they come from, and only applications hear of the end of the root.
NewsTravel(e, m) ==
    m.kind = "close" =>
        /\ e[2] = Root /\ m.dst # Root => m.src = e[1] /\ UserSide(m.about) = e[1]
        /\ m.about = Root => e[2] \in Apps

\* OnlySandboxAcrossRoot, of one message.
Crosses(e, m) ==
    LET from == IF m.kind = "close" THEN m.about ELSE m.src
    IN  e[1] = Root => from = Root \/ Sandbox \in {e[2], UserSide(from)}

\* CloseIsTrue, of one message; who is told of the end of the root has lost its own
\* link to it; and both ends have been there.
IsTrue(m) ==
    /\ life[m.src] # "unborn" /\ life[m.dst] # "unborn"
    /\ m.kind = "close" => IF m.about = Root THEN m.dst \in Gone ELSE m.about \in Gone

Legal(e, m) ==
    IF m = Eof THEN e[1] # Root => life[e[1]] = "down"
    ELSE Travels(e, m) /\ NewsTravel(e, m) /\ Crosses(e, m) /\ IsTrue(m)

LegalAt(e) == {m \in AnyMessage : Legal(e, m)}

WiresLegal == \A e \in Edges : wire[e] \in Seq(LegalAt(e))

\* A table has neighbours only, and those of a user that is up the root; who is
\* in one has been there.
TablesOfNeighbours ==
    /\ table[Root] \subseteq Users
    /\ \A u \in Users : /\ table[u] \subseteq {Root} \cup {a \in Apps : UserOf[a] = u}
                        /\ life[u] = "up" => Root \in table[u]
    /\ \A h \in Handlers : life[h] # "unborn" /\ \A n \in table[h] : life[n] # "unborn"

\* Nobody works on a request of its own.
ServesOthers ==
    \A n \in Nodes : \A c \in serving[n] :
        c # n /\ life[c] # "unborn" /\ life[n] # "unborn"

StateTypeOK ==
    /\ life \in [Nodes -> {"unborn", "up", "down"}]
    /\ table \in [Handlers -> SUBSET Nodes]
    /\ entry \in [Apps -> [Nodes -> {"none", "open", "closed"}]]
    /\ waits \in [Nodes -> Nodes \cup {Nobody}]
    /\ result \in [Nodes -> {"none", "answer", "closed"}]
    /\ serving \in [Nodes -> SUBSET Nodes]
    /\ calls \in 0..MaxCalls

IInv ==
    /\ StateTypeOK /\ TablesOfNeighbours /\ ServesOthers
    /\ DOMAIN wire = Edges /\ wire = [e \in Edges |-> wire[e]] /\ WiresLegal

-----------------------------------------------------------------------------
\* The tree

LEMMA TreeFacts ==
    /\ Root \in Handlers /\ Root \in Nodes /\ Root \notin Users /\ Root \notin Apps
    /\ \A u \in Users : u \in Handlers /\ u \in Nodes /\ u \notin Apps
                        /\ UserSide(u) = u /\ Parent(u) = Root
    /\ \A a \in Apps : a \in Nodes /\ a \notin Handlers /\ UserOf[a] \in Users
                       /\ UserSide(a) = UserOf[a] /\ Parent(a) = UserOf[a]
    /\ UserSide(Root) = Root
    /\ Nobody \notin Nodes
  BY RoutingAssumption DEF Handlers, Nodes, UserSide, Parent

LEMMA EdgeFacts ==
    /\ \A u \in Users : <<u, Root>> \in Edges /\ <<Root, u>> \in Edges
    /\ \A a \in Apps : <<a, UserOf[a]>> \in Edges /\ <<UserOf[a], a>> \in Edges
    /\ \A e \in Edges :
          \/ \E u \in Users : e = <<u, Root>> \/ e = <<Root, u>>
          \/ \E a \in Apps : e = <<a, UserOf[a]>> \/ e = <<UserOf[a], a>>
<1>1. \A n \in Nodes \ {Root} : n \in Users \/ n \in Apps
  BY DEF Nodes, Handlers
<1>2. \A u \in Users : <<u, Root>> \in Edges /\ <<Root, u>> \in Edges
  BY TreeFacts DEF Edges
<1>3. \A a \in Apps : <<a, UserOf[a]>> \in Edges /\ <<UserOf[a], a>> \in Edges
  BY TreeFacts DEF Edges
<1>4. ASSUME NEW e \in Edges
      PROVE  \/ \E u \in Users : e = <<u, Root>> \/ e = <<Root, u>>
             \/ \E a \in Apps : e = <<a, UserOf[a]>> \/ e = <<UserOf[a], a>>
  <2>1. PICK n \in Nodes \ {Root} : e = <<n, Parent(n)>> \/ e = <<Parent(n), n>>
    BY DEF Edges
  <2> QED
    BY <1>1, <2>1, TreeFacts
<1> QED
  BY <1>2, <1>3, <1>4

\* A neighbour in a table is at the other end of an edge.
LEMMA NeighbourEdge ==
    ASSUME TablesOfNeighbours, NEW h \in Handlers, NEW n \in table[h]
    PROVE  <<h, n>> \in Edges /\ n # h /\ n \in Nodes
<1>1. CASE h = Root
  <2>1. n \in Users
    BY <1>1 DEF TablesOfNeighbours
  <2> QED
    BY <1>1, <2>1, TreeFacts, EdgeFacts
<1>2. CASE h \in Users
  BY <1>2, TreeFacts, EdgeFacts DEF TablesOfNeighbours
<1> QED
  BY <1>1, <1>2 DEF Handlers

\* What a handler reads from a neighbour that is not the root, or from the root.
LEMMA ReadEdge ==
    ASSUME NEW h \in Handlers, NEW x \in Nodes, <<x, h>> \in Edges
    PROVE  \/ h = Root /\ x \in Users
           \/ h \in Users /\ x = Root
           \/ h \in Users /\ x \in Apps /\ UserOf[x] = h
<1>1. PICK u \in Users, a \in Apps \cup {Root} :
          \/ <<x, h>> = <<u, Root>> \/ <<x, h>> = <<Root, u>>
          \/ a \in Apps /\ (<<x, h>> = <<a, UserOf[a]>> \/ <<x, h>> = <<UserOf[a], a>>)
  BY EdgeFacts, RoutingAssumption
<1> QED
  BY <1>1, TreeFacts

-----------------------------------------------------------------------------
\* Wires

\* What is there stays legal as long as nobody is born that was there, nobody comes
\* back, and no link comes back.
Stable ==
    /\ \A n \in Nodes : /\ life[n] # "unborn" => life'[n] # "unborn"
                        /\ life[n] = "down" => life'[n] = "down"
                        /\ life'[n] \in {"unborn", "up", "down"}
    /\ table'[Root] \subseteq table[Root]
    /\ \A h \in Handlers : \A n \in table'[h] : n \in table[h] \/ life[n] = "unborn"

LEMMA LegalStays ==
    ASSUME StateTypeOK, Stable
    PROVE  Gone \subseteq Gone' /\ \A e \in Edges : LegalAt(e) \subseteq LegalAt(e)'
<1>1. ASSUME NEW n \in Gone PROVE n \in Gone'
  <2>1. n \in Nodes \ {Root} /\ (life[n] = "down" \/ (life[n] = "up" /\ ~Attached(n)))
    BY DEF Gone
  <2>2. CASE life[n] = "down"
    BY <2>1, <2>2 DEF Gone, Stable
  <2>3. CASE life[n] = "up" /\ ~Attached(n)
    <3>1. Parent(n) \in Handlers
      BY <2>1, TreeFacts DEF Nodes, Handlers
    <3>2. ~Attached(n)'
      BY <2>3, <3>1 DEF Attached, Stable
    <3>3. life'[n] \in {"up", "down"}
      BY <2>1, <2>3 DEF Stable
    <3> QED
      BY <2>1, <3>2, <3>3 DEF Gone
  <2> QED
    BY <2>1, <2>2, <2>3
<1>2. ASSUME NEW e \in Edges, NEW m \in LegalAt(e) PROVE m \in LegalAt(e)'
  <2>1. m \in AnyMessage /\ Legal(e, m)
    BY DEF LegalAt
  <2>2. CASE m = Eof
    <3>1. e[1] \in Nodes
      BY EdgeFacts, TreeFacts
    <3> QED
      BY <2>1, <2>2, <3>1 DEF LegalAt, Legal, Stable
  <2>3. CASE m # Eof
    <3>1. m.src \in Nodes /\ m.dst \in Nodes
      BY <2>1, <2>3, TreeFacts DEF AnyMessage, Message, Notice, Nodes
    <3>2. IsTrue(m)'
      BY <1>1, <2>1, <2>3, <3>1 DEF Legal, IsTrue, Stable
    <3>3. Travels(e, m)' /\ NewsTravel(e, m)' /\ Crosses(e, m)'
      BY <2>1, <2>3 DEF Legal, Travels, NewsTravel, Crosses
    <3> QED
      BY <2>1, <2>3, <3>2, <3>3 DEF LegalAt, Legal
  <2> QED
    BY <2>2, <2>3
<1> QED
  BY <1>1, <1>2

\* The wires after a step that reads one and writes what is legal.
LEMMA WiresStayLegal ==
    ASSUME IInv, Stable, NEW h, NEW read, NEW ms,
           read \in Edges => wire[read] # <<>>,
           \A n \in DOMAIN ms : <<h, n>> \in Edges => ms[n] \in Seq(LegalAt(<<h, n>>)')
    PROVE  \A e \in Edges : Wires(read, h, ms)[e] \in Seq(LegalAt(e)')
<1> SUFFICES ASSUME NEW e \in Edges PROVE Wires(read, h, ms)[e] \in Seq(LegalAt(e)')
  OBVIOUS
<1> DEFINE left == IF e = read THEN Tail(wire[e]) ELSE wire[e]
<1>1. wire[e] \in Seq(LegalAt(e)')
  <2>1. wire[e] \in Seq(LegalAt(e)) /\ LegalAt(e) \subseteq LegalAt(e)'
    BY LegalStays DEF IInv, WiresLegal
  <2> HIDE DEF LegalAt
  <2> QED
    BY <2>1
<1>2. left \in Seq(LegalAt(e)')
  BY <1>1
<1>3. e = <<e[1], e[2]>>
  BY EdgeFacts
<1>4. Wires(read, h, ms)[e] =
        IF e[1] = h /\ e[2] \in DOMAIN ms /\ life[e[2]] = "up" THEN left \o ms[e[2]] ELSE left
  BY DEF Wires
<1>5. CASE e[1] = h /\ e[2] \in DOMAIN ms
  <2>1. ms[e[2]] \in Seq(LegalAt(e)')
    BY <1>3, <1>5
  <2> QED
    BY <1>2, <1>4, <2>1
<1> QED
  BY <1>2, <1>4, <1>5

-----------------------------------------------------------------------------
\* Steps by their effect on the wires

\* A step that changes neither lives nor tables nor what is worked on.
LEMMA WireStep ==
    ASSUME IInv, NEW h, NEW read, NEW ms,
           read \in Edges => wire[read] # <<>>,
           \A n \in DOMAIN ms : <<h, n>> \in Edges => ms[n] \in Seq(LegalAt(<<h, n>>)),
           wire' = Wires(read, h, ms), UNCHANGED <<life, table>>,
           StateTypeOK', ServesOthers'
    PROVE  IInv'
<1>1. Stable
  BY DEF Stable, IInv, StateTypeOK
<1>2. \A e \in Edges : LegalAt(e) = LegalAt(e)'
  BY DEF LegalAt, Legal, Travels, NewsTravel, Crosses, IsTrue, Gone, Attached
<1>3. \A n \in DOMAIN ms : <<h, n>> \in Edges => ms[n] \in Seq(LegalAt(<<h, n>>)')
  BY <1>2
<1> HIDE DEF LegalAt
<1>4. WiresLegal'
  BY <1>1, <1>3, WiresStayLegal DEF WiresLegal
<1>5. DOMAIN wire' = Edges /\ wire' = [e \in Edges |-> wire'[e]]
  BY DEF Wires
<1>6. TablesOfNeighbours'
  BY DEF IInv, TablesOfNeighbours
<1> QED
  BY <1>4, <1>5, <1>6 DEF IInv

\* The first message of a wire is legal there.
LEMMA FirstIsLegal ==
    ASSUME IInv, NEW x, NEW h, <<x, h>> \in Edges, wire[<<x, h>>] # <<>>
    PROVE  LET m == First(x, h) IN
           /\ m \in AnyMessage /\ Legal(<<x, h>>, m)
           /\ m # Eof => m \in Message \cup Notice /\ m.src \in Nodes /\ m.dst \in Nodes
           /\ m # Eof /\ m.kind = "close" => m.src \in Handlers /\ m.about \in Nodes
<1> DEFINE m == First(x, h)
<1>1. m \in LegalAt(<<x, h>>)
  <2> HIDE DEF LegalAt
  <2> QED
    BY DEF IInv, WiresLegal, First
<1>2. m \in AnyMessage /\ Legal(<<x, h>>, m)
  BY <1>1 DEF LegalAt
<1> HIDE DEF m
<1>3. m # Eof => m \in Message \cup Notice
  BY <1>2 DEF AnyMessage
<1>4. m \in Message \cup Notice => m.src \in Nodes /\ m.dst \in Nodes
  BY DEF Message, Notice, Nodes
<1>5. m \in Message \cup Notice /\ m.kind = "close" => m.src \in Handlers /\ m.about \in Nodes
  BY DEF Message, Notice
<1> QED
  BY <1>2, <1>3, <1>4, <1>5 DEF m

\* Where Hop leads.
LEMMA HopFacts ==
    ASSUME IInv, NEW h \in Handlers, NEW n \in Nodes
    PROVE  /\ h = Root => Hop(h, n) = UserSide(n)
           /\ h # Root /\ h = UserSide(n) => Hop(h, n) = n
           /\ h # Root /\ h # UserSide(n) => Hop(h, n) = Root
           /\ Hop(h, n) \in table[h] => n # h
           /\ h \in Users /\ Hop(h, n) \in Apps => Hop(h, n) = n
<1>1. /\ h = Root => Hop(h, n) = UserSide(n)
      /\ h # Root /\ h = UserSide(n) => Hop(h, n) = n
      /\ h # Root /\ h # UserSide(n) => Hop(h, n) = Root
  BY DEF Hop
<1>2. UserSide(h) = h
  BY TreeFacts DEF Handlers
<1>3. h \notin table[h]
  BY NeighbourEdge DEF IInv
<1> QED
  BY <1>1, <1>2, <1>3, TreeFacts DEF Handlers

\* A request or response that a handler makes itself.
LEMMA OwnMessage ==
    ASSUME IInv, NEW h \in Handlers, NEW c \in Nodes, NEW kind \in {"request", "response"},
           life[c] # "unborn", Hop(h, c) \in table[h]
    PROVE  Msg(kind, h, c) \in LegalAt(<<h, Hop(h, c)>>)
<1> DEFINE m == Msg(kind, h, c)
           e == <<h, Hop(h, c)>>
<1>1. m.kind = kind /\ m.src = h /\ m.dst = c /\ m \in Message /\ m # Eof
  BY TreeFacts DEF Msg, Message, Eof, Nodes
<1>2. e \in Edges /\ e[1] = h /\ e[2] = Hop(h, c) /\ e[2] \in table[h]
  BY NeighbourEdge DEF IInv
<1> HIDE DEF m, e
<1>3. Travels(e, m)
  <2>1. h \notin Apps
    BY TreeFacts
  <2>2. h = Root => Hop(h, c) \in Users
    BY <1>2 DEF IInv, TablesOfNeighbours
  <2> QED
    BY <1>1, <1>2, <2>1, <2>2, HopFacts, TreeFacts DEF Travels, Handlers
<1>4. NewsTravel(e, m) /\ Crosses(e, m)
  BY <1>1, <1>2 DEF NewsTravel, Crosses
<1>5. IsTrue(m)
  BY <1>1 DEF IsTrue, IInv, TablesOfNeighbours
<1> QED
  BY <1>1, <1>3, <1>4, <1>5 DEF LegalAt, Legal, AnyMessage, m, e

\* A request or response of an application.
LEMMA AppMessage ==
    ASSUME IInv, NEW a \in Apps, NEW c \in Nodes, NEW kind \in {"request", "response"},
           c # a, life[c] # "unborn", life[a] # "unborn"
    PROVE  Msg(kind, a, c) \in LegalAt(<<a, UserOf[a]>>)
<1> DEFINE m == Msg(kind, a, c)
           e == <<a, UserOf[a]>>
<1>1. m.kind = kind /\ m.src = a /\ m.dst = c /\ m \in Message /\ m # Eof
  BY TreeFacts DEF Msg, Message, Eof
<1>2. e[1] = a /\ a # Root /\ e[2] \notin Apps
  BY TreeFacts
<1> HIDE DEF m, e
<1>3. Travels(e, m) /\ NewsTravel(e, m) /\ Crosses(e, m)
  BY <1>1, <1>2 DEF Travels, NewsTravel, Crosses
<1>4. IsTrue(m)
  BY <1>1 DEF IsTrue
<1> QED
  BY <1>1, <1>3, <1>4 DEF LegalAt, Legal, AnyMessage, m, e

\* A step that reads a wire and writes nothing.
LEMMA QuietLegal == \A h : \A n \in DOMAIN Quiet : <<h, n>> \in Edges => Quiet[n] \in Seq(LegalAt(<<h, n>>))
  BY DEF Quiet

-----------------------------------------------------------------------------
\* Connections

\* What h tells the neighbours about c is legal, once c has gone.
LEMMA NoticesLegal ==
    ASSUME IInv, Stable, NEW h \in Handlers, NEW c \in Nodes, NEW src,
           c # Root => c \in Gone',
           c = Root => table[h] \ {c, src} \subseteq Apps \cap Gone',
           NEW n \in DOMAIN ClosedNotices(h, c, src)
    PROVE  ClosedNotices(h, c, src)[n] \in Seq(LegalAt(<<h, n>>)')
<1> DEFINE m == Close(h, n, c)
           e == <<h, n>>
<1>1. n \in table[h] /\ n # c /\ n # src /\ (n = Root \/ CanRoute(h, c, n))
  BY DEF ClosedNotices
<1>2. /\ m.kind = "close" /\ m.src = h /\ m.dst = n /\ m.about = c /\ m # Eof
      /\ ClosedNotices(h, c, src)[n] = <<m>>
  BY <1>1 DEF ClosedNotices, Close, Eof
<1>3. e \in Edges /\ n # h /\ n \in Nodes /\ e[1] = h /\ e[2] = n
  BY <1>1, NeighbourEdge DEF IInv
<1>4. m \in Notice
  BY <1>3 DEF Close, Notice
<1> HIDE DEF m, e
<1>5. h \notin Apps /\ (h = Root => n \in Users)
  BY <1>1, TreeFacts DEF IInv, TablesOfNeighbours
<1>6. Travels(e, m)
  BY <1>2, <1>3, <1>5, TreeFacts DEF Travels
<1>7. NewsTravel(e, m)
  BY <1>1, <1>2, <1>3 DEF NewsTravel
<1>8. Crosses(e, m)
  <2>1. h = Root => Sandbox \in {UserSide(c), UserSide(n)} /\ UserSide(n) = n
    BY <1>1, <1>5, TreeFacts DEF CanRoute
  <2> QED
    BY <1>2, <1>3, <2>1 DEF Crosses
<1>9. IsTrue(m)'
  <2>1. life[h] # "unborn" /\ life[n] # "unborn" /\ h \in Nodes
    BY <1>1 DEF IInv, TablesOfNeighbours, Nodes
  <2> QED
    BY <1>1, <1>2, <1>3, <2>1 DEF IsTrue, Stable
<1>10. m \in LegalAt(e)'
  BY <1>2, <1>4, <1>6, <1>7, <1>8, <1>9 DEF LegalAt, Legal, AnyMessage, Travels, NewsTravel, Crosses
<1> QED
  BY <1>2, <1>10 DEF e

LEMMA ChannelClosedPreserves ==
    ASSUME IInv, NEW h \in Handlers, NEW c \in Gone, NEW src, NEW read,
           read \in Edges => wire[read] # <<>>,
           ChannelClosed(h, c, src, read), UNCHANGED <<life, entry, serving, calls>>
    PROVE  IInv'
<1>1. c \in Nodes /\ c # Root
  BY DEF Gone
<1>2. table' = [table EXCEPT ![h] = @ \ {c}] /\ table \in [Handlers -> SUBSET Nodes]
  BY DEF ChannelClosed, IInv, StateTypeOK
<1>3. Stable
  BY <1>2, TreeFacts DEF Stable, IInv, StateTypeOK
<1>4. c \in Gone'
  BY <1>3, LegalStays DEF IInv
<1>5. \A n \in DOMAIN ClosedNotices(h, c, src) :
         ClosedNotices(h, c, src)[n] \in Seq(LegalAt(<<h, n>>)')
  BY <1>1, <1>3, <1>4, NoticesLegal
<1>6. wire' = Wires(read, h, Quiet) \/ wire' = Wires(read, h, ClosedNotices(h, c, src))
  BY DEF ChannelClosed
<1> HIDE DEF LegalAt
<1>7. WiresLegal'
  <2>1. CASE wire' = Wires(read, h, Quiet)
    BY <1>3, <2>1, WiresStayLegal DEF WiresLegal, Quiet
  <2>2. CASE wire' = Wires(read, h, ClosedNotices(h, c, src))
    BY <1>3, <1>5, <2>2, WiresStayLegal DEF WiresLegal
  <2> QED
    BY <1>6, <2>1, <2>2
<1>8. DOMAIN wire' = Edges /\ wire' = [e \in Edges |-> wire'[e]]
  BY <1>6 DEF Wires
<1>9. TablesOfNeighbours'
  BY <1>1, <1>2, TreeFacts DEF IInv, TablesOfNeighbours
<1>10. StateTypeOK'
  <2>1. /\ waits' \in [Nodes -> Nodes \cup {Nobody}]
        /\ result' \in [Nodes -> {"none", "answer", "closed"}]
    BY DEF ChannelClosed, IInv, StateTypeOK
  <2>2. table' \in [Handlers -> SUBSET Nodes]
    BY <1>2
  <2> QED
    BY <2>1, <2>2 DEF IInv, StateTypeOK
<1>11. ServesOthers'
  BY DEF IInv, ServesOthers
<1> QED
  BY <1>7, <1>8, <1>9, <1>10, <1>11 DEF IInv

LEMMA ReadsEofPreserves ==
    ASSUME IInv, NEW h \in Handlers, NEW x \in Nodes, <<x, h>> \in Edges, ReadsEof(h, x)
    PROVE  IInv'
<1>1. life[x] = "down"
  BY FirstIsLegal DEF ReadsEof, Legal
<1>2. x \in Gone
  BY <1>1 DEF ReadsEof, Gone
<1> QED
  BY <1>2, ChannelClosedPreserves DEF ReadsEof

LEMMA WriteFailsPreserves ==
    ASSUME IInv, NEW h \in Handlers, NEW x \in Nodes, WriteFails(h, x)
    PROVE  IInv'
<1>1. x \in Gone
  BY DEF WriteFails, Gone
<1>2. NoEdge \notin Edges
  BY EdgeFacts DEF NoEdge
<1> QED
  BY <1>1, <1>2, ChannelClosedPreserves DEF WriteFails

LEMMA HandlesClosePreserves ==
    ASSUME IInv, NEW h \in Handlers, NEW x \in Nodes, <<x, h>> \in Edges, HandlesClose(h, x)
    PROVE  IInv'
<1> DEFINE m == First(x, h)
<1>1. /\ wire[<<x, h>>] # <<>> /\ m # Eof /\ m.kind = "close"
      /\ ChannelClosed(h, m.about, m.src, <<x, h>>)
      /\ UNCHANGED <<life, entry, serving, calls>>
  BY DEF HandlesClose, Reads
<1>2. Legal(<<x, h>>, m)
  BY <1>1, FirstIsLegal
<1> HIDE DEF m
<1>3. m.about \in Gone
  BY <1>1, <1>2, TreeFacts DEF Legal, IsTrue, NewsTravel
<1> QED
  BY <1>1, <1>3, ChannelClosedPreserves

\* A user that quits, and a process that dies: its end is the last that is read
\* from it.
LEMMA HangupLegal ==
    ASSUME IInv, Stable, NEW n, NEW w, life'[n] = "down",
           \A e \in Edges : w[e] \in Seq(LegalAt(e)')
    PROVE  \A e \in Edges : Hangup(n, w)[e] \in Seq(LegalAt(e)')
<1> SUFFICES ASSUME NEW e \in Edges PROVE Hangup(n, w)[e] \in Seq(LegalAt(e)')
  OBVIOUS
<1>1. e[1] = n => Eof \in LegalAt(e)'
  BY DEF LegalAt, Legal, AnyMessage
<1> HIDE DEF LegalAt
<1>2. w[e] \in Seq(LegalAt(e)')
  OBVIOUS
<1>3. e[1] = n => Append(w[e], Eof) \in Seq(LegalAt(e)')
  BY <1>1, <1>2
<1>4. <<>> \in Seq(LegalAt(e)')
  OBVIOUS
<1>5. Hangup(n, w)[e] = IF e[1] = n /\ life[e[2]] = "up" THEN Append(w[e], Eof)
                        ELSE IF e[2] = n THEN <<>> ELSE w[e]
  BY DEF Hangup
<1> QED
  BY <1>2, <1>3, <1>4, <1>5

\* A process goes down, whatever becomes of its table.
LEMMA DownStable ==
    ASSUME IInv, NEW n \in Nodes, life[n] # "unborn", Down(n),
           UNCHANGED table \/ (n \in Users /\ table' = [table EXCEPT ![n] = {}])
    PROVE  Stable /\ TablesOfNeighbours' /\ ServesOthers' /\ life'[n] = "down"
           /\ life' \in [Nodes -> {"unborn", "up", "down"}]
           /\ serving' \in [Nodes -> SUBSET Nodes] /\ table' \in [Handlers -> SUBSET Nodes]
<1>1. /\ life' = [life EXCEPT ![n] = "down"] /\ life \in [Nodes -> {"unborn", "up", "down"}]
      /\ serving' = [serving EXCEPT ![n] = {}] /\ serving \in [Nodes -> SUBSET Nodes]
      /\ table \in [Handlers -> SUBSET Nodes]
  BY DEF Down, IInv, StateTypeOK
<1>2. /\ table' \in [Handlers -> SUBSET Nodes]
      /\ \A h \in Handlers : table'[h] \subseteq table[h] /\ (h # n => table'[h] = table[h])
  BY <1>1
<1>3. \A x \in Nodes : life'[x] = IF x = n THEN "down" ELSE life[x]
  BY <1>1
<1>4. Stable
  BY <1>1, <1>2, <1>3, TreeFacts DEF Stable
<1>5. TablesOfNeighbours'
  <2>1. \A h \in Handlers : life'[h] # "unborn" /\ \A x \in table'[h] : life'[x] # "unborn"
    BY <1>1, <1>2, <1>3 DEF IInv, TablesOfNeighbours, Nodes
  <2>2. table'[Root] \subseteq Users
    BY <1>2, TreeFacts DEF IInv, TablesOfNeighbours
  <2>3. \A u \in Users : /\ table'[u] \subseteq {Root} \cup {a \in Apps : UserOf[a] = u}
                         /\ life'[u] = "up" => Root \in table'[u]
    BY <1>2, <1>3, TreeFacts DEF IInv, TablesOfNeighbours
  <2> QED
    BY <2>1, <2>2, <2>3 DEF TablesOfNeighbours
<1>6. ServesOthers'
  <2>1. \A x \in Nodes : serving'[x] \subseteq serving[x] /\ serving[x] \subseteq Nodes
    BY <1>1
  <2> QED
    BY <1>3, <2>1 DEF IInv, ServesOthers
<1> QED
  BY <1>1, <1>2, <1>3, <1>4, <1>5, <1>6

LEMMA DiePreserves == ASSUME IInv, NEW n \in Nodes, Die(n) PROVE IInv'
<1>1. /\ life[n] = "up" /\ Down(n) /\ wire' = Hangup(n, wire) /\ UNCHANGED <<table, entry, calls>>
      /\ waits' = [waits EXCEPT ![n] = Nobody] /\ result' = [result EXCEPT ![n] = "none"]
  BY DEF Die
<1>2. /\ Stable /\ TablesOfNeighbours' /\ ServesOthers' /\ life'[n] = "down"
      /\ life' \in [Nodes -> {"unborn", "up", "down"}]
      /\ serving' \in [Nodes -> SUBSET Nodes] /\ table' \in [Handlers -> SUBSET Nodes]
  <2>1. life[n] # "unborn" /\ Down(n) /\ UNCHANGED table
    BY <1>1
  <2> QED
    BY <2>1, DownStable
<1>3. StateTypeOK'
  BY <1>1, <1>2 DEF IInv, StateTypeOK
<1>4. \A e \in Edges : LegalAt(e) \subseteq LegalAt(e)'
  BY <1>2, LegalStays DEF IInv
<1> HIDE DEF LegalAt
<1>5. \A e \in Edges : wire[e] \in Seq(LegalAt(e)')
  <2> SUFFICES ASSUME NEW e \in Edges PROVE wire[e] \in Seq(LegalAt(e)')
    OBVIOUS
  <2>1. wire[e] \in Seq(LegalAt(e)) /\ LegalAt(e) \subseteq LegalAt(e)'
    BY <1>4 DEF IInv, WiresLegal
  <2> QED
    BY <2>1
<1>6. WiresLegal'
  BY <1>1, <1>2, <1>5, HangupLegal DEF WiresLegal
<1>7. DOMAIN wire' = Edges /\ wire' = [e \in Edges |-> wire'[e]]
  BY <1>1 DEF Hangup
<1> QED
  BY <1>2, <1>3, <1>6, <1>7 DEF IInv

LEMMA UserQuitsPreserves == ASSUME IInv, NEW u \in Users, UserQuits(u) PROVE IInv'
<1> DEFINE read == <<Root, u>>
           news == Wires(read, u, ClosedNotices(u, Root, Nobody))
<1>1. /\ life[u] = "up" /\ wire[read] # <<>> /\ Down(u) /\ table' = [table EXCEPT ![u] = {}]
      /\ wire' = [Hangup(u, news) EXCEPT ![<<u, Root>>] = <<>>] /\ UNCHANGED <<entry, calls>>
      /\ waits' = [waits EXCEPT ![u] = Nobody] /\ result' = [result EXCEPT ![u] = "none"]
  BY DEF UserQuits
<1>2. /\ Stable /\ TablesOfNeighbours' /\ ServesOthers' /\ life'[u] = "down"
      /\ life' \in [Nodes -> {"unborn", "up", "down"}]
      /\ serving' \in [Nodes -> SUBSET Nodes] /\ table' \in [Handlers -> SUBSET Nodes]
  BY <1>1, TreeFacts, DownStable
<1>3. StateTypeOK'
  BY <1>1, <1>2 DEF IInv, StateTypeOK
<1>4. table[u] \ {Root, Nobody} \subseteq Apps \cap Gone'
  <2> SUFFICES ASSUME NEW a \in table[u] \ {Root, Nobody} PROVE a \in Apps \cap Gone'
    OBVIOUS
  <2>1. a \in Apps /\ UserOf[a] = u /\ life[a] # "unborn"
    BY TreeFacts DEF IInv, TablesOfNeighbours
  <2>2. a \in Nodes \ {Root} /\ Parent(a) = u
    BY <2>1, TreeFacts
  <2>3. table'[u] = {}
    BY <1>1, TreeFacts DEF IInv, StateTypeOK
  <2>4. life'[a] \in {"up", "down"}
    BY <1>2, <2>1, <2>2 DEF Stable
  <2> QED
    BY <2>1, <2>2, <2>3, <2>4 DEF Gone, Attached
<1>5. \A n \in DOMAIN ClosedNotices(u, Root, Nobody) :
         ClosedNotices(u, Root, Nobody)[n] \in Seq(LegalAt(<<u, n>>)')
  BY <1>2, <1>4, NoticesLegal, TreeFacts
<1> HIDE DEF LegalAt
<1>6. \A e \in Edges : news[e] \in Seq(LegalAt(e)')
  BY <1>1, <1>2, <1>5, WiresStayLegal
<1> HIDE DEF news
<1>7. \A e \in Edges : Hangup(u, news)[e] \in Seq(LegalAt(e)')
  BY <1>2, <1>6, HangupLegal
<1>8. \A e \in Edges : wire'[e] = Hangup(u, news)[e] \/ wire'[e] = <<>>
  BY <1>1 DEF Hangup
<1>9. WiresLegal'
  <2> SUFFICES ASSUME NEW e \in Edges PROVE wire'[e] \in Seq(LegalAt(e)')
    BY DEF WiresLegal
  <2>1. <<>> \in Seq(LegalAt(e)')
    OBVIOUS
  <2> QED
    BY <1>7, <1>8, <2>1
<1>10. DOMAIN wire' = Edges /\ wire' = [e \in Edges |-> wire'[e]]
  BY <1>1 DEF Hangup
<1> QED
  BY <1>2, <1>3, <1>9, <1>10 DEF IInv

LEMMA ConnectPreserves == ASSUME IInv, NEW a \in Apps, Connect(a) PROVE IInv'
<1> DEFINE u == UserOf[a]
<1>1. /\ life[a] = "unborn" /\ life[u] = "up" /\ u \in Users /\ u # a
      /\ life' = [life EXCEPT ![a] = "up"] /\ table' = [table EXCEPT ![u] = @ \cup {a}]
      /\ UNCHANGED <<wire, entry, waits, result, serving, calls>>
  BY TreeFacts DEF Connect
<1>2. /\ life \in [Nodes -> {"unborn", "up", "down"}] /\ table \in [Handlers -> SUBSET Nodes]
      /\ a \in Nodes /\ u \in Handlers
  BY <1>1, TreeFacts DEF IInv, StateTypeOK
<1> HIDE DEF u
<1>3. /\ life' \in [Nodes -> {"unborn", "up", "down"}]
      /\ \A x \in Nodes : life'[x] = IF x = a THEN "up" ELSE life[x]
  BY <1>1, <1>2
<1>4. /\ table' \in [Handlers -> SUBSET Nodes]
      /\ \A h \in Handlers : table'[h] = IF h = u THEN table[u] \cup {a} ELSE table[h]
  BY <1>1, <1>2
<1>5. Stable
  BY <1>1, <1>2, <1>3, <1>4, TreeFacts DEF Stable
<1>6. StateTypeOK'
  BY <1>1, <1>3, <1>4 DEF IInv, StateTypeOK
<1>7. TablesOfNeighbours'
  <2>1. \A h \in Handlers : life'[h] # "unborn" /\ \A x \in table'[h] : life'[x] # "unborn"
    BY <1>2, <1>3, <1>4 DEF IInv, TablesOfNeighbours, Nodes
  <2>2. table'[Root] \subseteq Users
    BY <1>1, <1>4, TreeFacts DEF IInv, TablesOfNeighbours
  <2>3. \A v \in Users : /\ table'[v] \subseteq {Root} \cup {x \in Apps : UserOf[x] = v}
                         /\ life'[v] = "up" => Root \in table'[v]
    BY <1>3, <1>4, TreeFacts DEF IInv, TablesOfNeighbours, u
  <2> QED
    BY <2>1, <2>2, <2>3 DEF TablesOfNeighbours
<1>8. ServesOthers'
  BY <1>1, <1>3, <1>6 DEF IInv, ServesOthers, StateTypeOK
<1>9. WiresLegal'
  <2> SUFFICES ASSUME NEW e \in Edges PROVE wire[e] \in Seq(LegalAt(e)')
    BY <1>1 DEF WiresLegal
  <2>1. wire[e] \in Seq(LegalAt(e)) /\ LegalAt(e) \subseteq LegalAt(e)'
    BY <1>5, LegalStays DEF IInv, WiresLegal
  <2> HIDE DEF LegalAt
  <2> QED
    BY <2>1
<1> QED
  BY <1>1, <1>6, <1>7, <1>8, <1>9 DEF IInv

-----------------------------------------------------------------------------
\* parse_message

LEMMA HandlesMessagePreserves ==
    ASSUME IInv, NEW h \in Handlers, NEW x \in Nodes, <<x, h>> \in Edges, HandlesMessage(h, x)
    PROVE  IInv'
<1> DEFINE m == First(x, h)
<1>1. /\ wire[<<x, h>>] # <<>> /\ m # Eof /\ m.dst = h /\ m.kind # "close"
      /\ wire' = Wires(<<x, h>>, h, Quiet) /\ UNCHANGED <<life, table, entry, calls>>
      /\ IF m.kind = "request"
         THEN /\ serving' = [serving EXCEPT ![h] = @ \cup {m.src}] /\ UNCHANGED <<waits, result>>
         ELSE /\ waits' = [waits EXCEPT ![h] = Nobody]
              /\ result' = [result EXCEPT ![h] = IF waits[h] = Nobody THEN @ ELSE "answer"]
              /\ UNCHANGED serving
  BY DEF HandlesMessage, Reads
<1>2. m.src \in Nodes /\ Legal(<<x, h>>, m) /\ h \in Nodes
  BY <1>1, FirstIsLegal DEF Nodes
<1> HIDE DEF m
<1>3. m.src # h /\ life[m.src] # "unborn" /\ life[h] # "unborn"
  BY <1>1, <1>2 DEF Legal, Travels, IsTrue
<1>4. serving' \in [Nodes -> SUBSET Nodes] /\ ServesOthers'
  <2>1. CASE UNCHANGED serving
    BY <1>1, <2>1 DEF IInv, StateTypeOK, ServesOthers
  <2>2. CASE serving' = [serving EXCEPT ![h] = @ \cup {m.src}]
    BY <1>1, <1>2, <1>3, <2>2 DEF IInv, StateTypeOK, ServesOthers
  <2> QED
    BY <1>1, <2>1, <2>2
<1>5. /\ waits' \in [Nodes -> Nodes \cup {Nobody}]
      /\ result' \in [Nodes -> {"none", "answer", "closed"}]
  BY <1>1 DEF IInv, StateTypeOK
<1>6. StateTypeOK'
  BY <1>1, <1>4, <1>5 DEF IInv, StateTypeOK
<1> QED
  BY <1>1, <1>4, <1>6, QuietLegal, WireStep

\* Only the root finds a path that is illegal.
LEMMA DropsConnectionPreserves ==
    ASSUME IInv, NEW h \in Handlers, NEW x \in Nodes, <<x, h>> \in Edges, DropsConnection(h, x)
    PROVE  IInv'
<1> DEFINE m == First(x, h)
           news == Wires(<<x, h>>, h, ClosedNotices(h, x, Nobody))
<1>1. /\ wire[<<x, h>>] # <<>> /\ m # Eof /\ ~MayRoute(h, m)
      /\ table' = [table EXCEPT ![h] = @ \ {x}]
      /\ wire' = [news EXCEPT ![<<x, h>>] = <<>>, ![<<h, x>>] = Append(@, Eof)]
      /\ UNCHANGED <<life, entry, serving, calls>>
  BY DEF DropsConnection, Reads
<1>2. h = Root
  <2>1. m.src # m.dst
    BY <1>1, FirstIsLegal DEF Legal, Travels
  <2> QED
    BY <1>1, <2>1 DEF MayRoute, CanRoute
<1>3. x \in Users /\ x # Root
  BY <1>2, ReadEdge, TreeFacts
<1>4. table \in [Handlers -> SUBSET Nodes] /\ life \in [Nodes -> {"unborn", "up", "down"}]
  BY DEF IInv, StateTypeOK
<1>5. Stable
  BY <1>1, <1>4, TreeFacts DEF Stable
<1>6. x \in Gone'
  <2>1. x \notin table'[Parent(x)]
    BY <1>1, <1>2, <1>3, <1>4, TreeFacts
  <2>2. life'[x] \in {"up", "down"}
    BY <1>1, <1>3, <1>4, TreeFacts DEF IInv, TablesOfNeighbours
  <2> QED
    BY <1>3, <2>1, <2>2 DEF Gone, Attached
<1>7. \A n \in DOMAIN ClosedNotices(h, x, Nobody) :
         ClosedNotices(h, x, Nobody)[n] \in Seq(LegalAt(<<h, n>>)')
  BY <1>3, <1>5, <1>6, NoticesLegal
<1>8. Eof \in LegalAt(<<h, x>>)'
  BY <1>2 DEF LegalAt, Legal, AnyMessage
<1> HIDE DEF LegalAt
<1>9. \A e \in Edges : news[e] \in Seq(LegalAt(e)')
  BY <1>1, <1>5, <1>7, WiresStayLegal
<1>10. DOMAIN news = Edges /\ news = [e \in Edges |-> news[e]]
  BY DEF Wires
<1> HIDE DEF news, m
<1>11. <<x, h>> # <<h, x>> /\ <<h, x>> \in Edges
  BY <1>2, <1>3, EdgeFacts
<1>12. /\ DOMAIN wire' = Edges /\ wire' = [e \in Edges |-> wire'[e]]
       /\ wire'[<<x, h>>] = <<>> /\ wire'[<<h, x>>] = Append(news[<<h, x>>], Eof)
       /\ \A e \in Edges : e # <<x, h>> /\ e # <<h, x>> => wire'[e] = news[e]
  BY <1>1, <1>10, <1>11
<1>13. WiresLegal'
  <2> SUFFICES ASSUME NEW e \in Edges PROVE wire'[e] \in Seq(LegalAt(e)')
    BY DEF WiresLegal
  <2>1. news[e] \in Seq(LegalAt(e)') /\ <<>> \in Seq(LegalAt(e)')
    BY <1>9
  <2>2. e = <<h, x>> => Append(news[e], Eof) \in Seq(LegalAt(e)')
    BY <1>8, <2>1
  <2> QED
    BY <1>12, <2>1, <2>2
<1>14. TablesOfNeighbours'
  BY <1>1, <1>2, <1>4, TreeFacts DEF IInv, TablesOfNeighbours
<1>15. StateTypeOK'
  <2>1. /\ waits' \in [Nodes -> Nodes \cup {Nobody}]
        /\ result' \in [Nodes -> {"none", "answer", "closed"}]
    BY DEF DropsConnection, IInv, StateTypeOK
  <2>2. table' \in [Handlers -> SUBSET Nodes]
    BY <1>1, <1>4
  <2> QED
    BY <1>1, <2>1, <2>2 DEF IInv, StateTypeOK
<1>16. ServesOthers'
  BY <1>1 DEF IInv, ServesOthers
<1> QED
  BY <1>12, <1>13, <1>14, <1>15, <1>16 DEF IInv

\* A message that is passed on.
LEMMA PassedOn ==
    ASSUME IInv, NEW h \in Handlers, NEW x \in Nodes, <<x, h>> \in Edges, Routes(h, x),
           Hop(h, First(x, h).dst) \in table[h]
    PROVE  First(x, h) \in LegalAt(<<h, Hop(h, First(x, h).dst)>>)
<1> DEFINE m == First(x, h)
           step == Hop(h, m.dst)
           e == <<h, step>>
<1>1. wire[<<x, h>>] # <<>> /\ m # Eof /\ m.dst # h /\ MayRoute(h, m)
  BY DEF Routes, Reads
<1>2. /\ m \in AnyMessage /\ m.src \in Nodes /\ m.dst \in Nodes
      /\ Legal(<<x, h>>, m)
      /\ m.kind = "close" => m.about \in Nodes
  BY <1>1, FirstIsLegal
<1>3. Travels(<<x, h>>, m) /\ NewsTravel(<<x, h>>, m) /\ IsTrue(m)
  BY <1>1, <1>2 DEF Legal
<1>4. e[1] = h /\ e[2] = step /\ h \notin Apps /\ step \in table[h]
  BY TreeFacts
<1> HIDE DEF m, e
<1>5. /\ h = Root => step = UserSide(m.dst) /\ step \in Users
      /\ h # Root /\ h = UserSide(m.dst) => step = m.dst
      /\ h # Root /\ h # UserSide(m.dst) => step = Root
      /\ h \in Users /\ step \in Apps => step = m.dst
  BY <1>2, <1>4, HopFacts DEF IInv, TablesOfNeighbours
<1> HIDE DEF step
<1>6. Travels(e, m)
  BY <1>3, <1>4, <1>5, TreeFacts DEF Travels, Handlers
<1>7. m.kind = "close" /\ h \in Users => step \in Apps
  <2> SUFFICES ASSUME m.kind = "close", h \in Users PROVE step \in Apps
    OBVIOUS
  <2>1. x = Root
    <3>1. x \in Apps => <<x, h>>[1] \in Apps
      OBVIOUS
    <3> QED
      BY <1>3, <3>1, ReadEdge, TreeFacts DEF Travels
  <2>2. UserSide(m.dst) = h
    BY <1>3, <2>1 DEF Travels
  <2> QED
    BY <1>1, <1>2, <1>5, <2>2, TreeFacts DEF Nodes, Handlers
<1>8. NewsTravel(e, m)
  <2>1. CASE h \in Users
    BY <1>4, <1>7, <2>1, TreeFacts DEF NewsTravel
  <2>2. CASE h = Root
    <3>1. x \in Users /\ <<x, h>>[2] = Root
      BY <2>2, ReadEdge, TreeFacts
    <3>2. m.kind = "close" => m.about # Root
      BY <1>3, <2>2, <3>1, TreeFacts DEF NewsTravel
    <3> QED
      BY <1>4, <1>5, <2>2, <3>2, TreeFacts DEF NewsTravel
  <2> QED
    BY <2>1, <2>2 DEF Handlers
<1>9. Crosses(e, m)
  <2>1. CASE h = Root
    <3>1. Within(h, m.src) /\ Within(h, m.dst)
      BY <2>1 DEF Within
    <3>2. Sandbox \in {UserSide(m.src), UserSide(m.dst)}
      BY <1>1, <2>1, <3>1 DEF MayRoute, CanRoute
    <3>3. m.kind = "close" => UserSide(m.src) = UserSide(m.about)
      <4>1. x \in Users /\ <<x, h>>[2] = Root /\ <<x, h>>[1] = x /\ UserSide(x) = x
        BY <2>1, ReadEdge, TreeFacts
      <4> QED
        BY <1>1, <1>3, <2>1, <4>1 DEF NewsTravel
    <3> QED
      BY <1>4, <1>5, <2>1, <3>2, <3>3 DEF Crosses
  <2>2. CASE h # Root
    BY <1>4, <2>2 DEF Crosses
  <2> QED
    BY <2>1, <2>2
<1> QED
  BY <1>1, <1>2, <1>3, <1>6, <1>8, <1>9 DEF LegalAt, Legal, m, e, step

\* The news that a message cannot be passed on.
LEMMA SentBack ==
    ASSUME IInv, NEW h \in Handlers, NEW x \in Nodes, <<x, h>> \in Edges, Routes(h, x),
           Hop(h, First(x, h).dst) \notin table[h],
           Hop(h, First(x, h).src) \in table[h]
    PROVE  Close(h, First(x, h).src, First(x, h).dst) \in LegalAt(<<h, Hop(h, First(x, h).src)>>)
<1> DEFINE m == First(x, h)
           step == Hop(h, m.src)
           e == <<h, step>>
           c == Close(h, m.src, m.dst)
<1>1. /\ wire[<<x, h>>] # <<>> /\ m # Eof /\ m.dst # h /\ MayRoute(h, m) /\ life[h] = "up"
      /\ Hop(h, m.dst) \notin table[h] /\ step \in table[h]
  BY DEF Routes, Reads
<1>2. m.src \in Nodes /\ m.dst \in Nodes /\ Legal(<<x, h>>, m)
  BY <1>1, FirstIsLegal
<1>3. Travels(<<x, h>>, m) /\ IsTrue(m)
  BY <1>1, <1>2 DEF Legal
<1>4. /\ c.kind = "close" /\ c.src = h /\ c.dst = m.src /\ c.about = m.dst /\ c # Eof
      /\ c \in Notice /\ e[1] = h /\ e[2] = step /\ h \notin Apps
  BY <1>2, TreeFacts DEF Close, Notice, Eof
<1> HIDE DEF m, e, c
<1>5. /\ h = Root => step = UserSide(m.src) /\ step \in Users
      /\ h # Root /\ h # UserSide(m.src) => step = Root
      /\ h \in Users /\ step \in Apps => step = m.src
      /\ m.src # h
  BY <1>1, <1>2, HopFacts DEF IInv, TablesOfNeighbours
<1>6. /\ h # Root => UserSide(m.dst) = h /\ m.dst \notin table[h]
      /\ h = Root => UserSide(m.dst) \notin table[h]
  BY <1>1, <1>2, HopFacts DEF IInv, TablesOfNeighbours, Handlers
<1> HIDE DEF step
<1>7. m.dst # Root
  BY <1>1, <1>6, TreeFacts DEF Handlers
<1>8. m.dst \in Gone
  <2>1. ~Attached(m.dst)
    <3>1. CASE h = Root
      BY <1>6, <3>1 DEF Attached
    <3>2. CASE h # Root
      BY <1>1, <1>2, <1>6, <1>7, <3>2, TreeFacts DEF Attached, Nodes, Handlers
    <3> QED
      BY <3>1, <3>2
  <2>2. life[m.dst] \in {"up", "down"}
    BY <1>2, <1>3 DEF IsTrue, IInv, StateTypeOK
  <2> QED
    BY <1>2, <1>7, <2>1, <2>2 DEF Gone
<1>9. Travels(e, c)
  BY <1>4, <1>5, TreeFacts DEF Travels, Handlers
<1>10. NewsTravel(e, c)
  BY <1>4, <1>5, <1>6, <1>7, TreeFacts DEF NewsTravel
<1>11. Crosses(e, c)
  <2>1. CASE h = Root
    <3>1. Within(h, m.src) /\ Within(h, m.dst)
      BY <2>1 DEF Within
    <3>2. Sandbox \in {UserSide(m.src), UserSide(m.dst)}
      BY <1>1, <2>1, <3>1 DEF MayRoute, CanRoute
    <3> QED
      BY <1>4, <1>5, <2>1, <3>2 DEF Crosses
  <2>2. CASE h # Root
    BY <1>4, <2>2 DEF Crosses
  <2> QED
    BY <2>1, <2>2
<1>12. IsTrue(c)
  BY <1>3, <1>4, <1>7, <1>8 DEF IsTrue, IInv, TablesOfNeighbours
<1> QED
  BY <1>4, <1>9, <1>10, <1>11, <1>12 DEF LegalAt, Legal, AnyMessage, m, e, c, step

LEMMA SendByFacts ==
    ASSUME NEW h, NEW m, NEW n \in DOMAIN SendBy(h, m)
    PROVE  n = Hop(h, m.dst) /\ n \in table[h] /\ SendBy(h, m)[n] = <<m>>
<1>1. CASE Hop(h, m.dst) \in table[h]
  BY <1>1 DEF SendBy
<1>2. CASE Hop(h, m.dst) \notin table[h]
  BY <1>2 DEF SendBy, Quiet
<1> QED
  BY <1>1, <1>2

LEMMA RoutesPreserves ==
    ASSUME IInv, NEW h \in Handlers, NEW x \in Nodes, <<x, h>> \in Edges, Routes(h, x)
    PROVE  IInv'
<1> DEFINE m == First(x, h)
           c == Close(h, m.src, m.dst)
<1>1. /\ wire[<<x, h>>] # <<>> /\ wire' = Wires(<<x, h>>, h, Forwarded(h, m))
      /\ UNCHANGED <<life, table, entry, waits, result, serving, calls>>
  BY DEF Routes, Reads
<1>2. c.dst = m.src
  BY DEF Close
<1>3. \A n \in DOMAIN Forwarded(h, m) : Forwarded(h, m)[n] \in Seq(LegalAt(<<h, n>>))
  <2> SUFFICES ASSUME NEW n \in DOMAIN Forwarded(h, m)
               PROVE  Forwarded(h, m)[n] \in Seq(LegalAt(<<h, n>>))
    OBVIOUS
  <2>1. CASE Hop(h, m.dst) \in table[h]
    <3>1. Forwarded(h, m) = SendBy(h, m) /\ m \in LegalAt(<<h, Hop(h, m.dst)>>)
      BY <2>1, PassedOn DEF Forwarded
    <3> HIDE DEF m, LegalAt
    <3> QED
      BY <3>1, SendByFacts
  <2>2. CASE Hop(h, m.dst) \notin table[h]
    <3>1. Forwarded(h, m) = SendBy(h, c)
      BY <2>2 DEF Forwarded
    <3>2. Hop(h, m.src) \in table[h] => c \in LegalAt(<<h, Hop(h, m.src)>>)
      BY <2>2, SentBack
    <3> HIDE DEF m, c, LegalAt
    <3>3. n = Hop(h, m.src) /\ n \in table[h] /\ Forwarded(h, m)[n] = <<c>>
      BY <1>2, <3>1, SendByFacts
    <3> QED
      BY <3>2, <3>3
  <2> QED
    BY <2>1, <2>2
<1>4. StateTypeOK' /\ ServesOthers'
  BY <1>1 DEF IInv, StateTypeOK, ServesOthers
<1> HIDE DEF m
<1> QED
  BY <1>1, <1>3, <1>4, WireStep

-----------------------------------------------------------------------------
\* Applications

LEMMA StreamEdge ==
    \A a \in Apps : /\ <<UserOf[a], a>> \in Edges /\ a \in Nodes /\ a \notin Handlers
                    /\ <<UserOf[a], a>>[2] = a
  BY EdgeFacts, TreeFacts

\* What an application reads is for it.
LEMMA AppReadsFacts ==
    ASSUME IInv, NEW a \in Apps, NEW kind \in {"request", "response", "close"}, AppReads(a, kind)
    PROVE  LET m == First(UserOf[a], a) IN
           /\ wire[<<UserOf[a], a>>] # <<>> /\ wire' = Wires(<<UserOf[a], a>>, a, Quiet)
           /\ m.src \in Nodes /\ m.src # a /\ life[m.src] # "unborn" /\ life[a] # "unborn"
           /\ kind = "close" => m.about \in Nodes /\ (a \in Gone \/ m.about \in Gone)
<1> DEFINE m == First(UserOf[a], a)
<1>1. /\ wire[<<UserOf[a], a>>] # <<>> /\ wire' = Wires(<<UserOf[a], a>>, a, Quiet)
      /\ m.kind = kind
  BY DEF AppReads, First
<1>2. m # Eof
  BY <1>1 DEF Eof
<1>3. /\ m.src \in Nodes /\ m.dst \in Nodes /\ Legal(<<UserOf[a], a>>, m)
      /\ m.kind = "close" => m.about \in Nodes
  BY <1>1, <1>2, StreamEdge, FirstIsLegal
<1> HIDE DEF m
<1>4. m.src # m.dst /\ m.dst = a /\ IsTrue(m)
  BY <1>2, <1>3, StreamEdge DEF Legal, Travels
<1> QED
  BY <1>1, <1>3, <1>4 DEF IsTrue, m

LEMMA ReturnsTyped ==
    ASSUME StateTypeOK, NEW n, NEW how \in {"answer", "closed"}, Returns(n, how)
    PROVE  /\ waits' \in [Nodes -> Nodes \cup {Nobody}]
           /\ result' \in [Nodes -> {"none", "answer", "closed"}]
  BY DEF Returns, StateTypeOK

LEMMA EntryTyped ==
    ASSUME StateTypeOK, NEW a \in Apps, NEW n \in Nodes, NEW v \in {"none", "open", "closed"},
           entry' = [entry EXCEPT ![a][n] = v]
    PROVE  entry' \in [Apps -> [Nodes -> {"none", "open", "closed"}]]
<1>1. entry[a] \in [Nodes -> {"none", "open", "closed"}]
  BY DEF StateTypeOK
<1>2. [entry[a] EXCEPT ![n] = v] \in [Nodes -> {"none", "open", "closed"}]
  BY <1>1
<1> QED
  BY <1>2 DEF StateTypeOK

LEMMA AppHandlesClosePreserves == ASSUME IInv, NEW a \in Apps, AppHandlesClose(a) PROVE IInv'
<1> DEFINE m == First(UserOf[a], a)
<1>1. AppReads(a, "close") /\ UNCHANGED <<life, table, serving, calls>>
  BY DEF AppHandlesClose
<1>2. /\ wire[<<UserOf[a], a>>] # <<>> /\ wire' = Wires(<<UserOf[a], a>>, a, Quiet)
      /\ m.about \in Nodes
  BY <1>1, AppReadsFacts
<1>3. \/ /\ Returns(a, "closed") /\ entry' = [entry EXCEPT ![a][m.about] = "none"]
      \/ /\ entry' = [entry EXCEPT ![a][m.about] = IF @ = "open" THEN "closed" ELSE @]
         /\ UNCHANGED <<waits, result>>
  BY DEF AppHandlesClose
<1> HIDE DEF m
<1>4. /\ waits' \in [Nodes -> Nodes \cup {Nobody}]
      /\ result' \in [Nodes -> {"none", "answer", "closed"}]
  BY <1>3, ReturnsTyped DEF IInv, StateTypeOK
<1>5. entry' \in [Apps -> [Nodes -> {"none", "open", "closed"}]]
  <2>1. entry[a][m.about] \in {"none", "open", "closed"}
    BY <1>2 DEF IInv, StateTypeOK
  <2>2. PICK v \in {"none", "open", "closed"} : entry' = [entry EXCEPT ![a][m.about] = v]
    BY <1>3, <2>1
  <2> QED
    BY <1>2, <2>2, EntryTyped DEF IInv
<1>6. StateTypeOK' /\ ServesOthers'
  BY <1>1, <1>4, <1>5 DEF IInv, StateTypeOK, ServesOthers
<1> QED
  BY <1>1, <1>2, <1>6, QuietLegal, WireStep

LEMMA AppHandlesRequestPreserves == ASSUME IInv, NEW a \in Apps, AppHandlesRequest(a) PROVE IInv'
<1> DEFINE m == First(UserOf[a], a)
<1>1. /\ AppReads(a, "request") /\ UNCHANGED <<life, table, waits, result, calls>>
      /\ entry' = [entry EXCEPT ![a][m.src] = IF @ = "none" THEN "open" ELSE @]
      /\ serving' = [serving EXCEPT ![a] = @ \cup {m.src}]
  BY DEF AppHandlesRequest
<1>2. /\ wire[<<UserOf[a], a>>] # <<>> /\ wire' = Wires(<<UserOf[a], a>>, a, Quiet)
      /\ m.src \in Nodes /\ m.src # a /\ life[m.src] # "unborn" /\ life[a] # "unborn"
  BY <1>1, AppReadsFacts
<1> HIDE DEF m
<1>3. entry' \in [Apps -> [Nodes -> {"none", "open", "closed"}]]
  BY <1>1, <1>2 DEF IInv, StateTypeOK
<1>4. serving' \in [Nodes -> SUBSET Nodes] /\ ServesOthers'
  BY <1>1, <1>2, StreamEdge DEF IInv, StateTypeOK, ServesOthers
<1>5. StateTypeOK'
  BY <1>1, <1>3, <1>4 DEF IInv, StateTypeOK
<1> QED
  BY <1>1, <1>2, <1>4, <1>5, QuietLegal, WireStep

LEMMA AppHandlesResponsePreserves == ASSUME IInv, NEW a \in Apps, AppHandlesResponse(a) PROVE IInv'
<1>1. /\ AppReads(a, "response") /\ Returns(a, "answer")
      /\ UNCHANGED <<life, table, entry, serving, calls>>
  BY DEF AppHandlesResponse
<1>2. wire[<<UserOf[a], a>>] # <<>> /\ wire' = Wires(<<UserOf[a], a>>, a, Quiet)
  BY <1>1, AppReadsFacts
<1>3. StateTypeOK' /\ ServesOthers'
  BY <1>1, ReturnsTyped DEF IInv, StateTypeOK, ServesOthers
<1> QED
  BY <1>1, <1>2, <1>3, QuietLegal, WireStep

LEMMA AppLosesSessionPreserves == ASSUME IInv, NEW a \in Apps, AppLosesSession(a) PROVE IInv'
<1> DEFINE read == <<UserOf[a], a>>
<1>1. /\ life[a] = "up" /\ wire[read] # <<>> /\ wire' = Wires(read, a, Quiet) /\ Down(a)
      /\ Returns(a, "closed") /\ UNCHANGED <<table, entry, calls>>
  BY DEF AppLosesSession, AppReads
<1>2. /\ Stable /\ TablesOfNeighbours' /\ ServesOthers'
      /\ life' \in [Nodes -> {"unborn", "up", "down"}] /\ serving' \in [Nodes -> SUBSET Nodes]
  <2>1. life[a] # "unborn" /\ Down(a) /\ UNCHANGED table /\ a \in Nodes
    BY <1>1, TreeFacts
  <2> QED
    BY <2>1, DownStable
<1>3. StateTypeOK'
  <2>1. /\ waits' \in [Nodes -> Nodes \cup {Nobody}]
        /\ result' \in [Nodes -> {"none", "answer", "closed"}]
    BY <1>1, ReturnsTyped DEF IInv
  <2> QED
    BY <1>1, <1>2, <2>1 DEF IInv, StateTypeOK
<1>4. \A n \in DOMAIN Quiet : <<a, n>> \in Edges => Quiet[n] \in Seq(LegalAt(<<a, n>>)')
  BY DEF Quiet
<1>5. WiresLegal'
  BY <1>1, <1>2, <1>4, WiresStayLegal DEF WiresLegal
<1>6. DOMAIN wire' = Edges /\ wire' = [e \in Edges |-> wire'[e]]
  BY <1>1 DEF Wires
<1> QED
  BY <1>2, <1>3, <1>5, <1>6 DEF IInv

-----------------------------------------------------------------------------
\* Calls

\* A message of n's own to c is legal, whether it is an application or a handler.
LEMMA UpIsLegal ==
    ASSUME IInv, NEW a \in Apps, NEW c \in Nodes, NEW kind \in {"request", "response"},
           c # a, life[c] # "unborn", life[a] # "unborn",
           NEW n \in DOMAIN SendUp(a, Msg(kind, a, c))
    PROVE  SendUp(a, Msg(kind, a, c))[n] \in Seq(LegalAt(<<a, n>>))
<1> DEFINE m == Msg(kind, a, c)
<1>1. m \in LegalAt(<<a, UserOf[a]>>)
  BY AppMessage
<1> HIDE DEF m, LegalAt
<1>2. n = UserOf[a] /\ SendUp(a, m)[n] = <<m>>
  BY DEF SendUp, m
<1> QED
  BY <1>1, <1>2 DEF m

LEMMA ByIsLegal ==
    ASSUME IInv, NEW h \in Handlers, NEW c \in Nodes, NEW kind \in {"request", "response"},
           life[c] # "unborn", NEW n \in DOMAIN SendBy(h, Msg(kind, h, c))
    PROVE  SendBy(h, Msg(kind, h, c))[n] \in Seq(LegalAt(<<h, n>>))
<1> DEFINE m == Msg(kind, h, c)
<1>1. m.dst = c
  BY DEF Msg
<1>2. n = Hop(h, c) /\ n \in table[h] /\ SendBy(h, m)[n] = <<m>>
  BY <1>1, SendByFacts
<1>3. m \in LegalAt(<<h, n>>)
  BY <1>2, OwnMessage
<1> HIDE DEF m, LegalAt
<1> QED
  BY <1>2, <1>3 DEF m

LEMMA CallPreserves == ASSUME IInv, NEW n \in Nodes, NEW c \in Nodes, Call(n, c) PROVE IInv'
<1>1. /\ <<n, c>> \in Calls /\ calls < MaxCalls /\ life[c] # "unborn" /\ calls' = calls + 1
      /\ UNCHANGED <<life, table, serving>>
      /\ IF n \in Apps THEN AppCalls(n, c) ELSE HandlerCalls(n, c)
  BY DEF Call
<1>2. c # n
  BY <1>1, RoutingAssumption
<1>3. calls' \in 0..MaxCalls
  BY <1>1, RoutingAssumption DEF IInv, StateTypeOK
<1>4. ServesOthers'
  BY <1>1 DEF IInv, ServesOthers
<1>5. NoEdge \notin Edges
  BY EdgeFacts DEF NoEdge
<1>6. CASE n \in Apps
  <2>1. /\ life[n] = "up"
        /\ wire' = Wires(NoEdge, n, SendUp(n, Msg("request", n, c)))
        /\ \/ /\ entry' = [entry EXCEPT ![n][c] = "none"]
              /\ result' = [result EXCEPT ![n] = "closed"]
              /\ UNCHANGED waits
           \/ /\ entry' = [entry EXCEPT ![n][c] = "open"]
              /\ result' = [result EXCEPT ![n] = "none"]
              /\ waits' = [waits EXCEPT ![n] = c]
    BY <1>1, <1>6 DEF AppCalls
  <2>2. entry' \in [Apps -> [Nodes -> {"none", "open", "closed"}]]
    BY <1>6, <2>1, EntryTyped DEF IInv
  <2>3. /\ waits' \in [Nodes -> Nodes \cup {Nobody}]
        /\ result' \in [Nodes -> {"none", "answer", "closed"}]
    <3>1. /\ waits \in [Nodes -> Nodes \cup {Nobody}]
          /\ result \in [Nodes -> {"none", "answer", "closed"}]
      BY DEF IInv, StateTypeOK
    <3>2. waits' = waits \/ waits' = [waits EXCEPT ![n] = c]
      BY <2>1
    <3>3. \/ result' = [result EXCEPT ![n] = "closed"]
          \/ result' = [result EXCEPT ![n] = "none"]
      BY <2>1
    <3> QED
      BY <3>1, <3>2, <3>3
  <2>4. StateTypeOK'
    BY <1>1, <1>3, <2>3, <2>2 DEF IInv, StateTypeOK
  <2>5. life[n] # "unborn"
    BY <2>1
  <2>6. \A k \in DOMAIN SendUp(n, Msg("request", n, c)) :
           SendUp(n, Msg("request", n, c))[k] \in Seq(LegalAt(<<n, k>>))
    BY <1>1, <1>2, <1>6, <2>5, UpIsLegal
  <2> HIDE DEF LegalAt
  <2> QED
    BY <1>1, <1>4, <1>5, <2>1, <2>4, <2>6, WireStep
<1>7. CASE n \notin Apps
  <2>1. /\ wire' = Wires(NoEdge, n, SendBy(n, Msg("request", n, c)))
        /\ waits' = [waits EXCEPT ![n] = c] /\ result' = [result EXCEPT ![n] = "none"]
        /\ UNCHANGED entry /\ n \in Handlers
    BY <1>1, <1>7 DEF HandlerCalls, Nodes
  <2>2. /\ waits' \in [Nodes -> Nodes \cup {Nobody}]
        /\ result' \in [Nodes -> {"none", "answer", "closed"}]
    BY <2>1 DEF IInv, StateTypeOK
  <2>3. StateTypeOK'
    BY <1>1, <1>3, <2>1, <2>2 DEF IInv, StateTypeOK
  <2>4. \A k \in DOMAIN SendBy(n, Msg("request", n, c)) :
           SendBy(n, Msg("request", n, c))[k] \in Seq(LegalAt(<<n, k>>))
    BY <1>1, <2>1, ByIsLegal
  <2> QED
    BY <1>1, <1>4, <1>5, <2>1, <2>3, <2>4, WireStep
<1> QED
  BY <1>6, <1>7

LEMMA RespondPreserves ==
    ASSUME IInv, NEW n \in Nodes, NEW c \in serving[n], Respond(n, c)
    PROVE  IInv'
<1> DEFINE m == Msg("response", n, c)
<1>1. /\ serving' = [serving EXCEPT ![n] = @ \ {c}]
      /\ wire' = Wires(NoEdge, n, IF n \in Apps THEN SendUp(n, m) ELSE SendBy(n, m))
      /\ UNCHANGED <<life, table, entry, waits, result, calls>>
  BY DEF Respond
<1>2. c \in Nodes /\ c # n /\ life[c] # "unborn" /\ life[n] # "unborn"
  BY DEF IInv, StateTypeOK, ServesOthers
<1>3. serving' \in [Nodes -> SUBSET Nodes] /\ ServesOthers'
  BY <1>1 DEF IInv, StateTypeOK, ServesOthers
<1>4. StateTypeOK'
  BY <1>1, <1>3 DEF IInv, StateTypeOK
<1>5. NoEdge \notin Edges
  BY EdgeFacts DEF NoEdge
<1>6. CASE n \in Apps
  <2>1. \A k \in DOMAIN SendUp(n, m) : SendUp(n, m)[k] \in Seq(LegalAt(<<n, k>>))
    BY <1>2, <1>6, UpIsLegal
  <2> QED
    BY <1>1, <1>3, <1>4, <1>5, <1>6, <2>1, WireStep
<1>7. CASE n \notin Apps
  <2>1. \A k \in DOMAIN SendBy(n, m) : SendBy(n, m)[k] \in Seq(LegalAt(<<n, k>>))
    BY <1>2, <1>7, ByIsLegal DEF Nodes
  <2> QED
    BY <1>1, <1>3, <1>4, <1>5, <1>7, <2>1, WireStep
<1> QED
  BY <1>6, <1>7

-----------------------------------------------------------------------------
\* All steps

LEMMA HandlerStepPreserves == ASSUME IInv, NEW h \in Handlers, HandlerStep(h) PROVE IInv'
<1>1. ASSUME NEW x \in Nodes, <<x, h>> \in Edges,
             \/ ReadsEof(h, x) \/ HandlesClose(h, x) \/ HandlesMessage(h, x)
             \/ DropsConnection(h, x) \/ Routes(h, x)
      PROVE  IInv'
  BY <1>1, ReadsEofPreserves, HandlesClosePreserves, HandlesMessagePreserves,
     DropsConnectionPreserves, RoutesPreserves
<1>2. CASE h # Root /\ UserQuits(h)
  BY <1>2, UserQuitsPreserves DEF Handlers
<1> QED
  BY <1>1, <1>2 DEF HandlerStep

LEMMA StepPreserves == ASSUME IInv, NEW n \in Nodes, Step(n) PROVE IInv'
<1>1. CASE n \in Handlers /\ HandlerStep(n)
  BY <1>1, HandlerStepPreserves
<1>2. CASE n \in Apps /\ AppStep(n)
  BY <1>2, AppHandlesClosePreserves, AppHandlesRequestPreserves, AppHandlesResponsePreserves,
     AppLosesSessionPreserves DEF AppStep
<1>3. CASE \E c \in serving[n] : Respond(n, c)
  BY <1>3, RespondPreserves
<1> QED
  BY <1>1, <1>2, <1>3 DEF Step

LEMMA Inductive == IInv /\ [Next]_vars => IInv'
<1> SUFFICES ASSUME IInv, [Next]_vars PROVE IInv'
  OBVIOUS
<1>1. CASE \E n \in Nodes : Step(n) \/ Die(n)
  BY <1>1, StepPreserves, DiePreserves
<1>2. CASE \E a \in Apps : Connect(a)
  BY <1>2, ConnectPreserves
<1>3. CASE \E h \in Handlers, x \in Nodes : WriteFails(h, x)
  BY <1>3, WriteFailsPreserves
<1>4. CASE \E n, c \in Nodes : Call(n, c)
  BY <1>4, CallPreserves
<1>5. CASE UNCHANGED vars
  <2>1. UNCHANGED <<life, table, wire, entry, waits, result, serving, calls>>
    BY <1>5 DEF vars
  <2>2. \A e : LegalAt(e) = LegalAt(e)'
    BY <2>1 DEF LegalAt, Legal, Travels, NewsTravel, Crosses, IsTrue, Gone, Attached
  <2> HIDE DEF LegalAt
  <2> QED
    BY <2>1, <2>2 DEF IInv, StateTypeOK, TablesOfNeighbours, ServesOthers, WiresLegal
<1> QED
  BY <1>1, <1>2, <1>3, <1>4, <1>5 DEF Next

LEMMA Initially == Init => IInv
<1> SUFFICES ASSUME Init PROVE IInv
  OBVIOUS
<1>1. \A h \in Handlers : h \notin Late /\ h \in Nodes
  BY TreeFacts, RoutingAssumption DEF Nodes
<1>2. StateTypeOK
  <2>1. table \in [Handlers -> SUBSET Nodes]
    BY DEF Init, Handlers, Nodes
  <2>2. calls \in 0..MaxCalls
    BY RoutingAssumption DEF Init
  <2> QED
    BY <2>1, <2>2 DEF Init, StateTypeOK
<1>3. TablesOfNeighbours
  <2>1. table[Root] = Users /\ \A u \in Users : table[u] = {Root} \cup {a \in Apps \ Late : UserOf[a] = u}
    BY TreeFacts DEF Init
  <2>2. \A n \in Nodes : n \notin Late => life[n] = "up"
    BY DEF Init
  <2>3. \A h \in Handlers : life[h] # "unborn" /\ \A n \in table[h] : life[n] # "unborn"
    <3>1. ASSUME NEW h \in Handlers, NEW n \in table[h] PROVE n \in Nodes /\ n \notin Late
      BY <1>1, <2>1, TreeFacts DEF Handlers
    <3> QED
      BY <1>1, <2>2, <3>1
  <2> QED
    BY <2>1, <2>3 DEF TablesOfNeighbours
<1>4. ServesOthers /\ DOMAIN wire = Edges /\ wire = [e \in Edges |-> wire[e]] /\ WiresLegal
  BY DEF Init, ServesOthers, WiresLegal
<1> QED
  BY <1>2, <1>3, <1>4 DEF IInv

\* What is on a wire is legal there in every state: it is for the end it travels to,
\* comes from where it says, and is true (Legal).
THEOREM InductiveInvariant == Spec => []IInv
  BY Initially, Inductive, PTL DEF Spec

-----------------------------------------------------------------------------
\* What follows of it

LEMMA OnTheWire == ASSUME IInv, NEW e \in Edges, NEW i \in DOMAIN wire[e] PROVE wire[e][i] \in LegalAt(e)
<1>1. wire[e] \in Seq(LegalAt(e))
  BY DEF IInv, WiresLegal
<1> HIDE DEF LegalAt
<1> QED
  BY <1>1

LEMMA TypesFollow == IInv => TypeOK
<1> SUFFICES ASSUME IInv PROVE TypeOK
  OBVIOUS
<1>1. \A e \in Edges : wire[e] \in Seq(AnyMessage)
  <2>1. \A e \in Edges : wire[e] \in Seq(LegalAt(e)) /\ LegalAt(e) \subseteq AnyMessage
    BY DEF IInv, WiresLegal, LegalAt
  <2> HIDE DEF LegalAt, AnyMessage
  <2> QED
    BY <2>1
<1> QED
  BY <1>1 DEF IInv, TypeOK, StateTypeOK, AnyMessage

\* Tables, wires and the sessions of applications keep their types.
THEOREM TypesHold == Spec => []TypeOK
  BY TypesFollow, InductiveInvariant, PTL

LEMMA SandboxFollows == IInv => OnlySandboxAcrossRoot
<1> SUFFICES ASSUME IInv, NEW u \in Users, NEW i \in DOMAIN wire[<<Root, u>>],
                    wire[<<Root, u>>][i] # Eof
             PROVE  LET m == wire[<<Root, u>>][i]
                        from == IF m.kind = "close" THEN m.about ELSE m.src
                    IN  from = Root \/ Sandbox \in {u, UserSide(from)}
  BY DEF OnlySandboxAcrossRoot
<1>1. wire[<<Root, u>>][i] \in LegalAt(<<Root, u>>)
  BY OnTheWire, EdgeFacts
<1> QED
  BY <1>1 DEF LegalAt, Legal, Crosses

\* Whatever the tree, nothing of one user reaches another across the root, unless
\* one of them is the sandbox: no message, and no news of a channel, though
\* user processes pass on what they are told (RootManager.cpp 405-412,
\* MessageConnection.cpp 293-380, 556-583).
THEOREM OnlyTheSandboxCrosses == Spec => []OnlySandboxAcrossRoot
  BY SandboxFollows, InductiveInvariant, PTL

LEMMA TruthFollows == IInv => CloseIsTrue
<1> SUFFICES ASSUME IInv, NEW e \in Edges, NEW i \in DOMAIN wire[e],
                    LET m == wire[e][i] IN m # Eof /\ m.kind = "close" /\ m.about # Root
             PROVE  wire[e][i].about \in Gone
  BY DEF CloseIsTrue
<1>1. wire[e][i] \in LegalAt(e)
  BY OnTheWire
<1> QED
  BY <1>1 DEF LegalAt, Legal, IsTrue

\* No decision of a handler, on whatever its table is by then, makes a closed
\* channel of one that is still linked: who is reported closed cannot be reached
\* (MessageConnection.cpp 356-378, 544-595).
THEOREM ClosesAreTrue == Spec => []CloseIsTrue
  BY TruthFollows, InductiveInvariant, PTL

-----------------------------------------------------------------------------
\* Calls are those of CallService

\* A caller knows its callee, and remembers as closed what has gone, or it has
\* lost its own link.
CallersKnow ==
    /\ \A n \in Nodes : waits[n] # Nobody => life[waits[n]] # "unborn"
    /\ \A a \in Apps, n \in Nodes : entry[a][n] = "closed" => n \in Gone \/ a \in Gone

\* Steps that leave calls as they are.
LEMMA KnowingStays ==
    ASSUME IInv, CallersKnow, Stable, IInv',
           \A n \in Nodes : waits'[n] \in {waits[n], Nobody},
           \A a \in Apps, n \in Nodes : entry'[a][n] = "closed" =>
               entry[a][n] = "closed" \/ n \in Gone \/ a \in Gone
    PROVE  CallersKnow'
<1>1. Gone \subseteq Gone'
  BY LegalStays DEF IInv
<1>2. \A n \in Nodes : waits[n] \in Nodes \cup {Nobody}
  BY DEF IInv, StateTypeOK
<1>3. \A n \in Nodes : waits'[n] # Nobody => life'[waits'[n]] # "unborn"
  BY <1>2 DEF CallersKnow, Stable
<1>4. \A a \in Apps, n \in Nodes : entry'[a][n] = "closed" => n \in Gone' \/ a \in Gone'
  BY <1>1 DEF CallersKnow
<1> QED
  BY <1>3, <1>4 DEF CallersKnow

LEMMA UnchangedStable == ASSUME IInv, UNCHANGED <<life, table>> PROVE Stable /\ Gone' = Gone
  BY DEF Stable, IInv, StateTypeOK, Gone, Attached

\* A step after which only the gone have changed, or callers among them.
LEMMA Leaves ==
    ASSUME IInv, IInv', Stable,
           \A n \in Nodes : \/ waits'[n] = waits[n] /\ result'[n] = result[n]
                            \/ n \in Gone' /\ waits'[n] = Nobody /\ result'[n] = "none"
    PROVE  Service!Next
<1>1. Gone' \in SUBSET Nodes /\ Gone \subseteq Gone'
  <2>1. Gone' \subseteq Nodes
    BY DEF Gone
  <2> QED
    BY <2>1, LegalStays DEF IInv
<1>2. /\ waits' \in [Nodes -> Nodes \cup {Nobody}]
      /\ result' \in [Nodes -> {"none", "answer", "closed"}]
  BY DEF IInv, StateTypeOK
<1> HIDE DEF Gone
<1>3. Service!Leave
  BY <1>1, <1>2 DEF Service!Leave
<1> QED
  BY <1>3 DEF Service!Next

\* A caller comes back with nothing but that its callee, or itself, has gone.
LEMMA Fails ==
    ASSUME IInv, IInv', Stable, NEW n \in Nodes, waits[n] # Nobody,
           waits' = [waits EXCEPT ![n] = Nobody], result' = [result EXCEPT ![n] = "closed"],
           waits[n] \in Gone' \/ n \in Gone'
    PROVE  Service!Next
<1>1. Gone' \in SUBSET Nodes /\ Gone \subseteq Gone'
  <2>1. Gone' \subseteq Nodes
    BY DEF Gone
  <2> QED
    BY <2>1, LegalStays DEF IInv
<1> HIDE DEF Gone
<1>2. Service!Fail(n)
  BY <1>1 DEF Service!Fail, Service!Return, Service!Released
<1> QED
  BY <1>2 DEF Service!Next

\* A caller whose last call is over takes note of nothing.
LEMMA SameResult ==
    ASSUME IInv, NEW n \in Nodes, NEW how, waits[n] = Nobody, Returns(n, how)
    PROVE  UNCHANGED <<waits, result>>
<1>1. waits \in [Nodes -> Nodes \cup {Nobody}] /\ result \in [Nodes -> {"none", "answer", "closed"}]
  BY DEF IInv, StateTypeOK
<1>2. waits' = [waits EXCEPT ![n] = Nobody] /\ result' = [result EXCEPT ![n] = result[n]]
  BY DEF Returns
<1> QED
  BY <1>1, <1>2

Kept == [Service!Next]_<<waits, result, Gone>> /\ CallersKnow'

\* The connection that a handler's call goes through has closed.
LEMMA ChannelClosedKept ==
    ASSUME IInv, CallersKnow, IInv', Stable, NEW h \in Handlers, NEW c \in Gone',
           c # Root, UNCHANGED <<life, entry>>,
           table' = [table EXCEPT ![h] = @ \ {c}],
           IF Unblocked(h, c)
           THEN /\ waits' = [waits EXCEPT ![h] = Nobody]
                /\ result' = [result EXCEPT ![h] = "closed"]
           ELSE UNCHANGED <<waits, result>>
    PROVE  Kept
<1>1. waits \in [Nodes -> Nodes \cup {Nobody}] /\ h \in Nodes
  BY TreeFacts DEF IInv, StateTypeOK, Nodes
<1>2. \A n \in Nodes : waits'[n] \in {waits[n], Nobody}
  BY <1>1
<1>3. CallersKnow'
  BY <1>2, KnowingStays DEF CallersKnow
<1>4. CASE Unblocked(h, c)
  <2>1. PICK w \in Nodes : w = waits[h] /\ w # Nobody /\ c \in table[h] /\ Hop(h, w) = c
    BY <1>1, <1>4 DEF Unblocked
  <2>2. w \in Gone'
    <3>1. CASE h = Root
      <4>1. w # Root /\ UserSide(w) = c
        BY <2>1, <3>1, HopFacts, TreeFacts
      <4>2. c \notin table'[Root]
        BY <3>1 DEF IInv, StateTypeOK
      <4>3. ~Attached(w)'
        BY <4>1, <4>2 DEF Attached
      <4>4. life'[w] \in {"up", "down"}
        BY <1>1, <2>1 DEF CallersKnow, IInv, StateTypeOK
      <4> QED
        BY <2>1, <4>1, <4>3, <4>4 DEF Gone
    <3>2. CASE h # Root
      BY <2>1, <3>2, HopFacts
    <3> QED
      BY <3>1, <3>2
  <2>3. Service!Next
    BY <1>1, <1>4, <2>1, <2>2, Fails
  <2> QED
    BY <1>3, <2>3 DEF Kept
<1>5. CASE ~Unblocked(h, c)
  <2>1. UNCHANGED <<waits, result>>
    BY <1>5
  <2>2. Service!Next
    BY <2>1, Leaves
  <2> QED
    BY <1>3, <2>2 DEF Kept
<1> QED
  BY <1>4, <1>5

\* A step of routing that neither makes a call nor ends one.
LEMMA NoCall ==
    ASSUME IInv, CallersKnow, IInv', UNCHANGED <<life, table, waits, result>>,
           \A a \in Apps, n \in Nodes : entry'[a][n] = "closed" =>
               entry[a][n] = "closed" \/ n \in Gone \/ a \in Gone
    PROVE  Kept
<1>1. Stable /\ Gone' = Gone
  BY UnchangedStable
<1>2. CallersKnow'
  BY <1>1, KnowingStays
<1>3. UNCHANGED <<waits, result, Gone>>
  BY <1>1
<1> QED
  BY <1>2, <1>3 DEF Kept

\* The answer of a handler's or application's call; one that is late changes nothing.
LEMMA Answers ==
    ASSUME IInv, CallersKnow, IInv', NEW n \in Nodes, UNCHANGED <<life, table, entry>>,
           Returns(n, "answer")
    PROVE  Kept
<1>1. Stable /\ Gone' = Gone
  BY UnchangedStable
<1>2. waits \in [Nodes -> Nodes \cup {Nobody}]
  BY DEF IInv, StateTypeOK
<1>3. CallersKnow'
  BY <1>1, <1>2, KnowingStays DEF Returns
<1>4. CASE waits[n] = Nobody
  <2>1. UNCHANGED <<waits, result>>
    BY <1>4, SameResult
  <2> QED
    BY <1>1, <1>3, <2>1 DEF Kept
<1>5. CASE waits[n] # Nobody
  <2>1. waits' = [waits EXCEPT ![n] = Nobody] /\ result' = [result EXCEPT ![n] = "answer"]
    BY <1>5 DEF Returns
  <2> HIDE DEF Gone
  <2>2. Service!Answer(n)
    BY <1>1, <1>5, <2>1 DEF Service!Answer, Service!Return, Service!Released
  <2> QED
    BY <1>3, <2>2 DEF Kept, Service!Next
<1> QED
  BY <1>4, <1>5

\* channel_closed, of what has gone.
LEMMA ClosingKept ==
    ASSUME IInv, CallersKnow, IInv', NEW h \in Handlers, NEW c \in Gone, NEW src, NEW read,
           ChannelClosed(h, c, src, read), UNCHANGED <<life, entry>>
    PROVE  Kept
<1>1. table' = [table EXCEPT ![h] = @ \ {c}] /\ c # Root
  BY DEF ChannelClosed, Gone
<1>2. Stable
  BY <1>1, TreeFacts DEF Stable, IInv, StateTypeOK
<1>3. c \in Gone'
  BY <1>2, LegalStays DEF IInv
<1> QED
  BY <1>1, <1>2, <1>3, ChannelClosedKept DEF ChannelClosed

LEMMA ReadsEofKept ==
    ASSUME IInv, CallersKnow, IInv', NEW h \in Handlers, NEW x \in Nodes, <<x, h>> \in Edges,
           ReadsEof(h, x)
    PROVE  Kept
<1>1. life[x] = "down"
  BY FirstIsLegal DEF ReadsEof, Legal
<1>2. x \in Gone
  BY <1>1 DEF ReadsEof, Gone
<1> QED
  BY <1>2, ClosingKept DEF ReadsEof

LEMMA WriteFailsKept ==
    ASSUME IInv, CallersKnow, IInv', NEW h \in Handlers, NEW x \in Nodes, WriteFails(h, x)
    PROVE  Kept
<1>1. x \in Gone
  BY DEF WriteFails, Gone
<1> QED
  BY <1>1, ClosingKept DEF WriteFails

LEMMA HandlesCloseKept ==
    ASSUME IInv, CallersKnow, IInv', NEW h \in Handlers, NEW x \in Nodes, <<x, h>> \in Edges,
           HandlesClose(h, x)
    PROVE  Kept
<1> DEFINE m == First(x, h)
<1>1. /\ wire[<<x, h>>] # <<>> /\ m # Eof /\ m.kind = "close"
      /\ ChannelClosed(h, m.about, m.src, <<x, h>>) /\ UNCHANGED <<life, entry>>
  BY DEF HandlesClose, Reads
<1>2. Legal(<<x, h>>, m)
  BY <1>1, FirstIsLegal
<1> HIDE DEF m
<1>3. m.about \in Gone
  BY <1>1, <1>2, TreeFacts DEF Legal, IsTrue, NewsTravel
<1> QED
  BY <1>1, <1>3, ClosingKept

LEMMA HandlesMessageKept ==
    ASSUME IInv, CallersKnow, IInv', NEW h \in Handlers, NEW x \in Nodes, HandlesMessage(h, x)
    PROVE  Kept
<1>1. h \in Nodes /\ UNCHANGED <<life, table, entry>>
  BY DEF HandlesMessage, Nodes
<1>2. UNCHANGED <<waits, result>> \/ Returns(h, "answer")
  BY DEF HandlesMessage, Returns
<1>3. CASE UNCHANGED <<waits, result>>
  BY <1>1, <1>3, NoCall
<1>4. CASE Returns(h, "answer")
  BY <1>1, <1>4, Answers
<1> QED
  BY <1>2, <1>3, <1>4

LEMMA DropsConnectionKept ==
    ASSUME IInv, CallersKnow, IInv', NEW h \in Handlers, NEW x \in Nodes, <<x, h>> \in Edges,
           DropsConnection(h, x)
    PROVE  Kept
<1> DEFINE m == First(x, h)
<1>1. /\ wire[<<x, h>>] # <<>> /\ m # Eof /\ ~MayRoute(h, m)
      /\ table' = [table EXCEPT ![h] = @ \ {x}] /\ UNCHANGED <<life, entry>>
  BY DEF DropsConnection, Reads
<1>2. h = Root
  <2>1. m.src # m.dst
    BY <1>1, FirstIsLegal DEF Legal, Travels
  <2> QED
    BY <1>1, <2>1 DEF MayRoute, CanRoute
<1> HIDE DEF m
<1>3. x \in Users /\ x # Root
  BY <1>2, ReadEdge, TreeFacts
<1>4. table \in [Handlers -> SUBSET Nodes] /\ life \in [Nodes -> {"unborn", "up", "down"}]
  BY DEF IInv, StateTypeOK
<1>5. Stable
  BY <1>1, <1>4, TreeFacts DEF Stable
<1>6. x \in Gone'
  <2>1. x \notin table'[Parent(x)]
    BY <1>1, <1>2, <1>3, <1>4, TreeFacts
  <2>2. life'[x] \in {"up", "down"}
    BY <1>1, <1>3, <1>4, TreeFacts DEF IInv, TablesOfNeighbours
  <2> QED
    BY <1>3, <2>1, <2>2 DEF Gone, Attached
<1> QED
  BY <1>1, <1>3, <1>5, <1>6, ChannelClosedKept DEF DropsConnection

\* A process that dies or quits takes its call with it.
LEMMA DownKept ==
    ASSUME IInv, CallersKnow, IInv', NEW n \in Nodes \ {Root}, life[n] # "unborn", Down(n),
           UNCHANGED table \/ (n \in Users /\ table' = [table EXCEPT ![n] = {}]),
           waits' = [waits EXCEPT ![n] = Nobody], result' = [result EXCEPT ![n] = "none"],
           UNCHANGED entry
    PROVE  Kept
<1>1. Stable /\ life'[n] = "down"
  BY DownStable
<1>2. n \in Gone'
  BY <1>1 DEF Gone
<1>3. waits \in [Nodes -> Nodes \cup {Nobody}] /\ result \in [Nodes -> {"none", "answer", "closed"}]
  BY DEF IInv, StateTypeOK
<1>4. CallersKnow'
  BY <1>1, <1>3, KnowingStays
<1>5. Service!Next
  BY <1>1, <1>2, <1>3, Leaves
<1> QED
  BY <1>4, <1>5 DEF Kept

LEMMA DieKept == ASSUME IInv, CallersKnow, IInv', NEW n \in Nodes, Die(n) PROVE Kept
<1>1. n # Root /\ life[n] # "unborn" /\ Down(n) /\ UNCHANGED table /\ UNCHANGED entry
  BY RoutingAssumption DEF Die
<1> QED
  BY <1>1, DownKept DEF Die

LEMMA UserQuitsKept == ASSUME IInv, CallersKnow, IInv', NEW u \in Users, UserQuits(u) PROVE Kept
<1>1. u \in Nodes \ {Root} /\ life[u] # "unborn" /\ Down(u) /\ UNCHANGED entry
  BY TreeFacts DEF UserQuits
<1> QED
  BY <1>1, DownKept DEF UserQuits

LEMMA ConnectKept == ASSUME IInv, CallersKnow, IInv', NEW a \in Apps, Connect(a) PROVE Kept
<1> DEFINE u == UserOf[a]
<1>1. /\ life[a] = "unborn" /\ u # Root
      /\ life' = [life EXCEPT ![a] = "up"] /\ table' = [table EXCEPT ![u] = @ \cup {a}]
      /\ UNCHANGED <<entry, waits, result>>
  BY TreeFacts DEF Connect
<1>2. /\ life \in [Nodes -> {"unborn", "up", "down"}] /\ table \in [Handlers -> SUBSET Nodes]
      /\ a \in Nodes /\ u \in Handlers
  BY TreeFacts DEF IInv, StateTypeOK
<1> HIDE DEF u
<1>3. \A x \in Nodes : life'[x] = IF x = a THEN "up" ELSE life[x]
  BY <1>1, <1>2
<1>4. \A h \in Handlers : table'[h] = IF h = u THEN table[u] \cup {a} ELSE table[h]
  BY <1>1, <1>2
<1>5. Stable
  BY <1>1, <1>2, <1>3, <1>4, TreeFacts DEF Stable
<1>6. CallersKnow'
  BY <1>1, <1>5, KnowingStays
<1>7. Service!Next
  BY <1>1, <1>5, Leaves
<1> QED
  BY <1>6, <1>7 DEF Kept

LEMMA HandlerStepKept ==
    ASSUME IInv, CallersKnow, IInv', NEW h \in Handlers, HandlerStep(h)
    PROVE  Kept
<1>1. ASSUME NEW x \in Nodes, <<x, h>> \in Edges,
             \/ ReadsEof(h, x) \/ HandlesClose(h, x) \/ HandlesMessage(h, x) \/ DropsConnection(h, x)
      PROVE  Kept
  BY <1>1, ReadsEofKept, HandlesCloseKept, HandlesMessageKept, DropsConnectionKept
<1>2. ASSUME NEW x \in Nodes, Routes(h, x) PROVE Kept
  BY <1>2, NoCall DEF Routes
<1>3. CASE h # Root /\ UserQuits(h)
  BY <1>3, UserQuitsKept DEF Handlers
<1> QED
  BY <1>1, <1>2, <1>3 DEF HandlerStep

LEMMA AppHandlesCloseKept == ASSUME IInv, CallersKnow, IInv', NEW a \in Apps, AppHandlesClose(a) PROVE Kept
<1> DEFINE m == First(UserOf[a], a)
<1>1. AppReads(a, "close") /\ UNCHANGED <<life, table>> /\ a \in Nodes
  BY TreeFacts DEF AppHandlesClose
<1>2. m.about \in Nodes /\ (a \in Gone \/ m.about \in Gone)
  BY <1>1, AppReadsFacts
<1>3. IF waits[a] = m.about
      THEN Returns(a, "closed") /\ entry' = [entry EXCEPT ![a][m.about] = "none"]
      ELSE /\ entry' = [entry EXCEPT ![a][m.about] = IF @ = "open" THEN "closed" ELSE @]
           /\ UNCHANGED <<waits, result>>
  BY DEF AppHandlesClose
<1> HIDE DEF m
<1>4. entry \in [Apps -> [Nodes -> {"none", "open", "closed"}]] /\ waits \in [Nodes -> Nodes \cup {Nobody}]
  BY DEF IInv, StateTypeOK
<1>5. \A b \in Apps, n \in Nodes : entry'[b][n] = "closed" => entry[b][n] = "closed" \/ n \in Gone \/ b \in Gone
  <2> SUFFICES ASSUME NEW b \in Apps, NEW n \in Nodes, entry'[b][n] = "closed",
                      b # a \/ n # m.about
               PROVE  entry[b][n] = "closed"
    BY <1>2
  <2> HIDE DEF Gone
  <2>1. PICK v : entry' = [entry EXCEPT ![a][m.about] = v]
    BY <1>3
  <2>2. entry'[b][n] = entry[b][n]
    BY <1>4, <2>1
  <2> QED
    BY <2>2
<1>6. Stable /\ Gone' = Gone
  BY <1>1, UnchangedStable
<1>7. CASE waits[a] = m.about
  <2>1. waits[a] # Nobody
    BY <1>2, <1>7, TreeFacts
  <2>2. waits' = [waits EXCEPT ![a] = Nobody] /\ result' = [result EXCEPT ![a] = "closed"]
    BY <1>3, <1>7, <2>1 DEF Returns
  <2>3. waits[a] \in Gone' \/ a \in Gone'
    BY <1>2, <1>6, <1>7
  <2>4. Service!Next
    BY <1>1, <1>6, <2>1, <2>2, <2>3, Fails
  <2>5. \A n \in Nodes : waits'[n] \in {waits[n], Nobody}
    BY <1>4, <2>2
  <2>6. CallersKnow'
    BY <1>5, <1>6, <2>5, KnowingStays
  <2> QED
    BY <2>4, <2>6 DEF Kept
<1>8. CASE waits[a] # m.about
  BY <1>1, <1>3, <1>5, <1>8, NoCall
<1> QED
  BY <1>7, <1>8

LEMMA AppHandlesRequestKept == ASSUME IInv, CallersKnow, IInv', NEW a \in Apps, AppHandlesRequest(a) PROVE Kept
<1> DEFINE m == First(UserOf[a], a)
<1>1. AppReads(a, "request") /\ UNCHANGED <<life, table, waits, result>>
  BY DEF AppHandlesRequest
<1>2. m.src \in Nodes
  BY <1>1, AppReadsFacts
<1>3. entry' = [entry EXCEPT ![a][m.src] = IF entry[a][m.src] = "none" THEN "open" ELSE entry[a][m.src]]
  BY DEF AppHandlesRequest
<1> HIDE DEF m
<1>4. entry \in [Apps -> [Nodes -> {"none", "open", "closed"}]]
  BY DEF IInv, StateTypeOK
<1>5. \A b \in Apps, n \in Nodes : entry'[b][n] = "closed" => entry[b][n] = "closed"
  <2> SUFFICES ASSUME NEW b \in Apps, NEW n \in Nodes, entry'[b][n] = "closed"
               PROVE  entry[b][n] = "closed"
    OBVIOUS
  <2> DEFINE v == IF entry[a][m.src] = "none" THEN "open" ELSE entry[a][m.src]
  <2>1. entry' = [entry EXCEPT ![a][m.src] = v] /\ (v = "closed" => entry[a][m.src] = "closed")
    BY <1>3
  <2> HIDE DEF v
  <2>2. CASE b = a /\ n = m.src
    <3>1. entry'[b][n] = v
      BY <1>2, <1>4, <2>1, <2>2
    <3> QED
      BY <2>1, <2>2, <3>1
  <2>3. CASE ~(b = a /\ n = m.src)
    BY <1>2, <1>4, <2>1, <2>3
  <2> QED
    BY <2>2, <2>3
<1> QED
  BY <1>1, <1>5, NoCall

LEMMA AppLosesSessionKept == ASSUME IInv, CallersKnow, IInv', NEW a \in Apps, AppLosesSession(a) PROVE Kept
<1>1. /\ life[a] # "unborn" /\ Down(a) /\ UNCHANGED table /\ UNCHANGED entry /\ Returns(a, "closed")
      /\ a \in Nodes /\ a # Root
  BY TreeFacts DEF AppLosesSession, AppReads
<1>2. Stable /\ life'[a] = "down"
  BY <1>1, DownStable
<1>3. a \in Gone'
  BY <1>1, <1>2 DEF Gone
<1>4. waits \in [Nodes -> Nodes \cup {Nobody}]
  BY DEF IInv, StateTypeOK
<1>5. CallersKnow'
  BY <1>1, <1>2, <1>4, KnowingStays DEF Returns
<1>6. CASE waits[a] = Nobody
  <2>1. UNCHANGED <<waits, result>>
    BY <1>1, <1>6, SameResult
  <2>2. Service!Next
    BY <1>2, <2>1, Leaves
  <2> QED
    BY <1>5, <2>2 DEF Kept
<1>7. CASE waits[a] # Nobody
  <2>1. waits' = [waits EXCEPT ![a] = Nobody] /\ result' = [result EXCEPT ![a] = "closed"]
    BY <1>1, <1>7 DEF Returns
  <2>2. Service!Next
    BY <1>1, <1>2, <1>3, <1>7, <2>1, Fails
  <2> QED
    BY <1>5, <2>2 DEF Kept
<1> QED
  BY <1>6, <1>7

LEMMA CallKept == ASSUME IInv, CallersKnow, IInv', NEW n \in Nodes, NEW c \in Nodes, Call(n, c) PROVE Kept
<1>1. /\ life[c] # "unborn" /\ UNCHANGED <<life, table>>
      /\ IF n \in Apps THEN AppCalls(n, c) ELSE HandlerCalls(n, c)
  BY DEF Call
<1>2. Stable /\ Gone' = Gone
  BY <1>1, UnchangedStable
<1>3. /\ entry \in [Apps -> [Nodes -> {"none", "open", "closed"}]]
      /\ waits \in [Nodes -> Nodes \cup {Nobody}] /\ waits[n] = Nobody
  BY <1>1 DEF IInv, StateTypeOK, AppCalls, HandlerCalls
<1>4. ASSUME waits' = [waits EXCEPT ![n] = c], result' = [result EXCEPT ![n] = "none"],
             UNCHANGED entry \/ (n \in Apps /\ entry' = [entry EXCEPT ![n][c] = "open"])
      PROVE  Kept
  <2>1. Service!Invoke(n, c)
    BY <1>2, <1>3, <1>4 DEF Service!Invoke
  <2>2. \A k \in Nodes : waits'[k] # Nobody => life'[waits'[k]] # "unborn"
    BY <1>1, <1>3, <1>4 DEF CallersKnow
  <2>3. \A a \in Apps, k \in Nodes : entry'[a][k] = "closed" => entry[a][k] = "closed"
    BY <1>3, <1>4
  <2>4. CallersKnow'
    BY <1>2, <2>2, <2>3 DEF CallersKnow
  <2> QED
    BY <2>1, <2>4 DEF Kept, Service!Next
<1>5. ASSUME n \in Apps, entry[n][c] = "closed", entry' = [entry EXCEPT ![n][c] = "none"],
             result' = [result EXCEPT ![n] = "closed"], UNCHANGED waits
      PROVE  Kept
  <2>1. Gone # {}
    BY <1>5 DEF CallersKnow
  <2> HIDE DEF Gone
  <2>2. Service!Refuse(n)
    BY <1>2, <1>3, <1>5, <2>1 DEF Service!Refuse
  <2>3. \A a \in Apps, k \in Nodes : entry'[a][k] = "closed" => entry[a][k] = "closed"
    BY <1>3, <1>5
  <2>4. CallersKnow'
    BY <1>1, <1>2, <1>5, <2>3 DEF CallersKnow
  <2> QED
    BY <2>2, <2>4 DEF Kept, Service!Next
<1> QED
  BY <1>1, <1>4, <1>5 DEF AppCalls, HandlerCalls

LEMMA NextKept == ASSUME IInv, CallersKnow, IInv', [Next]_vars PROVE Kept
<1>1. ASSUME NEW n \in Nodes, Step(n) PROVE Kept
  <2>1. CASE n \in Handlers /\ HandlerStep(n)
    BY <2>1, HandlerStepKept
  <2>2. CASE n \in Apps /\ AppHandlesResponse(n)
    BY <2>2, Answers DEF AppHandlesResponse
  <2>3. CASE n \in Apps /\ (AppHandlesClose(n) \/ AppHandlesRequest(n) \/ AppLosesSession(n))
    BY <2>3, AppHandlesCloseKept, AppHandlesRequestKept, AppLosesSessionKept
  <2>4. CASE \E c \in serving[n] : Respond(n, c)
    BY <2>4, NoCall DEF Respond
  <2> QED
    BY <1>1, <2>1, <2>2, <2>3, <2>4 DEF Step, AppStep
<1>2. CASE \E n \in Nodes : Die(n)
  BY <1>2, DieKept
<1>3. CASE \E a \in Apps : Connect(a)
  BY <1>3, ConnectKept
<1>4. CASE \E h \in Handlers, x \in Nodes : WriteFails(h, x)
  BY <1>4, WriteFailsKept
<1>5. CASE \E n, c \in Nodes : Call(n, c)
  BY <1>5, CallKept
<1>6. CASE UNCHANGED vars
  BY <1>6, NoCall DEF vars
<1> QED
  BY <1>1, <1>2, <1>3, <1>4, <1>5, <1>6 DEF Next

LEMMA CallsStart == Init => Service!Init /\ CallersKnow
<1> SUFFICES ASSUME Init PROVE Service!Init /\ CallersKnow
  OBVIOUS
<1>1. Gone = {}
  <2> SUFFICES ASSUME NEW n \in Nodes \ {Root}, life[n] # "unborn"
               PROVE  life[n] = "up" /\ Attached(n)
    BY DEF Gone
  <2>1. life[n] = "up" /\ n \notin Late
    BY DEF Init
  <2>2. table[Root] = Users /\ \A u \in Users : table[u] = {Root} \cup {a \in Apps \ Late : UserOf[a] = u}
    BY TreeFacts DEF Init
  <2>3. Attached(n)
    BY <2>1, <2>2, TreeFacts DEF Attached, Nodes, Handlers
  <2> QED
    BY <2>1, <2>3
<1>2. CallersKnow
  BY DEF Init, CallersKnow
<1> QED
  BY <1>1, <1>2 DEF Init, Service!Init

\* Every step of the processes is one that CallService allows, or none of its: a
\* call ends with its answer, or closed if the callee, or the caller, has gone
\* (UserSession.cpp 600-665, MessageConnection.cpp 769-817). That calls end is
\* checked, not proved.
THEOREM CallsBehave == Spec => Service!Init /\ [][Service!Next]_<<waits, result, Gone>>
<1>1. Init => Service!Init /\ CallersKnow
  BY CallsStart
<1>2. IInv /\ IInv' /\ CallersKnow /\ [Next]_vars => Kept
  BY NextKept
<1>3. Kept => [Service!Next]_<<waits, result, Gone>> /\ CallersKnow'
  BY DEF Kept
<1>4. Spec => []IInv
  BY InductiveInvariant
<1> HIDE DEF Gone
<1> QED
  BY <1>1, <1>2, <1>3, <1>4, PTL DEF Spec

-----------------------------------------------------------------------------
\* The connections of a handler.

\* Not accepted, or refused: what the table has never had.
Outside(c) == conn[c].at \in {"new", "refused"}

\* What is in the table is there once, under the id it was given.
Placed == \A i \in Conns!Entries : ~Outside(ids[i]) /\ conn[ids[i]].channel_id = i

\* A connection knows its id once it has been told, and reads when it is up.
IsNamed(c) ==
    /\ ~Outside(c) => conn[c].channel_id \in Conns!Ids
    /\ conn[c].at \in {"named", "greeted", "up"} => conn[c].id = conn[c].channel_id
    /\ conn[c].id \in {0, conn[c].channel_id}
    /\ Outside(c) => conn[c].id = 0
    /\ conn[c].reads => conn[c].at = "up"

Named == \A c \in Streams : IsNamed(c)

\* What c has to say is heard, or its closing is under way.
Heard(c) == \/ conn[c].at # "up" \/ conn[c].reads \/ c \in deaf
            \/ \E e \in pend : e.id = conn[c].channel_id

\* What the shutdown has taken out is not put back.
Taken == \A c \in popped : ~Outside(c) /\ ~Conns!In(c)

\* All that a step has to keep.
ConnsInv == Conns!TypeOK /\ Placed /\ Named /\ Taken /\ Conns!Attended

-----------------------------------------------------------------------------
\* From any id all the others come within one round.
LEMMA Around ==
    ASSUME NEW n \in Nat, NEW m \in Nat, NEW i \in 1..m, n \in 0..m
    PROVE  \E k \in 1..m + 1 : (n + k) % (m + 1) = i
<1>1. CASE i > n
  <2>1. n + (i - n) = i
    OBVIOUS
  <2>2. i % (m + 1) = i
    OBVIOUS
  <2> QED
    BY <1>1, <2>1, <2>2
<1>2. CASE i <= n
  <2>1. n + (i - n + m + 1) = i + (m + 1)
    OBVIOUS
  <2>2. (i + (m + 1)) % (m + 1) = i
    OBVIOUS
  <2>3. i - n + m + 1 \in 1..m + 1
    BY <1>2
  <2> QED
    BY <2>1, <2>2, <2>3
<1> QED
  BY <1>1, <1>2

\* What a set of numbers has, it has a least of.
LEMMA Least ==
    ASSUME NEW S \in SUBSET Nat, S # {}
    PROVE  \E k \in S : \A j \in S : k <= j
<1>1. /\ IsWellFoundedOn(OpToRel(<, Nat), Nat)
      /\ OpToRel(<, Nat) = {ss \in Nat \X Nat : ss[1] < ss[2]}
  BY NatLessThanWellFounded DEF OpToRel
<1>2. PICK R : IsWellFoundedOn(R, Nat) /\ R = {ss \in Nat \X Nat : ss[1] < ss[2]}
  BY <1>1, Zenon
<1>3. PICK k \in S : \A j \in S : <<j, k>> \notin R
  BY <1>2, WFMin
<1>4. ASSUME NEW j \in S PROVE k <= j
  <2>1. k \in Nat /\ j \in Nat /\ ~(j < k)
    BY <1>2, <1>3
  <2> QED
    BY <2>1
<1> QED
  BY <1>4

\* Two instances of one library count alike.
LEMMA SameCardinality == \A S : Conns!Cardinality(S) = Cardinality(S)
  BY DEF Conns!Cardinality, Cardinality

\* register_channel keeps ids back: while it lets one in, an id is free.
LEMMA FreeId ==
    ASSUME Conns!TypeOK, Conns!Cardinality(Conns!Entries) < Mask - 1
    PROVE  \E i \in Conns!Ids : ids[i] = Nobody
<1>1. Conns!Ids = 1..Mask /\ Cardinality(1..Mask) = Mask
  BY HandlerAssumption, FS_Interval DEF Conns!Ids
<1>2. Conns!Entries # Conns!Ids
  BY <1>1, HandlerAssumption, SameCardinality
<1> QED
  BY <1>2 DEF Conns!Entries

\* The sum of an id and at most a round is an id, or one and a round.
LEMMA Turning ==
    ASSUME NEW m \in Nat, NEW n \in 0..m, NEW k \in 1..m + 1
    PROVE  (n + k) % (m + 1) = IF n + k <= m THEN n + k ELSE n + k - (m + 1)
<1>1. CASE n + k <= m
  BY <1>1
<1>2. CASE ~(n + k <= m)
  <2> PICK r \in 0..m : r = n + k - (m + 1)
    BY <1>2
  <2>1. (r + (m + 1)) % (m + 1) = r
    OBVIOUS
  <2>2. r + (m + 1) = n + k
    OBVIOUS
  <2> QED
    BY <1>2, <2>1, <2>2
<1> QED
  BY <1>1, <1>2

\* The id it then finds is free, and is found within one round.
LEMMA NewIdFits ==
    ASSUME Conns!TypeOK, NEW n \in 0..Mask, NEW i \in Conns!Ids, ids[i] = Nobody
    PROVE  /\ Conns!NewId(n) \in Conns!Ids /\ ids[Conns!NewId(n)] = Nobody
           /\ Conns!Turns(n) \in 1..Mask + 1
           /\ Conns!NewId(n) = (n + Conns!Turns(n)) % (Mask + 1)
<1> DEFINE nth(k) == (n + k) % (Mask + 1)
           fits(k) == nth(k) # 0 /\ ids[nth(k)] = Nobody
           first(k) == k \in 1..Mask + 1 /\ fits(k) /\ \A j \in 1..k - 1 : ~fits(j)
<1>1. n \in Nat /\ Mask \in Nat /\ Conns!Ids = 1..Mask
  BY HandlerAssumption DEF Conns!Ids
<1>2. PICK k \in 1..Mask + 1 : nth(k) = i
  BY <1>1, Around
<1>3. fits(k)
  BY <1>1, <1>2
<1>4. \E j : first(j)
  <2> DEFINE S == {j \in 1..Mask + 1 : fits(j)}
  <2>1. S \in SUBSET Nat /\ S # {}
    <3>1. S \subseteq 1..Mask + 1
      OBVIOUS
    <3>2. k \in S
      BY <1>3
    <3>3. 1..Mask + 1 \subseteq Nat
      BY <1>1
    <3> HIDE DEF S
    <3> QED
      BY <3>1, <3>2, <3>3
  <2>2. PICK j \in S : \A l \in S : j <= l
    BY <2>1, Least
  <2>3. first(j)
    <3>1. j \in 1..Mask + 1 /\ fits(j)
      BY <2>2
    <3>2. ASSUME NEW l \in 1..j - 1 PROVE ~fits(l)
      <4>1. l \in 1..Mask + 1 /\ l < j /\ j \in Nat /\ l \in Nat
        BY <1>1, <3>1
      <4>2. l \notin S
        BY <2>2, <4>1
      <4> QED
        BY <4>1, <4>2
    <3> QED
      BY <3>1, <3>2
  <2> QED
    BY <2>3
<1>5. PICK j : j = CHOOSE l \in 1..Mask + 1 : fits(l) /\ \A m \in 1..l - 1 : ~fits(m)
  OBVIOUS
<1>6. first(j)
  BY <1>4, <1>5
<1>7. Conns!Turns(n) = j /\ Conns!NewId(n) = nth(j)
  BY <1>5 DEF Conns!NewId, Conns!Turns, Conns!Fits, Conns!Nth
<1>8. nth(j) \in 1..Mask
  BY <1>1, <1>6
<1> QED
  BY <1>1, <1>6, <1>7, <1>8

\* Every id that was given is by k older.
Ages(k) == [c \in Streams |-> IF conn[c].channel_id = 0 THEN age[c] ELSE Conns!Older(age[c], k)]

\* The counter goes on to a free id, by as much as the ids given have grown older.
LEMMA Counted ==
    ASSUME Conns!TypeOK, Conns!Cardinality(Conns!Entries) < Mask - 1, NEW n \in Conns!LastGiven
    PROVE  /\ Conns!NewId(n) \in Conns!Ids /\ ids[Conns!NewId(n)] = Nobody
           /\ \E k \in Nat \ {0} :
                 /\ next + k = Conns!NewId(n) \/ next + k = Conns!NewId(n) + (Mask + 1)
                 /\ Conns!Aged(n) = Ages(k)
           /\ Conns!Aged(n) \in [Streams -> 0..Mask + 1]
<1>1. next \in 0..Mask /\ Mask \in Nat /\ Conns!Ids = 1..Mask /\ age \in [Streams -> 0..Mask + 1]
  BY HandlerAssumption DEF Conns!TypeOK, Conns!Ids
<1>2. n \in 0..Mask /\ n >= next
  BY <1>1 DEF Conns!LastGiven
<1>3. PICK i \in Conns!Ids : ids[i] = Nobody
  BY FreeId
<1>4. PICK t, new : t = Conns!Turns(n) /\ new = Conns!NewId(n)
  OBVIOUS
<1>5. new \in Conns!Ids /\ ids[new] = Nobody /\ t \in 1..Mask + 1 /\ new = (n + t) % (Mask + 1)
  BY <1>2, <1>3, <1>4, NewIdFits
<1>6. new = IF n + t <= Mask THEN n + t ELSE n + t - (Mask + 1)
  BY <1>1, <1>2, <1>5, Turning
<1>7. PICK k : k = n - next + t
  OBVIOUS
<1>8. k \in Nat \ {0} /\ next + k = n + t
  BY <1>1, <1>2, <1>5, <1>7
<1>9. next + k = new \/ next + k = new + (Mask + 1)
  BY <1>1, <1>2, <1>5, <1>6, <1>8
<1>10. Conns!Aged(n) = Ages(k)
  BY <1>4, <1>7 DEF Conns!Aged, Ages
<1>11. Ages(k) \in [Streams -> 0..Mask + 1]
  <2>1. \A c \in Streams : Conns!Older(age[c], k) \in 0..Mask + 1
    BY <1>1, <1>8 DEF Conns!Older
  <2> QED
    BY <1>1, <2>1 DEF Ages
<1> QED
  BY <1>4, <1>5, <1>8, <1>9, <1>10, <1>11

-----------------------------------------------------------------------------
\* The steps, as what they do to the table and to one connection.

\* What is known of a connection, and what a closing on its way is.
Records == [at : {"new", "refused", "inserted", "named", "greeted", "up"},
            channel_id : 0..Mask, id : 0..Mask, reads : BOOLEAN, sends : 0..MaxSends]

Closable == [c : Streams, id : Conns!Ids, by : {"read", "write"}]

\* The functions f and g have the same connections, but for what is on its way out on c.
Alike(f, g) ==
    \A c \in Streams : /\ f[c].at = g[c].at /\ f[c].channel_id = g[c].channel_id
                       /\ f[c].id = g[c].id /\ f[c].reads = g[c].reads

\* The connection c goes on; the others rest but for what is on its way out.
Goes(c, at, id, reads) ==
    /\ conn' \in [Streams -> Records]
    /\ \A d \in Streams :
           /\ conn'[d].at = IF d = c THEN at ELSE conn[d].at
           /\ conn'[d].channel_id = conn[d].channel_id
           /\ conn'[d].id = IF d = c THEN id ELSE conn[d].id
           /\ conn'[d].reads = IF d = c THEN reads ELSE conn[d].reads

\* Only what is on its way out is changed by a write.
LEMMA Written ==
    ASSUME NEW f \in [Streams -> Records], NEW c \in Streams, NEW g \in Conns!Writes(f, c)
    PROVE  g \in [Streams -> Records] /\ Alike(g, f)
<1>1. f[c] \in Records /\ f[c].sends \in 0..MaxSends
  BY DEF Records
<1>2. f[c].sends < MaxSends /\ g = [f EXCEPT ![c].sends = @ + 1]
  BY DEF Conns!Writes
<1>3. [f[c] EXCEPT !.sends = @ + 1] \in Records
  BY <1>1, <1>2, HandlerAssumption DEF Records
<1>4. g \in [Streams -> Records]
  BY <1>2, <1>3
<1>5. ASSUME NEW d \in Streams
      PROVE  /\ g[d].at = f[d].at /\ g[d].channel_id = f[d].channel_id
             /\ g[d].id = f[d].id /\ g[d].reads = f[d].reads
  BY <1>1, <1>2 DEF Records
<1> QED
  BY <1>4, <1>5 DEF Alike

\* A write to c is a step of c that leaves all but what is on its way out.
LEMMA Unwritten ==
    ASSUME ConnsInv, NEW c \in Streams, conn' \in Conns!Writes(conn, c) \cup {conn}
    PROVE  Goes(c, conn[c].at, conn[c].id, conn[c].reads)
<1>1. conn \in [Streams -> Records]
  BY DEF ConnsInv, Conns!TypeOK, Records
<1> QED
  BY <1>1, Written DEF Goes, Alike

\* So is one that gives c another record, with a write to it or without.
LEMMA Passes ==
    ASSUME ConnsInv, NEW c \in Streams, NEW r \in Records, r.channel_id = conn[c].channel_id,
           NEW f, f = [conn EXCEPT ![c] = r],
           conn' = f \/ conn' \in Conns!Writes(f, c)
    PROVE  Goes(c, r.at, r.id, r.reads)
<1>1. conn \in [Streams -> Records]
  BY DEF ConnsInv, Conns!TypeOK, Records
<1>5. f \in [Streams -> Records]
  BY <1>1
<1>6. \A d \in Streams : f[d] = IF d = c THEN r ELSE conn[d]
  BY <1>1
<1>7. conn' \in [Streams -> Records] /\ Alike(conn', f)
  <2>1. CASE conn' = f
    BY <1>5, <2>1 DEF Alike
  <2>2. CASE conn' \in Conns!Writes(f, c)
    <3>1. PICK g \in Conns!Writes(f, c) : g = conn'
      BY <2>2
    <3>2. g \in [Streams -> Records] /\ Alike(g, f)
      BY <1>5, Written
    <3> QED
      BY <3>1, <3>2 DEF Alike
  <2> QED
    BY <2>1, <2>2
<1> QED
  BY <1>6, <1>7 DEF Goes, Alike

\* Nobody comes, and nobody is given another id.
Stays == \A d \in Streams : /\ Outside(d)' <=> Outside(d)
                            /\ conn'[d].channel_id = conn[d].channel_id

\* Who begins to close closes what it was given.
OwnClosings ==
    \A e \in pend' \ pend : e.c \in Streams /\ ~Outside(e.c) /\ e.id = conn[e.c].channel_id

\* What stays as it is while the table does, and nobody comes.
LEMMA Rests ==
    ASSUME ConnsInv, Conns!TypeOK', UNCHANGED <<ids, told, popped>>, Stays
    PROVE  Placed' /\ Taken' /\ Conns!ToldOnce'
<1>1. \A d : Conns!In(d)' <=> Conns!In(d)
  BY DEF Conns!In
<1>2. Conns!Entries' = Conns!Entries /\ \A i \in Conns!Entries : ids[i] \in Streams
  BY DEF Conns!Entries, ConnsInv, Conns!TypeOK
<1>3. Placed'
  BY <1>2 DEF ConnsInv, Placed, Stays
<1>4. Taken'
  BY <1>1 DEF ConnsInv, Taken, Stays, Conns!TypeOK
<1>5. Conns!ToldOnce'
  BY <1>1 DEF ConnsInv, Conns!Attended, Conns!ToldOnce, Outside, Stays
<1> QED
  BY <1>3, <1>4, <1>5

\* One goes on: what is left to be shown is what is read, or about to be closed.
LEMMA GoingOn ==
    ASSUME ConnsInv, NEW c \in Streams, NEW at, NEW id, NEW reads, Goes(c, at, id, reads),
           Conns!TypeOK', UNCHANGED <<ids, told, popped>>,
           deaf \subseteq deaf', pend \subseteq pend',
           Outside(c)' <=> Outside(c), IsNamed(c)', Heard(c) => Heard(c)'
    PROVE  ConnsInv' /\ Stays
<1>1. /\ \A d \in Streams : conn'[d].channel_id = conn[d].channel_id
      /\ \A d \in Streams \ {c} : conn'[d].at = conn[d].at /\ conn'[d].id = conn[d].id
                                  /\ conn'[d].reads = conn[d].reads
  BY DEF Goes
<1>2. \A d \in Streams : Outside(d)' <=> Outside(d)
  BY <1>1 DEF Outside
<1>3. Stays /\ Placed' /\ Taken' /\ Conns!ToldOnce'
  BY <1>1, <1>2, Rests DEF Stays
<1>4. Named'
  BY <1>1, <1>2 DEF ConnsInv, Named, IsNamed
<1>5. \A d \in Streams : Heard(d) => Heard(d)'
  BY <1>1 DEF Heard
<1>6. Conns!ReadOrClosing'
  <2> SUFFICES ASSUME NEW i \in Conns!Entries', NEW d, d = ids'[i]
               PROVE  \/ conn'[d].at # "up" \/ conn'[d].reads \/ d \in deaf'
                      \/ \E e \in pend' : e.id = i
    BY DEF Conns!ReadOrClosing
  <2>1. i \in Conns!Entries /\ d = ids[i] /\ d \in Streams /\ conn[d].channel_id = i
    BY DEF Conns!Entries, ConnsInv, Conns!TypeOK, Placed
  <2>2. Heard(d)
    BY <2>1 DEF ConnsInv, Conns!Attended, Conns!ReadOrClosing, Heard
  <2>3. Heard(d)' /\ conn'[d].channel_id = i
    BY <1>1, <1>5, <2>1, <2>2
  <2> QED
    BY <2>3 DEF Heard
<1> QED
  BY <1>3, <1>4, <1>6 DEF ConnsInv, Conns!Attended

\* What is about to be closed is the id a connection has, if it has any.
LEMMA Closings ==
    ASSUME ConnsInv, NEW c \in Streams, NEW by \in {"read", "write"}
    PROVE  /\ Conns!on_closed(c, by) \subseteq Closable
           /\ pend \subseteq Conns!on_closed(c, by)
           /\ conn[c].id # 0 => \E e \in Conns!on_closed(c, by) : e.id = conn[c].id
           /\ \A e \in Conns!on_closed(c, by) \ pend : e.c = c /\ e.id = conn[c].id /\ e.id # 0
<1>1. conn[c].id \in 0..Mask /\ Conns!Ids = 1..Mask
  BY HandlerAssumption DEF ConnsInv, Conns!TypeOK, Conns!Ids
<1>2. conn[c].id # 0 => [c |-> c, id |-> conn[c].id, by |-> by] \in Closable
  BY <1>1, HandlerAssumption DEF Closable
<1>3. pend \subseteq Closable
  BY DEF ConnsInv, Conns!TypeOK, Closable
<1>4. CASE conn[c].id = 0
  BY <1>3, <1>4 DEF Conns!on_closed
<1>5. CASE conn[c].id # 0
  <2> PICK n : n = [c |-> c, id |-> conn[c].id, by |-> by]
    OBVIOUS
  <2>1. Conns!on_closed(c, by) = pend \cup {n} /\ n.c = c /\ n.id = conn[c].id
    BY <1>5 DEF Conns!on_closed
  <2> QED
    BY <1>2, <1>3, <1>5, <2>1
<1> QED
  BY <1>4, <1>5

\* Each connection has a record.
LEMMA Recorded ==
    ASSUME ConnsInv, NEW c \in Streams
    PROVE  conn[c] \in Records /\ conn \in [Streams -> Records]
  BY DEF ConnsInv, Conns!TypeOK, Records

\* The connection learns its id.
LEMMA Naming ==
    ASSUME ConnsInv, NEW c \in Streams, Conns!set_channel_id(c)
    PROVE  ConnsInv' /\ Stays /\ OwnClosings
<1>1. conn[c].at = "inserted" /\ conn[c].channel_id \in Conns!Ids /\ conn[c].channel_id \in 0..Mask
      /\ conn[c].reads = FALSE
  BY Recorded DEF Conns!set_channel_id, ConnsInv, Records, Named, IsNamed, Outside
<1>2. UNCHANGED <<ids, next, peers, pend, closing, told, popped, deaf, age>>
  BY DEF Conns!set_channel_id
<1>3. Goes(c, "named", conn[c].channel_id, FALSE)
  <2> PICK r : r = [conn[c] EXCEPT !.at = "named", !.id = conn[c].channel_id]
    OBVIOUS
  <2>1. r \in Records /\ r.at = "named" /\ r.id = conn[c].channel_id /\ r.reads = FALSE
        /\ r.channel_id = conn[c].channel_id
    BY <1>1, Recorded DEF Records
  <2>2. conn' = [conn EXCEPT ![c] = r]
    BY Recorded DEF Conns!set_channel_id
  <2> QED
    BY <2>1, <2>2, Passes
<1>4. Conns!TypeOK'
  BY <1>2, <1>3 DEF Goes, Records, Conns!TypeOK, ConnsInv
<1>5. (Outside(c)' <=> Outside(c)) /\ IsNamed(c)' /\ Heard(c)'
  BY <1>1, <1>3 DEF Goes, Outside, IsNamed, Heard
<1> QED
  BY <1>2, <1>3, <1>4, <1>5, GoingOn DEF OwnClosings

\* It is greeted, or its closing is under way.
LEMMA Greeting ==
    ASSUME ConnsInv, NEW c \in Streams, Conns!Greet(c)
    PROVE  ConnsInv' /\ Stays /\ OwnClosings
<1>1. conn[c].at = "named" /\ conn[c].channel_id \in Conns!Ids /\ conn[c].reads = FALSE
      /\ conn[c].id = conn[c].channel_id
  BY Recorded DEF Conns!Greet, ConnsInv, Records, Named, IsNamed, Outside
<1>2. UNCHANGED <<ids, next, peers, closing, told, popped, deaf, age>>
  BY DEF Conns!Greet
<1>3. ASSUME NEW at \in {"greeted", "up"}, NEW f, f = [conn EXCEPT ![c].at = at],
             conn' = f \/ conn' \in Conns!Writes(f, c)
      PROVE  Goes(c, at, conn[c].id, FALSE)
  <2> PICK r : r = [conn[c] EXCEPT !.at = at]
    OBVIOUS
  <2>1. r \in Records /\ r.at = at /\ r.id = conn[c].id /\ r.reads = FALSE
        /\ r.channel_id = conn[c].channel_id
    BY <1>1, Recorded DEF Records
  <2>2. f = [conn EXCEPT ![c] = r]
    BY <1>3, Recorded
  <2> QED
    BY <1>3, <2>1, <2>2, Passes
<1>4. CASE conn' \in Conns!Writes([conn EXCEPT ![c].at = "greeted"], c) /\ UNCHANGED pend
  <2>1. Goes(c, "greeted", conn[c].id, FALSE)
    BY <1>3, <1>4
  <2>2. Conns!TypeOK'
    BY <1>2, <1>4, <2>1 DEF Goes, Records, Conns!TypeOK, ConnsInv
  <2>3. (Outside(c)' <=> Outside(c)) /\ IsNamed(c)' /\ Heard(c)'
    BY <1>1, <2>1 DEF Goes, Outside, IsNamed, Heard
  <2> QED
    BY <1>2, <1>4, <2>1, <2>2, <2>3, GoingOn DEF OwnClosings
<1>5. CASE /\ conn' = [conn EXCEPT ![c].at = "up"]
           /\ pend' = pend \cup {[c |-> c, id |-> conn[c].channel_id, by |-> "read"]}
  <2>1. Goes(c, "up", conn[c].id, FALSE)
    BY <1>3, <1>5
  <2>2. PICK e \in Closable :
            e.c = c /\ e.id = conn[c].channel_id /\ pend' = pend \cup {e}
    BY <1>1, <1>5 DEF Closable
  <2>3. Conns!TypeOK'
    BY <1>2, <2>1, <2>2 DEF Goes, Records, Conns!TypeOK, ConnsInv, Closable
  <2>4. (Outside(c)' <=> Outside(c)) /\ IsNamed(c)' /\ Heard(c)'
    BY <1>1, <2>1, <2>2 DEF Goes, Outside, IsNamed, Heard
  <2>5. OwnClosings
    BY <1>1, <2>2 DEF OwnClosings, Outside
  <2> QED
    BY <1>2, <2>1, <2>2, <2>3, <2>4, <2>5, GoingOn
<1> QED
  BY <1>4, <1>5 DEF Conns!Greet

\* It reads, or is one of those that are known not to.
LEMMA Listening ==
    ASSUME ConnsInv, NEW c \in Streams, Conns!Listen(c)
    PROVE  ConnsInv' /\ Stays /\ OwnClosings
<1>1. conn[c].at = "greeted" /\ conn[c].channel_id \in Conns!Ids
      /\ conn[c].id = conn[c].channel_id
  BY DEF Conns!Listen, ConnsInv, Named, IsNamed, Outside
<1>2. /\ UNCHANGED <<ids, next, peers, pend, closing, told, popped, age>>
      /\ deaf \subseteq deaf' /\ deaf' \subseteq Streams
  BY DEF Conns!Listen, ConnsInv, Conns!TypeOK
<1>3. PICK reads \in BOOLEAN : Goes(c, "up", conn[c].id, reads) /\ (reads \/ c \in deaf')
  <2>1. CASE conn' = [conn EXCEPT ![c].at = "up", ![c].reads = TRUE]
    <3> PICK r : r = [conn[c] EXCEPT !.at = "up", !.reads = TRUE]
      OBVIOUS
    <3>1. r \in Records /\ r.at = "up" /\ r.id = conn[c].id /\ r.reads = TRUE
          /\ r.channel_id = conn[c].channel_id
      BY Recorded DEF Records
    <3>2. conn' = [conn EXCEPT ![c] = r]
      BY <2>1, Recorded
    <3>3. Goes(c, "up", conn[c].id, TRUE)
      BY <3>1, <3>2, Passes
    <3> QED
      BY <3>3
  <2>2. ASSUME NEW f, f = [conn EXCEPT ![c].at = "up"], conn' \in Conns!Writes(f, c) \cup {f}
        PROVE  Goes(c, "up", conn[c].id, conn[c].reads)
    <3> PICK r : r = [conn[c] EXCEPT !.at = "up"]
      OBVIOUS
    <3>1. r \in Records /\ r.at = "up" /\ r.id = conn[c].id /\ r.reads = conn[c].reads
          /\ r.channel_id = conn[c].channel_id
      BY Recorded DEF Records
    <3>2. f = [conn EXCEPT ![c] = r] /\ (conn' = f \/ conn' \in Conns!Writes(f, c))
      BY <2>2, Recorded
    <3>3. Goes(c, r.at, r.id, r.reads)
      BY <3>1, <3>2, Passes
    <3> QED
      BY <3>1, <3>3
  <2>3. conn[c].reads \in BOOLEAN
    BY Recorded DEF Records
  <2>4. CASE /\ \/ conn' \in Conns!Writes([conn EXCEPT ![c].at = "up"], c)
                \/ conn' = [conn EXCEPT ![c].at = "up"]
             /\ deaf' = deaf \cup {c}
    BY <2>2, <2>3, <2>4
  <2> QED
    BY <2>1, <2>4 DEF Conns!Listen
<1>4. Conns!TypeOK'
  BY <1>2, <1>3 DEF Goes, Records, Conns!TypeOK, ConnsInv
<1>5. (Outside(c)' <=> Outside(c)) /\ IsNamed(c)' /\ Heard(c)'
  BY <1>1, <1>3 DEF Goes, Outside, IsNamed, Heard
<1> QED
  BY <1>2, <1>3, <1>4, <1>5, GoingOn DEF OwnClosings

\* The reading of c ends, and it closes what it has.
LEMMA Ending ==
    ASSUME ConnsInv, NEW c \in Streams, conn[c].reads, conn' = [conn EXCEPT ![c].reads = FALSE],
           pend' = Conns!on_closed(c, "read"),
           UNCHANGED <<ids, next, peers, closing, told, popped, deaf, age>>
    PROVE  ConnsInv' /\ Stays /\ OwnClosings
<1>1. conn[c].at = "up" /\ conn[c].id = conn[c].channel_id /\ conn[c].channel_id \in Conns!Ids
  BY DEF ConnsInv, Named, IsNamed, Outside
<1>2. Goes(c, "up", conn[c].id, FALSE)
  <2> PICK r : r = [conn[c] EXCEPT !.reads = FALSE]
    OBVIOUS
  <2>1. r \in Records /\ r.at = "up" /\ r.id = conn[c].id /\ r.reads = FALSE
        /\ r.channel_id = conn[c].channel_id
    BY <1>1, Recorded DEF Records
  <2>2. conn' = [conn EXCEPT ![c] = r]
    BY Recorded
  <2> QED
    BY <2>1, <2>2, Passes
<1>3. conn[c].id # 0
  BY <1>1, HandlerAssumption DEF Conns!Ids
<1>4. pend \subseteq pend' /\ (\E e \in pend' : e.id = conn[c].channel_id)
      /\ pend' \subseteq Closable
  BY <1>1, <1>3, Closings
<1>5. Conns!TypeOK'
  BY <1>2, <1>4 DEF Goes, Records, Conns!TypeOK, ConnsInv, Closable
<1>6. (Outside(c)' <=> Outside(c)) /\ IsNamed(c)' /\ Heard(c)'
  BY <1>1, <1>2, <1>4 DEF Goes, Outside, IsNamed, Heard
<1>7. OwnClosings
  BY <1>1, Closings DEF OwnClosings, Outside
<1> QED
  BY <1>2, <1>4, <1>5, <1>6, <1>7, GoingOn

\* What is on its way out on c changes, and no more than what is about to be closed.
LEMMA Writing ==
    ASSUME ConnsInv, NEW c \in Streams, Goes(c, conn[c].at, conn[c].id, conn[c].reads),
           UNCHANGED <<ids, next, closing, told, popped, deaf, age>>, peers' \subseteq Streams,
           pend \subseteq pend', pend' \subseteq Closable
    PROVE  ConnsInv' /\ Stays
<1>1. Conns!TypeOK'
  BY DEF Goes, Records, Conns!TypeOK, ConnsInv, Closable
<1>2. (Outside(c)' <=> Outside(c)) /\ IsNamed(c)' /\ (Heard(c) => Heard(c)')
  BY DEF Goes, Outside, IsNamed, Heard, ConnsInv, Named
<1> QED
  BY <1>1, <1>2, GoingOn

\* A connection comes, under an id that was free, or is refused.
LEMMA Coming ==
    ASSUME ConnsInv, NEW c \in Streams, Conns!register_channel(c)
    PROVE  ConnsInv'
<1>1. Outside(c) /\ conn[c].at = "new" /\ conn[c].reads = FALSE /\ conn[c].id = 0
      /\ UNCHANGED <<peers, pend, closing, told, popped, deaf>>
  BY Recorded DEF Conns!register_channel, Outside, ConnsInv, Named, IsNamed, Records
<1>2. ASSUME conn' = [conn EXCEPT ![c].at = "refused"], UNCHANGED ids,
             next' \in 0..Mask, age' \in [Streams -> 0..Mask + 1]
      PROVE  ConnsInv'
  <2> PICK r : r = [conn[c] EXCEPT !.at = "refused"]
    OBVIOUS
  <2>1. r \in Records /\ r.at = "refused" /\ r.id = conn[c].id /\ r.reads = FALSE
        /\ r.channel_id = conn[c].channel_id
    BY <1>1, Recorded DEF Records
  <2>2. conn' = [conn EXCEPT ![c] = r]
    BY <1>2, Recorded
  <2>3. Goes(c, "refused", conn[c].id, FALSE)
    BY <2>1, <2>2, Passes
  <2>4. Conns!TypeOK'
    BY <1>1, <1>2, <2>3 DEF Goes, Records, Conns!TypeOK, ConnsInv
  <2>5. (Outside(c)' <=> Outside(c)) /\ IsNamed(c)' /\ Heard(c)'
    BY <1>1, <2>3 DEF Goes, Outside, IsNamed, Heard
  <2> QED
    BY <1>1, <1>2, <2>3, <2>4, <2>5, GoingOn
<1>3. ASSUME NEW i \in Conns!Ids, ids[i] = Nobody, ids' = [ids EXCEPT ![i] = c], next' = i,
             conn' = [conn EXCEPT ![c].at = "inserted", ![c].channel_id = i],
             age' \in [Streams -> 0..Mask + 1]
      PROVE  ConnsInv'
  <2>1. Conns!Ids = 1..Mask /\ ids \in [Conns!Ids -> Streams \cup {Nobody}]
        /\ \A j \in Conns!Ids : ids'[j] = IF j = i THEN c ELSE ids[j]
    BY <1>3 DEF ConnsInv, Conns!TypeOK, Conns!Ids
  <2> PICK r : r = [conn[c] EXCEPT !.at = "inserted", !.channel_id = i]
    OBVIOUS
  <2>2. r \in Records /\ r.at = "inserted" /\ r.id = 0 /\ r.reads = FALSE /\ r.channel_id = i
    <3>1. i \in 0..Mask
      BY <2>1, HandlerAssumption
    <3> QED
      BY <1>1, <3>1, Recorded DEF Records
  <2>3. conn' = [conn EXCEPT ![c] = r]
    BY <1>3, Recorded
  <2>4. /\ conn' \in [Streams -> Records]
        /\ \A d \in Streams : conn'[d] = IF d = c THEN r ELSE conn[d]
    BY <2>2, <2>3, Recorded
  <2>5. Conns!TypeOK'
    <3>1. ids' \in [Conns!Ids -> Streams \cup {Nobody}] /\ next' \in 0..Mask
      BY <1>3, <2>1, HandlerAssumption
    <3> QED
      BY <1>1, <1>3, <2>4, <3>1 DEF Conns!TypeOK, ConnsInv, Records
  <2>6. \A j \in Conns!Entries : ids[j] # c /\ ids[j] \in Streams
    BY <1>1, <2>1 DEF ConnsInv, Placed, Conns!Entries
  <2>7. Conns!Entries' = Conns!Entries \cup {i}
    BY <2>1, HandlerAssumption DEF Conns!Entries
  <2>8. Placed'
    BY <1>3, <2>1, <2>2, <2>4, <2>6, <2>7 DEF ConnsInv, Placed, Outside, Conns!Entries
  <2>9. Named'
    BY <2>2, <2>4, <1>3 DEF ConnsInv, Named, IsNamed, Outside
  <2>10. ASSUME NEW d \in Streams PROVE Conns!In(d)' <=> d = c \/ Conns!In(d)
    BY <1>3, <2>1, HandlerAssumption DEF Conns!In
  <2>11. Taken'
    BY <1>1, <2>4, <2>10, <2>2 DEF ConnsInv, Taken, Outside, Conns!TypeOK
  <2>12. Conns!ReadOrClosing'
    <3> SUFFICES ASSUME NEW j \in Conns!Entries', NEW d, d = ids'[j]
                 PROVE  \/ conn'[d].at # "up" \/ conn'[d].reads \/ d \in deaf'
                        \/ \E e \in pend' : e.id = j
      BY DEF Conns!ReadOrClosing
    <3>1. CASE j = i
      BY <2>1, <2>2, <2>4, <3>1
    <3>2. CASE j # i
      <4>1. j \in Conns!Entries /\ d = ids[j] /\ d # c /\ d \in Streams
        BY <2>1, <2>6, <2>7, <3>2 DEF Conns!Entries
      <4>2. conn'[d] = conn[d] /\ pend' = pend /\ deaf' = deaf
        BY <1>1, <2>4, <4>1
      <4> QED
        BY <4>1, <4>2 DEF ConnsInv, Conns!Attended, Conns!ReadOrClosing
    <3> QED
      BY <3>1, <3>2
  <2>13. Conns!ToldOnce'
    BY <1>1, <2>2, <2>4, <2>10 DEF ConnsInv, Conns!Attended, Conns!ToldOnce
  <2> QED
    BY <2>5, <2>8, <2>9, <2>11, <2>12, <2>13 DEF ConnsInv, Conns!Attended
<1>4. CASE Conns!Cardinality(Conns!Entries) < Mask - 1
  <2>1. PICK n \in Conns!LastGiven :
            /\ next' = Conns!NewId(n)
            /\ \/ /\ ids' = [ids EXCEPT ![Conns!NewId(n)] = c]
                  /\ conn' = [conn EXCEPT ![c].at = "inserted", ![c].channel_id = Conns!NewId(n)]
                  /\ age' = [Conns!Aged(n) EXCEPT ![c] = 0]
               \/ conn' = [conn EXCEPT ![c].at = "refused"] /\ age' = Conns!Aged(n) /\ UNCHANGED ids
    BY <1>4 DEF Conns!register_channel
  <2>2. /\ Conns!NewId(n) \in Conns!Ids /\ ids[Conns!NewId(n)] = Nobody
        /\ Conns!Aged(n) \in [Streams -> 0..Mask + 1]
    BY <1>4, Counted DEF ConnsInv
  <2>3. next' \in 0..Mask /\ age' \in [Streams -> 0..Mask + 1]
    <3>1. 0 \in 0..Mask + 1 /\ Conns!Ids \subseteq 0..Mask
      BY HandlerAssumption DEF Conns!Ids
    <3> QED
      BY <2>1, <2>2, <3>1
  <2> QED
    BY <1>2, <1>3, <2>1, <2>2, <2>3
<1>5. CASE ~(Conns!Cardinality(Conns!Entries) < Mask - 1)
  <2>1. conn' = [conn EXCEPT ![c].at = "refused"] /\ UNCHANGED <<ids, next, age>>
    BY <1>5 DEF Conns!register_channel
  <2> QED
    BY <1>2, <2>1 DEF ConnsInv, Conns!TypeOK
<1> QED
  BY <1>4, <1>5

\* Messages come and go: nothing is lost of what is to be closed.
LEMMA Sending ==
    ASSUME ConnsInv, NEW c \in Streams,
           \/ Conns!on_sent(c) \/ Conns!ReadEnds(c) \/ Conns!PeerGoes(c)
           \/ \E i \in Conns!Ids : Conns!Route(c, i)
    PROVE  ConnsInv' /\ Stays /\ OwnClosings
<1>1. pend \subseteq Closable /\ peers \subseteq Streams
  BY DEF ConnsInv, Conns!TypeOK, Closable
<1>2. CASE Conns!on_sent(c)
  <2> PICK r : r = [conn[c] EXCEPT !.sends = @ - 1]
    OBVIOUS
  <2>1. conn[c].sends \in 1..MaxSends
    BY <1>2, Recorded, HandlerAssumption DEF Conns!on_sent, Records
  <2>2. r \in Records /\ r.at = conn[c].at /\ r.id = conn[c].id /\ r.reads = conn[c].reads
        /\ r.channel_id = conn[c].channel_id
    BY <2>1, Recorded, HandlerAssumption DEF Records
  <2>3. conn' = [conn EXCEPT ![c] = r]
    BY <1>2, Recorded DEF Conns!on_sent
  <2>4. Goes(c, conn[c].at, conn[c].id, conn[c].reads)
    BY <2>2, <2>3, Passes
  <2>5. /\ UNCHANGED <<ids, next, peers, closing, told, popped, deaf, age>>
        /\ pend' = pend \/ pend' = Conns!on_closed(c, "write")
    BY <1>2 DEF Conns!on_sent
  <2>6. OwnClosings
    <3>1. conn[c].id # 0 => ~Outside(c) /\ conn[c].id = conn[c].channel_id
      BY DEF ConnsInv, Named, IsNamed
    <3> QED
      BY <2>5, <3>1, Closings DEF OwnClosings
  <2> QED
    BY <1>1, <2>4, <2>5, <2>6, Closings, Writing
<1>3. CASE Conns!ReadEnds(c)
  BY <1>3, Ending DEF Conns!ReadEnds
<1>4. CASE Conns!PeerGoes(c)
  <2>1. conn' \in Conns!Writes(conn, c) \cup {conn} /\ peers' \subseteq Streams
        /\ UNCHANGED <<ids, next, pend, closing, told, popped, deaf, age>>
    BY <1>1, <1>4 DEF Conns!PeerGoes
  <2>2. Goes(c, conn[c].at, conn[c].id, conn[c].reads)
    BY <2>1, Unwritten
  <2> QED
    BY <1>1, <2>1, <2>2, Writing DEF OwnClosings
<1>5. ASSUME NEW i \in Conns!Ids, Conns!Route(c, i) PROVE ConnsInv' /\ Stays /\ OwnClosings
  <2>1. ids[i] \in Streams /\ conn[c].reads
        /\ UNCHANGED <<ids, next, peers, closing, told, popped, deaf, age>>
    BY <1>5 DEF Conns!Route, ConnsInv, Conns!TypeOK
  <2>2. CASE conn' \in Conns!Writes(conn, ids[i]) /\ UNCHANGED pend
    <3>1. Goes(ids[i], conn[ids[i]].at, conn[ids[i]].id, conn[ids[i]].reads)
      BY <2>1, <2>2, Unwritten
    <3> QED
      BY <1>1, <2>1, <2>2, <3>1, Writing DEF OwnClosings
  <2>3. CASE conn' = [conn EXCEPT ![c].reads = FALSE] /\ pend' = Conns!on_closed(c, "read")
    BY <2>1, <2>3, Ending
  <2> QED
    BY <1>5, <2>2, <2>3 DEF Conns!Route
<1> QED
  BY <1>2, <1>3, <1>4, <1>5

\* A connection has left the table, where it was once and had not been reported.
Left(c) ==
    /\ c \in Streams /\ Conns!In(c) /\ ~Outside(c) /\ c \notin popped /\ told[c] = 0
    /\ ~Conns!In(c)' /\ \A d \in Streams \ {c} : Conns!In(d)' <=> Conns!In(d)

\* An entry that goes was the only one of its connection.
LEMMA EntryLeaves ==
    ASSUME ConnsInv, NEW i \in Conns!Ids, ids' = [ids EXCEPT ![i] = Nobody],
           NEW c, c = ids[i], c # Nobody
    PROVE  Left(c)
<1>1. ids \in [Conns!Ids -> Streams \cup {Nobody}]
      /\ \A j \in Conns!Ids : ids'[j] = IF j = i THEN Nobody ELSE ids[j]
  BY DEF ConnsInv, Conns!TypeOK
<1>2. c \in Streams /\ Conns!In(c) /\ i \in Conns!Entries
  BY <1>1 DEF Conns!In, Conns!Entries
<1>3. ~Outside(c) /\ conn[c].channel_id = i
  BY <1>2 DEF ConnsInv, Placed
<1>4. c \notin popped /\ told[c] = 0
  BY <1>2 DEF ConnsInv, Taken, Conns!Attended, Conns!ToldOnce
<1>5. ~Conns!In(c)'
  <2> SUFFICES ASSUME NEW j \in Conns!Ids, ids'[j] = c PROVE FALSE
    BY DEF Conns!In
  <2>1. j # i /\ ids[j] = c /\ j \in Conns!Entries
    BY <1>1 DEF Conns!Entries
  <2> QED
    BY <1>3, <2>1 DEF ConnsInv, Placed
<1>6. ASSUME NEW d \in Streams \ {c} PROVE Conns!In(d)' <=> Conns!In(d)
  BY <1>1, HandlerAssumption DEF Conns!In
<1> QED
  BY <1>2, <1>3, <1>4, <1>5, <1>6 DEF Left

\* What stays when the entry i is no longer there.
LEMMA Leaving ==
    ASSUME ConnsInv, Conns!TypeOK', NEW i \in Conns!Ids, ids' = [ids EXCEPT ![i] = Nobody],
           \A d \in Streams : /\ conn'[d].at = conn[d].at /\ conn'[d].id = conn[d].id
                              /\ conn'[d].channel_id = conn[d].channel_id
                              /\ conn'[d].reads = conn[d].reads,
           UNCHANGED deaf, \A e \in pend : e.id # i => e \in pend'
    PROVE  Placed' /\ Named' /\ Conns!ReadOrClosing'
<1>1. ids \in [Conns!Ids -> Streams \cup {Nobody}]
      /\ \A j \in Conns!Ids : ids'[j] = IF j = i THEN Nobody ELSE ids[j]
  BY DEF ConnsInv, Conns!TypeOK
<1>2. \A j \in Conns!Entries' : /\ j \in Conns!Entries /\ j # i
                               /\ ids'[j] = ids[j] /\ ids[j] \in Streams
  BY <1>1 DEF Conns!Entries
<1>3. Placed'
  BY <1>2 DEF ConnsInv, Placed, Outside
<1>4. Named'
  BY DEF ConnsInv, Named, IsNamed, Outside
<1>5. Conns!ReadOrClosing'
  <2> SUFFICES ASSUME NEW j \in Conns!Entries', NEW d, d = ids'[j]
               PROVE  \/ conn'[d].at # "up" \/ conn'[d].reads \/ d \in deaf'
                      \/ \E e \in pend' : e.id = j
    BY DEF Conns!ReadOrClosing
  <2>1. j \in Conns!Entries /\ j # i /\ d = ids[j] /\ d \in Streams
    BY <1>2
  <2>2. conn[d].at # "up" \/ conn[d].reads \/ d \in deaf \/ \E e \in pend : e.id = j
    BY <2>1 DEF ConnsInv, Conns!Attended, Conns!ReadOrClosing
  <2> QED
    BY <2>1, <2>2
<1> QED
  BY <1>3, <1>4, <1>5

\* A closing is carried out: it takes the entry, or finds it taken.
LEMMA Closing ==
    ASSUME ConnsInv, NEW e \in pend, Conns!channel_closed(e)
    PROVE  ConnsInv'
<1> PICK i : i = e.id
  OBVIOUS
<1>1. /\ i \in Conns!Ids /\ ids' = [ids EXCEPT ![i] = Nobody] /\ pend' = pend \ {e}
      /\ UNCHANGED <<next, conn, peers, closing, popped, deaf, age>>
      /\ \A c \in Streams : told'[c] = IF c \in Conns!reported(e) THEN told[c] + 1 ELSE told[c]
  BY DEF Conns!channel_closed, ConnsInv, Conns!TypeOK
<1>2. CASE ids[i] = Nobody
  <2>1. Conns!reported(e) = {} /\ ids' = ids
    BY <1>1, <1>2 DEF Conns!reported, ConnsInv, Conns!TypeOK
  <2>2. told' = told
    BY <2>1 DEF Conns!channel_closed, ConnsInv, Conns!TypeOK
  <2>3. Conns!TypeOK'
    BY <1>1, <2>1, <2>2 DEF ConnsInv, Conns!TypeOK
  <2>4. Placed' /\ Taken' /\ Conns!ToldOnce'
    BY <1>1, <2>1, <2>2, <2>3, Rests DEF Stays, Outside
  <2>5. Named' /\ Conns!ReadOrClosing'
    BY <1>1, <2>3, Leaving
  <2> QED
    BY <2>3, <2>4, <2>5 DEF ConnsInv, Conns!Attended
<1>3. ASSUME NEW c, c = ids[i], c # Nobody PROVE ConnsInv'
  <2>1. Left(c)
    BY <1>1, <1>3, EntryLeaves
  <2>2. \A d \in Streams : told'[d] = IF d = c THEN 1 ELSE told[d]
    BY <1>1, <1>3, <2>1 DEF Conns!reported, Left
  <2>3. Conns!TypeOK'
    <3>1. told \in [Streams -> 0..2] /\ told' = [d \in Streams |-> told'[d]]
      BY DEF Conns!channel_closed, ConnsInv, Conns!TypeOK
    <3>2. told' \in [Streams -> 0..2]
      BY <2>2, <3>1
    <3> QED
      BY <1>1, <3>2 DEF ConnsInv, Conns!TypeOK
  <2>4. Placed' /\ Named' /\ Conns!ReadOrClosing'
    BY <1>1, <2>3, Leaving
  <2>5. Taken'
    BY <1>1, <2>1 DEF Left, ConnsInv, Taken, Outside, Conns!TypeOK
  <2>6. Conns!ToldOnce'
    BY <1>1, <2>1, <2>2 DEF Left, ConnsInv, Conns!Attended, Conns!ToldOnce, Outside
  <2> QED
    BY <2>3, <2>4, <2>5, <2>6 DEF ConnsInv, Conns!Attended
<1> QED
  BY <1>2, <1>3

\* The shutdown takes an entry and asks its peer to close.
LEMMA Popping ==
    ASSUME ConnsInv, NEW i \in Conns!Ids, Conns!Pop(i)
    PROVE  ConnsInv' /\ Stays
<1> PICK c : c = ids[i]
  OBVIOUS
<1>0. c # Nobody /\ ids' = [ids EXCEPT ![i] = Nobody]
  BY DEF Conns!Pop
<1>1. /\ popped' = popped \cup {c} /\ conn' \in Conns!Writes(conn, c) \cup {conn}
      /\ UNCHANGED <<next, peers, pend, closing, told, deaf, age>>
  BY DEF Conns!Pop
<1>2. Left(c)
  BY <1>0, EntryLeaves
<1>3. Goes(c, conn[c].at, conn[c].id, conn[c].reads)
  BY <1>1, <1>2, Unwritten DEF Left
<1>4. \A d \in Streams : /\ conn'[d].at = conn[d].at /\ conn'[d].id = conn[d].id
                         /\ conn'[d].channel_id = conn[d].channel_id
                         /\ conn'[d].reads = conn[d].reads
  BY <1>3 DEF Goes
<1>5. Conns!TypeOK'
  BY <1>0, <1>1, <1>2, <1>3 DEF Left, ConnsInv, Conns!TypeOK, Goes, Records
<1>6. Placed' /\ Named' /\ Conns!ReadOrClosing'
  BY <1>0, <1>1, <1>4, <1>5, Leaving
<1>7. Stays
  BY <1>4 DEF Stays, Outside
<1>8. Taken'
  BY <1>1, <1>2, <1>7 DEF Left, ConnsInv, Taken, Stays, Conns!TypeOK
<1>9. Conns!ToldOnce'
  BY <1>1, <1>2, <1>4 DEF Left, ConnsInv, Conns!Attended, Conns!ToldOnce, Outside
<1> QED
  BY <1>5, <1>6, <1>7, <1>8, <1>9 DEF ConnsInv, Conns!Attended

\* The shutdown begins, and it is over.
LEMMA Stopping ==
    ASSUME ConnsInv, Conns!shutdown_channels \/ Conns!PoppedAll
    PROVE  ConnsInv' /\ Stays
<1>1. UNCHANGED <<ids, next, conn, peers, pend, told, popped, deaf, age>>
      /\ closing' \in {"no", "popping", "over"}
  BY DEF Conns!shutdown_channels, Conns!PoppedAll
<1> QED
  BY <1>1 DEF ConnsInv, Conns!TypeOK, Placed, Named, IsNamed, Taken, Outside, Stays,
              Conns!Entries, Conns!In, Conns!Attended, Conns!ToldOnce, Conns!ReadOrClosing

LEMMA ConnsStart == Conns!Init => ConnsInv
<1> SUFFICES ASSUME Conns!Init PROVE ConnsInv
  OBVIOUS
<1>1. Conns!TypeOK
  BY HandlerAssumption DEF Conns!Init, Conns!TypeOK
<1>2. Conns!Entries = {} /\ \A c \in Streams : Outside(c)
  BY DEF Conns!Init, Conns!Entries, Outside
<1> QED
  BY <1>1, <1>2 DEF Conns!Init, ConnsInv, Placed, Named, IsNamed, Taken, Outside,
                    Conns!Attended, Conns!ReadOrClosing, Conns!ToldOnce

LEMMA ConnsStep == ConnsInv /\ [Conns!Next]_connVars => ConnsInv'
<1> SUFFICES ASSUME ConnsInv, [Conns!Next]_connVars PROVE ConnsInv'
  OBVIOUS
<1>1. ASSUME NEW c \in Streams, Conns!Accepting(c) PROVE ConnsInv'
  BY <1>1, Coming, Naming, Greeting, Listening DEF Conns!Accepting
<1>2. ASSUME NEW c \in Streams, Conns!ReadEnds(c) \/ Conns!on_sent(c) \/ Conns!PeerGoes(c)
      PROVE  ConnsInv'
  BY <1>2, Sending
<1>3. ASSUME NEW c \in Streams, NEW i \in Conns!Ids, Conns!Route(c, i) PROVE ConnsInv'
  BY <1>3, Sending
<1>4. CASE UNCHANGED connVars
  BY <1>4 DEF connVars, ConnsInv, Conns!TypeOK, Placed, Named, IsNamed, Taken, Outside,
              Conns!Entries, Conns!In, Conns!Attended, Conns!ToldOnce, Conns!ReadOrClosing
<1> QED
  BY <1>1, <1>2, <1>3, <1>4, Closing, Popping, Stopping DEF Conns!Next

-----------------------------------------------------------------------------
\* The routing and the threads leave the connections alone.
LEMMA ConnsAlways == HandlerSpec => []ConnsInv
<1>1. HandlerInit => ConnsInv
  BY ConnsStart DEF HandlerInit
<1>2. [HandlerNext]_<<part, vars, connVars, poolVars>> => [Conns!Next]_connVars
  BY DEF HandlerNext
<1> QED
  BY <1>1, <1>2, ConnsStep, PTL DEF HandlerSpec

\* For any connections and ids: every connection in the handler's table is read from,
\* is known not to be, or is about to be closed, and each one's end is reported once,
\* by its closing or not at all if the shutdown took it out (register_channel, on_accept,
\* MessageConnection::on_recv, on_sent and on_closed, channel_closed, shutdown_channels).
THEOREM ConnectionsAreAttended == HandlerSpec => []Attended
<1>1. ConnsInv => Attended
  BY DEF ConnsInv, Attended
<1> QED
  BY <1>1, ConnsAlways, PTL

-----------------------------------------------------------------------------
\* Whose an id is: until a round has gone by, his to whom it was given last.

\* A closing on its way names the id that its connection was given.
Owned == \A e \in pend : ~Outside(e.c) /\ e.id = conn[e.c].channel_id

\* The connections that were given an id.
Came == {c \in Streams : ~Outside(c)}

\* The counter has gone on from the id that c was given by what its age says.
KeepsStep(c) ==
    age[c] <= Mask => \/ next = conn[c].channel_id + age[c]
                      \/ next + (Mask + 1) = conn[c].channel_id + age[c]

InStep == \A c \in Came : KeepsStep(c)

\* Who was given an id that another has in the table has been given it a round ago.
Former ==
    \A i \in Conns!Entries : \A c \in Came : conn[c].channel_id = i /\ c # ids[i] => age[c] > Mask

Whose == Owned /\ InStep /\ Former

\* What is in the table was there before.
NoneEnter == \A i \in Conns!Entries' : i \in Conns!Entries /\ ids'[i] = ids[i]

\* While nobody comes, whose each id is stays.
LEMMA WhoseRests ==
    ASSUME ConnsInv, ConnsInv', Whose, Stays, OwnClosings, NoneEnter,
           UNCHANGED <<next, age>>
    PROVE  Whose'
<1>1. Came' = Came /\ \A c \in Came : c \in Streams /\ conn'[c].channel_id = conn[c].channel_id
  BY DEF Came, Stays
<1>2. InStep'
  BY <1>1 DEF Whose, InStep, KeepsStep
<1>3. \A e \in pend' : e.c \in Streams
  BY DEF ConnsInv, Conns!TypeOK
<1>4. Owned'
  BY <1>3 DEF Whose, Owned, Stays, OwnClosings
<1>5. Former'
  BY <1>1 DEF Whose, Former, NoneEnter
<1> QED
  BY <1>2, <1>4, <1>5 DEF Whose

LEMMA NoneEntered == UNCHANGED ids => NoneEnter
  BY DEF NoneEnter, Conns!Entries

LEMMA OneLeft ==
    ASSUME ConnsInv, NEW i \in Conns!Ids, ids' = [ids EXCEPT ![i] = Nobody]
    PROVE  NoneEnter
<1>1. \A j \in Conns!Ids : ids'[j] = IF j = i THEN Nobody ELSE ids[j]
  BY DEF ConnsInv, Conns!TypeOK
<1> QED
  BY <1>1 DEF NoneEnter, Conns!Entries

\* A counter that goes round keeps its distance from an id.
Distant(m, n, i, a) == n = i + a \/ n + (m + 1) = i + a

LEMMA GoesRound ==
    \A m \in Nat : \A n \in 0..m : \A new \in 1..m : \A i \in 1..m : \A a \in Nat : \A k \in Nat :
        /\ a + k <= m
        /\ Distant(m, n, i, a)
        /\ n + k = new \/ n + k = new + (m + 1)
        => Distant(m, new, i, a + k)
  BY DEF Distant

\* All grow older by as much as the counter goes on.
LEMMA GrowOlder ==
    ASSUME ConnsInv, Whose, NEW k \in Nat \ {0}, next' \in Conns!Ids,
           next + k = next' \/ next + k = next' + (Mask + 1),
           NEW c \in Came, age'[c] = Ages(k)[c], conn'[c].channel_id = conn[c].channel_id
    PROVE  KeepsStep(c)' /\ age'[c] > 0 /\ (age[c] > Mask => age'[c] > Mask)
<1>1. /\ c \in Streams /\ conn[c].channel_id \in 1..Mask /\ age[c] \in 0..Mask + 1
      /\ next \in 0..Mask /\ next' \in 1..Mask /\ Mask \in Nat
  BY HandlerAssumption DEF Came, ConnsInv, Conns!TypeOK, Named, IsNamed, Conns!Ids
<1>2. PICK a \in 0..Mask + 1, i \in 1..Mask : a = age[c] /\ i = conn[c].channel_id
  BY <1>1
<1>3. age'[c] = IF a + k > Mask THEN Mask + 1 ELSE a + k
  BY <1>1, <1>2 DEF Ages, Conns!Older
<1>4. a <= Mask => next = i + a \/ next + (Mask + 1) = i + a
  BY <1>2 DEF Whose, InStep, KeepsStep
<1>5. a + k <= Mask => next' = i + (a + k) \/ next' + (Mask + 1) = i + (a + k)
  <2> SUFFICES ASSUME a + k <= Mask
               PROVE  next' = i + (a + k) \/ next' + (Mask + 1) = i + (a + k)
    OBVIOUS
  <2>1. Mask \in Nat /\ next \in 0..Mask /\ next' \in 1..Mask /\ a \in Nat /\ k \in Nat /\ a <= Mask
    BY <1>1
  <2> PICK m \in Nat : m = Mask
    BY <2>1
  <2> PICK n \in 0..m : n = next
    BY <2>1
  <2> PICK new \in 1..m : new = next'
    BY <2>1
  <2> PICK j \in 1..m : j = i
    BY <2>1
  <2>2. Distant(m, n, j, a)
    BY <1>4, <2>1 DEF Distant
  <2>3. n + k = new \/ n + k = new + (m + 1)
    OBVIOUS
  <2>4. a \in Nat /\ k \in Nat /\ a + k <= m
    BY <2>1
  <2>5. Distant(m, new, j, a + k)
    BY <2>2, <2>3, <2>4, GoesRound, Zenon
  <2> QED
    BY <2>5 DEF Distant
<1>6. age'[c] > 0 /\ (a > Mask => age'[c] > Mask) /\ (age'[c] <= Mask => age'[c] = a + k /\ a + k <= Mask)
  BY <1>1, <1>3
<1> QED
  BY <1>2, <1>5, <1>6 DEF KeepsStep

\* Who comes is given an id that nobody else was within a round.
LEMMA NextComes ==
    ASSUME ConnsInv, ConnsInv', Whose, NEW c \in Streams, Conns!register_channel(c)
    PROVE  Whose'
<1>1. /\ Outside(c) /\ c \notin Came /\ UNCHANGED pend /\ Came \subseteq Streams
      /\ conn \in [Streams -> Records] /\ next \in 0..Mask /\ Mask \in Nat
      /\ age \in [Streams -> 0..Mask + 1]
  BY Recorded, HandlerAssumption
     DEF Conns!register_channel, Outside, Came, ConnsInv, Conns!TypeOK
<1>2. CASE ~(Conns!Cardinality(Conns!Entries) < Mask - 1)
  <2>1. conn' = [conn EXCEPT ![c].at = "refused"] /\ UNCHANGED <<ids, next, age>>
    BY <1>2 DEF Conns!register_channel
  <2>2. Stays
    BY <1>1, <2>1 DEF Stays, Outside
  <2> QED
    BY <1>1, <2>1, <2>2, NoneEntered, WhoseRests DEF OwnClosings
<1>3. CASE Conns!Cardinality(Conns!Entries) < Mask - 1
  <2>1. PICK n \in Conns!LastGiven :
            /\ next' = Conns!NewId(n)
            /\ \/ /\ ids' = [ids EXCEPT ![Conns!NewId(n)] = c]
                  /\ conn' = [conn EXCEPT ![c].at = "inserted", ![c].channel_id = Conns!NewId(n)]
                  /\ age' = [Conns!Aged(n) EXCEPT ![c] = 0]
               \/ conn' = [conn EXCEPT ![c].at = "refused"] /\ age' = Conns!Aged(n) /\ UNCHANGED ids
    BY <1>3 DEF Conns!register_channel
  <2>2. /\ next' \in Conns!Ids /\ ids[next'] = Nobody
        /\ Conns!Aged(n) \in [Streams -> 0..Mask + 1]
    BY <1>3, <2>1, Counted DEF ConnsInv
  <2>3. PICK k \in Nat \ {0} : /\ next + k = next' \/ next + k = next' + (Mask + 1)
                             /\ Conns!Aged(n) = Ages(k)
    BY <1>3, <2>1, Counted DEF ConnsInv
  <2>4. ASSUME NEW d \in Came, age'[d] = Ages(k)[d], conn'[d].channel_id = conn[d].channel_id
        PROVE  KeepsStep(d)' /\ age'[d] > 0 /\ (age[d] > Mask => age'[d] > Mask)
    BY <2>2, <2>3, <2>4, GrowOlder
  <2>5. CASE conn' = [conn EXCEPT ![c].at = "refused"] /\ age' = Conns!Aged(n) /\ UNCHANGED ids
    <3>1. Came' = Came /\ \A d \in Streams : conn'[d].channel_id = conn[d].channel_id
      BY <1>1, <2>5 DEF Came, Outside, Records
    <3>2. \A d \in Came : KeepsStep(d)' /\ (age[d] > Mask => age'[d] > Mask)
      BY <1>1, <2>3, <2>4, <2>5, <3>1
    <3>3. InStep'
      BY <3>1, <3>2 DEF InStep
    <3>4. Former'
      BY <1>1, <2>5, <3>1, <3>2 DEF Whose, Former, Conns!Entries
    <3>5. Owned'
      <4>1. \A e \in pend : e.c \in Came /\ e.id = conn[e.c].channel_id
        BY DEF Whose, Owned, Came, ConnsInv, Conns!TypeOK
      <4> QED
        BY <1>1, <3>1, <4>1 DEF Owned, Came
    <3> QED
      BY <3>3, <3>4, <3>5 DEF Whose
  <2>6. CASE /\ ids' = [ids EXCEPT ![next'] = c]
             /\ conn' = [conn EXCEPT ![c].at = "inserted", ![c].channel_id = next']
             /\ age' = [Conns!Aged(n) EXCEPT ![c] = 0]
    <3>1. \A d \in Streams :
              /\ conn'[d].at = IF d = c THEN "inserted" ELSE conn[d].at
              /\ conn'[d].channel_id = IF d = c THEN next' ELSE conn[d].channel_id
              /\ age'[d] = IF d = c THEN 0 ELSE Ages(k)[d]
      BY <1>1, <2>2, <2>3, <2>6 DEF Records
    <3>2. Came' = Came \cup {c}
      BY <1>1, <3>1 DEF Came, Outside
    <3>3. \A d \in Came : /\ d # c /\ conn'[d].channel_id = conn[d].channel_id
                          /\ KeepsStep(d)' /\ age'[d] > 0 /\ (age[d] > Mask => age'[d] > Mask)
      BY <1>1, <2>4, <3>1
    <3>4. InStep'
      <4>1. KeepsStep(c)'
        <5>1. age'[c] = 0 /\ conn'[c].channel_id = next' /\ next' \in Nat
          BY <1>1, <2>2, <3>1 DEF Conns!Ids
        <5>2. PICK i \in Nat : i = next'
          BY <5>1
        <5>3. i = i + 0
          OBVIOUS
        <5>4. next' = conn'[c].channel_id + age'[c]
          BY <5>1, <5>2, <5>3, Zenon
        <5> QED
          BY <5>4 DEF KeepsStep
      <4> QED
        BY <3>2, <3>3, <4>1 DEF InStep
    <3>5. Former'
      <4> SUFFICES ASSUME NEW i \in Conns!Entries', NEW d \in Came', conn'[d].channel_id = i, d # ids'[i]
                   PROVE  age'[d] > Mask
        BY DEF Former
      <4>1. i \in Conns!Ids /\ ids'[i] = IF i = next' THEN c ELSE ids[i]
        BY <2>2, <2>6 DEF Conns!Entries, ConnsInv, Conns!TypeOK
      <4>2. CASE i = next'
        <5>1. d \in Came /\ d # c
          BY <3>2, <4>1, <4>2
        <5>2. KeepsStep(d)' /\ age'[d] > 0 /\ conn'[d].channel_id = next' /\ age'[d] \in 0..Mask + 1
          BY <1>1, <3>3, <4>2, <5>1 DEF ConnsInv, Conns!TypeOK
        <5>3. next' \in 1..Mask
          BY <2>2 DEF Conns!Ids
        <5> QED
          BY <1>1, <5>2, <5>3 DEF KeepsStep
      <4>3. CASE i # next'
        <5>1. i \in Conns!Entries /\ ids'[i] = ids[i]
          BY <4>1, <4>3 DEF Conns!Entries
        <5>2. d # c
          BY <3>1, <4>3, <1>1, <2>2
        <5>3. d \in Came /\ conn[d].channel_id = i
          BY <3>2, <3>3, <5>2
        <5>4. age[d] > Mask
          BY <5>1, <5>3 DEF Whose, Former
        <5> QED
          BY <3>3, <5>3, <5>4
      <4> QED
        BY <4>2, <4>3
    <3>6. Owned'
      <4>1. \A e \in pend : e.c \in Came /\ e.id = conn[e.c].channel_id
        BY DEF Whose, Owned, Came, ConnsInv, Conns!TypeOK
      <4> QED
        BY <1>1, <3>2, <3>3, <4>1 DEF Owned, Came
    <3> QED
      BY <3>4, <3>5, <3>6 DEF Whose
  <2> QED
    BY <2>1, <2>5, <2>6
<1> QED
  BY <1>2, <1>3

LEMMA WhoseStep ==
    ASSUME ConnsInv, ConnsInv', Whose, [Conns!Next]_connVars
    PROVE  Whose'
<1>1. ASSUME NEW c \in Streams, Conns!Accepting(c) PROVE Whose'
  <2>1. CASE Conns!register_channel(c)
    BY <2>1, NextComes
  <2>2. CASE Conns!set_channel_id(c)
    BY <2>2, Naming, NoneEntered, WhoseRests DEF Conns!set_channel_id
  <2>3. CASE Conns!Greet(c)
    BY <2>3, Greeting, NoneEntered, WhoseRests DEF Conns!Greet
  <2>4. CASE Conns!Listen(c)
    BY <2>4, Listening, NoneEntered, WhoseRests DEF Conns!Listen
  <2> QED
    BY <1>1, <2>1, <2>2, <2>3, <2>4 DEF Conns!Accepting
<1>2. ASSUME NEW c \in Streams, Conns!ReadEnds(c) \/ Conns!on_sent(c) \/ Conns!PeerGoes(c)
      PROVE  Whose'
  <2>1. UNCHANGED <<ids, next, age>>
    BY <1>2 DEF Conns!ReadEnds, Conns!on_sent, Conns!PeerGoes
  <2> QED
    BY <1>2, <2>1, Sending, NoneEntered, WhoseRests
<1>3. ASSUME NEW c \in Streams, NEW i \in Conns!Ids, Conns!Route(c, i) PROVE Whose'
  <2>1. UNCHANGED <<ids, next, age>>
    BY <1>3 DEF Conns!Route
  <2> QED
    BY <1>3, <2>1, Sending, NoneEntered, WhoseRests
<1>4. ASSUME NEW e \in pend, Conns!channel_closed(e) PROVE Whose'
  <2>1. UNCHANGED <<conn, next, age>> /\ pend' \subseteq pend
        /\ ids' = [ids EXCEPT ![e.id] = Nobody] /\ e.id \in Conns!Ids
    BY <1>4 DEF Conns!channel_closed, ConnsInv, Conns!TypeOK
  <2> QED
    BY <2>1, OneLeft, WhoseRests DEF Stays, Outside, OwnClosings
<1>5. ASSUME NEW i \in Conns!Ids, Conns!Pop(i) PROVE Whose'
  <2>1. UNCHANGED <<next, pend, age>> /\ ids' = [ids EXCEPT ![i] = Nobody]
    BY <1>5 DEF Conns!Pop
  <2> QED
    BY <1>5, <2>1, Popping, OneLeft, WhoseRests DEF OwnClosings
<1>6. CASE Conns!shutdown_channels \/ Conns!PoppedAll \/ UNCHANGED connVars
  <2>1. UNCHANGED <<ids, conn, next, pend, age>>
    BY <1>6 DEF Conns!shutdown_channels, Conns!PoppedAll, connVars
  <2> QED
    BY <2>1, NoneEntered, WhoseRests DEF Stays, Outside, OwnClosings
<1> QED
  BY <1>1, <1>2, <1>3, <1>4, <1>5, <1>6 DEF Conns!Next

\* If the closing e is carried out on an entry, the entry is of its connection, or of
\* one that came a round later.
Closes(e) == pend' = pend \ {e} /\ ids' # ids => ids[e.id] = e.c \/ age[e.c] > Mask

LEMMA OwnIsClosed ==
    ASSUME ConnsInv, Whose, [Conns!Next]_connVars, NEW e \in pend
    PROVE  Closes(e)
<1> SUFFICES ASSUME pend' = pend \ {e}, ids' # ids PROVE ids[e.id] = e.c \/ age[e.c] > Mask
  BY DEF Closes
<1>1. PICK f \in pend : Conns!channel_closed(f)
  <2>1. pend' # pend /\ ~(pend \subseteq pend')
    OBVIOUS
  <2>2. \A c \in Streams, by \in {"read", "write"} : pend \subseteq Conns!on_closed(c, by)
    BY Closings
  <2> QED
    BY <2>1, <2>2 DEF Conns!Next, Conns!Accepting, Conns!register_channel,
       Conns!set_channel_id, Conns!Greet, Conns!Listen, Conns!ReadEnds, Conns!Route,
       Conns!on_sent, Conns!PeerGoes, Conns!shutdown_channels, Conns!Pop, Conns!PoppedAll, connVars
<1>2. f = e /\ ids' = [ids EXCEPT ![e.id] = Nobody]
  BY <1>1 DEF Conns!channel_closed
<1>3. e.id \in Conns!Entries /\ e.c \in Streams
  BY <1>2 DEF ConnsInv, Conns!TypeOK, Conns!Entries
<1>4. e.c \in Came /\ conn[e.c].channel_id = e.id
  BY <1>3 DEF Whose, Owned, Came
<1> QED
  BY <1>3, <1>4 DEF Whose, Former

\* A closing reads the connection's id under one lock and removes the entry of that id
\* under another (MessageConnection::on_closed, MessageHandler::channel_closed). However
\* the others come and go meanwhile, and however many ids there are, the entry it
\* removes is of its own connection, unless register_channel's counter has gone a whole
\* round since that was given its id.
THEOREM ClosingsTakeTheirOwn == HandlerSpec => Conns!ClosesItsOwn
<1>1. Conns!Init => Whose
  <2> SUFFICES ASSUME Conns!Init PROVE Whose
    OBVIOUS
  <2>1. Came = {} /\ pend = {} /\ Conns!Entries = {}
    BY DEF Conns!Init, Came, Outside, Conns!Entries
  <2> QED
    BY <2>1 DEF Whose, Owned, InStep, Former
<1>2. HandlerInit => Whose
  BY <1>1 DEF HandlerInit
<1>3. [HandlerNext]_<<part, vars, connVars, poolVars>> => [Conns!Next]_connVars
  BY DEF HandlerNext
<1>4. ConnsInv /\ ConnsInv' /\ Whose /\ [Conns!Next]_connVars => Whose'
  BY WhoseStep
<1>5. ConnsInv /\ Whose /\ [Conns!Next]_connVars
      => [\A e \in pend :
            pend' = pend \ {e} /\ ids' # ids => ids[e.id] = e.c \/ age[e.c] > Mask]_connVars
  BY OwnIsClosed DEF Closes
<1> QED
  BY <1>2, <1>3, <1>4, <1>5, ConnsAlways, PTL
     DEF HandlerSpec, Conns!ClosesItsOwn, Conns!vars, connVars

-----------------------------------------------------------------------------
\* The threads of the pool

\* A set that has 0, and of each number the next, has them all.
LEMMA Induction ==
    ASSUME NEW S, 0 \in S, \A n \in Nat : n \in S => n + 1 \in S
    PROVE  Nat \subseteq S
<1> SUFFICES ASSUME Nat \ S # {} PROVE FALSE
  OBVIOUS
<1> DEFINE R == OpToRel(<, Nat)
<1>1. \A m, n \in Nat : m < n => <<m, n>> \in R
  BY DEF OpToRel
<1>2. IsWellFoundedOn(R, Nat)
  BY NatLessThanWellFounded
<1> HIDE DEF R
<1>3. PICK n \in Nat \ S : \A m \in Nat \ S : ~(<<m, n>> \in R)
  BY <1>2, WFMin
<1>4. n # 0 /\ n - 1 \in Nat /\ (n - 1) + 1 = n /\ n - 1 < n
  OBVIOUS
<1>5. n - 1 \in S
  BY <1>1, <1>3, <1>4
<1> QED
  BY <1>4, <1>5

\* Threads are counted by what they do and whether their own queue is closed.
Kinds == [Pool!Doing \X BOOLEAN -> Nat]

\* How many threads do d, if that is among ds; and how many do one of ds.
Both(d) == threads[<<d, FALSE>>] + threads[<<d, TRUE>>]
Of(d, ds) == IF d \in ds THEN Both(d) ELSE 0
Total(ds) == Of("none", ds) + Of("started", ds) + Of("loops", ds) + Of("waits", ds) + Of("got", ds)
        + Of("timed_out", ds) + Of("ends", ds) + Of("serves", ds) + Of("calls", ds)

Is(d, ds) == IF d \in ds THEN 1 ELSE 0
Size(ds) == Is("none", ds) + Is("started", ds) + Is("loops", ds) + Is("waits", ds) + Is("got", ds)
        + Is("timed_out", ds) + Is("ends", ds) + Is("serves", ds) + Is("calls", ds)

\* To take one from a set of things to do takes its threads from the sum.
LEMMA Counts ==
    ASSUME threads \in Kinds
    PROVE  /\ \A d \in Pool!Doing : Both(d) \in Nat
           /\ Total({}) = 0 /\ Size({}) = 0
           /\ \A ds \in SUBSET Pool!Doing : Total(ds) \in Nat /\ Size(ds) \in Nat /\ Size(ds) <= 9
           /\ \A ds \in SUBSET Pool!Doing : \A d \in ds :
                  Total(ds) = Both(d) + Total(ds \ {d}) /\ Size(ds) = 1 + Size(ds \ {d})
<1>1. \A d \in Pool!Doing : Both(d) \in Nat
  <2> SUFFICES ASSUME NEW d \in Pool!Doing PROVE Both(d) \in Nat
    OBVIOUS
  <2>1. <<d, FALSE>> \in Pool!Doing \X BOOLEAN /\ <<d, TRUE>> \in Pool!Doing \X BOOLEAN
    OBVIOUS
  <2>2. threads[<<d, FALSE>>] \in Nat /\ threads[<<d, TRUE>>] \in Nat
    BY <2>1 DEF Kinds
  <2> QED
    BY <2>2 DEF Both
<1>2. Total({}) = 0 /\ Size({}) = 0
  BY DEF Total, Size, Of, Is
<1>0. \A d \in Pool!Doing : \A ds : Of(d, ds) \in Nat /\ Is(d, ds) \in 0..1
  BY <1>1 DEF Of, Is
<1>5. ASSUME NEW ds PROVE /\ Of("none", ds) \in Nat /\ Is("none", ds) \in 0..1
           /\ Of("started", ds) \in Nat /\ Is("started", ds) \in 0..1
           /\ Of("loops", ds) \in Nat /\ Is("loops", ds) \in 0..1
           /\ Of("waits", ds) \in Nat /\ Is("waits", ds) \in 0..1
           /\ Of("got", ds) \in Nat /\ Is("got", ds) \in 0..1
           /\ Of("timed_out", ds) \in Nat /\ Is("timed_out", ds) \in 0..1
           /\ Of("ends", ds) \in Nat /\ Is("ends", ds) \in 0..1
           /\ Of("serves", ds) \in Nat /\ Is("serves", ds) \in 0..1
           /\ Of("calls", ds) \in Nat /\ Is("calls", ds) \in 0..1
  <2>1. {"none", "started", "loops", "waits", "got", "timed_out", "ends", "serves", "calls"} \subseteq Pool!Doing
    BY DEF Pool!Doing
  <2> QED
    BY <1>0, <2>1
<1>3. ASSUME NEW ds PROVE Total(ds) \in Nat /\ Size(ds) \in Nat /\ Size(ds) <= 9
  BY <1>5 DEF Total, Size
<1>4. ASSUME NEW ds \in SUBSET Pool!Doing, NEW d \in ds
      PROVE  Total(ds) = Both(d) + Total(ds \ {d}) /\ Size(ds) = 1 + Size(ds \ {d})
  <2>1. \A e : e # d => Of(e, ds \ {d}) = Of(e, ds) /\ Is(e, ds \ {d}) = Is(e, ds)
    BY DEF Of, Is
  <2>2. /\ Of(d, ds) = Both(d) /\ Of(d, ds \ {d}) = 0 /\ Is(d, ds) = 1 /\ Is(d, ds \ {d}) = 0
        /\ Both(d) \in Nat
    BY <1>1 DEF Of, Is
  <2> HIDE DEF Of, Is
  <2>3. Total(ds) = Both(d) + Total(ds \ {d})
    <3>1. CASE d = "none"
      <4>1. /\ Of("started", ds \ {d}) = Of("started", ds)
            /\ Of("loops", ds \ {d}) = Of("loops", ds)
            /\ Of("waits", ds \ {d}) = Of("waits", ds)
            /\ Of("got", ds \ {d}) = Of("got", ds)
            /\ Of("timed_out", ds \ {d}) = Of("timed_out", ds)
            /\ Of("ends", ds \ {d}) = Of("ends", ds)
            /\ Of("serves", ds \ {d}) = Of("serves", ds)
            /\ Of("calls", ds \ {d}) = Of("calls", ds)
        BY <2>1, <3>1
      <4> QED
        BY <1>5, <2>2, <3>1, <4>1 DEF Total
    <3>2. CASE d = "started"
      <4>1. /\ Of("none", ds \ {d}) = Of("none", ds)
            /\ Of("loops", ds \ {d}) = Of("loops", ds)
            /\ Of("waits", ds \ {d}) = Of("waits", ds)
            /\ Of("got", ds \ {d}) = Of("got", ds)
            /\ Of("timed_out", ds \ {d}) = Of("timed_out", ds)
            /\ Of("ends", ds \ {d}) = Of("ends", ds)
            /\ Of("serves", ds \ {d}) = Of("serves", ds)
            /\ Of("calls", ds \ {d}) = Of("calls", ds)
        BY <2>1, <3>2
      <4> QED
        BY <1>5, <2>2, <3>2, <4>1 DEF Total
    <3>3. CASE d = "loops"
      <4>1. /\ Of("none", ds \ {d}) = Of("none", ds)
            /\ Of("started", ds \ {d}) = Of("started", ds)
            /\ Of("waits", ds \ {d}) = Of("waits", ds)
            /\ Of("got", ds \ {d}) = Of("got", ds)
            /\ Of("timed_out", ds \ {d}) = Of("timed_out", ds)
            /\ Of("ends", ds \ {d}) = Of("ends", ds)
            /\ Of("serves", ds \ {d}) = Of("serves", ds)
            /\ Of("calls", ds \ {d}) = Of("calls", ds)
        BY <2>1, <3>3
      <4> QED
        BY <1>5, <2>2, <3>3, <4>1 DEF Total
    <3>4. CASE d = "waits"
      <4>1. /\ Of("none", ds \ {d}) = Of("none", ds)
            /\ Of("started", ds \ {d}) = Of("started", ds)
            /\ Of("loops", ds \ {d}) = Of("loops", ds)
            /\ Of("got", ds \ {d}) = Of("got", ds)
            /\ Of("timed_out", ds \ {d}) = Of("timed_out", ds)
            /\ Of("ends", ds \ {d}) = Of("ends", ds)
            /\ Of("serves", ds \ {d}) = Of("serves", ds)
            /\ Of("calls", ds \ {d}) = Of("calls", ds)
        BY <2>1, <3>4
      <4> QED
        BY <1>5, <2>2, <3>4, <4>1 DEF Total
    <3>5. CASE d = "got"
      <4>1. /\ Of("none", ds \ {d}) = Of("none", ds)
            /\ Of("started", ds \ {d}) = Of("started", ds)
            /\ Of("loops", ds \ {d}) = Of("loops", ds)
            /\ Of("waits", ds \ {d}) = Of("waits", ds)
            /\ Of("timed_out", ds \ {d}) = Of("timed_out", ds)
            /\ Of("ends", ds \ {d}) = Of("ends", ds)
            /\ Of("serves", ds \ {d}) = Of("serves", ds)
            /\ Of("calls", ds \ {d}) = Of("calls", ds)
        BY <2>1, <3>5
      <4> QED
        BY <1>5, <2>2, <3>5, <4>1 DEF Total
    <3>6. CASE d = "timed_out"
      <4>1. /\ Of("none", ds \ {d}) = Of("none", ds)
            /\ Of("started", ds \ {d}) = Of("started", ds)
            /\ Of("loops", ds \ {d}) = Of("loops", ds)
            /\ Of("waits", ds \ {d}) = Of("waits", ds)
            /\ Of("got", ds \ {d}) = Of("got", ds)
            /\ Of("ends", ds \ {d}) = Of("ends", ds)
            /\ Of("serves", ds \ {d}) = Of("serves", ds)
            /\ Of("calls", ds \ {d}) = Of("calls", ds)
        BY <2>1, <3>6
      <4> QED
        BY <1>5, <2>2, <3>6, <4>1 DEF Total
    <3>7. CASE d = "ends"
      <4>1. /\ Of("none", ds \ {d}) = Of("none", ds)
            /\ Of("started", ds \ {d}) = Of("started", ds)
            /\ Of("loops", ds \ {d}) = Of("loops", ds)
            /\ Of("waits", ds \ {d}) = Of("waits", ds)
            /\ Of("got", ds \ {d}) = Of("got", ds)
            /\ Of("timed_out", ds \ {d}) = Of("timed_out", ds)
            /\ Of("serves", ds \ {d}) = Of("serves", ds)
            /\ Of("calls", ds \ {d}) = Of("calls", ds)
        BY <2>1, <3>7
      <4> QED
        BY <1>5, <2>2, <3>7, <4>1 DEF Total
    <3>8. CASE d = "serves"
      <4>1. /\ Of("none", ds \ {d}) = Of("none", ds)
            /\ Of("started", ds \ {d}) = Of("started", ds)
            /\ Of("loops", ds \ {d}) = Of("loops", ds)
            /\ Of("waits", ds \ {d}) = Of("waits", ds)
            /\ Of("got", ds \ {d}) = Of("got", ds)
            /\ Of("timed_out", ds \ {d}) = Of("timed_out", ds)
            /\ Of("ends", ds \ {d}) = Of("ends", ds)
            /\ Of("calls", ds \ {d}) = Of("calls", ds)
        BY <2>1, <3>8
      <4> QED
        BY <1>5, <2>2, <3>8, <4>1 DEF Total
    <3>9. CASE d = "calls"
      <4>1. /\ Of("none", ds \ {d}) = Of("none", ds)
            /\ Of("started", ds \ {d}) = Of("started", ds)
            /\ Of("loops", ds \ {d}) = Of("loops", ds)
            /\ Of("waits", ds \ {d}) = Of("waits", ds)
            /\ Of("got", ds \ {d}) = Of("got", ds)
            /\ Of("timed_out", ds \ {d}) = Of("timed_out", ds)
            /\ Of("ends", ds \ {d}) = Of("ends", ds)
            /\ Of("serves", ds \ {d}) = Of("serves", ds)
        BY <2>1, <3>9
      <4> QED
        BY <1>5, <2>2, <3>9, <4>1 DEF Total
    <3> QED
      BY <3>1, <3>2, <3>3, <3>4, <3>5, <3>6, <3>7, <3>8, <3>9 DEF Pool!Doing
  <2>4. Size(ds) = 1 + Size(ds \ {d})
    BY <1>5, <2>1, <2>2, SMTT(60) DEF Size, Pool!Doing
  <2> QED
    BY <2>3, <2>4
<1> QED
  BY <1>1, <1>2, <1>3, <1>4

\* The sum of RequestPool is a recursion over a set that picks its elements in any
\* order; it is the sum of the nine, whichever it picks.
LEMMA InIs == threads \in Kinds => \A ds \in SUBSET Pool!Doing : Pool!In(ds) = Total(ds)
<1> SUFFICES ASSUME threads \in Kinds, NEW ds \in SUBSET Pool!Doing PROVE Pool!In(ds) = Total(ds)
  OBVIOUS
<1> DEFINE Pick(s) == CHOOSE x \in s : TRUE
           Adds(g) == g = [s \in SUBSET ds |-> IF s = {} THEN 0 ELSE Both(Pick(s)) + g[s \ {Pick(s)}]]
           t == [s \in SUBSET ds |-> Total(s)]
           f == CHOOSE g : Adds(g)
<1>1. \A s \in SUBSET ds : s # {} => Pick(s) \in s
  OBVIOUS
<1>2. \A s \in SUBSET ds : s # {} => s \ {Pick(s)} \in SUBSET ds
  OBVIOUS
<1>3. \A s \in SUBSET ds : s # {} => /\ Total(s) = Both(Pick(s)) + Total(s \ {Pick(s)})
                                      /\ Size(s) = 1 + Size(s \ {Pick(s)})
  BY <1>1, Counts
<1>4. Pool!In(ds) = f[ds]
  BY Zenon DEF Pool!In, Pool!MapThenSumSet, Pool!MapThenFoldSet, Both
<1> HIDE DEF Pick
<1>5. Adds(t)
  BY <1>2, <1>3, Counts
<1> HIDE DEF t
<1>6. Adds(f)
  BY <1>5
<1>7. \A s \in SUBSET ds : f[s] = IF s = {} THEN 0 ELSE Both(Pick(s)) + f[s \ {Pick(s)}]
  BY <1>6
<1> HIDE DEF f
<1> DEFINE S == {n \in Nat : \A s \in SUBSET ds : Size(s) <= n => f[s] = Total(s)}
<1>8. 0 \in S
  <2>1. \A s \in SUBSET ds : s # {} => s \ {Pick(s)} \in SUBSET Pool!Doing
    BY <1>2
  <2>2. \A s \in SUBSET ds : s # {} => Size(s) >= 1
    <3> SUFFICES ASSUME NEW s \in SUBSET ds, s # {} PROVE Size(s) >= 1
      OBVIOUS
    <3>1. Size(s \ {Pick(s)}) \in Nat
      BY <2>1, Counts
    <3> QED
      BY <1>3, <3>1
  <2>3. \A s \in SUBSET ds : Size(s) <= 0 => s = {}
    BY <2>2, Counts
  <2> QED
    BY <1>7, <2>3, Counts
<1>9. ASSUME NEW n \in Nat, n \in S PROVE n + 1 \in S
  <2> SUFFICES ASSUME NEW s \in SUBSET ds, Size(s) <= n + 1 PROVE f[s] = Total(s)
    OBVIOUS
  <2>1. CASE s = {}
    BY <2>1, <1>7, Counts
  <2>2. CASE s # {}
    <3>1. Size(s \ {Pick(s)}) <= n /\ s \ {Pick(s)} \in SUBSET ds
      BY <2>2, <1>2, <1>3, Counts
    <3>2. f[s \ {Pick(s)}] = Total(s \ {Pick(s)})
      BY <1>9, <3>1
    <3> QED
      BY <2>2, <1>3, <1>7, <3>2
  <2> QED
    BY <2>1, <2>2
<1> HIDE DEF S
<1>10. 9 \in S
  BY <1>8, <1>9, Induction
<1> QED
  BY <1>4, <1>10, Counts DEF S

\* The same in the next state.
LEMMA InIsNext == (threads \in Kinds => \A ds \in SUBSET Pool!Doing : Pool!In(ds) = Total(ds))'
  BY InIs, PTL

\* A thread goes from one thing to another: one fewer does that, one more this.
LEMMA Moved ==
    ASSUME threads \in Kinds, NEW d \in Pool!Doing, NEW e \in Pool!Doing, d # e, NEW own \in BOOLEAN,
           Pool!Goes(d, own, e)
    PROVE  /\ threads' \in Kinds /\ Both(d) >= 1
           /\ Both(d)' = Both(d) - 1 /\ Both(e)' = Both(e) + 1
           /\ \A x \in Pool!Doing \ {d, e} : Both(x)' = Both(x)
<1> DEFINE i == <<d, own>>
           j == <<e, own /\ e # "none">>
           K == Pool!Doing \X BOOLEAN
<1>0. i \in K /\ j \in K /\ i # j
  OBVIOUS
<1>1. /\ threads[i] > 0
      /\ threads' = [threads EXCEPT ![i] = @ - 1, ![j] = @ + 1]
  BY Zenon DEF Pool!Goes
<1>2. threads \in [K -> Nat]
  BY DEF Kinds
<1> HIDE DEF i, j, K
<1>3. /\ threads'[i] = threads[i] - 1 /\ threads'[j] = threads[j] + 1
      /\ \A k \in K : k # i /\ k # j => threads'[k] = threads[k]
      /\ threads' \in [K -> Nat]
  BY <1>0, <1>1, <1>2
<1>4. \A x \in Pool!Doing : <<x, FALSE>> \in K /\ <<x, TRUE>> \in K
  BY DEF K
<1>5. \A x \in Pool!Doing : threads[<<x, FALSE>>] \in Nat /\ threads[<<x, TRUE>>] \in Nat
  BY <1>2, <1>4
<1>6. \A x \in Pool!Doing \ {d, e} : Both(x)' = Both(x)
  <2> SUFFICES ASSUME NEW x \in Pool!Doing \ {d, e} PROVE Both(x)' = Both(x)
    OBVIOUS
  <2>1. <<x, FALSE>> \notin {i, j} /\ <<x, TRUE>> \notin {i, j}
    BY DEF i, j
  <2> QED
    BY <1>3, <1>4, <2>1 DEF Both
<1>7. Both(d)' = Both(d) - 1 /\ Both(d) >= 1
  <2>1. <<d, FALSE>> # j /\ <<d, TRUE>> # j
    BY DEF j
  <2>2. CASE own
    <3>1. i = <<d, TRUE>> /\ <<d, FALSE>> # i
      BY <2>2 DEF i
    <3>2. threads'[<<d, TRUE>>] = threads[<<d, TRUE>>] - 1 /\ threads[<<d, TRUE>>] > 0
      BY <1>1, <1>3, <3>1
    <3>3. threads'[<<d, FALSE>>] = threads[<<d, FALSE>>]
      BY <1>3, <1>4, <2>1, <3>1
    <3>4. threads[<<d, TRUE>>] \in Nat /\ threads[<<d, FALSE>>] \in Nat
      BY <1>5
    <3>5. Both(d)' = threads'[<<d, FALSE>>] + threads'[<<d, TRUE>>]
      BY DEF Both
    <3>6. Both(d) = threads[<<d, FALSE>>] + threads[<<d, TRUE>>]
      BY DEF Both
    <3> QED
      BY <3>2, <3>3, <3>4, <3>5, <3>6
  <2>3. CASE ~own
    <3>1. i = <<d, FALSE>> /\ <<d, TRUE>> # i
      BY <2>3 DEF i
    <3>2. threads'[<<d, FALSE>>] = threads[<<d, FALSE>>] - 1 /\ threads[<<d, FALSE>>] > 0
      BY <1>1, <1>3, <3>1
    <3>3. threads'[<<d, TRUE>>] = threads[<<d, TRUE>>]
      BY <1>3, <1>4, <2>1, <3>1
    <3>4. threads[<<d, TRUE>>] \in Nat /\ threads[<<d, FALSE>>] \in Nat
      BY <1>5
    <3>5. Both(d)' = threads'[<<d, FALSE>>] + threads'[<<d, TRUE>>]
      BY DEF Both
    <3>6. Both(d) = threads[<<d, FALSE>>] + threads[<<d, TRUE>>]
      BY DEF Both
    <3> QED
      BY <3>2, <3>3, <3>4, <3>5, <3>6
  <2> QED
    BY <2>2, <2>3
<1>8. Both(e)' = Both(e) + 1
  <2>1. <<e, FALSE>> # i /\ <<e, TRUE>> # i
    BY DEF i
  <2>2. CASE own /\ e # "none"
    <3>1. j = <<e, TRUE>> /\ <<e, FALSE>> # j
      BY <2>2 DEF j
    <3>2. threads'[<<e, TRUE>>] = threads[<<e, TRUE>>] + 1
      BY <1>3, <3>1
    <3>3. threads'[<<e, FALSE>>] = threads[<<e, FALSE>>]
      BY <1>3, <1>4, <2>1, <3>1
    <3>4. threads[<<e, TRUE>>] \in Nat /\ threads[<<e, FALSE>>] \in Nat
      BY <1>5
    <3>5. Both(e)' = threads'[<<e, FALSE>>] + threads'[<<e, TRUE>>]
      BY DEF Both
    <3>6. Both(e) = threads[<<e, FALSE>>] + threads[<<e, TRUE>>]
      BY DEF Both
    <3> QED
      BY <3>2, <3>3, <3>4, <3>5, <3>6
  <2>3. CASE ~(own /\ e # "none")
    <3>1. j = <<e, FALSE>> /\ <<e, TRUE>> # j
      BY <2>3 DEF j
    <3>2. threads'[<<e, FALSE>>] = threads[<<e, FALSE>>] + 1
      BY <1>3, <3>1
    <3>3. threads'[<<e, TRUE>>] = threads[<<e, TRUE>>]
      BY <1>3, <1>4, <2>1, <3>1
    <3>4. threads[<<e, TRUE>>] \in Nat /\ threads[<<e, FALSE>>] \in Nat
      BY <1>5
    <3>5. Both(e)' = threads'[<<e, FALSE>>] + threads'[<<e, TRUE>>]
      BY DEF Both
    <3>6. Both(e) = threads[<<e, FALSE>>] + threads[<<e, TRUE>>]
      BY DEF Both
    <3> QED
      BY <3>2, <3>3, <3>4, <3>5, <3>6
  <2> QED
    BY <2>2, <2>3
<1> QED
  BY <1>3, <1>6, <1>7, <1>8 DEF Kinds, K

\* What that makes of the sums: 1 where the thread is counted.
One(b) == IF b THEN 1 ELSE 0
Waits(d) == One(d \in {"waits", "got", "timed_out", "ends"})
Runs(d) == One(d # "none")

\* The threads m_waiting_threads counts, and all that have not left.
Waiters == Both("waits") + Both("got") + Both("timed_out") + Both("ends")
Threads == Waiters + Both("started") + Both("loops") + Both("serves") + Both("calls")
\* Who has read the count and not yet pushed its request.
Looked == {s \in Streams : senders[s].in = "looked"}

\* Those that stay until the queue is closed, with those that have left for an error.
Lasting == Threads - Both("ends") + failed

\* No thread is lost or counted twice, the handler's count is of those that wait or
\* have not yet counted themselves out, and until the queue is closed one that leaves
\* at once does so for an error, and two stay but for those.
ThreadInv ==
    /\ threads \in Kinds
    /\ Threads + Both("none") = MaxThreads
    /\ m_waiting_threads = Waiters
    /\ failed \in 0..MaxFailed
    /\ ~queue.closed => Both("ends") <= failed /\ Lasting >= 2

\* Requests that are queued, or about to be, were counted.
SenderInv ==
    /\ queue \in [length : Nat, closed : BOOLEAN]
    /\ senders \in [Streams -> [in : {"no", "looked", "pushed"}, few : BOOLEAN]]
    /\ sent \in 0..MaxRequests
    /\ channels \in {"open", "shut", "again"} /\ ending \in {"no", "contexts", "queue"}
    /\ IsFiniteSet(Looked) /\ queue.length + Cardinality(Looked) <= sent

\* The inductive invariant of the pool.
PoolInv == ThreadInv /\ SenderInv

\* The sums that the actions and the properties of RequestPool ask for.
LEMMA SumsAre ==
    ASSUME threads \in Kinds
    PROVE  /\ Pool!In({"waits", "got", "timed_out", "ends"}) = Waiters
           /\ Pool!In(Pool!Doing \ {"none"}) = Threads
           /\ \A d \in Pool!Doing : Pool!In({d}) = Both(d)
<1>0. \A d \in Pool!Doing : Both(d) \in Nat
  BY Counts
<1>1. Pool!In({"waits", "got", "timed_out", "ends"}) = Waiters
  <2>1. {"waits", "got", "timed_out", "ends"} \subseteq Pool!Doing
    BY DEF Pool!Doing
  <2>2. Total({"waits", "got", "timed_out", "ends"}) = Waiters
    BY <1>0, <2>1 DEF Total, Of, Waiters
  <2> QED
    BY <2>1, <2>2, InIs
<1>2. Pool!In(Pool!Doing \ {"none"}) = Threads
  <2>1. Total(Pool!Doing \ {"none"}) = Threads
    BY <1>0 DEF Total, Of, Threads, Waiters, Pool!Doing
  <2> QED
    BY <2>1, InIs
<1>3. ASSUME NEW d \in Pool!Doing PROVE Pool!In({d}) = Both(d)
  <2>1. Total({d}) = Both(d)
    <3>1. {d} \in SUBSET Pool!Doing /\ d \in {d} /\ {d} \ {d} = {}
      OBVIOUS
    <3>2. Total({d}) = Both(d) + Total({d} \ {d})
      BY <3>1, Counts
    <3> QED
      BY <1>0, <3>1, <3>2, Counts
  <2> QED
    BY <2>1, InIs
<1> QED
  BY <1>1, <1>2, <1>3

\* A thread that goes on: what becomes of the sums.
LEMMA Moves ==
    ASSUME threads \in Kinds, NEW d \in Pool!Doing, NEW e \in Pool!Doing, d # e, NEW own \in BOOLEAN,
           Pool!Goes(d, own, e)
    PROVE  /\ Waiters' = Waiters - Waits(d) + Waits(e)
           /\ Threads' = Threads - Runs(d) + Runs(e)
           /\ Threads' + Both("none")' = Threads + Both("none")
           /\ Both("ends")' = Both("ends") - One(d = "ends") + One(e = "ends")
           /\ Waiters \in Nat /\ Threads \in Nat /\ Threads >= Waiters /\ Both("none") \in Nat
<1>1. \A x \in Pool!Doing : Both(x)' = Both(x) - One(d = x) + One(e = x)
  <2> SUFFICES ASSUME NEW x \in Pool!Doing PROVE Both(x)' = Both(x) - One(d = x) + One(e = x)
    OBVIOUS
  <2>1. Both(x) \in Nat
    BY Counts
  <2>2. CASE x = d
    BY <2>1, <2>2, Moved DEF One
  <2>3. CASE x = e
    BY <2>1, <2>3, Moved DEF One
  <2>4. CASE x \notin {d, e}
    <3>1. Both(x)' = Both(x)
      BY <2>4, Moved
    <3> QED
      BY <2>1, <2>4, <3>1 DEF One
  <2> QED
    BY <2>2, <2>3, <2>4
<1>2. /\ Both("none")' = Both("none") - One(d = "none") + One(e = "none") /\ Both("none") \in Nat
      /\ Both("started")' = Both("started") - One(d = "started") + One(e = "started") /\ Both("started") \in Nat
      /\ Both("loops")' = Both("loops") - One(d = "loops") + One(e = "loops") /\ Both("loops") \in Nat
      /\ Both("waits")' = Both("waits") - One(d = "waits") + One(e = "waits") /\ Both("waits") \in Nat
      /\ Both("got")' = Both("got") - One(d = "got") + One(e = "got") /\ Both("got") \in Nat
      /\ Both("timed_out")' = Both("timed_out") - One(d = "timed_out") + One(e = "timed_out")
      /\ Both("timed_out") \in Nat
      /\ Both("ends")' = Both("ends") - One(d = "ends") + One(e = "ends") /\ Both("ends") \in Nat
      /\ Both("serves")' = Both("serves") - One(d = "serves") + One(e = "serves") /\ Both("serves") \in Nat
      /\ Both("calls")' = Both("calls") - One(d = "calls") + One(e = "calls") /\ Both("calls") \in Nat
  <2>1. {"none", "started", "loops", "waits", "got", "timed_out", "ends", "serves", "calls"} = Pool!Doing
    BY DEF Pool!Doing
  <2>2. \A x \in Pool!Doing : Both(x) \in Nat
    BY Counts
  <2> QED
    BY <1>1, <2>1, <2>2
<1>3. /\ Waits(d) = One(d = "waits") + One(d = "got") + One(d = "timed_out") + One(d = "ends")
      /\ Runs(d) = Waits(d) + One(d = "started") + One(d = "loops") + One(d = "serves") + One(d = "calls")
      /\ Runs(d) + One(d = "none") = 1
  BY DEF Waits, Runs, One, Pool!Doing
<1>4. /\ Waits(e) = One(e = "waits") + One(e = "got") + One(e = "timed_out") + One(e = "ends")
      /\ Runs(e) = Waits(e) + One(e = "started") + One(e = "loops") + One(e = "serves") + One(e = "calls")
      /\ Runs(e) + One(e = "none") = 1
  BY DEF Waits, Runs, One, Pool!Doing
<1>5. /\ One(d = "none") \in Int /\ One(e = "none") \in Int
      /\ One(d = "started") \in Int /\ One(e = "started") \in Int
      /\ One(d = "loops") \in Int /\ One(e = "loops") \in Int
      /\ One(d = "waits") \in Int /\ One(e = "waits") \in Int
      /\ One(d = "got") \in Int /\ One(e = "got") \in Int
      /\ One(d = "timed_out") \in Int /\ One(e = "timed_out") \in Int
      /\ One(d = "ends") \in Int /\ One(e = "ends") \in Int
      /\ One(d = "serves") \in Int /\ One(e = "serves") \in Int
      /\ One(d = "calls") \in Int /\ One(e = "calls") \in Int
  BY DEF One
<1>6. Waiters \in Nat /\ Threads \in Nat /\ Threads >= Waiters
  BY <1>2 DEF Waiters, Threads
<1>7. Waiters' = Waiters - Waits(d) + Waits(e)
  BY <1>2, <1>3, <1>4, <1>5 DEF Waiters
<1>8. Threads' = Threads - Runs(d) + Runs(e)
  BY <1>2, <1>3, <1>4, <1>5, <1>6, <1>7 DEF Threads
<1>9. /\ Waits(d) \in Int /\ Waits(e) \in Int /\ Runs(d) \in Int /\ Runs(e) \in Int
  BY <1>3, <1>4, <1>5
<1> QED
  BY <1>2, <1>3, <1>4, <1>5, <1>6, <1>7, <1>8, <1>9

\* The invariant is as strong as what the runs check.
LEMMA PoolTyped == PoolInv => Pool!TypeOK /\ Pool!SomeStay
<1> SUFFICES ASSUME PoolInv PROVE Pool!TypeOK /\ Pool!SomeStay
  OBVIOUS
<1>0. \A d \in Pool!Doing : Both(d) \in Nat
  BY Counts DEF PoolInv, ThreadInv, SenderInv
<1>1. {"none", "started", "loops", "waits", "got", "timed_out", "ends", "serves", "calls"} = Pool!Doing
  BY DEF Pool!Doing
<1>2. Threads + Both("none") = MaxThreads /\ m_waiting_threads = Waiters /\ threads \in Kinds
  BY DEF PoolInv, ThreadInv, SenderInv
<1>9. /\ Both("none") \in Nat /\ Both("started") \in Nat /\ Both("loops") \in Nat /\ Both("waits") \in Nat
      /\ Both("got") \in Nat /\ Both("timed_out") \in Nat /\ Both("ends") \in Nat
      /\ Both("serves") \in Nat /\ Both("calls") \in Nat
  BY <1>0, <1>1
<1>3. \A d \in Pool!Doing : Both(d) \in 0..MaxThreads
  <2> HIDE DEF Both
  <2> SUFFICES ASSUME NEW d \in Pool!Doing PROVE Both(d) <= MaxThreads
    BY <1>0
  <2>1. Both("none") <= MaxThreads /\ Both("started") <= MaxThreads /\ Both("loops") <= MaxThreads
    BY <1>2, <1>9, HandlerAssumption DEF Threads, Waiters
  <2>2. Both("waits") <= MaxThreads /\ Both("got") <= MaxThreads /\ Both("timed_out") <= MaxThreads
    BY <1>2, <1>9, HandlerAssumption DEF Threads, Waiters
  <2>3. Both("ends") <= MaxThreads /\ Both("serves") <= MaxThreads /\ Both("calls") <= MaxThreads
    BY <1>2, <1>9, HandlerAssumption DEF Threads, Waiters
  <2> QED
    BY <1>1, <2>1, <2>2, <2>3
<1>4. m_waiting_threads \in 0..MaxThreads
  BY <1>2, <1>9, HandlerAssumption DEF Threads, Waiters
<1>5. threads \in [Pool!Doing \X BOOLEAN -> 0..MaxThreads]
  <2>1. ASSUME NEW k \in Pool!Doing \X BOOLEAN PROVE threads[k] \in 0..MaxThreads
    <3>1. PICK d \in Pool!Doing, b \in BOOLEAN : k = <<d, b>>
      OBVIOUS
    <3>2. <<d, FALSE>> \in Pool!Doing \X BOOLEAN /\ <<d, TRUE>> \in Pool!Doing \X BOOLEAN
      OBVIOUS
    <3>3. threads[<<d, FALSE>>] \in Nat /\ threads[<<d, TRUE>>] \in Nat
      BY <1>2, <3>2 DEF Kinds
    <3>4. threads[k] \in 0..MaxThreads
      <4>1. threads[<<d, FALSE>>] <= Both(d) /\ threads[<<d, TRUE>>] <= Both(d)
        BY <3>3 DEF Both
      <4>2. b = FALSE \/ b = TRUE
        OBVIOUS
      <4>3. Both(d) \in Int /\ Both(d) <= MaxThreads
        BY <1>3
      <4>4. CASE b = FALSE
        <5>1. threads[k] = threads[<<d, FALSE>>]
          BY <3>1, <4>4
        <5> QED
          BY <3>3, <4>1, <4>3, <5>1, HandlerAssumption
      <4>5. CASE b = TRUE
        <5>1. threads[k] = threads[<<d, TRUE>>]
          BY <3>1, <4>5
        <5> QED
          BY <3>3, <4>1, <4>3, <5>1, HandlerAssumption
      <4> QED
        BY <4>2, <4>4, <4>5
    <3> QED
      BY <3>4
  <2> QED
    BY <1>2, <2>1 DEF Kinds
<1>6. queue \in [length : 0..MaxRequests, closed : BOOLEAN]
  <2>1. Cardinality(Looked) \in Nat
    BY FS_CardinalityType DEF PoolInv, ThreadInv, SenderInv
  <2>2. queue.length \in Nat /\ queue.length <= MaxRequests
    BY <2>1, HandlerAssumption DEF PoolInv, ThreadInv, SenderInv
  <2> QED
    BY <2>2, HandlerAssumption DEF PoolInv, ThreadInv, SenderInv
<1>7. Pool!TypeOK
  BY <1>4, <1>5, <1>6 DEF PoolInv, ThreadInv, SenderInv, Pool!TypeOK
<1>8. Pool!SomeStay
  <2>1. ~queue.closed => Threads + failed >= 2
    <3>1. failed \in 0..MaxFailed /\ Threads \in Nat /\ Both("ends") \in Nat
      BY <1>9 DEF PoolInv, ThreadInv, Threads, Waiters
    <3>2. ~queue.closed => Threads - Both("ends") + failed >= 2
      BY DEF PoolInv, ThreadInv, Lasting
    <3> QED
      BY <3>1, <3>2, HandlerAssumption
  <2> QED
    BY <1>2, <2>1, SumsAre DEF Pool!SomeStay
<1> QED
  BY <1>7, <1>8

LEMMA PoolInit == ASSUME Pool!Init PROVE PoolInv
<1>0. MaxThreads \in Nat /\ MaxThreads >= 2 /\ MaxRequests \in Nat
  BY HandlerAssumption
<1>1. \A d \in Pool!Doing : Both(d) = IF d = "started" THEN 2 ELSE IF d = "none" THEN MaxThreads - 2 ELSE 0
  <2> SUFFICES ASSUME NEW d \in Pool!Doing
               PROVE Both(d) = IF d = "started" THEN 2 ELSE IF d = "none" THEN MaxThreads - 2 ELSE 0
    OBVIOUS
  <2>1. <<d, FALSE>> \in Pool!Doing \X BOOLEAN /\ <<d, TRUE>> \in Pool!Doing \X BOOLEAN
    OBVIOUS
  <2>2. /\ threads[<<d, FALSE>>] = IF d = "started" THEN 2 ELSE IF d = "none" THEN MaxThreads - 2 ELSE 0
        /\ threads[<<d, TRUE>>] = 0
    BY <2>1 DEF Pool!Init
  <2>3. Both(d) = threads[<<d, FALSE>>] + threads[<<d, TRUE>>]
    BY DEF Both
  <2> QED
    BY <1>0, <2>2, <2>3
<1>2. threads \in Kinds
  <2>1. threads = [k \in Pool!Doing \X BOOLEAN |->
            CASE k = <<"started", FALSE>> -> 2 [] k = <<"none", FALSE>> -> MaxThreads - 2 [] OTHER -> 0]
    BY DEF Pool!Init
  <2>2. MaxThreads - 2 \in Nat
    BY <1>0
  <2> QED
    BY <2>1, <2>2 DEF Kinds
<1>3. ThreadInv
  <2>1. /\ Both("none") = MaxThreads - 2 /\ Both("started") = 2 /\ Both("loops") = 0 /\ Both("waits") = 0
        /\ Both("got") = 0 /\ Both("timed_out") = 0 /\ Both("ends") = 0 /\ Both("serves") = 0
        /\ Both("calls") = 0
    BY <1>1 DEF Pool!Doing
  <2>2. m_waiting_threads = 0 /\ failed = 0
    BY DEF Pool!Init
  <2> QED
    BY <1>2, <2>1, <2>2, HandlerAssumption DEF ThreadInv, Lasting, Threads, Waiters
<1>4. SenderInv
  <2>1. Looked = {}
    BY DEF Pool!Init, Pool!Idle, Looked
  <2>2. queue = [length |-> 0, closed |-> FALSE] /\ sent = 0 /\ channels = "open" /\ ending = "no"
    BY DEF Pool!Init
  <2>3. senders \in [Streams -> [in : {"no", "looked", "pushed"}, few : BOOLEAN]]
    BY HandlerAssumption DEF Pool!Init, Pool!Idle
  <2> QED
    BY <2>1, <2>2, <2>3, FS_EmptySet, HandlerAssumption DEF SenderInv
<1> QED
  BY <1>3, <1>4 DEF PoolInv

\* A step of one thread, with the count brought up to date.
LEMMA ThreadGoes ==
    ASSUME PoolInv, NEW d \in Pool!Doing, NEW e \in Pool!Doing, d # e, NEW own \in BOOLEAN,
           Pool!Goes(d, own, e), m_waiting_threads' = m_waiting_threads - Waits(d) + Waits(e),
           queue'.closed = queue.closed, failed' \in {failed, failed + 1}, failed' <= MaxFailed,
           ~queue.closed /\ e = "ends" => failed' = failed + 1,
           ~queue.closed /\ e = "none" => d = "ends" \/ failed' = failed + 1 \/ Lasting >= 3
    PROVE  ThreadInv'
<1>1. threads \in Kinds /\ m_waiting_threads = Waiters /\ Threads + Both("none") = MaxThreads
      /\ failed \in 0..MaxFailed
  BY DEF PoolInv, ThreadInv
<1>2. /\ threads' \in Kinds /\ Both(d) >= 1
  BY <1>1, Moved
<1>3. /\ Waiters' = Waiters - Waits(d) + Waits(e)
      /\ Threads' = Threads - Runs(d) + Runs(e)
      /\ Threads' + Both("none")' = Threads + Both("none")
      /\ Both("ends")' = Both("ends") - One(d = "ends") + One(e = "ends")
      /\ Waiters \in Nat /\ Threads \in Nat
  BY <1>1, Moves
<1>4. m_waiting_threads' = Waiters'
  BY <1>1, <1>3
<1>5. PICK n, m : n = Both("ends") /\ m = Both("ends")'
  OBVIOUS
<1>6. n \in Nat /\ m = n - One(d = "ends") + One(e = "ends")
  <2>1. "ends" \in Pool!Doing
    BY DEF Pool!Doing
  <2> QED
    BY <1>1, <1>3, <1>5, <2>1, Counts
<1>7. failed' \in 0..MaxFailed
  BY <1>1, HandlerAssumption
<1>8. PICK s, z : s = Threads /\ z = Threads'
  OBVIOUS
<1>9. s \in Nat /\ z = s - Runs(d) + Runs(e)
  BY <1>3, <1>8
<1>10. ASSUME ~queue.closed PROVE m <= failed' /\ z - m + failed' >= 2
  <2>1. n <= failed /\ s - n + failed >= 2 /\ (Lasting >= 3 => s - n + failed >= 3)
    BY <1>5, <1>8, <1>10 DEF PoolInv, ThreadInv, Lasting
  <2>2. CASE e = "ends"
    <3>1. m = n + 1 /\ failed' = failed + 1
      BY <1>6, <1>10, <2>2 DEF One
    <3>2. z = s \/ z = s + 1
      BY <1>9, <2>2 DEF Runs, One
    <3> QED
      BY <1>1, <1>6, <1>9, <2>1, <3>1, <3>2
  <2>3. CASE d = "ends"
    <3>1. m = n - 1
      BY <1>6, <2>3 DEF One
    <3>2. z = s \/ z = s - 1
      BY <1>9, <2>3 DEF Runs, One
    <3> QED
      BY <1>1, <1>6, <1>9, <2>1, <3>1, <3>2
  <2>4. CASE d # "ends" /\ e # "ends"
    <3>1. m = n
      BY <1>6, <2>4 DEF One
    <3>2. CASE e = "none"
      <4>1. z = s - 1
        BY <1>9, <3>2 DEF Runs, One
      <4> QED
        BY <1>1, <1>6, <1>9, <1>10, <2>1, <2>4, <3>1, <3>2, <4>1
    <3>3. CASE e # "none"
      <4>1. z = s \/ z = s + 1
        BY <1>9, <3>3 DEF Runs, One
      <4> QED
        BY <1>1, <1>6, <1>9, <2>1, <3>1, <4>1
    <3> QED
      BY <3>2, <3>3
  <2> QED
    BY <2>2, <2>3, <2>4
<1>11. ~queue'.closed => Both("ends")' <= failed' /\ Lasting' >= 2
  <2>1. Lasting' = z - m + failed'
    BY <1>5, <1>8 DEF Lasting
  <2> QED
    BY <1>5, <1>10, <2>1
<1> QED
  BY <1>1, <1>2, <1>3, <1>4, <1>7, <1>11 DEF ThreadInv

LEMMA SendersRest == SenderInv /\ UNCHANGED <<queue, senders, sent, channels, ending>> => SenderInv'
BY DEF SenderInv, Looked

LEMMA ThreadsRest ==
    ThreadInv /\ UNCHANGED <<threads, m_waiting_threads, failed>> /\ (queue.closed => queue'.closed) => ThreadInv'
BY DEF ThreadInv, Lasting, Threads, Waiters, Both

\* queue_message reads the count (MessageConnection.cpp 665): one more request is on its way.
LEMMA LookKeeps == ASSUME PoolInv, NEW s \in Streams, Pool!Look(s) PROVE PoolInv'
<1>2. /\ senders[s] = [in |-> "no", few |-> FALSE] /\ sent < MaxRequests
      /\ senders' = [senders EXCEPT ![s] = [in |-> "looked", few |-> m_waiting_threads <= 1]]
      /\ sent' = sent + 1
      /\ UNCHANGED <<m_waiting_threads, threads, queue, channels, ending, failed>>
  BY DEF Pool!Look, Pool!Idle
<1>3. /\ senders \in [Streams -> [in : {"no", "looked", "pushed"}, few : BOOLEAN]]
      /\ queue.length \in Nat /\ sent \in 0..MaxRequests /\ IsFiniteSet(Looked)
      /\ queue.length + Cardinality(Looked) <= sent
  BY DEF PoolInv, SenderInv
<1>4. senders' \in [Streams -> [in : {"no", "looked", "pushed"}, few : BOOLEAN]]
  BY <1>2, <1>3
<1>5. Looked' = Looked \cup {s} /\ s \notin Looked
  BY <1>2, <1>3 DEF Looked
<1>6. /\ IsFiniteSet(Looked \cup {s}) /\ Cardinality(Looked \cup {s}) = Cardinality(Looked) + 1
      /\ Cardinality(Looked) \in Nat
  BY <1>3, <1>5, FS_AddElement, FS_CardinalityType
<1>7. sent' \in 0..MaxRequests /\ queue.length + Cardinality(Looked \cup {s}) <= sent'
  BY <1>2, <1>3, <1>6, HandlerAssumption
<1>8. SenderInv'
  BY <1>2, <1>4, <1>5, <1>6, <1>7 DEF PoolInv, SenderInv
<1> QED
  BY <1>2, <1>8, ThreadsRest DEF PoolInv

\* It pushes the request, or finds the queue closed.
LEMMA PushKeeps == ASSUME PoolInv, NEW s \in Streams, Pool!Push(s) PROVE PoolInv'
<1>2. /\ senders[s].in = "looked"
      /\ \/ /\ queue.closed /\ UNCHANGED queue
            /\ senders' = [senders EXCEPT ![s] = [in |-> "no", few |-> FALSE]]
         \/ /\ queue' = [queue EXCEPT !.length = @ + 1]
            /\ \/ senders' = [senders EXCEPT ![s] = [@ EXCEPT !.in = "pushed"]]
               \/ senders' = [senders EXCEPT ![s] = [in |-> "no", few |-> FALSE]]
      /\ UNCHANGED <<m_waiting_threads, threads, sent, channels, ending, failed>>
  BY DEF Pool!Push, Pool!Idle
<1>3. /\ senders \in [Streams -> [in : {"no", "looked", "pushed"}, few : BOOLEAN]]
      /\ queue \in [length : Nat, closed : BOOLEAN] /\ sent \in 0..MaxRequests /\ IsFiniteSet(Looked)
      /\ queue.length + Cardinality(Looked) <= sent
  BY DEF PoolInv, SenderInv
<1>4. senders' \in [Streams -> [in : {"no", "looked", "pushed"}, few : BOOLEAN]]
  <2>1. PICK r \in [in : {"no", "looked", "pushed"}, few : BOOLEAN] : senders' = [senders EXCEPT ![s] = r]
    <3>1. senders[s] \in [in : {"no", "looked", "pushed"}, few : BOOLEAN]
      BY <1>3
    <3>2. [senders[s] EXCEPT !.in = "pushed"] \in [in : {"no", "looked", "pushed"}, few : BOOLEAN]
      BY <3>1
    <3>3. [in |-> "no", few |-> FALSE] \in [in : {"no", "looked", "pushed"}, few : BOOLEAN]
      OBVIOUS
    <3> QED
      BY <1>2, <3>2, <3>3
  <2> QED
    BY <1>3, <2>1
<1>5. Looked' = Looked \ {s} /\ s \in Looked
  BY <1>2, <1>3 DEF Looked
<1>6. /\ IsFiniteSet(Looked \ {s}) /\ Cardinality(Looked \ {s}) = Cardinality(Looked) - 1
      /\ Cardinality(Looked) \in Nat
  BY <1>3, <1>5, FS_RemoveElement, FS_CardinalityType
<1>7. /\ queue' \in [length : Nat, closed : BOOLEAN] /\ queue'.closed = queue.closed
      /\ queue'.length <= queue.length + 1
  BY <1>2, <1>3
<1>8. queue'.length + Cardinality(Looked \ {s}) <= sent
  BY <1>3, <1>6, <1>7
<1>9. SenderInv'
  BY <1>2, <1>3, <1>4, <1>5, <1>6, <1>7, <1>8 DEF PoolInv, SenderInv
<1> QED
  BY <1>2, <1>7, <1>9, ThreadsRest DEF PoolInv

\* It starts a thread, if one can be had.
LEMMA StartKeeps == ASSUME PoolInv, NEW s \in Streams, Pool!Start(s) PROVE PoolInv'
<1>2. /\ senders[s].in = "pushed"
      /\ senders' = [senders EXCEPT ![s] = [in |-> "no", few |-> FALSE]]
      /\ Pool!Goes("none", FALSE, "started") \/ UNCHANGED threads
      /\ UNCHANGED <<m_waiting_threads, queue, sent, channels, ending, failed>>
  BY DEF Pool!Start, Pool!Idle
<1>3. /\ senders \in [Streams -> [in : {"no", "looked", "pushed"}, few : BOOLEAN]]
      /\ m_waiting_threads \in Nat /\ failed <= MaxFailed
  BY PoolTyped, HandlerAssumption DEF PoolInv, SenderInv, Pool!TypeOK
<1>4. senders' \in [Streams -> [in : {"no", "looked", "pushed"}, few : BOOLEAN]]
  BY <1>2, <1>3, HandlerAssumption
<1>5. Looked' = Looked
  BY <1>2, <1>3 DEF Looked
<1>6. SenderInv'
  BY <1>2, <1>4, <1>5 DEF PoolInv, SenderInv
<1>7. ThreadInv'
  <2>1. CASE UNCHANGED threads
    BY <1>2, <2>1, ThreadsRest DEF PoolInv
  <2>2. CASE Pool!Goes("none", FALSE, "started")
    <3>1. "none" \in Pool!Doing /\ "started" \in Pool!Doing
      BY DEF Pool!Doing
    <3>2. Waits("none") = 0 /\ Waits("started") = 0
      BY DEF Waits, One
    <3>3. m_waiting_threads' = m_waiting_threads - Waits("none") + Waits("started")
      BY <1>2, <1>3, <3>2
    <3> QED
      BY <1>2, <1>3, <2>2, <3>1, <3>3, ThreadGoes
  <2> QED
    BY <1>2, <2>1, <2>2
<1> QED
  BY <1>6, <1>7 DEF PoolInv

\* The pop of a thread: what it got, it has not yet counted itself out.
LEMMA PopKeeps == ASSUME PoolInv, NEW own \in BOOLEAN, Pool!Pop(own) PROVE PoolInv'
<1>1. /\ m_waiting_threads \in Nat /\ queue \in [length : Nat, closed : BOOLEAN]
      /\ IsFiniteSet(Looked) /\ queue.length + Cardinality(Looked) <= sent /\ sent \in Nat
  BY PoolTyped DEF PoolInv, SenderInv, Pool!TypeOK
<1>2. UNCHANGED <<m_waiting_threads, senders, sent, channels, ending>>
  BY DEF Pool!Pop
<1>3. PICK e \in {"got", "ends", "timed_out"} :
         /\ Pool!Goes("waits", own, e)
         /\ failed' = failed + 1 \/ (failed' = failed /\ (e = "ends" => queue.closed))
         /\ UNCHANGED queue \/ (queue.length > 0 /\ queue' = [queue EXCEPT !.length = @ - 1])
  BY DEF Pool!Pop
<1>4. "waits" \in Pool!Doing /\ e \in Pool!Doing /\ e # "waits" /\ e # "none"
  BY DEF Pool!Doing
<1>5. Waits("waits") = 1 /\ Waits(e) = 1
  BY DEF Waits, One
<1>6. m_waiting_threads' = m_waiting_threads - Waits("waits") + Waits(e)
  BY <1>1, <1>2, <1>5
<1>7. /\ queue' \in [length : Nat, closed : BOOLEAN] /\ queue'.closed = queue.closed
      /\ queue'.length <= queue.length
  BY <1>1, <1>3
<1>8. ThreadInv'
  <2>1. failed' <= MaxFailed /\ failed' \in {failed, failed + 1}
    BY PoolTyped, HandlerAssumption DEF Pool!Pop, Pool!TypeOK
  <2> QED
    BY <1>3, <1>4, <1>6, <1>7, <2>1, ThreadGoes
<1>9. SenderInv'
  <2>1. Looked' = Looked
    BY <1>2 DEF Looked
  <2>2. Cardinality(Looked) \in Nat
    BY <1>1, FS_CardinalityType
  <2>3. queue'.length + Cardinality(Looked) <= sent
    BY <1>1, <1>7, <2>2
  <2> QED
    BY <1>2, <1>7, <2>1, <2>3 DEF PoolInv, SenderInv
<1> QED
  BY <1>8, <1>9 DEF PoolInv

\* The thread counts itself out and decides: that more than two others wait still,
\* though each of them may be deciding as well, leaves at least two.
LEMMA PoppedKeeps ==
    ASSUME PoolInv, NEW d \in {"got", "timed_out", "ends"}, NEW own \in BOOLEAN, Pool!Popped(d, own)
    PROVE  PoolInv'
<1>1. m_waiting_threads \in Nat /\ m_waiting_threads = Waiters /\ threads \in Kinds
  BY PoolTyped DEF PoolInv, ThreadInv, Pool!TypeOK
<1>2. m_waiting_threads' = m_waiting_threads - 1 /\ UNCHANGED <<queue, senders, sent, channels, ending, failed>>
  BY DEF Pool!Popped
<1>3. PICK e \in {"serves", "none", "loops"} :
         Pool!Goes(d, own, e) /\ (e = "none" => d = "ends" \/ m_waiting_threads - 1 > 2)
  BY DEF Pool!Popped, Pool!tooMany
<1>4. d \in Pool!Doing /\ e \in Pool!Doing /\ e # d /\ e # "ends"
  BY DEF Pool!Doing
<1>5. Waits(d) = 1 /\ Waits(e) = 0
  BY DEF Waits, One
<1>6. m_waiting_threads' = m_waiting_threads - Waits(d) + Waits(e)
  BY <1>1, <1>2, <1>5
<1>7. ASSUME ~queue.closed, e = "none", d # "ends" PROVE Lasting >= 3
  <2>1. Both("ends") <= failed /\ failed \in 0..MaxFailed
    BY <1>7 DEF PoolInv, ThreadInv
  <2>2. Threads >= Waiters /\ Threads \in Nat /\ "ends" \in Pool!Doing
    BY <1>1, <1>3, <1>4, Moves DEF Pool!Doing
  <2>3. Both("ends") \in Nat
    BY <1>1, <2>2, Counts
  <2>4. Threads >= 4
    BY <1>1, <1>3, <1>7, <2>2
  <2> QED
    BY <2>1, <2>2, <2>3, <2>4, HandlerAssumption DEF Lasting
<1>8. failed \in 0..MaxFailed /\ failed <= MaxFailed
  BY HandlerAssumption DEF PoolInv, ThreadInv
<1>9. ThreadInv'
  BY <1>2, <1>3, <1>4, <1>6, <1>7, <1>8, ThreadGoes
<1> QED
  BY <1>2, <1>9, SendersRest DEF PoolInv

\* A thread that does not wait for a request goes on to what is no end either, or leaves
\* for an error.
LEMMA GoesKeeps ==
    ASSUME PoolInv, NEW d \in {"started", "serves", "calls"}, NEW e \in {"none", "loops", "serves", "calls"},
           d # e, NEW own \in BOOLEAN, Pool!Goes(d, own, e),
           failed' \in {failed, failed + 1}, failed' <= MaxFailed, e = "none" => failed' = failed + 1,
           UNCHANGED <<m_waiting_threads, queue, senders, sent, channels, ending>>
    PROVE  PoolInv'
<1>1. m_waiting_threads \in Nat
  BY PoolTyped DEF PoolInv, ThreadInv, Pool!TypeOK
<1>2. d \in Pool!Doing /\ e \in Pool!Doing /\ e # "ends"
  BY DEF Pool!Doing
<1>3. Waits(d) = 0 /\ Waits(e) = 0
  BY DEF Waits, One
<1>4. m_waiting_threads' = m_waiting_threads - Waits(d) + Waits(e)
  BY <1>1, <1>3
<1>5. ThreadInv'
  BY <1>2, <1>4, ThreadGoes
<1> QED
  BY <1>5, SendersRest DEF PoolInv

\* The thread counts itself in.
LEMMA LoopKeeps == ASSUME PoolInv, NEW own \in BOOLEAN, Pool!Loop(own) PROVE PoolInv'
<1>1. m_waiting_threads \in Nat
  BY PoolTyped DEF PoolInv, ThreadInv, Pool!TypeOK
<1>2. /\ Pool!Goes("loops", own, "waits") /\ m_waiting_threads' = m_waiting_threads + 1
      /\ UNCHANGED <<queue, senders, sent, channels, ending, failed>>
  BY DEF Pool!Loop
<1>3. "loops" \in Pool!Doing /\ "waits" \in Pool!Doing
  BY DEF Pool!Doing
<1>4. Waits("loops") = 0 /\ Waits("waits") = 1
  BY DEF Waits, One
<1>5. m_waiting_threads' = m_waiting_threads - Waits("loops") + Waits("waits")
  BY <1>1, <1>2, <1>4
<1>6. failed <= MaxFailed
  BY HandlerAssumption DEF PoolInv, ThreadInv
<1>7. ThreadInv'
  BY <1>2, <1>3, <1>5, <1>6, ThreadGoes
<1> QED
  BY <1>2, <1>7, SendersRest DEF PoolInv

\* The queues of the threads are closed: as many do what they did.
LEMMA CloseKeeps == ASSUME PoolInv, Pool!CloseContexts PROVE PoolInv'
<1>1. threads \in Kinds
  BY DEF PoolInv, ThreadInv
<1>2. /\ threads' = Pool!closedOwn /\ ending' = "contexts"
      /\ UNCHANGED <<m_waiting_threads, queue, senders, sent, channels, failed>>
  BY DEF Pool!CloseContexts
<1>3. \A d \in Pool!Doing : Both(d) \in Nat /\ Pool!In({d}) = Both(d)
  BY <1>1, Counts, SumsAre
<1>4. \A d \in Pool!Doing : <<d, FALSE>> \in Pool!Doing \X BOOLEAN /\ <<d, TRUE>> \in Pool!Doing \X BOOLEAN
  OBVIOUS
<1>5. \A d \in Pool!Doing :
         /\ threads'[<<d, FALSE>>] = IF d \in Pool!Enters THEN threads[<<d, FALSE>>] ELSE 0
         /\ threads'[<<d, TRUE>>] = IF d \in Pool!Enters THEN threads[<<d, TRUE>>] ELSE Both(d)
  <2>1. \A k \in Pool!Doing \X BOOLEAN :
           threads'[k] = IF k[1] \in Pool!Enters THEN threads[k] ELSE IF k[2] THEN Pool!In({k[1]}) ELSE 0
    BY <1>2 DEF Pool!closedOwn
  <2> SUFFICES ASSUME NEW d \in Pool!Doing
               PROVE /\ threads'[<<d, FALSE>>] = IF d \in Pool!Enters THEN threads[<<d, FALSE>>] ELSE 0
                     /\ threads'[<<d, TRUE>>] = IF d \in Pool!Enters THEN threads[<<d, TRUE>>] ELSE Both(d)
    OBVIOUS
  <2>2. Pool!In({d}) = Both(d)
    BY <1>3
  <2>3. threads'[<<d, FALSE>>] = IF d \in Pool!Enters THEN threads[<<d, FALSE>>] ELSE 0
    BY <1>4, <2>1
  <2>4. threads'[<<d, TRUE>>] = IF d \in Pool!Enters THEN threads[<<d, TRUE>>] ELSE Pool!In({d})
    BY <1>4, <2>1
  <2> QED
    BY <2>2, <2>3, <2>4
<1>6. threads' \in Kinds
  <2>1. threads' = [k \in Pool!Doing \X BOOLEAN |-> threads'[k]]
    BY <1>2 DEF Pool!closedOwn
  <2>2. ASSUME NEW k \in Pool!Doing \X BOOLEAN PROVE threads'[k] \in Nat
    <3>1. PICK d \in Pool!Doing, b \in BOOLEAN : k = <<d, b>>
      OBVIOUS
    <3>2. threads[<<d, FALSE>>] \in Nat /\ threads[<<d, TRUE>>] \in Nat /\ Both(d) \in Nat
      BY <1>1, <1>3, <1>4 DEF Kinds
    <3>3. threads'[<<d, FALSE>>] \in Nat /\ threads'[<<d, TRUE>>] \in Nat
      <4>1. /\ threads'[<<d, FALSE>>] \in {threads[<<d, FALSE>>], 0}
            /\ threads'[<<d, TRUE>>] \in {threads[<<d, TRUE>>], Both(d)}
        BY <1>5
      <4> QED
        BY <3>2, <4>1
    <3>4. CASE b = FALSE
      BY <3>1, <3>3, <3>4
    <3>5. CASE b = TRUE
      BY <3>1, <3>3, <3>5
    <3> QED
      BY <3>4, <3>5
  <2> QED
    BY <2>1, <2>2 DEF Kinds
<1>7. \A d \in Pool!Doing : Both(d)' = Both(d)
  <2> SUFFICES ASSUME NEW d \in Pool!Doing PROVE Both(d)' = Both(d)
    OBVIOUS
  <2>1. Both(d)' = threads'[<<d, FALSE>>] + threads'[<<d, TRUE>>]
    BY DEF Both
  <2>2. CASE d \in Pool!Enters
    <3>1. threads'[<<d, FALSE>>] = threads[<<d, FALSE>>] /\ threads'[<<d, TRUE>>] = threads[<<d, TRUE>>]
      BY <1>5, <2>2
    <3> QED
      BY <2>1, <3>1 DEF Both
  <2>3. CASE d \notin Pool!Enters
    <3>1. threads'[<<d, FALSE>>] = 0 /\ threads'[<<d, TRUE>>] = Both(d) /\ Both(d) \in Nat
      BY <1>3, <1>5, <2>3
    <3> QED
      BY <2>1, <3>1
  <2> QED
    BY <2>2, <2>3
<1>8. Waiters' = Waiters /\ Threads' = Threads /\ Both("none")' = Both("none") /\ Both("ends")' = Both("ends")
  BY <1>7 DEF Waiters, Threads, Pool!Doing
<1>9. ThreadInv'
  BY <1>2, <1>6, <1>8 DEF PoolInv, ThreadInv, Lasting
<1>10. SenderInv'
  BY <1>2 DEF PoolInv, SenderInv, Looked
<1> QED
  BY <1>9, <1>10 DEF PoolInv

LEMMA PoolStep == ASSUME PoolInv, Pool!Next PROVE PoolInv'
<1>0. failed \in 0..MaxFailed /\ failed <= MaxFailed /\ (failed < MaxFailed => failed + 1 <= MaxFailed)
  BY HandlerAssumption DEF PoolInv, ThreadInv
<1>1. CASE Pool!Enter
  BY <1>0, <1>1, GoesKeeps DEF Pool!Enter
<1>2. ASSUME NEW own \in BOOLEAN, Pool!Done(own) PROVE PoolInv'
  BY <1>0, <1>2, GoesKeeps DEF Pool!Done
<1>3. ASSUME NEW own \in BOOLEAN, Pool!Ends(own) PROVE PoolInv'
  BY <1>0, <1>3, GoesKeeps DEF Pool!Ends
<1>4. ASSUME NEW own \in BOOLEAN, Pool!wait_for_response(own) PROVE PoolInv'
  BY <1>0, <1>4, GoesKeeps DEF Pool!wait_for_response
<1>5. CASE Pool!shutdown_channels \/ Pool!on_accept
  <2>1. channels' \in {"shut", "again"}
        /\ UNCHANGED <<m_waiting_threads, threads, queue, senders, sent, ending, failed>>
    BY <1>5 DEF Pool!shutdown_channels, Pool!on_accept
  <2>2. SenderInv'
    BY <2>1 DEF PoolInv, SenderInv, Looked
  <2> QED
    BY <2>1, <2>2, ThreadsRest DEF PoolInv
<1>6. CASE Pool!CloseQueue
  <2>1. /\ ending' = "queue" /\ queue' = [queue EXCEPT !.closed = TRUE]
        /\ UNCHANGED <<m_waiting_threads, threads, senders, sent, channels, failed>>
    BY <1>6 DEF Pool!CloseQueue
  <2>2. queue' \in [length : Nat, closed : BOOLEAN] /\ queue'.closed /\ queue'.length = queue.length
    BY <2>1 DEF PoolInv, SenderInv
  <2>3. SenderInv'
    BY <2>1, <2>2 DEF PoolInv, SenderInv, Looked
  <2> QED
    BY <2>1, <2>2, <2>3, ThreadsRest DEF PoolInv
<1>7. ASSUME NEW d \in Pool!Doing, Pool!Step(d) PROVE PoolInv'
  <2>1. \/ Pool!Enter
        \/ \E own \in BOOLEAN : \/ Pool!Loop(own) \/ Pool!Pop(own) \/ Pool!Done(own) \/ Pool!Ends(own)
                                \/ d \in {"got", "timed_out", "ends"} /\ Pool!Popped(d, own)
    BY <1>7 DEF Pool!Step
  <2> QED
    BY <1>1, <1>2, <1>3, <2>1, LoopKeeps, PopKeeps, PoppedKeeps
<1> QED
  BY <1>1, <1>4, <1>5, <1>6, <1>7, CloseKeeps, LookKeeps, PushKeeps, StartKeeps DEF Pool!Next

\* The connections and the threads leave the routing alone.
LEMMA RoutingAlways == HandlerSpec => []IInv
<1>1. HandlerInit => IInv
  BY Initially DEF HandlerInit
<1>2. [HandlerNext]_<<part, vars, connVars, poolVars>> => [Next]_vars
  BY DEF HandlerNext
<1> QED
  BY <1>1, <1>2, Inductive, PTL DEF HandlerSpec

LEMMA PoolRests == PoolInv /\ UNCHANGED poolVars => PoolInv'
BY DEF poolVars, PoolInv, ThreadInv, SenderInv, Lasting, Threads, Waiters, Looked, Both

\* What the pool is when it is the part that goes on.
LEMMA PoolAlways ==
    HandlerSpec => [](part \in {"routing", "connections", "pool"} /\ (part = "pool" => PoolInv))
<1> DEFINE Inv == part \in {"routing", "connections", "pool"} /\ (part = "pool" => PoolInv)
<1>1. HandlerInit => Inv
  BY PoolInit DEF HandlerInit
<1>2. Inv /\ [HandlerNext]_<<part, vars, connVars, poolVars>> => Inv'
  <2> SUFFICES ASSUME Inv, [HandlerNext]_<<part, vars, connVars, poolVars>> PROVE Inv'
    OBVIOUS
  <2>1. part' = part /\ (part = "pool" => Pool!Next \/ UNCHANGED poolVars)
    BY DEF HandlerNext
  <2>2. ASSUME part = "pool" PROVE PoolInv'
    BY <2>1, <2>2, PoolStep, PoolRests
  <2> HIDE DEF PoolInv
  <2> QED
    BY <2>1, <2>2
<1> HIDE DEF Inv
<1>3. HandlerSpec => []Inv
  BY <1>1, <1>2, PTL DEF HandlerSpec
<1> QED
  BY <1>3 DEF Inv

\* The tables and wires, the connections and the pool are of their types. Of the pool:
\* m_waiting_threads is the number of threads that wait or have yet to count themselves
\* out, whatever order they are popped, timed out and closed in and however many leave
\* for an error; and as the decision to leave is taken on the count that is left, two
\* threads at least stay until the queue is closed, but for those that an error has
\* taken, for any number that time out together and of requests (pump_requests,
\* process_request_context, queue_message, stop_request_threads).
THEOREM HandlerTypes == HandlerSpec => []HandlerTypeOK
<1>1. IInv /\ ConnsInv /\ part \in {"routing", "connections", "pool"} /\ (part = "pool" => PoolInv)
      => HandlerTypeOK
  BY TypesFollow, PoolTyped DEF ConnsInv, HandlerTypeOK
<1> QED
  BY <1>1, RoutingAlways, ConnsAlways, PoolAlways, PTL

\* What TypesHold, OnlyTheSandboxCrosses and ClosesAreTrue say of the routing is so in a
\* handler that has connections and threads as well.
THEOREM HandlerRoutes == HandlerSpec => [](OnlySandboxAcrossRoot /\ CloseIsTrue)
<1>1. IInv => OnlySandboxAcrossRoot
  BY SandboxFollows
<1>2. IInv => CloseIsTrue
  BY TruthFollows
<1> QED
  BY <1>1, <1>2, RoutingAlways, PTL

================================================================================
