---------------------------- MODULE SafeShimsProofs ----------------------------
(***************************************************************************)
(* What SafeShims promises, by the invariant of SafeShimsReleases: that it *)
(* holds at first, that the steps which find, make, hand over and list a   *)
(* shim keep it, and that an object has one identity, nothing dangles and  *)
(* nothing leaks by it.                                                    *)
(***************************************************************************)
EXTENDS SafeShimsReleases

-----------------------------------------------------------------------------
\* The other steps: a call becomes another by what is put on what its first operation
\* leaves.
Grows(r, q, a) ==
    /\ r \in Seq(Ops) /\ q \in Seq(Ops) /\ a \in Ops /\ Len(r) \in Nat /\ Len(q) = Len(r) + 1
    /\ \A j \in 1..Len(r) : Place(q, j) = Place(r, j)
    /\ Place(q, Len(r) + 1) = a

\* A list with one more in front.
LEMMA PushGrows ==
    ASSUME NEW r \in Seq(Ops), NEW a \in Ops
    PROVE  Grows(r, <<a>> \o r, a)
<1>1. Len(r) \in Nat
  OBVIOUS
<1> QED
  BY <1>1, Pushed DEF Grows

\* Which operations are in a list with one more in front.
LEMMA GrowsHas ==
    ASSUME NEW r, NEW q, NEW a, Grows(r, q, a), NEW n
    PROVE  HasIn(q, n) <=> a.op = n \/ HasIn(r, n)
<1>1. /\ Len(r) \in Nat /\ Len(q) = Len(r) + 1 /\ Place(q, Len(r) + 1) = a
      /\ \A j \in 1..Len(r) : Place(q, j) = Place(r, j)
  BY DEF Grows
<1>2. 1..Len(q) = (1..Len(r)) \cup {Len(r) + 1}
  BY <1>1
<1> QED
  BY <1>1, <1>2 DEF HasIn

\* How the thread's list changes by a step.
LEMMA Goings ==
    ASSUME ShimInv, NEW t \in Threads, NEW n, Now(t, n)
    PROVE  LET r == Tail(todo[t]) IN
           /\ Grows(r, todo[t], Op(n, Arg(t)))
           /\ Then(t, <<>>) => todo'[t] = r
           /\ \A a \in Ops : Then(t, <<a>>) => Grows(r, todo'[t], a)
           /\ \A a, b \in Ops : Then(t, <<a, b>>) => Grows(r, <<b>> \o r, b) /\ Grows(<<b>> \o r, todo'[t], a)
           /\ \A os : Then(t, os) => \A u \in Threads : u # t => todo'[u] = todo[u]
<1> DEFINE r == Tail(todo[t])
<1>1. Current(t, n) /\ todo \in Lists /\ todo[t] \in Seq(Ops) /\ todo[t] # <<>>
  BY NowIs DEF Current, ShimInv, ShimTypes, Lists
<1>2. /\ r \in Seq(Ops) /\ Len(r) = Len(todo[t]) - 1
      /\ \A j \in 1..(Len(todo[t]) - 1) : Place(r, j) = Place(todo[t], j)
      /\ Place(todo[t], Len(todo[t])) = Op(n, Arg(t)) /\ Op(n, Arg(t)) \in Ops
      /\ Len(todo[t]) \in Nat \ {0}
  BY <1>1, Popped DEF Current
<1>3. Grows(r, todo[t], Op(n, Arg(t)))
  <2> HIDE DEF r
  <2>1. Len(r) \in Nat /\ Len(todo[t]) = Len(r) + 1 /\ Len(todo[t]) - 1 = Len(r)
    BY <1>2
  <2> QED
    BY <1>1, <1>2, <2>1 DEF Grows
<1>4. \A os : Then(t, os) => todo' = [todo EXCEPT ![t] = os \o r]
  BY DEF Then
<1>5. \A os : Then(t, os) => todo'[t] = os \o r /\ \A u \in Threads : u # t => todo'[u] = todo[u]
  BY <1>1, <1>4 DEF Lists
<1>6. <<>> \o r = r
  BY <1>2, ConcatEmptySeq
<1> HIDE DEF r
<1>7. \A a \in Ops : Then(t, <<a>>) => Grows(r, todo'[t], a)
  BY <1>2, <1>5, PushGrows
<1>8. ASSUME NEW a \in Ops, NEW b \in Ops, Then(t, <<a, b>>)
      PROVE  Grows(r, <<b>> \o r, b) /\ Grows(<<b>> \o r, todo'[t], a)
  <2>1. Grows(r, <<b>> \o r, b)
    BY <1>2, PushGrows
  <2>2. <<b>> \o r \in Seq(Ops)
    BY <2>1 DEF Grows
  <2>3. todo'[t] = <<a, b>> \o r
    BY <1>5, <1>8
  <2>4. <<a, b>> \o r = <<a>> \o (<<b>> \o r)
    BY <1>2, TwoOn
  <2> QED
    BY <2>1, <2>2, <2>3, <2>4, PushGrows
<1>9. Then(t, <<>>) => todo'[t] = r
  BY <1>5, <1>6
<1> QED
  BY <1>3, <1>5, <1>7, <1>8, <1>9 DEF r

\* What is below the first operation.
RestAt(q, h, w, j) ==
    LET o == Place(q, j) IN
    /\ o.op \notin Foremost
    /\ o.op = "bind" => j = 3 /\ Gives(q, h)
    /\ o.op = "new_proxy" => j = 2 /\ Place(q, 1).op = "release_shim" /\ w = Nothing /\ Len(q) = 2
    /\ o.op = "release_shim" => j = 1 \/ (j = 2 /\ Place(q, 1).op = "release")
RestOf(q, h, w) == q \in Seq(Ops) /\ Len(q) \in Nat /\ \A j \in 1..Len(q) : RestAt(q, h, w, j)

\* What is behind a foremost operation has none.
LEMMA RestHas ==
    ASSUME NEW q, NEW h, NEW w, RestOf(q, h, w)
    PROVE  (\A n \in Foremost : ~HasIn(q, n)) /\ ~Shimless(q)
<1>1. \A n \in Foremost : ~HasIn(q, n)
  BY DEF RestOf, RestAt, HasIn
<1> QED
  BY <1>1 DEF Shimless, Foremost

\* What is left of a call after its head has the form of a rest.
LEMMA TailRest ==
    ASSUME NEW q, NEW r, NEW a, Grows(r, q, a), NEW s, NEW h, NEW w, ShapeOf(q, s, h, w)
    PROVE  RestOf(r, h, w)
<1>1. /\ r \in Seq(Ops) /\ Len(r) \in Nat /\ Len(q) = Len(r) + 1 /\ Place(q, Len(r) + 1) = a
      /\ \A j \in 1..Len(r) : Place(q, j) = Place(r, j)
  BY DEF Grows
<1>2. ASSUME NEW j \in 1..Len(r) PROVE RestAt(r, h, w, j)
  <2>1. j \in 1..Len(q) /\ j # Len(q) /\ j \in Nat /\ j >= 1 /\ j <= Len(r)
    BY <1>1
  <2>2. ShapeAt(q, s, h, w, j) /\ Place(q, j) = Place(r, j)
    BY <1>1, <2>1 DEF ShapeOf
  <2>3. Place(r, j).op \notin Foremost
    BY <2>1, <2>2 DEF ShapeAt
  <2>4. j >= 2 => Place(q, 1) = Place(r, 1)
    BY <1>1, <2>1
  <2>5. j >= 3 => Place(q, 2) = Place(r, 2)
    BY <1>1, <2>1
  <2>6. Place(r, j).op = "bind" => j = 3 /\ Gives(r, h)
    BY <2>2, <2>4, <2>5 DEF ShapeAt, Gives
  <2>7. Place(r, j).op = "new_proxy" => j = 2 /\ Place(r, 1).op = "release_shim" /\ w = Nothing /\ Len(r) = 2
    <3>1. SUFFICES ASSUME Place(r, j).op = "new_proxy"
                   PROVE j = 2 /\ Place(r, 1).op = "release_shim" /\ w = Nothing /\ Len(r) = 2
      OBVIOUS
    <3>2. /\ j = 2 /\ Place(q, 1).op = "release_shim" /\ w = Nothing
          /\ Len(q) = 2 \/ Len(q) = 3
      BY <2>2, <3>1 DEF ShapeAt
    <3>3. Len(q) = Len(r) + 1 /\ Len(r) \in Nat /\ 2 <= Len(r)
      BY <1>1, <2>1, <3>2
    <3>6. \A m \in Nat : 2 <= m /\ (m + 1 = 2 \/ m + 1 = 3) => m = 2
      OBVIOUS
    <3>4. Len(r) = 2
      <4>1. Len(r) + 1 = 2 \/ Len(r) + 1 = 3
        BY <3>2, <3>3
      <4> QED
        BY <3>3, <3>6, <4>1
    <3>5. Place(q, 1) = Place(r, 1)
      BY <2>4, <3>2
    <3> QED
      BY <3>2, <3>4, <3>5
  <2>8. Place(r, j).op = "release_shim" => j = 1 \/ (j = 2 /\ Place(r, 1).op = "release")
    BY <2>2, <2>4 DEF ShapeAt
  <2> QED
    BY <2>3, <2>6, <2>7, <2>8 DEF RestAt
<1> QED
  BY <1>1, <1>2 DEF RestOf

\* A rest has the form of a call.
LEMMA RestShape ==
    ASSUME NEW q, NEW h, NEW w, RestOf(q, h, w), NEW s,
           HasIn(q, "release_shim") => s \in Stubs, s # 0 => HasIn(q, "release_shim")
    PROVE  ShapeOf(q, s, h, w)
<1>1. \A n \in Foremost : ~HasIn(q, n)
  BY RestHas
<1>2. ASSUME NEW j \in 1..Len(q) PROVE ShapeAt(q, s, h, w, j)
  <2>1. RestAt(q, h, w, j)
    BY DEF RestOf
  <2>2. Place(q, j).op = "release_shim" => s \in Stubs
    BY DEF HasIn
  <2> QED
    BY <2>1, <2>2 DEF RestAt, ShapeAt, Foremost
<1> QED
  BY <1>1, <1>2 DEF ShapeOf, Foremost

\* A foremost operation in front of a rest has the form of a call when it fits there.
LEMMA PushRest ==
    ASSUME NEW r, NEW q, NEW a, Grows(r, q, a), NEW h, NEW w, RestOf(r, h, w), NEW s,
           HasIn(r, "new_proxy") => a.op = "new_stub",
           ShapeAt(q, s, h, w, Len(q)),
           s # 0 => HasIn(q, "release_shim") /\ a.op \notin {"find", "new_stub"},
           ~Shimless(q) /\ HasIn(q, "release_shim") => s \in Stubs
    PROVE  ShapeOf(q, s, h, w)
<1>1. /\ r \in Seq(Ops) /\ Len(r) \in Nat /\ Len(q) = Len(r) + 1 /\ Place(q, Len(r) + 1) = a
      /\ \A j \in 1..Len(r) : Place(q, j) = Place(r, j)
  BY DEF Grows
<1>2. ASSUME NEW j \in 1..Len(q), j # Len(q) PROVE ShapeAt(q, s, h, w, j)
  <2>1. j \in 1..Len(r) /\ j \in Nat /\ j >= 1 /\ j <= Len(r)
    BY <1>1, <1>2
  <2>2. RestAt(r, h, w, j) /\ Place(q, j) = Place(r, j)
    BY <1>1, <2>1 DEF RestOf
  <2>3. Place(q, j).op \notin Foremost
    BY <2>2 DEF RestAt
  <2>4. j >= 2 => Place(q, 1) = Place(r, 1)
    BY <1>1, <2>1
  <2>5. j >= 3 => Place(q, 2) = Place(r, 2)
    BY <1>1, <2>1
  <2>6. Place(q, j).op = "bind" => j = 3 /\ Gives(q, h)
    BY <2>2, <2>4, <2>5 DEF RestAt, Gives
  <2>7. Place(q, j).op = "new_proxy" => /\ j = 2 /\ Place(q, 1).op = "release_shim" /\ w = Nothing
                                        /\ Len(q) = 3 /\ Place(q, 3).op = "new_stub"
    <3>1. SUFFICES ASSUME Place(q, j).op = "new_proxy"
                   PROVE  /\ j = 2 /\ Place(q, 1).op = "release_shim" /\ w = Nothing
                          /\ Len(q) = 3 /\ Place(q, 3).op = "new_stub"
      OBVIOUS
    <3>2. j = 2 /\ Place(r, 1).op = "release_shim" /\ w = Nothing /\ Len(r) = 2
      BY <2>2, <3>1 DEF RestAt
    <3>3. HasIn(r, "new_proxy")
      BY <2>1, <2>2, <3>1 DEF HasIn
    <3>4. Len(q) = 3 /\ Place(q, 3) = a
      BY <1>1, <3>2
    <3> QED
      BY <2>4, <3>2, <3>3, <3>4
  <2>8. Place(q, j).op = "release_shim" => /\ j = 1 \/ (j = 2 /\ Place(q, 1).op = "release")
                                           /\ ~Shimless(q) => s \in Stubs
    <3>1. Place(q, j).op = "release_shim" => HasIn(q, "release_shim")
      BY DEF HasIn
    <3> QED
      BY <2>2, <2>4, <3>1 DEF RestAt
  <2> QED
    BY <2>3, <2>6, <2>7, <2>8 DEF ShapeAt, Foremost
<1>3. \A j \in 1..Len(q) : ShapeAt(q, s, h, w, j)
  BY <1>2
<1>4. s # 0 => ~HasIn(q, "find") /\ ~HasIn(q, "new_stub")
  BY RestHas, GrowsHas DEF Foremost
<1> QED
  BY <1>3, <1>4 DEF ShapeOf

\* A rest with one in front that is not foremost is a rest.
LEMMA RestOnRest ==
    ASSUME NEW r, NEW q, NEW a, Grows(r, q, a), NEW h, NEW w, RestOf(r, h, w), ~HasIn(r, "new_proxy"),
           RestAt(q, h, w, Len(q))
    PROVE  RestOf(q, h, w)
<1>1. /\ q \in Seq(Ops) /\ Len(r) \in Nat /\ Len(q) = Len(r) + 1
      /\ \A j \in 1..Len(r) : Place(q, j) = Place(r, j)
  BY DEF Grows
<1>2. ASSUME NEW j \in 1..Len(q), j # Len(q) PROVE RestAt(q, h, w, j)
  <2>1. j \in 1..Len(r) /\ j \in Nat /\ j >= 1 /\ j <= Len(r)
    BY <1>1, <1>2
  <2>2. RestAt(r, h, w, j) /\ Place(q, j) = Place(r, j)
    BY <1>1, <2>1 DEF RestOf
  <2>3. Place(q, j).op # "new_proxy"
    BY <2>1, <2>2 DEF HasIn
  <2>4. j >= 2 => Place(q, 1) = Place(r, 1)
    BY <1>1, <2>1
  <2>5. j >= 3 => Place(q, 2) = Place(r, 2)
    BY <1>1, <2>1
  <2>6. Place(q, j).op = "bind" => j = 3 /\ Gives(q, h)
    BY <2>2, <2>4, <2>5 DEF RestAt, Gives
  <2>7. Place(q, j).op = "release_shim" => j = 1 \/ (j = 2 /\ Place(q, 1).op = "release")
    BY <2>2, <2>4 DEF RestAt
  <2> QED
    BY <2>2, <2>3, <2>6, <2>7 DEF RestAt
<1>3. Len(q) \in Nat
  BY <1>1
<1> QED
  BY <1>1, <1>2, <1>3 DEF RestOf

\* One thread goes on: who else is counted, and where, stays.
OthersSame(t) ==
    \A u \in Threads : u # t =>
        todo'[u] = todo[u] /\ shim'[u] = shim[u] /\ holds'[u] = holds[u] /\ wired'[u] = wired[u]

Changed(S, T, t) ==
    /\ IsFiniteSet(S) /\ IsFiniteSet(T) /\ Cardinality(S) \in Nat /\ Cardinality(T) \in Nat
    /\ Cardinality(T) = Cardinality(S) - One(t \in S) + One(t \in T)
    /\ (t \in S <=> t \in T) => T = S

\* A finite set that changes in one member at most.
LEMMA ChangedIf ==
    ASSUME NEW S, NEW T, NEW t, IsFiniteSet(S), \A u : u # t => (u \in T <=> u \in S)
    PROVE  Changed(S, T, t)
<1>1. T \ {t} = S \ {t}
  OBVIOUS
<1>2. (t \in S <=> t \in T) => T = S
  <2>1. ASSUME t \in S <=> t \in T PROVE T = S
    <3>1. \A u : u \in T <=> u \in S
      BY <2>1
    <3> QED
      BY <3>1, Zenon
  <2> QED
    BY <2>1
<1> QED
  BY <1>1, <1>2, OneChanges DEF Changed

\* Who is counted changes in the one thread at most that goes on.
LEMMA SizesMove ==
    ASSUME ShimInv, ~late, NEW t \in Threads, OthersSame(t)
    PROVE  /\ \A x \in Proxies \cup {Object} : Changed(HandsOf(x), HandsOf(x)', t)
           /\ \A p \in Proxies : Changed(AddsOf(p), AddsOf(p)', t) /\ Changed(WiresOf(p), WiresOf(p)', t)
           /\ \A s \in Stubs : Changed(ShimsAt(s), ShimsAt(s)', t)
<1>1. ASSUME NEW u \in Threads, u # t
      PROVE  /\ \A n : Has(u, n)' <=> Has(u, n)
             /\ Hold(u)' = Hold(u) /\ todo'[u] = todo[u] /\ shim'[u] = shim[u] /\ wired'[u] = wired[u]
  BY <1>1 DEF OthersSame, Has, Hold
<1>2. \A u \in Threads : u # t => (Handing(u)' <=> Handing(u))
  BY <1>1 DEF Handing
<1>3. ASSUME NEW x \in Proxies \cup {Object} PROVE Changed(HandsOf(x), HandsOf(x)', t)
  <2>1. IsFiniteSet(HandsOf(x))
    BY DEF ShimInv, Sums, ObjectSum, ProxySum
  <2>2. \A u : u # t => (u \in HandsOf(x)' <=> u \in HandsOf(x))
    BY <1>1, <1>2 DEF HandsOf
  <2> QED
    BY <2>1, <2>2, ChangedIf
<1>4. ASSUME NEW p \in Proxies PROVE Changed(AddsOf(p), AddsOf(p)', t) /\ Changed(WiresOf(p), WiresOf(p)', t)
  <2>1. IsFiniteSet(AddsOf(p)) /\ IsFiniteSet(WiresOf(p))
    BY DEF ShimInv, Sums, ProxySum
  <2>2. \A u : u # t => (u \in AddsOf(p)' <=> u \in AddsOf(p))
    BY <1>1 DEF AddsOf
  <2>3. \A u : u # t => (u \in WiresOf(p)' <=> u \in WiresOf(p))
    BY <1>1 DEF WiresOf
  <2>4. Changed(AddsOf(p), AddsOf(p)', t)
    BY <2>1, <2>2, ChangedIf
  <2>5. Changed(WiresOf(p), WiresOf(p)', t)
    BY <2>1, <2>3, ChangedIf
  <2> QED
    BY <2>4, <2>5
<1>5. ASSUME NEW s \in Stubs PROVE Changed(ShimsAt(s), ShimsAt(s)', t)
  <2>1. IsFiniteSet(ShimsAt(s))
    BY DEF ShimInv, Sums, StubSum
  <2>2. \A u : u # t => (u \in ShimsAt(s)' <=> u \in ShimsAt(s))
    BY <1>1 DEF ShimsAt
  <2> QED
    BY <2>1, <2>2, ChangedIf
<1> QED
  BY <1>3, <1>4, <1>5

\* What is left to show of a step of a call.
LEMMA CallStep ==
    ASSUME ShimInv, ~late, NEW t \in Threads, OthersSame(t), late' = late, ShimTypes', Counted(todo'),
           ShapeOf(todo[t], shim[t], holds[t], wired[t])', Linked(t)',
           ObjectSum', \A s \in Stubs : StubSum(s)', \A p \in Proxies : ProxySum(p)',
           Maps', Pins', \A u \in Threads : u # t => Steady(u), Kept'
    PROVE  ShimInv'
<1>1. ASSUME NEW u \in Threads, u # t
      PROVE  ShapeOf(todo[u], shim[u], holds[u], wired[u])' /\ Linked(u)'
  <2>1. todo'[u] = todo[u] /\ shim'[u] = shim[u] /\ holds'[u] = holds[u] /\ wired'[u] = wired[u]
    BY <1>1 DEF OthersSame
  <2>2. ShapeOf(todo[u], shim[u], holds[u], wired[u])
    BY DEF ShimInv, Shapes
  <2>3. SameCall(u)
    BY <2>1 DEF SameCall
  <2> QED
    BY <1>1, <2>1, <2>2, <2>3, LinkedStill
<1>2. Shapes' /\ \A u \in Threads : Linked(u)'
  BY <1>1 DEF Shapes
<1> QED
  BY <1>2, Assembled

Counting == Releasing \cup {"Unpin_proxy"}
StillWaits == \A o \in Ops : o.op \in Counting => Waits(todo', o) = Waits(todo, o)

\* A step that brings nothing about that counts changes no count.
LEMMA StillWaiting ==
    ASSUME NEW t, NEW n, n \notin Counting
    PROVE  /\ Goes0(t, n) => StillWaits
           /\ \A a : Goes1(t, n, a) /\ a.op \notin Counting => StillWaits
           /\ \A a, b : Goes2(t, n, a, b) /\ a.op \notin Counting /\ b.op \notin Counting => StillWaits
<1>1. \A o \in Ops : o.op \in Counting => o # Op(n, Arg(t))
  BY OpsAre
<1>2. ASSUME NEW a, a.op \notin Counting PROVE \A o \in Ops : o.op \in Counting => o # a
  BY <1>2
<1>3. Goes0(t, n) => StillWaits
  BY <1>1 DEF Goes0, StillWaits, One
<1>4. ASSUME NEW a, Goes1(t, n, a), a.op \notin Counting PROVE StillWaits
  BY <1>1, <1>2, <1>4 DEF Goes1, StillWaits, One
<1>5. ASSUME NEW a, NEW b, Goes2(t, n, a, b), a.op \notin Counting, b.op \notin Counting PROVE StillWaits
  <2>1. \A o \in Ops : o.op \in Counting => o # a /\ o # b
    BY <1>2, <1>5
  <2> QED
    BY <1>1, <1>5, <2>1 DEF Goes2, StillWaits, One
<1> QED
  BY <1>3, <1>4, <1>5

\* The same for each operation that counts.
LEMMA StillWaitsFor ==
    ASSUME StillWaits
    PROVE  /\ \A x \in Proxies \cup {Object} : Waits(todo', Op("release", x)) = Waits(todo, Op("release", x))
           /\ \A s \in Stubs : /\ Waits(todo', Op("release_stub", s)) = Waits(todo, Op("release_stub", s))
                               /\ Waits(todo', Op("release_pin", s)) = Waits(todo, Op("release_pin", s))
                               /\ Waits(todo', Op("Destruct_stub", s)) = Waits(todo, Op("Destruct_stub", s))
           /\ \A p \in Proxies : /\ Waits(todo', Op("Internal_Release", p)) = Waits(todo, Op("Internal_Release", p))
                                 /\ Waits(todo', Op("Unpin_proxy", p)) = Waits(todo, Op("Unpin_proxy", p))
                                 /\ Waits(todo', Op("Destruct_proxy", p)) = Waits(todo, Op("Destruct_proxy", p))
<1>1. ASSUME NEW n \in Counting, NEW a, Op(n, a) \in Ops PROVE Waits(todo', Op(n, a)) = Waits(todo, Op(n, a))
  BY <1>1, OpsAre DEF StillWaits
<1> QED
  BY <1>1, OpsOf DEF Counting, Releasing

SetsStay ==
    /\ \A x \in Proxies \cup {Object} : HandsOf(x)' = HandsOf(x)
    /\ \A p \in Proxies : AddsOf(p)' = AddsOf(p) /\ WiresOf(p)' = WiresOf(p)
    /\ \A s \in Stubs : ShimsAt(s)' = ShimsAt(s)

\* A step that counts nothing.
LEMMA SumsStay ==
    ASSUME ShimInv, ~late, UNCHANGED <<object, stubs, proxies, holders>>, StillWaits, SetsStay
    PROVE  ObjectSum' /\ (\A s \in Stubs : StubSum(s)') /\ (\A p \in Proxies : ProxySum(p)')
<1>1. /\ Referred' = Referred /\ Twice' = Twice
      /\ \A s : ProxiesFor(s)' = ProxiesFor(s) /\ PinnedFor(s)' = PinnedFor(s)
  BY NothingMoved
<1>2. ObjectSum'
  <2>1. ObjectSum /\ HandsOf(Object)' = HandsOf(Object)
    BY DEF ShimInv, Sums, SetsStay
  <2>2. Waits(todo', Op("release", Object)) = Waits(todo, Op("release", Object))
    BY StillWaitsFor
  <2> QED
    BY <1>1, <2>1, <2>2 DEF ObjectSum
<1>3. \A s \in Stubs : StubSum(s)'
  BY <1>1, StillWaitsFor, StubSame DEF SetsStay
<1>4. \A p \in Proxies : ProxySum(p)'
  BY StillWaitsFor, ProxySame DEF SetsStay
<1> QED
  BY <1>2, <1>3, <1>4

\* Who is counted stays when the thread is where it was.
LEMMA SetsStayIf ==
    ASSUME ShimInv, ~late, NEW t \in Threads, OthersSame(t),
           \A x \in Proxies \cup {Object} : t \in HandsOf(x)' <=> t \in HandsOf(x),
           \A p \in Proxies : t \in AddsOf(p)' <=> t \in AddsOf(p),
           \A p \in Proxies : t \in WiresOf(p)' <=> t \in WiresOf(p),
           \A s \in Stubs : t \in ShimsAt(s)' <=> t \in ShimsAt(s)
    PROVE  SetsStay
BY SizesMove DEF SetsStay, Changed

\* The rest of a call that is to bind what it has at hand.
LEMMA BindRest ==
    ASSUME NEW q, NEW r, NEW a, Grows(r, q, a), NEW s, NEW h, NEW w, ShapeOf(q, s, h, w), Len(q) = 4, Binds(q)
    PROVE  /\ RestOf(r, h, w) /\ Len(r) = 3 /\ Place(r, 3).op = "bind" /\ Gives(r, h)
           /\ HasIn(r, "bind") /\ HasIn(r, "release_shim")
           /\ \A j \in 1..Len(r) : Place(r, j).op \in {"bind", "release_shim", "release"}
           /\ \A n : HasIn(r, n) => n \in {"bind", "release_shim", "release"}
<1>1. RestOf(r, h, w)
  BY TailRest
<1>2. /\ Len(r) \in Nat /\ Len(r) + 1 = 4 /\ \A j \in 1..Len(r) : Place(q, j) = Place(r, j)
  BY DEF Grows
<1>3. Len(r) = 3 /\ 1 \in 1..Len(r) /\ 2 \in 1..Len(r) /\ 3 \in 1..Len(r)
  <2>1. \A m \in Nat : m + 1 = 4 => m = 3
    OBVIOUS
  <2>2. Len(r) = 3
    BY <1>2, <2>1
  <2> QED
    BY <2>2
<1>4. Place(r, 3).op = "bind"
  BY <1>2, <1>3 DEF Binds
<1>5. Gives(r, h)
  BY <1>1, <1>3, <1>4 DEF RestOf, RestAt
<1>6. Place(r, 1).op = "release" /\ Place(r, 2).op = "release_shim"
  BY <1>5, OpsAre DEF Gives
<1>7. \A j \in 1..Len(r) : j = 1 \/ j = 2 \/ j = 3
  BY <1>3
<1>8. \A j \in 1..Len(r) : Place(r, j).op \in {"bind", "release_shim", "release"}
  BY <1>4, <1>6, <1>7
<1>9. HasIn(r, "bind")
  BY <1>3, <1>4 DEF HasIn
<1>10. HasIn(r, "release_shim")
  BY <1>3, <1>6 DEF HasIn
<1>11. \A n : HasIn(r, n) => n \in {"bind", "release_shim", "release"}
  BY <1>8 DEF HasIn
<1> QED
  BY <1>1, <1>3, <1>4, <1>5, <1>8, <1>9, <1>10, <1>11

\* A step that adds no unpin gives nobody a pin.
LEMMA KeepsStill ==
    ASSUME NEW t \in Threads, OthersSame(t), wired'[t] = wired[t], NEW A, Grown(t, A),
           \A p : Op("Unpin_proxy", p) \notin A, NEW u \in Threads, NEW p \in Proxies, Keeps(u, p)'
    PROVE  Keeps(u, p)
<1>1. CASE u # t
  BY <1>1 DEF OthersSame, Keeps
<1>2. CASE u = t
  <2>1. CASE wired'[t] = p
    BY <1>2, <2>1 DEF Keeps
  <2>2. CASE \E j \in 1..Len(todo'[t]) : Place(todo'[t], j) = Op("Unpin_proxy", p)
    <3>1. PICK j \in 1..Len(todo'[t]) : Place(todo'[t], j) = Op("Unpin_proxy", p)
      BY <2>2
    <3>2. \E i \in 1..Len(todo[t]) : Place(todo[t], i) = Place(todo'[t], j)
      BY <3>1 DEF Grown
    <3> QED
      BY <1>2, <3>1, <3>2 DEF Keeps
  <2> QED
    BY <1>2, <2>1, <2>2 DEF Keeps
<1> QED
  BY <1>1, <1>2

\* So whoever unpins has the proxy alone still.
LEMMA KeptStill ==
    ASSUME ShimInv, ~late, NEW t \in Threads, OthersSame(t), wired'[t] = wired[t], NEW A, Grown(t, A),
           \A p : Op("Unpin_proxy", p) \notin A, Undisturbed(t, A)
    PROVE  Kept'
<1>1. \A u \in Threads : \A p \in Proxies : Keeps(u, p)' => Keeps(u, p)
  BY KeepsStill
<1>2. \A v \in Threads : v # t => todo'[v] = todo[v] /\ shim'[v] = shim[v]
  BY DEF OthersSame
<1> QED
  BY <1>1, <1>2, KeptBy

\* The map is looked at.
LEMMA Finds ==
    ASSUME ShimInv, NEW t \in Threads, find(t)
    PROVE  ShimInv'
<1>0. Now(t, "find") /\ ~late
  BY DEF find, Now
<1>c. Current(t, "find")
  BY <1>0, NowIs
<1>1. UNCHANGED <<object, stubs, proxies, holders>>
  BY DEF find
<1>a. shim' = shim /\ holds' = holds
  BY DEF find
<1>b. wired' = wired /\ late' = late /\ calls' = calls
  BY DEF find
<1>2. Len(todo[t]) = 4 /\ Binds(todo[t]) /\ Arg(t) = Hold(t) /\ shim[t] = 0 /\ Arg(t) \in Proxies \cup {Object}
  <2>1. /\ ShapeAt(todo[t], shim[t], holds[t], wired[t], Len(todo[t])) /\ Len(todo[t]) \in 1..Len(todo[t])
        /\ Place(todo[t], Len(todo[t])).op = "find" /\ Place(todo[t], Len(todo[t])).arg = Arg(t)
        /\ Arg(t) \in Proxies \cup {Object}
    BY <1>0, <1>c, InCall DEF Current, ArgsOf
  <2> QED
    BY <2>1 DEF ShapeAt, Hold
<1>3. PICK a \in Ops : /\ Then(t, <<a>>)
                       /\ \/ a = Op("new_stub", TRUE)
                          \/ \E s \in Stubs : a = Op("AddRef_found", s) /\ IsListed(s)
  <2>1. Linked(t) /\ Maps
    BY <1>0 DEF ShimInv, Links
  <2>2. ASSUME NEW s \in Stubs, IsListed(s), Then(t, <<Op("AddRef_found", s)>>)
        PROVE  \E a \in Ops : Then(t, <<a>>) /\ \E z \in Stubs : a = Op("AddRef_found", z) /\ IsListed(z)
    BY <2>2, OpsOf
  <2>3. CASE ListedStubs(holds[t][1], Arg(t)) # {}
    <3>1. PICK s \in ListedStubs(holds[t][1], Arg(t)) : Then(t, <<Op("AddRef_found", s)>>)
      BY <2>3 DEF find
    <3>2. s \in Stubs /\ <<holds[t][1], Hold(t), s>> \in holders
      BY <1>2, <3>1 DEF ListedStubs
    <3>3. holds[t][1] \in Modules
      BY DEF ShimInv, ShimTypes
    <3>4. CASE Hold(t) = Object
      <4>1. IsListed(s)
        BY <2>1, <3>2, <3>4 DEF Linked, IsListed
      <4> QED
        BY <2>2, <3>1, <3>2, <4>1
    <3>5. CASE Hold(t) \in Proxies /\ Hold(t) # Object
      <4>1. proxies[Hold(t)].shim = s
        BY <2>1, <3>2, <3>3, <3>5 DEF Maps
      <4>2. IsListed(s)
        BY <2>1, <3>5, <4>1 DEF Linked
      <4> QED
        BY <2>2, <3>1, <3>2, <4>2
    <3> QED
      BY <1>2, <3>4, <3>5
  <2>4. CASE ListedStubs(holds[t][1], Arg(t)) = {} /\ Arg(t) = Object
    <3>1. Then(t, <<Op("new_stub", TRUE)>>)
      BY <2>4 DEF find
    <3>2. Op("new_stub", TRUE) \in Ops
      BY OpIn DEF OpNames, ArgsOf
    <3> QED
      BY <3>1, <3>2
  <2>5. CASE ListedStubs(holds[t][1], Arg(t)) = {} /\ Arg(t) # Object
    <3>1. Then(t, <<Op("AddRef_found", proxies[Hold(t)].shim)>>) /\ Hold(t) \in Proxies
      BY <1>2, <2>5 DEF find
    <3>2. proxies[Hold(t)].shim \in Stubs
      <4>1. proxies[Hold(t)].refs >= 1 /\ proxies[Hold(t)].refs \in Nat
        BY <1>0, <3>1, HeldIsReferred, ProxyFacts
      <4> QED
        BY <1>0, <3>1, <4>1, ShimOfProxy
    <3>3. IsListed(proxies[Hold(t)].shim)
      BY <2>1, <3>1 DEF Linked
    <3> QED
      BY <2>2, <3>1, <3>2, <3>3
  <2> QED
    BY <2>3, <2>4, <2>5
<1>i. (a.op = "new_stub" /\ a.arg = TRUE) \/ (a.op = "AddRef_found" /\ IsListed(a.arg))
  <2>1. CASE a = Op("new_stub", TRUE)
    BY <2>1, OpsAre
  <2>2. CASE \E s \in Stubs : a = Op("AddRef_found", s) /\ IsListed(s)
    <3>1. PICK s \in Stubs : a = Op("AddRef_found", s) /\ IsListed(s)
      BY <2>2
    <3>2. a.op = "AddRef_found" /\ a.arg = s
      BY <3>1, OpsAre
    <3> QED
      BY <3>1, <3>2
  <2> QED
    BY <1>3, <2>1, <2>2
<1>o. a.op \in {"new_stub", "AddRef_found"} /\ a.op \notin Counting
  BY <1>i DEF Counting, Releasing
<1>4. Goes1(t, "find", a)
  BY <1>0, <1>3, ThenGoes
<1>5. Stepped(t, "find") /\ Len(todo'[t]) = 4 /\ Place(todo'[t], 4) = a
  <2>1. Stepped(t, "find") /\ Len(todo'[t]) = Len(todo[t]) /\ Place(todo'[t], Len(todo[t])) = a
    BY <1>4 DEF Goes1
  <2> QED
    BY <1>2, <2>1
<1>6. todo' \in Lists /\ Counted(todo') /\ OthersSame(t)
  BY <1>5, <1>a, <1>b, OthersStay DEF OthersSame
<1> DEFINE r == Tail(todo[t])
<1>7. Grows(r, todo[t], Op("find", Arg(t))) /\ Grows(r, todo'[t], a)
  BY <1>0, <1>3, Goings
<1> HIDE DEF r
<1>8. ShapeOf(todo[t], shim[t], holds[t], wired[t])
  BY <1>0, InCall
<1>9. /\ RestOf(r, holds[t], wired[t]) /\ Len(r) = 3 /\ Place(r, 3).op = "bind" /\ Gives(r, holds[t])
      /\ HasIn(r, "bind") /\ HasIn(r, "release_shim")
      /\ \A j \in 1..Len(r) : Place(r, j).op \in {"bind", "release_shim", "release"}
      /\ \A n : HasIn(r, n) => n \in {"bind", "release_shim", "release"}
  BY <1>2, <1>7, <1>8, BindRest
<1>10. \A n : /\ HasIn(todo[t], n) <=> n = "find" \/ HasIn(r, n)
              /\ HasIn(todo'[t], n) <=> n = a.op \/ HasIn(r, n)
  BY <1>7, GrowsHas, OpsAre
<1>11. ShapeOf(todo'[t], shim[t], holds[t], wired[t])
  <2>1. Binds(todo'[t])
    <3>1. 3 \in 1..Len(r)
      BY <1>9
    <3> QED
      BY <1>5, <1>7, <1>9, <3>1 DEF Binds, Grows
  <2>2. ShapeAt(todo'[t], shim[t], holds[t], wired[t], Len(todo'[t]))
    <3>1. Place(todo'[t], Len(todo'[t])) = a /\ Len(todo'[t]) = 4
      BY <1>5
    <3>2. CASE a.op = "new_stub" /\ a.arg = TRUE
      BY <1>2, <2>1, <3>1, <3>2 DEF ShapeAt
    <3>3. CASE a.op = "AddRef_found"
      BY <1>2, <2>1, <3>1, <3>3 DEF ShapeAt
    <3> QED
      BY <1>i, <3>2, <3>3
  <2>3. Shimless(todo'[t])
    BY <1>10, <1>o DEF Shimless
  <2>4. ~HasIn(r, "new_proxy")
    BY <1>9
  <2> QED
    BY <1>2, <1>7, <1>9, <2>2, <2>3, <2>4, PushRest
<1>12. Linked(t)'
  <2>1. Linked(t)
    BY <1>0 DEF ShimInv, Links
  <2>2. ASSUME NEW j \in 1..Len(todo'[t]) PROVE LinkAt(t, j)'
    <3>1. Shimless(todo'[t])
      BY <1>10, <1>o DEF Shimless
    <3>2. CASE j = 4
      <4>1. Place(todo'[t], j) = a
        BY <1>5, <3>2
      <4>2. a.op = "AddRef_found" => IsListed(a.arg)'
        <5>1. ASSUME NEW s, IsListed(s) PROVE IsListed(s)'
          BY <1>1, <5>1 DEF IsListed
        <5>2. a.op = "AddRef_found" => IsListed(a.arg)
          BY <1>i
        <5> QED
          BY <1>1, <5>2 DEF IsListed
      <4> QED
        BY <1>o, <4>1, <4>2 DEF LinkAt
    <3>3. CASE j # 4
      <4>1. j \in 1..Len(r)
        BY <1>5, <1>9, <3>3
      <4>2. Place(todo'[t], j).op \in {"bind", "release_shim", "release"}
        BY <1>7, <1>9, <4>1 DEF Grows
      <4> QED
        BY <3>1, <4>2 DEF LinkAt
    <3> QED
      BY <3>2, <3>3
  <2> QED
    BY <1>1, <1>a, <2>1, <2>2 DEF Linked, Hold, IsListed
<1>13. StillWaits
  BY <1>4, <1>o, StillWaiting DEF Counting, Releasing
<1>14. SetsStay
  <2>1. Handing(t) /\ Handing(t)'
    BY <1>9, <1>10 DEF Handing, Has
  <2>2. \A x \in Proxies \cup {Object} : t \in HandsOf(x)' <=> t \in HandsOf(x)
    BY <2>1 DEF HandsOf
  <2>3. \A p \in Proxies : t \in AddsOf(p)' <=> t \in AddsOf(p)
    BY <1>2, <1>5 DEF AddsOf, Adding
  <2>4. \A p \in Proxies : t \in WiresOf(p)' <=> t \in WiresOf(p)
    BY <1>b DEF WiresOf
  <2>5. \A s \in Stubs : t \in ShimsAt(s)' <=> t \in ShimsAt(s)
    <3>1. 0 \notin Stubs
      BY DEF ShimInv, ShimAssumption
    <3> QED
      BY <1>2, <1>a, <3>1 DEF ShimsAt
  <2> QED
    BY <1>0, <1>6, <2>2, <2>3, <2>4, <2>5, SetsStayIf
<1>15. ObjectSum' /\ (\A s \in Stubs : StubSum(s)') /\ (\A p \in Proxies : ProxySum(p)')
  BY <1>0, <1>1, <1>13, <1>14, SumsStay
<1>16. Maps' /\ Pins' /\ \A u \in Threads : Steady(u)
  BY <1>0, <1>1, <1>13, StillWaitsFor, NothingMoved
<1>17. Kept'
  <2>1. Grown(t, {a})
    BY <1>4, PlacesAre
  <2>2. Undisturbed(t, {a})
    <3>1. \A y : Op("release", y) \notin {a} /\ Op("release_stub", y) \notin {a}
      BY <1>o, OpsAre
    <3> QED
      BY <1>0, <1>1, <1>a, <3>1, Undisturbing
  <2>3. \A p : Op("Unpin_proxy", p) \notin {a}
    BY <1>o, OpsAre
  <2> QED
    BY <1>0, <1>6, <1>b, <2>1, <2>2, <2>3, KeptStill
<1>18. ShimTypes'
  BY <1>1, <1>6, <1>a, <1>b DEF ShimInv, ShimTypes
<1> QED
  BY <1>0, <1>6, <1>a, <1>b, <1>11, <1>12, <1>15, <1>16, <1>17, <1>18, CallStep

\* The rest of a call that takes what it found.
LEMMA FoundRest ==
    ASSUME NEW q, NEW r, NEW a, Grows(r, q, a), a.op = "AddRef_found", NEW s, NEW h, NEW w, ShapeOf(q, s, h, w)
    PROVE  /\ RestOf(r, h, w) /\ Len(r) \in {3, 4} /\ Place(r, 3).op = "bind" /\ Gives(r, h)
           /\ HasIn(r, "bind") /\ HasIn(r, "release_shim")
           /\ \A j \in 1..Len(r) : Place(r, j).op \in {"bind", "release_shim", "release", "release_stub"}
           /\ \A n : HasIn(r, n) => n \in {"bind", "release_shim", "release", "release_stub"}
           /\ IF Len(r) = 3 THEN s = 0 ELSE Place(r, 4) = Op("release_stub", s)
<1>1. RestOf(r, h, w)
  BY TailRest
<1>2. /\ Len(r) \in Nat /\ Len(q) = Len(r) + 1 /\ \A j \in 1..Len(r) : Place(q, j) = Place(r, j)
      /\ Place(q, Len(q)) = a /\ Len(q) \in 1..Len(q)
  BY DEF Grows
<1>3. Len(q) \in {4, 5} /\ Binds(q) /\ IF Len(q) = 4 THEN s = 0 ELSE Place(q, 4) = Op("release_stub", s)
  BY <1>2 DEF ShapeOf, ShapeAt
<1>4. Len(r) \in {3, 4}
  <2>1. \A m \in Nat : m + 1 \in {4, 5} => m \in {3, 4}
    OBVIOUS
  <2> QED
    BY <1>2, <1>3, <2>1
<1>5. 1 \in 1..Len(r) /\ 2 \in 1..Len(r) /\ 3 \in 1..Len(r)
  BY <1>4
<1>6. Place(r, 3).op = "bind"
  BY <1>2, <1>3, <1>5 DEF Binds
<1>7. Gives(r, h)
  BY <1>1, <1>5, <1>6 DEF RestOf, RestAt
<1>8. Place(r, 1).op = "release" /\ Place(r, 2).op = "release_shim"
  BY <1>7, OpsAre DEF Gives
<1>9. IF Len(r) = 3 THEN s = 0 ELSE Place(r, 4) = Op("release_stub", s)
  <2>1. CASE Len(r) = 3
    BY <1>2, <1>3, <2>1
  <2>2. CASE Len(r) = 4
    <3>1. Len(q) = 5 /\ 4 \in 1..Len(r)
      BY <1>2, <2>2
    <3> QED
      BY <1>2, <1>3, <2>2, <3>1
  <2> QED
    BY <1>4, <2>1, <2>2
<1>10. \A j \in 1..Len(r) : Place(r, j).op \in {"bind", "release_shim", "release", "release_stub"}
  <2>1. ASSUME NEW j \in 1..Len(r) PROVE j = 1 \/ j = 2 \/ j = 3 \/ (j = 4 /\ Len(r) = 4)
    <3>1. CASE Len(r) = 3
      BY <3>1
    <3>2. CASE Len(r) = 4
      BY <3>2
    <3> QED
      BY <1>4, <3>1, <3>2
  <2>2. Len(r) = 4 => Place(r, 4).op = "release_stub"
    BY <1>9, OpsAre
  <2> QED
    BY <1>6, <1>8, <2>1, <2>2
<1>11. HasIn(r, "bind")
  BY <1>5, <1>6 DEF HasIn
<1>12. HasIn(r, "release_shim")
  BY <1>5, <1>8 DEF HasIn
<1>13. \A n : HasIn(r, n) => n \in {"bind", "release_shim", "release", "release_stub"}
  BY <1>10 DEF HasIn
<1> QED
  BY <1>1, <1>4, <1>6, <1>7, <1>9, <1>10, <1>11, <1>12, <1>13

\* A reference to what was found is taken, or it had ended.
LEMMA FoundTaken ==
    ASSUME ShimInv, NEW t \in Threads, AddRef_found(t)
    PROVE  ShimInv'
<1>0. Now(t, "AddRef_found") /\ ~late
  BY DEF AddRef_found, Now
<1>c. Current(t, "AddRef_found")
  BY <1>0, NowIs
<1>s. PICK s \in Stubs : s = Arg(t)
  BY <1>c DEF Current, ArgsOf
<1> DEFINE k == stubs[s].refs + 1
<1>1. /\ proxies' = proxies /\ holders' = holders /\ late' = (stubs[s].refs = 0)
      /\ stubs' = PutRefs(stubs, s, k) /\ shim' = [shim EXCEPT ![t] = s]
      /\ object' = IF stubs[s].pins = 0 THEN object ELSE object + 1
  BY <1>s DEF AddRef_found, PutRefs
<1>b. holds' = holds /\ wired' = wired /\ calls' = calls /\ Then(t, <<>>)
  BY DEF AddRef_found
<1>2. Goes0(t, "AddRef_found") /\ Stepped(t, "AddRef_found")
  BY <1>0, <1>b, ThenGoes DEF Goes0
<1>f. /\ stubs' \in [Stubs -> StubKind]
      /\ stubs'[s].refs = k /\ stubs'[s].pins = stubs[s].pins /\ stubs'[s].live = stubs[s].live
      /\ \A x \in Stubs : x # s => stubs'[x] = stubs[x]
  <2>1. stubs \in [Stubs -> StubKind] /\ k \in Int
    BY KindsAre
  <2> HIDE DEF k
  <2> QED
    BY <1>1, <2>1, StubPuts
<1>g. shim' \in [Threads -> Stubs \cup {0}] /\ shim'[t] = s /\ \A u \in Threads : u # t => shim'[u] = shim[u]
  BY <1>1 DEF ShimInv, ShimTypes
<1>3. todo' \in Lists /\ Counted(todo') /\ OthersSame(t)
  BY <1>2, <1>b, <1>g, OthersStay DEF OthersSame
<1>4. ShimTypes'
  BY <1>1, <1>3, <1>f, <1>g, <1>b DEF ShimInv, ShimTypes
<1>5. CASE stubs[s].refs = 0
  BY <1>1, <1>4, <1>5 DEF ShimInv
<1>6. CASE stubs[s].refs # 0
  <2>1. stubs[s].refs \in Nat /\ stubs[s].refs >= 1 /\ k \in Nat /\ k >= 2
    <3>1. stubs[s].refs \in Nat
      BY <1>0, StubFacts
    <3> QED
      BY <1>6, <3>1
  <2>2. IsListed(s)
    <3>1. LinkAt(t, Len(todo[t])) /\ Place(todo[t], Len(todo[t])) = Op("AddRef_found", s)
      BY <1>0, <1>c, <1>s, InCall DEF Current
    <3> QED
      BY <1>6, <3>1, OpsAre DEF LinkAt
  <2>3. stubs[s].live /\ ~Private(s) /\ stubs[s].pins = 0 /\ \A p \in Proxies : proxies[p].shim = s
             => ~(proxies[p].pins > 0)
    BY <1>0, <2>1, <2>2, ListedUnpinned
  <2>4. object' = object /\ late' = late
    <3>1. late \in BOOLEAN /\ (late' <=> stubs[s].refs = 0) /\ late' \in BOOLEAN
      BY <1>1 DEF ShimInv, ShimTypes
    <3>2. late' = late
      BY <1>0, <1>6, <3>1
    <3> QED
      BY <1>1, <2>3, <3>2
  <2> DEFINE r == Tail(todo[t])
             a == Op("AddRef_found", s)
  <2>5. Grows(r, todo[t], a) /\ todo'[t] = r
    BY <1>0, <1>b, <1>s, Goings
  <2>6. a.op = "AddRef_found"
    BY OpsAre
  <2> HIDE DEF r, a
  <2>7. /\ RestOf(r, holds[t], wired[t]) /\ Len(r) \in {3, 4} /\ Place(r, 3).op = "bind"
        /\ HasIn(r, "bind") /\ HasIn(r, "release_shim")
        /\ \A j \in 1..Len(r) : Place(r, j).op \in {"bind", "release_shim", "release", "release_stub"}
        /\ \A n : HasIn(r, n) => n \in {"bind", "release_shim", "release", "release_stub"}
    <3>1. ShapeOf(todo[t], shim[t], holds[t], wired[t])
      BY <1>0, InCall
    <3> QED
      BY <2>5, <2>6, <3>1, FoundRest
  <2>8. \A n : HasIn(todo[t], n) <=> n = "AddRef_found" \/ HasIn(r, n)
    BY <2>5, <2>6, GrowsHas
  <2>9. ShapeOf(todo'[t], shim'[t], holds'[t], wired'[t])
    <3>1. ShapeOf(r, s, holds[t], wired[t])
      BY <2>7, RestShape
    <3> QED
      BY <1>b, <1>g, <2>5, <3>1
  <2>10. Linked(t)'
    <3>1. Linked(t)
      BY <1>0 DEF ShimInv, Links
    <3>2. IsListed(s)'
      BY <1>1, <2>2 DEF IsListed
    <3>3. ASSUME NEW j \in 1..Len(todo'[t]) PROVE LinkAt(t, j)'
      <4>1. Place(todo'[t], j).op \in {"bind", "release_shim", "release", "release_stub"}
        BY <2>5, <2>7
      <4>2. IsListed(shim[t])'
        BY <1>g, <3>2 DEF IsListed
      <4> QED
        BY <4>1, <4>2 DEF LinkAt
    <3> QED
      BY <1>1, <1>b, <3>1, <3>3 DEF Linked, Hold, IsListed
  <2>11. StillWaits
    BY <1>2, StillWaiting DEF Counting, Releasing
  <2>12. /\ \A x \in Proxies \cup {Object} : HandsOf(x)' = HandsOf(x)
         /\ \A p \in Proxies : AddsOf(p)' = AddsOf(p) /\ WiresOf(p)' = WiresOf(p)
    <3>1. Handing(t) /\ Handing(t)'
      BY <2>5, <2>7, <2>8 DEF Handing, Has
    <3>2. \A x : t \notin HandsOf(x) /\ t \notin HandsOf(x)'
      BY <3>1 DEF HandsOf
    <3>3. \A p : t \notin AddsOf(p) /\ t \notin AddsOf(p)'
      <4>1. Place(todo[t], 3) = Place(r, 3)
        BY <2>5, <2>7 DEF Grows
      <4> QED
        BY <2>5, <2>7, <4>1 DEF AddsOf, Adding
    <3>4. \A p \in Proxies : t \in WiresOf(p)' <=> t \in WiresOf(p)
      BY <1>b DEF WiresOf
    <3> QED
      BY <1>0, <1>3, <3>2, <3>3, <3>4, SizesMove DEF Changed
  <2>13. /\ \A x \in Stubs : x # s => ShimsAt(x)' = ShimsAt(x)
         /\ IsFiniteSet(ShimsAt(s)') /\ Cardinality(ShimsAt(s)') = Cardinality(ShimsAt(s)) + 1
    <3>1. \A x : t \notin ShimsAt(x)
      BY <2>8 DEF ShimsAt, Has
    <3>2. ~Has(t, "AddRef_found")'
      BY <2>5, <2>7 DEF Has
    <3>3. \A x : t \in ShimsAt(x)' <=> x = s
      BY <1>g, <3>2 DEF ShimsAt
    <3>4. \A x \in Stubs : Changed(ShimsAt(x), ShimsAt(x)', t)
      BY <1>0, <1>3, SizesMove
    <3> QED
      BY <3>1, <3>3, <3>4 DEF Changed, One
  <2>14. /\ \A x : ProxiesFor(x)' = ProxiesFor(x) /\ PinnedFor(x)' = PinnedFor(x)
         /\ Referred' = Referred /\ Twice' = Twice
    <3>1. \A x \in Stubs : stubs'[x].refs > 0 <=> stubs[x].refs > 0
      BY <1>f, <2>1
    <3>2. \A x \in Stubs : (stubs'[x].refs = 2 /\ stubs'[x].pins > 0) <=> (stubs[x].refs = 2 /\ stubs[x].pins > 0)
      BY <1>f, <2>3
    <3> QED
      BY <1>1, <3>1, <3>2 DEF ProxiesFor, PinnedFor, Referred, Twice
  <2>15. ObjectSum'
    <3>1. ObjectSum
      BY <1>0 DEF ShimInv, Sums
    <3>2. Waits(todo', Op("release", Object)) = Waits(todo, Op("release", Object))
               /\ HandsOf(Object)' = HandsOf(Object)
      BY <2>11, <2>12, StillWaitsFor
    <3> QED
      BY <2>4, <2>14, <3>1, <3>2 DEF ObjectSum
  <2>16. ASSUME NEW x \in Stubs PROVE StubSum(x)'
    <3>1. /\ Waits(todo', Op("release_stub", x)) = Waits(todo, Op("release_stub", x))
          /\ Waits(todo', Op("release_pin", x)) = Waits(todo, Op("release_pin", x))
          /\ Waits(todo', Op("Destruct_stub", x)) = Waits(todo, Op("Destruct_stub", x))
      BY <2>11, StillWaitsFor
    <3>2. CASE x # s
      BY <1>0, <1>f, <2>13, <2>14, <3>1, <3>2, StubSame
    <3>3. CASE x = s
      <4>1. StubSum(s)
        BY <1>0 DEF ShimInv, Sums
      <4>2. Waits(todo, Op("Destruct_stub", s)) = 0
        BY <2>1, <4>1 DEF StubSum, One
      <4>3. Waits(todo', Op("Destruct_stub", s)) = One(stubs'[s].live /\ stubs'[s].refs = 0 /\ stubs'[s].pins = 0)
        BY <1>f, <2>1, <3>1, <3>3, <4>2 DEF One
      <4>4. stubs'[s].refs = Cardinality(ShimsAt(s)') + Waits(todo', Op("release_stub", s))
                 + Cardinality(ProxiesFor(s)')
        <5>1. /\ stubs[s].refs = Cardinality(ShimsAt(s)) + Waits(todo, Op("release_stub", s))
                   + Cardinality(ProxiesFor(s))
              /\ Cardinality(ShimsAt(s)) \in Nat /\ Cardinality(ProxiesFor(s)) \in Nat
              /\ Waits(todo, Op("release_stub", s)) \in Nat
          BY <1>0, StubFacts
        <5>2. stubs'[s].refs = stubs[s].refs + 1
          BY <1>f
        <5>3. Cardinality(ShimsAt(s)') = Cardinality(ShimsAt(s)) + 1 /\ ProxiesFor(s)' = ProxiesFor(s)
          BY <2>13, <2>14
        <5> QED
          BY <3>1, <3>3, <5>1, <5>2, <5>3
      <4>5. stubs'[s].pins = Waits(todo', Op("release_pin", s)) + Cardinality(PinnedFor(s)')
        BY <1>f, <2>14, <3>1, <3>3, <4>1 DEF StubSum
      <4>6. stubs'[s].live /\ IsFiniteSet(ShimsAt(s)') /\ IsFiniteSet(ProxiesFor(s)') /\ IsFiniteSet(PinnedFor(s)')
        BY <1>f, <2>3, <2>13, <2>14, <4>1 DEF StubSum
      <4> QED
        BY <3>3, <4>3, <4>4, <4>5, <4>6 DEF StubSum
    <3> QED
      BY <3>2, <3>3
  <2>17. ASSUME NEW p \in Proxies PROVE ProxySum(p)'
    BY <1>0, <1>1, <2>11, <2>12, StillWaitsFor, ProxySame
  <2>18. /\ Maps' /\ Pins' /\ \A u \in Threads : Steady(u)
    <3>1. \A u \in ShimsAt(s) : ~Private(s)
      BY <2>3
    <3>2. ASSUME NEW u \in Threads, NEW p \in Proxies, todo[u] # <<>>, Head(todo[u]) = Op("Pin", p),
               proxies[p].shim = s
          PROVE  FALSE
      BY <1>0, <2>2, <3>2, PinAhead
    <3>3. stubs'[s].pins > 0 => stubs'[s].refs <= 2
      BY <1>f, <2>3
    <3>4. stubs[s].refs = 0 => stubs'[s].refs = 0
      BY <1>6
    <3>5. ASSUME NEW x \in Stubs, Waits(todo', Op("release_pin", x)) > 0 PROVE stubs'[x].refs = 0
      <4>1. Waits(todo, Op("release_pin", x)) > 0
        BY <2>11, <3>5, StillWaitsFor
      <4>2. stubs[x].refs = 0
        BY <1>0, <4>1 DEF ShimInv, Pins
      <4> QED
        BY <1>f, <1>6, <4>2
    <3> QED
      BY <1>0, <1>1, <1>f, <3>1, <3>2, <3>3, <3>4, <3>5, StubChanged
  <2>19. Kept'
    <3>1. Grown(t, {})
      BY <1>2, PlacesAre
    <3>2. Undisturbed(t, {})
      <4>1. ASSUME NEW u \in Threads, NEW p \in Proxies, Keeps(u, p)
            PROVE  /\ proxies'[p].shim = proxies[p].shim
                   /\ \A x \in Proxies : x # p /\ proxies'[x].refs > 0 => proxies'[x].shim # proxies[p].shim
                   /\ shim'[t] # proxies[p].shim
        <5>1. ~IsListed(proxies[p].shim) /\ \A x \in Proxies : x # p /\ proxies[x].refs > 0
                   => proxies[x].shim # proxies[p].shim
          BY <1>0, <4>1, KeeperFacts
        <5> QED
          BY <1>1, <1>g, <2>2, <5>1
      <4> QED
        BY <4>1 DEF Undisturbed
    <3> QED
      BY <1>0, <1>3, <1>b, <3>1, <3>2, KeptStill
  <2> QED
    BY <1>0, <1>3, <1>4, <2>4, <2>9, <2>10, <2>15, <2>16, <2>17, <2>18, <2>19, CallStep
<1> QED
  BY <1>5, <1>6

\* A new stub has a reference of the thread's and refers to the object.
LEMMA StubMade ==
    ASSUME ShimInv, NEW t \in Threads, new_stub(t)
    PROVE  ShimInv'
<1>0. Now(t, "new_stub") /\ ~late
  BY DEF new_stub, Now
<1>c. Current(t, "new_stub")
  BY <1>0, NowIs
<1>s. PICK s \in Stubs :
          /\ ~stubs[s].live /\ ~Sought(Op("AddRef_found", s))
          /\ stubs' = [stubs EXCEPT ![s] = [live |-> TRUE, refs |-> 1, pins |-> 0]]
          /\ shim' = [shim EXCEPT ![t] = s]
          /\ Then(t, IF Arg(t) THEN <<Op("add2", s)>> ELSE <<>>)
  BY DEF new_stub
<1> DEFINE new == [live |-> TRUE, refs |-> 1, pins |-> 0]
           a == Op("add2", s)
           r == Tail(todo[t])
<1>1. proxies' = proxies /\ holders' = holders /\ late' = late /\ object' = object + 1
           /\ stubs' = PutAll(stubs, s, new)
  BY <1>s DEF new_stub, PutAll
<1>b. holds' = holds /\ wired' = wired /\ calls' = calls
  BY DEF new_stub
<1>d. stubs[s] = NoStub /\ stubs[s].refs = 0 /\ stubs[s].pins = 0
  BY <1>0, <1>s, StubFacts
<1>f. /\ stubs' \in [Stubs -> StubKind]
      /\ stubs'[s] = new /\ stubs'[s].refs = 1 /\ stubs'[s].pins = 0 /\ stubs'[s].live
      /\ \A x \in Stubs : x # s => stubs'[x] = stubs[x]
  <2>1. new \in StubKind /\ new.refs = 1 /\ new.pins = 0 /\ new.live
    BY DEF StubKind
  <2>2. stubs \in [Stubs -> StubKind]
    BY KindsAre
  <2> HIDE DEF new
  <2> QED
    BY <1>1, <2>1, <2>2, AllPuts
<1>g. shim' \in [Threads -> Stubs \cup {0}] /\ shim'[t] = s /\ \A u \in Threads : u # t => shim'[u] = shim[u]
  BY <1>s DEF ShimInv, ShimTypes
<1>o. a \in Ops /\ a.op = "add2" /\ a.arg = s /\ a.op \notin Counting
  BY OpsAre, OpsOf DEF Counting, Releasing
<1> HIDE DEF new, a, r
<1>2. /\ shim[t] = 0 /\ Arg(t) \in BOOLEAN
      /\ IF Arg(t) THEN Len(todo[t]) = 4 /\ Binds(todo[t]) ELSE Len(todo[t]) = 3 /\ Place(todo[t], 2).op = "new_proxy"
  <2>1. /\ ShapeAt(todo[t], shim[t], holds[t], wired[t], Len(todo[t])) /\ Len(todo[t]) \in 1..Len(todo[t])
        /\ Place(todo[t], Len(todo[t])).op = "new_stub" /\ Place(todo[t], Len(todo[t])).arg = Arg(t)
        /\ Arg(t) \in BOOLEAN
    BY <1>0, <1>c, InCall DEF Current, ArgsOf
  <2> QED
    BY <2>1 DEF ShapeAt
<1>3. Grows(r, todo[t], Op("new_stub", Arg(t)))
  BY <1>0, Goings DEF r
<1>4. ShapeOf(todo[t], shim[t], holds[t], wired[t])
  BY <1>0, InCall
<1>5. /\ Stepped(t, "new_stub") /\ StillWaits /\ Grown(t, {a})
      /\ ShapeOf(todo'[t], s, holds[t], wired[t])
      /\ \A n \in {"bind", "add1", "AddRef_listed"} : HasIn(todo'[t], n) <=> HasIn(r, n)
      /\ ~HasIn(todo'[t], "AddRef_found")
      /\ Len(todo'[t]) # 3
      /\ \A j \in 1..Len(todo'[t]) : \/ Place(todo'[t], j) = a
                                     \/ Place(todo'[t], j).op \in {"release_shim", "release", "new_proxy"}
                                     \/ Place(todo'[t], j).op = "bind" /\ HasIn(todo'[t], "add2")
  <2>1. CASE Arg(t)
    <3>1. Then(t, <<a>>)
      BY <1>s, <2>1 DEF a
    <3>2. Goes1(t, "new_stub", a) /\ Grows(r, todo'[t], a)
      BY <1>0, <1>o, <3>1, ThenGoes, Goings DEF r
    <3>3. Stepped(t, "new_stub") /\ Len(todo'[t]) = 4 /\ Place(todo'[t], 4) = a
      <4>1. Stepped(t, "new_stub") /\ Len(todo'[t]) = Len(todo[t]) /\ Place(todo'[t], Len(todo[t])) = a
        BY <3>2 DEF Goes1
      <4>2. Len(todo[t]) = 4
        BY <1>2, <2>1
      <4> QED
        BY <4>1, <4>2
    <3>4. StillWaits /\ Grown(t, {a})
      BY <1>o, <3>2, StillWaiting, PlacesAre DEF Counting, Releasing
    <3>5. /\ RestOf(r, holds[t], wired[t]) /\ Len(r) = 3 /\ Place(r, 3).op = "bind" /\ Gives(r, holds[t])
          /\ HasIn(r, "bind") /\ HasIn(r, "release_shim")
          /\ \A j \in 1..Len(r) : Place(r, j).op \in {"bind", "release_shim", "release"}
          /\ \A n : HasIn(r, n) => n \in {"bind", "release_shim", "release"}
      BY <1>2, <1>3, <1>4, <2>1, BindRest
    <3>6. \A n : HasIn(todo'[t], n) <=> n = "add2" \/ HasIn(r, n)
      BY <1>o, <3>2, GrowsHas
    <3>7. ShapeOf(todo'[t], s, holds[t], wired[t])
      <4>1. Binds(todo'[t])
        <5>1. 3 \in 1..Len(r)
          BY <3>5
        <5> QED
          BY <3>2, <3>3, <3>5, <5>1 DEF Binds, Grows
      <4>2. ShapeAt(todo'[t], s, holds[t], wired[t], Len(todo'[t]))
        BY <1>o, <3>3, <4>1 DEF ShapeAt, Foremost
      <4>3. ~HasIn(r, "new_proxy") /\ HasIn(todo'[t], "release_shim")
        BY <3>5, <3>6
      <4>4. a.op \notin {"find", "new_stub"}
        BY <1>o
      <4> QED
        BY <3>2, <3>5, <4>2, <4>3, <4>4, PushRest
    <3>8. /\ \A n \in {"bind", "add1", "AddRef_listed"} : HasIn(todo'[t], n) <=> HasIn(r, n)
          /\ ~HasIn(todo'[t], "AddRef_found") /\ HasIn(todo'[t], "add2")
      BY <3>5, <3>6
    <3>9. ASSUME NEW j \in 1..Len(todo'[t]), j # 4 PROVE Place(todo'[t], j).op \in {"bind", "release_shim", "release"}
      <4>1. j \in 1..Len(r)
        BY <3>3, <3>5, <3>9
      <4> QED
        BY <3>2, <3>5, <4>1 DEF Grows
    <3>10. Len(todo'[t]) # 3
      BY <3>3
    <3> QED
      BY <3>3, <3>4, <3>7, <3>8, <3>9, <3>10
  <2>2. CASE ~Arg(t)
    <3>1. Then(t, <<>>)
      BY <1>s, <2>2
    <3>2. Goes0(t, "new_stub") /\ todo'[t] = r /\ Stepped(t, "new_stub")
      BY <1>0, <3>1, ThenGoes, Goings DEF r, Goes0
    <3>3. StillWaits /\ Grown(t, {})
      BY <3>2, StillWaiting, PlacesAre DEF Counting, Releasing
    <3>4. Grown(t, {a})
      BY <3>3 DEF Grown
    <3>5. RestOf(r, holds[t], wired[t])
      BY <1>3, <1>4, TailRest
    <3>6. Len(r) = 2 /\ Place(r, 2).op = "new_proxy" /\ Place(r, 1).op = "release_shim"
      <4>1. Len(r) \in Nat /\ Len(r) + 1 = 3 /\ \A j \in 1..Len(r) : Place(todo[t], j) = Place(r, j)
        BY <1>2, <1>3, <2>2 DEF Grows
      <4>2. \A m \in Nat : m + 1 = 3 => m = 2
        OBVIOUS
      <4>3. Len(r) = 2
        BY <4>1, <4>2
      <4>4. 2 \in 1..Len(r)
        BY <4>3
      <4>5. Place(r, 2).op = "new_proxy"
        BY <1>2, <2>2, <4>1, <4>4
      <4> QED
        BY <3>5, <4>3, <4>4, <4>5 DEF RestOf, RestAt
    <3>7. \A j \in 1..Len(r) : Place(r, j).op \in {"release_shim", "new_proxy"}
      <4>1. \A j \in 1..Len(r) : j = 1 \/ j = 2
        BY <3>6
      <4> QED
        BY <3>6, <4>1
    <3>8. ~HasIn(r, "AddRef_found")
      BY <3>7 DEF HasIn
    <3>9. HasIn(r, "release_shim")
      <4>1. 1 \in 1..Len(r)
        BY <3>6
      <4> QED
        BY <3>6, <4>1 DEF HasIn
    <3>10. ShapeOf(r, s, holds[t], wired[t])
      BY <3>5, <3>9, RestShape
    <3>11. Len(r) # 3
      BY <3>6
    <3> QED
      BY <3>2, <3>3, <3>4, <3>7, <3>8, <3>10, <3>11
  <2> QED
    BY <1>2, <2>1, <2>2
<1>6. todo' \in Lists /\ Counted(todo') /\ OthersSame(t)
  BY <1>5, <1>b, <1>g, OthersStay DEF OthersSame
<1>7. \A n : HasIn(todo[t], n) <=> n = "new_stub" \/ HasIn(r, n)
  BY <1>3, GrowsHas, OpsAre
<1>8. ~IsListed(s)
  <2>1. IsListed(s) => stubs[s].live
    BY <1>0, ListedUnpinned
  <2> QED
    BY <1>s, <2>1
<1>9. Linked(t)'
  <2>1. Linked(t)
    BY <1>0 DEF ShimInv, Links
  <2>2. Private(s)'
    BY <1>1, <1>f, <1>8 DEF Private, IsListed
  <2>3. Private(shim[t])'
    BY <1>g, <2>2 DEF Private, IsListed
  <2>4. ASSUME NEW j \in 1..Len(todo'[t]) PROVE LinkAt(t, j)'
    <3>1. CASE Place(todo'[t], j) = a
      BY <1>o, <2>2, <3>1 DEF LinkAt
    <3>2. CASE Place(todo'[t], j).op \in {"release_shim", "release", "new_proxy"}
      BY <2>3, <3>2 DEF LinkAt
    <3>3. CASE Place(todo'[t], j).op = "bind" /\ HasIn(todo'[t], "add2")
      BY <3>3 DEF LinkAt, Has
    <3> QED
      BY <1>5, <3>1, <3>2, <3>3
  <2> QED
    BY <1>1, <1>b, <2>1, <2>4 DEF Linked, Hold, IsListed
<1>10. /\ \A x \in Proxies \cup {Object} : HandsOf(x)' = HandsOf(x)
       /\ \A p \in Proxies : AddsOf(p)' = AddsOf(p) /\ WiresOf(p)' = WiresOf(p)
  <2>1. Handing(t)' <=> Handing(t)
    BY <1>5, <1>7 DEF Handing, Has
  <2>2. \A x : t \in HandsOf(x)' <=> t \in HandsOf(x)
    BY <1>b, <2>1 DEF HandsOf, Hold
  <2>3. \A p : t \notin AddsOf(p) /\ t \notin AddsOf(p)'
    <3>1. Len(todo[t]) = 3 => Place(todo[t], 3).op = "new_stub"
      BY <1>c DEF Current
    <3> QED
      BY <1>5, <3>1 DEF AddsOf, Adding
  <2>4. \A p \in Proxies : t \in WiresOf(p)' <=> t \in WiresOf(p)
    BY <1>b DEF WiresOf
  <2> QED
    BY <1>0, <1>6, <2>2, <2>3, <2>4, SizesMove DEF Changed
<1>11. /\ \A x \in Stubs : x # s => ShimsAt(x)' = ShimsAt(x)
       /\ IsFiniteSet(ShimsAt(s)') /\ Cardinality(ShimsAt(s)') = Cardinality(ShimsAt(s)) + 1
  <2>1. \A x \in Stubs : t \notin ShimsAt(x)
    <3>1. 0 \notin Stubs
      BY DEF ShimInv, ShimAssumption
    <3> QED
      BY <1>2, <3>1 DEF ShimsAt
  <2>2. \A x : t \in ShimsAt(x)' <=> x = s
    BY <1>g, <1>5 DEF ShimsAt, Has
  <2>3. \A x \in Stubs : Changed(ShimsAt(x), ShimsAt(x)', t)
    BY <1>0, <1>6, SizesMove
  <2> QED
    BY <2>1, <2>2, <2>3 DEF Changed, One
<1>12. /\ \A x : ProxiesFor(x)' = ProxiesFor(x) /\ PinnedFor(x)' = PinnedFor(x)
       /\ Referred' = Referred \cup {s} /\ s \notin Referred /\ Twice' = Twice
  <2>1. \A x : ProxiesFor(x)' = ProxiesFor(x) /\ PinnedFor(x)' = PinnedFor(x)
    BY <1>1 DEF ProxiesFor, PinnedFor
  <2>2. \A x \in Stubs : stubs'[x].refs > 0 <=> stubs[x].refs > 0 \/ x = s
    BY <1>f
  <2>3. \A x \in Stubs : (stubs'[x].refs = 2 /\ stubs'[x].pins > 0) <=> (stubs[x].refs = 2 /\ stubs[x].pins > 0)
    BY <1>d, <1>f
  <2>4. s \notin Referred
    BY <1>d DEF Referred
  <2>5. Referred' = Referred \cup {s}
    BY <2>2 DEF Referred
  <2>6. Twice' = Twice
    BY <2>3 DEF Twice
  <2> QED
    BY <2>1, <2>4, <2>5, <2>6
<1>15. ObjectSum'
  <2>1. ObjectSum
    BY <1>0 DEF ShimInv, Sums
  <2>2. Waits(todo', Op("release", Object)) = Waits(todo, Op("release", Object)) /\ HandsOf(Object)' = HandsOf(Object)
    BY <1>5, <1>10, StillWaitsFor
  <2>3. IsFiniteSet(Referred') /\ Cardinality(Referred') = Cardinality(Referred) + 1 /\ Cardinality(Referred) \in Nat
    BY <1>12, <2>1, FS_AddElement, FS_CardinalityType DEF ObjectSum
  <2>4. /\ object = 1 + Cardinality(HandsOf(Object)) + Waits(todo, Op("release", Object)) + Cardinality(Referred)
                      + Cardinality(Twice)
        /\ Cardinality(HandsOf(Object)) \in Nat /\ Cardinality(Twice) \in Nat
             /\ Waits(todo, Op("release", Object)) \in Nat
    <3>1. Waits(todo, Op("release", Object)) \in Nat
      BY <1>0, OpsOf, FS_CardinalityType DEF ShimInv, Sums, Counted, Waits
    <3> QED
      BY <2>1, <3>1, FS_CardinalityType DEF ObjectSum
  <2>5. object' = 1 + Cardinality(HandsOf(Object)') + Waits(todo', Op("release", Object)) + Cardinality(Referred')
                    + Cardinality(Twice')
    BY <1>1, <1>12, <2>2, <2>3, <2>4
  <2> QED
    BY <1>12, <2>1, <2>2, <2>3, <2>5 DEF ObjectSum
<1>16. ASSUME NEW x \in Stubs PROVE StubSum(x)'
  <2>1. /\ Waits(todo', Op("release_stub", x)) = Waits(todo, Op("release_stub", x))
        /\ Waits(todo', Op("release_pin", x)) = Waits(todo, Op("release_pin", x))
        /\ Waits(todo', Op("Destruct_stub", x)) = Waits(todo, Op("Destruct_stub", x))
    BY <1>5, StillWaitsFor
  <2>2. CASE x # s
    BY <1>0, <1>f, <1>11, <1>12, <2>1, <2>2, StubSame
  <2>3. CASE x = s
    <3>1. StubSum(s)
      BY <1>0 DEF ShimInv, Sums
    <3>2. Waits(todo, Op("Destruct_stub", s)) = 0
      BY <1>s, <3>1 DEF StubSum, One
    <3>3. Waits(todo', Op("Destruct_stub", s)) = One(stubs'[s].live /\ stubs'[s].refs = 0 /\ stubs'[s].pins = 0)
      BY <1>f, <2>1, <2>3, <3>2 DEF One
    <3>4. stubs'[s].refs = Cardinality(ShimsAt(s)') + Waits(todo', Op("release_stub", s))
               + Cardinality(ProxiesFor(s)')
      <4>1. /\ stubs[s].refs = Cardinality(ShimsAt(s)) + Waits(todo, Op("release_stub", s))
                 + Cardinality(ProxiesFor(s))
            /\ Cardinality(ShimsAt(s)) \in Nat /\ Cardinality(ProxiesFor(s)) \in Nat
            /\ Waits(todo, Op("release_stub", s)) \in Nat
        BY <1>0, StubFacts
      <4>2. stubs'[s].refs = stubs[s].refs + 1
        BY <1>d, <1>f
      <4>3. Cardinality(ShimsAt(s)') = Cardinality(ShimsAt(s)) + 1 /\ ProxiesFor(s)' = ProxiesFor(s)
        BY <1>11, <1>12
      <4> QED
        BY <2>1, <2>3, <4>1, <4>2, <4>3
    <3>5. stubs'[s].pins = Waits(todo', Op("release_pin", s)) + Cardinality(PinnedFor(s)')
      BY <1>d, <1>f, <1>12, <2>1, <2>3, <3>1 DEF StubSum
    <3>6. stubs'[s].live /\ IsFiniteSet(ShimsAt(s)') /\ IsFiniteSet(ProxiesFor(s)') /\ IsFiniteSet(PinnedFor(s)')
      BY <1>f, <1>11, <1>12, <3>1 DEF StubSum
    <3> QED
      BY <2>3, <3>3, <3>4, <3>5, <3>6 DEF StubSum
  <2> QED
    BY <2>2, <2>3
<1>17. ASSUME NEW p \in Proxies PROVE ProxySum(p)'
  BY <1>0, <1>1, <1>5, <1>10, StillWaitsFor, ProxySame
<1>18. Maps'
  <2>1. Maps
    BY <1>0 DEF ShimInv
  <2>2. \A x \in Stubs : stubs[x].live => stubs'[x].live
    BY <1>f
  <2> QED
    BY <1>1, <2>1, <2>2 DEF Maps, IsListed
<1>19. Pins'
  <2>1. Pins
    BY <1>0 DEF ShimInv
  <2>2. ASSUME NEW x \in Stubs, Waits(todo', Op("release_pin", x)) > 0 PROVE stubs'[x].refs = 0
    <3>1. Waits(todo, Op("release_pin", x)) > 0
      BY <1>5, <2>2, StillWaitsFor
    <3>2. x # s
      <4>1. /\ stubs[s].pins = Waits(todo, Op("release_pin", s)) + Cardinality(PinnedFor(s))
            /\ Cardinality(PinnedFor(s)) \in Nat /\ Waits(todo, Op("release_pin", s)) \in Nat
        BY <1>0, StubFacts
      <4> QED
        BY <1>d, <3>1, <4>1
    <3> QED
      BY <1>f, <2>1, <3>1, <3>2 DEF Pins
  <2>3. \A x \in Stubs : stubs'[x].pins > 0 => stubs'[x].refs <= 2
    <3>1. ASSUME NEW x \in Stubs, stubs'[x].pins > 0 PROVE stubs'[x].refs <= 2
      <4>1. x # s
        BY <1>f, <3>1
      <4> QED
        BY <1>f, <2>1, <3>1, <4>1 DEF Pins
    <3> QED
      BY <3>1
  <2>4. \A p \in Proxies : proxies'[p].pins > 0 => proxies'[p].refs <= 1 /\ ~IsListed(proxies[p].shim)'
             /\ ~IsShared(p)'
    BY <1>1, <2>1 DEF Pins, IsListed, IsShared
  <2> QED
    BY <1>1, <2>2, <2>3, <2>4 DEF Pins, IsListed
<1>20. ASSUME NEW u \in Threads PROVE Steady(u)
  <2>1. /\ \A x : IsListed(x)' <=> IsListed(x)
        /\ \A x : IsShared(x)' <=> IsShared(x)
    BY <1>1 DEF IsListed, IsShared
  <2>2. ASSUME NEW x \in Stubs, stubs[x].refs = 0, Sought(Op("AddRef_found", x)) PROVE stubs'[x].refs = 0
    BY <1>f, <1>s, <2>2
  <2>3. ASSUME NEW x \in Stubs, Private(x) PROVE Private(x)'
    <3>1. x # s
      BY <1>d, <2>3 DEF Private
    <3> QED
      BY <1>f, <2>1, <2>3, <3>1 DEF Private
  <2>4. ASSUME NEW p \in Proxies, NEW x \in Stubs, todo[u] # <<>>, Head(todo[u]) = Op("Pin", p), proxies[p].shim = x
        PROVE  /\ stubs'[x].refs = 2 /\ stubs'[x].pins = 0 /\ ~IsListed(x)'
               /\ proxies'[p].refs = 1 /\ proxies'[p].pins = 0 /\ ~IsShared(p)'
    <3>1. /\ stubs[x].refs = 2 /\ stubs[x].pins = 0 /\ ~IsListed(x)
          /\ proxies[p].refs = 1 /\ proxies[p].pins = 0 /\ ~IsShared(p)
      BY <1>0, <2>4, PinAhead
    <3>2. stubs'[x] = stubs[x]
      <4>1. x # s
        BY <1>d, <3>1
      <4> QED
        BY <1>f, <4>1
    <3> QED
      BY <1>1, <2>1, <3>1, <3>2
  <2>5. \A p \in Proxies : proxies[p].refs > 0 => proxies'[p].live
    BY <1>0, <1>1, ProxyFacts
  <2> QED
    BY <1>1, <2>1, <2>2, <2>3, <2>4, <2>5 DEF Steady
<1>21. Kept'
  <2>1. ASSUME NEW u \in Threads, NEW p \in Proxies, Keeps(u, p)
        PROVE  /\ proxies'[p].shim = proxies[p].shim
               /\ \A x \in Proxies : x # p /\ proxies'[x].refs > 0 => proxies'[x].shim # proxies[p].shim
               /\ shim'[t] # proxies[p].shim
    <3>1. stubs[proxies[p].shim].pins > 0 /\ \A x \in Proxies : x # p /\ proxies[x].refs > 0
               => proxies[x].shim # proxies[p].shim
      BY <1>0, <2>1, KeeperFacts
    <3> QED
      BY <1>1, <1>d, <1>g, <3>1
  <2>2. \A y : Op("release", y) \notin {a} /\ Op("release_stub", y) \notin {a} /\ Op("Unpin_proxy", y) \notin {a}
    BY OpsAre DEF a
  <2>3. Undisturbed(t, {a})
    BY <2>1, <2>2 DEF Undisturbed
  <2> QED
    BY <1>0, <1>5, <1>6, <1>b, <2>2, <2>3, KeptStill
<1>22. ShimTypes'
  <2>1. object' \in Int
    BY <1>1 DEF ShimInv, ShimTypes
  <2> QED
    BY <1>1, <1>6, <1>f, <1>g, <1>b, <2>1 DEF ShimInv, ShimTypes
<1>23. ShapeOf(todo[t], shim[t], holds[t], wired[t])'
  BY <1>5, <1>b, <1>g
<1> QED
  BY <1>0, <1>1, <1>6, <1>9, <1>15, <1>16, <1>17, <1>18, <1>19, <1>20, <1>21, <1>22, <1>23, CallStep

-----------------------------------------------------------------------------
\* What is referred to by as much more as is counted more, in a step of one thread.
LEMMA ObjectMoves ==
    ASSUME ShimInv, ~late, NEW t \in Threads, OthersSame(t), Referred' = Referred, Twice' = Twice,
           NEW k \in Int, Waits(todo', Op("release", Object)) = Waits(todo, Op("release", Object)) + k,
           object' = object + k + One(t \in HandsOf(Object)') - One(t \in HandsOf(Object))
    PROVE  ObjectSum'
<1>1. ObjectSum
  BY DEF ShimInv, Sums
<1>2. Changed(HandsOf(Object), HandsOf(Object)', t)
  BY SizesMove
<1>3. Waits(todo, Op("release", Object)) \in Nat
  BY OpsOf, FS_CardinalityType DEF ShimInv, Sums, Counted, Waits
<1>4. /\ Cardinality(HandsOf(Object)) \in Nat /\ Cardinality(Referred) \in Nat /\ Cardinality(Twice) \in Nat
      /\ One(t \in HandsOf(Object)') \in Nat /\ One(t \in HandsOf(Object)) \in Nat
  BY <1>1, FS_CardinalityType DEF ObjectSum, One
<1>5. IsFiniteSet(HandsOf(Object)') /\ Cardinality(HandsOf(Object)') = Cardinality(HandsOf(Object))
                                          - One(t \in HandsOf(Object)) + One(t \in HandsOf(Object)')
  BY <1>2 DEF Changed
<1>6. object = 1 + Cardinality(HandsOf(Object)) + Waits(todo, Op("release", Object))
                 + Cardinality(Referred) + Cardinality(Twice)
  BY <1>1 DEF ObjectSum
<1>7. object' = 1 + Cardinality(HandsOf(Object)') + Waits(todo', Op("release", Object))
                  + Cardinality(Referred) + Cardinality(Twice)
  BY <1>3, <1>4, <1>5, <1>6
<1> QED
  BY <1>1, <1>5, <1>7 DEF ObjectSum

\* The sums of a stub when a reference to it changes hands.
LEMMA StubMoves ==
    ASSUME ShimInv, ~late, NEW t \in Threads, OthersSame(t), NEW s \in Stubs, NEW k \in Int, NEW i \in Int,
           stubs'[s].live <=> stubs[s].live, stubs[s].live, stubs'[s].pins = stubs[s].pins,
           PinnedFor(s)' = PinnedFor(s),
           Waits(todo', Op("release_pin", s)) = Waits(todo, Op("release_pin", s)),
           Waits(todo', Op("Destruct_stub", s)) = Waits(todo, Op("Destruct_stub", s)),
           Waits(todo', Op("release_stub", s)) = Waits(todo, Op("release_stub", s)) + k,
           IsFiniteSet(ProxiesFor(s)'), Cardinality(ProxiesFor(s)') = Cardinality(ProxiesFor(s)) + i,
           stubs'[s].refs = stubs[s].refs + k + i + One(t \in ShimsAt(s)') - One(t \in ShimsAt(s)),
           stubs'[s].refs = 0 <=> stubs[s].refs = 0
    PROVE  StubSum(s)'
<1>1. StubSum(s)
  BY DEF ShimInv, Sums
<1>2. Changed(ShimsAt(s), ShimsAt(s)', t)
  BY SizesMove
<1>3. /\ Cardinality(ShimsAt(s)) \in Nat /\ Cardinality(ProxiesFor(s)) \in Nat
      /\ Waits(todo, Op("release_stub", s)) \in Nat
      /\ stubs[s].refs = Cardinality(ShimsAt(s)) + Waits(todo, Op("release_stub", s)) + Cardinality(ProxiesFor(s))
  BY StubFacts
<1>4. One(t \in ShimsAt(s)') \in Nat /\ One(t \in ShimsAt(s)) \in Nat
  BY DEF One
<1>5. IsFiniteSet(ShimsAt(s)') /\ Cardinality(ShimsAt(s)') = Cardinality(ShimsAt(s))
                                     - One(t \in ShimsAt(s)) + One(t \in ShimsAt(s)')
  BY <1>2 DEF Changed
<1>6. stubs'[s].refs = Cardinality(ShimsAt(s)') + Waits(todo', Op("release_stub", s)) + Cardinality(ProxiesFor(s)')
  BY <1>3, <1>4, <1>5
<1>7. Waits(todo', Op("Destruct_stub", s)) = One(stubs'[s].live /\ stubs'[s].refs = 0 /\ stubs'[s].pins = 0)
  BY <1>1 DEF StubSum, One
<1>8. stubs'[s].pins = Waits(todo', Op("release_pin", s)) + Cardinality(PinnedFor(s)')
  BY <1>1 DEF StubSum
<1> QED
  BY <1>1, <1>5, <1>6, <1>7, <1>8 DEF StubSum

\* The sums of a proxy when a reference to it changes hands.
LEMMA ProxyMoves ==
    ASSUME ShimInv, ~late, NEW t \in Threads, OthersSame(t), NEW p \in Proxies, NEW k \in Int,
           proxies'[p].live <=> proxies[p].live, proxies[p].live, proxies'[p].shim = proxies[p].shim,
           proxies'[p].pins = proxies[p].pins, proxies'[p].ints = proxies[p].ints,
           WiresOf(p)' = WiresOf(p),
           Waits(todo', Op("Internal_Release", p)) = Waits(todo, Op("Internal_Release", p)),
           Waits(todo', Op("Unpin_proxy", p)) = Waits(todo, Op("Unpin_proxy", p)),
           Waits(todo', Op("Destruct_proxy", p)) = Waits(todo, Op("Destruct_proxy", p)),
           Waits(todo', Op("release", p)) = Waits(todo, Op("release", p)) + k,
           proxies'[p].refs = proxies[p].refs + k + One(t \in HandsOf(p)') - One(t \in HandsOf(p))
                                                  + One(t \in AddsOf(p)') - One(t \in AddsOf(p)),
           proxies'[p].refs = 0 <=> proxies[p].refs = 0
    PROVE  ProxySum(p)'
<1>1. ProxySum(p)
  BY DEF ShimInv, Sums
<1>2. Changed(HandsOf(p), HandsOf(p)', t) /\ Changed(AddsOf(p), AddsOf(p)', t)
  BY SizesMove
<1>3. /\ Cardinality(HandsOf(p)) \in Nat /\ Cardinality(AddsOf(p)) \in Nat
      /\ Waits(todo, Op("release", p)) \in Nat
  BY ProxyFacts
<1>4. /\ One(t \in HandsOf(p)') \in Nat /\ One(t \in HandsOf(p)) \in Nat
      /\ One(t \in AddsOf(p)') \in Nat /\ One(t \in AddsOf(p)) \in Nat
  BY DEF One
<1>5. /\ IsFiniteSet(HandsOf(p)') /\ Cardinality(HandsOf(p)') = Cardinality(HandsOf(p))
                                     - One(t \in HandsOf(p)) + One(t \in HandsOf(p)')
      /\ IsFiniteSet(AddsOf(p)') /\ Cardinality(AddsOf(p)') = Cardinality(AddsOf(p))
                                     - One(t \in AddsOf(p)) + One(t \in AddsOf(p)')
  BY <1>2 DEF Changed
<1>6. proxies'[p].refs = Cardinality(HandsOf(p)') + Waits(todo', Op("release", p)) + Cardinality(AddsOf(p)')
  <2>1. proxies[p].refs = Cardinality(HandsOf(p)) + Waits(todo, Op("release", p)) + Cardinality(AddsOf(p))
    BY <1>1 DEF ProxySum
  <2> QED
    BY <1>3, <1>4, <1>5, <2>1
<1>7. Waits(todo', Op("Destruct_proxy", p)) =
          One(proxies'[p].live /\ proxies'[p].refs = 0 /\ proxies'[p].pins = 0 /\ proxies'[p].ints = 0)
  BY <1>1 DEF ProxySum, One
<1>8. /\ proxies'[p].ints = Waits(todo', Op("Internal_Release", p))
      /\ proxies'[p].pins = Cardinality(WiresOf(p)') + Waits(todo', Op("Unpin_proxy", p))
  BY <1>1 DEF ProxySum
<1> QED
  BY <1>1, <1>5, <1>6, <1>7, <1>8 DEF ProxySum

\* A reference to the object or to a proxy is given up.
LEMMA Releases ==
    ASSUME ShimInv, NEW t \in Threads, release(t)
    PROVE  ShimInv'
<1>1. Arg(t) \in Proxies \cup {Object}
  <2>1. Current(t, "release")
    BY NowIs DEF release
  <2> QED
    BY <2>1 DEF Current, ArgsOf
<1>2. CASE Arg(t) = Object
  BY <1>2, ReleaseObject
<1>3. CASE Arg(t) \in Proxies /\ proxies[Arg(t)].refs = 1
  BY <1>3, ReleaseLast
<1>4. CASE Arg(t) \in Proxies /\ proxies[Arg(t)].refs # 1
  BY <1>4, ReleaseOne
<1> QED
  BY <1>1, <1>2, <1>3, <1>4

\* The sum of the object stays when nothing in it changes.
LEMMA ObjectStays ==
    ASSUME ShimInv, ~late, Referred' = Referred, Twice' = Twice, object' = object,
           HandsOf(Object)' = HandsOf(Object),
           Waits(todo', Op("release", Object)) = Waits(todo, Op("release", Object))
    PROVE  ObjectSum'
<1>1. ObjectSum
  BY DEF ShimInv, Sums
<1> QED
  BY <1>1 DEF ObjectSum

\* Whoever unpins has the proxy alone still, when the proxies do not change.
LEMMA KeptPlainly ==
    ASSUME ShimInv, ~late, NEW t \in Threads, OthersSame(t), wired'[t] = wired[t], proxies' = proxies,
           NEW A, Grown(t, A), \A p : Op("Unpin_proxy", p) \notin A,
           \A u \in Threads : \A p \in Proxies : u # t /\ Keeps(u, p) =>
               /\ shim'[t] # proxies[p].shim /\ Op("release", p) \notin A
               /\ Op("release_stub", proxies[p].shim) \notin A
    PROVE  Kept'
<1>1. Undisturbed(t, A)
  <2>1. ASSUME NEW u \in Threads, NEW p \in Proxies, Keeps(u, p)
        PROVE  \A x \in Proxies : x # p /\ proxies[x].refs > 0 => proxies[x].shim # proxies[p].shim
    BY <2>1, KeeperFacts
  <2> QED
    BY <2>1 DEF Undisturbed
<1> QED
  BY <1>1, KeptStill

\* The shim at hand is given up.
LEMMA ShimReleases ==
    ASSUME ShimInv, NEW t \in Threads, release_shim(t)
    PROVE  ShimInv'
<1>0. Now(t, "release_shim") /\ ~late
  BY DEF release_shim, Now
<1>c. Current(t, "release_shim")
  BY <1>0, NowIs
<1> DEFINE r == Tail(todo[t])
<1>1. UNCHANGED <<object, stubs, proxies, holders, holds, wired, late, calls>>
  BY DEF release_shim
<1>2. /\ Grows(r, todo[t], Op("release_shim", Arg(t)))
      /\ ShapeOf(todo[t], shim[t], holds[t], wired[t])
      /\ ShapeAt(todo[t], shim[t], holds[t], wired[t], Len(todo[t]))
      /\ Place(todo[t], Len(todo[t])).op = "release_shim"
  <2>1. Len(todo[t]) \in 1..Len(todo[t])
    BY <1>c DEF Current
  <2> QED
    BY <1>0, <1>c, <2>1, Goings, InCall DEF Current
<1>3. (\A n \in Foremost : ~HasIn(todo[t], n)) /\ ~Shimless(todo[t])
  <2>1. Len(todo[t]) \in Nat \ {0} /\ Place(todo[t], Len(todo[t])).op \notin Foremost
    BY <1>c DEF Current, Foremost
  <2>2. \A n \in Foremost : ~HasIn(todo[t], n)
    BY <1>2, <2>1, NothingForemost
  <2> QED
    BY <2>2 DEF Shimless, Foremost
<1>4. shim[t] \in Stubs
  BY <1>2, <1>3 DEF ShapeAt
<1>s. PICK s \in Stubs : s = shim[t]
  BY <1>4
<1> DEFINE a == Op("release_stub", s)
<1>5. shim' = [shim EXCEPT ![t] = 0] /\ Then(t, <<a>>)
  BY <1>s DEF release_shim
<1>o. a \in Ops /\ a.op = "release_stub" /\ a.op \in Releasing
  BY OpsAre, OpsOf DEF Releasing
<1>m. \A A, av : Goes1(t, "release_shim", Op("release_stub", s))
           => Moves("release_shim", Arg(t), "release_stub", s, "none", 0)
  BY MovesBy
<1>g. shim' \in [Threads -> Stubs \cup {0}] /\ shim'[t] = 0 /\ \A u \in Threads : u # t => shim'[u] = shim[u]
  BY <1>5 DEF ShimInv, ShimTypes
<1>6. Moves("release_shim", Arg(t), "release_stub", s, "none", 0) /\ Grows(r, todo'[t], a) /\ Grown(t, {a})
           /\ Stepped(t, "release_shim")
  <2>1. Goes1(t, "release_shim", a) /\ Grows(r, todo'[t], a)
    <3> HIDE DEF a
    <3> QED
      BY <1>0, <1>5, <1>o, ThenGoes, Goings DEF r
  <2>2. Grown(t, {a}) /\ Stepped(t, "release_shim")
    BY <2>1, PlacesAre DEF Goes1
  <2> QED
    BY <1>m, <2>1, <2>2
<1>7. /\ \A x \in Proxies \cup {Object} : Waits(todo', Op("release", x)) = Waits(todo, Op("release", x))
      /\ \A x \in Stubs : /\ Waits(todo', Op("release_stub", x)) = Waits(todo, Op("release_stub", x)) + One(x = s)
                          /\ Waits(todo, Op("release_stub", x)) \in Nat
                          /\ Waits(todo', Op("release_pin", x)) = Waits(todo, Op("release_pin", x))
                          /\ Waits(todo', Op("Destruct_stub", x)) = Waits(todo, Op("Destruct_stub", x))
      /\ \A x \in Proxies : /\ Waits(todo', Op("Internal_Release", x)) = Waits(todo, Op("Internal_Release", x))
                            /\ Waits(todo', Op("Unpin_proxy", x)) = Waits(todo, Op("Unpin_proxy", x))
                            /\ Waits(todo', Op("Destruct_proxy", x)) = Waits(todo, Op("Destruct_proxy", x))
  <2> HIDE DEF a
  <2> QED
    BY <1>6 DEF Moves, WaitsMore, One
<1>8. todo' \in Lists /\ Counted(todo') /\ OthersSame(t)
  BY <1>1, <1>6, <1>g, OthersStay DEF OthersSame
<1>9. \A j \in 1..Len(todo[t]) : Place(todo[t], j).op \in {"release_shim", "release"}
  <2>1. \A j \in 1..Len(todo[t]) : j = Len(todo[t]) \/ (Len(todo[t]) = 2 /\ j = 1)
    <3>1. Len(todo[t]) \in Nat /\ (Len(todo[t]) = 1 \/ Len(todo[t]) = 2)
      BY <1>2, <1>c DEF ShapeAt, Current
    <3>2. \A n \in Nat : n = 1 \/ n = 2 => \A j \in 1..n : j = n \/ (n = 2 /\ j = 1)
      OBVIOUS
    <3> QED
      BY <3>1, <3>2
  <2>2. Len(todo[t]) = 2 => Place(todo[t], 1).op = "release"
    BY <1>2 DEF ShapeAt
  <2> QED
    BY <1>2, <2>1, <2>2
<1>10. \A j \in 1..Len(todo'[t]) : Place(todo'[t], j).op \in Releasing
  <2>1. \A j \in 1..Len(r) : Place(r, j).op \in Releasing
    <3>1. ASSUME NEW j \in 1..Len(r) PROVE Place(r, j).op \in Releasing
      <4>1. Len(todo[t]) = Len(r) + 1 /\ Len(r) \in Nat /\ Place(todo[t], j) = Place(r, j)
        BY <1>2 DEF Grows
      <4>2. j # Len(todo[t]) /\ j \in 1..Len(todo[t])
        BY <4>1
      <4>3. Len(todo[t]) = 2 /\ j = 1
        <5>1. Len(todo[t]) \in Nat /\ (Len(todo[t]) = 1 \/ Len(todo[t]) = 2)
          BY <1>2, <1>c DEF ShapeAt, Current
        <5>2. \A n \in Nat : n = 1 \/ n = 2 => \A i \in 1..n : i = n \/ (n = 2 /\ i = 1)
          OBVIOUS
        <5> QED
          BY <4>2, <5>1, <5>2
      <4>4. Place(todo[t], 1).op = "release"
        BY <1>2, <4>3 DEF ShapeAt
      <4> QED
        BY <4>1, <4>3, <4>4 DEF Releasing
    <3> QED
      BY <3>1
  <2>2. \A j \in 1..Len(todo'[t]) : j \in 1..Len(r) \/ j = Len(r) + 1
    BY <1>6 DEF Grows
  <2> HIDE DEF a, r
  <2> QED
    BY <1>6, <1>o, <2>1, <2>2 DEF Grows
<1> HIDE DEF a, r
<1>11. /\ ~Handing(t) /\ ~Handing(t)' /\ ~Has(t, "AddRef_found")
       /\ \A p : ~Adding(todo[t], p) /\ ~Adding(todo'[t], p)
  <2>1. \A n \in {"bind", "add1", "AddRef_listed", "AddRef_found"} : ~HasIn(todo[t], n) /\ ~HasIn(todo'[t], n)
    BY <1>9, <1>10 DEF HasIn, Releasing
  <2>2. \A p : ~Adding(todo[t], p) /\ ~Adding(todo'[t], p)
    <3>1. Len(todo[t]) = 3 => 3 \in 1..Len(todo[t])
      OBVIOUS
    <3>2. Len(todo'[t]) = 3 => 3 \in 1..Len(todo'[t])
      OBVIOUS
    <3> QED
      BY <1>9, <1>10, <3>1, <3>2 DEF Adding, Releasing
  <2> QED
    BY <2>1, <2>2 DEF Handing, Has
<1>12. /\ \A x \in Proxies \cup {Object} : HandsOf(x)' = HandsOf(x)
       /\ \A p \in Proxies : AddsOf(p)' = AddsOf(p) /\ WiresOf(p)' = WiresOf(p)
       /\ \A x \in Stubs : x # s => ShimsAt(x)' = ShimsAt(x)
       /\ t \in ShimsAt(s) /\ t \notin ShimsAt(s)'
  <2>0. 0 \notin Stubs
    BY DEF ShimInv, ShimAssumption
  <2>1. \A x : t \in HandsOf(x)' <=> t \in HandsOf(x)
    BY <1>1, <1>11 DEF HandsOf, Hold
  <2>2. \A p : t \notin AddsOf(p) /\ t \notin AddsOf(p)'
    BY <1>11 DEF AddsOf
  <2>3. \A p \in Proxies : t \in WiresOf(p)' <=> t \in WiresOf(p)
    BY <1>1 DEF WiresOf
  <2>4. /\ \A x \in Stubs : x # s => t \notin ShimsAt(x) /\ t \notin ShimsAt(x)'
        /\ t \in ShimsAt(s) /\ t \notin ShimsAt(s)'
    BY <1>s, <1>g, <1>11, <2>0 DEF ShimsAt
  <2> QED
    BY <1>0, <1>8, <2>1, <2>2, <2>3, <2>4, SizesMove DEF Changed
<1>13. /\ Maps' /\ Referred' = Referred /\ Twice' = Twice /\ Pins'
       /\ \A x : ProxiesFor(x)' = ProxiesFor(x) /\ PinnedFor(x)' = PinnedFor(x)
       /\ \A u \in Threads : Steady(u)
  BY <1>0, <1>1, <1>7, NothingMoved
<1>14. ObjectSum'
  <2>1. HandsOf(Object)' = HandsOf(Object)
    BY <1>12
  <2> QED
    BY <1>0, <1>1, <1>7, <1>8, <1>13, <2>1, ObjectStays
<1>15. ASSUME NEW x \in Stubs PROVE StubSum(x)'
  <2>1. CASE x # s
    <3>1. One(x = s) = 0
      BY <2>1 DEF One
    <3>2. Waits(todo', Op("release_stub", x)) = Waits(todo, Op("release_stub", x))
      BY <1>7, <3>1
    <3> QED
      BY <1>0, <1>1, <1>7, <1>12, <1>13, <2>1, <3>2, StubSame
  <2>2. CASE x = s
    <3>1. stubs[s].live /\ stubs[s].refs \in Nat /\ stubs[s].refs >= 1
      <4>1. Cardinality(ShimsAt(s)) >= 1
        <5>1. IsFiniteSet(ShimsAt(s))
          BY <1>0 DEF ShimInv, Sums, StubSum
        <5> QED
          BY <1>12, <5>1, SizeIs
      <4> QED
        BY <1>0, <4>1, StubFacts
    <3>2. /\ Waits(todo', Op("release_stub", s)) = Waits(todo, Op("release_stub", s)) + 1
          /\ One(t \in ShimsAt(s)') = 0 /\ One(t \in ShimsAt(s)) = 1
      BY <1>7, <1>12 DEF One
    <3>3. IsFiniteSet(ProxiesFor(s)') /\ Cardinality(ProxiesFor(s)') = Cardinality(ProxiesFor(s)) + 0
      <4>1. IsFiniteSet(ProxiesFor(s)) /\ Cardinality(ProxiesFor(s)) \in Nat
        BY <1>0, FS_CardinalityType DEF ShimInv, Sums, StubSum
      <4> QED
        BY <1>13, <4>1
    <3>4. stubs'[s].refs = stubs[s].refs + 1 + 0 + One(t \in ShimsAt(s)') - One(t \in ShimsAt(s))
      BY <1>1, <3>1, <3>2
    <3>5. /\ stubs'[s].live <=> stubs[s].live
          /\ stubs'[s].pins = stubs[s].pins /\ (stubs'[s].refs = 0 <=> stubs[s].refs = 0)
          /\ PinnedFor(s)' = PinnedFor(s) /\ 1 \in Int /\ 0 \in Int
          /\ Waits(todo', Op("release_pin", s)) = Waits(todo, Op("release_pin", s))
          /\ Waits(todo', Op("Destruct_stub", s)) = Waits(todo, Op("Destruct_stub", s))
      BY <1>1, <1>7, <1>13
    <3>6. StubSum(s)'
      BY <1>0, <1>8, <3>1, <3>2, <3>3, <3>4, <3>5, StubMoves
    <3> QED
      BY <2>2, <3>6
  <2> QED
    BY <2>1, <2>2
<1>16. ASSUME NEW p \in Proxies PROVE ProxySum(p)'
  BY <1>0, <1>1, <1>7, <1>12, ProxySame
<1>17. ShapeOf(todo[t], shim[t], holds[t], wired[t])'
  <2>1. \A j \in 1..Len(todo'[t]) : ShapeAt(todo'[t], 0, holds[t], wired[t], j)
    BY <1>10 DEF ShapeAt, Releasing, Foremost
  <2> QED
    BY <1>1, <1>g, <2>1 DEF ShapeOf
<1>18. Linked(t)'
  <2>1. Linked(t)
    BY <1>0 DEF ShimInv, Links
  <2>2. \A j \in 1..Len(todo'[t]) : LinkAt(t, j)'
    BY <1>10 DEF LinkAt, Releasing
  <2> QED
    BY <1>1, <2>1, <2>2 DEF Linked, Hold, IsListed
<1>19. Kept'
  <2>1. ASSUME NEW u \in Threads, NEW p \in Proxies, u # t, Keeps(u, p)
        PROVE  /\ shim'[t] # proxies[p].shim /\ Op("release", p) \notin {a}
               /\ Op("release_stub", proxies[p].shim) \notin {a}
    <3>1. proxies[p].shim \in Stubs /\ shim[t] # proxies[p].shim
      BY <1>0, <2>1, KeeperFacts
    <3>2. 0 \notin Stubs
      BY DEF ShimInv, ShimAssumption
    <3> QED
      BY <1>s, <1>g, <3>1, <3>2, OpsAre DEF a
  <2>2. \A p : Op("Unpin_proxy", p) \notin {a}
    BY OpsAre DEF a
  <2> QED
    BY <1>0, <1>1, <1>6, <1>8, <2>1, <2>2, KeptPlainly
<1>20. ShimTypes'
  BY <1>1, <1>8, <1>g DEF ShimInv, ShimTypes
<1> QED
  BY <1>0, <1>1, <1>8, <1>13, <1>14, <1>15, <1>16, <1>17, <1>18, <1>19, <1>20, CallStep

\* A call begun is pushed as well, from its last operation to its first.
LEMMA ListsGrow ==
    ASSUME NEW Z, NEW a \in Z, NEW b \in Z, NEW c \in Z, NEW d \in Z
    PROVE  /\ <<a>> = <<a>> \o <<>> /\ <<a, b>> = <<a>> \o <<b>>
           /\ <<a, b, c>> = <<a>> \o <<b, c>> /\ <<a, b, c, d>> = <<a>> \o <<b, c, d>>
<1>1. <<a>> = <<a>> \o <<>> /\ <<a, b>> = <<a>> \o <<b>>
  BY TwoLists
<1>2. ASSUME NEW s \in Seq(Z), NEW q \in Seq(Z), Len(s) = Len(q) + 1, s[1] = a, \A i \in 1..Len(q) : s[i + 1] = q[i]
      PROVE  s = <<a>> \o q
  <2>1. <<a>> \in Seq(Z) /\ Len(<<a>>) = 1 /\ <<a>>[1] = a /\ Len(q) \in Nat
    BY LenProperties
  <2> DEFINE r == <<a>> \o q
  <2>2. r \in Seq(Z) /\ Len(r) = 1 + Len(q) /\ \A i \in 1..(1 + Len(q)) : r[i] = IF i <= 1 THEN <<a>>[i] ELSE q[i - 1]
    BY <2>1, ConcatProperties
  <2> HIDE DEF r
  <2>3. ASSUME NEW i \in 1..Len(s) PROVE s[i] = r[i]
    <3>1. CASE i = 1
      BY <1>2, <2>1, <2>2, <3>1
    <3>2. CASE i # 1
      <4>1. i \in 1..(1 + Len(q)) /\ ~(i <= 1) /\ i - 1 \in 1..Len(q) /\ (i - 1) + 1 = i
        BY <1>2, <2>1, <3>2
      <4>2. r[i] = q[i - 1] /\ s[(i - 1) + 1] = q[i - 1]
        BY <1>2, <2>2, <4>1
      <4> QED
        BY <4>1, <4>2
    <3> QED
      BY <3>1, <3>2
  <2>4. Len(s) = Len(r)
    BY <1>2, <2>1, <2>2
  <2>5. s = r
    BY <1>2, <2>2, <2>3, <2>4, SeqEqual
  <2> QED
    BY <2>5 DEF r
<1>3. <<a, b, c>> = <<a>> \o <<b, c>>
  <2>1. /\ <<a, b, c>> \in Seq(Z) /\ <<b, c>> \in Seq(Z) /\ Len(<<a, b, c>>) = 3 /\ Len(<<b, c>>) = 2
        /\ <<a, b, c>>[1] = a /\ <<a, b, c>>[2] = b /\ <<a, b, c>>[3] = c /\ <<b, c>>[1] = b /\ <<b, c>>[2] = c
    OBVIOUS
  <2>2. \A i \in 1..2 : i = 1 \/ i = 2
    OBVIOUS
  <2> DEFINE x == <<a, b, c>>
             y == <<b, c>>
  <2>3. \A i \in 1..Len(y) : x[i + 1] = y[i]
    BY <2>1, <2>2
  <2>4. x \in Seq(Z) /\ y \in Seq(Z) /\ Len(x) = Len(y) + 1 /\ x[1] = a
    BY <2>1
  <2> HIDE DEF x, y
  <2>5. x = <<a>> \o y
    BY <1>2, <2>3, <2>4
  <2> QED
    BY <2>5 DEF x, y
<1>4. <<a, b, c, d>> = <<a>> \o <<b, c, d>>
  <2>1. /\ <<a, b, c, d>> \in Seq(Z) /\ <<b, c, d>> \in Seq(Z) /\ Len(<<a, b, c, d>>) = 4 /\ Len(<<b, c, d>>) = 3
        /\ <<a, b, c, d>>[1] = a /\ <<a, b, c, d>>[2] = b /\ <<a, b, c, d>>[3] = c /\ <<a, b, c, d>>[4] = d
        /\ <<b, c, d>>[1] = b /\ <<b, c, d>>[2] = c /\ <<b, c, d>>[3] = d
    OBVIOUS
  <2>2. \A i \in 1..3 : i = 1 \/ i = 2 \/ i = 3
    OBVIOUS
  <2> DEFINE x == <<a, b, c, d>>
             y == <<b, c, d>>
  <2>3. \A i \in 1..Len(y) : x[i + 1] = y[i]
    BY <2>1, <2>2
  <2>4. x \in Seq(Z) /\ y \in Seq(Z) /\ Len(x) = Len(y) + 1 /\ x[1] = a
    BY <2>1
  <2> HIDE DEF x, y
  <2>5. x = <<a>> \o y
    BY <1>2, <2>3, <2>4
  <2> QED
    BY <2>5 DEF x, y
<1> QED
  BY <1>1, <1>3, <1>4

Started(td, ud, t, q) ==
    Counted(td) /\ Counted(ud) /\ ud[t] = q /\ \A u \in Threads : u # t => ud[u] = td[u]

Adds(td, ud, a) ==
    \A o \in Ops : Waits(td, o) \in Nat /\ Waits(ud, o) \in Nat /\ Waits(ud, o) = Waits(td, o) + One(o = a)
Longer(r, a, q) == r = <<a>> \o q

\* A call begun with one more operation in front.
LEMMA PushedStart ==
    ASSUME NEW td, NEW ud, NEW t \in Threads, NEW q, Started(td, ud, t, q), NEW a \in Ops, NEW r, Longer(r, a, q)
    PROVE  Started(td, PushOn(ud, t, a), t, r) /\ Adds(ud, PushOn(ud, t, a), a)
<1>1. Counted(ud) /\ ud \in Lists /\ ud[t] = q
  BY DEF Started, Counted
<1>2. PushOn(ud, t, a)[t] = r /\ \A u \in Threads : u # t => PushOn(ud, t, a)[u] = ud[u]
  BY <1>1 DEF PushOn, Lists, Longer
<1>3. /\ Counted(PushOn(ud, t, a))
      /\ \A o \in Ops : /\ Waits(ud, o) \in Nat /\ Waits(PushOn(ud, t, a), o) \in Nat
                        /\ Waits(PushOn(ud, t, a), o) = Waits(ud, o) + One(o = a)
  BY <1>1, OnePushed
<1> QED
  BY <1>2, <1>3 DEF Started, Adds

InNoCall(t) == todo[t] = <<>>
Begun(t, q) == [todo EXCEPT ![t] = q]

\* A call of one operation begins.
LEMMA Begun1 ==
    ASSUME Counted(todo), NEW t \in Threads, InNoCall(t), NEW a \in Ops, todo' = Begun(t, <<a>>)
    PROVE  /\ Started(todo, todo', t, <<a>>)
           /\ \A o \in Ops : Waits(todo, o) \in Nat /\ Waits(todo', o) = Waits(todo, o) + One(o = a)
<1> DEFINE q0 == <<>>
           q1 == <<a>>
<1>1. Started(todo, todo, t, q0)
  BY DEF Started, InNoCall
<1>2. Longer(q1, a, q0)
  BY ListsGrow DEF Longer
<1>3. todo' = PushOn(todo, t, a)
  BY <1>2 DEF Begun, PushOn, Longer, InNoCall
<1>4. Started(todo, todo', t, q1) => Started(todo, todo', t, <<a>>)
  OBVIOUS
<1> HIDE DEF q0, q1
<1> QED
  <2>1. Started(todo, todo', t, q1) /\ Adds(todo, todo', a)
    BY <1>1, <1>2, <1>3, PushedStart
  <2> QED
    BY <1>4, <2>1 DEF Adds

Began3(t, b, c, d) == todo' = Begun(t, <<b, c, d>>)
Began4(t, a, b, c, d) == todo' = Begun(t, <<a, b, c, d>>)
Gains3(b, c, d) ==
    \A o \in Ops : Waits(todo, o) \in Nat /\ Waits(todo', o) = Waits(todo, o) + One(o = b) + One(o = c) + One(o = d)
Gains4(a, b, c, d) ==
    \A o \in Ops : /\ Waits(todo, o) \in Nat
                   /\ Waits(todo', o) = Waits(todo, o) + One(o = a) + One(o = b) + One(o = c) + One(o = d)

\* A call of three operations, or of four, begins.
LEMMA BegunMore ==
    ASSUME Counted(todo), NEW t \in Threads, InNoCall(t), NEW a \in Ops, NEW b \in Ops, NEW c \in Ops, NEW d \in Ops
    PROVE  /\ Began3(t, b, c, d) => Started(todo, todo', t, <<b, c, d>>) /\ Gains3(b, c, d)
           /\ Began4(t, a, b, c, d) => Started(todo, todo', t, <<a, b, c, d>>) /\ Gains4(a, b, c, d)
<1> DEFINE d1 == PushOn(todo, t, d)
           d2 == PushOn(d1, t, c)
           d3 == PushOn(d2, t, b)
           d4 == PushOn(d3, t, a)
           q0 == <<>>
           q1 == <<d>>
           q2 == <<c, d>>
           q3 == <<b, c, d>>
           q4 == <<a, b, c, d>>
<1>1. Started(todo, todo, t, q0)
  BY DEF Started, InNoCall
<1>a. Longer(q1, d, q0)
  BY ListsGrow DEF Longer
<1>b. Longer(q2, c, q1)
  BY ListsGrow DEF Longer
<1>c. Longer(q3, b, q2)
  BY ListsGrow DEF Longer
<1>d. Longer(q4, a, q3)
  BY ListsGrow DEF Longer
<1>e. /\ Started(todo, todo', t, q3) => Started(todo, todo', t, <<b, c, d>>)
      /\ Started(todo, todo', t, q4) => Started(todo, todo', t, <<a, b, c, d>>)
      /\ Begun(t, <<b, c, d>>) = Begun(t, q3) /\ Begun(t, <<a, b, c, d>>) = Begun(t, q4)
  OBVIOUS
<1> HIDE DEF q0, q1, q2, q3, q4
<1>2. Started(todo, d1, t, q1) /\ Adds(todo, d1, d)
  BY <1>1, <1>a, PushedStart
<1> HIDE DEF d1
<1>3. Started(todo, d2, t, q2) /\ Adds(d1, d2, c)
  BY <1>2, <1>b, PushedStart
<1> HIDE DEF d2
<1>4. Started(todo, d3, t, q3) /\ Adds(d2, d3, b)
  BY <1>3, <1>c, PushedStart
<1> HIDE DEF d3
<1>5. Started(todo, d4, t, q4) /\ Adds(d3, d4, a)
  BY <1>4, <1>d, PushedStart
<1> HIDE DEF d4
<1>6. ASSUME NEW v, NEW q, Started(todo, v, t, q), todo' = Begun(t, q) PROVE todo' = v
  <2>1. todo \in [Threads -> Seq(Ops)] /\ v \in [Threads -> Seq(Ops)]
    BY <1>6 DEF Started, Counted, Lists
  <2>2. todo' = [u \in Threads |-> IF u = t THEN q ELSE todo[u]]
    BY <1>6, <2>1 DEF Begun
  <2>3. v = [u \in Threads |-> v[u]]
    BY <2>1
  <2>4. \A u \in Threads : v[u] = IF u = t THEN q ELSE todo[u]
    BY <1>6 DEF Started
  <2> QED
    BY <2>2, <2>3, <2>4
<1>7. \A o \in Ops : One(o = a) \in Nat /\ One(o = b) \in Nat /\ One(o = c) \in Nat /\ One(o = d) \in Nat
  BY DEF One
<1>8. ASSUME Began3(t, b, c, d)
      PROVE  /\ Started(todo, todo', t, <<b, c, d>>)
             /\ Gains3(b, c, d)
  <2>1. todo' = d3
    BY <1>4, <1>6, <1>8, <1>e DEF Began3
  <2>2. ASSUME NEW o \in Ops
        PROVE  Waits(todo, o) \in Nat /\ Waits(d3, o) = Waits(todo, o) + One(o = b) + One(o = c) + One(o = d)
    BY <1>2, <1>3, <1>4 DEF One, Adds
  <2> QED
    BY <1>4, <1>e, <2>1, <2>2 DEF Gains3
<1>9. ASSUME Began4(t, a, b, c, d)
      PROVE  /\ Started(todo, todo', t, <<a, b, c, d>>)
             /\ Gains4(a, b, c, d)
  <2>1. todo' = d4
    BY <1>5, <1>6, <1>9, <1>e DEF Began4
  <2>2. ASSUME NEW o \in Ops
        PROVE  /\ Waits(todo, o) \in Nat
               /\ Waits(d4, o) = Waits(todo, o) + One(o = a) + One(o = b) + One(o = c) + One(o = d)
    BY <1>2, <1>3, <1>4, <1>5 DEF One, Adds
  <2> QED
    BY <1>5, <1>e, <2>1, <2>2 DEF Gains4
<1> QED
  BY <1>8, <1>9

\* A thread in no call has no shim, and is counted for none.
LEMMA Idle ==
    ASSUME ShimInv, ~late, NEW t \in Threads, todo[t] = <<>>
    PROVE  /\ Counted(todo) /\ InNoCall(t) /\ shim[t] = 0
           /\ ~Handing(t) /\ (\A n : ~HasIn(todo[t], n)) /\ (\A p : ~Adding(todo[t], p))
           /\ \A s \in Stubs : t \notin ShimsAt(s)
<1>1. Len(todo[t]) = 0
  OBVIOUS
<1>2. \A n : ~HasIn(todo[t], n)
  BY <1>1 DEF HasIn
<1>3. shim[t] = 0
  BY <1>2, InCall DEF ShapeOf
<1>4. 0 \notin Stubs
  BY DEF ShimInv, ShimAssumption
<1>5. Counted(todo)
  BY DEF ShimInv, Sums
<1> QED
  BY <1>1, <1>2, <1>3, <1>4, <1>5 DEF Handing, Has, Adding, ShimsAt, InNoCall

\* Of the operations of a call, each is one of those that it began with.
LEMMA StartedGrown ==
    ASSUME NEW t \in Threads, NEW A, \A j \in 1..Len(todo'[t]) : Place(todo'[t], j) \in A
    PROVE  Grown(t, A)
BY DEF Grown

\* A call that begins changes neither stubs, nor proxies, nor maps.
LEMMA CallsBegin ==
    ASSUME ShimInv, ~late, NEW t \in Threads, todo[t] = <<>>, NEW q, Started(todo, todo', t, q),
           \A u \in Threads : u # t => holds'[u] = holds[u] /\ wired'[u] = wired[u],
           UNCHANGED <<stubs, proxies, holders, shim, late>>,
           \A s \in Stubs : Waits(todo', Op("release_pin", s)) = Waits(todo, Op("release_pin", s))
    PROVE  /\ OthersSame(t) /\ Counted(todo') /\ todo' \in Lists /\ Maps' /\ Pins' /\ (\A u \in Threads : Steady(u))
           /\ Referred' = Referred /\ Twice' = Twice
           /\ \A s : ProxiesFor(s)' = ProxiesFor(s) /\ PinnedFor(s)' = PinnedFor(s)
           /\ \A s \in Stubs : ShimsAt(s)' = ShimsAt(s)
<1>1. OthersSame(t) /\ Counted(todo')
  BY DEF OthersSame, Started
<1>2. \A s \in Stubs : t \notin ShimsAt(s) /\ t \notin ShimsAt(s)'
  <2>1. shim[t] = 0 /\ shim'[t] = 0
    BY Idle
  <2>2. 0 \notin Stubs
    BY DEF ShimInv, ShimAssumption
  <2> QED
    BY <2>1, <2>2 DEF ShimsAt
<1>3. \A s \in Stubs : ShimsAt(s)' = ShimsAt(s)
  BY <1>1, <1>2, SizesMove DEF Changed
<1>4. /\ Maps' /\ Pins' /\ (\A u \in Threads : Steady(u)) /\ Referred' = Referred /\ Twice' = Twice
      /\ \A s : ProxiesFor(s)' = ProxiesFor(s) /\ PinnedFor(s)' = PinnedFor(s)
  BY NothingMoved
<1> QED
  BY <1>1, <1>3, <1>4 DEF Counted

\* The sums of a proxy stay when no operation that counts comes or goes.
LEMMA ProxyStays ==
    ASSUME ShimInv, ~late, NEW p \in Proxies, proxies'[p] = proxies[p],
           HandsOf(p)' = HandsOf(p), AddsOf(p)' = AddsOf(p), WiresOf(p)' = WiresOf(p), StillWaits
    PROVE  ProxySum(p)'
BY StillWaitsFor, ProxySame

\* The object is handed to a thread.
LEMMA Takes ==
    ASSUME ShimInv, NEW t \in Threads, Take(t)
    PROVE  ShimInv'
<1>0. ~late /\ todo[t] = <<>> /\ Hold(t) = Nothing /\ calls' \in 0..MaxCalls
  BY DEF Take, Begins, ShimInv, ShimTypes, ShimAssumption
<1>1. /\ object' = object + 1 /\ holds' = [holds EXCEPT ![t] = <<Home, Object>>]
      /\ UNCHANGED <<stubs, proxies, holders, shim, late>>
  BY DEF Take
<1>2. todo' = todo /\ wired' = wired
  BY DEF Take
<1>h. holds' \in [Threads -> Modules \X (Proxies \cup {Object, Nothing})]
      /\ holds'[t] = <<Home, Object>> /\ \A u \in Threads : u # t => holds'[u] = holds[u]
  BY <1>1 DEF ShimInv, ShimTypes, ShimAssumption
<1>3. Counted(todo) /\ shim[t] = 0 /\ ~Handing(t) /\ \A p : ~Adding(todo[t], p)
  BY <1>0, Idle
<1>4. Started(todo, todo', t, <<>>) /\ StillWaits
  BY <1>0, <1>2, <1>3 DEF Started, StillWaits
<1>5. /\ OthersSame(t) /\ Counted(todo') /\ Maps' /\ Pins' /\ (\A u \in Threads : Steady(u))
      /\ Referred' = Referred /\ Twice' = Twice
      /\ \A s : ProxiesFor(s)' = ProxiesFor(s) /\ PinnedFor(s)' = PinnedFor(s)
      /\ \A s \in Stubs : ShimsAt(s)' = ShimsAt(s)
  BY <1>0, <1>1, <1>2, <1>h, <1>4, StillWaitsFor, CallsBegin
<1>6. t \notin HandsOf(Object) /\ t \in HandsOf(Object)'
  BY <1>0, <1>2, <1>3, <1>h DEF HandsOf, Hold, Object, Nothing, Handing, Has
<1>7. \A p \in Proxies : HandsOf(p)' = HandsOf(p) /\ AddsOf(p)' = AddsOf(p) /\ WiresOf(p)' = WiresOf(p)
  <2>1. \A p \in Proxies : p # Object /\ p # Nothing
    BY DEF Object, Nothing, ShimInv, ShimAssumption
  <2>2. \A p \in Proxies : t \notin HandsOf(p) /\ t \notin HandsOf(p)'
    BY <1>0, <1>h, <2>1 DEF HandsOf, Hold
  <2>3. \A p \in Proxies : AddsOf(p)' = AddsOf(p) /\ WiresOf(p)' = WiresOf(p)
    BY <1>2 DEF AddsOf, WiresOf
  <2> QED
    BY <1>0, <1>5, <2>2, <2>3, SizesMove DEF Changed
<1>8. ObjectSum'
  <2>1. Waits(todo', Op("release", Object)) = Waits(todo, Op("release", Object)) + 0
    <3>1. Waits(todo, Op("release", Object)) \in Nat
      BY <1>3, OpsOf, FS_CardinalityType DEF Counted, Waits
    <3> QED
      BY <1>2, <3>1
  <2>2. object' = object + 0 + One(t \in HandsOf(Object)') - One(t \in HandsOf(Object)) /\ 0 \in Int
    BY <1>1, <1>6 DEF One, ShimInv, ShimTypes
  <2> QED
    BY <1>0, <1>5, <2>1, <2>2, ObjectMoves
<1>9. \A s \in Stubs : StubSum(s)'
  BY <1>0, <1>1, <1>4, <1>5, StillWaitsFor, StubSame
<1>10. \A p \in Proxies : ProxySum(p)'
  BY <1>0, <1>1, <1>4, <1>7, ProxyStays
<1>11. ShapeOf(todo[t], shim[t], holds[t], wired[t])'
  <2>1. shim'[t] = 0 /\ Len(todo'[t]) = 0
    BY <1>0, <1>1, <1>2, <1>3
  <2> QED
    BY <2>1 DEF ShapeOf
<1>12. Linked(t)'
  <2>1. Len(todo'[t]) = 0 /\ Hold(t)' = Object /\ holds'[t][1] = Home
    BY <1>0, <1>2, <1>h DEF Hold
  <2>2. Object \notin Proxies
    BY DEF Object, ShimInv, ShimAssumption
  <2> QED
    BY <2>1, <2>2 DEF Linked
<1>13. Kept'
  BY <1>0, <1>1, <1>2 DEF ShimInv, Kept, Keeps, Owns, ProxiesFor
<1>14. ShimTypes'
  BY <1>0, <1>1, <1>2, <1>h DEF ShimInv, ShimTypes
<1> QED
  BY <1>0, <1>1, <1>5, <1>8, <1>9, <1>10, <1>11, <1>12, <1>13, <1>14, CallStep

\* A reference that a thread had in its hands is to be released.
LEMMA GivenUp ==
    ASSUME ShimInv, ~late, NEW t \in Threads, OthersSame(t), UNCHANGED <<object, stubs, proxies, holders>>,
           NEW x \in Proxies \cup {Object}, t \in HandsOf(x), \A y \in Proxies \cup {Object} : t \notin HandsOf(y)',
           Referred' = Referred, Twice' = Twice,
           \A s : ProxiesFor(s)' = ProxiesFor(s) /\ PinnedFor(s)' = PinnedFor(s),
           \A s \in Stubs : ShimsAt(s)' = ShimsAt(s),
           \A p \in Proxies : AddsOf(p)' = AddsOf(p) /\ WiresOf(p)' = WiresOf(p),
           \A o \in Ops : Waits(todo, o) \in Nat /\ Waits(todo', o) \in Nat,
           \A o \in Ops : o.op \in Counting => Waits(todo', o) = Waits(todo, o) + One(o = Op("release", x))
    PROVE  ObjectSum' /\ (\A s \in Stubs : StubSum(s)') /\ (\A p \in Proxies : ProxySum(p)')
<1>1. /\ \A y \in Proxies \cup {Object} : /\ Waits(todo, Op("release", y)) \in Nat
                                          /\ Waits(todo', Op("release", y)) = Waits(todo, Op("release", y))
                                               + One(y = x)
      /\ \A s \in Stubs : /\ Waits(todo', Op("release_stub", s)) = Waits(todo, Op("release_stub", s))
                          /\ Waits(todo', Op("release_pin", s)) = Waits(todo, Op("release_pin", s))
                          /\ Waits(todo', Op("Destruct_stub", s)) = Waits(todo, Op("Destruct_stub", s))
      /\ \A p \in Proxies : /\ Waits(todo', Op("Internal_Release", p)) = Waits(todo, Op("Internal_Release", p))
                            /\ Waits(todo', Op("Unpin_proxy", p)) = Waits(todo, Op("Unpin_proxy", p))
                            /\ Waits(todo', Op("Destruct_proxy", p)) = Waits(todo, Op("Destruct_proxy", p))
  <2>1. \A y \in Proxies \cup {Object} : Op("release", y) \in Ops /\ Op("release", y).op \in Counting
    BY OpsOf, OpsAre DEF Counting, Releasing
  <2>2. /\ \A s \in Stubs : \A n \in {"release_stub", "release_pin", "Destruct_stub"} :
               Op(n, s) \in Ops /\ Op(n, s).op \in Counting /\ Op(n, s) # Op("release", x)
        /\ \A p \in Proxies : \A n \in {"Internal_Release", "Unpin_proxy", "Destruct_proxy"} :
               Op(n, p) \in Ops /\ Op(n, p).op \in Counting /\ Op(n, p) # Op("release", x)
    BY OpsOf, OpsAre DEF Counting, Releasing
  <2>3. ASSUME NEW o \in Ops, o.op \in Counting, o # Op("release", x) PROVE Waits(todo', o) = Waits(todo, o)
    BY <2>3 DEF One
  <2>4. ASSUME NEW y \in Proxies \cup {Object}
        PROVE  /\ Waits(todo, Op("release", y)) \in Nat
               /\ Waits(todo', Op("release", y)) = Waits(todo, Op("release", y)) + One(y = x)
    <3>1. Op("release", y) = Op("release", x) <=> y = x
      BY OpsAre
    <3> QED
      BY <2>1, <3>1 DEF One
  <2> QED
    BY <2>2, <2>3, <2>4
<1>2. \A y \in Proxies \cup {Object} : t \in HandsOf(y) <=> y = x
  BY DEF HandsOf
<1>3. ObjectSum'
  <2>1. One(Object = x) \in Int
    BY DEF One
  <2>2. object' = object + One(Object = x) + One(t \in HandsOf(Object)') - One(t \in HandsOf(Object))
    <3>1. object \in Int /\ object' = object
      BY DEF ShimInv, ShimTypes
    <3>2. One(t \in HandsOf(Object)') = 0
      BY DEF One
    <3>3. One(t \in HandsOf(Object)) = One(Object = x)
      BY <1>2 DEF One
    <3> QED
      BY <2>1, <3>1, <3>2, <3>3
  <2> QED
    BY <1>1, <2>1, <2>2, ObjectMoves
<1>4. \A s \in Stubs : StubSum(s)'
  BY <1>1, StubSame
<1>5. ASSUME NEW p \in Proxies PROVE ProxySum(p)'
  <2>1. CASE p # x
    <3>1. One(p = x) = 0
      BY <2>1 DEF One
    <3>2. Waits(todo', Op("release", p)) = Waits(todo, Op("release", p))
      BY <1>1, <3>1
    <3>3. HandsOf(p)' = HandsOf(p)
      BY <1>2, <2>1, SizesMove DEF Changed
    <3> QED
      BY <1>1, <3>2, <3>3, ProxySame
  <2>2. CASE p = x
    <3>1. One(p = x) = 1 /\ One(t \in HandsOf(p)') = 0 /\ One(t \in HandsOf(p)) = 1
      BY <1>2, <2>2 DEF One
    <3>2. proxies[p].live /\ proxies[p].refs \in Nat
      <4>1. Cardinality(HandsOf(p)) >= 1
        <5>1. IsFiniteSet(HandsOf(p))
          BY DEF ShimInv, Sums, ProxySum
        <5> QED
          BY <1>2, <2>2, <5>1, SizeIs
      <4>2. /\ proxies[p].refs \in Nat /\ Waits(todo, Op("release", p)) \in Nat
            /\ Waits(todo, Op("release", p)) + Cardinality(HandsOf(p)) <= proxies[p].refs
            /\ Cardinality(HandsOf(p)) \in Nat /\ (proxies[p].refs > 0 => proxies[p].live)
        BY ProxyFacts
      <4> QED
        BY <4>1, <4>2
    <3>3. /\ One(t \in AddsOf(p)') \in Nat /\ One(t \in AddsOf(p)') = One(t \in AddsOf(p))
      BY DEF One
    <3>4. proxies'[p].refs = proxies[p].refs + 1 + One(t \in HandsOf(p)') - One(t \in HandsOf(p))
                                                 + One(t \in AddsOf(p)') - One(t \in AddsOf(p))
      BY <3>1, <3>2, <3>3
    <3>5. /\ proxies'[p].live <=> proxies[p].live
          /\ proxies'[p].shim = proxies[p].shim /\ proxies'[p].pins = proxies[p].pins
          /\ proxies'[p].ints = proxies[p].ints /\ (proxies'[p].refs = 0 <=> proxies[p].refs = 0) /\ 1 \in Int
          /\ WiresOf(p)' = WiresOf(p)
      OBVIOUS
    <3>6. Waits(todo', Op("release", p)) = Waits(todo, Op("release", p)) + 1
      BY <1>1, <3>1
    <3> QED
      BY <1>1, <3>2, <3>4, <3>5, <3>6, ProxyMoves
  <2> QED
    BY <2>1, <2>2
<1> QED
  BY <1>3, <1>4, <1>5

\* A thread gives up what it holds.
LEMMA Drops ==
    ASSUME ShimInv, NEW t \in Threads, Drop(t)
    PROVE  ShimInv'
<1>0. ~late /\ todo[t] = <<>> /\ Hold(t) # Nothing /\ calls' \in 0..MaxCalls
  BY DEF Drop, Begins, ShimInv, ShimTypes, ShimAssumption
<1>x. PICK x \in Proxies \cup {Object} : x = Hold(t)
  BY <1>0 DEF ShimInv, ShimTypes, Hold
<1> DEFINE a == Op("release", x)
<1>1. /\ UNCHANGED <<object, stubs, proxies, holders>>
      /\ shim' = shim /\ wired' = wired /\ late' = late
      /\ holds' = [holds EXCEPT ![t] = <<Home, Nothing>>] /\ todo' = Begun(t, <<a>>)
  BY <1>x DEF Drop, Begun
<1>o. a \in Ops /\ a.op = "release" /\ a.arg = x
  BY OpsOf, OpsAre
<1>h. holds' \in [Threads -> Modules \X (Proxies \cup {Object, Nothing})]
      /\ holds'[t] = <<Home, Nothing>> /\ \A u \in Threads : u # t => holds'[u] = holds[u]
  BY <1>1 DEF ShimInv, ShimTypes, ShimAssumption
<1>i. Counted(todo) /\ shim[t] = 0 /\ ~Handing(t) /\ InNoCall(t) /\ \A p : ~Adding(todo[t], p)
  BY <1>0, Idle
<1> DEFINE q == <<a>>
<1>2. Started(todo, todo', t, q) /\ \A o \in Ops : Waits(todo, o) \in Nat /\ Waits(todo', o) = Waits(todo, o)
           + One(o = a)
  <2> HIDE DEF a
  <2> QED
    BY <1>1, <1>i, <1>o, Begun1
<1>3. todo'[t] = q /\ Len(q) = 1 /\ \A j \in 1..Len(q) : Place(q, j) = a
  <2>1. Len(q) = 1
    OBVIOUS
  <2>2. q[1] = a
    OBVIOUS
  <2>3. todo'[t] = q
    BY <1>2 DEF Started
  <2> HIDE DEF q, a
  <2> QED
    BY <2>1, <2>2, <2>3 DEF Place
<1> HIDE DEF a, q
<1>4. /\ \A s \in Stubs : Waits(todo', Op("release_pin", s)) = Waits(todo, Op("release_pin", s))
      /\ \A o \in Ops : Waits(todo, o) \in Nat /\ Waits(todo', o) \in Nat
  <2>1. ASSUME NEW s \in Stubs PROVE Waits(todo', Op("release_pin", s)) = Waits(todo, Op("release_pin", s))
    <3>1. Op("release_pin", s) \in Ops /\ Op("release_pin", s) # a
      BY OpsOf, OpsAre DEF a
    <3> QED
      BY <1>2, <3>1 DEF One
  <2>2. ASSUME NEW o \in Ops PROVE Waits(todo, o) \in Nat /\ Waits(todo', o) \in Nat
    BY <1>2 DEF One
  <2> QED
    BY <2>1, <2>2
<1>5. /\ OthersSame(t) /\ Counted(todo') /\ todo' \in Lists /\ Maps' /\ Pins' /\ (\A u \in Threads : Steady(u))
      /\ Referred' = Referred /\ Twice' = Twice
      /\ \A s : ProxiesFor(s)' = ProxiesFor(s) /\ PinnedFor(s)' = PinnedFor(s)
      /\ \A s \in Stubs : ShimsAt(s)' = ShimsAt(s)
  BY <1>0, <1>1, <1>2, <1>h, <1>4, CallsBegin
<1>6. t \in HandsOf(x)
  BY <1>x, <1>i DEF HandsOf
<1>7. \A y \in Proxies \cup {Object} : t \notin HandsOf(y)'
  <2>1. \A y \in Proxies \cup {Object} : y # Nothing
    BY DEF Object, Nothing, ShimInv, ShimAssumption
  <2> QED
    BY <1>h, <2>1 DEF HandsOf, Hold
<1>8. \A p \in Proxies : AddsOf(p)' = AddsOf(p) /\ WiresOf(p)' = WiresOf(p)
  <2>1. \A p : t \notin AddsOf(p) /\ t \notin AddsOf(p)'
    BY <1>i, <1>3 DEF AddsOf, Adding
  <2>2. \A p \in Proxies : t \in WiresOf(p)' <=> t \in WiresOf(p)
    BY <1>1 DEF WiresOf
  <2> QED
    BY <1>0, <1>5, <2>1, <2>2, SizesMove DEF Changed
<1>9. ObjectSum' /\ (\A s \in Stubs : StubSum(s)') /\ (\A p \in Proxies : ProxySum(p)')
  <2>1. \A o \in Ops : o.op \in Counting => Waits(todo', o) = Waits(todo, o) + One(o = Op("release", x))
    BY <1>2 DEF a
  <2> QED
    BY <1>0, <1>1, <1>4, <1>5, <1>6, <1>7, <1>8, <2>1, GivenUp
<1>10. ShapeOf(todo[t], shim[t], holds[t], wired[t])'
  <2>1. shim'[t] = 0 /\ \A j \in 1..Len(todo'[t]) : Place(todo'[t], j).op = "release"
    BY <1>1, <1>i, <1>3, <1>o
  <2> QED
    BY <2>1 DEF ShapeOf, ShapeAt, Foremost
<1>11. Linked(t)'
  <2>1. \A j \in 1..Len(todo'[t]) : LinkAt(t, j)'
    BY <1>3, <1>o DEF LinkAt
  <2>2. Hold(t)' = Nothing /\ Nothing # Object /\ Nothing \notin Proxies
    BY <1>h DEF Hold, Object, Nothing, ShimInv, ShimAssumption
  <2> QED
    BY <2>1, <2>2 DEF Linked
<1>12. Kept'
  <2>1. Grown(t, {a})
    BY <1>3, StartedGrown
  <2>2. \A p : Op("Unpin_proxy", p) \notin {a} /\ Op("release_stub", p) \notin {a}
    BY OpsAre DEF a
  <2>3. ASSUME NEW u \in Threads, NEW p \in Proxies, u # t, Keeps(u, p)
        PROVE  shim'[t] # proxies[p].shim /\ Op("release", p) \notin {a}
    <3>1. proxies[p].shim \in Stubs /\ ~IsShared(p)
      BY <1>0, <2>3, KeeperFacts
    <3>2. p # x
      <4>1. Linked(t) /\ holds[t][1] \in Modules
        BY <1>0 DEF ShimInv, Links, ShimTypes
      <4> QED
        BY <1>x, <3>1, <4>1 DEF Linked, IsShared
    <3>3. 0 \notin Stubs
      BY DEF ShimInv, ShimAssumption
    <3> QED
      BY <1>1, <1>i, <3>1, <3>2, <3>3, OpsAre DEF a
  <2> QED
    BY <1>0, <1>1, <1>5, <2>1, <2>2, <2>3, KeptPlainly
<1>13. ShimTypes'
  BY <1>0, <1>1, <1>5, <1>h DEF ShimInv, ShimTypes
<1> QED
  BY <1>0, <1>1, <1>5, <1>9, <1>10, <1>11, <1>12, <1>13, CallStep

\* A thread begins to hand what it holds to another module.
LEMMA Passes ==
    ASSUME ShimInv, NEW t \in Threads, NEW m \in Modules, Pass(t, m)
    PROVE  ShimInv'
<1>0. ~late /\ todo[t] = <<>> /\ Hold(t) # Nothing /\ calls' \in 0..MaxCalls
  BY DEF Pass, Begins, ShimInv, ShimTypes, ShimAssumption
<1>x. PICK x \in Proxies \cup {Object} : x = Hold(t)
  BY <1>0 DEF ShimInv, ShimTypes, Hold
<1> DEFINE a == Op("release", x)
           b == Op("release_shim", 0)
           c == Op("bind", m)
           d == Op("find", x)
           q == <<d, c, b, a>>
<1>1. /\ UNCHANGED <<object, stubs, proxies, holders>>
      /\ shim' = shim /\ wired' = wired /\ late' = late /\ holds' = holds
      /\ todo' = Begun(t, <<d, c, b, a>>)
  BY <1>x DEF Pass, Begun
<1>o. /\ a \in Ops /\ a.op = "release" /\ a.arg = x
      /\ b \in Ops /\ b.op = "release_shim" /\ c \in Ops /\ c.op = "bind" /\ d \in Ops /\ d.op = "find" /\ d.arg = x
      /\ b.op \notin Counting /\ c.op \notin Counting /\ d.op \notin Counting
  <2>1. /\ "release_shim" \in OpNames /\ "bind" \in OpNames /\ "find" \in OpNames
        /\ 0 \in ArgsOf("release_shim") /\ m \in ArgsOf("bind") /\ x \in ArgsOf("find")
    BY DEF OpNames, ArgsOf
  <2> QED
    BY <2>1, OpsOf, OpsAre DEF Counting, Releasing
<1>i. Counted(todo) /\ shim[t] = 0 /\ ~Handing(t) /\ InNoCall(t) /\ \A p : ~Adding(todo[t], p)
  BY <1>0, Idle
<1>2. /\ Started(todo, todo', t, q)
      /\ \A o \in Ops : /\ Waits(todo, o) \in Nat
                        /\ Waits(todo', o) = Waits(todo, o) + One(o = d) + One(o = c) + One(o = b) + One(o = a)
  <2>1. Began4(t, d, c, b, a)
    BY <1>1 DEF Began4
  <2> HIDE DEF a, b, c, d
  <2>2. Started(todo, todo', t, <<d, c, b, a>>) /\ Gains4(d, c, b, a)
    BY <1>i, <1>o, <2>1, BegunMore
  <2> QED
    BY <2>2 DEF Gains4
<1>3. /\ todo'[t] = q /\ Len(q) = 4 /\ (\A j \in 1..4 : j = 1 \/ j = 2 \/ j = 3 \/ j = 4)
      /\ Place(q, 1) = a /\ Place(q, 2) = b /\ Place(q, 3) = c /\ Place(q, 4) = d
  <2> HIDE DEF a, b, c, d
  <2>1. Len(q) = 4 /\ q[1] = d /\ q[2] = c /\ q[3] = b /\ q[4] = a
    OBVIOUS
  <2>2. todo'[t] = q
    BY <1>2 DEF Started
  <2>3. \A j \in 1..4 : j = 1 \/ j = 2 \/ j = 3 \/ j = 4
    OBVIOUS
  <2> HIDE DEF q
  <2> QED
    BY <2>1, <2>2, <2>3 DEF Place
<1> HIDE DEF a, b, c, d, q
<1>4. \A o \in Ops : /\ Waits(todo, o) \in Nat /\ Waits(todo', o) \in Nat
                     /\ o.op \in Counting => Waits(todo', o) = Waits(todo, o) + One(o = a)
  <2>1. ASSUME NEW o \in Ops PROVE Waits(todo, o) \in Nat /\ Waits(todo', o) \in Nat
    BY <1>2 DEF One
  <2>2. ASSUME NEW o \in Ops, o.op \in Counting PROVE Waits(todo', o) = Waits(todo, o) + One(o = a)
    <3>1. o # b /\ o # c /\ o # d
      BY <1>o, <2>2
    <3> QED
      BY <1>2, <3>1 DEF One
  <2> QED
    BY <2>1, <2>2
<1>5. \A s \in Stubs : Waits(todo', Op("release_pin", s)) = Waits(todo, Op("release_pin", s))
  <2>1. ASSUME NEW s \in Stubs PROVE Waits(todo', Op("release_pin", s)) = Waits(todo, Op("release_pin", s))
    <3>1. Op("release_pin", s) \in Ops /\ Op("release_pin", s) # a /\ Op("release_pin", s).op \in Counting
      BY OpsOf, OpsAre DEF a, Counting, Releasing
    <3> QED
      BY <1>4, <3>1 DEF One
  <2> QED
    BY <2>1
<1>6. /\ OthersSame(t) /\ Counted(todo') /\ todo' \in Lists /\ Maps' /\ Pins' /\ (\A u \in Threads : Steady(u))
      /\ Referred' = Referred /\ Twice' = Twice
      /\ \A s : ProxiesFor(s)' = ProxiesFor(s) /\ PinnedFor(s)' = PinnedFor(s)
      /\ \A s \in Stubs : ShimsAt(s)' = ShimsAt(s)
  BY <1>0, <1>1, <1>2, <1>5, CallsBegin
<1>7. Has(t, "bind")' /\ Has(t, "find")' /\ Has(t, "release_shim")' /\ Shimless(todo'[t])
  <2>1. 2 \in 1..4 /\ 3 \in 1..4 /\ 4 \in 1..4
    OBVIOUS
  <2> QED
    BY <1>3, <1>o, <2>1 DEF Has, HasIn, Shimless
<1>8. t \in HandsOf(x) /\ \A y \in Proxies \cup {Object} : t \notin HandsOf(y)'
  <2>1. t \in HandsOf(x)
    BY <1>x, <1>i DEF HandsOf
  <2>2. Handing(t)'
    BY <1>7 DEF Handing
  <2> QED
    BY <2>1, <2>2 DEF HandsOf
<1>9. \A p \in Proxies : AddsOf(p)' = AddsOf(p) /\ WiresOf(p)' = WiresOf(p)
  <2>1. \A p : t \notin AddsOf(p) /\ t \notin AddsOf(p)'
    BY <1>i, <1>3 DEF AddsOf, Adding
  <2>2. \A p \in Proxies : t \in WiresOf(p)' <=> t \in WiresOf(p)
    BY <1>1 DEF WiresOf
  <2> QED
    BY <1>0, <1>6, <2>1, <2>2, SizesMove DEF Changed
<1>10. ObjectSum' /\ (\A s \in Stubs : StubSum(s)') /\ (\A p \in Proxies : ProxySum(p)')
  <2>1. \A o \in Ops : o.op \in Counting => Waits(todo', o) = Waits(todo, o) + One(o = Op("release", x))
    BY <1>4 DEF a
  <2> QED
    BY <1>0, <1>1, <1>4, <1>6, <1>8, <1>9, <2>1, GivenUp
<1>11. ShapeOf(todo[t], shim[t], holds[t], wired[t])'
  <2>1. Gives(q, holds[t]) /\ Binds(q)
    BY <1>0, <1>3, <1>o, <1>x DEF Gives, Binds, Hold, a
  <2>2. ShapeAt(q, 0, holds[t], wired[t], 1) /\ ShapeAt(q, 0, holds[t], wired[t], 2)
    BY <1>3, <1>7, <1>o DEF ShapeAt, Foremost
  <2>3. ShapeAt(q, 0, holds[t], wired[t], 3) /\ ShapeAt(q, 0, holds[t], wired[t], 4)
    BY <1>3, <1>o, <1>x, <2>1 DEF ShapeAt, Foremost, Hold
  <2>4. \A j \in 1..Len(q) : ShapeAt(q, 0, holds[t], wired[t], j)
    BY <1>3, <2>2, <2>3
  <2>5. shim'[t] = 0 /\ holds'[t] = holds[t] /\ wired'[t] = wired[t] /\ todo'[t] = q
    BY <1>1, <1>3, <1>i
  <2> QED
    BY <2>4, <2>5 DEF ShapeOf
<1>12. Linked(t)'
  <2>1. \A j \in 1..Len(todo'[t]) : LinkAt(t, j)'
    BY <1>3, <1>7, <1>o DEF LinkAt
  <2>2. Linked(t)
    BY <1>0 DEF ShimInv, Links
  <2> QED
    BY <1>1, <2>1, <2>2 DEF Linked, Hold, IsListed
<1>13. Kept'
  <2> DEFINE A == {a, b, c, d}
  <2>1. Grown(t, A)
    <3>1. \A j \in 1..Len(todo'[t]) : Place(todo'[t], j) \in A
      BY <1>3
    <3> QED
      BY <3>1, StartedGrown
  <2>2. \A p : Op("Unpin_proxy", p) \notin A /\ Op("release_stub", p) \notin A
    BY OpsAre DEF a, b, c, d
  <2>3. ASSUME NEW u \in Threads, NEW p \in Proxies, u # t, Keeps(u, p)
        PROVE  shim'[t] # proxies[p].shim /\ Op("release", p) \notin A
    <3>1. proxies[p].shim \in Stubs /\ ~IsShared(p)
      BY <1>0, <2>3, KeeperFacts
    <3>2. p # x
      <4>1. Linked(t) /\ holds[t][1] \in Modules
        BY <1>0 DEF ShimInv, Links, ShimTypes
      <4> QED
        BY <1>x, <3>1, <4>1 DEF Linked, IsShared
    <3>3. 0 \notin Stubs
      BY DEF ShimInv, ShimAssumption
    <3>4. Op("release", p) \notin A
      BY <3>2, OpsAre DEF a, b, c, d
    <3> QED
      BY <1>1, <1>i, <3>1, <3>3, <3>4
  <2> HIDE DEF A
  <2> QED
    BY <1>0, <1>1, <1>6, <2>1, <2>2, <2>3, KeptPlainly
<1>14. ShimTypes'
  BY <1>0, <1>1, <1>6 DEF ShimInv, ShimTypes
<1> QED
  BY <1>0, <1>1, <1>6, <1>10, <1>11, <1>12, <1>13, <1>14, CallStep

\* A thread begins to make a wire stub.
LEMMA WireStubsBegin ==
    ASSUME ShimInv, NEW t \in Threads, CreateWireStub(t)
    PROVE  ShimInv'
<1>0. ~late /\ todo[t] = <<>> /\ Hold(t) = Object /\ wired[t] = Nothing /\ calls' \in 0..MaxCalls
  BY DEF CreateWireStub, Begins, ShimInv, ShimTypes, ShimAssumption
<1> DEFINE a == Op("release_shim", 0)
           b == Op("new_proxy", 0)
           c == Op("new_stub", FALSE)
           q == <<c, b, a>>
<1>1. /\ UNCHANGED <<object, stubs, proxies, holders>>
      /\ shim' = shim /\ wired' = wired /\ late' = late /\ holds' = holds
      /\ todo' = Begun(t, <<c, b, a>>)
  BY DEF CreateWireStub, Begun
<1>o. /\ a \in Ops /\ a.op = "release_shim" /\ b \in Ops /\ b.op = "new_proxy"
      /\ c \in Ops /\ c.op = "new_stub" /\ ~c.arg
      /\ a.op \notin Counting /\ b.op \notin Counting /\ c.op \notin Counting
  <2>1. /\ "release_shim" \in OpNames /\ "new_proxy" \in OpNames /\ "new_stub" \in OpNames
        /\ 0 \in ArgsOf("release_shim") /\ 0 \in ArgsOf("new_proxy") /\ FALSE \in ArgsOf("new_stub")
    BY DEF OpNames, ArgsOf
  <2>2. a \in Ops /\ b \in Ops /\ c \in Ops
    BY <2>1, OpIn
  <2>3. a.op = "release_shim" /\ b.op = "new_proxy" /\ c.op = "new_stub" /\ ~c.arg
    BY OpsAre
  <2>4. a.op \notin Counting /\ b.op \notin Counting /\ c.op \notin Counting
    BY <2>3 DEF Counting, Releasing
  <2> QED
    BY <2>2, <2>3, <2>4
<1>i. Counted(todo) /\ shim[t] = 0 /\ ~Handing(t) /\ InNoCall(t) /\ \A p : ~Adding(todo[t], p)
  BY <1>0, Idle
<1>2. /\ Started(todo, todo', t, q)
      /\ \A o \in Ops : /\ Waits(todo, o) \in Nat
                        /\ Waits(todo', o) = Waits(todo, o) + One(o = c) + One(o = b) + One(o = a)
  <2>1. Began3(t, c, b, a)
    BY <1>1 DEF Began3
  <2> HIDE DEF a, b, c
  <2>2. Started(todo, todo', t, <<c, b, a>>) /\ Gains3(c, b, a)
    BY <1>i, <1>o, <2>1, BegunMore
  <2> QED
    BY <2>2 DEF Gains3
<1>3. /\ todo'[t] = q /\ Len(q) = 3 /\ (\A j \in 1..3 : j = 1 \/ j = 2 \/ j = 3)
      /\ Place(q, 1) = a /\ Place(q, 2) = b /\ Place(q, 3) = c
  <2> HIDE DEF a, b, c
  <2>1. Len(q) = 3 /\ q[1] = c /\ q[2] = b /\ q[3] = a
    OBVIOUS
  <2>2. todo'[t] = q
    BY <1>2 DEF Started
  <2>3. \A j \in 1..3 : j = 1 \/ j = 2 \/ j = 3
    OBVIOUS
  <2> HIDE DEF q
  <2> QED
    BY <2>1, <2>2, <2>3 DEF Place
<1> HIDE DEF a, b, c, q
<1>4. StillWaits
  <2>1. ASSUME NEW o \in Ops, o.op \in Counting PROVE Waits(todo', o) = Waits(todo, o)
    <3>1. o # a /\ o # b /\ o # c
      BY <1>o, <2>1
    <3> QED
      BY <1>2, <3>1 DEF One
  <2> QED
    BY <2>1 DEF StillWaits
<1>6. /\ OthersSame(t) /\ Counted(todo') /\ todo' \in Lists /\ Maps' /\ Pins' /\ (\A u \in Threads : Steady(u))
      /\ Referred' = Referred /\ Twice' = Twice
      /\ \A s : ProxiesFor(s)' = ProxiesFor(s) /\ PinnedFor(s)' = PinnedFor(s)
      /\ \A s \in Stubs : ShimsAt(s)' = ShimsAt(s)
  BY <1>0, <1>1, <1>2, <1>4, StillWaitsFor, CallsBegin
<1>7. Has(t, "new_stub")' /\ Has(t, "release_shim")' /\ Shimless(todo'[t]) /\ ~Handing(t)'
  <2>1. 1 \in 1..3 /\ 3 \in 1..3
    OBVIOUS
  <2>2. \A j \in 1..Len(todo'[t]) : Place(todo'[t], j).op \in {"release_shim", "new_proxy", "new_stub"}
    BY <1>3, <1>o
  <2>3. ~Handing(t)'
    BY <2>2 DEF Handing, Has, HasIn
  <2> QED
    BY <1>3, <1>o, <2>1, <2>3 DEF Has, HasIn, Shimless
<1>9. SetsStay
  <2>1. \A p : t \notin AddsOf(p) /\ t \notin AddsOf(p)'
    BY <1>i, <1>3, <1>o DEF AddsOf, Adding
  <2>2. \A p \in Proxies : t \in WiresOf(p)' <=> t \in WiresOf(p)
    BY <1>1 DEF WiresOf
  <2>3. \A x : t \in HandsOf(x)' <=> t \in HandsOf(x)
    BY <1>1, <1>7, <1>i DEF HandsOf, Hold
  <2> QED
    BY <1>0, <1>6, <2>1, <2>2, <2>3, SetsStayIf
<1>10. ObjectSum' /\ (\A s \in Stubs : StubSum(s)') /\ (\A p \in Proxies : ProxySum(p)')
  BY <1>0, <1>1, <1>4, <1>9, SumsStay
<1>11. ShapeOf(todo[t], shim[t], holds[t], wired[t])'
  <2>1. ShapeAt(q, 0, holds[t], wired[t], 1) /\ ShapeAt(q, 0, holds[t], wired[t], 2)
    BY <1>0, <1>3, <1>7, <1>o DEF ShapeAt, Foremost
  <2>2. ShapeAt(q, 0, holds[t], wired[t], 3)
    BY <1>3, <1>o DEF ShapeAt, Foremost
  <2>3. \A j \in 1..Len(q) : ShapeAt(q, 0, holds[t], wired[t], j)
    BY <1>3, <2>1, <2>2
  <2>4. shim'[t] = 0 /\ holds'[t] = holds[t] /\ wired'[t] = wired[t] /\ todo'[t] = q
    BY <1>1, <1>3, <1>i
  <2> QED
    BY <2>3, <2>4 DEF ShapeOf
<1>12. Linked(t)'
  <2>1. \A j \in 1..Len(todo'[t]) : LinkAt(t, j)'
    BY <1>3, <1>7, <1>o DEF LinkAt
  <2>2. Linked(t)
    BY <1>0 DEF ShimInv, Links
  <2> QED
    BY <1>1, <2>1, <2>2 DEF Linked, Hold, IsListed
<1>13. Kept'
  <2> DEFINE A == {a, b, c}
  <2>1. Grown(t, A)
    <3>1. \A j \in 1..Len(todo'[t]) : Place(todo'[t], j) \in A
      BY <1>3
    <3> QED
      BY <3>1, StartedGrown
  <2>2. \A p : Op("Unpin_proxy", p) \notin A /\ Op("release_stub", p) \notin A /\ Op("release", p) \notin A
    BY <1>o, OpsAre
  <2>3. ASSUME NEW u \in Threads, NEW p \in Proxies, u # t, Keeps(u, p)
        PROVE  shim'[t] # proxies[p].shim
    <3>1. proxies[p].shim \in Stubs
      BY <1>0, <2>3, KeeperFacts
    <3>2. 0 \notin Stubs
      BY DEF ShimInv, ShimAssumption
    <3> QED
      BY <1>1, <1>i, <3>1, <3>2
  <2> HIDE DEF A
  <2> QED
    BY <1>0, <1>1, <1>6, <2>1, <2>2, <2>3, KeptPlainly
<1>14. ShimTypes'
  BY <1>0, <1>1, <1>6 DEF ShimInv, ShimTypes
<1> QED
  BY <1>0, <1>1, <1>6, <1>10, <1>11, <1>12, <1>13, <1>14, CallStep

\* A wire stub ends, and lets go of its proxy.
LEMMA WireStubsEnd ==
    ASSUME ShimInv, NEW t \in Threads, WireStubEnds(t)
    PROVE  ShimInv'
<1>0. ~late /\ todo[t] = <<>> /\ wired[t] # Nothing /\ calls' \in 0..MaxCalls
  BY DEF WireStubEnds, Begins, ShimInv, ShimTypes, ShimAssumption
<1>x. PICK p \in Proxies : p = wired[t]
  BY <1>0 DEF ShimInv, ShimTypes
<1> DEFINE a == Op("Unpin_proxy", p)
           q == <<a>>
<1>1. /\ UNCHANGED <<object, stubs, proxies, holders>>
      /\ shim' = shim /\ holds' = holds /\ late' = late
      /\ wired' = [wired EXCEPT ![t] = Nothing] /\ todo' = Begun(t, <<a>>)
  BY <1>x DEF WireStubEnds, Begun
<1>o. a \in Ops /\ a.op = "Unpin_proxy" /\ a.arg = p
  BY OpsOf, OpsAre
<1>w. wired' \in [Threads -> Proxies \cup {Nothing}]
      /\ wired'[t] = Nothing /\ \A u \in Threads : u # t => wired'[u] = wired[u]
  BY <1>1 DEF ShimInv, ShimTypes
<1>i. Counted(todo) /\ shim[t] = 0 /\ ~Handing(t) /\ InNoCall(t) /\ \A x : ~Adding(todo[t], x)
  BY <1>0, Idle
<1>2. Started(todo, todo', t, q) /\ \A o \in Ops : Waits(todo, o) \in Nat /\ Waits(todo', o) = Waits(todo, o)
           + One(o = a)
  <2> HIDE DEF a
  <2> QED
    BY <1>1, <1>i, <1>o, Begun1
<1>3. todo'[t] = q /\ Len(q) = 1 /\ \A j \in 1..Len(q) : Place(q, j) = a
  <2>1. Len(q) = 1
    OBVIOUS
  <2>2. q[1] = a
    OBVIOUS
  <2>3. todo'[t] = q
    BY <1>2 DEF Started
  <2> HIDE DEF q, a
  <2> QED
    BY <2>1, <2>2, <2>3 DEF Place
<1> HIDE DEF a, q
<1>4. /\ \A x \in Proxies \cup {Object} : Waits(todo', Op("release", x)) = Waits(todo, Op("release", x))
      /\ \A s \in Stubs : /\ Waits(todo', Op("release_stub", s)) = Waits(todo, Op("release_stub", s))
                          /\ Waits(todo', Op("release_pin", s)) = Waits(todo, Op("release_pin", s))
                          /\ Waits(todo', Op("Destruct_stub", s)) = Waits(todo, Op("Destruct_stub", s))
      /\ \A x \in Proxies : /\ Waits(todo', Op("Internal_Release", x)) = Waits(todo, Op("Internal_Release", x))
                            /\ Waits(todo, Op("Unpin_proxy", x)) \in Nat
                            /\ Waits(todo', Op("Unpin_proxy", x)) = Waits(todo, Op("Unpin_proxy", x)) + One(x = p)
                            /\ Waits(todo', Op("Destruct_proxy", x)) = Waits(todo, Op("Destruct_proxy", x))
  <2>1. ASSUME NEW o \in Ops, o # a PROVE Waits(todo', o) = Waits(todo, o)
    BY <1>2, <2>1 DEF One
  <2>2. /\ \A x \in Proxies \cup {Object} : Op("release", x) \in Ops /\ Op("release", x) # a
        /\ \A s \in Stubs : \A n \in {"release_stub", "release_pin", "Destruct_stub"} : Op(n, s) \in Ops
             /\ Op(n, s) # a
        /\ \A x \in Proxies : \A n \in {"Internal_Release", "Destruct_proxy"} : Op(n, x) \in Ops /\ Op(n, x) # a
    BY OpsOf, OpsAre DEF a
  <2>3. ASSUME NEW x \in Proxies
        PROVE  /\ Waits(todo, Op("Unpin_proxy", x)) \in Nat
               /\ Waits(todo', Op("Unpin_proxy", x)) = Waits(todo, Op("Unpin_proxy", x)) + One(x = p)
    <3>1. Op("Unpin_proxy", x) \in Ops /\ (Op("Unpin_proxy", x) = a <=> x = p)
      BY OpsOf, OpsAre DEF a
    <3> QED
      BY <1>2, <3>1 DEF One
  <2> QED
    BY <2>1, <2>2, <2>3
<1>5. /\ OthersSame(t) /\ Counted(todo') /\ todo' \in Lists /\ Maps' /\ Pins' /\ (\A u \in Threads : Steady(u))
      /\ Referred' = Referred /\ Twice' = Twice
      /\ \A s : ProxiesFor(s)' = ProxiesFor(s) /\ PinnedFor(s)' = PinnedFor(s)
      /\ \A s \in Stubs : ShimsAt(s)' = ShimsAt(s)
  BY <1>0, <1>1, <1>2, <1>w, <1>4, CallsBegin
<1>6. /\ \A x \in Proxies \cup {Object} : HandsOf(x)' = HandsOf(x)
      /\ \A x \in Proxies : AddsOf(x)' = AddsOf(x)
      /\ \A x \in Proxies : x # p => WiresOf(x)' = WiresOf(x)
      /\ t \in WiresOf(p) /\ t \notin WiresOf(p)'
  <2>1. \A x : t \notin AddsOf(x) /\ t \notin AddsOf(x)'
    BY <1>i, <1>3 DEF AddsOf, Adding
  <2>2. ~Handing(t)'
    BY <1>3, <1>o DEF Handing, Has, HasIn
  <2>3. \A x : t \in HandsOf(x)' <=> t \in HandsOf(x)
    BY <1>1, <1>i, <2>2 DEF HandsOf, Hold
  <2>4. \A x \in Proxies : x # Nothing
    BY DEF Nothing, ShimInv, ShimAssumption
  <2>5. \A x \in Proxies : t \notin WiresOf(x)' /\ (t \in WiresOf(x) <=> x = p)
    BY <1>w, <1>x, <2>4 DEF WiresOf
  <2> QED
    BY <1>0, <1>5, <2>1, <2>3, <2>5, SizesMove DEF Changed
<1>7. ObjectSum'
  BY <1>0, <1>1, <1>4, <1>5, <1>6, ObjectStays
<1>8. \A s \in Stubs : StubSum(s)'
  BY <1>0, <1>1, <1>4, <1>5, StubSame
<1>9. ASSUME NEW x \in Proxies PROVE ProxySum(x)'
  <2>1. CASE x # p
    <3>1. One(x = p) = 0
      BY <2>1 DEF One
    <3>2. Waits(todo', Op("Unpin_proxy", x)) = Waits(todo, Op("Unpin_proxy", x))
      BY <1>4, <3>1
    <3> QED
      BY <1>0, <1>1, <1>4, <1>6, <2>1, <3>2, ProxySame
  <2>2. CASE x = p
    <3>1. ProxySum(p)
      BY <1>0 DEF ShimInv, Sums
    <3>2. Changed(WiresOf(p), WiresOf(p)', t)
      BY <1>0, <1>5, SizesMove
    <3>3. IsFiniteSet(WiresOf(p)') /\ Cardinality(WiresOf(p)') = Cardinality(WiresOf(p)) - 1
               /\ Cardinality(WiresOf(p)) \in Nat
      BY <1>6, <3>2 DEF Changed, One
    <3>4. Waits(todo', Op("Unpin_proxy", p)) = Waits(todo, Op("Unpin_proxy", p)) + 1
               /\ Waits(todo, Op("Unpin_proxy", p)) \in Nat
      BY <1>4 DEF One
    <3>5. proxies'[p].pins = Cardinality(WiresOf(p)') + Waits(todo', Op("Unpin_proxy", p))
      BY <1>1, <3>1, <3>3, <3>4 DEF ProxySum
    <3>6. HandsOf(p)' = HandsOf(p) /\ AddsOf(p)' = AddsOf(p)
      BY <1>6
    <3>7. ProxySum(p)'
      BY <1>1, <1>4, <3>1, <3>3, <3>5, <3>6 DEF ProxySum
    <3> QED
      BY <2>2, <3>7
  <2> QED
    BY <2>1, <2>2
<1>10. ShapeOf(todo[t], shim[t], holds[t], wired[t])'
  <2>1. shim'[t] = 0 /\ Len(todo'[t]) = 1 /\ \A j \in 1..Len(todo'[t]) : j = 1
             /\ Place(todo'[t], j).op = "Unpin_proxy"
    <3>1. shim'[t] = 0 /\ Len(todo'[t]) = 1 /\ \A j \in 1..Len(todo'[t]) : Place(todo'[t], j).op = "Unpin_proxy"
      BY <1>1, <1>i, <1>3, <1>o
    <3>2. \A j \in 1..1 : j = 1
      OBVIOUS
    <3> QED
      BY <3>1, <3>2
  <2> QED
    BY <2>1 DEF ShapeOf, ShapeAt, Foremost
<1>11. Linked(t)'
  <2>1. \A j \in 1..Len(todo'[t]) : LinkAt(t, j)'
    BY <1>3, <1>o DEF LinkAt
  <2>2. Linked(t)
    BY <1>0 DEF ShimInv, Links
  <2> QED
    BY <1>1, <2>1, <2>2 DEF Linked, Hold, IsListed
<1>12. Kept'
  <2>1. Grown(t, {a})
    BY <1>3, StartedGrown
  <2>2. \A x : Op("release", x) \notin {a} /\ Op("release_stub", x) \notin {a}
    BY OpsAre DEF a
  <2>3. ASSUME NEW u \in Threads, NEW x \in Proxies, Keeps(u, x)
        PROVE  /\ shim'[t] # proxies[x].shim
               /\ \A y \in Proxies : y # x /\ proxies[y].refs > 0 => proxies[y].shim # proxies[x].shim
    <3>1. proxies[x].shim \in Stubs
      BY <1>0, <2>3, KeeperFacts
    <3>2. 0 \notin Stubs
      BY DEF ShimInv, ShimAssumption
    <3> QED
      BY <1>0, <1>1, <1>i, <2>3, <3>1, <3>2, KeeperFacts
  <2>4. Undisturbed(t, {a})
    BY <1>1, <2>2, <2>3 DEF Undisturbed
  <2>5. ASSUME NEW u \in Threads, NEW x \in Proxies, Keeps(u, x)' PROVE Keeps(u, x)
    <3>1. CASE u # t
      BY <1>5, <2>5, <3>1 DEF Keeps, OthersSame
    <3>2. CASE u = t
      <4>1. wired'[t] # x
        BY <1>w DEF Nothing, ShimInv, ShimAssumption
      <4>2. Op("Unpin_proxy", x) = a
        BY <1>3, <2>5, <3>2, <4>1 DEF Keeps
      <4>3. x = p
        BY <4>2, OpsAre DEF a
      <4> QED
        BY <1>x, <3>2, <4>3 DEF Keeps
    <3> QED
      BY <3>1, <3>2
  <2>6. \A v \in Threads : v # t => todo'[v] = todo[v] /\ shim'[v] = shim[v]
    BY <1>5 DEF OthersSame
  <2> QED
    BY <1>0, <2>1, <2>4, <2>5, <2>6, KeptBy
<1>13. ShimTypes'
  BY <1>0, <1>1, <1>5, <1>w DEF ShimInv, ShimTypes
<1> QED
  BY <1>0, <1>1, <1>5, <1>7, <1>8, <1>9, <1>10, <1>11, <1>12, <1>13, CallStep

\* A step that counts nothing, whatever is listed.
LEMMA SumsRemain ==
    ASSUME ShimInv, ~late, UNCHANGED <<object, stubs, proxies>>, StillWaits, SetsStay
    PROVE  /\ ObjectSum' /\ (\A s \in Stubs : StubSum(s)') /\ (\A p \in Proxies : ProxySum(p)')
           /\ \A s : ProxiesFor(s)' = ProxiesFor(s) /\ PinnedFor(s)' = PinnedFor(s)
<1>1. /\ Referred' = Referred /\ Twice' = Twice
      /\ \A s : ProxiesFor(s)' = ProxiesFor(s) /\ PinnedFor(s)' = PinnedFor(s)
  BY DEF Referred, Twice, ProxiesFor, PinnedFor
<1>2. ObjectSum'
  BY <1>1, StillWaitsFor, ObjectStays DEF SetsStay
<1>3. \A s \in Stubs : StubSum(s)'
  BY <1>1, StillWaitsFor, StubSame DEF SetsStay
<1>4. \A p \in Proxies : ProxySum(p)'
  BY ProxyStays DEF SetsStay
<1> QED
  BY <1>1, <1>2, <1>3, <1>4

\* A thread about to list the stub it has made: the stub is its own.
LEMMA AtAdd2 ==
    ASSUME ShimInv, ~late, NEW t \in Threads, Current(t, "add2")
    PROVE  LET s == Arg(t) r == Tail(todo[t]) IN
           /\ s \in Stubs /\ shim[t] = s /\ stubs[s].refs = 1 /\ stubs[s].pins = 0 /\ ~IsListed(s) /\ stubs[s].live
           /\ ShimsAt(s) = {t} /\ ~Has(t, "AddRef_found") /\ Has(t, "add2")
           /\ Len(todo[t]) = 4 /\ RestOf(r, holds[t], wired[t]) /\ Len(r) = 3 /\ Place(r, 3).op = "bind"
           /\ HasIn(r, "bind") /\ HasIn(r, "release_shim")
           /\ (\A j \in 1..Len(r) : Place(r, j).op \in {"bind", "release_shim", "release"})
           /\ (\A n : HasIn(r, n) => n \in {"bind", "release_shim", "release"})
           /\ \A n : HasIn(todo[t], n) <=> n = "add2" \/ HasIn(r, n)
<1> DEFINE r == Tail(todo[t])
<1>s. PICK s \in Stubs : s = Arg(t)
  BY DEF Current, ArgsOf
<1>1. /\ Len(todo[t]) \in 1..Len(todo[t]) /\ ShapeAt(todo[t], shim[t], holds[t], wired[t], Len(todo[t]))
      /\ LinkAt(t, Len(todo[t])) /\ Place(todo[t], Len(todo[t])).op = "add2" /\ Place(todo[t], Len(todo[t])).arg = s
      /\ ShapeOf(todo[t], shim[t], holds[t], wired[t])
  BY <1>s, InCall DEF Current
<1>2. Len(todo[t]) = 4 /\ Binds(todo[t]) /\ shim[t] = s /\ Private(s)
  BY <1>1 DEF ShapeAt, LinkAt
<1>3. t \in ShimsAt(s)
  BY <1>1, <1>2, InHand
<1>4. ShimsAt(s) = {t}
  BY <1>2, <1>3, Alone DEF Private
<1>5. stubs[s].live
  BY <1>2, StubFacts DEF Private
<1>6. Grows(r, todo[t], Op("add2", s))
  <2>1. todo[t] # <<>> /\ Now(t, "add2")
    BY OpsAre DEF Current, Now
  <2> QED
    BY <1>s, <2>1, Goings
<1> HIDE DEF r
<1>7. /\ RestOf(r, holds[t], wired[t]) /\ Len(r) = 3 /\ Place(r, 3).op = "bind"
      /\ HasIn(r, "bind") /\ HasIn(r, "release_shim")
      /\ \A j \in 1..Len(r) : Place(r, j).op \in {"bind", "release_shim", "release"}
      /\ \A n : HasIn(r, n) => n \in {"bind", "release_shim", "release"}
  BY <1>1, <1>2, <1>6, BindRest
<1>8. \A n : HasIn(todo[t], n) <=> n = "add2" \/ HasIn(r, n)
  BY <1>6, GrowsHas, OpsAre
<1>9. ~Has(t, "AddRef_found") /\ Has(t, "add2")
  BY <1>7, <1>8 DEF Has
<1> QED
  BY <1>s, <1>2, <1>4, <1>5, <1>7, <1>8, <1>9 DEF Private, r

\* The object is in no map: the stub is listed for it.
LEMMA AddsFirst ==
    ASSUME ShimInv, NEW t \in Threads, add2(t), ListedStubs(Home, Object) = {}
    PROVE  ShimInv'
<1>0. Now(t, "add2") /\ ~late
  BY DEF add2, Now
<1>c. Current(t, "add2")
  BY <1>0, NowIs
<1>s. PICK s \in Stubs : s = Arg(t)
  BY <1>c DEF Current, ArgsOf
<1> DEFINE r == Tail(todo[t])
<1>1. /\ object' = object /\ stubs' = stubs /\ proxies' = proxies /\ shim' = shim /\ holds' = holds
      /\ wired' = wired /\ late' = late /\ calls' = calls
  BY DEF add2
<1>2. holders' = holders \cup {<<Home, Object, s>>} /\ Then(t, <<>>)
  BY <1>s DEF add2
<1>3. /\ shim[t] = s /\ stubs[s].refs = 1 /\ stubs[s].pins = 0 /\ ~IsListed(s) /\ stubs[s].live
      /\ ShimsAt(s) = {t} /\ ~Has(t, "AddRef_found") /\ Has(t, "add2")
      /\ Len(todo[t]) = 4 /\ RestOf(r, holds[t], wired[t]) /\ Len(r) = 3 /\ Place(r, 3).op = "bind"
      /\ HasIn(r, "bind") /\ HasIn(r, "release_shim")
      /\ (\A j \in 1..Len(r) : Place(r, j).op \in {"bind", "release_shim", "release"})
      /\ (\A n : HasIn(r, n) => n \in {"bind", "release_shim", "release"})
      /\ \A n : HasIn(todo[t], n) <=> n = "add2" \/ HasIn(r, n)
  BY <1>0, <1>c, <1>s, AtAdd2
<1>4. Goes0(t, "add2") /\ todo'[t] = r /\ Stepped(t, "add2")
  BY <1>0, <1>2, ThenGoes, Goings DEF Goes0
<1>5. StillWaits /\ Grown(t, {})
  BY <1>4, StillWaiting, PlacesAre DEF Counting, Releasing
<1> HIDE DEF r
<1>6. todo' \in Lists /\ Counted(todo') /\ OthersSame(t)
  BY <1>1, <1>4, OthersStay DEF OthersSame
<1>7. /\ \A x \in Stubs : IsListed(x)' <=> x = s
      /\ \A x \in Stubs : ~IsListed(x)
      /\ \A p \in Proxies : IsShared(p)' <=> IsShared(p)
      /\ \A h \in holders : h \in holders'
      /\ \A m \in Modules, p \in Proxies, x \in Stubs : <<m, p, x>> \in holders' <=> <<m, p, x>> \in holders
  <2>1. \A x \in Stubs : ~IsListed(x)
    BY DEF ListedStubs, IsListed
  <2>2. \A p \in Proxies : p # Object
    BY DEF Object, ShimInv, ShimAssumption
  <2>3. \A m \in Modules, p \in Proxies, x \in Stubs : <<m, p, x>> \in holders' <=> <<m, p, x>> \in holders
    BY <1>2, <2>2
  <2>4. \A x \in Stubs : IsListed(x)' <=> x = s
    BY <1>2, <2>1 DEF IsListed
  <2>5. \A p \in Proxies : IsShared(p)' <=> IsShared(p)
    BY <2>3 DEF IsShared
  <2>6. \A h \in holders : h \in holders'
    BY <1>2
  <2> QED
    BY <2>1, <2>3, <2>4, <2>5, <2>6
<1>8. ShapeOf(todo[t], shim[t], holds[t], wired[t])'
  <2>1. ShapeOf(r, s, holds[t], wired[t])
    BY <1>3, RestShape
  <2> QED
    BY <1>1, <1>3, <1>4, <2>1
<1>9. Linked(t)'
  <2>1. Linked(t) /\ IsListed(shim[t])'
    BY <1>0, <1>1, <1>3, <1>7 DEF ShimInv, Links, IsListed
  <2>2. \A j \in 1..Len(todo'[t]) : LinkAt(t, j)'
    BY <1>3, <1>4, <2>1 DEF LinkAt
  <2>3. Hold(t) \in Proxies => IsListed(proxies[Hold(t)].shim)'
    BY <1>1, <1>2, <2>1 DEF Linked, IsListed, Hold
  <2>4. Hold(t) \in Proxies => <<holds[t][1], Hold(t), proxies[Hold(t)].shim>> \in holders'
    BY <1>7, <2>1 DEF Linked
  <2> QED
    BY <1>1, <2>1, <2>2, <2>3, <2>4 DEF Linked, Hold, IsListed
<1>10. SetsStay
  <2>1. Handing(t) /\ Handing(t)'
    BY <1>3, <1>4 DEF Handing, Has
  <2>2. \A x \in Proxies \cup {Object} : t \in HandsOf(x)' <=> t \in HandsOf(x)
    BY <2>1 DEF HandsOf
  <2>3. \A p \in Proxies : t \notin AddsOf(p)' /\ t \notin AddsOf(p)
    BY <1>3, <1>4 DEF AddsOf, Adding
  <2>4. \A p \in Proxies : t \in WiresOf(p)' <=> t \in WiresOf(p)
    BY <1>1 DEF WiresOf
  <2>5. \A x \in Stubs : t \in ShimsAt(x)' <=> t \in ShimsAt(x)
    <3>1. ~Has(t, "AddRef_found")'
      BY <1>3, <1>4 DEF Has
    <3> QED
      BY <1>1, <1>3, <3>1 DEF ShimsAt
  <2> QED
    BY <1>0, <1>6, <2>2, <2>3, <2>4, <2>5, SetsStayIf
<1>11. ObjectSum' /\ (\A x \in Stubs : StubSum(x)') /\ (\A p \in Proxies : ProxySum(p)')
  BY <1>0, <1>1, <1>5, <1>10, SumsRemain
<1>12. Maps'
  <2>1. Maps
    BY <1>0 DEF ShimInv
  <2>2. ASSUME NEW m \in Modules, NEW x \in Proxies \cup {Object}, NEW y \in Stubs, <<m, x, y>> \in holders'
        PROVE  IF x = Object THEN m = Home /\ stubs[y].live ELSE m # Home /\ proxies[x].live /\ proxies[x].shim = y
    <3>1. CASE <<m, x, y>> \in holders
      BY <2>1, <3>1 DEF Maps
    <3>2. CASE <<m, x, y>> = <<Home, Object, s>>
      BY <1>3, <3>2
    <3> QED
      BY <1>2, <2>2, <3>1, <3>2
  <2>3. ASSUME NEW m \in Modules, NEW x \in Proxies, NEW y \in Proxies, NEW z \in Stubs,
               <<m, x, z>> \in holders', <<m, y, z>> \in holders'
        PROVE  x = y
    BY <1>7, <2>1, <2>3 DEF Maps
  <2>4. \A x, y \in Stubs : IsListed(x)' /\ IsListed(y)' => x = y
    BY <1>7
  <2> QED
    BY <1>1, <2>2, <2>3, <2>4 DEF Maps, IsListed
<1>13. Pins'
  <2>1. Pins
    BY <1>0 DEF ShimInv
  <2>2. ASSUME NEW p \in Proxies, proxies[p].pins > 0
        PROVE proxies[p].refs <= 1 /\ ~IsListed(proxies[p].shim)' /\ ~IsShared(p)'
    <3>1. proxies[p].shim \in Stubs /\ stubs[proxies[p].shim].pins >= 1
      BY <1>0, <2>2, ShimOfProxy
    <3>2. proxies[p].shim # s
      BY <1>3, <3>1
    <3>3. ~IsListed(proxies[p].shim)'
      BY <1>1, <1>2, <2>1, <2>2, <3>2 DEF Pins, IsListed
    <3> QED
      BY <1>7, <2>1, <2>2, <3>3 DEF Pins
  <2>3. \A x \in Stubs : Waits(todo', Op("release_pin", x)) > 0 => stubs[x].refs = 0
    BY <1>5, <2>1, StillWaitsFor DEF Pins
  <2>4. \A p \in Proxies : proxies'[p].pins > 0 => proxies'[p].refs <= 1 /\ ~IsListed(proxies[p].shim)'
             /\ ~IsShared(p)'
    BY <1>1, <2>2
  <2> QED
    BY <1>1, <2>1, <2>3, <2>4 DEF Pins
<1>14. ASSUME NEW u \in Threads, u # t PROVE Steady(u)
  <2>1. ASSUME NEW x \in Stubs, u \in ShimsAt(x), Private(x) PROVE Private(x)'
    <3>1. x # s
      BY <1>3, <1>14, <2>1
    <3> QED
      BY <1>1, <1>7, <2>1, <3>1 DEF Private
  <2>2. ASSUME NEW p \in Proxies, NEW x \in Stubs, todo[u] # <<>>, Head(todo[u]) = Op("Pin", p), proxies[p].shim = x
        PROVE  /\ stubs'[x].refs = 2 /\ stubs'[x].pins = 0 /\ ~IsListed(x)'
               /\ proxies'[p].refs = 1 /\ proxies'[p].pins = 0 /\ ~IsShared(p)'
    <3>1. /\ stubs[x].refs = 2 /\ stubs[x].pins = 0 /\ ~IsListed(x)
          /\ proxies[p].refs = 1 /\ proxies[p].pins = 0 /\ ~IsShared(p)
      BY <1>0, <2>2, PinAhead
    <3>2. x # s
      BY <1>3, <3>1
    <3> QED
      BY <1>1, <1>7, <3>1, <3>2
  <2>3. \A p \in Proxies : proxies[p].refs > 0 => proxies'[p].live
    BY <1>0, <1>1, ProxyFacts
  <2>4. \A x \in Stubs : IsListed(x) /\ stubs[x].refs > 0 => IsListed(x)'
    BY <1>7
  <2> QED
    BY <1>1, <1>7, <2>1, <2>2, <2>3, <2>4 DEF Steady
<1>15. Kept'
  <2>1. ASSUME NEW u \in Threads, NEW p \in Proxies, u # t, Keeps(u, p) PROVE shim'[t] # proxies[p].shim
    BY <1>0, <1>1, <2>1, KeeperFacts
  <2> QED
    BY <1>0, <1>1, <1>5, <1>6, <2>1, KeptPlainly
<1>16. ShimTypes'
  <2>1. holders' \subseteq Modules \X (Proxies \cup {Object}) \X Stubs
    BY <1>2 DEF ShimInv, ShimTypes, ShimAssumption
  <2> QED
    BY <1>1, <1>6, <2>1 DEF ShimInv, ShimTypes
<1> QED
  BY <1>0, <1>1, <1>6, <1>8, <1>9, <1>11, <1>12, <1>13, <1>14, <1>15, <1>16, CallStep

\* Another thread's stub is listed already: it is taken, and the one made given up.
LEMMA AddsLater ==
    ASSUME ShimInv, NEW t \in Threads, add2(t), ListedStubs(Home, Object) # {}
    PROVE  ShimInv'
<1>0. Now(t, "add2") /\ ~late
  BY DEF add2, Now
<1>c. Current(t, "add2")
  BY <1>0, NowIs
<1>s. PICK s \in Stubs : s = Arg(t)
  BY <1>c DEF Current, ArgsOf
<1>x. PICK x \in Stubs : IsListed(x) /\ Then(t, <<Op("AddRef_found", x), Op("release_stub", s)>>)
  BY <1>s DEF add2, ListedStubs, IsListed
<1> DEFINE a == Op("AddRef_found", x)
           b == Op("release_stub", s)
           r == Tail(todo[t])
           r1 == <<b>> \o r
<1>1. UNCHANGED <<object, stubs, proxies, holders, shim, holds, wired, late, calls>>
  BY DEF add2
<1>3. /\ shim[t] = s /\ stubs[s].refs = 1 /\ stubs[s].pins = 0 /\ ~IsListed(s) /\ stubs[s].live
      /\ ShimsAt(s) = {t} /\ ~Has(t, "AddRef_found") /\ Has(t, "add2")
      /\ Len(todo[t]) = 4 /\ RestOf(r, holds[t], wired[t]) /\ Len(r) = 3 /\ Place(r, 3).op = "bind"
      /\ HasIn(r, "bind") /\ HasIn(r, "release_shim")
      /\ (\A j \in 1..Len(r) : Place(r, j).op \in {"bind", "release_shim", "release"})
      /\ (\A n : HasIn(r, n) => n \in {"bind", "release_shim", "release"})
      /\ \A n : HasIn(todo[t], n) <=> n = "add2" \/ HasIn(r, n)
  BY <1>0, <1>c, <1>s, AtAdd2
<1>o. /\ a \in Ops /\ a.op = "AddRef_found" /\ a.arg = x
      /\ b \in Ops /\ b.op = "release_stub" /\ b.arg = s
  BY OpsAre, OpsOf
<1>4. Goes2(t, "add2", a, b) /\ Grows(r, r1, b) /\ Grows(r1, todo'[t], a)
  <2>1. Then(t, <<a, b>>)
    BY <1>x
  <2> HIDE DEF a, b
  <2> QED
    BY <1>0, <1>o, <2>1, ThenGoes, Goings
<1>5. Stepped(t, "add2") /\ Grown(t, {a, b}) /\ Moves("add2", s, "AddRef_found", x, "release_stub", s)
  <2>1. Goes2(t, "add2", Op("AddRef_found", x), Op("release_stub", s))
    BY <1>4
  <2>2. Moves("add2", s, "AddRef_found", x, "release_stub", s)
    BY <1>s, <2>1, MovesBy
  <2>3. Stepped(t, "add2") /\ Grown(t, {a, b})
    <3> HIDE DEF a, b
    <3> QED
      BY <1>4, PlacesAre DEF Goes2
  <2> QED
    BY <2>2, <2>3
<1> HIDE DEF a, b, r, r1
<1>6. todo' \in Lists /\ Counted(todo') /\ OthersSame(t)
  BY <1>1, <1>5, OthersStay DEF OthersSame
<1>7. /\ \A y \in Proxies \cup {Object} : Waits(todo', Op("release", y)) = Waits(todo, Op("release", y))
      /\ \A y \in Stubs : /\ Waits(todo', Op("release_stub", y)) = Waits(todo, Op("release_stub", y)) + One(y = s)
                          /\ Waits(todo, Op("release_stub", y)) \in Nat
                          /\ Waits(todo', Op("release_pin", y)) = Waits(todo, Op("release_pin", y))
                          /\ Waits(todo', Op("Destruct_stub", y)) = Waits(todo, Op("Destruct_stub", y))
      /\ \A y \in Proxies : /\ Waits(todo', Op("Internal_Release", y)) = Waits(todo, Op("Internal_Release", y))
                            /\ Waits(todo', Op("Unpin_proxy", y)) = Waits(todo, Op("Unpin_proxy", y))
                            /\ Waits(todo', Op("Destruct_proxy", y)) = Waits(todo, Op("Destruct_proxy", y))
  BY <1>5 DEF Moves, WaitsMore, One
<1>8. /\ Len(r1) = 4 /\ Len(todo'[t]) = 5 /\ Place(todo'[t], 5) = a /\ Place(todo'[t], 4) = b
      /\ Binds(todo'[t]) /\ Place(todo'[t], 3).op = "bind"
      /\ \A j \in 1..Len(todo'[t]) : \/ Place(todo'[t], j) = a \/ Place(todo'[t], j) = b
                                     \/ Place(todo'[t], j).op \in {"bind", "release_shim", "release"}
  <2>1. Len(r1) = 4 /\ Len(todo'[t]) = 5
    BY <1>3, <1>4 DEF Grows
  <2>2. Place(todo'[t], 5) = a /\ Place(todo'[t], 4) = b /\ Place(todo'[t], 3).op = "bind"
    <3>1. 4 \in 1..Len(r1) /\ 3 \in 1..Len(r1) /\ 3 \in 1..Len(r)
      BY <1>3, <2>1
    <3> QED
      BY <1>3, <1>4, <2>1, <3>1 DEF Grows
  <2>3. ASSUME NEW j \in 1..Len(todo'[t]), j # 5, j # 4
        PROVE Place(todo'[t], j).op \in {"bind", "release_shim", "release"}
    <3>1. j \in 1..Len(r) /\ j \in 1..Len(r1)
      BY <1>3, <2>1, <2>3
    <3> QED
      BY <1>3, <1>4, <3>1 DEF Grows
  <2> QED
    BY <2>1, <2>2, <2>3 DEF Binds
<1>9. \A n : HasIn(todo'[t], n) <=> n = "AddRef_found" \/ n = "release_stub" \/ HasIn(r, n)
  <2>1. \A n : HasIn(r1, n) <=> n = "release_stub" \/ HasIn(r, n)
    BY <1>4, <1>o, GrowsHas
  <2>2. \A n : HasIn(todo'[t], n) <=> n = "AddRef_found" \/ HasIn(r1, n)
    BY <1>4, <1>o, GrowsHas
  <2> QED
    BY <2>1, <2>2
<1>10. ShapeOf(todo[t], shim[t], holds[t], wired[t])'
  <2>1. RestOf(r1, holds[t], wired[t])
    <3>1. RestAt(r1, holds[t], wired[t], Len(r1))
      <4>1. Place(r1, Len(r1)) = b
        BY <1>3, <1>4, <1>8 DEF Grows
      <4> QED
        BY <1>o, <4>1 DEF RestAt, Foremost
    <3>2. ~HasIn(r, "new_proxy")
      BY <1>3
    <3> QED
      BY <1>3, <1>4, <3>1, <3>2, RestOnRest
  <2>2. ShapeAt(todo'[t], s, holds[t], wired[t], Len(todo'[t]))
    BY <1>8, <1>o DEF ShapeAt, Foremost, b
  <2>3. ~HasIn(r1, "new_proxy")
    BY <1>3, <1>4, <1>o, GrowsHas
  <2>4. HasIn(todo'[t], "release_shim") /\ a.op \notin {"find", "new_stub"}
    BY <1>3, <1>9, <1>o
  <2>5. ShapeOf(todo'[t], s, holds[t], wired[t])
    BY <1>4, <2>1, <2>2, <2>3, <2>4, PushRest
  <2> QED
    BY <1>1, <1>3, <2>5
<1>11. Linked(t)'
  <2>1. Linked(t)
    BY <1>0 DEF ShimInv, Links
  <2>2. HasIn(todo'[t], "AddRef_found")
    BY <1>9
  <2>3. IsListed(x)'
    BY <1>1, <1>x DEF IsListed
  <2>4. ASSUME NEW j \in 1..Len(todo'[t]) PROVE LinkAt(t, j)'
    <3>1. CASE Place(todo'[t], j) = a
      BY <1>o, <2>3, <3>1 DEF LinkAt
    <3>2. CASE Place(todo'[t], j) = b
      BY <1>o, <3>2 DEF LinkAt
    <3>3. CASE Place(todo'[t], j).op \in {"bind", "release_shim", "release"}
      BY <2>2, <3>3 DEF LinkAt, Shimless
    <3> QED
      BY <1>8, <3>1, <3>2, <3>3
  <2> QED
    BY <1>1, <2>1, <2>4 DEF Linked, Hold, IsListed
<1>12. /\ \A y \in Proxies \cup {Object} : HandsOf(y)' = HandsOf(y)
       /\ \A p \in Proxies : AddsOf(p)' = AddsOf(p) /\ WiresOf(p)' = WiresOf(p)
       /\ \A y \in Stubs : y # s => ShimsAt(y)' = ShimsAt(y)
       /\ t \in ShimsAt(s) /\ t \notin ShimsAt(s)'
  <2>1. Handing(t) /\ Handing(t)'
    BY <1>3, <1>9 DEF Handing, Has
  <2>2. \A y : t \in HandsOf(y)' <=> t \in HandsOf(y)
    BY <2>1 DEF HandsOf
  <2>3. \A p : t \notin AddsOf(p) /\ t \notin AddsOf(p)'
    BY <1>3, <1>8 DEF AddsOf, Adding
  <2>4. \A p \in Proxies : t \in WiresOf(p)' <=> t \in WiresOf(p)
    BY <1>1 DEF WiresOf
  <2>5. /\ \A y \in Stubs : y # s => t \notin ShimsAt(y) /\ t \notin ShimsAt(y)'
        /\ t \in ShimsAt(s) /\ t \notin ShimsAt(s)'
    <3>1. Has(t, "AddRef_found")'
      BY <1>9 DEF Has
    <3> QED
      BY <1>3, <3>1 DEF ShimsAt
  <2> QED
    BY <1>0, <1>6, <2>2, <2>3, <2>4, <2>5, SizesMove DEF Changed
<1>13. /\ Maps' /\ Referred' = Referred /\ Twice' = Twice /\ Pins'
       /\ \A y : ProxiesFor(y)' = ProxiesFor(y) /\ PinnedFor(y)' = PinnedFor(y)
       /\ \A u \in Threads : Steady(u)
  BY <1>0, <1>1, <1>7, NothingMoved
<1>14. ObjectSum'
  <2>1. HandsOf(Object)' = HandsOf(Object)
    BY <1>12
  <2> QED
    BY <1>0, <1>1, <1>7, <1>13, <2>1, ObjectStays
<1>15. ASSUME NEW y \in Stubs PROVE StubSum(y)'
  <2>1. CASE y # s
    <3>1. One(y = s) = 0
      BY <2>1 DEF One
    <3>2. Waits(todo', Op("release_stub", y)) = Waits(todo, Op("release_stub", y))
      BY <1>7, <3>1
    <3> QED
      BY <1>0, <1>1, <1>7, <1>12, <1>13, <2>1, <3>2, StubSame
  <2>2. CASE y = s
    <3>2. /\ Waits(todo', Op("release_stub", s)) = Waits(todo, Op("release_stub", s)) + 1
          /\ One(t \in ShimsAt(s)') = 0 /\ One(t \in ShimsAt(s)) = 1
      BY <1>7, <1>12 DEF One
    <3>3. IsFiniteSet(ProxiesFor(s)') /\ Cardinality(ProxiesFor(s)') = Cardinality(ProxiesFor(s)) + 0
      <4>1. IsFiniteSet(ProxiesFor(s)) /\ Cardinality(ProxiesFor(s)) \in Nat
        BY <1>0, FS_CardinalityType DEF ShimInv, Sums, StubSum
      <4> QED
        BY <1>13, <4>1
    <3>4. stubs'[s].refs = stubs[s].refs + 1 + 0 + One(t \in ShimsAt(s)') - One(t \in ShimsAt(s))
      BY <1>1, <1>3, <3>2
    <3>5. /\ stubs'[s].live <=> stubs[s].live
          /\ stubs[s].live
          /\ stubs'[s].pins = stubs[s].pins /\ (stubs'[s].refs = 0 <=> stubs[s].refs = 0)
          /\ PinnedFor(s)' = PinnedFor(s) /\ 1 \in Int /\ 0 \in Int
          /\ Waits(todo', Op("release_pin", s)) = Waits(todo, Op("release_pin", s))
          /\ Waits(todo', Op("Destruct_stub", s)) = Waits(todo, Op("Destruct_stub", s))
      BY <1>1, <1>3, <1>7, <1>13
    <3>6. StubSum(s)'
      BY <1>0, <1>6, <3>2, <3>3, <3>4, <3>5, StubMoves
    <3> QED
      BY <2>2, <3>6
  <2> QED
    BY <2>1, <2>2
<1>16. ASSUME NEW p \in Proxies PROVE ProxySum(p)'
  BY <1>0, <1>1, <1>7, <1>12, ProxySame
<1>19. Kept'
  <2>1. ASSUME NEW u \in Threads, NEW p \in Proxies, u # t, Keeps(u, p)
        PROVE  /\ shim'[t] # proxies[p].shim /\ Op("release", p) \notin {a, b}
               /\ Op("release_stub", proxies[p].shim) \notin {a, b}
    <3>1. proxies[p].shim \in Stubs /\ shim[t] # proxies[p].shim
      BY <1>0, <2>1, KeeperFacts
    <3> QED
      BY <1>1, <1>3, <3>1, OpsAre DEF a, b
  <2>2. \A p : Op("Unpin_proxy", p) \notin {a, b}
    BY OpsAre DEF a, b
  <2> QED
    BY <1>0, <1>1, <1>5, <1>6, <2>1, <2>2, KeptPlainly
<1>20. ShimTypes'
  BY <1>1, <1>6 DEF ShimInv, ShimTypes
<1> QED
  BY <1>0, <1>1, <1>6, <1>10, <1>11, <1>13, <1>14, <1>15, <1>16, <1>19, <1>20, CallStep

\* The stub is listed, or the one that is listed is taken.
LEMMA StubAdded ==
    ASSUME ShimInv, NEW t \in Threads, add2(t)
    PROVE  ShimInv'
BY AddsFirst, AddsLater

\* A proxy comes to be. Nothing refers to it but the thread that makes it, and it is
\* in no map; its stub is referred to once more.
Placed(t, p, A) ==
    /\ OthersSame(t) /\ Grown(t, A) /\ Counted(todo')
    /\ \A q : Op("Unpin_proxy", q) \notin A /\ Op("release_stub", q) \notin A /\ (Op("release", q) \in A => q = p)
    /\ \A x \in Proxies \cup {Object} : x # p => Waits(todo', Op("release", x)) = Waits(todo, Op("release", x))
    /\ \A s \in Stubs : /\ Waits(todo', Op("release_stub", s)) = Waits(todo, Op("release_stub", s))
                        /\ Waits(todo', Op("release_pin", s)) = Waits(todo, Op("release_pin", s))
                        /\ Waits(todo', Op("Destruct_stub", s)) = Waits(todo, Op("Destruct_stub", s))
    /\ \A x \in Proxies : /\ Waits(todo', Op("Internal_Release", x)) = Waits(todo, Op("Internal_Release", x))
                          /\ Waits(todo', Op("Unpin_proxy", x)) = Waits(todo, Op("Unpin_proxy", x))
                          /\ Waits(todo', Op("Destruct_proxy", x)) = Waits(todo, Op("Destruct_proxy", x))
    /\ \A x \in Proxies \cup {Object} : t \in HandsOf(x)' <=> t \in HandsOf(x)
    /\ \A x \in Proxies : t \notin AddsOf(x) /\ (x # p => t \notin AddsOf(x)') /\ (t \in WiresOf(x)'
         <=> t \in WiresOf(x))
    /\ \A s \in Stubs : t \in ShimsAt(s)' <=> t \in ShimsAt(s)
    /\ One(t \in AddsOf(p)') + Waits(todo', Op("release", p)) = 1 /\ Waits(todo', Op("release", p)) \in Nat

MadeOf(s) == [NoProxy EXCEPT !.live = TRUE, !.refs = 1, !.shim = s]

\* What a new proxy is.
LEMMA MadeIs ==
    ASSUME NEW s \in Stubs
    PROVE  /\ MadeOf(s) \in ProxyKind /\ MadeOf(s).live /\ MadeOf(s).refs = 1 /\ MadeOf(s).ints = 0
           /\ MadeOf(s).pins = 0 /\ MadeOf(s).shim = s
<1> DEFINE m1 == [NoProxy EXCEPT !.live = TRUE]
           m2 == [m1 EXCEPT !.refs = 1]
           m3 == [m2 EXCEPT !.shim = s]
<1>1. NoProxy \in ProxyKind /\ NoProxy.ints = 0 /\ NoProxy.pins = 0
  BY DEF NoProxy, ProxyKind
<1>2. m1 \in ProxyKind /\ m1.live /\ m1.ints = 0 /\ m1.pins = 0
  BY <1>1 DEF ProxyKind
<1> HIDE DEF m1
<1>3. m2 \in ProxyKind /\ m2.live /\ m2.refs = 1 /\ m2.ints = 0 /\ m2.pins = 0
  BY <1>2 DEF ProxyKind
<1> HIDE DEF m2
<1>4. m3 \in ProxyKind /\ m3.live /\ m3.refs = 1 /\ m3.ints = 0 /\ m3.pins = 0 /\ m3.shim = s
  BY <1>3 DEF ProxyKind
<1>5. MadeOf(s) = m3
  BY DEF MadeOf, m1, m2
<1> HIDE DEF m3
<1> QED
  BY <1>4, <1>5

\* What is not alive is in nobody's hands, in no list and in no map.
LEMMA Unused ==
    ASSUME ShimInv, ~late, NEW p \in Proxies, ~proxies[p].live
    PROVE  /\ proxies[p].refs = 0 /\ proxies[p].pins = 0 /\ proxies[p].ints = 0
           /\ HandsOf(p) = {} /\ AddsOf(p) = {} /\ WiresOf(p) = {} /\ ~IsShared(p)
           /\ Waits(todo, Op("release", p)) = 0 /\ Waits(todo, Op("Internal_Release", p)) = 0
           /\ Waits(todo, Op("Unpin_proxy", p)) = 0 /\ Waits(todo, Op("Destruct_proxy", p)) = 0
           /\ \A u \in Threads : Hold(u) # p
           /\ \A m \in Modules, s \in Stubs : <<m, p, s>> \notin holders
<1>1. ProxySum(p) /\ Maps
  BY DEF ShimInv, Sums
<1>2. proxies[p].refs = 0 /\ proxies[p].pins = 0 /\ proxies[p].ints = 0
  BY ProxyFacts
<1>3. /\ Op("release", p) \in Ops /\ Op("Unpin_proxy", p) \in Ops
      /\ Waits(todo, Op("release", p)) \in Nat /\ Waits(todo, Op("Unpin_proxy", p)) \in Nat
  <2>1. Op("release", p) \in Ops /\ Op("Unpin_proxy", p) \in Ops
    BY OpsOf
  <2> QED
    BY <2>1, FS_CardinalityType DEF ShimInv, Sums, Counted, Waits
<1>4. /\ IsFiniteSet(HandsOf(p)) /\ IsFiniteSet(AddsOf(p)) /\ IsFiniteSet(WiresOf(p))
      /\ Cardinality(HandsOf(p)) \in Nat /\ Cardinality(AddsOf(p)) \in Nat /\ Cardinality(WiresOf(p)) \in Nat
  BY <1>1, FS_CardinalityType DEF ProxySum
<1>5. /\ Cardinality(HandsOf(p)) = 0 /\ Cardinality(AddsOf(p)) = 0 /\ Cardinality(WiresOf(p)) = 0
      /\ Waits(todo, Op("release", p)) = 0 /\ Waits(todo, Op("Unpin_proxy", p)) = 0
      /\ Waits(todo, Op("Internal_Release", p)) = 0 /\ Waits(todo, Op("Destruct_proxy", p)) = 0
  <2>1. Waits(todo, Op("Internal_Release", p)) = 0 /\ Waits(todo, Op("Destruct_proxy", p)) = 0
    BY <1>1, <1>2 DEF ProxySum, One
  <2>2. 0 = Cardinality(HandsOf(p)) + Waits(todo, Op("release", p)) + Cardinality(AddsOf(p))
    BY <1>1, <1>2 DEF ProxySum
  <2>3. 0 = Cardinality(WiresOf(p)) + Waits(todo, Op("Unpin_proxy", p))
    BY <1>1, <1>2 DEF ProxySum
  <2>4. \A x, y, z \in Nat : 0 = x + y + z => x = 0 /\ y = 0 /\ z = 0
    OBVIOUS
  <2>5. \A x, y \in Nat : 0 = x + y => x = 0 /\ y = 0
    OBVIOUS
  <2>6. Cardinality(HandsOf(p)) = 0 /\ Waits(todo, Op("release", p)) = 0 /\ Cardinality(AddsOf(p)) = 0
    BY <1>3, <1>4, <2>2, <2>4
  <2>7. Cardinality(WiresOf(p)) = 0 /\ Waits(todo, Op("Unpin_proxy", p)) = 0
    BY <1>3, <1>4, <2>3, <2>5
  <2> QED
    BY <2>1, <2>6, <2>7
<1>6. HandsOf(p) = {} /\ AddsOf(p) = {} /\ WiresOf(p) = {}
  BY <1>4, <1>5, SizeIs
<1>7. \A m \in Modules, s \in Stubs : <<m, p, s>> \notin holders
  <2>1. p # Object
    BY DEF ShimInv, ShimAssumption, Object
  <2> QED
    BY <1>1, <2>1 DEF Maps
<1>8. ~IsShared(p)
  BY <1>7 DEF IsShared
<1>9. \A u \in Threads : Hold(u) # p
  BY <1>2, HeldIsReferred
<1> QED
  BY <1>2, <1>5, <1>6, <1>7, <1>8, <1>9

\* A new proxy refers to the shim at hand, and is in the hands of the thread alone.
LEMMA ProxyMade ==
    ASSUME ShimInv, ~late, NEW t \in Threads, NEW p \in Proxies, NewProxy(t, p), NEW s \in Stubs, shim[t] = s,
           t \in ShimsAt(s), stubs[s].pins = 0, UNCHANGED <<holders, shim, holds, wired>>,
           NEW A, Placed(t, p, A)
    PROVE  /\ object' = object /\ stubs' \in [Stubs -> StubKind] /\ proxies' \in [Proxies -> ProxyKind]
           /\ stubs[s].refs >= 1 /\ stubs[s].refs \in Nat
           /\ stubs'[s].refs = stubs[s].refs + 1 /\ stubs'[s].pins = 0
           /\ proxies'[p] = MadeOf(s) /\ ~IsShared(p)' /\ (\A x \in Proxies : x # p => proxies'[x] = proxies[x])
           /\ (\A u \in Threads : Hold(u) # p)
           /\ ObjectSum' /\ (\A x \in Stubs : StubSum(x)') /\ (\A x \in Proxies : ProxySum(x)')
           /\ Maps' /\ Pins' /\ (\A u \in Threads : u # t => Steady(u)) /\ Kept'
<1>d. ~proxies[p].live /\ \A m \in Modules : ~Sought(Op("AddRef_listed", <<m, p>>))
  BY DEF NewProxy
<1>u. /\ proxies[p].refs = 0 /\ proxies[p].pins = 0 /\ proxies[p].ints = 0
      /\ HandsOf(p) = {} /\ AddsOf(p) = {} /\ WiresOf(p) = {} /\ ~IsShared(p)
      /\ Waits(todo, Op("release", p)) = 0 /\ Waits(todo, Op("Internal_Release", p)) = 0
      /\ Waits(todo, Op("Unpin_proxy", p)) = 0 /\ Waits(todo, Op("Destruct_proxy", p)) = 0
      /\ \A u \in Threads : Hold(u) # p
      /\ \A m \in Modules, x \in Stubs : <<m, p, x>> \notin holders
  BY <1>d, Unused
<1>k. stubs \in [Stubs -> StubKind] /\ proxies \in [Proxies -> ProxyKind]
  BY KindsAre
<1>r. stubs[s].refs \in Nat /\ stubs[s].refs >= 1 /\ stubs[s].live
  <2>1. IsFiniteSet(ShimsAt(s))
    BY DEF ShimInv, Sums, StubSum
  <2>2. Cardinality(ShimsAt(s)) >= 1
    BY <2>1, SizeIs
  <2> QED
    BY <2>2, StubFacts
<1>1. object' = object /\ stubs' = PutRefs(stubs, s, stubs[s].refs + 1) /\ proxies' = PutAll(proxies, p, MadeOf(s))
  BY DEF NewProxy, PutRefs, PutAll, MadeOf
<1>2. /\ stubs' \in [Stubs -> StubKind] /\ stubs'[s].refs = stubs[s].refs + 1
      /\ stubs'[s].pins = 0 /\ stubs'[s].live
      /\ \A x \in Stubs : x # s => stubs'[x] = stubs[x]
  <2> DEFINE n == stubs[s].refs + 1
  <2>1. n \in Int
    BY <1>r
  <2>2. stubs' = PutRefs(stubs, s, n)
    BY <1>1
  <2>3. stubs'[s].refs = n /\ n = stubs[s].refs + 1
    <3>1. n = stubs[s].refs + 1
      OBVIOUS
    <3> HIDE DEF n
    <3> QED
      BY <1>k, <2>1, <2>2, <3>1, StubPuts
  <2> HIDE DEF n
  <2> QED
    BY <1>k, <1>r, <2>1, <2>2, <2>3, StubPuts
<1>3. /\ proxies' \in [Proxies -> ProxyKind] /\ proxies'[p] = MadeOf(s)
      /\ proxies'[p].live /\ proxies'[p].refs = 1 /\ proxies'[p].ints = 0 /\ proxies'[p].pins = 0
           /\ proxies'[p].shim = s
      /\ \A x \in Proxies : x # p => proxies'[x] = proxies[x]
  BY <1>1, <1>k, MadeIs, AllPuts
<1>4. OthersSame(t) /\ Grown(t, A)
  BY DEF Placed
<1>5. /\ \A x \in Proxies \cup {Object} : HandsOf(x)' = HandsOf(x)
      /\ \A x \in Proxies : WiresOf(x)' = WiresOf(x) /\ (x # p => AddsOf(x)' = AddsOf(x))
      /\ \A x \in Stubs : ShimsAt(x)' = ShimsAt(x)
      /\ IsFiniteSet(AddsOf(p)') /\ Cardinality(AddsOf(p)') = One(t \in AddsOf(p)')
  <2>1. /\ \A x \in Proxies \cup {Object} : Changed(HandsOf(x), HandsOf(x)', t)
        /\ \A x \in Proxies : Changed(AddsOf(x), AddsOf(x)', t) /\ Changed(WiresOf(x), WiresOf(x)', t)
        /\ \A x \in Stubs : Changed(ShimsAt(x), ShimsAt(x)', t)
    BY <1>4, SizesMove
  <2>2. /\ \A x \in Proxies \cup {Object} : HandsOf(x)' = HandsOf(x)
        /\ \A x \in Proxies : WiresOf(x)' = WiresOf(x) /\ (x # p => AddsOf(x)' = AddsOf(x))
        /\ \A x \in Stubs : ShimsAt(x)' = ShimsAt(x)
    BY <2>1 DEF Placed, Changed
  <2>3. IsFiniteSet(AddsOf(p)') /\ Cardinality(AddsOf(p)') = Cardinality(AddsOf(p)) - One(t \in AddsOf(p))
             + One(t \in AddsOf(p)')
    BY <2>1 DEF Changed
  <2>4. Cardinality(AddsOf(p)) = 0 /\ One(t \in AddsOf(p)) = 0 /\ One(t \in AddsOf(p)') \in Int
    BY <1>u, FS_EmptySet DEF One
  <2> QED
    BY <2>2, <2>3, <2>4
<1>6. /\ \A x \in Stubs : x # s => ProxiesFor(x)' = ProxiesFor(x)
      /\ \A x : PinnedFor(x)' = PinnedFor(x)
      /\ IsFiniteSet(ProxiesFor(s)') /\ Cardinality(ProxiesFor(s)') = Cardinality(ProxiesFor(s)) + 1
      /\ Referred' = Referred /\ Twice' = Twice
  <2>1. \A x \in Stubs : x # s => ProxiesFor(x)' = ProxiesFor(x)
    <3>1. ASSUME NEW x \in Stubs, x # s, NEW y \in Proxies
          PROVE  (proxies'[y].refs > 0 /\ proxies'[y].shim = x) <=> (proxies[y].refs > 0 /\ proxies[y].shim = x)
      BY <1>3, <1>u, <3>1
    <3> QED
      BY <3>1 DEF ProxiesFor
  <2>2. \A x : PinnedFor(x)' = PinnedFor(x)
    <3>1. ASSUME NEW x, NEW y \in Proxies
          PROVE  (proxies'[y].pins > 0 /\ proxies'[y].shim = x) <=> (proxies[y].pins > 0 /\ proxies[y].shim = x)
      BY <1>3, <1>u
    <3> QED
      BY <3>1 DEF PinnedFor
  <2>3. ProxiesFor(s)' = ProxiesFor(s) \cup {p} /\ p \notin ProxiesFor(s)
    <3>1. ASSUME NEW y \in Proxies
          PROVE  (proxies'[y].refs > 0 /\ proxies'[y].shim = s) <=> (proxies[y].refs > 0
               /\ proxies[y].shim = s) \/ y = p
      BY <1>3, <1>u
    <3> QED
      BY <1>u, <3>1 DEF ProxiesFor
  <2>4. IsFiniteSet(ProxiesFor(s))
    BY DEF ShimInv, Sums, StubSum
  <2>5. IsFiniteSet(ProxiesFor(s)') /\ Cardinality(ProxiesFor(s)') = Cardinality(ProxiesFor(s)) + 1
    BY <2>3, <2>4, FS_AddElement
  <2>6. \A x \in Stubs : stubs'[x].refs > 0 <=> stubs[x].refs > 0
    BY <1>2, <1>r
  <2>7. \A x \in Stubs : stubs'[x].pins = stubs[x].pins /\ (stubs'[x].pins > 0 => stubs'[x].refs = stubs[x].refs)
    BY <1>2
  <2>8. \A x \in Stubs : (stubs'[x].refs = 2 /\ stubs'[x].pins > 0) <=> (stubs[x].refs = 2 /\ stubs[x].pins > 0)
    BY <2>7
  <2> QED
    BY <2>1, <2>2, <2>5, <2>6, <2>8 DEF Referred, Twice
<1>7. ObjectSum'
  <2>1. p # Object
    BY DEF ShimInv, ShimAssumption, Object
  <2>2. Waits(todo', Op("release", Object)) = Waits(todo, Op("release", Object))
    BY <2>1 DEF Placed
  <2>3. HandsOf(Object)' = HandsOf(Object)
    BY <1>5
  <2> QED
    BY <1>1, <1>6, <2>2, <2>3, ObjectStays
<1>8. ASSUME NEW x \in Stubs PROVE StubSum(x)'
  <2>1. /\ Waits(todo', Op("release_stub", x)) = Waits(todo, Op("release_stub", x))
        /\ Waits(todo', Op("release_pin", x)) = Waits(todo, Op("release_pin", x))
        /\ Waits(todo', Op("Destruct_stub", x)) = Waits(todo, Op("Destruct_stub", x))
    BY DEF Placed
  <2>2. CASE x # s
    BY <1>2, <1>5, <1>6, <2>1, <2>2, StubSame
  <2>3. CASE x = s
    <3>1. /\ Waits(todo', Op("release_pin", s)) = Waits(todo, Op("release_pin", s))
          /\ Waits(todo', Op("Destruct_stub", s)) = Waits(todo, Op("Destruct_stub", s))
          /\ Waits(todo', Op("release_stub", s)) = Waits(todo, Op("release_stub", s)) + 0
      <4>1. Waits(todo, Op("release_stub", s)) \in Nat
        BY StubFacts
      <4> QED
        BY <2>1, <2>3, <4>1
    <3>2. One(t \in ShimsAt(s)') = 1 /\ One(t \in ShimsAt(s)) = 1
      BY <1>5 DEF One
    <3>3. /\ stubs'[s].live <=> stubs[s].live
          /\ stubs[s].live /\ stubs'[s].pins = stubs[s].pins /\ PinnedFor(s)' = PinnedFor(s)
          /\ 1 \in Int /\ 0 \in Int
          /\ (stubs'[s].refs = 0 <=> stubs[s].refs = 0)
          /\ stubs'[s].refs = stubs[s].refs + 0 + 1 + One(t \in ShimsAt(s)') - One(t \in ShimsAt(s))
      BY <1>2, <1>6, <1>r, <3>2
    <3>4. IsFiniteSet(ProxiesFor(s)') /\ Cardinality(ProxiesFor(s)') = Cardinality(ProxiesFor(s)) + 1
      BY <1>6
    <3>5. StubSum(s)'
      BY <1>4, <3>1, <3>3, <3>4, StubMoves
    <3> QED
      BY <2>3, <3>5
  <2> QED
    BY <2>2, <2>3
<1>9. ASSUME NEW x \in Proxies PROVE ProxySum(x)'
  <2>1. /\ Waits(todo', Op("Internal_Release", x)) = Waits(todo, Op("Internal_Release", x))
        /\ Waits(todo', Op("Unpin_proxy", x)) = Waits(todo, Op("Unpin_proxy", x))
        /\ Waits(todo', Op("Destruct_proxy", x)) = Waits(todo, Op("Destruct_proxy", x))
        /\ x # p => Waits(todo', Op("release", x)) = Waits(todo, Op("release", x))
    BY DEF Placed
  <2>2. CASE x # p
    BY <1>3, <1>5, <2>1, <2>2, ProxySame
  <2>3. CASE x = p
    <3>1. /\ HandsOf(p)' = {} /\ WiresOf(p)' = {} /\ IsFiniteSet(AddsOf(p)')
          /\ Cardinality(AddsOf(p)') = One(t \in AddsOf(p)')
      BY <1>5, <1>u
    <3>2. IsFiniteSet({}) /\ Cardinality({}) = 0
      BY FS_EmptySet
    <3>3. proxies'[p].refs = Cardinality(HandsOf(p)') + Waits(todo', Op("release", p)) + Cardinality(AddsOf(p)')
      <4>1. One(t \in AddsOf(p)') + Waits(todo', Op("release", p)) = 1 /\ Waits(todo', Op("release", p)) \in Nat
        BY DEF Placed
      <4>2. One(t \in AddsOf(p)') \in Int
        BY DEF One
      <4> QED
        BY <1>3, <3>1, <3>2, <4>1, <4>2
    <3>4. /\ proxies'[p].ints = Waits(todo', Op("Internal_Release", p))
          /\ proxies'[p].pins = Cardinality(WiresOf(p)') + Waits(todo', Op("Unpin_proxy", p))
          /\ Waits(todo', Op("Destruct_proxy", p)) =
                 One(proxies'[p].live /\ proxies'[p].refs = 0 /\ proxies'[p].pins = 0 /\ proxies'[p].ints = 0)
      BY <1>3, <1>u, <2>1, <2>3, <3>1, <3>2 DEF One
    <3>5. IF proxies'[p].live THEN proxies'[p].shim \in Stubs ELSE proxies'[p] = NoProxy
      BY <1>3
    <3>6. IsFiniteSet(HandsOf(p)') /\ IsFiniteSet(AddsOf(p)') /\ IsFiniteSet(WiresOf(p)')
      BY <3>1, <3>2
    <3>7. ProxySum(p)'
      BY <3>3, <3>4, <3>5, <3>6 DEF ProxySum
    <3> QED
      BY <2>3, <3>7
  <2> QED
    BY <2>2, <2>3
<1>10. /\ \A x : IsListed(x)' <=> IsListed(x)
       /\ \A x : IsShared(x)' <=> IsShared(x)
  BY DEF IsListed, IsShared
<1>11. Maps'
  <2>1. Maps
    BY DEF ShimInv
  <2>2. ASSUME NEW m \in Modules, NEW x \in Proxies \cup {Object}, NEW y \in Stubs, <<m, x, y>> \in holders
        PROVE  IF x = Object THEN m = Home /\ stubs'[y].live ELSE m # Home /\ proxies'[x].live /\ proxies'[x].shim = y
    <3>1. stubs[y].live => stubs'[y].live
      BY <1>2
    <3>2. x # p
      BY <1>u, <2>2
    <3>3. x # Object => proxies'[x] = proxies[x]
      BY <1>3, <3>2
    <3>4. IF x = Object THEN m = Home /\ stubs[y].live ELSE m # Home /\ proxies[x].live /\ proxies[x].shim = y
      BY <2>1, <2>2 DEF Maps
    <3> QED
      BY <3>1, <3>3, <3>4
  <2> QED
    BY <1>10, <2>1, <2>2 DEF Maps
<1>12. Pins'
  <2>1. Pins
    BY DEF ShimInv
  <2>2. ASSUME NEW x \in Stubs, Waits(todo', Op("release_pin", x)) > 0 PROVE stubs'[x].refs = 0
    <3>1. Waits(todo, Op("release_pin", x)) > 0
      BY <2>2 DEF Placed
    <3>2. stubs[x].refs = 0
      BY <2>1, <3>1 DEF Pins
    <3>3. x # s
      BY <1>r, <3>2
    <3> QED
      BY <1>2, <3>2, <3>3
  <2>3. ASSUME NEW x \in Stubs, stubs'[x].pins > 0 PROVE stubs'[x].refs <= 2
    <3>1. x # s
      BY <1>2, <2>3
    <3> QED
      BY <1>2, <2>1, <2>3, <3>1 DEF Pins
  <2>4. ASSUME NEW x \in Proxies, proxies'[x].pins > 0
        PROVE  proxies'[x].refs <= 1 /\ ~IsListed(proxies[x].shim)' /\ proxies'[x].shim = proxies[x].shim
             /\ ~IsShared(x)'
    <3>1. x # p
      BY <1>3, <2>4
    <3>2. proxies'[x] = proxies[x]
      BY <1>3, <3>1
    <3>3. ~IsListed(proxies[x].shim)'
      <4>1. ~IsListed(proxies[x].shim)
        BY <2>1, <2>4, <3>2 DEF Pins
      <4> QED
        BY <3>2, <4>1 DEF IsListed
    <3> QED
      BY <1>10, <2>1, <2>4, <3>2, <3>3 DEF Pins
  <2> QED
    BY <2>2, <2>3, <2>4 DEF Pins, IsListed
<1>13. ASSUME NEW u \in Threads, u # t PROVE Steady(u)
  <2>1. ASSUME NEW x \in Stubs, stubs[x].refs = 0 PROVE stubs'[x].refs = 0
    BY <1>2, <1>r, <2>1
  <2>2. ASSUME NEW m \in Modules, NEW x \in Proxies, proxies[x].refs = 0, Sought(Op("AddRef_listed", <<m, x>>))
        PROVE  proxies'[x].refs = 0
    BY <1>d, <1>3, <2>2
  <2>3. \A x \in Proxies : proxies[x].refs > 0 => proxies'[x].shim = proxies[x].shim /\ proxies'[x].live
    BY <1>3, <1>u, ProxyFacts
  <2>4. \A x \in Proxies : proxies[x].pins = 0 => proxies'[x].pins = 0
    BY <1>3
  <2>5. ASSUME NEW x \in Stubs, u \in ShimsAt(x), Private(x) PROVE Private(x)'
    <3>1. x # s
      <4>1. x = s => ShimsAt(s) = {t}
        BY <2>5, Alone DEF Private
      <4> QED
        BY <1>13, <2>5, <4>1
    <3> QED
      BY <1>2, <1>10, <2>5, <3>1 DEF Private
  <2>6. ASSUME NEW y \in Proxies, NEW x \in Stubs, todo[u] # <<>>, Head(todo[u]) = Op("Pin", y), proxies[y].shim = x
        PROVE  /\ stubs'[x].refs = 2 /\ stubs'[x].pins = 0 /\ ~IsListed(x)'
               /\ proxies'[y].refs = 1 /\ proxies'[y].pins = 0 /\ ~IsShared(y)'
    <3>1. /\ stubs[x].refs = 2 /\ stubs[x].pins = 0 /\ ~IsListed(x) /\ ShimsAt(x) = {u}
          /\ proxies[y].refs = 1 /\ proxies[y].pins = 0 /\ ~IsShared(y)
      BY <2>6, PinAhead
    <3>2. x # s /\ y # p
      BY <1>13, <1>u, <3>1
    <3> QED
      BY <1>2, <1>3, <1>10, <3>1, <3>2
  <2> QED
    BY <1>10, <2>1, <2>2, <2>3, <2>4, <2>5, <2>6 DEF Steady
<1>14. Kept'
  <2>1. ASSUME NEW u \in Threads, NEW q \in Proxies, Keeps(u, q)
        PROVE  /\ proxies'[q].shim = proxies[q].shim
               /\ \A x \in Proxies : x # q /\ proxies'[x].refs > 0 => proxies'[x].shim # proxies[q].shim
               /\ u # t => /\ shim'[t] # proxies[q].shim /\ Op("release", q) \notin A
                           /\ Op("release_stub", proxies[q].shim) \notin A
    <3>1. /\ proxies[q].pins > 0 /\ stubs[proxies[q].shim].pins > 0
          /\ \A x \in Proxies : x # q /\ proxies[x].refs > 0 => proxies[x].shim # proxies[q].shim
          /\ \A v \in Threads : v # u => shim[v] # proxies[q].shim
      BY <2>1, KeeperFacts
    <3>2. q # p /\ s # proxies[q].shim
      BY <1>u, <3>1
    <3>3. \A x \in Proxies : x # q /\ proxies'[x].refs > 0 => proxies'[x].shim # proxies[q].shim
      BY <1>3, <3>1, <3>2
    <3>4. Op("release", q) \notin A /\ Op("release_stub", proxies[q].shim) \notin A
      BY <3>2 DEF Placed
    <3> QED
      BY <1>3, <3>2, <3>3, <3>4
  <2>2. Undisturbed(t, A)
    BY <2>1 DEF Undisturbed
  <2>3. \A q : Op("Unpin_proxy", q) \notin A
    BY DEF Placed
  <2> QED
    BY <1>4, <2>2, <2>3, KeptStill
<1> QED
  BY <1>1, <1>2, <1>3, <1>r, <1>u, <1>7, <1>8, <1>9, <1>10, <1>11, <1>12, <1>13, <1>14

\* A proxy is made to hand the object over with.
LEMMA Binding ==
    ASSUME ShimInv, NEW t \in Threads, bind(t)
    PROVE  ShimInv'
<1>0. Now(t, "bind") /\ ~late
  BY DEF bind, Now
<1>c. Current(t, "bind")
  BY <1>0, NowIs
<1>p. PICK p \in Proxies : NewProxy(t, p) /\ Then(t, <<Op("add1", <<Arg(t), p>>)>>)
  BY DEF bind
<1> DEFINE a == Op("add1", <<Arg(t), p>>)
           r == Tail(todo[t])
<1>1. holders' = holders /\ shim' = shim /\ holds' = holds /\ wired' = wired /\ late' = late /\ calls' = calls
  BY DEF bind
<1>2. /\ Grows(r, todo[t], Op("bind", Arg(t)))
      /\ ShapeOf(todo[t], shim[t], holds[t], wired[t])
      /\ Place(todo[t], Len(todo[t])).op = "bind" /\ Len(todo[t]) \in 1..Len(todo[t])
      /\ LinkAt(t, Len(todo[t]))
      /\ Len(todo[t]) = 3 /\ Gives(todo[t], holds[t])
  <2>1. Len(todo[t]) \in 1..Len(todo[t])
    BY <1>c DEF Current
  <2>2. ShapeAt(todo[t], shim[t], holds[t], wired[t], Len(todo[t]))
    BY <1>0, <2>1, InCall
  <2> QED
    BY <1>0, <1>c, <2>1, <2>2, Goings, InCall DEF Current, ShapeAt
<1>3. (\A n \in Foremost : ~HasIn(todo[t], n)) /\ ~Shimless(todo[t])
  <2>1. Len(todo[t]) \in Nat \ {0} /\ Place(todo[t], Len(todo[t])).op \notin Foremost
    BY <1>c DEF Current, Foremost
  <2>2. \A n \in Foremost : ~HasIn(todo[t], n)
    BY <1>2, <2>1, NothingForemost
  <2> QED
    BY <2>2 DEF Shimless, Foremost
<1>s. PICK s \in Stubs : s = shim[t] /\ t \in ShimsAt(s) /\ IsListed(s)
  <2>1. shim[t] \in Stubs /\ t \in ShimsAt(shim[t])
    BY <1>0, <1>2, <1>3, InHand
  <2>2. ~Has(t, "add2")
    BY <1>3 DEF Has, Foremost
  <2>3. IsListed(shim[t])
    BY <1>2, <1>3, <2>2 DEF LinkAt
  <2> QED
    BY <2>1, <2>3
<1>4. stubs[s].pins = 0
  <2>1. IsFiniteSet(ShimsAt(s))
    BY <1>0 DEF ShimInv, Sums, StubSum
  <2>2. Cardinality(ShimsAt(s)) >= 1
    BY <1>s, <2>1, SizeIs
  <2>3. stubs[s].refs >= 1
    BY <1>0, <2>2, StubFacts
  <2> QED
    BY <1>0, <1>s, <2>3, ListedUnpinned
<1>o. a \in Ops /\ a.op = "add1" /\ a.arg[1] = Arg(t) /\ a.arg[2] = p
  <2>1. Arg(t) \in Modules
    BY <1>c DEF Current, ArgsOf
  <2>2. <<Arg(t), p>> \in ArgsOf("add1") /\ "add1" \in OpNames
    BY <2>1 DEF ArgsOf, OpNames
  <2> QED
    BY <2>2, OpsAre
<1> HIDE DEF a
<1>5. Goes1(t, "bind", a) /\ Grows(r, todo'[t], a) /\ Stepped(t, "bind") /\ Grown(t, {a}) /\ StillWaits
  <2>1. Then(t, <<a>>)
    BY <1>p DEF a
  <2>2. Goes1(t, "bind", a) /\ Grows(r, todo'[t], a)
    BY <1>0, <1>o, <2>1, ThenGoes, Goings
  <2> HIDE DEF r
  <2>3. Stepped(t, "bind") /\ Grown(t, {a})
    BY <2>2, PlacesAre DEF Goes1
  <2>4. StillWaits
    BY <1>o, <2>2, StillWaiting DEF Counting, Releasing
  <2> QED
    BY <2>2, <2>3, <2>4
<1>6. RestOf(r, holds[t], wired[t])
  BY <1>2, TailRest
<1> HIDE DEF r
<1>7. todo' \in Lists /\ Counted(todo') /\ OthersSame(t)
  BY <1>1, <1>5, OthersStay DEF OthersSame
<1>8. /\ Len(r) = 2 /\ Place(r, 2).op = "release_shim" /\ Place(r, 1) = Op("release", Hold(t)) /\ Hold(t) # Nothing
      /\ Len(todo'[t]) = 3 /\ Place(todo'[t], 3) = a /\ Gives(todo'[t], holds[t])
      /\ \A j \in 1..Len(todo'[t]) : Place(todo'[t], j) = a \/ Place(todo'[t], j).op \in {"release_shim", "release"}
  <2>1. Len(r) \in Nat /\ Len(r) + 1 = 3
    BY <1>2 DEF Grows
  <2>2. Len(r) = 2
    <3>1. \A m \in Nat : m + 1 = 3 => m = 2
      OBVIOUS
    <3> QED
      BY <2>1, <3>1
  <2>3. 1 \in 1..Len(r) /\ 2 \in 1..Len(r) /\ \A j \in 1..3 : j = 3 \/ j = 2 \/ j = 1
    BY <2>2
  <2>4. Place(r, 2) = Place(todo[t], 2) /\ Place(r, 1) = Place(todo[t], 1)
    BY <1>2, <2>3 DEF Grows
  <2>5. /\ Len(todo'[t]) = 3 /\ Place(todo'[t], 3) = a
        /\ Place(todo'[t], 2) = Place(todo[t], 2) /\ Place(todo'[t], 1) = Place(todo[t], 1)
    BY <1>5, <2>2, <2>3, <2>4 DEF Grows
  <2>6. Place(todo[t], 2).op = "release_shim" /\ Place(todo[t], 1) = Op("release", Hold(t)) /\ Hold(t) # Nothing
    BY <1>2 DEF Gives, Hold
  <2>7. Place(todo[t], 1).op = "release"
    BY <2>6, OpsAre
  <2> QED
    BY <2>2, <2>3, <2>4, <2>5, <2>6, <2>7 DEF Gives, Hold
<1>9. /\ \A n : HasIn(todo'[t], n) <=> n = "add1" \/ HasIn(r, n)
      /\ \A n : HasIn(todo[t], n) <=> n = "bind" \/ HasIn(r, n)
      /\ \A n : HasIn(r, n) => n \in {"release_shim", "release"}
      /\ HasIn(r, "release_shim")
  <2>1. \A n : HasIn(todo'[t], n) <=> n = "add1" \/ HasIn(r, n)
    BY <1>5, <1>o, GrowsHas
  <2>2. \A n : HasIn(todo[t], n) <=> n = "bind" \/ HasIn(r, n)
    BY <1>2, GrowsHas, OpsAre
  <2>3. \A j \in 1..Len(r) : Place(r, j).op \in {"release_shim", "release"}
    <3>1. \A j \in 1..Len(r) : j = 1 \/ j = 2
      BY <1>8
    <3> QED
      BY <1>8, <3>1, OpsAre
  <2>4. HasIn(r, "release_shim")
    <3>1. 2 \in 1..Len(r)
      BY <1>8
    <3> QED
      BY <1>8, <3>1 DEF HasIn
  <2>5. \A n : HasIn(r, n) => n \in {"release_shim", "release"}
    BY <2>3 DEF HasIn
  <2> QED
    BY <2>1, <2>2, <2>4, <2>5
<1>10. Placed(t, p, {a})
  <2>1. Handing(t) /\ Handing(t)'
    BY <1>9 DEF Handing, Has
  <2>2. \A x \in Proxies \cup {Object} : t \in HandsOf(x)' <=> t \in HandsOf(x)
    BY <2>1 DEF HandsOf
  <2>3. t \in AddsOf(p)' /\ \A x \in Proxies : x # p => t \notin AddsOf(x)'
    BY <1>8, <1>o DEF AddsOf, Adding
  <2>4. \A x \in Proxies : t \notin AddsOf(x)
    BY <1>2 DEF AddsOf, Adding
  <2>5. \A x \in Proxies : t \in WiresOf(x)' <=> t \in WiresOf(x)
    BY <1>1 DEF WiresOf
  <2>6. \A x \in Stubs : t \in ShimsAt(x)' <=> t \in ShimsAt(x)
    <3>1. ~Has(t, "AddRef_found")' /\ ~Has(t, "AddRef_found")
      BY <1>9 DEF Has
    <3> QED
      BY <1>1, <3>1 DEF ShimsAt
  <2>7. \A q : Op("Unpin_proxy", q) \notin {a} /\ Op("release_stub", q) \notin {a} /\ Op("release", q) \notin {a}
    BY OpsAre DEF a
  <2>8. /\ \A x \in Proxies \cup {Object} : x # p => Waits(todo', Op("release", x)) = Waits(todo, Op("release", x))
        /\ \A x \in Stubs : /\ Waits(todo', Op("release_stub", x)) = Waits(todo, Op("release_stub", x))
                            /\ Waits(todo', Op("release_pin", x)) = Waits(todo, Op("release_pin", x))
                            /\ Waits(todo', Op("Destruct_stub", x)) = Waits(todo, Op("Destruct_stub", x))
        /\ \A x \in Proxies : /\ Waits(todo', Op("Internal_Release", x)) = Waits(todo, Op("Internal_Release", x))
                              /\ Waits(todo', Op("Unpin_proxy", x)) = Waits(todo, Op("Unpin_proxy", x))
                              /\ Waits(todo', Op("Destruct_proxy", x)) = Waits(todo, Op("Destruct_proxy", x))
    BY <1>5, StillWaitsFor
  <2>9. One(t \in AddsOf(p)') + Waits(todo', Op("release", p)) = 1 /\ Waits(todo', Op("release", p)) \in Nat
    <3>1. Waits(todo, Op("release", p)) = 0
      BY <1>0, <1>p, Unused DEF NewProxy
    <3>2. Waits(todo', Op("release", p)) = 0
      BY <1>5, <3>1, StillWaitsFor
    <3> QED
      BY <2>3, <3>2 DEF One
  <2> QED
    BY <1>5, <1>7, <2>2, <2>3, <2>4, <2>5, <2>6, <2>7, <2>8, <2>9 DEF Placed
<1>11. /\ object' = object /\ stubs' \in [Stubs -> StubKind] /\ proxies' \in [Proxies -> ProxyKind]
       /\ proxies'[p] = MadeOf(s) /\ (\A x \in Proxies : x # p => proxies'[x] = proxies[x])
       /\ (\A u \in Threads : Hold(u) # p)
       /\ ObjectSum' /\ (\A x \in Stubs : StubSum(x)') /\ (\A x \in Proxies : ProxySum(x)')
       /\ Maps' /\ Pins' /\ (\A u \in Threads : u # t => Steady(u)) /\ Kept'
  <2>1. UNCHANGED <<holders, shim, holds, wired>>
    BY <1>1
  <2>2. shim[t] = s /\ t \in ShimsAt(s) /\ NewProxy(t, p)
    BY <1>s, <1>p
  <2> HIDE DEF r
  <2> QED
    BY <1>0, <1>4, <1>10, <2>1, <2>2, ProxyMade
<1>12. ShapeOf(todo[t], shim[t], holds[t], wired[t])'
  <2>1. ShapeAt(todo'[t], s, holds[t], wired[t], Len(todo'[t]))
    BY <1>8, <1>o DEF ShapeAt, Foremost
  <2>2. ~HasIn(r, "new_proxy") /\ HasIn(todo'[t], "release_shim") /\ a.op \notin {"find", "new_stub"}
    BY <1>9, <1>o
  <2>3. ShapeOf(todo'[t], s, holds[t], wired[t])
    BY <1>5, <1>6, <2>1, <2>2, PushRest
  <2> QED
    BY <1>1, <1>s, <2>3
<1>13. Linked(t)'
  <2>1. Linked(t)
    BY <1>0 DEF ShimInv, Links
  <2>2. proxies'[p].shim = s /\ proxies'[p].pins = 0 /\ proxies'[p].live
    BY <1>11, MadeIs
  <2>3. IsListed(proxies[p].shim)'
    BY <1>1, <1>s, <2>2 DEF IsListed
  <2>4. ASSUME NEW j \in 1..Len(todo'[t]) PROVE LinkAt(t, j)'
    <3>1. CASE Place(todo'[t], j) = a
      BY <1>o, <2>2, <2>3, <3>1 DEF LinkAt
    <3>2. CASE Place(todo'[t], j).op \in {"release_shim", "release"}
      BY <3>2 DEF LinkAt
    <3> QED
      BY <1>8, <3>1, <3>2
  <2>5. Hold(t)' = Hold(t) /\ holds'[t] = holds[t]
    BY <1>1 DEF Hold
  <2>6. ASSUME Hold(t) \in Proxies
        PROVE  <<holds[t][1], Hold(t), proxies'[Hold(t)].shim>> \in holders'
             /\ <<Home, Object, proxies'[Hold(t)].shim>> \in holders'
    <3>1. proxies'[Hold(t)] = proxies[Hold(t)]
      BY <1>11, <2>6
    <3> QED
      BY <1>1, <2>1, <2>6, <3>1 DEF Linked, IsListed
  <2>7. Hold(t) = Object => holds[t][1] = Home
    BY <2>1 DEF Linked
  <2> QED
    BY <2>4, <2>5, <2>6, <2>7 DEF Linked, IsListed
<1>14. ShimTypes'
  <2>1. object' \in Int /\ calls' \in 0..MaxCalls
    BY <1>1, <1>11 DEF ShimInv, ShimTypes
  <2> QED
    BY <1>1, <1>7, <1>11, <2>1 DEF ShimInv, ShimTypes
<1> QED
  BY <1>0, <1>1, <1>7, <1>11, <1>12, <1>13, <1>14, CallStep

\* The proxy of a controller: its stub is in no map, and in one thread's hands.
LEMMA NewProxies ==
    ASSUME ShimInv, NEW t \in Threads, new_proxy(t)
    PROVE  ShimInv'
<1>0. Now(t, "new_proxy") /\ ~late
  BY DEF new_proxy, Now
<1>c. Current(t, "new_proxy")
  BY <1>0, NowIs
<1>p. PICK p \in Proxies : NewProxy(t, p) /\ Then(t, <<Op("Pin", p), Op("release", p)>>)
  BY DEF new_proxy
<1> DEFINE a == Op("Pin", p)
           b == Op("release", p)
           r == Tail(todo[t])
           r1 == <<b>> \o r
<1>1. holders' = holders /\ shim' = shim /\ holds' = holds /\ wired' = wired /\ late' = late /\ calls' = calls
  BY DEF new_proxy
<1>2. /\ Grows(r, todo[t], Op("new_proxy", Arg(t)))
      /\ ShapeOf(todo[t], shim[t], holds[t], wired[t])
      /\ Place(todo[t], Len(todo[t])).op = "new_proxy" /\ Len(todo[t]) \in 1..Len(todo[t])
      /\ LinkAt(t, Len(todo[t]))
      /\ Len(todo[t]) = 2 /\ Place(todo[t], 1).op = "release_shim" /\ wired[t] = Nothing
  <2>1. Len(todo[t]) \in 1..Len(todo[t])
    BY <1>c DEF Current
  <2>2. ShapeAt(todo[t], shim[t], holds[t], wired[t], Len(todo[t]))
    BY <1>0, <2>1, InCall
  <2> QED
    BY <1>0, <1>c, <2>1, <2>2, Goings, InCall DEF Current, ShapeAt
<1>o. /\ a \in Ops /\ a.op = "Pin" /\ a.arg = p
      /\ b \in Ops /\ b.op = "release" /\ b.arg = p
  BY OpsAre, OpsOf
<1>5. Goes2(t, "new_proxy", a, b) /\ Grows(r, r1, b) /\ Grows(r1, todo'[t], a)
  <2>1. Then(t, <<a, b>>)
    BY <1>p
  <2> HIDE DEF a, b
  <2> QED
    BY <1>0, <1>o, <2>1, ThenGoes, Goings
<1>6. /\ Stepped(t, "new_proxy") /\ Grown(t, {a, b})
      /\ \E v : Moves("new_proxy", v, "Pin", p, "release", p)
  <2>1. Goes2(t, "new_proxy", Op("Pin", p), Op("release", p))
    BY <1>5
  <2>2. Moves("new_proxy", Arg(t), "Pin", p, "release", p)
    BY <2>1, MovesBy
  <2>3. Stepped(t, "new_proxy") /\ Grown(t, {a, b})
    <3> HIDE DEF a, b
    <3> QED
      BY <1>5, PlacesAre DEF Goes2
  <2> QED
    BY <2>2, <2>3
<1>7. RestOf(r, holds[t], wired[t])
  BY <1>2, TailRest
<1> HIDE DEF a, b, r, r1
<1>8. todo' \in Lists /\ Counted(todo') /\ OthersSame(t)
  BY <1>1, <1>6, OthersStay DEF OthersSame
<1>9. /\ \A y \in Proxies \cup {Object} : /\ Waits(todo', Op("release", y)) = Waits(todo, Op("release", y))
                                               + One(y = p)
                                          /\ Waits(todo, Op("release", y)) \in Nat
      /\ \A y \in Stubs : /\ Waits(todo', Op("release_stub", y)) = Waits(todo, Op("release_stub", y))
                          /\ Waits(todo', Op("release_pin", y)) = Waits(todo, Op("release_pin", y))
                          /\ Waits(todo', Op("Destruct_stub", y)) = Waits(todo, Op("Destruct_stub", y))
      /\ \A y \in Proxies : /\ Waits(todo', Op("Internal_Release", y)) = Waits(todo, Op("Internal_Release", y))
                            /\ Waits(todo', Op("Unpin_proxy", y)) = Waits(todo, Op("Unpin_proxy", y))
                            /\ Waits(todo', Op("Destruct_proxy", y)) = Waits(todo, Op("Destruct_proxy", y))
  BY <1>6 DEF Moves, WaitsMore, One
<1>10. /\ Len(r) = 1 /\ Place(r, 1).op = "release_shim" /\ Len(r1) = 2
       /\ Len(todo'[t]) = 3 /\ Place(todo'[t], 3) = a /\ Place(todo'[t], 2) = b
            /\ Place(todo'[t], 1).op = "release_shim"
       /\ \A j \in 1..Len(todo'[t]) : Place(todo'[t], j) = a \/ Place(todo'[t], j).op \in {"release_shim", "release"}
  <2>1. Len(r) \in Nat /\ Len(r) + 1 = 2
    BY <1>2 DEF Grows
  <2>2. Len(r) = 1
    <3>1. \A m \in Nat : m + 1 = 2 => m = 1
      OBVIOUS
    <3> QED
      BY <2>1, <3>1
  <2>3. 1 \in 1..Len(r) /\ Place(r, 1) = Place(todo[t], 1)
    BY <1>2, <2>2 DEF Grows
  <2>4. Len(r1) = 2 /\ Place(r1, 2) = b /\ Place(r1, 1) = Place(r, 1)
    BY <1>5, <2>2, <2>3 DEF Grows
  <2>5. 1 \in 1..Len(r1) /\ 2 \in 1..Len(r1)
    BY <2>4
  <2>6. Len(todo'[t]) = 3 /\ Place(todo'[t], 3) = a /\ Place(todo'[t], 2) = Place(r1, 2)
             /\ Place(todo'[t], 1) = Place(r1, 1)
    BY <1>5, <2>4, <2>5 DEF Grows
  <2>7. \A j \in 1..3 : j = 3 \/ j = 2 \/ j = 1
    OBVIOUS
  <2> QED
    BY <1>2, <1>o, <2>2, <2>3, <2>4, <2>6, <2>7
<1>11. /\ \A n : HasIn(todo'[t], n) <=> n \in {"Pin", "release", "release_shim"}
       /\ \A n : HasIn(todo[t], n) <=> n \in {"new_proxy", "release_shim"}
       /\ \A n : HasIn(r, n) <=> n = "release_shim"
       /\ \A n : HasIn(r1, n) <=> n \in {"release", "release_shim"}
  <2>1. \A n : HasIn(r, n) <=> n = "release_shim"
    <3>1. 1 \in 1..Len(r) /\ \A j \in 1..Len(r) : j = 1
      BY <1>10
    <3> QED
      BY <1>10, <3>1 DEF HasIn
  <2>2. \A n : HasIn(todo[t], n) <=> n = "new_proxy" \/ HasIn(r, n)
    BY <1>2, GrowsHas, OpsAre
  <2>3. \A n : HasIn(r1, n) <=> n = "release" \/ HasIn(r, n)
    BY <1>5, <1>o, GrowsHas
  <2>4. \A n : HasIn(todo'[t], n) <=> n = "Pin" \/ HasIn(r1, n)
    BY <1>5, <1>o, GrowsHas
  <2> QED
    BY <2>1, <2>2, <2>3, <2>4
<1>s. PICK s \in Stubs : s = shim[t] /\ t \in ShimsAt(s) /\ Private(s)
  <2>1. ~Has(t, "new_stub")
    BY <1>11 DEF Has
  <2>2. shim[t] \in Stubs /\ t \in ShimsAt(shim[t])
    BY <1>0, <1>2, <2>1, InHand
  <2>3. Private(shim[t])
    BY <1>2, <2>1 DEF LinkAt
  <2> QED
    BY <2>2, <2>3
<1>12. Placed(t, p, {a, b})
  <2>1. ~Handing(t) /\ ~Handing(t)'
    BY <1>11 DEF Handing, Has
  <2>2. \A x \in Proxies \cup {Object} : t \in HandsOf(x)' <=> t \in HandsOf(x)
    BY <1>1, <2>1 DEF HandsOf, Hold
  <2>3. \A x \in Proxies : t \notin AddsOf(x)'
    BY <1>10, <1>o DEF AddsOf, Adding
  <2>4. \A x \in Proxies : t \notin AddsOf(x)
    BY <1>2 DEF AddsOf, Adding
  <2>5. \A x \in Proxies : t \in WiresOf(x)' <=> t \in WiresOf(x)
    BY <1>1 DEF WiresOf
  <2>6. \A x \in Stubs : t \in ShimsAt(x)' <=> t \in ShimsAt(x)
    <3>1. ~Has(t, "AddRef_found")' /\ ~Has(t, "AddRef_found")
      BY <1>11 DEF Has
    <3> QED
      BY <1>1, <3>1 DEF ShimsAt
  <2>7. \A q : Op("Unpin_proxy", q) \notin {a, b} /\ Op("release_stub", q) \notin {a, b}
             /\ (Op("release", q) \in {a, b} => q = p)
    BY OpsAre DEF a, b
  <2>8. \A x \in Proxies \cup {Object} : x # p => Waits(todo', Op("release", x)) = Waits(todo, Op("release", x))
    <3>1. ASSUME NEW x \in Proxies \cup {Object}, x # p
          PROVE Waits(todo', Op("release", x)) = Waits(todo, Op("release", x))
      <4>1. One(x = p) = 0
        BY <3>1 DEF One
      <4> QED
        BY <1>9, <4>1
    <3> QED
      BY <3>1
  <2>9. One(t \in AddsOf(p)') + Waits(todo', Op("release", p)) = 1 /\ Waits(todo', Op("release", p)) \in Nat
    <3>1. Waits(todo, Op("release", p)) = 0
      BY <1>0, <1>p, Unused DEF NewProxy
    <3>2. One(p = p) = 1 /\ One(t \in AddsOf(p)') = 0
      BY <2>3 DEF One
    <3>3. Waits(todo', Op("release", p)) = 1
      BY <1>9, <3>1, <3>2
    <3> QED
      BY <3>2, <3>3
  <2> QED
    BY <1>6, <1>8, <1>9, <2>2, <2>3, <2>4, <2>5, <2>6, <2>7, <2>8, <2>9 DEF Placed
<1>13. /\ object' = object /\ stubs' \in [Stubs -> StubKind] /\ proxies' \in [Proxies -> ProxyKind]
       /\ stubs[s].refs \in Nat /\ stubs'[s].refs = stubs[s].refs + 1 /\ stubs'[s].pins = 0
       /\ proxies'[p] = MadeOf(s) /\ ~IsShared(p)' /\ (\A x \in Proxies : x # p => proxies'[x] = proxies[x])
       /\ (\A u \in Threads : Hold(u) # p)
       /\ ObjectSum' /\ (\A x \in Stubs : StubSum(x)') /\ (\A x \in Proxies : ProxySum(x)')
       /\ Maps' /\ Pins' /\ (\A u \in Threads : u # t => Steady(u)) /\ Kept'
  <2>1. UNCHANGED <<holders, shim, holds, wired>>
    BY <1>1
  <2>2. shim[t] = s /\ t \in ShimsAt(s) /\ NewProxy(t, p) /\ stubs[s].pins = 0
    BY <1>s, <1>p DEF Private
  <2> QED
    BY <1>0, <1>12, <2>1, <2>2, ProxyMade
<1>14. ShapeOf(todo[t], shim[t], holds[t], wired[t])'
  <2>1. RestOf(r1, holds[t], wired[t])
    <3>1. RestAt(r1, holds[t], wired[t], Len(r1))
      <4>1. Place(r1, Len(r1)) = b
        BY <1>5, <1>10 DEF Grows
      <4> QED
        BY <1>o, <4>1 DEF RestAt, Foremost
    <3>2. ~HasIn(r, "new_proxy")
      BY <1>11
    <3> QED
      BY <1>5, <1>7, <3>1, <3>2, RestOnRest
  <2>2. ShapeAt(todo'[t], s, holds[t], wired[t], Len(todo'[t]))
    BY <1>2, <1>10, <1>o DEF ShapeAt, Foremost, b
  <2>3. ~HasIn(r1, "new_proxy") /\ HasIn(todo'[t], "release_shim") /\ a.op \notin {"find", "new_stub"}
    BY <1>11, <1>o
  <2>4. ShapeOf(todo'[t], s, holds[t], wired[t])
    BY <1>5, <2>1, <2>2, <2>3, PushRest
  <2> QED
    BY <1>1, <1>s, <2>4
<1>15. Linked(t)'
  <2>1. Linked(t)
    BY <1>0 DEF ShimInv, Links
  <2>2. proxies'[p].shim = s /\ proxies'[p].pins = 0 /\ proxies'[p].refs = 1 /\ shim'[t] = s
    BY <1>1, <1>s, <1>13, MadeIs
  <2>3. stubs'[s].refs = 2 /\ stubs'[s].pins = 0 /\ ~IsListed(s)'
    BY <1>1, <1>s, <1>13 DEF Private, IsListed
  <2>4. ASSUME NEW j \in 1..Len(todo'[t]) PROVE LinkAt(t, j)'
    <3>1. CASE Place(todo'[t], j) = a
      BY <1>o, <1>13, <2>2, <2>3, <3>1 DEF LinkAt, IsListed
    <3>2. CASE Place(todo'[t], j).op \in {"release_shim", "release"}
      BY <3>2 DEF LinkAt
    <3> QED
      BY <1>10, <3>1, <3>2
  <2>5. Hold(t)' = Hold(t) /\ holds'[t] = holds[t]
    BY <1>1 DEF Hold
  <2>6. ASSUME Hold(t) \in Proxies
        PROVE  <<holds[t][1], Hold(t), proxies'[Hold(t)].shim>> \in holders'
             /\ <<Home, Object, proxies'[Hold(t)].shim>> \in holders'
    <3>1. proxies'[Hold(t)] = proxies[Hold(t)]
      BY <1>13, <2>6
    <3> QED
      BY <1>1, <2>1, <2>6, <3>1 DEF Linked, IsListed
  <2>7. Hold(t) = Object => holds[t][1] = Home
    BY <2>1 DEF Linked
  <2> QED
    BY <2>4, <2>5, <2>6, <2>7 DEF Linked, IsListed
<1>16. ShimTypes'
  <2>1. object' \in Int /\ calls' \in 0..MaxCalls
    BY <1>1, <1>13 DEF ShimInv, ShimTypes
  <2> QED
    BY <1>1, <1>8, <1>13, <2>1 DEF ShimInv, ShimTypes
<1> QED
  BY <1>0, <1>1, <1>8, <1>13, <1>14, <1>15, <1>16, CallStep

\* The first pin: from here on the thread's wire stub keeps the shim, and it alone.
LEMMA PinOwns ==
    ASSUME ShimInv, ~late, NEW t \in Threads, NEW p, todo[t] # <<>>, Head(todo[t]) = Op("Pin", p)
    PROVE  Owns(t, p)
<1> DEFINE s == proxies[p].shim
<1>1. /\ p \in Proxies /\ Len(todo[t]) = 3 /\ Place(todo[t], 2) = Op("release", p) /\ s \in Stubs
      /\ ShimsAt(s) = {t} /\ ProxiesFor(s) = {p} /\ Waits(todo, Op("release_stub", s)) = 0
      /\ Waits(todo, Op("release", p)) = 1
  BY PinAhead
<1> HIDE DEF s
<1>2. Counted(todo) /\ Op("release_stub", s) \in Ops /\ Op("release", p) \in Ops
  BY <1>1, OpsOf DEF ShimInv, Sums
<1>3. ASSUME NEW u \in Threads, u # t, NEW j \in 1..Len(todo[u]) PROVE Place(todo[u], j) # Op("release_stub", s)
  <2>1. Place(todo[u], j) = Op("release_stub", s) => 1 <= Waits(todo, Op("release_stub", s))
    BY <1>2, WaitsFor
  <2> QED
    BY <1>1, <2>1
<1>4. ASSUME NEW u \in Threads, u # t, NEW j \in 1..Len(todo[u]) PROVE Place(todo[u], j) # Op("release", p)
  <2>1. 2 \in 1..Len(todo[t])
    BY <1>1
  <2>2. ASSUME Place(todo[u], j) = Op("release", p) PROVE FALSE
    <3>1. PICK o \in Ops : o = Op("release", p)
      BY <1>2
    <3>2. Place(todo[t], 2) = o /\ Place(todo[u], j) = o /\ (t # u \/ j # 2)
      BY <1>1, <1>4, <2>2, <3>1
    <3>3. Waits(todo, o) \in Nat /\ Waits(todo, o) >= 2
      BY <1>2, <2>1, <3>2, TwoWait
    <3> QED
      BY <1>1, <3>1, <3>3
  <2> QED
    BY <2>2
<1>5. ASSUME NEW u \in Threads, u # t PROVE shim[u] # s
  <2>1. CASE Has(u, "AddRef_found")
    <3>1. PICK j \in 1..Len(todo[u]) : Place(todo[u], j).op = "AddRef_found"
      BY <2>1 DEF Has, HasIn
    <3>2. ShapeAt(todo[u], shim[u], holds[u], wired[u], j) /\ Len(todo[u]) \in Nat
      BY InCall
    <3>3. shim[u] = 0 \/ (Len(todo[u]) = 5 /\ Place(todo[u], 4) = Op("release_stub", shim[u]))
      BY <3>1, <3>2 DEF ShapeAt
    <3>4. 0 \notin Stubs
      BY DEF ShimInv, ShimAssumption
    <3>5. Len(todo[u]) = 5 => 4 \in 1..Len(todo[u])
      OBVIOUS
    <3> QED
      BY <1>1, <1>3, <1>5, <3>3, <3>4, <3>5
  <2>2. CASE ~Has(u, "AddRef_found")
    BY <1>1, <1>5, <2>2 DEF ShimsAt
  <2> QED
    BY <2>1, <2>2
<1> QED
  BY <1>1, <1>3, <1>4, <1>5 DEF Owns, s

\* A wire stub pins its proxy, and the stub of it.
LEMMA Pinned ==
    ASSUME ShimInv, NEW t \in Threads, Pin(t)
    PROVE  ShimInv'
<1>0. Now(t, "Pin") /\ ~late
  BY DEF Pin, Now
<1>c. Current(t, "Pin")
  BY <1>0, NowIs
<1>p. PICK p \in Proxies : p = Arg(t)
  BY <1>c DEF Current, ArgsOf
<1>h. todo[t] # <<>> /\ Head(todo[t]) = Op("Pin", p)
  BY <1>p, <1>c DEF Current
<1>2. /\ Len(todo[t]) = 3
      /\ Place(todo[t], 2) = Op("release", p) /\ Place(todo[t], 1).op = "release_shim"
      /\ wired[t] = Nothing /\ shim[t] = proxies[p].shim /\ proxies[p].shim \in Stubs
      /\ proxies[p].refs = 1 /\ proxies[p].pins = 0 /\ ~IsShared(p)
      /\ HandsOf(p) = {} /\ AddsOf(p) = {} /\ Waits(todo, Op("release", p)) = 1
  BY <1>0, <1>h, PinAhead
<1>s. PICK s \in Stubs : s = proxies[p].shim
  BY <1>2
<1>3. /\ stubs[s].refs = 2 /\ stubs[s].pins = 0 /\ ~IsListed(s)
      /\ ShimsAt(s) = {t} /\ ProxiesFor(s) = {p} /\ Waits(todo, Op("release_stub", s)) = 0 /\ shim[t] = s
  BY <1>0, <1>h, <1>s, PinAhead
<1> DEFINE r == Tail(todo[t])
<1>1. /\ holders' = holders /\ shim' = shim /\ holds' = holds /\ late' = late /\ calls' = calls
      /\ object' = object + 1 /\ Then(t, <<>>) /\ wired' = [wired EXCEPT ![t] = p]
      /\ proxies' = PutPins(proxies, p, 1) /\ stubs' = PutPins(stubs, s, 1)
  <2>1. /\ holders' = holders /\ shim' = shim /\ holds' = holds /\ late' = late /\ calls' = calls
        /\ object' = object + 1 /\ Then(t, <<>>) /\ wired' = [wired EXCEPT ![t] = p]
    BY <1>p, <1>s, <1>2, <1>3 DEF Pin
  <2>2. proxies' = PutPins(proxies, p, proxies[p].pins + 1) /\ stubs' = PutPins(stubs, s, stubs[s].pins + 1)
    BY <1>p, <1>s, <1>2 DEF Pin, PutPins
  <2>3. proxies[p].pins + 1 = 1 /\ stubs[s].pins + 1 = 1
    BY <1>2, <1>3
  <2> QED
    BY <2>1, <2>2, <2>3
<1>k. stubs \in [Stubs -> StubKind] /\ proxies \in [Proxies -> ProxyKind]
  BY KindsAre
<1>4. /\ stubs' \in [Stubs -> StubKind] /\ stubs'[s].refs = 2 /\ stubs'[s].pins = 1 /\ stubs'[s].live = stubs[s].live
      /\ \A x \in Stubs : x # s => stubs'[x] = stubs[x]
  BY <1>1, <1>3, <1>k, StubPuts
<1>5. /\ proxies' \in [Proxies -> ProxyKind] /\ proxies'[p].refs = 1 /\ proxies'[p].pins = 1
      /\ proxies'[p].ints = proxies[p].ints /\ proxies'[p].live = proxies[p].live /\ proxies'[p].shim = s
      /\ \A x \in Proxies : x # p => proxies'[x] = proxies[x]
  BY <1>1, <1>2, <1>s, <1>k, ProxyPuts
<1>l. stubs[s].live /\ proxies[p].live
  BY <1>0, <1>2, <1>3, StubFacts, ProxyFacts
<1>6. Goes0(t, "Pin") /\ todo'[t] = r /\ Stepped(t, "Pin") /\ Grows(r, todo[t], Op("Pin", p))
  BY <1>0, <1>1, <1>p, ThenGoes, Goings DEF Goes0
<1>7. StillWaits /\ Grown(t, {})
  BY <1>6, StillWaiting, PlacesAre DEF Counting, Releasing
<1>8. RestOf(r, holds[t], wired[t])
  <2>1. ShapeOf(todo[t], shim[t], holds[t], wired[t])
    BY <1>0, InCall
  <2> QED
    BY <1>6, <2>1, TailRest
<1> HIDE DEF r
<1>w. wired' \in [Threads -> Proxies \cup {Nothing}] /\ wired'[t] = p /\ \A u \in Threads : u # t
           => wired'[u] = wired[u]
  BY <1>1 DEF ShimInv, ShimTypes
<1>9. todo' \in Lists /\ Counted(todo') /\ OthersSame(t)
  BY <1>1, <1>6, <1>w, OthersStay DEF OthersSame
<1>10. /\ Len(r) = 2 /\ Place(r, 1).op = "release_shim" /\ Place(r, 2).op = "release"
       /\ \A j \in 1..Len(r) : Place(r, j).op \in {"release_shim", "release"}
  <2>1. Len(r) \in Nat /\ Len(r) + 1 = 3
    BY <1>2, <1>6 DEF Grows
  <2>2. Len(r) = 2
    <3>1. \A m \in Nat : m + 1 = 3 => m = 2
      OBVIOUS
    <3> QED
      BY <2>1, <3>1
  <2>3. 1 \in 1..Len(r) /\ 2 \in 1..Len(r) /\ \A j \in 1..Len(r) : j = 2 \/ j = 1
    BY <2>2
  <2>4. Place(r, 2) = Place(todo[t], 2) /\ Place(r, 1) = Place(todo[t], 1)
    BY <1>6, <2>3 DEF Grows
  <2>5. Place(todo[t], 2).op = "release"
    BY <1>2, OpsAre
  <2> QED
    BY <1>2, <2>2, <2>3, <2>4, <2>5
<1>11. /\ \A n : HasIn(r, n) <=> n \in {"release", "release_shim"}
       /\ \A n : HasIn(todo[t], n) <=> n \in {"Pin", "release", "release_shim"}
  <2>1. \A n : HasIn(r, n) <=> n \in {"release", "release_shim"}
    <3>1. 1 \in 1..Len(r) /\ 2 \in 1..Len(r)
      BY <1>10
    <3> QED
      BY <1>10, <3>1 DEF HasIn
  <2>2. \A n : HasIn(todo[t], n) <=> n = "Pin" \/ HasIn(r, n)
    BY <1>6, GrowsHas, OpsAre
  <2> QED
    BY <2>1, <2>2
<1>12. /\ \A x \in Proxies \cup {Object} : HandsOf(x)' = HandsOf(x)
       /\ \A x \in Proxies : AddsOf(x)' = AddsOf(x) /\ (x # p => WiresOf(x)' = WiresOf(x))
       /\ \A x \in Stubs : ShimsAt(x)' = ShimsAt(x)
       /\ IsFiniteSet(WiresOf(p)') /\ Cardinality(WiresOf(p)) \in Nat
       /\ Cardinality(WiresOf(p)') = Cardinality(WiresOf(p)) + 1
  <2>1. ~Handing(t) /\ ~Handing(t)'
    BY <1>6, <1>11 DEF Handing, Has
  <2>2. \A x \in Proxies \cup {Object} : t \in HandsOf(x)' <=> t \in HandsOf(x)
    BY <1>1, <2>1 DEF HandsOf, Hold
  <2>3. \A x \in Proxies : t \notin AddsOf(x)' /\ t \notin AddsOf(x)
    <3>1. Place(todo[t], 3).op = "Pin" /\ Len(todo'[t]) # 3
      BY <1>c, <1>2, <1>6, <1>10 DEF Current
    <3> QED
      BY <3>1 DEF AddsOf, Adding
  <2>4. \A x \in Proxies : (t \in WiresOf(x)' <=> x = p) /\ t \notin WiresOf(x)
    <3>1. Nothing \notin Proxies
      BY DEF ShimInv, ShimAssumption, Nothing
    <3> QED
      BY <1>2, <1>w, <3>1 DEF WiresOf
  <2>5. \A x \in Stubs : t \in ShimsAt(x)' <=> t \in ShimsAt(x)
    <3>1. ~Has(t, "AddRef_found")' /\ ~Has(t, "AddRef_found")
      BY <1>6, <1>11 DEF Has
    <3> QED
      BY <1>1, <3>1 DEF ShimsAt
  <2>6. /\ \A x \in Proxies \cup {Object} : Changed(HandsOf(x), HandsOf(x)', t)
        /\ \A x \in Proxies : Changed(AddsOf(x), AddsOf(x)', t) /\ Changed(WiresOf(x), WiresOf(x)', t)
        /\ \A x \in Stubs : Changed(ShimsAt(x), ShimsAt(x)', t)
    BY <1>0, <1>9, SizesMove
  <2>7. /\ IsFiniteSet(WiresOf(p)') /\ Cardinality(WiresOf(p)) \in Nat
        /\ Cardinality(WiresOf(p)') = Cardinality(WiresOf(p)) - 0 + 1
    <3>1. One(t \in WiresOf(p)) = 0 /\ One(t \in WiresOf(p)') = 1
      BY <2>4 DEF One
    <3> QED
      BY <2>6, <3>1 DEF Changed
  <2>8. Cardinality(WiresOf(p)') = Cardinality(WiresOf(p)) + 1
    BY <2>7
  <2> QED
    BY <2>2, <2>3, <2>4, <2>5, <2>6, <2>7, <2>8 DEF Changed
<1>13. /\ \A x : ProxiesFor(x)' = ProxiesFor(x)
       /\ \A x \in Stubs : x # s => PinnedFor(x)' = PinnedFor(x)
       /\ IsFiniteSet(PinnedFor(s)') /\ Cardinality(PinnedFor(s)') = 1
       /\ Waits(todo, Op("release_pin", s)) = 0
       /\ Referred' = Referred /\ Twice' = Twice \cup {s} /\ s \notin Twice
  <2>1. \A x \in Proxies : proxies'[x].refs = proxies[x].refs /\ proxies'[x].shim = proxies[x].shim
    BY <1>2, <1>5, <1>s
  <2>2. \A x : ProxiesFor(x)' = ProxiesFor(x)
    BY <2>1 DEF ProxiesFor
  <2>3. \A x \in Stubs : x # s => PinnedFor(x)' = PinnedFor(x)
    <3>1. ASSUME NEW x \in Stubs, x # s, NEW y \in Proxies
          PROVE  (proxies'[y].pins > 0 /\ proxies'[y].shim = x) <=> (proxies[y].pins > 0 /\ proxies[y].shim = x)
      BY <1>5, <1>s, <3>1
    <3> QED
      BY <3>1 DEF PinnedFor
  <2>4. PinnedFor(s) = {} /\ Waits(todo, Op("release_pin", s)) = 0
    <3>1. /\ IsFiniteSet(PinnedFor(s)) /\ Cardinality(PinnedFor(s)) \in Nat
               /\ Waits(todo, Op("release_pin", s)) \in Nat
          /\ stubs[s].pins = Waits(todo, Op("release_pin", s)) + Cardinality(PinnedFor(s))
      BY <1>0, StubFacts DEF ShimInv, Sums, StubSum
    <3>2. Cardinality(PinnedFor(s)) = 0 /\ Waits(todo, Op("release_pin", s)) = 0
      BY <1>3, <3>1
    <3> QED
      BY <3>1, <3>2, SizeIs
  <2>5. PinnedFor(s)' = {p}
    <3>1. ASSUME NEW y \in Proxies PROVE (proxies'[y].pins > 0 /\ proxies'[y].shim = s) <=> y = p
      <4>1. CASE y = p
        BY <1>5, <4>1
      <4>2. CASE y # p
        BY <1>5, <2>4, <4>2 DEF PinnedFor
      <4> QED
        BY <4>1, <4>2
    <3> QED
      BY <3>1 DEF PinnedFor
  <2>6. IsFiniteSet(PinnedFor(s)') /\ Cardinality(PinnedFor(s)') = 1
    BY <2>5, FS_Singleton
  <2>7. Referred' = Referred /\ s \notin Twice
    <3>1. \A x \in Stubs : stubs'[x].refs > 0 <=> stubs[x].refs > 0
      BY <1>3, <1>4
    <3> QED
      BY <1>3, <3>1 DEF Referred, Twice
  <2>8. Twice' = Twice \cup {s}
    <3>1. ASSUME NEW x \in Stubs
          PROVE  (stubs'[x].refs = 2 /\ stubs'[x].pins > 0) <=> (stubs[x].refs = 2 /\ stubs[x].pins > 0) \/ x = s
      BY <1>4
    <3> QED
      BY <3>1 DEF Twice
  <2> QED
    BY <2>2, <2>3, <2>4, <2>6, <2>7, <2>8
<1>14. ObjectSum'
  <2>1. ObjectSum
    BY <1>0 DEF ShimInv, Sums
  <2>2. Waits(todo', Op("release", Object)) = Waits(todo, Op("release", Object)) /\ HandsOf(Object)' = HandsOf(Object)
    BY <1>7, <1>12, StillWaitsFor
  <2>3. IsFiniteSet(Twice') /\ Cardinality(Twice') = Cardinality(Twice) + 1 /\ Cardinality(Twice) \in Nat
    BY <1>13, <2>1, FS_AddElement, FS_CardinalityType DEF ObjectSum
  <2>4. /\ object = 1 + Cardinality(HandsOf(Object)) + Waits(todo, Op("release", Object)) + Cardinality(Referred)
                      + Cardinality(Twice)
        /\ Cardinality(HandsOf(Object)) \in Nat /\ Cardinality(Referred) \in Nat
             /\ Waits(todo, Op("release", Object)) \in Nat
    <3>1. Waits(todo, Op("release", Object)) \in Nat
      BY <1>0, OpsOf, FS_CardinalityType DEF ShimInv, Sums, Counted, Waits
    <3> QED
      BY <2>1, <3>1, FS_CardinalityType DEF ObjectSum
  <2>5. object' = 1 + Cardinality(HandsOf(Object)') + Waits(todo', Op("release", Object)) + Cardinality(Referred')
                    + Cardinality(Twice')
    BY <1>1, <1>13, <2>2, <2>3, <2>4
  <2> QED
    BY <1>13, <2>1, <2>2, <2>3, <2>5 DEF ObjectSum
<1>15. ASSUME NEW x \in Stubs PROVE StubSum(x)'
  <2>1. /\ Waits(todo', Op("release_stub", x)) = Waits(todo, Op("release_stub", x))
        /\ Waits(todo', Op("release_pin", x)) = Waits(todo, Op("release_pin", x))
        /\ Waits(todo', Op("Destruct_stub", x)) = Waits(todo, Op("Destruct_stub", x))
    BY <1>7, StillWaitsFor
  <2>2. CASE x # s
    BY <1>0, <1>4, <1>12, <1>13, <2>1, <2>2, StubSame
  <2>3. CASE x = s
    <3>1. StubSum(s)
      BY <1>0 DEF ShimInv, Sums
    <3>2. Waits(todo', Op("Destruct_stub", s)) = One(stubs'[s].live /\ stubs'[s].refs = 0 /\ stubs'[s].pins = 0)
      <4>1. Waits(todo, Op("Destruct_stub", s)) = 0
        BY <1>3, <3>1 DEF StubSum, One
      <4> QED
        BY <1>4, <2>1, <2>3, <4>1 DEF One
    <3>3. stubs'[s].refs = Cardinality(ShimsAt(s)') + Waits(todo', Op("release_stub", s))
               + Cardinality(ProxiesFor(s)')
      BY <1>3, <1>4, <1>12, <1>13, <2>1, <2>3, <3>1 DEF StubSum
    <3>4. stubs'[s].pins = Waits(todo', Op("release_pin", s)) + Cardinality(PinnedFor(s)')
      BY <1>4, <1>13, <2>1, <2>3
    <3>5. stubs'[s].live /\ IsFiniteSet(ShimsAt(s)') /\ IsFiniteSet(ProxiesFor(s)') /\ IsFiniteSet(PinnedFor(s)')
      BY <1>4, <1>l, <1>12, <1>13, <3>1 DEF StubSum
    <3> QED
      BY <2>3, <3>2, <3>3, <3>4, <3>5 DEF StubSum
  <2> QED
    BY <2>2, <2>3
<1>16. ASSUME NEW x \in Proxies PROVE ProxySum(x)'
  <2>1. /\ Waits(todo', Op("Internal_Release", x)) = Waits(todo, Op("Internal_Release", x))
        /\ Waits(todo', Op("Unpin_proxy", x)) = Waits(todo, Op("Unpin_proxy", x))
        /\ Waits(todo', Op("Destruct_proxy", x)) = Waits(todo, Op("Destruct_proxy", x))
        /\ Waits(todo', Op("release", x)) = Waits(todo, Op("release", x))
    BY <1>7, StillWaitsFor
  <2>2. CASE x # p
    BY <1>0, <1>5, <1>12, <2>1, <2>2, ProxySame
  <2>3. CASE x = p
    <3>1. ProxySum(p)
      BY <1>0 DEF ShimInv, Sums
    <3>2. Waits(todo', Op("Destruct_proxy", p)) =
              One(proxies'[p].live /\ proxies'[p].refs = 0 /\ proxies'[p].pins = 0 /\ proxies'[p].ints = 0)
      <4>1. Waits(todo, Op("Destruct_proxy", p)) = 0
        BY <1>2, <3>1 DEF ProxySum, One
      <4> QED
        BY <1>5, <2>1, <2>3, <4>1 DEF One
    <3>3. proxies'[p].refs = Cardinality(HandsOf(p)') + Waits(todo', Op("release", p)) + Cardinality(AddsOf(p)')
      BY <1>2, <1>5, <1>12, <2>1, <2>3, <3>1 DEF ProxySum
    <3>4. proxies'[p].pins = Cardinality(WiresOf(p)') + Waits(todo', Op("Unpin_proxy", p))
      <4>1. Waits(todo, Op("Unpin_proxy", p)) \in Nat
        BY <1>0, OpsOf, FS_CardinalityType DEF ShimInv, Sums, Counted, Waits
      <4>2. proxies[p].pins = Cardinality(WiresOf(p)) + Waits(todo, Op("Unpin_proxy", p))
        BY <3>1 DEF ProxySum
      <4> QED
        BY <1>2, <1>5, <1>12, <2>1, <2>3, <4>1, <4>2
    <3>5. proxies'[p].ints = Waits(todo', Op("Internal_Release", p))
      BY <1>5, <2>1, <2>3, <3>1 DEF ProxySum
    <3>6. IF proxies'[p].live THEN proxies'[p].shim \in Stubs ELSE proxies'[p] = NoProxy
      BY <1>5, <1>l
    <3>7. IsFiniteSet(HandsOf(p)') /\ IsFiniteSet(AddsOf(p)') /\ IsFiniteSet(WiresOf(p)')
      BY <1>12, <3>1 DEF ProxySum
    <3>8. ProxySum(p)'
      BY <3>2, <3>3, <3>4, <3>5, <3>6, <3>7 DEF ProxySum
    <3> QED
      BY <2>3, <3>8
  <2> QED
    BY <2>2, <2>3
<1>17. /\ \A x : IsListed(x)' <=> IsListed(x)
       /\ \A x : IsShared(x)' <=> IsShared(x)
       /\ \A x \in Proxies : /\ proxies'[x].live = proxies[x].live /\ proxies'[x].shim = proxies[x].shim
                             /\ proxies'[x].refs = proxies[x].refs
       /\ \A x \in Stubs : stubs'[x].live = stubs[x].live /\ stubs'[x].refs = stubs[x].refs
  BY <1>1, <1>2, <1>3, <1>4, <1>5, <1>s DEF IsListed, IsShared
<1>18. Maps'
  <2>1. Maps
    BY <1>0 DEF ShimInv
  <2> QED
    BY <1>1, <1>17, <2>1 DEF Maps
<1>19. Pins'
  <2>1. Pins
    BY <1>0 DEF ShimInv
  <2>2. \A x \in Stubs : Waits(todo', Op("release_pin", x)) > 0 => stubs'[x].refs = 0
    BY <1>7, <1>17, <2>1, StillWaitsFor DEF Pins
  <2>3. ASSUME NEW x \in Stubs, stubs'[x].pins > 0 PROVE stubs'[x].refs <= 2
    <3>1. CASE x = s
      BY <1>4, <3>1
    <3>2. CASE x # s
      BY <1>4, <2>1, <2>3, <3>2 DEF Pins
    <3> QED
      BY <3>1, <3>2
  <2>4. ASSUME NEW x \in Proxies, proxies'[x].pins > 0
        PROVE  proxies'[x].refs <= 1 /\ <<Home, Object, proxies'[x].shim>> \notin holders' /\ ~IsShared(x)'
    <3>1. CASE x = p
      BY <1>1, <1>2, <1>3, <1>5, <1>17, <3>1 DEF IsListed
    <3>2. CASE x # p
      BY <1>1, <1>5, <1>17, <2>1, <2>4, <3>2 DEF Pins, IsListed
    <3> QED
      BY <3>1, <3>2
  <2> QED
    BY <2>2, <2>3, <2>4 DEF Pins, IsListed
<1>20. ASSUME NEW u \in Threads, u # t PROVE Steady(u)
  <2>1. \A x \in Proxies : proxies[x].refs > 0 => proxies'[x].live
    BY <1>0, <1>17, ProxyFacts
  <2>2. ASSUME NEW x \in Proxies, proxies[x].pins = 0, IsListed(proxies[x].shim) PROVE proxies'[x].pins = 0
    <3>1. x # p
      BY <1>3, <1>s, <2>2
    <3> QED
      BY <1>5, <2>2, <3>1
  <2>3. ASSUME NEW x \in Stubs, u \in ShimsAt(x), Private(x) PROVE Private(x)'
    <3>1. x # s
      BY <1>3, <1>20, <2>3
    <3> QED
      BY <1>4, <1>17, <2>3, <3>1 DEF Private
  <2>4. ASSUME NEW y \in Proxies, NEW x \in Stubs, todo[u] # <<>>, Head(todo[u]) = Op("Pin", y), proxies[y].shim = x
        PROVE  /\ stubs'[x].refs = 2 /\ stubs'[x].pins = 0 /\ ~IsListed(x)'
               /\ proxies'[y].refs = 1 /\ proxies'[y].pins = 0 /\ ~IsShared(y)'
    <3>1. /\ stubs[x].refs = 2 /\ stubs[x].pins = 0 /\ ~IsListed(x) /\ ShimsAt(x) = {u}
          /\ proxies[y].refs = 1 /\ proxies[y].pins = 0 /\ ~IsShared(y)
      BY <1>0, <2>4, PinAhead
    <3>2. x # s /\ y # p
      BY <1>3, <1>s, <1>20, <2>4, <3>1
    <3> QED
      BY <1>4, <1>5, <1>17, <3>1, <3>2
  <2> QED
    BY <1>1, <1>17, <2>1, <2>2, <2>3, <2>4 DEF Steady
<1>21. Kept'
  <2>1. Owns(t, p)
    BY <1>0, <1>h, PinOwns
  <2>2. /\ \A v \in Threads : v # t => todo'[v] = todo[v] /\ shim'[v] = shim[v]
        /\ \A v \in Threads : shim'[v] = shim[v]
    BY <1>1, <1>9 DEF OthersSame
  <2>3. Undisturbed(t, {})
    <3>1. ASSUME NEW u \in Threads, NEW q \in Proxies, Keeps(u, q)
          PROVE  /\ proxies'[q].shim = proxies[q].shim
                 /\ \A x \in Proxies : x # q /\ proxies'[x].refs > 0 => proxies'[x].shim # proxies[q].shim
                 /\ u # t => shim'[t] # proxies[q].shim
      <4>1. /\ \A x \in Proxies : x # q /\ proxies[x].refs > 0 => proxies[x].shim # proxies[q].shim
            /\ u # t => shim[t] # proxies[q].shim
        BY <1>0, <3>1, KeeperFacts
      <4> QED
        BY <1>1, <1>17, <4>1
    <3> QED
      BY <3>1 DEF Undisturbed
  <2>4. ASSUME NEW u \in Threads, NEW q \in Proxies, Keeps(u, q)' PROVE Keeps(u, q) \/ (u = t /\ q = p)
    <3>1. CASE u # t
      BY <1>9, <1>w, <2>4, <3>1 DEF Keeps, OthersSame
    <3>2. CASE u = t
      <4>1. \A j \in 1..Len(todo'[t]) : Place(todo'[t], j) # Op("Unpin_proxy", q)
        BY <1>6, <1>10, OpsAre
      <4> QED
        BY <1>w, <2>4, <3>2, <4>1 DEF Keeps
    <3> QED
      BY <3>1, <3>2
  <2>5. Owns(t, p)'
    <3>1. ProxiesFor(s)' \subseteq {p}
      BY <1>3, <1>13
    <3>2. ASSUME NEW u \in Threads, u # t
          PROVE  /\ shim'[u] # s
                 /\ \A j \in 1..Len(todo'[u]) : Place(todo'[u], j) \notin {Op("release", p), Op("release_stub", s)}
      BY <1>s, <2>1, <2>2, <3>2 DEF Owns
    <3> QED
      BY <1>5, <1>13, <3>1, <3>2 DEF Owns
  <2>6. ASSUME NEW u \in Threads, NEW q \in Proxies, Keeps(u, q)' PROVE Owns(u, q)'
    <3>1. CASE Keeps(u, q)
      BY <1>0, <1>7, <2>2, <2>3, <3>1, OwnsStill
    <3>2. CASE u = t /\ q = p
      BY <2>5, <3>2
    <3> QED
      BY <2>4, <2>6, <3>1, <3>2
  <2> QED
    BY <2>6 DEF Kept
<1>22. ShapeOf(todo[t], shim[t], holds[t], wired[t])'
  <2>1. \A j \in 1..Len(r) : RestAt(r, holds[t], p, j)
    BY <1>8, <1>10 DEF RestOf, RestAt
  <2>2. RestOf(r, holds[t], p)
    BY <1>8, <2>1 DEF RestOf
  <2>3. ShapeOf(r, s, holds[t], p)
    <3>1. HasIn(r, "release_shim")
      BY <1>11
    <3> QED
      BY <2>2, <3>1, RestShape
  <2> QED
    BY <1>1, <1>3, <1>6, <1>w, <2>3
<1>23. Linked(t)'
  <2>1. Linked(t)
    BY <1>0 DEF ShimInv, Links
  <2>2. \A j \in 1..Len(todo'[t]) : LinkAt(t, j)'
    BY <1>6, <1>10 DEF LinkAt
  <2>3. Hold(t)' = Hold(t) /\ holds'[t] = holds[t]
    BY <1>1 DEF Hold
  <2>4. Hold(t) \in Proxies =>
            <<holds[t][1], Hold(t), proxies'[Hold(t)].shim>> \in holders'
                 /\ <<Home, Object, proxies'[Hold(t)].shim>> \in holders'
    BY <1>1, <1>17, <2>1 DEF Linked, IsListed
  <2>5. Hold(t) = Object => holds[t][1] = Home
    BY <2>1 DEF Linked
  <2> QED
    BY <2>2, <2>3, <2>4, <2>5 DEF Linked, IsListed
<1>24. ShimTypes'
  <2>1. object' \in Int /\ calls' \in 0..MaxCalls
    BY <1>1 DEF ShimInv, ShimTypes
  <2> QED
    BY <1>1, <1>4, <1>5, <1>9, <1>w, <2>1 DEF ShimInv, ShimTypes
<1> QED
  BY <1>0, <1>1, <1>9, <1>14, <1>15, <1>16, <1>18, <1>19, <1>20, <1>21, <1>22, <1>23, <1>24, CallStep

\* A thread about to pair its new proxy with the object, at the side it hands it to.
Pairing(t, m, p) ==
    /\ p \in Proxies /\ p # Object /\ m \in Modules /\ Arg(t) = <<m, p>>
    /\ proxies[p].shim \in Stubs /\ IsListed(proxies[p].shim) /\ proxies[p].pins = 0 /\ proxies[p].live
    /\ proxies[p].refs \in Nat /\ proxies[p].refs >= 1 /\ shim[t] \in Stubs
    /\ Len(todo[t]) = 3 /\ Place(todo[t], 3).op = "add1"
    /\ t \in AddsOf(p) /\ (\A x : x # p => t \notin AddsOf(x))
    /\ Grows(Tail(todo[t]), todo[t], Op("add1", Arg(t))) /\ RestOf(Tail(todo[t]), holds[t], wired[t])
    /\ Len(Tail(todo[t])) = 2 /\ Place(Tail(todo[t]), 2).op = "release_shim"
         /\ Place(Tail(todo[t]), 1) = Op("release", Hold(t)) /\ Hold(t) # Nothing
    /\ (\A j \in 1..Len(Tail(todo[t])) : Place(Tail(todo[t]), j).op \in {"release_shim", "release"})
    /\ (\A n : HasIn(Tail(todo[t]), n) <=> n \in {"release", "release_shim"})
    /\ (\A n : HasIn(todo[t], n) <=> n \in {"add1", "release", "release_shim"})

\* What is known of a thread about to pair its new proxy.
LEMMA AtAdd1 ==
    ASSUME ShimInv, ~late, NEW t \in Threads, Current(t, "add1"), NEW m, NEW p, m = Arg(t)[1], p = Arg(t)[2]
    PROVE  Pairing(t, m, p)
<1> DEFINE r == Tail(todo[t])
<1>1. p \in Proxies /\ m \in Modules /\ Arg(t) = <<m, p>> /\ Now(t, "add1")
  BY OpsAre DEF Current, ArgsOf, Now
<1>2. p # Object
  BY <1>1 DEF ShimInv, ShimAssumption, Object
<1>3. /\ Len(todo[t]) \in 1..Len(todo[t]) /\ ShapeAt(todo[t], shim[t], holds[t], wired[t], Len(todo[t]))
      /\ LinkAt(t, Len(todo[t])) /\ Place(todo[t], Len(todo[t])).op = "add1"
           /\ Place(todo[t], Len(todo[t])).arg = Arg(t)
      /\ ShapeOf(todo[t], shim[t], holds[t], wired[t])
  BY InCall DEF Current
<1>4. Len(todo[t]) = 3 /\ Gives(todo[t], holds[t])
  BY <1>3 DEF ShapeAt
<1>5. IsListed(proxies[p].shim) /\ proxies[p].pins = 0 /\ proxies[p].live
  BY <1>3 DEF LinkAt
<1>6. t \in AddsOf(p) /\ \A x : x # p => t \notin AddsOf(x)
  BY <1>3, <1>4 DEF AddsOf, Adding
<1>7. Grows(r, todo[t], Op("add1", Arg(t)))
  BY <1>1, Goings
<1>8. RestOf(r, holds[t], wired[t])
  BY <1>3, <1>7, TailRest
<1>9. proxies[p].shim \in Stubs /\ proxies[p].refs \in Nat /\ proxies[p].refs >= 1
  <2>1. IsFiniteSet(AddsOf(p))
    BY <1>1 DEF ShimInv, Sums, ProxySum
  <2>2. Cardinality(AddsOf(p)) >= 1
    BY <1>6, <2>1, SizeIs
  <2>3. /\ Cardinality(AddsOf(p)) \in Nat /\ Waits(todo, Op("release", p)) \in Nat /\ proxies[p].refs \in Nat
        /\ Waits(todo, Op("release", p)) + Cardinality(AddsOf(p)) <= proxies[p].refs
    BY <1>1, ProxyFacts
  <2>4. proxies[p].shim \in Stubs
    BY <1>1, <1>5, ProxyFacts
  <2> QED
    BY <2>2, <2>3, <2>4
<1> HIDE DEF r
<1>10. /\ Len(r) = 2 /\ Place(r, 2).op = "release_shim" /\ Place(r, 1) = Op("release", Hold(t)) /\ Hold(t) # Nothing
       /\ \A j \in 1..Len(r) : Place(r, j).op \in {"release_shim", "release"}
  <2>1. Len(r) \in Nat /\ Len(r) + 1 = 3
    BY <1>4, <1>7 DEF Grows
  <2>2. Len(r) = 2
    <3>1. \A i \in Nat : i + 1 = 3 => i = 2
      OBVIOUS
    <3> QED
      BY <2>1, <3>1
  <2>3. 1 \in 1..Len(r) /\ 2 \in 1..Len(r) /\ \A j \in 1..Len(r) : j = 2 \/ j = 1
    BY <2>2
  <2>4. Place(r, 2) = Place(todo[t], 2) /\ Place(r, 1) = Place(todo[t], 1)
    BY <1>7, <2>3 DEF Grows
  <2>5. Place(todo[t], 2).op = "release_shim" /\ Place(todo[t], 1) = Op("release", Hold(t)) /\ Hold(t) # Nothing
    BY <1>4 DEF Gives, Hold
  <2>6. Place(todo[t], 1).op = "release"
    BY <2>5, OpsAre
  <2> QED
    BY <2>2, <2>3, <2>4, <2>5, <2>6
<1>11. \A n : HasIn(r, n) <=> n \in {"release", "release_shim"}
  <2>1. 1 \in 1..Len(r) /\ 2 \in 1..Len(r) /\ Place(r, 1).op = "release"
    BY <1>10, OpsAre
  <2> QED
    BY <1>10, <2>1 DEF HasIn
<1>12. \A n : HasIn(todo[t], n) <=> n \in {"add1", "release", "release_shim"}
  <2>1. \A n : HasIn(todo[t], n) <=> n = "add1" \/ HasIn(r, n)
    BY <1>7, GrowsHas, OpsAre
  <2> QED
    BY <1>11, <2>1
<1>13. shim[t] \in Stubs
  <2>1. 2 \in 1..Len(todo[t]) /\ Place(todo[t], 2).op = "release_shim"
    BY <1>4 DEF Gives
  <2>2. ShapeAt(todo[t], shim[t], holds[t], wired[t], 2)
    BY <2>1, InCall
  <2>3. ~Shimless(todo[t])
    BY <1>12 DEF Shimless
  <2> QED
    BY <2>1, <2>2, <2>3 DEF ShapeAt
<1> QED
  BY <1>1, <1>2, <1>3, <1>4, <1>5, <1>6, <1>7, <1>8, <1>9, <1>10, <1>11, <1>12, <1>13 DEF r, Pairing

\* Nothing is there for the shim: the proxy is it.
LEMMA PairsFirst ==
    ASSUME ShimInv, NEW t \in Threads, add1(t), ListedFor(Arg(t)[1], proxies[Arg(t)[2]].shim) = {}
    PROVE  ShimInv'
<1>0. Now(t, "add1") /\ ~late
  BY DEF add1, Now
<1>c. Current(t, "add1")
  BY <1>0, NowIs
<1>p. PICK p \in Proxies, m \in Modules : p = Arg(t)[2] /\ m = Arg(t)[1]
  <2>1. Arg(t) \in Modules \X Proxies
    BY <1>c DEF Current, ArgsOf
  <2> QED
    BY <2>1
<1> DEFINE r == Tail(todo[t])
<1>2. /\ p # Object /\ proxies[p].shim \in Stubs /\ IsListed(proxies[p].shim) /\ proxies[p].pins = 0
           /\ proxies[p].live
      /\ proxies[p].refs \in Nat /\ proxies[p].refs >= 1 /\ shim[t] \in Stubs
      /\ Len(todo[t]) = 3 /\ Place(todo[t], 3).op = "add1"
      /\ t \in AddsOf(p) /\ (\A x : x # p => t \notin AddsOf(x))
      /\ RestOf(r, holds[t], wired[t])
      /\ Len(r) = 2
      /\ (\A j \in 1..Len(r) : Place(r, j).op \in {"release_shim", "release"})
      /\ (\A n : HasIn(r, n) <=> n \in {"release", "release_shim"})
      /\ (\A n : HasIn(todo[t], n) <=> n \in {"add1", "release", "release_shim"})
  <2>1. Pairing(t, m, p)
    BY <1>0, <1>c, <1>p, AtAdd1
  <2> QED
    BY <2>1 DEF Pairing
<1>s. PICK s \in Stubs : s = proxies[p].shim
  BY <1>2
<1>l. ListedFor(m, s) = {}
  BY <1>p, <1>s
<1>1. /\ object' = object /\ stubs' = stubs /\ proxies' = proxies /\ shim' = shim /\ wired' = wired
      /\ late' = late /\ calls' = calls
      /\ holders' = holders \cup {<<m, p, s>>} /\ holds' = [holds EXCEPT ![t] = <<m, p>>] /\ Then(t, <<>>)
  BY <1>p, <1>s DEF add1
<1>3. m # Home /\ \A x \in Proxies : <<m, x, s>> \notin holders
  BY <1>2, <1>l, <1>s DEF ListedFor, IsListed
<1>4. Goes0(t, "add1") /\ todo'[t] = r /\ Stepped(t, "add1")
  BY <1>0, <1>1, ThenGoes, Goings DEF Goes0
<1>5. StillWaits /\ Grown(t, {})
  BY <1>4, StillWaiting, PlacesAre DEF Counting, Releasing
<1> HIDE DEF r
<1>h. /\ holds' \in [Threads -> Modules \X (Proxies \cup {Object, Nothing})]
      /\ holds'[t] = <<m, p>> /\ \A u \in Threads : u # t => holds'[u] = holds[u]
  BY <1>1 DEF ShimInv, ShimTypes
<1>6. todo' \in Lists /\ Counted(todo') /\ OthersSame(t)
  BY <1>1, <1>4, <1>h, OthersStay DEF OthersSame
<1>7. /\ \A x : IsListed(x)' <=> IsListed(x)
      /\ \A x \in Proxies : x # p => (IsShared(x)' <=> IsShared(x))
      /\ \A h \in holders : h \in holders'
  <2>1. \A x : <<Home, Object, x>> # <<m, p, s>>
    BY <1>2
  <2>2. \A y \in Modules, x \in Proxies, z \in Stubs : x # p => (<<y, x, z>> \in holders' <=> <<y, x, z>> \in holders)
    BY <1>1
  <2> QED
    BY <1>1, <2>1, <2>2 DEF IsListed, IsShared
<1>8. ShapeOf(todo[t], shim[t], holds[t], wired[t])'
  <2>1. \A j \in 1..Len(r) : RestAt(r, holds'[t], wired[t], j)
    BY <1>2 DEF RestOf, RestAt
  <2>2. RestOf(r, holds'[t], wired[t])
    BY <1>2, <2>1 DEF RestOf
  <2>3. HasIn(r, "release_shim")
    BY <1>2
  <2>4. ShapeOf(r, shim[t], holds'[t], wired[t])
    BY <1>2, <2>2, <2>3, RestShape
  <2> QED
    BY <1>1, <1>4, <2>4
<1>9. Linked(t)'
  <2>1. \A j \in 1..Len(todo'[t]) : LinkAt(t, j)'
    BY <1>2, <1>4 DEF LinkAt
  <2>2. Hold(t)' = p /\ holds'[t][1] = m
    BY <1>h DEF Hold
  <2>3. <<m, p, proxies'[p].shim>> \in holders' /\ <<Home, Object, proxies'[p].shim>> \in holders'
    BY <1>1, <1>2, <1>s, <1>7 DEF IsListed
  <2> QED
    BY <1>2, <2>1, <2>2, <2>3 DEF Linked, IsListed
<1>10. /\ \A x \in Proxies \cup {Object} : x # p => HandsOf(x)' = HandsOf(x)
       /\ t \in HandsOf(p)' /\ t \notin HandsOf(p) /\ t \notin AddsOf(p)'
       /\ \A x \in Proxies : WiresOf(x)' = WiresOf(x) /\ (x # p => AddsOf(x)' = AddsOf(x))
       /\ \A x \in Stubs : ShimsAt(x)' = ShimsAt(x)
  <2>1. Handing(t) /\ ~Handing(t)'
    BY <1>2, <1>4 DEF Handing, Has
  <2>2. \A x \in Proxies \cup {Object} : t \notin HandsOf(x) /\ (t \in HandsOf(x)' <=> x = p)
    BY <1>h, <2>1 DEF HandsOf, Hold
  <2>3. \A x \in Proxies : t \notin AddsOf(x)'
    BY <1>2, <1>4 DEF AddsOf, Adding
  <2>4. \A x \in Proxies : t \in WiresOf(x)' <=> t \in WiresOf(x)
    BY <1>1 DEF WiresOf
  <2>5. \A x \in Stubs : t \in ShimsAt(x)' <=> t \in ShimsAt(x)
    <3>1. ~Has(t, "AddRef_found")' /\ ~Has(t, "AddRef_found")
      BY <1>2, <1>4 DEF Has
    <3> QED
      BY <1>1, <3>1 DEF ShimsAt
  <2>6. /\ \A x \in Proxies \cup {Object} : Changed(HandsOf(x), HandsOf(x)', t)
        /\ \A x \in Proxies : Changed(AddsOf(x), AddsOf(x)', t) /\ Changed(WiresOf(x), WiresOf(x)', t)
        /\ \A x \in Stubs : Changed(ShimsAt(x), ShimsAt(x)', t)
    BY <1>0, <1>6, SizesMove
  <2> QED
    BY <1>2, <2>2, <2>3, <2>4, <2>5, <2>6 DEF Changed
<1>11. /\ Referred' = Referred /\ Twice' = Twice
       /\ \A x : ProxiesFor(x)' = ProxiesFor(x) /\ PinnedFor(x)' = PinnedFor(x)
  BY <1>1 DEF Referred, Twice, ProxiesFor, PinnedFor
<1>12. ObjectSum'
  <2>1. HandsOf(Object)' = HandsOf(Object)
    BY <1>2, <1>10
  <2>2. Waits(todo', Op("release", Object)) = Waits(todo, Op("release", Object))
    BY <1>5, StillWaitsFor
  <2> QED
    BY <1>0, <1>1, <1>11, <2>1, <2>2, ObjectStays
<1>13. \A x \in Stubs : StubSum(x)'
  BY <1>0, <1>1, <1>5, <1>10, <1>11, StillWaitsFor, StubSame
<1>14. ASSUME NEW x \in Proxies PROVE ProxySum(x)'
  <2>1. CASE x # p
    BY <1>0, <1>1, <1>5, <1>10, <2>1, ProxyStays
  <2>2. CASE x = p
    <3>1. /\ Waits(todo', Op("Internal_Release", p)) = Waits(todo, Op("Internal_Release", p))
          /\ Waits(todo', Op("Unpin_proxy", p)) = Waits(todo, Op("Unpin_proxy", p))
          /\ Waits(todo', Op("Destruct_proxy", p)) = Waits(todo, Op("Destruct_proxy", p))
          /\ Waits(todo', Op("release", p)) = Waits(todo, Op("release", p)) + 0
      <4>1. Waits(todo, Op("release", p)) \in Nat
        BY <1>0, ProxyFacts
      <4> QED
        BY <1>5, <4>1, StillWaitsFor
    <3>2. /\ One(t \in HandsOf(p)') = 1 /\ One(t \in HandsOf(p)) = 0
          /\ One(t \in AddsOf(p)') = 0 /\ One(t \in AddsOf(p)) = 1
      BY <1>2, <1>10 DEF One
    <3>3. proxies'[p].refs = proxies[p].refs + 0 + One(t \in HandsOf(p)') - One(t \in HandsOf(p))
                                                + One(t \in AddsOf(p)') - One(t \in AddsOf(p))
      BY <1>1, <1>2, <3>2
    <3>4. /\ proxies'[p].live <=> proxies[p].live
          /\ proxies[p].live /\ proxies'[p].shim = proxies[p].shim
          /\ proxies'[p].pins = proxies[p].pins /\ proxies'[p].ints = proxies[p].ints
          /\ WiresOf(p)' = WiresOf(p) /\ 0 \in Int
          /\ (proxies'[p].refs = 0 <=> proxies[p].refs = 0)
      BY <1>1, <1>2, <1>10
    <3>5. ProxySum(p)'
      BY <1>0, <1>6, <3>1, <3>3, <3>4, ProxyMoves
    <3> QED
      BY <2>2, <3>5
  <2> QED
    BY <2>1, <2>2
<1>15. Maps'
  <2>1. Maps
    BY <1>0 DEF ShimInv
  <2>2. ASSUME NEW y \in Modules, NEW x \in Proxies \cup {Object}, NEW z \in Stubs, <<y, x, z>> \in holders'
        PROVE  IF x = Object THEN y = Home /\ stubs[z].live ELSE y # Home /\ proxies[x].live /\ proxies[x].shim = z
    <3>1. CASE <<y, x, z>> \in holders
      BY <2>1, <3>1 DEF Maps
    <3>2. CASE <<y, x, z>> = <<m, p, s>>
      BY <1>2, <1>3, <1>s, <3>2
    <3> QED
      BY <1>1, <2>2, <3>1, <3>2
  <2>3. ASSUME NEW y \in Modules, NEW x1 \in Proxies, NEW x2 \in Proxies, NEW z \in Stubs,
               <<y, x1, z>> \in holders', <<y, x2, z>> \in holders'
        PROVE  x1 = x2
    <3>1. CASE y = m /\ z = s
      BY <1>1, <1>3, <2>3, <3>1
    <3>2. CASE ~(y = m /\ z = s)
      <4>1. <<y, x1, z>> \in holders /\ <<y, x2, z>> \in holders
        BY <1>1, <2>3, <3>2
      <4> QED
        BY <2>1, <4>1 DEF Maps
    <3> QED
      BY <3>1, <3>2
  <2>4. \A x, y \in Stubs : IsListed(x)' /\ IsListed(y)' => x = y
    BY <1>7, <2>1 DEF Maps
  <2> QED
    BY <1>1, <2>2, <2>3, <2>4 DEF Maps, IsListed
<1>16. Pins'
  <2>1. Pins
    BY <1>0 DEF ShimInv
  <2>2. ASSUME NEW x \in Proxies, proxies[x].pins > 0
        PROVE proxies[x].refs <= 1 /\ ~IsListed(proxies[x].shim)' /\ ~IsShared(x)'
    <3>1. x # p
      BY <1>2, <2>2
    <3>2. ~IsListed(proxies[x].shim)'
      BY <1>1, <1>2, <2>1, <2>2 DEF Pins, IsListed
    <3> QED
      BY <1>7, <2>1, <2>2, <3>1, <3>2 DEF Pins
  <2>3. \A x \in Stubs : Waits(todo', Op("release_pin", x)) > 0 => stubs[x].refs = 0
    BY <1>5, <2>1, StillWaitsFor DEF Pins
  <2>4. \A x \in Proxies : proxies'[x].pins > 0 => proxies'[x].refs <= 1 /\ ~IsListed(proxies[x].shim)'
             /\ ~IsShared(x)'
    BY <1>1, <2>2
  <2> QED
    BY <1>1, <2>1, <2>3, <2>4 DEF Pins
<1>17. ASSUME NEW u \in Threads, u # t PROVE Steady(u)
  <2>1. ASSUME NEW x \in Stubs, Private(x) PROVE Private(x)'
    BY <1>1, <1>7, <2>1 DEF Private
  <2>2. ASSUME NEW y \in Proxies, NEW x \in Stubs, todo[u] # <<>>, Head(todo[u]) = Op("Pin", y), proxies[y].shim = x
        PROVE  /\ stubs'[x].refs = 2 /\ stubs'[x].pins = 0 /\ ~IsListed(x)'
               /\ proxies'[y].refs = 1 /\ proxies'[y].pins = 0 /\ ~IsShared(y)'
    <3>1. /\ stubs[x].refs = 2 /\ stubs[x].pins = 0 /\ ~IsListed(x) /\ AddsOf(y) = {}
          /\ proxies[y].refs = 1 /\ proxies[y].pins = 0 /\ ~IsShared(y)
      BY <1>0, <2>2, PinAhead
    <3>2. y # p
      BY <1>2, <3>1
    <3> QED
      BY <1>1, <1>7, <3>1, <3>2
  <2>3. \A x \in Proxies : proxies[x].refs > 0 => proxies'[x].live
    BY <1>0, <1>1, ProxyFacts
  <2> QED
    BY <1>1, <1>7, <2>1, <2>2, <2>3 DEF Steady
<1>18. Kept'
  <2>1. ASSUME NEW u \in Threads, NEW x \in Proxies, u # t, Keeps(u, x) PROVE shim'[t] # proxies[x].shim
    BY <1>0, <1>1, <2>1, KeeperFacts
  <2> QED
    BY <1>0, <1>1, <1>5, <1>6, <2>1, KeptPlainly
<1>19. ShimTypes'
  <2>1. holders' \subseteq Modules \X (Proxies \cup {Object}) \X Stubs
    BY <1>1 DEF ShimInv, ShimTypes
  <2> QED
    BY <1>1, <1>6, <1>h, <2>1 DEF ShimInv, ShimTypes
<1> QED
  BY <1>0, <1>1, <1>6, <1>8, <1>9, <1>12, <1>13, <1>14, <1>15, <1>16, <1>17, <1>18, <1>19, CallStep

\* Another proxy is there, or the object itself: it is taken, and the new one given up.
LEMMA PairsLater ==
    ASSUME ShimInv, NEW t \in Threads, add1(t), ListedFor(Arg(t)[1], proxies[Arg(t)[2]].shim) # {}
    PROVE  ShimInv'
<1>0. Now(t, "add1") /\ ~late
  BY DEF add1, Now
<1>c. Current(t, "add1")
  BY <1>0, NowIs
<1>p. PICK p \in Proxies, m \in Modules : p = Arg(t)[2] /\ m = Arg(t)[1]
  <2>1. Arg(t) \in Modules \X Proxies
    BY <1>c DEF Current, ArgsOf
  <2> QED
    BY <2>1
<1> DEFINE r == Tail(todo[t])
<1>2. /\ p # Object /\ proxies[p].shim \in Stubs /\ IsListed(proxies[p].shim) /\ proxies[p].pins = 0
           /\ proxies[p].live
      /\ proxies[p].refs \in Nat /\ proxies[p].refs >= 1 /\ shim[t] \in Stubs
      /\ Len(todo[t]) = 3 /\ Place(todo[t], 3).op = "add1"
      /\ t \in AddsOf(p) /\ (\A x : x # p => t \notin AddsOf(x))
      /\ RestOf(r, holds[t], wired[t])
      /\ Len(r) = 2 /\ Place(r, 2).op = "release_shim" /\ Place(r, 1) = Op("release", Hold(t)) /\ Hold(t) # Nothing
      /\ (\A j \in 1..Len(r) : Place(r, j).op \in {"release_shim", "release"})
      /\ (\A n : HasIn(r, n) <=> n \in {"release", "release_shim"})
      /\ (\A n : HasIn(todo[t], n) <=> n \in {"add1", "release", "release_shim"})
  <2>1. Pairing(t, m, p)
    BY <1>0, <1>c, <1>p, AtAdd1
  <2> QED
    BY <2>1 DEF Pairing
<1>s. PICK s \in Stubs : s = proxies[p].shim
  BY <1>2
<1>x. PICK x \in Proxies \cup {Object} :
          <<m, x, s>> \in holders /\ Then(t, <<Op("AddRef_listed", <<m, x>>), Op("release", p)>>)
  BY <1>p, <1>s DEF add1, ListedFor
<1> DEFINE a == Op("AddRef_listed", <<m, x>>)
           b == Op("release", p)
           r1 == <<b>> \o r
<1>1. UNCHANGED <<object, stubs, proxies, holders, shim, holds, wired, late, calls>>
  BY DEF add1
<1>o. /\ a \in Ops /\ a.op = "AddRef_listed" /\ a.arg = <<m, x>>
      /\ b \in Ops /\ b.op = "release" /\ b.arg = p
  <2>1. <<m, x>> \in ArgsOf("AddRef_listed") /\ "AddRef_listed" \in OpNames
    BY DEF ArgsOf, OpNames
  <2> QED
    BY <2>1, OpsAre, OpsOf
<1>4. Goes2(t, "add1", a, b) /\ Grows(r, r1, b) /\ Grows(r1, todo'[t], a)
  <2>1. Then(t, <<a, b>>)
    BY <1>x
  <2> HIDE DEF a, b
  <2> QED
    BY <1>0, <1>o, <2>1, ThenGoes, Goings
<1>5. /\ Stepped(t, "add1") /\ Grown(t, {a, b})
      /\ \E v : Moves("add1", v, "AddRef_listed", <<m, x>>, "release", p)
  <2>1. Goes2(t, "add1", Op("AddRef_listed", <<m, x>>), Op("release", p))
    BY <1>4
  <2>2. Moves("add1", Arg(t), "AddRef_listed", <<m, x>>, "release", p)
    BY <2>1, MovesBy
  <2>3. Stepped(t, "add1") /\ Grown(t, {a, b})
    <3> HIDE DEF a, b
    <3> QED
      BY <1>4, PlacesAre DEF Goes2
  <2> QED
    BY <2>2, <2>3
<1> HIDE DEF a, b, r, r1
<1>6. todo' \in Lists /\ Counted(todo') /\ OthersSame(t)
  BY <1>1, <1>5, OthersStay DEF OthersSame
<1>7. /\ \A y \in Proxies \cup {Object} : /\ Waits(todo', Op("release", y)) = Waits(todo, Op("release", y))
                                               + One(y = p)
                                          /\ Waits(todo, Op("release", y)) \in Nat
      /\ \A y \in Stubs : /\ Waits(todo', Op("release_stub", y)) = Waits(todo, Op("release_stub", y))
                          /\ Waits(todo', Op("release_pin", y)) = Waits(todo, Op("release_pin", y))
                          /\ Waits(todo', Op("Destruct_stub", y)) = Waits(todo, Op("Destruct_stub", y))
      /\ \A y \in Proxies : /\ Waits(todo', Op("Internal_Release", y)) = Waits(todo, Op("Internal_Release", y))
                            /\ Waits(todo', Op("Unpin_proxy", y)) = Waits(todo, Op("Unpin_proxy", y))
                            /\ Waits(todo', Op("Destruct_proxy", y)) = Waits(todo, Op("Destruct_proxy", y))
  BY <1>5 DEF Moves, WaitsMore, One
<1>8. /\ Len(r1) = 3 /\ Len(todo'[t]) = 4 /\ Place(todo'[t], 4) = a /\ Place(todo'[t], 3) = b
      /\ Gives(todo'[t], holds[t])
      /\ \A j \in 1..Len(todo'[t]) : Place(todo'[t], j) = a \/ Place(todo'[t], j).op \in {"release_shim", "release"}
  <2>1. Len(r1) = 3 /\ Len(todo'[t]) = 4
    BY <1>2, <1>4 DEF Grows
  <2>2. /\ 1 \in 1..Len(r) /\ 2 \in 1..Len(r) /\ 1 \in 1..Len(r1) /\ 2 \in 1..Len(r1) /\ 3 \in 1..Len(r1)
        /\ \A j \in 1..4 : j = 4 \/ j = 3 \/ j = 2 \/ j = 1
    BY <1>2, <2>1
  <2>3. Place(r1, 1) = Place(r, 1) /\ Place(r1, 2) = Place(r, 2) /\ Place(r1, 3) = b
    BY <1>2, <1>4, <2>2 DEF Grows
  <2>4. /\ Place(todo'[t], 4) = a /\ Place(todo'[t], 3) = b
        /\ Place(todo'[t], 2) = Place(r, 2) /\ Place(todo'[t], 1) = Place(r, 1)
    BY <1>4, <2>1, <2>2, <2>3 DEF Grows
  <2>5. Place(r, 1).op = "release"
    BY <1>2, OpsAre
  <2> QED
    BY <1>2, <1>o, <2>1, <2>2, <2>4, <2>5 DEF Gives, Hold
<1>9. /\ \A n : HasIn(todo'[t], n) <=> n \in {"AddRef_listed", "release", "release_shim"}
      /\ \A n : HasIn(r1, n) <=> n \in {"release", "release_shim"}
  <2>1. \A n : HasIn(r1, n) <=> n = "release" \/ HasIn(r, n)
    BY <1>4, <1>o, GrowsHas
  <2>2. \A n : HasIn(todo'[t], n) <=> n = "AddRef_listed" \/ HasIn(r1, n)
    BY <1>4, <1>o, GrowsHas
  <2> QED
    BY <1>2, <2>1, <2>2
<1>10. ShapeOf(todo[t], shim[t], holds[t], wired[t])'
  <2>1. RestOf(r1, holds[t], wired[t])
    <3>1. RestAt(r1, holds[t], wired[t], Len(r1))
      <4>1. Place(r1, Len(r1)) = b
        BY <1>2, <1>4, <1>8 DEF Grows
      <4> QED
        BY <1>o, <4>1 DEF RestAt, Foremost
    <3>2. ~HasIn(r, "new_proxy")
      BY <1>2
    <3> QED
      BY <1>2, <1>4, <3>1, <3>2, RestOnRest
  <2>2. ShapeAt(todo'[t], shim[t], holds[t], wired[t], Len(todo'[t]))
    BY <1>8, <1>o DEF ShapeAt, Foremost
  <2>3. ~HasIn(r1, "new_proxy") /\ HasIn(todo'[t], "release_shim") /\ a.op \notin {"find", "new_stub"}
    BY <1>9, <1>o
  <2>4. ShapeOf(todo'[t], shim[t], holds[t], wired[t])
    BY <1>2, <1>4, <2>1, <2>2, <2>3, PushRest
  <2> QED
    BY <1>1, <2>4
<1>11. Linked(t)'
  <2>1. Linked(t) /\ Maps
    BY <1>0 DEF ShimInv, Links
  <2>2. IF x = Object THEN m = Home ELSE x \in Proxies /\ proxies[x].shim = s
    BY <1>x, <2>1 DEF Maps
  <2>3. ASSUME NEW j \in 1..Len(todo'[t]) PROVE LinkAt(t, j)'
    <3>1. CASE Place(todo'[t], j) = a
      <4>1. a.arg[1] = m /\ a.arg[2] = x
        BY <1>o
      <4>2. CASE x = Object
        BY <1>o, <2>2, <3>1, <4>1, <4>2 DEF LinkAt
      <4>3. CASE x # Object
        <5>1. x \in Proxies /\ <<m, x, proxies'[x].shim>> \in holders'
                   /\ <<Home, Object, proxies'[x].shim>> \in holders'
          BY <1>1, <1>2, <1>s, <1>x, <2>2, <4>3 DEF IsListed
        <5> QED
          BY <1>o, <3>1, <4>1, <5>1 DEF LinkAt, IsListed
      <4> QED
        BY <4>2, <4>3
    <3>2. CASE Place(todo'[t], j).op \in {"release_shim", "release"}
      BY <3>2 DEF LinkAt
    <3> QED
      BY <1>8, <3>1, <3>2
  <2> QED
    BY <1>1, <2>1, <2>3 DEF Linked, Hold, IsListed
<1>12. /\ \A y \in Proxies \cup {Object} : HandsOf(y)' = HandsOf(y)
       /\ t \notin AddsOf(p)'
       /\ \A y \in Proxies : WiresOf(y)' = WiresOf(y) /\ (y # p => AddsOf(y)' = AddsOf(y))
       /\ \A y \in Stubs : ShimsAt(y)' = ShimsAt(y)
  <2>1. Handing(t) /\ Handing(t)'
    BY <1>2, <1>9 DEF Handing, Has
  <2>2. \A y \in Proxies \cup {Object} : t \in HandsOf(y)' <=> t \in HandsOf(y)
    BY <2>1 DEF HandsOf
  <2>3. \A y \in Proxies : t \notin AddsOf(y)'
    BY <1>8 DEF AddsOf, Adding
  <2>4. \A y \in Proxies : t \in WiresOf(y)' <=> t \in WiresOf(y)
    BY <1>1 DEF WiresOf
  <2>5. \A y \in Stubs : t \in ShimsAt(y)' <=> t \in ShimsAt(y)
    <3>1. ~Has(t, "AddRef_found")' /\ ~Has(t, "AddRef_found")
      BY <1>2, <1>9 DEF Has
    <3> QED
      BY <1>1, <3>1 DEF ShimsAt
  <2>6. /\ \A y \in Proxies \cup {Object} : Changed(HandsOf(y), HandsOf(y)', t)
        /\ \A y \in Proxies : Changed(AddsOf(y), AddsOf(y)', t) /\ Changed(WiresOf(y), WiresOf(y)', t)
        /\ \A y \in Stubs : Changed(ShimsAt(y), ShimsAt(y)', t)
    BY <1>0, <1>6, SizesMove
  <2> QED
    BY <1>2, <2>2, <2>3, <2>4, <2>5, <2>6 DEF Changed
<1>13. /\ Maps' /\ Referred' = Referred /\ Twice' = Twice /\ Pins'
       /\ \A y : ProxiesFor(y)' = ProxiesFor(y) /\ PinnedFor(y)' = PinnedFor(y)
       /\ \A u \in Threads : Steady(u)
  BY <1>0, <1>1, <1>7, NothingMoved
<1>14. ObjectSum'
  <2>1. HandsOf(Object)' = HandsOf(Object)
    BY <1>12
  <2>2. Waits(todo', Op("release", Object)) = Waits(todo, Op("release", Object))
    <3>1. One(Object = p) = 0
      BY <1>2 DEF One
    <3> QED
      BY <1>7, <3>1
  <2> QED
    BY <1>0, <1>1, <1>13, <2>1, <2>2, ObjectStays
<1>15. \A y \in Stubs : StubSum(y)'
  BY <1>0, <1>1, <1>7, <1>12, <1>13, StubSame
<1>16. ASSUME NEW y \in Proxies PROVE ProxySum(y)'
  <2>1. CASE y # p
    <3>1. One(y = p) = 0
      BY <2>1 DEF One
    <3>2. Waits(todo', Op("release", y)) = Waits(todo, Op("release", y))
      BY <1>7, <3>1
    <3> QED
      BY <1>0, <1>1, <1>7, <1>12, <2>1, <3>2, ProxySame
  <2>2. CASE y = p
    <3>1. /\ Waits(todo', Op("Internal_Release", p)) = Waits(todo, Op("Internal_Release", p))
          /\ Waits(todo', Op("Unpin_proxy", p)) = Waits(todo, Op("Unpin_proxy", p))
          /\ Waits(todo', Op("Destruct_proxy", p)) = Waits(todo, Op("Destruct_proxy", p))
          /\ Waits(todo', Op("release", p)) = Waits(todo, Op("release", p)) + 1
      <4>1. One(p = p) = 1
        BY DEF One
      <4> QED
        BY <1>7, <4>1
    <3>2. /\ One(t \in HandsOf(p)') - One(t \in HandsOf(p)) = 0
          /\ One(t \in HandsOf(p)') \in Int /\ One(t \in HandsOf(p)) \in Int
          /\ One(t \in AddsOf(p)') = 0 /\ One(t \in AddsOf(p)) = 1
      BY <1>2, <1>12 DEF One
    <3>3. proxies'[p].refs = proxies[p].refs + 1 + One(t \in HandsOf(p)') - One(t \in HandsOf(p))
                                                + One(t \in AddsOf(p)') - One(t \in AddsOf(p))
      BY <1>1, <1>2, <3>2
    <3>4. /\ proxies'[p].live <=> proxies[p].live
          /\ proxies[p].live /\ proxies'[p].shim = proxies[p].shim
          /\ proxies'[p].pins = proxies[p].pins /\ proxies'[p].ints = proxies[p].ints
          /\ WiresOf(p)' = WiresOf(p) /\ 1 \in Int
          /\ (proxies'[p].refs = 0 <=> proxies[p].refs = 0)
      BY <1>1, <1>2, <1>12
    <3>5. ProxySum(p)'
      BY <1>0, <1>6, <3>1, <3>3, <3>4, ProxyMoves
    <3> QED
      BY <2>2, <3>5
  <2> QED
    BY <2>1, <2>2
<1>17. Kept'
  <2>1. ASSUME NEW u \in Threads, NEW y \in Proxies, u # t, Keeps(u, y)
        PROVE  /\ shim'[t] # proxies[y].shim /\ Op("release", y) \notin {a, b}
               /\ Op("release_stub", proxies[y].shim) \notin {a, b}
    <3>1. proxies[y].pins > 0 /\ shim[t] # proxies[y].shim
      BY <1>0, <2>1, KeeperFacts
    <3>2. y # p
      BY <1>2, <3>1
    <3> QED
      BY <1>1, <3>1, <3>2, OpsAre DEF a, b
  <2>2. \A y : Op("Unpin_proxy", y) \notin {a, b}
    BY OpsAre DEF a, b
  <2> QED
    BY <1>0, <1>1, <1>5, <1>6, <2>1, <2>2, KeptPlainly
<1>18. ShimTypes'
  BY <1>1, <1>6 DEF ShimInv, ShimTypes
<1> QED
  BY <1>0, <1>1, <1>6, <1>10, <1>11, <1>13, <1>14, <1>15, <1>16, <1>17, <1>18, CallStep

\* The proxy is paired with the object, or the one that is there is taken.
LEMMA ProxyAdded ==
    ASSUME ShimInv, NEW t \in Threads, add1(t)
    PROVE  ShimInv'
BY PairsFirst, PairsLater

\* A thread about to take the proxy, or the object, that is there for the shim already.
Sharing(t, m, x) ==
    /\ x \in Proxies \cup {Object} /\ m \in Modules /\ Arg(t) = <<m, x>> /\ shim[t] \in Stubs
    /\ Len(todo[t]) = 4 /\ LinkAt(t, 4) /\ Place(todo[t], 4).op = "AddRef_listed" /\ Place(todo[t], 4).arg = <<m, x>>
    /\ RestOf(Tail(todo[t]), holds[t], wired[t]) /\ Len(Tail(todo[t])) = 3 /\ Place(Tail(todo[t]), 3).op = "release"
    /\ (\A j \in 1..Len(Tail(todo[t])) : Place(Tail(todo[t]), j).op \in {"release_shim", "release"})
    /\ (\A n : HasIn(Tail(todo[t]), n) <=> n \in {"release", "release_shim"})
    /\ (\A n : HasIn(todo[t], n) <=> n \in {"AddRef_listed", "release", "release_shim"})

\* What is known of a thread about to take what is there.
LEMMA AtListed ==
    ASSUME ShimInv, ~late, NEW t \in Threads, Current(t, "AddRef_listed"), NEW m, NEW x, m = Arg(t)[1], x = Arg(t)[2]
    PROVE  Sharing(t, m, x)
<1> DEFINE r == Tail(todo[t])
<1>1. x \in Proxies \cup {Object} /\ m \in Modules /\ Arg(t) = <<m, x>> /\ Now(t, "AddRef_listed")
  BY OpsAre DEF Current, ArgsOf, Now
<1>3. /\ Len(todo[t]) \in 1..Len(todo[t]) /\ ShapeAt(todo[t], shim[t], holds[t], wired[t], Len(todo[t]))
      /\ LinkAt(t, Len(todo[t])) /\ Place(todo[t], Len(todo[t])).op = "AddRef_listed"
           /\ Place(todo[t], Len(todo[t])).arg = Arg(t)
      /\ ShapeOf(todo[t], shim[t], holds[t], wired[t])
  BY InCall DEF Current
<1>4. Len(todo[t]) = 4 /\ Gives(todo[t], holds[t]) /\ Place(todo[t], 3).op = "release"
  BY <1>3 DEF ShapeAt
<1>7. Grows(r, todo[t], Op("AddRef_listed", Arg(t)))
  BY <1>1, Goings
<1>8. RestOf(r, holds[t], wired[t])
  BY <1>3, <1>7, TailRest
<1> HIDE DEF r
<1>10. /\ Len(r) = 3 /\ Place(r, 3).op = "release" /\ Place(r, 2).op = "release_shim"
       /\ \A j \in 1..Len(r) : Place(r, j).op \in {"release_shim", "release"}
  <2>1. Len(r) \in Nat /\ Len(r) + 1 = 4
    BY <1>4, <1>7 DEF Grows
  <2>2. Len(r) = 3
    <3>1. \A i \in Nat : i + 1 = 4 => i = 3
      OBVIOUS
    <3> QED
      BY <2>1, <3>1
  <2>3. 1 \in 1..Len(r) /\ 2 \in 1..Len(r) /\ 3 \in 1..Len(r) /\ \A j \in 1..Len(r) : j = 3 \/ j = 2 \/ j = 1
    BY <2>2
  <2>4. Place(r, 3) = Place(todo[t], 3) /\ Place(r, 2) = Place(todo[t], 2) /\ Place(r, 1) = Place(todo[t], 1)
    BY <1>7, <2>3 DEF Grows
  <2>5. Place(todo[t], 2).op = "release_shim" /\ Place(todo[t], 1).op = "release"
    BY <1>4, OpsAre DEF Gives
  <2> QED
    BY <1>4, <2>2, <2>3, <2>4, <2>5
<1>11. \A n : HasIn(r, n) <=> n \in {"release", "release_shim"}
  <2>1. 2 \in 1..Len(r) /\ 3 \in 1..Len(r)
    BY <1>10
  <2> QED
    BY <1>10, <2>1 DEF HasIn
<1>12. \A n : HasIn(todo[t], n) <=> n \in {"AddRef_listed", "release", "release_shim"}
  <2>1. \A n : HasIn(todo[t], n) <=> n = "AddRef_listed" \/ HasIn(r, n)
    BY <1>7, GrowsHas, OpsAre
  <2> QED
    BY <1>11, <2>1
<1>13. shim[t] \in Stubs
  <2>1. 2 \in 1..Len(todo[t]) /\ Place(todo[t], 2).op = "release_shim"
    BY <1>4 DEF Gives
  <2>2. ShapeAt(todo[t], shim[t], holds[t], wired[t], 2)
    BY <2>1, InCall
  <2>3. ~Shimless(todo[t])
    BY <1>12 DEF Shimless
  <2> QED
    BY <2>1, <2>2, <2>3 DEF ShapeAt
<1> QED
  BY <1>1, <1>3, <1>4, <1>8, <1>10, <1>11, <1>12, <1>13 DEF r, Sharing

\* Whatever it is that is taken: what the thread is left with.
Shared(t, m, x) ==
    /\ holds' \in [Threads -> Modules \X (Proxies \cup {Object, Nothing})] /\ holds'[t] = <<m, x>>
    /\ UNCHANGED <<stubs, holders, shim, wired, calls>>
    /\ todo' \in Lists /\ Counted(todo') /\ OthersSame(t) /\ StillWaits /\ Grown(t, {})
    /\ ShapeOf(todo[t], shim[t], holds[t], wired[t])'
    /\ \A j \in 1..Len(todo'[t]) : LinkAt(t, j)'
    /\ \A y \in Proxies \cup {Object} : t \notin HandsOf(y) /\ (t \in HandsOf(y)' <=> y = x)
    /\ \A y \in Proxies \cup {Object} : y # x => HandsOf(y)' = HandsOf(y)
    /\ \A y \in Proxies : WiresOf(y)' = WiresOf(y) /\ AddsOf(y)' = AddsOf(y) /\ t \notin AddsOf(y)
    /\ \A y \in Stubs : ShimsAt(y)' = ShimsAt(y)

\* What is known of a thread that has taken what was there.
LEMMA SharedBy ==
    ASSUME ShimInv, NEW t \in Threads, AddRef_listed(t), NEW m, NEW x, Sharing(t, m, x)
    PROVE  Shared(t, m, x)
<1> DEFINE r == Tail(todo[t])
<1>0. Now(t, "AddRef_listed") /\ ~late
  BY DEF AddRef_listed, Now
<1>2. /\ x \in Proxies \cup {Object} /\ m \in Modules /\ Arg(t) = <<m, x>> /\ shim[t] \in Stubs
      /\ Len(todo[t]) = 4
      /\ RestOf(r, holds[t], wired[t]) /\ Len(r) = 3 /\ Place(r, 3).op = "release"
      /\ (\A j \in 1..Len(r) : Place(r, j).op \in {"release_shim", "release"})
      /\ (\A n : HasIn(r, n) <=> n \in {"release", "release_shim"})
      /\ (\A n : HasIn(todo[t], n) <=> n \in {"AddRef_listed", "release", "release_shim"})
  BY DEF Sharing
<1>1. UNCHANGED <<stubs, holders, shim, wired, calls>> /\ holds' = [holds EXCEPT ![t] = Arg(t)] /\ Then(t, <<>>)
  BY DEF AddRef_listed
<1>4. Goes0(t, "AddRef_listed") /\ todo'[t] = r /\ Stepped(t, "AddRef_listed")
  BY <1>0, <1>1, ThenGoes, Goings DEF Goes0
<1>5. StillWaits /\ Grown(t, {})
  BY <1>4, StillWaiting, PlacesAre DEF Counting, Releasing
<1> HIDE DEF r
<1>h. /\ holds' \in [Threads -> Modules \X (Proxies \cup {Object, Nothing})]
      /\ holds'[t] = <<m, x>> /\ \A u \in Threads : u # t => holds'[u] = holds[u]
  <2>1. <<m, x>> \in Modules \X (Proxies \cup {Object, Nothing})
    BY <1>2
  <2> QED
    BY <1>1, <1>2, <2>1 DEF ShimInv, ShimTypes
<1>6. todo' \in Lists /\ Counted(todo') /\ OthersSame(t)
  BY <1>1, <1>4, <1>h, OthersStay DEF OthersSame
<1>8. ShapeOf(todo[t], shim[t], holds[t], wired[t])'
  <2>1. \A j \in 1..Len(r) : RestAt(r, holds'[t], wired[t], j)
    BY <1>2 DEF RestOf, RestAt
  <2>2. RestOf(r, holds'[t], wired[t])
    BY <1>2, <2>1 DEF RestOf
  <2>3. HasIn(r, "release_shim")
    BY <1>2
  <2>4. ShapeOf(r, shim[t], holds'[t], wired[t])
    BY <1>2, <2>2, <2>3, RestShape
  <2> QED
    BY <1>1, <1>4, <2>4
<1>9. \A j \in 1..Len(todo'[t]) : LinkAt(t, j)'
  BY <1>2, <1>4 DEF LinkAt
<1>10. Handing(t) /\ ~Handing(t)'
  BY <1>2, <1>4 DEF Handing, Has
<1>11. \A y \in Proxies \cup {Object} : t \notin HandsOf(y) /\ (t \in HandsOf(y)' <=> y = x)
  BY <1>h, <1>10 DEF HandsOf, Hold
<1>12. \A y \in Proxies : t \notin AddsOf(y)' /\ t \notin AddsOf(y)
  BY <1>2, <1>4 DEF AddsOf, Adding
<1>13. \A y \in Proxies : t \in WiresOf(y)' <=> t \in WiresOf(y)
  BY <1>1 DEF WiresOf
<1>14. \A y \in Stubs : t \in ShimsAt(y)' <=> t \in ShimsAt(y)
  <2>1. ~Has(t, "AddRef_found")' /\ ~Has(t, "AddRef_found")
    BY <1>2, <1>4 DEF Has
  <2> QED
    BY <1>1, <2>1 DEF ShimsAt
<1>15. /\ \A y \in Proxies \cup {Object} : Changed(HandsOf(y), HandsOf(y)', t)
       /\ \A y \in Proxies : Changed(AddsOf(y), AddsOf(y)', t) /\ Changed(WiresOf(y), WiresOf(y)', t)
       /\ \A y \in Stubs : Changed(ShimsAt(y), ShimsAt(y)', t)
  BY <1>0, <1>6, SizesMove
<1>16. /\ \A y \in Proxies \cup {Object} : y # x => HandsOf(y)' = HandsOf(y)
       /\ \A y \in Proxies : WiresOf(y)' = WiresOf(y) /\ AddsOf(y)' = AddsOf(y)
       /\ \A y \in Stubs : ShimsAt(y)' = ShimsAt(y)
  BY <1>11, <1>12, <1>13, <1>14, <1>15 DEF Changed
<1> QED
  BY <1>1, <1>5, <1>6, <1>8, <1>9, <1>11, <1>12, <1>16, <1>h DEF Shared

\* In the object's own module the object is taken.
LEMMA SharesObject ==
    ASSUME ShimInv, NEW t \in Threads, AddRef_listed(t), NEW m, Sharing(t, m, Object), Shared(t, m, Object)
    PROVE  ShimInv'
<1>0. ~late
  BY DEF AddRef_listed, Now
<1>1. Arg(t)[2] = Object
  BY DEF Sharing
<1>2. object' = object + 1 /\ UNCHANGED <<proxies, late>>
  BY <1>1 DEF AddRef_listed
<1>3. UNCHANGED <<stubs, holders, shim, wired, calls>> /\ OthersSame(t) /\ StillWaits /\ Grown(t, {})
           /\ Counted(todo')
      /\ todo' \in Lists /\ holds' \in [Threads -> Modules \X (Proxies \cup {Object, Nothing})]
      /\ holds'[t] = <<m, Object>>
  BY DEF Shared
<1>4. Object \notin Proxies
  BY DEF ShimInv, ShimAssumption, Object
<1>5. /\ Maps' /\ Referred' = Referred /\ Twice' = Twice /\ Pins'
      /\ \A y : ProxiesFor(y)' = ProxiesFor(y) /\ PinnedFor(y)' = PinnedFor(y)
      /\ \A u \in Threads : Steady(u)
  BY <1>0, <1>2, <1>3, StillWaitsFor, NothingMoved
<1>6. ObjectSum'
  <2>1. Waits(todo', Op("release", Object)) = Waits(todo, Op("release", Object)) + 0
    <3>1. Waits(todo', Op("release", Object)) = Waits(todo, Op("release", Object))
      BY <1>3, StillWaitsFor
    <3>2. Waits(todo, Op("release", Object)) \in Nat
      BY <1>0, OpsOf, OnePopped, OnePushed DEF ShimInv, Sums
    <3> QED
      BY <3>1, <3>2
  <2>2. t \in HandsOf(Object)' /\ t \notin HandsOf(Object)
    BY DEF Shared
  <2>3. One(t \in HandsOf(Object)') = 1 /\ One(t \in HandsOf(Object)) = 0
    BY <2>2 DEF One
  <2>4. object' = object + 0 + One(t \in HandsOf(Object)') - One(t \in HandsOf(Object))
    <3>1. object \in Int
      BY DEF ShimInv, ShimTypes
    <3> QED
      BY <1>2, <2>3, <3>1
  <2>5. 0 \in Int
    OBVIOUS
  <2> QED
    BY <1>0, <1>3, <1>5, <2>1, <2>4, <2>5, ObjectMoves
<1>7. \A y \in Stubs : StubSum(y)'
  BY <1>0, <1>2, <1>3, <1>5, StillWaitsFor, StubSame DEF Shared
<1>8. ASSUME NEW y \in Proxies PROVE ProxySum(y)'
  <2>1. HandsOf(y)' = HandsOf(y) /\ AddsOf(y)' = AddsOf(y) /\ WiresOf(y)' = WiresOf(y)
    BY <1>4 DEF Shared
  <2> QED
    BY <1>0, <1>2, <1>3, <2>1, ProxyStays
<1>9. Linked(t)'
  <2>1. m = Home
    <3>1. LinkAt(t, 4) /\ Place(todo[t], 4).op = "AddRef_listed" /\ Place(todo[t], 4).arg = <<m, Object>>
      BY DEF Sharing
    <3> QED
      BY <1>4, <3>1 DEF LinkAt
  <2>2. Hold(t)' = Object /\ holds'[t][1] = Home
    BY <1>3, <2>1 DEF Hold
  <2>3. \A j \in 1..Len(todo'[t]) : LinkAt(t, j)'
    BY DEF Shared
  <2> QED
    BY <1>4, <2>2, <2>3 DEF Linked
<1>10. Kept'
  <2>1. ASSUME NEW u \in Threads, NEW y \in Proxies, u # t, Keeps(u, y) PROVE shim'[t] # proxies[y].shim
    BY <1>0, <1>3, <2>1, KeeperFacts
  <2> QED
    BY <1>0, <1>2, <1>3, <2>1, KeptPlainly
<1>11. ShimTypes'
  <2>1. object' \in Int
    BY <1>2 DEF ShimInv, ShimTypes
  <2> QED
    BY <1>2, <1>3, <2>1 DEF ShimInv, ShimTypes
<1>12. ShapeOf(todo[t], shim[t], holds[t], wired[t])'
  BY DEF Shared
<1> QED
  BY <1>0, <1>2, <1>3, <1>5, <1>6, <1>7, <1>8, <1>9, <1>10, <1>11, <1>12, CallStep

\* In another the proxy is taken, or it had ended.
LEMMA SharesProxy ==
    ASSUME ShimInv, NEW t \in Threads, AddRef_listed(t), NEW m, NEW x \in Proxies, Sharing(t, m, x), Shared(t, m, x)
    PROVE  ShimInv'
<1>0. ~late
  BY DEF AddRef_listed, Now
<1>1. Arg(t)[2] = x /\ m \in Modules
  BY DEF Sharing
<1>4. x # Object
  BY DEF ShimInv, ShimAssumption, Object
<1> DEFINE k == proxies[x].refs + 1
<1>2. object' = object /\ late' = (proxies[x].refs = 0) /\ proxies' = PutRefs(proxies, x, k)
  BY <1>1, <1>4 DEF AddRef_listed, PutRefs
<1>f. /\ proxies' \in [Proxies -> ProxyKind]
      /\ proxies'[x].refs = k /\ proxies'[x].ints = proxies[x].ints /\ proxies'[x].pins = proxies[x].pins
      /\ proxies'[x].live = proxies[x].live /\ proxies'[x].shim = proxies[x].shim
      /\ \A y \in Proxies : y # x => proxies'[y] = proxies[y]
  <2>1. proxies \in [Proxies -> ProxyKind] /\ k \in Int
    BY KindsAre
  <2> HIDE DEF k
  <2> QED
    BY <1>2, <2>1, ProxyPuts
<1>3. UNCHANGED <<stubs, holders, shim, wired, calls>> /\ OthersSame(t) /\ StillWaits /\ Grown(t, {})
           /\ Counted(todo')
      /\ todo' \in Lists /\ holds' \in [Threads -> Modules \X (Proxies \cup {Object, Nothing})]
      /\ holds'[t] = <<m, x>>
  BY DEF Shared
<1>5. ShimTypes'
  <2>1. late' \in BOOLEAN
    BY <1>2
  <2> QED
    BY <1>2, <1>3, <1>f, <2>1 DEF ShimInv, ShimTypes
<1>6. CASE proxies[x].refs = 0
  BY <1>2, <1>5, <1>6 DEF ShimInv
<1>7. CASE proxies[x].refs # 0
  <2>1. proxies[x].refs \in Nat /\ proxies[x].refs >= 1 /\ proxies[x].live /\ proxies[x].shim \in Stubs
    <3>1. proxies[x].refs \in Nat /\ (proxies[x].refs > 0 => proxies[x].live) /\ (proxies[x].live
               => proxies[x].shim \in Stubs)
      BY <1>0, ProxyFacts
    <3> QED
      BY <1>7, <3>1
  <2>2. late' = late
    <3>1. late \in BOOLEAN /\ (late' <=> proxies[x].refs = 0) /\ late' \in BOOLEAN
      BY <1>2 DEF ShimInv, ShimTypes
    <3> QED
      BY <1>0, <1>7, <3>1
  <2>s. PICK s \in Stubs : s = proxies[x].shim
    BY <2>1
  <2>3. <<m, x, s>> \in holders /\ IsListed(s)
    <3>1. LinkAt(t, 4) /\ Place(todo[t], 4).op = "AddRef_listed" /\ Place(todo[t], 4).arg = <<m, x>>
      BY DEF Sharing
    <3> QED
      BY <1>4, <1>7, <2>s, <3>1 DEF LinkAt
  <2>4. IsShared(x) /\ proxies[x].pins = 0
    <3>1. ~(proxies[x].pins > 0)
      BY <1>0, <2>s, <2>3, ListedUnpinned
    <3>2. proxies[x].pins \in Nat
      BY <1>0, ProxyFacts
    <3> QED
      BY <1>1, <2>3, <3>1, <3>2 DEF IsShared
  <2>5. /\ Referred' = Referred /\ Twice' = Twice
        /\ \A y : ProxiesFor(y)' = ProxiesFor(y) /\ PinnedFor(y)' = PinnedFor(y)
    <3>1. \A y \in Proxies : (proxies'[y].refs > 0 <=> proxies[y].refs > 0) /\ proxies'[y].shim = proxies[y].shim
                             /\ proxies'[y].pins = proxies[y].pins
      BY <1>f, <2>1
    <3> QED
      BY <1>3, <3>1 DEF Referred, Twice, ProxiesFor, PinnedFor
  <2>6. ObjectSum'
    <3>1. HandsOf(Object)' = HandsOf(Object)
      BY <1>4 DEF Shared
    <3>2. Waits(todo', Op("release", Object)) = Waits(todo, Op("release", Object))
      BY <1>3, StillWaitsFor
    <3> QED
      BY <1>0, <1>2, <2>5, <3>1, <3>2, ObjectStays
  <2>7. \A y \in Stubs : StubSum(y)'
    <3>1. \A y \in Stubs : ShimsAt(y)' = ShimsAt(y)
      BY DEF Shared
    <3> QED
      BY <1>0, <1>3, <2>5, <3>1, StillWaitsFor, StubSame
  <2>8. ASSUME NEW y \in Proxies PROVE ProxySum(y)'
    <3>1. CASE y # x
      <4>1. HandsOf(y)' = HandsOf(y) /\ AddsOf(y)' = AddsOf(y) /\ WiresOf(y)' = WiresOf(y)
        BY <3>1 DEF Shared
      <4> QED
        BY <1>0, <1>3, <1>f, <3>1, <4>1, ProxyStays
    <3>2. CASE y = x
      <4>1. /\ Waits(todo', Op("Internal_Release", x)) = Waits(todo, Op("Internal_Release", x))
            /\ Waits(todo', Op("Unpin_proxy", x)) = Waits(todo, Op("Unpin_proxy", x))
            /\ Waits(todo', Op("Destruct_proxy", x)) = Waits(todo, Op("Destruct_proxy", x))
            /\ Waits(todo', Op("release", x)) = Waits(todo, Op("release", x)) + 0
        <5>1. Waits(todo, Op("release", x)) \in Nat
          BY <1>0, ProxyFacts
        <5> QED
          BY <1>3, <5>1, StillWaitsFor
      <4>2. /\ t \in HandsOf(x)' /\ t \notin HandsOf(x) /\ t \notin AddsOf(x) /\ t \notin AddsOf(x)'
                 /\ WiresOf(x)' = WiresOf(x)
        BY DEF Shared
      <4>3. /\ One(t \in HandsOf(x)') = 1 /\ One(t \in HandsOf(x)) = 0
            /\ One(t \in AddsOf(x)') = 0 /\ One(t \in AddsOf(x)) = 0
        BY <4>2 DEF One
      <4>4. proxies'[x].refs = proxies[x].refs + 0 + One(t \in HandsOf(x)') - One(t \in HandsOf(x))
                                                  + One(t \in AddsOf(x)') - One(t \in AddsOf(x))
        BY <1>f, <2>1, <4>3
      <4>5. /\ proxies'[x].live <=> proxies[x].live
            /\ proxies[x].live /\ proxies'[x].shim = proxies[x].shim
            /\ proxies'[x].pins = proxies[x].pins /\ proxies'[x].ints = proxies[x].ints
            /\ 0 \in Int
            /\ (proxies'[x].refs = 0 <=> proxies[x].refs = 0)
        BY <1>f, <2>1
      <4>6. ProxySum(x)'
        BY <1>0, <1>3, <4>1, <4>2, <4>4, <4>5, ProxyMoves
      <4> QED
        BY <3>2, <4>6
    <3> QED
      BY <3>1, <3>2
  <2>9. Linked(t)'
    <3>1. Hold(t)' = x /\ holds'[t][1] = m
      BY <1>3 DEF Hold
    <3>2. <<m, x, proxies'[x].shim>> \in holders' /\ <<Home, Object, proxies'[x].shim>> \in holders'
      BY <1>3, <1>f, <2>s, <2>3 DEF IsListed
    <3>3. \A j \in 1..Len(todo'[t]) : LinkAt(t, j)'
      BY DEF Shared
    <3> QED
      BY <1>4, <3>1, <3>2, <3>3 DEF Linked, IsListed
  <2>10. Maps'
    <3>1. \A y \in Proxies : (proxies'[y].live <=> proxies[y].live) /\ proxies'[y].shim = proxies[y].shim
      BY <1>f
    <3>2. Maps
      BY <1>0 DEF ShimInv
    <3>3. Object \notin Proxies
      BY DEF ShimInv, ShimAssumption, Object
    <3> QED
      BY <1>3, <3>1, <3>2, <3>3 DEF Maps, IsListed
  <2>11. Pins'
    <3>1. Pins
      BY <1>0 DEF ShimInv
    <3>2. ASSUME NEW y \in Proxies, proxies'[y].pins > 0
          PROVE  proxies'[y].refs <= 1 /\ ~(<<Home, Object, proxies'[y].shim>> \in holders') /\ ~IsShared(y)'
      <4>1. y # x
        BY <1>f, <2>4, <3>2
      <4>2. proxies'[y] = proxies[y] /\ proxies[y].pins > 0
        BY <1>f, <3>2, <4>1
      <4>3. proxies[y].refs <= 1 /\ ~IsListed(proxies[y].shim) /\ ~IsShared(y)
        BY <3>1, <4>2 DEF Pins
      <4> QED
        BY <1>3, <4>2, <4>3 DEF IsListed, IsShared
    <3>3. \A y \in Stubs : Waits(todo', Op("release_pin", y)) > 0 => stubs[y].refs = 0
      BY <1>3, <3>1, StillWaitsFor DEF Pins
    <3> QED
      BY <1>3, <3>1, <3>2, <3>3 DEF Pins, IsListed
  <2>12. ASSUME NEW u \in Threads, u # t PROVE Steady(u)
    <3>0. \A z : IsListed(z)' <=> IsListed(z)
      BY <1>3 DEF IsListed
    <3>1. ASSUME NEW z \in Stubs, Private(z) PROVE Private(z)'
      BY <1>3, <3>0, <3>1 DEF Private
    <3>2. ASSUME NEW y \in Proxies, NEW z \in Stubs, todo[u] # <<>>, Head(todo[u]) = Op("Pin", y), proxies[y].shim = z
          PROVE  /\ stubs'[z].refs = 2 /\ stubs'[z].pins = 0 /\ ~IsListed(z)'
                 /\ proxies'[y].refs = 1 /\ proxies'[y].pins = 0 /\ ~IsShared(y)'
      <4>1. /\ stubs[z].refs = 2 /\ stubs[z].pins = 0 /\ ~IsListed(z)
            /\ proxies[y].refs = 1 /\ proxies[y].pins = 0 /\ ~IsShared(y)
        BY <1>0, <3>2, PinAhead
      <4>2. y # x
        BY <2>4, <4>1
      <4>3. ~IsShared(y)'
        BY <1>3, <4>1 DEF IsShared
      <4> QED
        BY <1>3, <1>f, <3>0, <4>1, <4>2, <4>3
    <3>3. \A y \in Proxies : proxies[y].refs > 0 => proxies'[y].live /\ proxies'[y].shim = proxies[y].shim
      BY <1>0, <1>f, ProxyFacts
    <3>4. \A y \in Proxies : proxies[y].refs = 0 => proxies'[y].refs = 0
      BY <1>7, <1>f
    <3>5. \A y \in Proxies : proxies[y].pins = 0 => proxies'[y].pins = 0
      BY <1>f
    <3> QED
      BY <1>3, <3>0, <3>1, <3>2, <3>3, <3>4, <3>5 DEF Steady
  <2>13. Kept'
    <3>1. ASSUME NEW u \in Threads, NEW y \in Proxies, Keeps(u, y)
          PROVE  /\ proxies'[y].shim = proxies[y].shim
                 /\ \A z \in Proxies : z # y /\ proxies'[z].refs > 0 => proxies'[z].shim # proxies[y].shim
                 /\ u # t => shim'[t] # proxies[y].shim
      <4>1. /\ \A z \in Proxies : z # y /\ proxies[z].refs > 0 => proxies[z].shim # proxies[y].shim
            /\ u # t => shim[t] # proxies[y].shim
        BY <1>0, <3>1, KeeperFacts
      <4>2. \A z \in Proxies : (proxies'[z].refs > 0 <=> proxies[z].refs > 0) /\ proxies'[z].shim = proxies[z].shim
        BY <1>f, <2>1
      <4> QED
        BY <1>3, <4>1, <4>2
    <3>2. Undisturbed(t, {})
      BY <3>1 DEF Undisturbed
    <3> QED
      BY <1>0, <1>3, <3>2, KeptStill
  <2>14. ShapeOf(todo[t], shim[t], holds[t], wired[t])'
    BY DEF Shared
  <2> QED
    BY <1>0, <1>3, <1>5, <2>2, <2>6, <2>7, <2>8, <2>9, <2>10, <2>11, <2>12, <2>13, <2>14, CallStep
<1> QED
  BY <1>6, <1>7

\* The object, or the proxy, that is there is taken.
LEMMA Sharings ==
    ASSUME ShimInv, NEW t \in Threads, AddRef_listed(t)
    PROVE  ShimInv'
<1>0. Now(t, "AddRef_listed") /\ ~late
  BY DEF AddRef_listed, Now
<1>1. Current(t, "AddRef_listed")
  BY <1>0, NowIs
<1>2. \E m, x : m = Arg(t)[1] /\ x = Arg(t)[2]
  OBVIOUS
<1>3. PICK m, x : m = Arg(t)[1] /\ x = Arg(t)[2]
  BY <1>2
<1>4. Sharing(t, m, x)
  BY <1>0, <1>1, <1>3, AtListed
<1>5. Shared(t, m, x)
  BY <1>4, SharedBy
<1>6. x \in Proxies \cup {Object}
  BY <1>4 DEF Sharing
<1>7. CASE x = Object
  BY <1>4, <1>5, <1>7, SharesObject
<1>8. CASE x \in Proxies
  BY <1>4, <1>5, <1>8, SharesProxy
<1> QED
  BY <1>6, <1>7, <1>8

\* Nothing is under way, and nothing refers to anything, at first.
LEMMA ShimsAtFirst ==
    ASSUME ShimAssumption, Init
    PROVE  ShimInv
<1>1. \A n : n \in Proxies \cup Stubs => n \in Nat /\ n # 0 /\ n # Object /\ n # Nothing
  BY DEF ShimAssumption, Object, Nothing
<1>2. Object # Nothing /\ Home \in Modules /\ MaxCalls \in Nat
  BY DEF ShimAssumption, Object, Nothing
<1>3. todo \in Lists /\ \A t \in Threads : todo[t] = <<>> /\ Len(todo[t]) = 0 /\ 1..Len(todo[t]) = {}
  <2>1. <<>> \in Seq(Ops) /\ Len(<<>>) = 0 /\ 1..0 = {}
    OBVIOUS
  <2> QED
    BY <2>1 DEF Init, Lists
<1>4. \A o \in Ops : Places(todo, o) = {}
  BY <1>3 DEF Places
<1>5. Counted(todo) /\ \A o \in Ops : Waits(todo, o) = 0
  BY <1>3, <1>4, FS_EmptySet DEF Counted, Waits
<1>6. \A t \in Threads : /\ Hold(t) = Nothing /\ holds[t][1] = Home /\ shim[t] = 0 /\ wired[t] = Nothing
                         /\ \A n : ~HasIn(todo[t], n)
  BY <1>3 DEF Init, Hold, HasIn
<1>7. \A s \in Stubs : /\ stubs[s] = NoStub /\ stubs[s].live = FALSE /\ stubs[s].refs = 0 /\ stubs[s].pins = 0
  BY DEF Init, NoStub
<1>8. \A p \in Proxies : /\ proxies[p] = NoProxy /\ proxies[p].live = FALSE /\ proxies[p].refs = 0
                         /\ proxies[p].ints = 0 /\ proxies[p].pins = 0
  BY DEF Init, NoProxy
<1>9. /\ HandsOf(Object) = {} /\ Referred = {} /\ Twice = {}
      /\ \A s \in Stubs : ShimsAt(s) = {} /\ ProxiesFor(s) = {} /\ PinnedFor(s) = {}
      /\ \A p \in Proxies : HandsOf(p) = {} /\ AddsOf(p) = {} /\ WiresOf(p) = {}
  <2>6. \A x : x # Nothing => HandsOf(x) = {} /\ WiresOf(x) = {}
    BY <1>6 DEF HandsOf, WiresOf
  <2>1. HandsOf(Object) = {} /\ \A p \in Proxies : HandsOf(p) = {} /\ WiresOf(p) = {}
    BY <1>1, <1>2, <2>6
  <2>2. \A p \in Proxies : AddsOf(p) = {}
    <3>1. \A t \in Threads : Len(todo[t]) # 3
      <4>1. \A t \in Threads : Len(todo[t]) = 0
        BY <1>3
      <4> QED
        BY <4>1
    <3> QED
      BY <3>1 DEF AddsOf, Adding
  <2>3. \A s \in Stubs : ShimsAt(s) = {}
    BY <1>1, <1>6 DEF ShimsAt
  <2>4. Referred = {} /\ Twice = {}
    BY <1>7 DEF Referred, Twice
  <2>5. \A s \in Stubs : ProxiesFor(s) = {} /\ PinnedFor(s) = {}
    BY <1>8 DEF ProxiesFor, PinnedFor
  <2> QED
    BY <2>1, <2>2, <2>3, <2>4, <2>5
<1>10. IsFiniteSet({}) /\ Cardinality({}) = 0
  BY FS_EmptySet
<1>11. ShimTypes
  <2>1. NoStub \in StubKind /\ NoProxy \in ProxyKind
    BY DEF NoStub, NoProxy, StubKind, ProxyKind
  <2>4. late \in BOOLEAN /\ object \in Int /\ calls \in 0..MaxCalls
    <3>1. object \in Int /\ calls = 0
      BY DEF Init
    <3>2. calls \in 0..MaxCalls
      BY <1>2, <3>1
    <3>3. late \in BOOLEAN
      BY Zenon DEF Init
    <3> QED
      BY <3>1, <3>2, <3>3
  <2>5. /\ shim \in [Threads -> Stubs \cup {0}] /\ wired \in [Threads -> Proxies \cup {Nothing}]
        /\ holders \subseteq Modules \X (Proxies \cup {Object}) \X Stubs
    BY DEF Init
  <2>2. stubs \in [Stubs -> StubKind] /\ proxies \in [Proxies -> ProxyKind]
    BY <2>1 DEF Init
  <2>3. holds \in [Threads -> Modules \X (Proxies \cup {Object, Nothing})]
    BY <1>2 DEF Init
  <2> QED
    BY <1>3, <2>2, <2>3, <2>4, <2>5 DEF ShimTypes
<1>12. ObjectSum
  <2>1. Waits(todo, Op("release", Object)) = 0
    BY <1>5, OpsOf
  <2> QED
    BY <1>9, <1>10, <2>1 DEF Init, ObjectSum
<1>13. \A s \in Stubs : StubSum(s)
  <2>1. \A s \in Stubs : /\ Waits(todo, Op("release_stub", s)) = 0 /\ Waits(todo, Op("release_pin", s)) = 0
                         /\ Waits(todo, Op("Destruct_stub", s)) = 0
    BY <1>5, OpsOf
  <2> QED
    BY <1>7, <1>9, <1>10, <2>1 DEF StubSum, One
<1>14. \A p \in Proxies : ProxySum(p)
  <2>1. \A p \in Proxies : /\ Waits(todo, Op("release", p)) = 0 /\ Waits(todo, Op("Internal_Release", p)) = 0
                           /\ Waits(todo, Op("Unpin_proxy", p)) = 0 /\ Waits(todo, Op("Destruct_proxy", p)) = 0
    BY <1>5, OpsOf
  <2> QED
    BY <1>8, <1>9, <1>10, <2>1 DEF ProxySum, One
<1>15. Shapes
  BY <1>3, <1>6 DEF Shapes, ShapeOf
<1>16. Links
  BY <1>1, <1>2, <1>3, <1>6 DEF Links, Linked
<1>17. Maps
  BY DEF Init, Maps, IsListed
<1>18. Pins
  <2>1. \A s \in Stubs : Waits(todo, Op("release_pin", s)) = 0
    BY <1>5, OpsOf
  <2> QED
    BY <1>7, <1>8, <2>1 DEF Pins
<1>19. Kept
  BY <1>1, <1>3, <1>6 DEF Kept, Keeps
<1> QED
  BY <1>5, <1>11, <1>12, <1>13, <1>14, <1>15, <1>16, <1>17, <1>18, <1>19 DEF ShimInv, Sums

\* A step of nobody changes nothing.
LEMMA ShimsAtRest ==
    ASSUME ShimInv, UNCHANGED vars
    PROVE  ShimInv'
<1>1. UNCHANGED <<object, stubs, proxies, holders, todo, shim, holds, wired, late, calls>>
  BY DEF vars
<1>2. ShimTypes'
  BY <1>1 DEF ShimInv, ShimTypes
<1>3. ASSUME ~late
      PROVE  /\ Counted(todo') /\ ObjectSum'
             /\ \A s \in Stubs : StubSum(s)'
             /\ \A p \in Proxies : ProxySum(p)'
             /\ Shapes' /\ (\A u \in Threads : Linked(u)')
             /\ Maps' /\ Pins' /\ Kept'
  <2>1. Counted(todo') /\ Shapes' /\ Maps'
    BY <1>1, <1>3 DEF ShimInv, Sums, Shapes, Maps, IsListed
  <2>2. /\ Referred' = Referred /\ Twice' = Twice
        /\ \A s : ProxiesFor(s)' = ProxiesFor(s) /\ PinnedFor(s)' = PinnedFor(s)
        /\ Pins' /\ \A u \in Threads : Steady(u)
    BY <1>1, <1>3, NothingMoved
  <2>3. \A u \in Threads : \A n : Has(u, n)' <=> Has(u, n)
    BY <1>1 DEF Has
  <2>4. \A u \in Threads : Hold(u)' = Hold(u) /\ (Handing(u)' <=> Handing(u))
    BY <1>1, <2>3 DEF Hold, Handing
  <2>5. /\ \A x : HandsOf(x)' = HandsOf(x)
        /\ \A p : AddsOf(p)' = AddsOf(p) /\ WiresOf(p)' = WiresOf(p)
        /\ \A s : ShimsAt(s)' = ShimsAt(s)
    BY <1>1, <2>3, <2>4 DEF HandsOf, AddsOf, WiresOf, ShimsAt
  <2>6. ObjectSum'
    BY <1>1, <1>3, <2>2, <2>5, ObjectStays
  <2>7. \A s \in Stubs : StubSum(s)'
    BY <1>1, <1>3, <2>2, <2>5, StubSame
  <2>8. \A p \in Proxies : ProxySum(p)'
    BY <1>1, <1>3, <2>5, ProxySame
  <2>9. ASSUME NEW u \in Threads PROVE Linked(u)'
    <3>1. SameCall(u)
      BY <1>1 DEF SameCall
    <3> QED
      BY <1>3, <2>2, <3>1, LinkedStill
  <2>10. Kept'
    <3>1. Kept
      BY <1>3 DEF ShimInv
    <3>2. \A u \in Threads : \A p \in Proxies : (Keeps(u, p)' <=> Keeps(u, p)) /\ (Owns(u, p) => Owns(u, p)')
      BY <1>1 DEF Keeps, Owns, ProxiesFor
    <3> QED
      BY <3>1, <3>2 DEF Kept
  <2> QED
    BY <2>1, <2>2, <2>6, <2>7, <2>8, <2>9, <2>10
<1> QED
  BY <1>1, <1>2, <1>3, Assembled

\* Every step keeps the invariant.
LEMMA ShimsGoOn ==
    ASSUME ShimInv, [Next]_vars
    PROVE  ShimInv'
<1>1. CASE UNCHANGED vars
  BY <1>1, ShimsAtRest
<1>2. ASSUME NEW t \in Threads,
             \/ Take(t) \/ Drop(t) \/ CreateWireStub(t) \/ WireStubEnds(t)
             \/ \E m \in Modules : Pass(t, m)
             \/ find(t) \/ AddRef_found(t) \/ new_stub(t) \/ add2(t)
      PROVE  ShimInv'
  BY <1>2, Takes, Drops, WireStubsBegin, WireStubsEnd, Passes, Finds, FoundTaken, StubMade, StubAdded
<1>3. ASSUME NEW t \in Threads,
             \/ bind(t) \/ add1(t) \/ AddRef_listed(t) \/ new_proxy(t) \/ Pin(t)
      PROVE  ShimInv'
  BY <1>3, Binding, ProxyAdded, Sharings, NewProxies, Pinned
<1>4. ASSUME NEW t \in Threads,
             \/ release_shim(t) \/ release(t) \/ Internal_Release(t) \/ Destruct_proxy(t)
             \/ release_stub(t) \/ release_pin(t) \/ Destruct_stub(t) \/ Unpin_proxy(t)
      PROVE  ShimInv'
  BY <1>4, ShimReleases, Releases, InternalReleases, ProxyDestructs, StubReleases, PinReleases, StubDestructs, Unpins
<1> QED
  BY <1>1, <1>2, <1>3, <1>4 DEF Next

\* A proxy that a thread holds is in the map of the module, and its stub in the object's.
LEMMA HeldListed ==
    ASSUME ShimInv, ~late, NEW t \in Threads, Hold(t) \in Proxies
    PROVE  LET p == Hold(t) s == proxies[p].shim IN
           /\ p # Object /\ proxies[p].refs >= 1 /\ s \in Stubs /\ p \in ProxiesFor(s) /\ stubs[s].refs >= 1
           /\ <<holds[t][1], p, s>> \in holders /\ IsListed(s) /\ holds[t][1] \in Modules /\ holds[t][1] # Home
<1> DEFINE p == Hold(t)
           s == proxies[p].shim
           m == holds[t][1]
<1>1. p # Object
  BY DEF ShimInv, ShimAssumption, Object
<1>2. <<m, p, s>> \in holders /\ IsListed(s)
  BY DEF ShimInv, Links, Linked
<1>3. proxies[p].refs >= 1 /\ proxies[p].refs \in Nat
  BY HeldIsReferred, ProxyFacts
<1>4. s \in Stubs /\ p \in ProxiesFor(s) /\ stubs[s].refs >= 1
  BY <1>3, ShimOfProxy
<1>5. m \in Modules
  BY DEF ShimInv, ShimTypes
<1>6. m # Home
  <2>1. Maps
    BY DEF ShimInv
  <2> QED
    BY <1>1, <1>2, <1>4, <1>5, <2>1 DEF Maps
<1> QED
  BY <1>1, <1>2, <1>3, <1>4, <1>5, <1>6

\* The invariant makes for one identity.
LEMMA IdentityHolds == ASSUME ShimInv PROVE OneIdentity
<1> SUFFICES ASSUME ~late PROVE OneIdentity
  BY DEF OneIdentity
<1>1. Maps
  BY DEF ShimInv
<1>2. \A t \in Threads : Hold(t) \in Proxies \cup {Object, Nothing}
  BY DEF ShimInv, ShimTypes, Hold
<1>3. \A t \in Threads : Hold(t) = Object => holds[t][1] = Home
  BY DEF ShimInv, Links, Linked
<1>4. ASSUME NEW t \in Threads, Hold(t) # Nothing, holds[t][1] = Home PROVE Hold(t) = Object
  BY <1>2, <1>4, HeldListed
<1>5. ASSUME NEW t \in Threads, NEW u \in Threads, Hold(t) # Nothing, Hold(u) # Nothing, holds[t][1] = holds[u][1]
      PROVE  Hold(t) = Hold(u)
  <2>1. CASE holds[t][1] = Home
    BY <1>4, <1>5, <2>1
  <2>2. CASE holds[t][1] # Home
    <3>1. Hold(t) \in Proxies /\ Hold(u) \in Proxies
      BY <1>2, <1>3, <1>5, <2>2
    <3>p. PICK p \in Proxies : p = Hold(t)
      BY <3>1
    <3>q. PICK q \in Proxies : q = Hold(u)
      BY <3>1
    <3>m. PICK m \in Modules : m = holds[t][1] /\ m = holds[u][1]
      BY <1>5, <3>1, HeldListed
    <3>2. <<m, p, proxies[p].shim>> \in holders /\ IsListed(proxies[p].shim) /\ proxies[p].shim \in Stubs
      BY <3>1, <3>p, <3>m, HeldListed
    <3>3. <<m, q, proxies[q].shim>> \in holders /\ IsListed(proxies[q].shim) /\ proxies[q].shim \in Stubs
      BY <3>1, <3>q, <3>m, HeldListed
    <3>4. proxies[p].shim = proxies[q].shim
      BY <1>1, <3>2, <3>3 DEF Maps
    <3>5. p = q
      BY <1>1, <3>2, <3>3, <3>4 DEF Maps
    <3> QED
      BY <3>5, <3>p, <3>q
  <2> QED
    BY <2>1, <2>2
<1> QED
  BY <1>4, <1>5 DEF OneIdentity

\* What the references to the object are.
LEMMA ObjectCount ==
    ASSUME ShimInv, ~late
    PROVE  /\ IsFiniteSet(Referred) /\ IsFiniteSet(Twice) /\ IsFiniteSet(HandsOf(Object))
           /\ Cardinality(HandsOf(Object)) \in Nat /\ Cardinality(Referred) \in Nat /\ Cardinality(Twice) \in Nat
           /\ Op("release", Object) \in Ops /\ Waits(todo, Op("release", Object)) \in Nat
           /\ object = 1 + Cardinality(HandsOf(Object)) + Waits(todo, Op("release", Object))
                         + Cardinality(Referred) + Cardinality(Twice)
<1>1. ObjectSum /\ Counted(todo)
  BY DEF ShimInv, Sums
<1>2. Op("release", Object) \in Ops
  BY OpsOf
<1>3. Waits(todo, Op("release", Object)) \in Nat
  BY <1>1, <1>2, FS_CardinalityType DEF Counted, Waits
<1>4. IsFiniteSet(Referred) /\ IsFiniteSet(Twice) /\ IsFiniteSet(HandsOf(Object))
  BY <1>1 DEF ObjectSum
<1>5. Cardinality(HandsOf(Object)) \in Nat /\ Cardinality(Referred) \in Nat /\ Cardinality(Twice) \in Nat
  BY <1>4, SizeIs
<1> QED
  BY <1>1, <1>2, <1>3, <1>4, <1>5 DEF ObjectSum

\* The invariant lets nothing dangle.
LEMMA DanglingNothing == ASSUME ShimInv PROVE NothingDangles
<1> SUFFICES ASSUME ~late PROVE NothingDangles
  BY DEF NothingDangles
<1>1. object >= 1 /\ \A s \in Stubs : stubs[s].refs > 0 => object >= 2
  <2>1. object = 1 + Cardinality(HandsOf(Object)) + Waits(todo, Op("release", Object))
                   + Cardinality(Referred) + Cardinality(Twice)
    BY ObjectCount
  <2>2. /\ Cardinality(HandsOf(Object)) \in Nat /\ Cardinality(Referred) \in Nat /\ Cardinality(Twice) \in Nat
        /\ Waits(todo, Op("release", Object)) \in Nat
    BY ObjectCount
  <2>3. \A s \in Stubs : stubs[s].refs > 0 => Cardinality(Referred) >= 1
    BY ObjectCount, SizeIs DEF Referred
  <2> QED
    BY <2>1, <2>2, <2>3
<1>2. ASSUME NEW p \in Proxies, proxies[p].refs > 0 \/ proxies[p].pins > 0
      PROVE  proxies[p].live /\ stubs[proxies[p].shim].live
  <2>1. proxies[p].live
    BY <1>2, ProxyFacts
  <2>2. /\ proxies[p].shim \in Stubs
        /\ stubs[proxies[p].shim].refs >= 1 \/ stubs[proxies[p].shim].pins >= 1
    BY <1>2, ShimOfProxy
  <2>3. PICK s \in Stubs : s = proxies[p].shim
    BY <2>2
  <2>4. stubs[s].refs \in Nat /\ stubs[s].pins \in Nat /\ (stubs[s].refs > 0 \/ stubs[s].pins > 0 => stubs[s].live)
    BY StubFacts
  <2> QED
    BY <2>1, <2>2, <2>3, <2>4
<1>3. \A s \in Stubs : stubs[s].refs > 0 => stubs[s].live
  BY StubFacts
<1>4. ASSUME NEW t \in Threads, Hold(t) \in Proxies PROVE proxies[Hold(t)].refs > 0
  <2>1. proxies[Hold(t)].refs >= 1 /\ proxies[Hold(t)].refs \in Nat
    BY <1>4, HeldIsReferred, ProxyFacts
  <2> QED
    BY <2>1
<1>5. ASSUME NEW t \in Threads, wired[t] # Nothing PROVE proxies[wired[t]].pins > 0
  <2>1. wired[t] \in Proxies
    BY <1>5 DEF ShimInv, ShimTypes
  <2>2. PICK p \in Proxies : p = wired[t]
    BY <2>1
  <2>3. Keeps(t, p)
    BY <2>2 DEF Keeps
  <2> QED
    BY <2>2, <2>3, KeeperFacts
<1>6. ASSUME NEW t \in Threads, shim[t] # 0 PROVE stubs[shim[t]].refs > 0
  <2>1. shim[t] \in Stubs /\ ShapeOf(todo[t], shim[t], holds[t], wired[t])
    BY <1>6, InCall
  <2>2. PICK s \in Stubs : s = shim[t]
    BY <2>1
  <2>3. /\ Cardinality(ShimsAt(s)) \in Nat /\ Cardinality(ProxiesFor(s)) \in Nat
             /\ Waits(todo, Op("release_stub", s)) \in Nat
        /\ stubs[s].refs = Cardinality(ShimsAt(s)) + Waits(todo, Op("release_stub", s)) + Cardinality(ProxiesFor(s))
        /\ Op("release_stub", s) \in Ops
    BY StubFacts
  <2>4. CASE ~Has(t, "AddRef_found")
    <3>1. t \in ShimsAt(s)
      BY <2>2, <2>4 DEF ShimsAt
    <3>2. IsFiniteSet(ShimsAt(s))
      BY DEF ShimInv, Sums, StubSum
    <3>3. Cardinality(ShimsAt(s)) >= 1
      BY <3>1, <3>2, SizeIs
    <3> QED
      BY <2>2, <2>3, <3>3
  <2>5. CASE Has(t, "AddRef_found")
    <3>1. PICK j \in 1..Len(todo[t]) : Place(todo[t], j).op = "AddRef_found"
      BY <2>5 DEF Has, HasIn
    <3>2. ShapeAt(todo[t], shim[t], holds[t], wired[t], j)
      BY <2>1 DEF ShapeOf
    <3>3. Len(todo[t]) \in {4, 5} /\ (Len(todo[t]) = 4 => shim[t] = 0)
          /\ (Len(todo[t]) # 4 => Place(todo[t], 4) = Op("release_stub", s))
      BY <2>2, <3>1, <3>2 DEF ShapeAt
    <3>4. Place(todo[t], 4) = Op("release_stub", s) /\ 4 \in 1..Len(todo[t])
      BY <1>6, <3>3
    <3>5. 1 <= Waits(todo, Op("release_stub", s))
      <4>1. Counted(todo)
        BY DEF ShimInv, Sums
      <4> QED
        BY <2>3, <3>4, <4>1, WaitsFor
    <3> QED
      BY <2>2, <2>3, <3>5
  <2> QED
    BY <2>4, <2>5
<1> QED
  BY <1>1, <1>2, <1>3, <1>4, <1>5, <1>6 DEF NothingDangles

\* No call under way: only what threads hold, and what their wire stubs pin, counts.
AllIdle == \A t \in Threads : todo[t] = <<>>

\* With no call under way, nothing waits and no thread has a shim.
LEMMA IdleCounts ==
    ASSUME ShimInv, ~late, AllIdle
    PROVE  /\ \A o \in Ops : Waits(todo, o) = 0
           /\ \A x : HandsOf(x) = {t \in Threads : Hold(t) = x}
           /\ \A p \in Proxies : AddsOf(p) = {}
           /\ \A s \in Stubs : ShimsAt(s) = {}
<1>1. \A t \in Threads : Len(todo[t]) = 0 /\ 1..Len(todo[t]) = {}
  BY DEF AllIdle
<1>2. \A o \in Ops : Waits(todo, o) = 0
  <2>1. \A o \in Ops : Places(todo, o) = {}
    BY <1>1 DEF Places
  <2> QED
    BY <2>1, FS_EmptySet DEF Waits
<1>3. \A t \in Threads : ~Handing(t) /\ (\A p : ~Adding(todo[t], p)) /\ \A s \in Stubs : t \notin ShimsAt(s)
  BY Idle DEF AllIdle
<1>4. \A s \in Stubs : ShimsAt(s) = {}
  BY <1>3 DEF ShimsAt
<1> QED
  BY <1>2, <1>3, <1>4 DEF HandsOf, AddsOf

\* The invariant lets nothing leak.
LEMMA LeakingNothing == ASSUME ShimInv PROVE NothingLeaks
<1> SUFFICES ASSUME ~late, AllIdle PROVE NothingLeaks
  BY DEF NothingLeaks, AllIdle
<1>1. /\ \A o \in Ops : Waits(todo, o) = 0
      /\ \A x : HandsOf(x) = {t \in Threads : Hold(t) = x}
      /\ \A p \in Proxies : AddsOf(p) = {}
      /\ \A s \in Stubs : ShimsAt(s) = {}
  BY IdleCounts
<1>2. Cardinality({}) = 0
  BY FS_EmptySet
<1>3. ASSUME NEW p \in Proxies
      PROVE  /\ proxies[p].refs > 0 => HandsOf(p) # {}
             /\ proxies[p].pins > 0 => WiresOf(p) # {}
             /\ proxies[p].live => proxies[p].refs > 0 \/ proxies[p].pins > 0
  <2>1. ProxySum(p)
    BY DEF ShimInv, Sums
  <2>2. /\ Waits(todo, Op("release", p)) = 0 /\ Waits(todo, Op("Internal_Release", p)) = 0
        /\ Waits(todo, Op("Unpin_proxy", p)) = 0 /\ Waits(todo, Op("Destruct_proxy", p)) = 0
    BY <1>1, OpsOf
  <2>3. proxies[p].ints = 0 /\ ~(proxies[p].live /\ proxies[p].refs = 0 /\ proxies[p].pins = 0)
    BY <2>1, <2>2 DEF ProxySum, One
  <2>4. proxies[p].refs \in Nat /\ proxies[p].pins \in Nat
    BY ProxyFacts
  <2>5. Cardinality(HandsOf(p)) \in Nat /\ Cardinality(WiresOf(p)) \in Nat
    BY <2>1, SizeIs DEF ProxySum
  <2>6. proxies[p].refs = Cardinality(HandsOf(p)) /\ proxies[p].pins = Cardinality(WiresOf(p))
    <3>1. proxies[p].refs = Cardinality(HandsOf(p)) + 0 + 0 /\ proxies[p].pins = Cardinality(WiresOf(p)) + 0
      BY <1>1, <1>2, <2>1, <2>2 DEF ProxySum
    <3> QED
      BY <2>5, <3>1
  <2> QED
    BY <1>2, <2>3, <2>4, <2>6
<1>4. ASSUME NEW s \in Stubs
      PROVE  /\ stubs[s].refs \in Nat
             /\ stubs[s].refs > 0 => ProxiesFor(s) # {}
             /\ stubs[s].pins > 0 => PinnedFor(s) # {}
             /\ stubs[s].live => stubs[s].refs > 0 \/ stubs[s].pins > 0
  <2>1. StubSum(s)
    BY DEF ShimInv, Sums
  <2>2. /\ Waits(todo, Op("release_stub", s)) = 0 /\ Waits(todo, Op("release_pin", s)) = 0
        /\ Waits(todo, Op("Destruct_stub", s)) = 0
    BY <1>1, OpsOf
  <2>3. ~(stubs[s].live /\ stubs[s].refs = 0 /\ stubs[s].pins = 0)
    BY <2>1, <2>2 DEF StubSum, One
  <2>4. /\ stubs[s].refs \in Nat /\ stubs[s].pins \in Nat
        /\ Cardinality(ProxiesFor(s)) \in Nat /\ Cardinality(PinnedFor(s)) \in Nat
    BY StubFacts
  <2>5. stubs[s].refs = Cardinality(ProxiesFor(s)) /\ stubs[s].pins = Cardinality(PinnedFor(s))
    <3>1. stubs[s].refs = 0 + 0 + Cardinality(ProxiesFor(s)) /\ stubs[s].pins = 0 + Cardinality(PinnedFor(s))
      BY <1>1, <1>2, <2>1, <2>2 DEF StubSum
    <3> QED
      BY <2>4, <3>1
  <2> QED
    BY <1>2, <2>3, <2>4, <2>5
<1>5. ASSUME NEW s \in Stubs, stubs[s].refs > 0
      PROVE  IsListed(s) /\ \E t \in Threads : Hold(t) \in Proxies
  <2>1. PICK p \in Proxies : proxies[p].refs > 0 /\ proxies[p].shim = s
    BY <1>4, <1>5 DEF ProxiesFor
  <2>2. PICK t \in Threads : Hold(t) = p
    BY <1>1, <1>3, <2>1
  <2>3. IsListed(proxies[Hold(t)].shim)
    BY <2>2, HeldListed
  <2> QED
    BY <2>1, <2>2, <2>3
<1>6. Twice = {}
  <2> SUFFICES ASSUME NEW s \in Stubs, stubs[s].refs = 2, stubs[s].pins > 0 PROVE FALSE
    BY DEF Twice
  <2>1. IsListed(s)
    BY <1>5
  <2>2. PICK p \in Proxies : proxies[p].pins > 0 /\ proxies[p].shim = s
    BY <1>4 DEF PinnedFor
  <2> QED
    BY <2>1, <2>2, ListedUnpinned
<1>7. Cardinality(Referred) = IF \E t \in Threads : Hold(t) \in Proxies THEN 1 ELSE 0
  <2>1. CASE \E t \in Threads : Hold(t) \in Proxies
    <3>1. PICK t \in Threads : Hold(t) \in Proxies
      BY <2>1
    <3>2. PICK s \in Stubs : stubs[s].refs >= 1 /\ IsListed(s)
      BY <3>1, HeldListed
    <3>3. s \in Referred
      BY <1>4, <3>2 DEF Referred
    <3>4. \A r \in Referred : r = s
      <4>1. Maps
        BY DEF ShimInv
      <4>2. ASSUME NEW r \in Stubs, stubs[r].refs > 0 PROVE r = s
        <5>1. IsListed(r)
          BY <1>5, <4>2
        <5> QED
          BY <3>2, <4>1, <5>1 DEF Maps
      <4> QED
        BY <4>2 DEF Referred
    <3>5. Referred = {s}
      BY <3>3, <3>4
    <3> QED
      BY <2>1, <3>5, FS_Singleton
  <2>2. CASE ~\E t \in Threads : Hold(t) \in Proxies
    <3>1. Referred = {}
      BY <1>5, <2>2 DEF Referred
    <3> QED
      BY <1>2, <2>2, <3>1
  <2> QED
    BY <2>1, <2>2
<1>8. object = 1 + Cardinality(HandsOf(Object)) + Cardinality(Referred)
  <2>1. object = 1 + Cardinality(HandsOf(Object)) + Waits(todo, Op("release", Object))
                   + Cardinality(Referred) + Cardinality(Twice)
    BY ObjectCount
  <2>2. Waits(todo, Op("release", Object)) = 0 /\ Cardinality(Twice) = 0
    BY <1>1, <1>2, <1>6, OpsOf
  <2>3. Cardinality(HandsOf(Object)) \in Nat /\ Cardinality(Referred) \in Nat
    BY ObjectCount
  <2> QED
    BY <2>1, <2>2, <2>3
<1>9. \A p \in Proxies : proxies[p].live => \E t \in Threads : Hold(t) = p \/ wired[t] = p
  BY <1>1, <1>3 DEF WiresOf
<1>10. ASSUME NEW s \in Stubs, stubs[s].live PROVE \E p \in Proxies : proxies[p].live /\ proxies[p].shim = s
  <2>1. PICK p \in Proxies : proxies[p].shim = s /\ (proxies[p].refs > 0 \/ proxies[p].pins > 0)
    BY <1>4, <1>10 DEF ProxiesFor, PinnedFor
  <2>2. proxies[p].live
    BY <2>1, ProxyFacts
  <2> QED
    BY <2>1, <2>2
<1>11. object = 1 + Cardinality({t \in Threads : Hold(t) = Object})
                  + (IF \E t \in Threads : Hold(t) \in Proxies THEN 1 ELSE 0)
  <2>1. HandsOf(Object) = {t \in Threads : Hold(t) = Object}
    BY <1>1
  <2> HIDE DEF Hold
  <2> QED
    BY <1>7, <1>8, <2>1
<1> QED
  BY <1>9, <1>10, <1>11 DEF NothingLeaks

\* The counts are never below zero, not even when something that had ended was found.
LEMMA CountsAreNatural == ASSUME ShimInv, ~late PROVE TypeOK
<1>1. object \in Nat
  BY ObjectCount
<1>2. \A s \in Stubs : stubs[s].refs \in Nat /\ stubs[s].pins \in Nat
  BY StubFacts
<1>3. \A p \in Proxies : proxies[p].refs \in Nat /\ proxies[p].shim \in Stubs \cup {0}
  BY ProxyFacts, KindsAre
<1> QED
  BY <1>1, <1>2, <1>3 DEF TypeOK, ShimInv, ShimTypes

\* The step that finds something ended counts up only.
LEMMA CountsOfTheLate ==
    ASSUME ShimInv, ShimInv', TypeOK, [Next]_vars, late'
    PROVE  TypeOK'
<1>1. /\ calls' \in 0..MaxCalls /\ holders' \subseteq Modules \X (Proxies \cup {Object}) \X Stubs
      /\ stubs' \in [Stubs -> StubKind] /\ proxies' \in [Proxies -> ProxyKind]
  BY DEF ShimInv, ShimTypes
<1>2. \A p \in Proxies : proxies'[p].shim \in Stubs \cup {0}
  BY <1>1 DEF ProxyKind
<1>3. /\ object' \in Nat
      /\ \A s \in Stubs : stubs'[s].refs \in Nat /\ stubs'[s].pins \in Nat
      /\ \A p \in Proxies : proxies'[p].refs \in Nat
  <2>1. CASE late \/ UNCHANGED vars
    <3>1. UNCHANGED <<object, stubs, proxies>>
      BY <2>1 DEF vars, Next, Take, Drop, CreateWireStub, WireStubEnds, Pass, Begins, Now, find, AddRef_found,
           new_stub,
         add2, bind, add1, AddRef_listed, new_proxy, Pin, release_shim, release, Internal_Release, Destruct_proxy,
         release_stub, release_pin, Destruct_stub, Unpin_proxy
    <3> QED
      BY <3>1 DEF TypeOK
  <2>2. CASE ~late /\ ~UNCHANGED vars
    <3>1. PICK t \in Threads : AddRef_found(t) \/ AddRef_listed(t)
      BY <2>2 DEF Next, Take, Drop, CreateWireStub, WireStubEnds, Pass, find, new_stub,
         add2, bind, add1, new_proxy, Pin, release_shim, release, Internal_Release, Destruct_proxy,
         release_stub, release_pin, Destruct_stub, Unpin_proxy
    <3>2. CASE AddRef_found(t)
      <4>s. PICK s \in Stubs : s = Arg(t)
        BY <2>2, <3>2, NowIs DEF AddRef_found, Current, ArgsOf
      <4> DEFINE k == stubs[s].refs + 1
      <4>1. /\ proxies' = proxies /\ stubs' = PutRefs(stubs, s, k)
            /\ object' = IF stubs[s].pins = 0 THEN object ELSE object + 1
        BY <3>2, <4>s DEF AddRef_found, PutRefs
      <4>2. k \in Nat /\ stubs \in [Stubs -> StubKind] /\ object' \in Nat
        BY <4>1, KindsAre DEF TypeOK
      <4>3. /\ stubs'[s].refs = k /\ stubs'[s].pins = stubs[s].pins
            /\ \A x \in Stubs : x # s => stubs'[x] = stubs[x]
        <5> HIDE DEF k
        <5> QED
          BY <4>1, <4>2, StubPuts
      <4> HIDE DEF k
      <4> QED
        BY <4>1, <4>2, <4>3 DEF TypeOK
    <3>3. CASE AddRef_listed(t)
      <4>1. CASE Arg(t)[2] = Object
        <5>1. object' = object + 1 /\ UNCHANGED <<stubs, proxies>>
          BY <3>3, <4>1 DEF AddRef_listed
        <5> QED
          BY <5>1 DEF TypeOK
      <4>2. CASE Arg(t)[2] # Object
        <5>p. PICK p \in Proxies : p = Arg(t)[2]
          <6>1. Arg(t) \in Modules \X (Proxies \cup {Object})
            BY <2>2, <3>3, NowIs DEF AddRef_listed, Current, ArgsOf
          <6> QED
            BY <4>2, <6>1
        <5> DEFINE k == proxies[p].refs + 1
        <5>1. proxies' = PutRefs(proxies, p, k) /\ UNCHANGED <<object, stubs>>
          BY <3>3, <4>2, <5>p DEF AddRef_listed, PutRefs
        <5>2. k \in Nat /\ proxies \in [Proxies -> ProxyKind]
          BY KindsAre DEF TypeOK
        <5>3. proxies'[p].refs = k /\ \A x \in Proxies : x # p => proxies'[x] = proxies[x]
          <6> HIDE DEF k
          <6> QED
            BY <5>1, <5>2, ProxyPuts
        <5> HIDE DEF k
        <5> QED
          BY <5>1, <5>2, <5>3 DEF TypeOK
      <4> QED
        BY <4>1, <4>2
    <3> QED
      BY <3>1, <3>2, <3>3
  <2> QED
    BY <2>1, <2>2
<1> QED
  BY <1>1, <1>2, <1>3 DEF TypeOK

-----------------------------------------------------------------------------
\* Of the references to an object and to its shims, each is somebody's, at all times.
THEOREM ShimsAreCounted == ASSUME ShimAssumption PROVE Spec => []ShimInv
<1>1. Init => ShimInv
  BY ShimsAtFirst
<1>2. ShimInv /\ [Next]_vars => ShimInv'
  BY ShimsGoOn
<1> QED
  BY <1>1, <1>2, PTL DEF Spec

\* Whatever the threads do, the counts of references and pins stay natural (safe_ps.h 195-222, 402-424).
THEOREM ShimTypesHold == ASSUME ShimAssumption PROVE Spec => []TypeOK
<1>1. Init => TypeOK
  <2>1. ASSUME Init PROVE ShimInv /\ ~late
    BY <2>1, ShimsAtFirst DEF Init
  <2> QED
    BY <2>1, CountsAreNatural
<1>2. ShimInv /\ ~late => TypeOK
  BY CountsAreNatural
<1>3. ShimInv /\ ShimInv' /\ TypeOK /\ [Next]_vars /\ late' => TypeOK'
  BY CountsOfTheLate
<1>4. Spec => []ShimInv
  BY ShimsAreCounted
<1> QED
  BY <1>1, <1>2, <1>3, <1>4, PTL DEF Spec

\* Handed between modules, pinned and dropped, an object has one identity in a module, nothing ended is held, none leaks.
THEOREM ObjectsAndShimsAreOne == ASSUME ShimAssumption PROVE Spec => []ShimsAreOne
<1>1. ShimInv => ShimsAreOne
  BY IdentityHolds, DanglingNothing, LeakingNothing DEF ShimsAreOne
<1>2. Spec => []ShimInv
  BY ShimsAreCounted
<1> QED
  BY <1>1, <1>2, PTL

===============================================================================
