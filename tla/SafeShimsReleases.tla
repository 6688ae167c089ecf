--------------------------- MODULE SafeShimsReleases ---------------------------
(***************************************************************************)
(* Why an object and its shims are as one, in SafeShims, for any number of *)
(* threads, modules, stubs and proxies: every reference to the object, to  *)
(* a stub and to a proxy, and every pin, is somebody's, who holds it or is *)
(* about to release it; what a thread is in the middle of has one of few   *)
(* forms; and what is in a map is of the one stub the object is listed by. *)
(*                                                                         *)
(* Here is the invariant, and that the steps which release keep it;        *)
(* SafeShimsProofs has the other steps and the theorems.                   *)
(***************************************************************************)
EXTENDS SafeShims, FiniteSetTheorems, SequenceTheorems, TLAPS

One(b) == IF b THEN 1 ELSE 0

\* A finite set that differs from another at most in one member.
LEMMA OneChanges ==
    ASSUME NEW S, NEW T, NEW x, IsFiniteSet(S), T \ {x} = S \ {x}
    PROVE  /\ Cardinality(S) \in Nat /\ Cardinality(T) \in Nat /\ IsFiniteSet(T)
           /\ Cardinality(T) = Cardinality(S) - One(x \in S) + One(x \in T)
<1>1. /\ IsFiniteSet(S \ {x}) /\ Cardinality(S) \in Nat
      /\ Cardinality(S \ {x}) = Cardinality(S) - One(x \in S)
  BY FS_RemoveElement, FS_CardinalityType DEF One
<1>2. x \notin S \ {x}
  OBVIOUS
<1>3. T = IF x \in T THEN (S \ {x}) \cup {x} ELSE S \ {x}
  OBVIOUS
<1>4. IsFiniteSet(T) /\ Cardinality(T) = Cardinality(S \ {x}) + One(x \in T)
  <2>1. CASE x \in T
    BY <1>1, <1>2, <1>3, <2>1, FS_AddElement DEF One
  <2>2. CASE x \notin T
    <3>1. T = S \ {x} /\ Cardinality(S \ {x}) \in Nat
      BY <1>1, <1>3, <2>2, FS_CardinalityType
    <3> QED
      BY <1>1, <2>2, <3>1 DEF One
  <2> QED
    BY <2>1, <2>2
<1>5. Cardinality(T) \in Nat
  BY <1>4, FS_CardinalityType
<1> QED
  BY <1>1, <1>4, <1>5

\* The shims. A call is a stack of what is left of it: places are counted from the
\* bottom, so what is done at the top leaves the rest in its place.

Place(q, j) == q[Len(q) + 1 - j]

ArgsOf(n) ==
    CASE n \in {"find", "release"} -> Proxies \cup {Object}
      [] n \in {"bind"} -> Modules
      [] n \in {"new_stub"} -> BOOLEAN
      [] n \in {"add1"} -> Modules \X Proxies
      [] n \in {"AddRef_listed"} -> Modules \X (Proxies \cup {Object})
      [] n \in {"new_proxy", "release_shim"} -> {0}
      [] n \in {"Pin", "Unpin_proxy", "Internal_Release", "Destruct_proxy"} -> Proxies
      [] n \in {"AddRef_found", "add2", "release_stub", "release_pin", "Destruct_stub"} -> Stubs
OpNames == {"find", "release", "bind", "new_stub", "add1", "AddRef_listed", "new_proxy", "release_shim",
            "Pin", "Unpin_proxy", "Internal_Release", "Destruct_proxy",
            "AddRef_found", "add2", "release_stub", "release_pin", "Destruct_stub"}
Ops == {o \in [op : OpNames, arg : UNION {ArgsOf(n) : n \in OpNames}] : o.arg \in ArgsOf(o.op)}

\* An operation is its name and its argument.
LEMMA OpsAre ==
    /\ \A n \in OpNames : \A a \in ArgsOf(n) : Op(n, a) \in Ops
    /\ \A o \in Ops : o.op \in OpNames /\ o.arg \in ArgsOf(o.op) /\ o = Op(o.op, o.arg)
    /\ \A n, m, a, b : Op(n, a) = Op(m, b) <=> n = m /\ a = b
    /\ \A n, a : Op(n, a).op = n /\ Op(n, a).arg = a
<1>1. \A n \in OpNames : \A a \in ArgsOf(n) : Op(n, a) \in Ops
  BY DEF Ops, Op
<1>2. \A o \in Ops : o.op \in OpNames /\ o.arg \in ArgsOf(o.op) /\ o = Op(o.op, o.arg)
  BY DEF Ops, Op
<1>3. \A n, a : Op(n, a).op = n /\ Op(n, a).arg = a
  BY DEF Op
<1>4. \A n, m, a, b : Op(n, a) = Op(m, b) <=> n = m /\ a = b
  BY <1>3
<1> QED
  BY <1>1, <1>2, <1>3, <1>4

\* An operation of a name and an argument of that name is one.
LEMMA OpIn == ASSUME NEW n \in OpNames, NEW a \in ArgsOf(n) PROVE Op(n, a) \in Ops
BY OpsAre
\* Operations are the same when their names and arguments are.
LEMMA OpSame == ASSUME NEW n, NEW m, NEW a, NEW b PROVE Op(n, a) = Op(m, b) <=> n = m /\ a = b
BY OpsAre

\* An operation in front of a list leaves those behind it at their places, counted from the end.
LEMMA Pushed ==
    ASSUME NEW Z, NEW q \in Seq(Z), NEW a \in Z
    PROVE  /\ <<a>> \o q \in Seq(Z) /\ Len(<<a>> \o q) = Len(q) + 1
           /\ \A j \in 1..Len(q) : Place(<<a>> \o q, j) = Place(q, j)
           /\ Place(<<a>> \o q, Len(q) + 1) = a
<1>1. <<a>> \in Seq(Z) /\ Len(<<a>>) = 1 /\ <<a>>[1] = a /\ Len(q) \in Nat
  BY LenProperties
<1>2. /\ <<a>> \o q \in Seq(Z)
      /\ Len(<<a>> \o q) = Len(q) + 1
      /\ \A i \in 1..(Len(q) + 1) : (<<a>> \o q)[i] = IF i <= 1 THEN <<a>>[i] ELSE q[i - 1]
  BY <1>1, ConcatProperties
<1>3. ASSUME NEW j \in 1..Len(q) PROVE Place(<<a>> \o q, j) = Place(q, j)
  <2>1. Len(q) + 2 - j \in 1..(Len(q) + 1) /\ ~(Len(q) + 2 - j <= 1)
    BY <1>1
  <2>2. (<<a>> \o q)[Len(q) + 2 - j] = q[Len(q) + 1 - j]
    BY <1>1, <1>2, <2>1
  <2> QED
    BY <1>1, <1>2, <2>2 DEF Place
<1>4. Place(<<a>> \o q, Len(q) + 1) = a
  BY <1>1, <1>2 DEF Place
<1> QED
  BY <1>2, <1>3, <1>4

\* The first operation done, the others stay at their places, counted from the end.
LEMMA Popped ==
    ASSUME NEW Z, NEW q \in Seq(Z), q # <<>>
    PROVE  /\ Tail(q) \in Seq(Z) /\ Len(q) \in Nat \ {0} /\ Len(Tail(q)) = Len(q) - 1
           /\ \A j \in 1..(Len(q) - 1) : Place(Tail(q), j) = Place(q, j)
           /\ Place(q, Len(q)) = Head(q) /\ Head(q) \in Z
<1>1. /\ Tail(q) \in Seq(Z) /\ Len(q) \in Nat /\ Len(Tail(q)) = Len(q) - 1 /\ Head(q) \in Z
      /\ \A i \in 1..Len(Tail(q)) : Tail(q)[i] = q[i + 1]
  BY HeadTailProperties, LenProperties
<1>2. Len(q) # 0 /\ Head(q) = q[1]
  BY EmptySeq
<1>3. ASSUME NEW j \in 1..(Len(q) - 1) PROVE Place(Tail(q), j) = Place(q, j)
  <2>1. Len(q) - j \in 1..Len(Tail(q))
    BY <1>1
  <2> QED
    BY <1>1, <2>1 DEF Place
<1> QED
  BY <1>1, <1>2, <1>3 DEF Place

\* Where the calls of td have o in them.
Places(td, o) == {x \in Threads \X Nat : x[2] \in 1..Len(td[x[1]]) /\ Place(td[x[1]], x[2]) = o}
Waits(td, o) == Cardinality(Places(td, o))

Lists == [Threads -> Seq(Ops)]
Counted(td) == td \in Lists /\ \A o \in Ops : IsFiniteSet(Places(td, o))

\* A call with one operation more, and with its first operation given way to others.
PushOn(td, t, a) == [td EXCEPT ![t] = <<a>> \o td[t]]
PopOff(td, t) == [td EXCEPT ![t] = Tail(td[t])]
GoOn(td, t, os) == [td EXCEPT ![t] = os \o Tail(@)]

\* One more of what is put in front, and of nothing else.
LEMMA OnePushed ==
    ASSUME NEW td, Counted(td), NEW t \in Threads, NEW a \in Ops
    PROVE  /\ Counted(PushOn(td, t, a))
           /\ \A o \in Ops : /\ Waits(td, o) \in Nat /\ Waits(PushOn(td, t, a), o) \in Nat
                             /\ Waits(PushOn(td, t, a), o) = Waits(td, o) + One(o = a)
<1> DEFINE ud == PushOn(td, t, a)
<1>1. td \in Lists /\ td[t] \in Seq(Ops) /\ Len(td[t]) \in Nat
  BY LenProperties DEF Counted, Lists
<1>2. ud[t] = <<a>> \o td[t] /\ \A u \in Threads : u # t => ud[u] = td[u]
  BY <1>1 DEF Lists, PushOn
<1>0. ud = PushOn(td, t, a)
  OBVIOUS
<1>3. /\ ud[t] \in Seq(Ops) /\ Len(ud[t]) = Len(td[t]) + 1
      /\ \A j \in 1..Len(td[t]) : Place(ud[t], j) = Place(td[t], j)
      /\ Place(ud[t], Len(td[t]) + 1) = a
  BY <1>1, <1>2, Pushed
<1>4. ud \in Lists
  BY <1>1, <1>2, <1>3 DEF Lists, PushOn
<1> HIDE DEF ud
<1> DEFINE y == <<t, Len(td[t]) + 1>>
<1>5. ASSUME NEW o \in Ops
      PROVE  /\ IsFiniteSet(Places(ud, o))
             /\ Waits(td, o) \in Nat /\ Waits(ud, o) \in Nat /\ Waits(ud, o) = Waits(td, o) + One(o = a)
  <2>a. Len(td[t]) + 1 \in Nat
    BY <1>1
  <2>b. /\ y \in Places(td, o) <=> Len(td[t]) + 1 \in 1..Len(td[t]) /\ Place(td[t], Len(td[t]) + 1) = o
        /\ y \in Places(ud, o) <=> Len(td[t]) + 1 \in 1..Len(ud[t]) /\ Place(ud[t], Len(td[t]) + 1) = o
    BY <2>a DEF Places
  <2>1. y \notin Places(td, o)
    BY <1>1, <2>b
  <2>2. y \in Places(ud, o) <=> o = a
    BY <1>1, <1>3, <2>b
  <2>3. Places(ud, o) \ {y} = Places(td, o) \ {y}
    <3>1. ASSUME NEW u \in Threads, NEW j \in Nat, <<u, j>> # y
          PROVE  <<u, j>> \in Places(ud, o) <=> <<u, j>> \in Places(td, o)
      <4>a. /\ <<u, j>> \in Places(td, o) <=> j \in 1..Len(td[u]) /\ Place(td[u], j) = o
            /\ <<u, j>> \in Places(ud, o) <=> j \in 1..Len(ud[u]) /\ Place(ud[u], j) = o
        BY DEF Places
      <4>1. CASE u = t
        <5>1. j # Len(td[t]) + 1
          BY <3>1, <4>1
        <5>2. j \in 1..Len(ud[t]) <=> j \in 1..Len(td[t])
          BY <1>1, <1>3, <5>1
        <5> QED
          BY <1>3, <4>1, <5>2, <4>a
      <4>2. CASE u # t
        BY <1>2, <4>2, <4>a
      <4> QED
        BY <4>1, <4>2
    <3>2. Places(ud, o) \subseteq Threads \X Nat /\ Places(td, o) \subseteq Threads \X Nat
      BY DEF Places
    <3> HIDE DEF y
    <3>3. ASSUME NEW x \in Threads \X Nat, x # y PROVE x \in Places(ud, o) <=> x \in Places(td, o)
      <4>1. PICK u \in Threads, j \in Nat : x = <<u, j>>
        OBVIOUS
      <4> QED
        BY <3>1, <3>3, <4>1
    <3>4. ASSUME NEW x, x # y PROVE x \in Places(ud, o) <=> x \in Places(td, o)
      BY <3>2, <3>3, <3>4
    <3> QED
      BY <3>4
  <2>4. IsFiniteSet(Places(td, o))
    BY DEF Counted
  <2> HIDE DEF y
  <2>5. /\ Cardinality(Places(td, o)) \in Nat /\ IsFiniteSet(Places(ud, o))
        /\ Cardinality(Places(ud, o)) = Cardinality(Places(td, o)) - One(y \in Places(td, o))
             + One(y \in Places(ud, o))
    BY <2>3, <2>4, OneChanges
  <2> QED
    BY <2>1, <2>2, <2>5 DEF Waits, One
<1> QED
  BY <1>0, <1>4, <1>5 DEF Counted

\* One less of what was at the head, and of nothing else.
LEMMA OnePopped ==
    ASSUME NEW td, Counted(td), NEW t \in Threads, td[t] # <<>>
    PROVE  /\ Counted(PopOff(td, t)) /\ Head(td[t]) \in Ops
           /\ \A o \in Ops : /\ Waits(td, o) \in Nat /\ Waits(PopOff(td, t), o) \in Nat
                             /\ Waits(PopOff(td, t), o) = Waits(td, o) - One(o = Head(td[t]))
<1> DEFINE ud == PopOff(td, t)
<1>0. ud = PopOff(td, t)
  OBVIOUS
<1> DEFINE a == Head(td[t])
<1>1. td \in Lists /\ td[t] \in Seq(Ops)
  BY DEF Counted, Lists
<1>2. /\ Tail(td[t]) \in Seq(Ops) /\ Len(td[t]) \in Nat \ {0} /\ Len(Tail(td[t])) = Len(td[t]) - 1
      /\ \A j \in 1..(Len(td[t]) - 1) : Place(Tail(td[t]), j) = Place(td[t], j)
      /\ Place(td[t], Len(td[t])) = a /\ a \in Ops
  BY <1>1, Popped
<1>3. ud[t] = Tail(td[t]) /\ \A u \in Threads : u # t => ud[u] = td[u]
  BY <1>1 DEF Lists, PopOff
<1>4. ud \in Lists
  BY <1>1, <1>2 DEF Lists, PopOff
<1> HIDE DEF ud
<1> DEFINE y == <<t, Len(td[t])>>
<1> HIDE DEF a
<1>5. ASSUME NEW o \in Ops
      PROVE  /\ IsFiniteSet(Places(ud, o)) /\ Waits(td, o) \in Nat /\ Waits(ud, o) \in Nat
             /\ Waits(ud, o) = Waits(td, o) - One(o = a)
  <2>a. Len(td[t]) \in Nat
    BY <1>2
  <2>b. /\ y \in Places(td, o) <=> Len(td[t]) \in 1..Len(td[t]) /\ Place(td[t], Len(td[t])) = o
        /\ y \in Places(ud, o) <=> Len(td[t]) \in 1..Len(ud[t]) /\ Place(ud[t], Len(td[t])) = o
    BY <2>a DEF Places
  <2>1. y \in Places(td, o) <=> o = a
    BY <1>2, <2>b
  <2>c. Len(td[t]) \notin 1..Len(ud[t])
    <3>1. Len(td[t]) \in Nat \ {0} /\ Len(ud[t]) = Len(td[t]) - 1
      BY <1>2, <1>3
    <3> QED
      BY <3>1
  <2>2. y \notin Places(ud, o)
    BY <2>b, <2>c
  <2>3. Places(ud, o) \ {y} = Places(td, o) \ {y}
    <3>1. ASSUME NEW u \in Threads, NEW j \in Nat, <<u, j>> # y
          PROVE  <<u, j>> \in Places(ud, o) <=> <<u, j>> \in Places(td, o)
      <4>a. /\ <<u, j>> \in Places(td, o) <=> j \in 1..Len(td[u]) /\ Place(td[u], j) = o
            /\ <<u, j>> \in Places(ud, o) <=> j \in 1..Len(ud[u]) /\ Place(ud[u], j) = o
        BY DEF Places
      <4>1. CASE u = t
        <5>1. j # Len(td[t])
          BY <3>1, <4>1
        <5>2. j \in 1..Len(ud[t]) <=> j \in 1..Len(td[t])
          BY <1>2, <1>3, <5>1
        <5>3. j \in 1..Len(td[t]) => Place(ud[t], j) = Place(td[t], j)
          BY <1>2, <1>3, <5>1
        <5> QED
          BY <4>1, <5>2, <5>3, <4>a
      <4>2. CASE u # t
        BY <1>3, <4>2, <4>a
      <4> QED
        BY <4>1, <4>2
    <3>2. Places(ud, o) \subseteq Threads \X Nat /\ Places(td, o) \subseteq Threads \X Nat
      BY DEF Places
    <3> HIDE DEF y
    <3>3. ASSUME NEW x \in Threads \X Nat, x # y PROVE x \in Places(ud, o) <=> x \in Places(td, o)
      <4>1. PICK u \in Threads, j \in Nat : x = <<u, j>>
        OBVIOUS
      <4> QED
        BY <3>1, <3>3, <4>1
    <3>4. ASSUME NEW x, x # y PROVE x \in Places(ud, o) <=> x \in Places(td, o)
      BY <3>2, <3>3, <3>4
    <3> QED
      BY <3>4
  <2>4. IsFiniteSet(Places(td, o))
    BY DEF Counted
  <2> HIDE DEF y
  <2>5. /\ Cardinality(Places(td, o)) \in Nat /\ IsFiniteSet(Places(ud, o)) /\ Cardinality(Places(ud, o)) \in Nat
        /\ Cardinality(Places(ud, o)) = Cardinality(Places(td, o)) - One(y \in Places(td, o))
             + One(y \in Places(ud, o))
    BY <2>3, <2>4, OneChanges
  <2> QED
    BY <2>1, <2>2, <2>5 DEF Waits, One
<1> QED
  BY <1>0, <1>2, <1>4, <1>5 DEF Counted, a

-----------------------------------------------------------------------------
\* What a step makes of a call: its first operation gives way to none, one or two.

Rest(td, ud, t, n) ==
    /\ td \in Lists /\ ud \in Lists /\ Counted(ud) /\ n \in Nat /\ n <= Len(td[t])
    /\ \A u \in Threads : u # t => ud[u] = td[u]
    /\ \A j \in 1..n : Place(ud[t], j) = Place(td[t], j)

\* The same for a thread's list among those of all threads.
LEMMA PushedOn ==
    ASSUME NEW td, Counted(td), NEW t \in Threads, NEW a \in Ops
    PROVE  LET ud == PushOn(td, t, a) n == Len(td[t]) IN
           /\ Rest(td, ud, t, n) /\ Len(ud[t]) = n + 1 /\ Place(ud[t], n + 1) = a
           /\ \A o \in Ops : /\ Waits(td, o) \in Nat /\ Waits(ud, o) \in Nat
                             /\ Waits(ud, o) = Waits(td, o) + One(o = a)
<1> DEFINE ud == PushOn(td, t, a)
<1>1. td \in Lists /\ td[t] \in Seq(Ops) /\ Len(td[t]) \in Nat
  BY LenProperties DEF Counted, Lists
<1>2. ud[t] = <<a>> \o td[t] /\ \A u \in Threads : u # t => ud[u] = td[u]
  BY <1>1 DEF Lists, PushOn
<1>4. /\ Counted(ud)
      /\ \A o \in Ops : /\ Waits(td, o) \in Nat /\ Waits(ud, o) \in Nat
                        /\ Waits(ud, o) = Waits(td, o) + One(o = a)
  BY OnePushed
<1> HIDE DEF ud
<1>3. /\ Len(ud[t]) = Len(td[t]) + 1 /\ Place(ud[t], Len(td[t]) + 1) = a
      /\ \A j \in 1..Len(td[t]) : Place(ud[t], j) = Place(td[t], j)
  BY <1>1, <1>2, Pushed
<1>6. ud \in Lists
  BY <1>4 DEF Counted
<1>5. Rest(td, ud, t, Len(td[t]))
  BY <1>1, <1>2, <1>3, <1>4, <1>6 DEF Rest
<1> QED
  BY <1>3, <1>4, <1>5 DEF ud

Going(td, ud, t) ==
    LET n == Len(td[t]) IN
    /\ n \in Nat \ {0} /\ Place(td[t], n) = Head(td[t]) /\ Head(td[t]) \in Ops
    /\ Rest(td, ud, t, n - 1)

\* A thread whose operation brings nothing about goes on with the rest.
LEMMA GoneOn ==
    ASSUME NEW td, Counted(td), NEW t \in Threads, td[t] # <<>>
    PROVE  LET ud == GoOn(td, t, <<>>) IN
           /\ Going(td, ud, t) /\ Len(ud[t]) = Len(td[t]) - 1
           /\ \A o \in Ops : /\ Waits(td, o) \in Nat /\ Waits(ud, o) \in Nat
                             /\ Waits(ud, o) = Waits(td, o) - One(o = Head(td[t]))
<1> DEFINE ud == GoOn(td, t, <<>>)
<1>1. td \in Lists /\ td[t] \in Seq(Ops)
  BY DEF Counted, Lists
<1>2. /\ Tail(td[t]) \in Seq(Ops) /\ Len(td[t]) \in Nat \ {0} /\ Len(Tail(td[t])) = Len(td[t]) - 1
      /\ \A j \in 1..(Len(td[t]) - 1) : Place(Tail(td[t]), j) = Place(td[t], j)
      /\ Place(td[t], Len(td[t])) = Head(td[t]) /\ Head(td[t]) \in Ops
  BY <1>1, Popped
<1>3. <<>> \o Tail(td[t]) = Tail(td[t])
  BY <1>2, ConcatEmptySeq
<1>4. ud = PopOff(td, t)
  BY <1>3 DEF GoOn, PopOff
<1>5. ud[t] = Tail(td[t]) /\ \A u \in Threads : u # t => ud[u] = td[u]
  BY <1>1, <1>4 DEF Lists, PopOff
<1>6. /\ Counted(PopOff(td, t))
      /\ \A o \in Ops : /\ Waits(td, o) \in Nat /\ Waits(PopOff(td, t), o) \in Nat
                        /\ Waits(PopOff(td, t), o) = Waits(td, o) - One(o = Head(td[t]))
  BY OnePopped
<1> HIDE DEF ud
<1>7. Rest(td, ud, t, Len(td[t]) - 1)
  BY <1>1, <1>2, <1>4, <1>5, <1>6 DEF Rest, Counted
<1>8. Going(td, ud, t) /\ Len(ud[t]) = Len(td[t]) - 1
  BY <1>2, <1>5, <1>7 DEF Going
<1> QED
  BY <1>4, <1>6, <1>8 DEF ud

\* Two in front of a list are one in front of one in front of it.
LEMMA TwoOn ==
    ASSUME NEW Z, NEW a \in Z, NEW b \in Z, NEW q \in Seq(Z)
    PROVE  <<a, b>> \o q = <<a>> \o (<<b>> \o q)
<1>1. /\ <<a>> \in Seq(Z) /\ <<b>> \in Seq(Z) /\ <<a, b>> \in Seq(Z) /\ Len(q) \in Nat
      /\ Len(<<a>>) = 1 /\ Len(<<b>>) = 1 /\ Len(<<a, b>>) = 2
      /\ <<a>>[1] = a /\ <<b>>[1] = b /\ <<a, b>>[1] = a /\ <<a, b>>[2] = b
  BY LenProperties
<1> DEFINE r == <<b>> \o q
           s1 == <<a>> \o r
           s2 == <<a, b>> \o q
<1>2. r \in Seq(Z) /\ Len(r) = 1 + Len(q)
      /\ \A i \in 1..(1 + Len(q)) : r[i] = IF i <= 1 THEN <<b>>[i] ELSE q[i - 1]
  BY <1>1, ConcatProperties
<1>4. s2 \in Seq(Z) /\ Len(s2) = 2 + Len(q)
      /\ \A i \in 1..(2 + Len(q)) : s2[i] = IF i <= 2 THEN <<a, b>>[i] ELSE q[i - 2]
  BY <1>1, ConcatProperties
<1> HIDE DEF r, s2
<1>3. s1 \in Seq(Z) /\ Len(s1) = 2 + Len(q)
      /\ \A i \in 1..(2 + Len(q)) : s1[i] = IF i <= 1 THEN <<a>>[i] ELSE r[i - 1]
  BY <1>1, <1>2, ConcatProperties
<1> HIDE DEF s1
<1>5. ASSUME NEW i \in 1..Len(s1) PROVE s1[i] = s2[i]
  <2>1. CASE i = 1
    BY <1>1, <1>3, <1>4, <2>1
  <2>2. CASE i = 2
    BY <1>1, <1>2, <1>3, <1>4, <2>2
  <2>3. CASE i > 2
    <3>1. i \in Nat /\ i - 1 \in 1..(1 + Len(q)) /\ ~(i - 1 <= 1) /\ ~(i <= 2) /\ i - 1 - 1 = i - 2
      BY <1>1, <1>3, <2>3
    <3>2. s1[i] = r[i - 1] /\ r[i - 1] = q[i - 1 - 1]
      BY <1>1, <1>2, <1>3, <2>3, <3>1
    <3> QED
      BY <1>1, <1>3, <1>4, <3>1, <3>2
  <2> QED
    BY <1>1, <1>3, <2>1, <2>2, <2>3
<1>6. Len(s1) = Len(s2)
  BY <1>3, <1>4
<1>7. s1 = s2
  BY <1>3, <1>4, <1>5, <1>6, SeqEqual
<1> QED
  BY <1>7 DEF s1, s2, r

\* One more on top of a call that goes on.
LEMMA GoingPushed ==
    ASSUME NEW td, NEW vd, NEW t \in Threads, Going(td, vd, t), NEW a \in Ops, Len(vd[t]) >= Len(td[t]) - 1
    PROVE  LET ud == PushOn(vd, t, a) IN
           /\ Going(td, ud, t) /\ Len(ud[t]) = Len(vd[t]) + 1 /\ Place(ud[t], Len(vd[t]) + 1) = a
           /\ Rest(vd, ud, t, Len(vd[t]))
           /\ \A o \in Ops : /\ Waits(vd, o) \in Nat /\ Waits(ud, o) \in Nat
                             /\ Waits(ud, o) = Waits(vd, o) + One(o = a)
<1> DEFINE ud == PushOn(vd, t, a)
<1>1. Counted(vd)
  BY DEF Going, Rest
<1>2. /\ Rest(vd, ud, t, Len(vd[t])) /\ Len(ud[t]) = Len(vd[t]) + 1 /\ Place(ud[t], Len(vd[t]) + 1) = a
      /\ \A o \in Ops : /\ Waits(vd, o) \in Nat /\ Waits(ud, o) \in Nat
                        /\ Waits(ud, o) = Waits(vd, o) + One(o = a)
  BY <1>1, PushedOn
<1> HIDE DEF ud
<1>3. Going(td, ud, t)
  BY <1>2 DEF Going, Rest
<1> QED
  BY <1>2, <1>3 DEF ud

\* A thread whose operation brings another about goes on with that one.
LEMMA GoneOnTo ==
    ASSUME NEW td, Counted(td), NEW t \in Threads, td[t] # <<>>, NEW a \in Ops
    PROVE  LET ud == GoOn(td, t, <<a>>) IN
           /\ Going(td, ud, t) /\ Len(ud[t]) = Len(td[t]) /\ Place(ud[t], Len(td[t])) = a
           /\ \A o \in Ops : /\ Waits(td, o) \in Nat /\ Waits(ud, o) \in Nat
                             /\ Waits(ud, o) = Waits(td, o) - One(o = Head(td[t])) + One(o = a)
<1> DEFINE vd == GoOn(td, t, <<>>)
           ud == PushOn(vd, t, a)
<1>1. /\ Going(td, vd, t) /\ Len(vd[t]) = Len(td[t]) - 1
      /\ \A o \in Ops : /\ Waits(td, o) \in Nat /\ Waits(vd, o) \in Nat
                        /\ Waits(vd, o) = Waits(td, o) - One(o = Head(td[t]))
  BY GoneOn
<1>2. td \in Lists /\ td[t] \in Seq(Ops) /\ Tail(td[t]) \in Seq(Ops)
  BY Popped DEF Counted, Lists
<1>3. <<>> \o Tail(td[t]) = Tail(td[t])
  BY <1>2, ConcatEmptySeq
<1>5. GoOn(td, t, <<a>>) = ud
  BY <1>2, <1>3 DEF Lists, GoOn, PushOn
<1> HIDE DEF vd
<1>6. Len(td[t]) \in Nat \ {0} /\ Len(vd[t]) >= Len(td[t]) - 1 /\ Len(vd[t]) + 1 = Len(td[t])
  BY <1>1 DEF Going
<1>7. /\ Going(td, ud, t) /\ Len(ud[t]) = Len(vd[t]) + 1 /\ Place(ud[t], Len(vd[t]) + 1) = a
      /\ \A o \in Ops : /\ Waits(vd, o) \in Nat /\ Waits(ud, o) \in Nat
                        /\ Waits(ud, o) = Waits(vd, o) + One(o = a)
  BY <1>1, <1>6, GoingPushed
<1> HIDE DEF ud
<1> QED
  BY <1>1, <1>5, <1>6, <1>7

\* A thread whose operation brings two about goes on with them, the one after the other.
LEMMA GoneOnToTwo ==
    ASSUME NEW td, Counted(td), NEW t \in Threads, td[t] # <<>>, NEW a \in Ops, NEW b \in Ops
    PROVE  LET ud == GoOn(td, t, <<a, b>>) IN
           /\ Going(td, ud, t) /\ Len(ud[t]) = Len(td[t]) + 1
           /\ Place(ud[t], Len(td[t])) = b /\ Place(ud[t], Len(td[t]) + 1) = a
           /\ \A o \in Ops : /\ Waits(td, o) \in Nat /\ Waits(ud, o) \in Nat
                             /\ Waits(ud, o) = Waits(td, o) - One(o = Head(td[t])) + One(o = a) + One(o = b)
<1> DEFINE vd == GoOn(td, t, <<b>>)
           ud == PushOn(vd, t, a)
<1>1. /\ Going(td, vd, t) /\ Len(vd[t]) = Len(td[t]) /\ Place(vd[t], Len(td[t])) = b
      /\ \A o \in Ops : /\ Waits(td, o) \in Nat /\ Waits(vd, o) \in Nat
                        /\ Waits(vd, o) = Waits(td, o) - One(o = Head(td[t])) + One(o = b)
  BY GoneOnTo
<1>2. td \in Lists /\ td[t] \in Seq(Ops) /\ Tail(td[t]) \in Seq(Ops)
  BY Popped DEF Counted, Lists
<1>3. <<a, b>> \o Tail(td[t]) = <<a>> \o (<<b>> \o Tail(td[t]))
  <2> DEFINE q == Tail(td[t])
  <2> HIDE DEF q
  <2>1. q \in Seq(Ops)
    BY <1>2 DEF q
  <2> QED
    BY <2>1, TwoOn DEF q
<1>5. GoOn(td, t, <<a, b>>) = ud
  BY <1>2, <1>3 DEF Lists, GoOn, PushOn
<1> HIDE DEF vd
<1>6. Len(td[t]) \in Nat \ {0} /\ Len(vd[t]) >= Len(td[t]) - 1
  BY <1>1 DEF Going
<1>7. /\ Going(td, ud, t) /\ Len(ud[t]) = Len(vd[t]) + 1 /\ Place(ud[t], Len(vd[t]) + 1) = a
      /\ Rest(vd, ud, t, Len(vd[t]))
      /\ \A o \in Ops : /\ Waits(vd, o) \in Nat /\ Waits(ud, o) \in Nat
                        /\ Waits(ud, o) = Waits(vd, o) + One(o = a)
  BY <1>1, <1>6, GoingPushed
<1> HIDE DEF ud
<1>8. Place(ud[t], Len(td[t])) = b
  BY <1>1, <1>6, <1>7 DEF Rest
<1>9. \A o \in Ops : /\ Waits(td, o) \in Nat /\ Waits(ud, o) \in Nat
                     /\ Waits(ud, o) = Waits(td, o) - One(o = Head(td[t])) + One(o = a) + One(o = b)
  BY <1>1, <1>7 DEF One
<1>a. Len(ud[t]) = Len(td[t]) + 1 /\ Place(ud[t], Len(td[t]) + 1) = a
  BY <1>1, <1>7
<1> QED
  BY <1>5, <1>7, <1>8, <1>9, <1>a

-----------------------------------------------------------------------------
\* The shape of a call: q is what is left of it, s the shim at hand, h what the
\* thread holds and w what its wire stub has pinned. Only what it releases is
\* stacked to any depth, and never on an operation that uses what others found.

HasIn(q, n) == \E j \in 1..Len(q) : Place(q, j).op = n

Releasing == {"release", "Internal_Release", "Destruct_proxy", "release_stub", "release_pin", "Destruct_stub"}
Foremost == {"find", "new_stub", "add2", "AddRef_found", "add1", "AddRef_listed", "Pin", "Unpin_proxy"}

Gives(q, h) == Place(q, 2).op = "release_shim" /\ Place(q, 1) = Op("release", h[2]) /\ h[2] # Nothing
Binds(q) == Len(q) >= 4 /\ Place(q, 3).op = "bind"
Shimless(q) == HasIn(q, "find") \/ HasIn(q, "new_stub") \/ HasIn(q, "AddRef_found")

ShapeAt(q, s, h, w, j) ==
    LET o == Place(q, j) n == Len(q) IN
    /\ o.op \in Foremost => j = n
    /\ o.op = "bind" => j = 3 /\ Gives(q, h)
    /\ o.op = "find" => n = 4 /\ Binds(q) /\ o.arg = h[2] /\ s = 0
    /\ o.op = "new_stub" => /\ s = 0
                            /\ IF o.arg THEN n = 4 /\ Binds(q) ELSE n = 3 /\ Place(q, 2).op = "new_proxy"
    /\ o.op = "add2" => n = 4 /\ Binds(q) /\ o.arg = s
    /\ o.op = "AddRef_found" => /\ n \in {4, 5} /\ Binds(q)
                                /\ IF n = 4 THEN s = 0 ELSE Place(q, 4) = Op("release_stub", s)
    /\ o.op = "add1" => n = 3 /\ Gives(q, h)
    /\ o.op = "AddRef_listed" => n = 4 /\ Gives(q, h) /\ Place(q, 3).op = "release"
    /\ o.op = "new_proxy" => /\ j = 2 /\ Place(q, 1).op = "release_shim" /\ w = Nothing
                             /\ n = 2 \/ (n = 3 /\ Place(q, 3).op = "new_stub")
    /\ o.op = "Pin" => /\ n = 3 /\ Place(q, 2) = Op("release", o.arg) /\ Place(q, 1).op = "release_shim"
                       /\ w = Nothing
    /\ o.op = "Unpin_proxy" => n = 1
    /\ o.op = "release_shim" => /\ j = 1 \/ (j = 2 /\ Place(q, 1).op = "release")
                                /\ ~Shimless(q) => s \in Stubs

ShapeOf(q, s, h, w) ==
    /\ \A j \in 1..Len(q) : ShapeAt(q, s, h, w, j)
    /\ s # 0 => HasIn(q, "release_shim") /\ ~HasIn(q, "find") /\ ~HasIn(q, "new_stub")

\* A release gives way to releases.
Released(q, r) ==
    /\ q \in Seq(Ops) /\ r \in Seq(Ops) /\ Len(q) \in Nat \ {0} /\ Len(r) \in Nat /\ Len(r) >= Len(q) - 1
    /\ Place(q, Len(q)).op \in Releasing
    /\ \A j \in 1..(Len(q) - 1) : Place(r, j) = Place(q, j)
    /\ \A j \in Len(q)..Len(r) : Place(r, j).op \in Releasing

\* Releasing leaves the other operations of a call as they are.
LEMMA ReleasedHas ==
    ASSUME NEW q, NEW r, Released(q, r), NEW n, n \notin Releasing
    PROVE  HasIn(r, n) <=> HasIn(q, n)
<1>1. ASSUME HasIn(q, n) PROVE HasIn(r, n)
  <2>1. PICK j \in 1..Len(q) : Place(q, j).op = n
    BY <1>1 DEF HasIn
  <2>2. j # Len(q)
    BY <2>1 DEF Released
  <2>3. j \in 1..(Len(q) - 1) /\ j \in 1..Len(r)
    BY <2>2 DEF Released
  <2> QED
    BY <2>1, <2>3 DEF Released, HasIn
<1>2. ASSUME HasIn(r, n) PROVE HasIn(q, n)
  <2>1. PICK j \in 1..Len(r) : Place(r, j).op = n
    BY <1>2 DEF HasIn
  <2>2. j \notin Len(q)..Len(r)
    BY <2>1 DEF Released
  <2>3. j \in 1..(Len(q) - 1) /\ j \in 1..Len(q)
    BY <2>2 DEF Released
  <2> QED
    BY <2>1, <2>3 DEF Released, HasIn
<1> QED
  BY <1>1, <1>2

\* Where the head is not one of the foremost operations, no place holds one.
LEMMA NothingForemost ==
    ASSUME NEW q, NEW s, NEW h, NEW w, ShapeOf(q, s, h, w), Len(q) \in Nat \ {0},
           Place(q, Len(q)).op \notin Foremost
    PROVE  /\ \A j \in 1..Len(q) : Place(q, j).op \notin Foremost
           /\ \A n \in Foremost : ~HasIn(q, n)
<1>1. \A j \in 1..Len(q) : Place(q, j).op \notin Foremost
  BY DEF ShapeOf, ShapeAt
<1> QED
  BY <1>1 DEF HasIn

\* Releasing keeps the form of a call.
LEMMA ReleasedShape ==
    ASSUME NEW q, NEW r, Released(q, r), NEW s, NEW h, NEW w, ShapeOf(q, s, h, w)
    PROVE  ShapeOf(r, s, h, w)
<1>1. /\ \A j \in 1..Len(q) : Place(q, j).op \notin Foremost
      /\ \A n \in Foremost : ~HasIn(q, n)
  BY NothingForemost DEF Released, Releasing, Foremost
<1>2. /\ HasIn(r, "release_shim") <=> HasIn(q, "release_shim")
      /\ HasIn(r, "find") <=> HasIn(q, "find")
      /\ HasIn(r, "new_stub") <=> HasIn(q, "new_stub")
      /\ HasIn(r, "AddRef_found") <=> HasIn(q, "AddRef_found")
  BY ReleasedHas DEF Releasing
<1>3. ASSUME NEW j \in 1..Len(r) PROVE ShapeAt(r, s, h, w, j)
  <2>1. CASE j \in Len(q)..Len(r)
    <3>1. Place(r, j).op \in Releasing
      BY <2>1 DEF Released
    <3> QED
      BY <3>1 DEF ShapeAt, Releasing, Foremost
  <2>2. CASE j \notin Len(q)..Len(r)
    <3>1. j \in 1..(Len(q) - 1) /\ j \in 1..Len(q) /\ Len(q) \in Nat /\ Len(r) \in Nat /\ j < Len(q)
      BY <2>2 DEF Released
    <3>2. Place(r, j) = Place(q, j) /\ ShapeAt(q, s, h, w, j) /\ Place(q, j).op \notin Foremost
      BY <1>1, <3>1 DEF Released, ShapeOf
    <3>3. Place(q, j).op = "bind" => Gives(r, h)
      <4>1. Place(q, j).op = "bind" => 1 \in 1..(Len(q) - 1) /\ 2 \in 1..(Len(q) - 1) /\ Gives(q, h)
        BY <3>1, <3>2 DEF ShapeAt
      <4> QED
        BY <4>1 DEF Gives, Released
    <3>4. Place(q, j).op # "new_proxy"
      <4>1. Place(q, j).op = "new_proxy" => j = 2 /\ (Len(q) = 2 \/ (Len(q) = 3 /\ Place(q, 3).op = "new_stub"))
        BY <3>2 DEF ShapeAt
      <4>2. ASSUME Len(q) = 2, j = 2 PROVE FALSE
        BY <3>1, <4>2
      <4>3. Len(q) = 3 => 3 \in 1..Len(q)
        BY <3>1
      <4> QED
        BY <1>1, <4>1, <4>2, <4>3 DEF Foremost
    <3>5. Place(q, j).op = "release_shim" => /\ j = 1 \/ (j = 2 /\ Place(r, 1).op = "release")
                                             /\ ~Shimless(r) => s \in Stubs
      <4>1. j = 2 => Place(r, 1) = Place(q, 1)
        BY <3>1 DEF Released
      <4> QED
        BY <1>2, <3>2, <4>1 DEF ShapeAt, Shimless
    <3> QED
      BY <3>2, <3>3, <3>4, <3>5 DEF ShapeAt, Foremost
  <2> QED
    BY <2>1, <2>2
<1> QED
  BY <1>2, <1>3 DEF ShapeOf

-----------------------------------------------------------------------------
\* What refers to what. While an argument is on its way to another module what the
\* thread holds is what its call will release.

Has(t, n) == HasIn(todo[t], n)
Handing(t) == Has(t, "bind") \/ Has(t, "add1") \/ Has(t, "AddRef_listed")
IsListed(s) == <<Home, Object, s>> \in holders
IsShared(p) == \E m \in Modules, s \in Stubs : <<m, p, s>> \in holders

Adding(q, p) == Len(q) = 3 /\ Place(q, 3).op = "add1" /\ Place(q, 3).arg[2] = p

HandsOf(x) == {t \in Threads : Hold(t) = x /\ ~Handing(t)}
AddsOf(p) == {t \in Threads : Adding(todo[t], p)}
WiresOf(p) == {t \in Threads : wired[t] = p}
ShimsAt(s) == {t \in Threads : shim[t] = s /\ ~Has(t, "AddRef_found")}
ProxiesFor(s) == {p \in Proxies : proxies[p].refs > 0 /\ proxies[p].shim = s}
PinnedFor(s) == {p \in Proxies : proxies[p].pins > 0 /\ proxies[p].shim = s}
Referred == {s \in Stubs : stubs[s].refs > 0}
Twice == {s \in Stubs : stubs[s].refs = 2 /\ stubs[s].pins > 0}

StubKind == [live : BOOLEAN, refs : Int, pins : Int]
ProxyKind == [live : BOOLEAN, refs : Int, ints : Int, pins : Int, shim : Stubs \cup {0}]

ShimTypes ==
    /\ object \in Int
    /\ stubs \in [Stubs -> StubKind]
    /\ proxies \in [Proxies -> ProxyKind]
    /\ holders \subseteq Modules \X (Proxies \cup {Object}) \X Stubs
    /\ todo \in Lists
    /\ shim \in [Threads -> Stubs \cup {0}]
    /\ holds \in [Threads -> Modules \X (Proxies \cup {Object, Nothing})]
    /\ wired \in [Threads -> Proxies \cup {Nothing}]
    /\ late \in BOOLEAN /\ calls \in 0..MaxCalls

\* Where that is counted.
ObjectSum ==
    /\ IsFiniteSet(HandsOf(Object)) /\ IsFiniteSet(Referred) /\ IsFiniteSet(Twice)
    /\ object = 1 + Cardinality(HandsOf(Object)) + Waits(todo, Op("release", Object))
                  + Cardinality(Referred) + Cardinality(Twice)

StubSum(s) ==
    /\ IsFiniteSet(ShimsAt(s)) /\ IsFiniteSet(ProxiesFor(s)) /\ IsFiniteSet(PinnedFor(s))
    /\ stubs[s].refs = Cardinality(ShimsAt(s)) + Waits(todo, Op("release_stub", s)) + Cardinality(ProxiesFor(s))
    /\ stubs[s].pins = Waits(todo, Op("release_pin", s)) + Cardinality(PinnedFor(s))
    /\ Waits(todo, Op("Destruct_stub", s)) = One(stubs[s].live /\ stubs[s].refs = 0 /\ stubs[s].pins = 0)
    /\ stubs[s].live \/ stubs[s] = NoStub

ProxySum(p) ==
    /\ IsFiniteSet(HandsOf(p)) /\ IsFiniteSet(AddsOf(p)) /\ IsFiniteSet(WiresOf(p))
    /\ proxies[p].refs = Cardinality(HandsOf(p)) + Waits(todo, Op("release", p)) + Cardinality(AddsOf(p))
    /\ proxies[p].ints = Waits(todo, Op("Internal_Release", p))
    /\ proxies[p].pins = Cardinality(WiresOf(p)) + Waits(todo, Op("Unpin_proxy", p))
    /\ Waits(todo, Op("Destruct_proxy", p)) =
           One(proxies[p].live /\ proxies[p].refs = 0 /\ proxies[p].pins = 0 /\ proxies[p].ints = 0)
    /\ IF proxies[p].live THEN proxies[p].shim \in Stubs ELSE proxies[p] = NoProxy

Sums ==
    /\ Counted(todo) /\ ObjectSum
    /\ \A s \in Stubs : StubSum(s)
    /\ \A p \in Proxies : ProxySum(p)

Shapes == \A t \in Threads : ShapeOf(todo[t], shim[t], holds[t], wired[t])

\* A shim that is to be listed, or to be a controller's, is one thread's.
Private(s) == stubs[s].refs = 1 /\ stubs[s].pins = 0 /\ ~IsListed(s)

\* What a thread holds, and what it is about to do, is with what is listed; but for
\* a controller's shim and its proxy, that are in no map.
LinkAt(t, j) ==
    LET o == Place(todo[t], j) IN
    /\ o.op = "add1" => IsListed(proxies[o.arg[2]].shim) /\ proxies[o.arg[2]].pins = 0 /\ proxies[o.arg[2]].live
    /\ o.op = "AddRef_found" => stubs[o.arg].refs = 0 \/ IsListed(o.arg)
    /\ o.op = "AddRef_listed" =>
           \/ o.arg[2] = Object /\ o.arg[1] = Home
           \/ /\ o.arg[2] \in Proxies
              /\ \/ proxies[o.arg[2]].refs = 0
                 \/ <<o.arg[1], o.arg[2], proxies[o.arg[2]].shim>> \in holders /\ IsListed(proxies[o.arg[2]].shim)
    /\ o.op = "bind" /\ ~Shimless(todo[t]) /\ ~Has(t, "add2") => IsListed(shim[t])
    /\ o.op = "add2" => Private(o.arg)
    /\ o.op = "new_proxy" /\ ~Has(t, "new_stub") => Private(shim[t])
    /\ o.op = "Pin" => LET s == proxies[o.arg].shim IN
           /\ shim[t] = s /\ stubs[s].refs = 2 /\ stubs[s].pins = 0 /\ ~IsListed(s)
           /\ proxies[o.arg].refs = 1 /\ proxies[o.arg].pins = 0 /\ ~IsShared(o.arg)

Linked(t) ==
    /\ \A j \in 1..Len(todo[t]) : LinkAt(t, j)
    /\ Hold(t) \in Proxies => /\ <<holds[t][1], Hold(t), proxies[Hold(t)].shim>> \in holders
                              /\ IsListed(proxies[Hold(t)].shim)
    /\ Hold(t) = Object => holds[t][1] = Home
Links == \A t \in Threads : Linked(t)

\* The maps: one shim of the object, in its module only, and one proxy in another.
Maps ==
    /\ \A m \in Modules, x \in Proxies \cup {Object}, s \in Stubs : <<m, x, s>> \in holders =>
           IF x = Object THEN m = Home /\ stubs[s].live
           ELSE m # Home /\ proxies[x].live /\ proxies[x].shim = s
    /\ \A s, r \in Stubs : IsListed(s) /\ IsListed(r) => s = r
    /\ \A m \in Modules, x, y \in Proxies, s \in Stubs : <<m, x, s>> \in holders /\ <<m, y, s>> \in holders => x = y

Pins ==
    /\ \A p \in Proxies : proxies[p].pins > 0 =>
           proxies[p].refs <= 1 /\ ~IsListed(proxies[p].shim) /\ ~IsShared(p)
    /\ \A s \in Stubs : stubs[s].pins > 0 => stubs[s].refs <= 2
    /\ \A s \in Stubs : Waits(todo, Op("release_pin", s)) > 0 => stubs[s].refs = 0

\* What a controller's shim and proxy are referred to by is all in the call of the
\* thread whose wire stub has pinned the proxy, or no longer: nothing is left of it
\* when the thread unpins it.
Keeps(t, p) == wired[t] = p \/ \E j \in 1..Len(todo[t]) : Place(todo[t], j) = Op("Unpin_proxy", p)
Owns(t, p) ==
    LET s == proxies[p].shim IN
    /\ ProxiesFor(s) \subseteq {p}
    /\ \A u \in Threads \ {t} :
          /\ shim[u] # s
          /\ \A j \in 1..Len(todo[u]) : Place(todo[u], j) \notin {Op("release", p), Op("release_stub", s)}
Kept == \A t \in Threads : \A p \in Proxies : Keeps(t, p) => Owns(t, p)

ShimAssumption ==
    Home \in Modules /\ Stubs \subseteq Nat \ {0} /\ Proxies \subseteq Nat \ {0} /\ MaxCalls \in Nat
ShimInv == ShimAssumption /\ ShimTypes /\ (~late => Sums /\ Shapes /\ Links /\ Maps /\ Pins /\ Kept)

-----------------------------------------------------------------------------
\* The first operation of a call, and its argument.

Current(t, n) ==
    /\ ~late /\ todo[t] # <<>> /\ Counted(todo)
    /\ Head(todo[t]) = Op(n, Arg(t)) /\ Head(todo[t]) \in Ops
    /\ Arg(t) \in ArgsOf(n)
    /\ Len(todo[t]) \in Nat \ {0} /\ Place(todo[t], Len(todo[t])) = Op(n, Arg(t))
    /\ Place(todo[t], Len(todo[t])).op = n /\ Place(todo[t], Len(todo[t])).arg = Arg(t)
    /\ 1 <= Waits(todo, Op(n, Arg(t)))

\* What is in a thread's list is counted.
LEMMA WaitsFor ==
    ASSUME Counted(todo), NEW t \in Threads, NEW j \in 1..Len(todo[t]), NEW o \in Ops, Place(todo[t], j) = o
    PROVE  Waits(todo, o) \in Nat /\ 1 <= Waits(todo, o)
<1>1. Len(todo[t]) \in Nat /\ j \in Nat
  BY LenProperties DEF Counted, Lists
<1>2. <<t, j>> \in Places(todo, o)
  BY <1>1 DEF Places
<1>3. IsFiniteSet(Places(todo, o))
  BY DEF Counted
<1>4. Cardinality(Places(todo, o)) \in Nat /\ Cardinality(Places(todo, o)) # 0
  BY <1>2, <1>3, FS_CardinalityType, FS_EmptySet
<1> QED
  BY <1>4 DEF Waits

\* What is at the head is the operation that is next, with an argument of its kind.
LEMMA NowIs ==
    ASSUME ShimInv, NEW t \in Threads, NEW n, Now(t, n)
    PROVE  Current(t, n)
<1>1. ~late /\ todo[t] # <<>> /\ Head(todo[t]).op = n
  BY DEF Now
<1>2. Counted(todo)
  BY <1>1 DEF ShimInv, Sums
<1>3. todo[t] \in Seq(Ops)
  BY <1>2 DEF Counted, Lists
<1>4. /\ Len(todo[t]) \in Nat \ {0} /\ Place(todo[t], Len(todo[t])) = Head(todo[t]) /\ Head(todo[t]) \in Ops
  BY <1>1, <1>3, Popped
<1>5. Head(todo[t]).arg \in ArgsOf(Head(todo[t]).op) /\ Head(todo[t]) = Op(Head(todo[t]).op, Head(todo[t]).arg)
  BY <1>4, OpsAre
<1>6. Head(todo[t]) = Op(n, Arg(t)) /\ Arg(t) = Head(todo[t]).arg /\ Arg(t) \in ArgsOf(n)
  BY <1>1, <1>5 DEF Arg
<1>7. 1 <= Waits(todo, Head(todo[t]))
  BY <1>2, <1>4, WaitsFor
<1> QED
  BY <1>1, <1>2, <1>4, <1>6, <1>7, OpsAre DEF Current

\* Then puts operations in place of the head.
LEMMA ThenIs == ASSUME NEW t, NEW os, Then(t, os) PROVE todo' = GoOn(todo, t, os)
BY DEF Then, GoOn

\* Of what waits after a step.
Stepped(t, n) == Current(t, n) /\ Going(todo, todo', t)
Goes0(t, n) ==
    /\ Stepped(t, n) /\ Len(todo'[t]) = Len(todo[t]) - 1
    /\ \A o \in Ops : Waits(todo, o) \in Nat /\ Waits(todo', o) \in Nat
    /\ \A o \in Ops : Waits(todo', o) = Waits(todo, o) - One(o = Op(n, Arg(t)))
Goes1(t, n, a) ==
    /\ Stepped(t, n) /\ Len(todo'[t]) = Len(todo[t]) /\ Place(todo'[t], Len(todo[t])) = a
    /\ \A o \in Ops : Waits(todo, o) \in Nat /\ Waits(todo', o) \in Nat
    /\ \A o \in Ops : Waits(todo', o) = Waits(todo, o) - One(o = Op(n, Arg(t))) + One(o = a)
Goes2(t, n, a, b) ==
    /\ Stepped(t, n) /\ Len(todo'[t]) = Len(todo[t]) + 1
    /\ Place(todo'[t], Len(todo[t])) = b /\ Place(todo'[t], Len(todo[t]) + 1) = a
    /\ \A o \in Ops : Waits(todo, o) \in Nat /\ Waits(todo', o) \in Nat
    /\ \A o \in Ops : Waits(todo', o) = Waits(todo, o) - One(o = Op(n, Arg(t))) + One(o = a) + One(o = b)

\* How a step that is done, brings one operation about, or two, changes the lists.
LEMMA ThenGoes ==
    ASSUME ShimInv, NEW t \in Threads, NEW n, Now(t, n)
    PROVE  /\ Then(t, <<>>) => Goes0(t, n)
           /\ \A a \in Ops : Then(t, <<a>>) => Goes1(t, n, a)
           /\ \A a, b \in Ops : Then(t, <<a, b>>) => Goes2(t, n, a, b)
<1>1. Current(t, n)
  BY NowIs
<1>2. todo[t] # <<>> /\ Counted(todo) /\ Head(todo[t]) = Op(n, Arg(t))
  BY <1>1 DEF Current
<1>3. Then(t, <<>>) => Goes0(t, n)
  <2> SUFFICES ASSUME Then(t, <<>>) PROVE Goes0(t, n)
    OBVIOUS
  <2>1. todo' = GoOn(todo, t, <<>>)
    BY ThenIs
  <2>2. /\ Going(todo, todo', t) /\ Len(todo'[t]) = Len(todo[t]) - 1
        /\ \A o \in Ops : /\ Waits(todo, o) \in Nat /\ Waits(todo', o) \in Nat
                          /\ Waits(todo', o) = Waits(todo, o) - One(o = Head(todo[t]))
    BY <1>2, <2>1, GoneOn
  <2> QED
    BY <1>1, <1>2, <2>2 DEF Goes0, Stepped
<1>4. ASSUME NEW a \in Ops, Then(t, <<a>>) PROVE Goes1(t, n, a)
  <2>1. todo' = GoOn(todo, t, <<a>>)
    BY <1>4, ThenIs
  <2>2. /\ Going(todo, todo', t) /\ Len(todo'[t]) = Len(todo[t]) /\ Place(todo'[t], Len(todo[t])) = a
        /\ \A o \in Ops : /\ Waits(todo, o) \in Nat /\ Waits(todo', o) \in Nat
                          /\ Waits(todo', o) = Waits(todo, o) - One(o = Head(todo[t])) + One(o = a)
    BY <1>2, <2>1, GoneOnTo
  <2> QED
    BY <1>1, <1>2, <2>2 DEF Goes1, Stepped
<1>5. ASSUME NEW a \in Ops, NEW b \in Ops, Then(t, <<a, b>>) PROVE Goes2(t, n, a, b)
  <2>1. todo' = GoOn(todo, t, <<a, b>>)
    BY <1>5, ThenIs
  <2>2. /\ Going(todo, todo', t) /\ Len(todo'[t]) = Len(todo[t]) + 1
        /\ Place(todo'[t], Len(todo[t])) = b /\ Place(todo'[t], Len(todo[t]) + 1) = a
        /\ \A o \in Ops : /\ Waits(todo, o) \in Nat /\ Waits(todo', o) \in Nat
                          /\ Waits(todo', o) = Waits(todo, o) - One(o = Head(todo[t])) + One(o = a) + One(o = b)
    BY <1>2, <2>1, GoneOnToTwo
  <2> QED
    BY <1>1, <1>2, <2>2 DEF Goes2, Stepped
<1> QED
  BY <1>3, <1>4, <1>5

-----------------------------------------------------------------------------
\* What a release leaves as it was.

Framed ==
    /\ Shapes'
    /\ \A u \in Threads : \A m : m \notin Releasing /\ m # "Unpin_proxy" => (Has(u, m)' <=> Has(u, m))
    /\ \A u \in Threads : (Handing(u)' <=> Handing(u)) /\ (Shimless(todo'[u]) <=> Shimless(todo[u]))
    /\ \A x : HandsOf(x)' = HandsOf(x)
    /\ \A s : ShimsAt(s)' = ShimsAt(s)
    /\ \A p : AddsOf(p)' = AddsOf(p)
    /\ \A p : WiresOf(p)' = WiresOf(p)
    /\ \A u \in Threads : \A j \in 1..Len(todo'[u]) : Place(todo'[u], j).op \notin Releasing =>
           j \in 1..Len(todo[u]) /\ Place(todo'[u], j) = Place(todo[u], j)

\* A step that releases leaves the forms of calls, and who has what in hand, as they were.
LEMMA ReleaseFrame ==
    ASSUME ShimInv, NEW t \in Threads, NEW n \in Releasing, Stepped(t, n),
           Len(todo'[t]) \in Nat, Len(todo'[t]) >= Len(todo[t]) - 1,
           \A j \in Len(todo[t])..Len(todo'[t]) : Place(todo'[t], j).op \in Releasing,
           UNCHANGED <<shim, holds, wired>>
    PROVE  Framed
<1> DEFINE q == todo[t]
           r == todo'[t]
<1>1. /\ ~late /\ Len(q) \in Nat \ {0} /\ Place(q, Len(q)).op = n
  BY DEF Stepped, Current
<1>2. /\ Rest(todo, todo', t, Len(q) - 1)
  BY DEF Stepped, Going
<1>a. todo \in Lists /\ todo' \in Lists
  BY <1>2 DEF Rest
<1>b. \A u \in Threads : u # t => todo'[u] = todo[u]
  BY <1>2 DEF Rest
<1>c. \A j \in 1..(Len(q) - 1) : Place(r, j) = Place(q, j)
  BY <1>2 DEF Rest
<1>3. /\ todo \in Lists /\ todo' \in Lists
      /\ \A u \in Threads : u # t => todo'[u] = todo[u]
      /\ \A j \in 1..(Len(q) - 1) : Place(r, j) = Place(q, j)
  BY <1>a, <1>b, <1>c
<1>d. shim' = shim /\ holds' = holds /\ wired' = wired
  OBVIOUS
<1>4. q \in Seq(Ops) /\ r \in Seq(Ops)
  BY <1>3 DEF Lists
<1>5. Released(q, r)
  BY <1>1, <1>3, <1>4 DEF Released
<1>6. \A m : m \notin Releasing => (HasIn(r, m) <=> HasIn(q, m))
  BY <1>5, ReleasedHas
<1>7. Shapes
  BY <1>1 DEF ShimInv
<1>8. ShapeOf(q, shim[t], holds[t], wired[t])
  BY <1>7 DEF Shapes
<1>9. /\ \A j \in 1..Len(q) : Place(q, j).op \notin Foremost
      /\ \A m \in Foremost : ~HasIn(q, m)
  <2>1. n \notin Foremost
    BY DEF Releasing, Foremost
  <2> QED
    BY <1>1, <1>8, <2>1, NothingForemost
<1>10. ShapeOf(r, shim[t], holds[t], wired[t])
  BY <1>5, <1>8, ReleasedShape
<1> HIDE DEF q, r
<1>11. Shapes'
  <2> SUFFICES ASSUME NEW u \in Threads PROVE ShapeOf(todo'[u], shim'[u], holds'[u], wired'[u])
    BY DEF Shapes
  <2>1. CASE u = t
    <3>1. ShapeOf(todo'[t], shim'[t], holds'[t], wired'[t])
      BY <1>d, <1>10 DEF r
    <3> QED
      BY <2>1, <3>1
  <2>2. CASE u # t
    BY <1>3, <1>7, <1>d, <2>2 DEF Shapes
  <2> QED
    BY <2>1, <2>2
<1>12. ASSUME NEW u \in Threads, NEW m, m \notin Releasing PROVE HasIn(todo'[u], m) <=> HasIn(todo[u], m)
  BY <1>3, <1>6, <1>12 DEF q, r
<1>13. ASSUME NEW u \in Threads PROVE (Handing(u)' <=> Handing(u)) /\ (Shimless(todo'[u]) <=> Shimless(todo[u]))
  <2>1. \A m \in {"bind", "add1", "AddRef_listed", "find", "new_stub", "AddRef_found"} :
            HasIn(todo'[u], m) <=> HasIn(todo[u], m)
    BY <1>12 DEF Releasing
  <2> QED
    BY <2>1 DEF Handing, Has, Shimless
<1>14. \A x : HandsOf(x)' = HandsOf(x)
  BY <1>13 DEF HandsOf, Hold
<1>15. \A u \in Threads : Has(u, "AddRef_found")' <=> Has(u, "AddRef_found")
  BY <1>12 DEF Has, Releasing
<1>16. \A s : ShimsAt(s)' = ShimsAt(s)
  BY <1>15 DEF ShimsAt
<1>17. ASSUME NEW u \in Threads, NEW p PROVE Adding(todo'[u], p) <=> Adding(todo[u], p)
  <2>1. CASE u # t
    BY <1>3, <2>1
  <2>2. ~Adding(q, p)
    <3>1. Adding(q, p) => 3 \in 1..Len(q) /\ Place(q, 3).op \in Foremost
      BY DEF Adding, Foremost
    <3> QED
      BY <1>9, <3>1
  <2>3. ~Adding(r, p)
    <3>1. SUFFICES ASSUME Len(r) = 3, Place(r, 3).op = "add1" PROVE FALSE
      BY DEF Adding
    <3>2. Place(r, 3).op \notin Releasing
      BY <3>1 DEF Releasing
    <3>3. 3 \notin Len(q)..Len(r)
      BY <3>2 DEF q, r
    <3>4. 3 \in 1..(Len(q) - 1) /\ 3 \in 1..Len(q)
      BY <1>1, <3>1, <3>3
    <3>5. Place(q, 3).op = "add1"
      BY <1>3, <3>1, <3>4 DEF q, r
    <3> QED
      BY <1>9, <3>4, <3>5 DEF Foremost
  <2> QED
    BY <2>1, <2>2, <2>3 DEF q, r
<1>18. \A p : AddsOf(p)' = AddsOf(p)
  BY <1>17 DEF AddsOf
<1>19. \A p : WiresOf(p)' = WiresOf(p)
  BY DEF WiresOf
<1>20. ASSUME NEW u \in Threads, NEW j \in 1..Len(todo'[u]), Place(todo'[u], j).op \notin Releasing
       PROVE  j \in 1..Len(todo[u]) /\ Place(todo'[u], j) = Place(todo[u], j)
  <2>1. CASE u # t
    BY <1>3, <2>1
  <2>2. CASE u = t
    <3>1. j \notin Len(q)..Len(r)
      BY <1>20, <2>2 DEF q, r
    <3>2. j \in 1..(Len(q) - 1) /\ j \in 1..Len(q)
      BY <1>1, <2>2, <3>1 DEF q, r
    <3> QED
      BY <1>3, <2>2, <3>2 DEF q, r
  <2> QED
    BY <2>1, <2>2
<1> QED
  BY <1>11, <1>12, <1>13, <1>14, <1>16, <1>18, <1>19, <1>20 DEF Framed, Has

-----------------------------------------------------------------------------
\* How many of each release wait, after a step that does one and leaves two to do.

WaitsMore(m, x, n, v, an, av, bn, bv) ==
    /\ Waits(todo, Op(m, x)) \in Nat /\ Waits(todo', Op(m, x)) \in Nat
    /\ Waits(todo', Op(m, x)) = Waits(todo, Op(m, x)) - One(m = n /\ x = v)
                                    + One(m = an /\ x = av) + One(m = bn /\ x = bv)

Moves(n, v, an, av, bn, bv) ==
    /\ \A x \in Proxies \cup {Object} : WaitsMore("release", x, n, v, an, av, bn, bv)
    /\ \A s \in Stubs : /\ WaitsMore("release_stub", s, n, v, an, av, bn, bv)
                        /\ WaitsMore("release_pin", s, n, v, an, av, bn, bv)
                        /\ WaitsMore("Destruct_stub", s, n, v, an, av, bn, bv)
    /\ \A p \in Proxies : /\ WaitsMore("Internal_Release", p, n, v, an, av, bn, bv)
                          /\ WaitsMore("Destruct_proxy", p, n, v, an, av, bn, bv)
                          /\ WaitsMore("Unpin_proxy", p, n, v, an, av, bn, bv)

\* It is enough to know of each operation how many of it wait.
LEMMA MovesIf ==
    ASSUME NEW n, NEW v, NEW an, NEW av, NEW bn, NEW bv,
           \A m \in OpNames : \A x \in ArgsOf(m) : WaitsMore(m, x, n, v, an, av, bn, bv)
    PROVE  Moves(n, v, an, av, bn, bv)
<1>1. /\ "release" \in OpNames /\ "release_stub" \in OpNames /\ "release_pin" \in OpNames
      /\ "Destruct_stub" \in OpNames /\ "Internal_Release" \in OpNames
      /\ "Destruct_proxy" \in OpNames /\ "Unpin_proxy" \in OpNames
  BY DEF OpNames
<1>2. /\ ArgsOf("release") = Proxies \cup {Object}
      /\ ArgsOf("release_stub") = Stubs /\ ArgsOf("release_pin") = Stubs /\ ArgsOf("Destruct_stub") = Stubs
      /\ ArgsOf("Internal_Release") = Proxies /\ ArgsOf("Destruct_proxy") = Proxies
      /\ ArgsOf("Unpin_proxy") = Proxies
  BY DEF ArgsOf
<1> QED
  BY <1>1, <1>2 DEF Moves

\* How many of each operation wait after a step.
LEMMA MovesBy ==
    ASSUME NEW t, NEW n
    PROVE  /\ Goes0(t, n) => Moves(n, Arg(t), "none", 0, "none", 0)
           /\ \A an, av : Goes1(t, n, Op(an, av)) => Moves(n, Arg(t), an, av, "none", 0)
           /\ \A an, av, bn, bv : Goes2(t, n, Op(an, av), Op(bn, bv)) => Moves(n, Arg(t), an, av, bn, bv)
<1>1. ASSUME Goes0(t, n) PROVE Moves(n, Arg(t), "none", 0, "none", 0)
  <2>1. ASSUME NEW m \in OpNames, NEW x \in ArgsOf(m) PROVE WaitsMore(m, x, n, Arg(t), "none", 0, "none", 0)
    <3>0. m # "none"
      BY DEF OpNames
    <3>1. Op(m, x) \in Ops /\ (Op(m, x) = Op(n, Arg(t)) <=> m = n /\ x = Arg(t))
      BY OpIn, OpSame
    <3>2. /\ Waits(todo, Op(m, x)) \in Nat /\ Waits(todo', Op(m, x)) \in Nat
          /\ Waits(todo', Op(m, x)) = Waits(todo, Op(m, x)) - One(Op(m, x) = Op(n, Arg(t)))
      BY <1>1, <3>1 DEF Goes0
    <3> QED
      BY <3>0, <3>1, <3>2 DEF WaitsMore, One
  <2> QED
    BY <2>1, MovesIf
<1>2. ASSUME NEW an, NEW av, Goes1(t, n, Op(an, av)) PROVE Moves(n, Arg(t), an, av, "none", 0)
  <2>1. ASSUME NEW m \in OpNames, NEW x \in ArgsOf(m) PROVE WaitsMore(m, x, n, Arg(t), an, av, "none", 0)
    <3>0. m # "none"
      BY DEF OpNames
    <3>1. /\ Op(m, x) \in Ops /\ (Op(m, x) = Op(n, Arg(t)) <=> m = n /\ x = Arg(t))
          /\ Op(m, x) = Op(an, av) <=> m = an /\ x = av
      BY OpIn, OpSame
    <3>2. /\ Waits(todo, Op(m, x)) \in Nat /\ Waits(todo', Op(m, x)) \in Nat
          /\ Waits(todo', Op(m, x)) = Waits(todo, Op(m, x)) - One(Op(m, x) = Op(n, Arg(t)))
                                        + One(Op(m, x) = Op(an, av))
      BY <1>2, <3>1 DEF Goes1
    <3> QED
      BY <3>0, <3>1, <3>2 DEF WaitsMore, One
  <2> QED
    BY <2>1, MovesIf
<1>3. ASSUME NEW an, NEW av, NEW bn, NEW bv, Goes2(t, n, Op(an, av), Op(bn, bv))
      PROVE  Moves(n, Arg(t), an, av, bn, bv)
  <2>1. ASSUME NEW m \in OpNames, NEW x \in ArgsOf(m) PROVE WaitsMore(m, x, n, Arg(t), an, av, bn, bv)
    <3>1. /\ Op(m, x) \in Ops /\ (Op(m, x) = Op(n, Arg(t)) <=> m = n /\ x = Arg(t))
          /\ Op(m, x) = Op(an, av) <=> m = an /\ x = av
          /\ Op(m, x) = Op(bn, bv) <=> m = bn /\ x = bv
      BY OpIn, OpSame
    <3>2. /\ Waits(todo, Op(m, x)) \in Nat /\ Waits(todo', Op(m, x)) \in Nat
          /\ Waits(todo', Op(m, x)) = Waits(todo, Op(m, x)) - One(Op(m, x) = Op(n, Arg(t)))
                                        + One(Op(m, x) = Op(an, av)) + One(Op(m, x) = Op(bn, bv))
      BY <1>3, <3>1 DEF Goes2
    <3> QED
      BY <3>1, <3>2 DEF WaitsMore, One
  <2> QED
    BY <2>1, MovesIf
<1> QED
  BY <1>1, <1>2, <1>3

\* The last reference, and none.
LEMMA SizeIs ==
    ASSUME NEW Z, IsFiniteSet(Z)
    PROVE  /\ Cardinality(Z) \in Nat /\ (Cardinality(Z) = 0 <=> Z = {})
           /\ \A x \in Z : Cardinality(Z) >= 1
           /\ \A x, y \in Z : x # y => Cardinality(Z) >= 2
<1>1. Cardinality(Z) \in Nat /\ (Cardinality(Z) = 0 <=> Z = {})
  BY FS_CardinalityType, FS_EmptySet
<1>2. ASSUME NEW x \in Z PROVE Cardinality(Z) >= 1
  BY <1>1
<1>3. ASSUME NEW x \in Z, NEW y \in Z, x # y PROVE Cardinality(Z) >= 2
  <2>1. IsFiniteSet(Z \ {x}) /\ Cardinality(Z \ {x}) = Cardinality(Z) - 1
    BY FS_RemoveElement
  <2>2. Cardinality(Z \ {x}) \in Nat /\ Cardinality(Z \ {x}) # 0
    <3>1. y \in Z \ {x}
      BY <1>3
    <3> QED
      BY <2>1, <3>1, FS_CardinalityType, FS_EmptySet
  <2> QED
    BY <1>1, <2>1, <2>2
<1> QED
  BY <1>1, <1>2, <1>3

-----------------------------------------------------------------------------
\* What the sums say of one stub and of one proxy.

\* The counts of a proxy are natural, it lives while one is above 0, and what waits is no more than is held.
LEMMA ProxyFacts ==
    ASSUME ShimInv, ~late, NEW p \in Proxies
    PROVE  /\ proxies[p].refs \in Nat /\ proxies[p].ints \in Nat /\ proxies[p].pins \in Nat
           /\ proxies[p].live \in BOOLEAN
           /\ proxies[p].refs > 0 \/ proxies[p].ints > 0 \/ proxies[p].pins > 0 => proxies[p].live
           /\ proxies[p].live => proxies[p].shim \in Stubs
           /\ ~proxies[p].live => proxies[p] = NoProxy /\ proxies[p].refs = 0 /\ proxies[p].pins = 0
                /\ proxies[p].ints = 0
           /\ Op("release", p) \in Ops
           /\ Waits(todo, Op("release", p)) \in Nat
           /\ Waits(todo, Op("release", p)) <= proxies[p].refs
           /\ Waits(todo, Op("release", p)) + Cardinality(AddsOf(p)) <= proxies[p].refs
           /\ Waits(todo, Op("release", p)) + Cardinality(HandsOf(p)) <= proxies[p].refs
           /\ Cardinality(HandsOf(p)) \in Nat /\ Cardinality(AddsOf(p)) \in Nat
<1>1. ProxySum(p) /\ Counted(todo)
  BY DEF ShimInv, Sums
<1>2. /\ Op("release", p) \in Ops /\ Op("Internal_Release", p) \in Ops /\ Op("Unpin_proxy", p) \in Ops
  <2>1. "release" \in OpNames /\ "Internal_Release" \in OpNames /\ "Unpin_proxy" \in OpNames
    BY DEF OpNames
  <2>2. p \in ArgsOf("release") /\ p \in ArgsOf("Internal_Release") /\ p \in ArgsOf("Unpin_proxy")
    BY DEF ArgsOf
  <2> QED
    BY <2>1, <2>2, OpIn
<1>3. /\ Waits(todo, Op("release", p)) \in Nat /\ Waits(todo, Op("Internal_Release", p)) \in Nat
      /\ Waits(todo, Op("Unpin_proxy", p)) \in Nat
  BY <1>1, <1>2, FS_CardinalityType DEF Counted, Waits
<1>4. Cardinality(HandsOf(p)) \in Nat /\ Cardinality(AddsOf(p)) \in Nat /\ Cardinality(WiresOf(p)) \in Nat
  BY <1>1, FS_CardinalityType DEF ProxySum
<1>5. proxies[p].live \in BOOLEAN
  BY DEF ShimInv, ShimTypes, ProxyKind
<1>6. NoProxy.refs = 0 /\ NoProxy.pins = 0 /\ NoProxy.ints = 0
  BY DEF NoProxy
<1>7. /\ proxies[p].refs = Cardinality(HandsOf(p)) + Waits(todo, Op("release", p)) + Cardinality(AddsOf(p))
      /\ proxies[p].ints = Waits(todo, Op("Internal_Release", p))
      /\ proxies[p].pins = Cardinality(WiresOf(p)) + Waits(todo, Op("Unpin_proxy", p))
      /\ IF proxies[p].live THEN proxies[p].shim \in Stubs ELSE proxies[p] = NoProxy
  BY <1>1 DEF ProxySum
<1>8. ~proxies[p].live => proxies[p].refs = 0 /\ proxies[p].pins = 0 /\ proxies[p].ints = 0
  BY <1>6, <1>7
<1>9. proxies[p].refs \in Nat /\ proxies[p].ints \in Nat /\ proxies[p].pins \in Nat
  BY <1>3, <1>4, <1>7
<1>10. /\ Waits(todo, Op("release", p)) <= proxies[p].refs
       /\ Waits(todo, Op("release", p)) + Cardinality(AddsOf(p)) <= proxies[p].refs
       /\ Waits(todo, Op("release", p)) + Cardinality(HandsOf(p)) <= proxies[p].refs
  BY <1>3, <1>4, <1>7
<1>11. proxies[p].refs > 0 \/ proxies[p].ints > 0 \/ proxies[p].pins > 0 => proxies[p].live
  BY <1>5, <1>8
<1> QED
  BY <1>2, <1>3, <1>4, <1>5, <1>7, <1>8, <1>9, <1>10, <1>11

\* The same for a stub.
LEMMA StubFacts ==
    ASSUME ShimInv, ~late, NEW s \in Stubs
    PROVE  /\ stubs[s].refs \in Nat /\ stubs[s].pins \in Nat /\ stubs[s].live \in BOOLEAN
           /\ stubs[s].refs > 0 \/ stubs[s].pins > 0 => stubs[s].live
           /\ ~stubs[s].live => stubs[s] = NoStub /\ stubs[s].refs = 0 /\ stubs[s].pins = 0
           /\ Op("release_stub", s) \in Ops /\ Op("release_pin", s) \in Ops
           /\ Waits(todo, Op("release_stub", s)) \in Nat /\ Waits(todo, Op("release_pin", s)) \in Nat
           /\ Cardinality(ShimsAt(s)) \in Nat /\ Cardinality(ProxiesFor(s)) \in Nat
           /\ Cardinality(PinnedFor(s)) \in Nat
           /\ stubs[s].refs = Cardinality(ShimsAt(s)) + Waits(todo, Op("release_stub", s))
                + Cardinality(ProxiesFor(s))
           /\ stubs[s].pins = Waits(todo, Op("release_pin", s)) + Cardinality(PinnedFor(s))
<1>1. StubSum(s) /\ Counted(todo)
  BY DEF ShimInv, Sums
<1>2. Op("release_stub", s) \in Ops /\ Op("release_pin", s) \in Ops
  <2>1. "release_stub" \in OpNames /\ "release_pin" \in OpNames
    BY DEF OpNames
  <2>2. s \in ArgsOf("release_stub") /\ s \in ArgsOf("release_pin")
    BY DEF ArgsOf
  <2> QED
    BY <2>1, <2>2, OpIn
<1>3. Waits(todo, Op("release_stub", s)) \in Nat /\ Waits(todo, Op("release_pin", s)) \in Nat
  BY <1>1, <1>2, FS_CardinalityType DEF Counted, Waits
<1>4. /\ Cardinality(ShimsAt(s)) \in Nat /\ Cardinality(ProxiesFor(s)) \in Nat
      /\ Cardinality(PinnedFor(s)) \in Nat
  BY <1>1, FS_CardinalityType DEF StubSum
<1>5. stubs[s].live \in BOOLEAN
  BY DEF ShimInv, ShimTypes, StubKind
<1>6. NoStub.refs = 0 /\ NoStub.pins = 0
  BY DEF NoStub
<1>7. /\ stubs[s].refs = Cardinality(ShimsAt(s)) + Waits(todo, Op("release_stub", s)) + Cardinality(ProxiesFor(s))
      /\ stubs[s].pins = Waits(todo, Op("release_pin", s)) + Cardinality(PinnedFor(s))
      /\ stubs[s].live \/ stubs[s] = NoStub
  BY <1>1 DEF StubSum
<1>8. ~stubs[s].live => stubs[s].refs = 0 /\ stubs[s].pins = 0
  BY <1>6, <1>7
<1>9. stubs[s].refs \in Nat /\ stubs[s].pins \in Nat
  <2>1. \A a, b, c \in Nat : a + b + c \in Nat /\ a + b \in Nat
    OBVIOUS
  <2> QED
    BY <1>3, <1>4, <1>7, <2>1
<1> QED
  BY <1>2, <1>3, <1>4, <1>5, <1>7, <1>8, <1>9

\* A proxy that is referred to, or pinned, is counted by its stub.
LEMMA ShimOfProxy ==
    ASSUME ShimInv, ~late, NEW p \in Proxies
    PROVE  LET s == proxies[p].shim IN
           /\ proxies[p].refs > 0 => s \in Stubs /\ p \in ProxiesFor(s) /\ stubs[s].refs >= 1
           /\ proxies[p].pins > 0 => s \in Stubs /\ p \in PinnedFor(s) /\ stubs[s].pins >= 1
<1> DEFINE s == proxies[p].shim
<1>1. proxies[p].refs > 0 \/ proxies[p].pins > 0 => s \in Stubs
  BY ProxyFacts
<1>2. ASSUME proxies[p].refs > 0 PROVE p \in ProxiesFor(s) /\ stubs[s].refs >= 1
  <2>1. p \in ProxiesFor(s)
    BY <1>2 DEF ProxiesFor
  <2>2. s \in Stubs
    BY <1>1, <1>2
  <2> HIDE DEF s
  <2>3. IsFiniteSet(ProxiesFor(s))
    BY <2>2 DEF ShimInv, Sums, StubSum
  <2>4. Cardinality(ProxiesFor(s)) >= 1
    BY <2>1, <2>3, SizeIs
  <2> QED
    BY <2>1, <2>2, <2>4, StubFacts
<1>3. ASSUME proxies[p].pins > 0 PROVE p \in PinnedFor(s) /\ stubs[s].pins >= 1
  <2>1. p \in PinnedFor(s)
    BY <1>3 DEF PinnedFor
  <2>2. s \in Stubs
    BY <1>1, <1>3
  <2> HIDE DEF s
  <2>3. IsFiniteSet(PinnedFor(s))
    BY <2>2 DEF ShimInv, Sums, StubSum
  <2>4. Cardinality(PinnedFor(s)) >= 1
    BY <2>1, <2>3, SizeIs
  <2> QED
    BY <2>1, <2>2, <2>4, StubFacts
<1> QED
  BY <1>1, <1>2, <1>3

-----------------------------------------------------------------------------
\* What the shapes say of a call that is at this or that.

\* The form, and what is known of each place, of what a thread is in the middle of.
LEMMA InCall ==
    ASSUME ShimInv, ~late, NEW t \in Threads
    PROVE  /\ todo[t] \in Seq(Ops) /\ Len(todo[t]) \in Nat
           /\ ShapeOf(todo[t], shim[t], holds[t], wired[t])
           /\ \A j \in 1..Len(todo[t]) : /\ ShapeAt(todo[t], shim[t], holds[t], wired[t], j)
                                         /\ LinkAt(t, j)
                                         /\ j \in Nat /\ Place(todo[t], j) \in Ops
           /\ shim[t] \in Stubs \cup {0}
<1>1. todo[t] \in Seq(Ops) /\ shim[t] \in Stubs \cup {0}
  BY DEF ShimInv, ShimTypes, Lists
<1>2. Len(todo[t]) \in Nat
  BY <1>1, LenProperties
<1>3. Shapes /\ Links
  BY DEF ShimInv
<1>4. ShapeOf(todo[t], shim[t], holds[t], wired[t])
  BY <1>3 DEF Shapes
<1>5. \A j \in 1..Len(todo[t]) : LinkAt(t, j)
  BY <1>3 DEF Links, Linked
<1>6. ASSUME NEW j \in 1..Len(todo[t]) PROVE Place(todo[t], j) \in Ops
  <2>1. Len(todo[t]) + 1 - j \in 1..Len(todo[t])
    BY <1>2
  <2> QED
    BY <1>1, <2>1, ElementOfSeq DEF Place
<1> QED
  BY <1>1, <1>2, <1>4, <1>5, <1>6 DEF ShapeOf

\* A foremost operation is at the head, and so what it is about is sought.
LEMMA AtHead ==
    ASSUME ShimInv, ~late, NEW t \in Threads, NEW j \in 1..Len(todo[t]), Place(todo[t], j).op \in Foremost
    PROVE  /\ j = Len(todo[t]) /\ todo[t] # <<>> /\ Head(todo[t]) = Place(todo[t], j)
           /\ Sought(Place(todo[t], j))
<1>1. todo[t] \in Seq(Ops) /\ Len(todo[t]) \in Nat /\ j = Len(todo[t])
  BY InCall DEF ShapeAt
<1>2. todo[t] # <<>>
  BY <1>1, LenProperties
<1>3. Place(todo[t], Len(todo[t])) = Head(todo[t])
  BY <1>1, <1>2, Popped
<1> QED
  BY <1>1, <1>2, <1>3 DEF Sought

\* A thread that hands a reference over releases the one it has last.
LEMMA GivesBack ==
    ASSUME ShimInv, ~late, NEW t \in Threads, Handing(t)
    PROVE  /\ 1 \in 1..Len(todo[t]) /\ 2 \in 1..Len(todo[t]) /\ Hold(t) # Nothing
           /\ Place(todo[t], 1) = Op("release", Hold(t))
<1>1. PICK j \in 1..Len(todo[t]) : Place(todo[t], j).op \in {"bind", "add1", "AddRef_listed"}
  BY DEF Handing, Has, HasIn
<1>2. ShapeAt(todo[t], shim[t], holds[t], wired[t], j) /\ Len(todo[t]) \in Nat /\ j \in Nat
  BY InCall
<1>3. Gives(todo[t], holds[t]) /\ (j = 3 \/ Len(todo[t]) = 3 \/ Len(todo[t]) = 4)
  BY <1>1, <1>2 DEF ShapeAt
<1>4. \A n \in Nat : j \in 1..n /\ (j = 3 \/ n = 3 \/ n = 4) => 1 \in 1..n /\ 2 \in 1..n
  OBVIOUS
<1>5. 1 \in 1..Len(todo[t]) /\ 2 \in 1..Len(todo[t])
  BY <1>1, <1>2, <1>3, <1>4
<1> QED
  BY <1>3, <1>5 DEF Gives, Hold

\* What a thread holds is referred to.
LEMMA HeldIsReferred ==
    ASSUME ShimInv, ~late, NEW t \in Threads, Hold(t) \in Proxies
    PROVE  proxies[Hold(t)].refs >= 1
<1> DEFINE p == Hold(t)
<1>1. p \in Proxies
  OBVIOUS
<1>2. CASE Handing(t)
  <2>1. 1 \in 1..Len(todo[t]) /\ Place(todo[t], 1) = Op("release", p)
    BY <1>2, GivesBack
  <2>2. Counted(todo)
    BY DEF ShimInv, Sums
  <2> HIDE DEF p
  <2>3. Waits(todo, Op("release", p)) \in Nat /\ 1 <= Waits(todo, Op("release", p))
    BY <1>1, <2>1, <2>2, ProxyFacts, WaitsFor
  <2>4. proxies[p].refs \in Nat /\ Waits(todo, Op("release", p)) <= proxies[p].refs
    BY <1>1, ProxyFacts
  <2>5. proxies[p].refs >= 1
    BY <2>3, <2>4
  <2> QED
    BY <2>5 DEF p
<1>3. CASE ~Handing(t)
  <2>1. t \in HandsOf(p)
    BY <1>3 DEF HandsOf
  <2> HIDE DEF p
  <2>2. IsFiniteSet(HandsOf(p))
    BY <1>1 DEF ShimInv, Sums, ProxySum
  <2>3. Cardinality(HandsOf(p)) >= 1
    BY <2>1, <2>2, SizeIs
  <2>4. /\ Waits(todo, Op("release", p)) + Cardinality(HandsOf(p)) <= proxies[p].refs
        /\ Waits(todo, Op("release", p)) \in Nat /\ Cardinality(HandsOf(p)) \in Nat /\ proxies[p].refs \in Nat
    BY <1>1, ProxyFacts
  <2>5. proxies[p].refs >= 1
    BY <2>3, <2>4
  <2> QED
    BY <2>5 DEF p
<1> QED
  BY <1>2, <1>3

\* Whose shim is in its hands.
LEMMA InHand ==
    ASSUME ShimInv, ~late, NEW t \in Threads, NEW j \in 1..Len(todo[t])
    PROVE  LET o == Place(todo[t], j) IN
           /\ o.op = "add2" => shim[t] = o.arg /\ o.arg \in Stubs /\ t \in ShimsAt(o.arg)
           /\ o.op = "new_proxy" /\ ~Has(t, "new_stub") => shim[t] \in Stubs /\ t \in ShimsAt(shim[t])
           /\ o.op = "Pin" => shim[t] \in Stubs /\ t \in ShimsAt(shim[t])
           /\ o.op = "bind" /\ ~Shimless(todo[t]) => shim[t] \in Stubs /\ t \in ShimsAt(shim[t])
<1> DEFINE q == todo[t]
           o == Place(todo[t], j)
<1>1. /\ Len(q) \in Nat /\ \A i \in 1..Len(q) : ShapeAt(q, shim[t], holds[t], wired[t], i)
      /\ j \in Nat /\ o \in Ops
  BY InCall
<1>2. ASSUME o.op = "add2" PROVE shim[t] = o.arg /\ o.arg \in Stubs /\ t \in ShimsAt(o.arg)
  <2>1. j = Len(q) /\ Len(q) = 4 /\ Binds(q) /\ o.arg = shim[t]
    BY <1>1, <1>2 DEF ShapeAt, Foremost
  <2>2. o.arg \in Stubs
    BY <1>1, <1>2, OpsAre DEF ArgsOf
  <2>3. Place(q, 3).op = "bind"
    BY <2>1 DEF Binds
  <2>4. Gives(q, holds[t])
    <3>1. ShapeAt(q, shim[t], holds[t], wired[t], 3)
      BY <1>1, <2>1
    <3> QED
      BY <2>3, <3>1 DEF ShapeAt
  <2>5. Place(q, 2).op = "release_shim" /\ Place(q, 1).op = "release"
    BY <2>4, OpsAre DEF Gives
  <2>6. ~Has(t, "AddRef_found")
    BY <1>2, <2>1, <2>3, <2>5 DEF Has, HasIn
  <2> QED
    BY <2>1, <2>2, <2>6 DEF ShimsAt
<1>3. ASSUME o.op = "new_proxy", ~Has(t, "new_stub") PROVE shim[t] \in Stubs /\ t \in ShimsAt(shim[t])
  <2>1. j = 2 /\ Place(q, 1).op = "release_shim" /\ (Len(q) = 2 \/ (Len(q) = 3 /\ Place(q, 3).op = "new_stub"))
    BY <1>1, <1>3 DEF ShapeAt
  <2>2. Len(q) = 2
    <3>1. SUFFICES ASSUME Len(q) = 3, Place(q, 3).op = "new_stub" PROVE FALSE
      BY <2>1
    <3>2. 3 \in 1..Len(q)
      BY <3>1
    <3>3. HasIn(q, "new_stub")
      BY <3>1, <3>2 DEF HasIn
    <3> QED
      BY <1>3, <3>3 DEF Has
  <2>3. \A n : HasIn(q, n) => n \in {"new_proxy", "release_shim"}
    BY <1>3, <2>1, <2>2 DEF HasIn
  <2>4. ShapeAt(q, shim[t], holds[t], wired[t], 1) /\ ~Shimless(q)
    BY <1>1, <2>2, <2>3 DEF Shimless
  <2>5. shim[t] \in Stubs
    BY <2>1, <2>4 DEF ShapeAt
  <2> QED
    BY <2>3, <2>5 DEF ShimsAt, Has
<1>4. ASSUME o.op = "Pin" PROVE shim[t] \in Stubs /\ t \in ShimsAt(shim[t])
  <2>0. j = Len(q) /\ Len(q) = 3 /\ Place(q, 2) = Op("release", o.arg) /\ Place(q, 1).op = "release_shim"
    BY <1>1, <1>4 DEF ShapeAt, Foremost
  <2>1. j = Len(q) /\ Len(q) = 3 /\ Place(q, 2).op = "release" /\ Place(q, 1).op = "release_shim"
    BY <2>0, OpsAre
  <2>3. \A n : HasIn(q, n) => n \in {"Pin", "release", "release_shim"}
    BY <1>4, <2>1 DEF HasIn
  <2>4. ShapeAt(q, shim[t], holds[t], wired[t], 1) /\ ~Shimless(q)
    BY <1>1, <2>1, <2>3 DEF Shimless
  <2>5. shim[t] \in Stubs
    BY <2>1, <2>4 DEF ShapeAt
  <2> QED
    BY <2>3, <2>5 DEF ShimsAt, Has
<1>5. ASSUME o.op = "bind", ~Shimless(q) PROVE shim[t] \in Stubs /\ t \in ShimsAt(shim[t])
  <2>1. j = 3 /\ Gives(q, holds[t])
    BY <1>1, <1>5 DEF ShapeAt
  <2>2. Place(q, 2).op = "release_shim" /\ 2 \in 1..Len(q)
    BY <1>1, <2>1 DEF Gives
  <2>3. ShapeAt(q, shim[t], holds[t], wired[t], 2)
    BY <1>1, <2>2
  <2>4. shim[t] \in Stubs
    BY <1>5, <2>2, <2>3 DEF ShapeAt
  <2> QED
    BY <1>5, <2>4 DEF ShimsAt, Has, Shimless
<1> QED
  BY <1>2, <1>3, <1>4, <1>5

\* A shim that is one thread's is nobody else's.
LEMMA Alone ==
    ASSUME ShimInv, ~late, NEW s \in Stubs, NEW t \in ShimsAt(s), stubs[s].refs = 1
    PROVE  /\ ShimsAt(s) = {t} /\ Waits(todo, Op("release_stub", s)) = 0 /\ ProxiesFor(s) = {}
<1>1. /\ Cardinality(ShimsAt(s)) \in Nat /\ Cardinality(ProxiesFor(s)) \in Nat
      /\ Waits(todo, Op("release_stub", s)) \in Nat
      /\ stubs[s].refs = Cardinality(ShimsAt(s)) + Waits(todo, Op("release_stub", s)) + Cardinality(ProxiesFor(s))
  BY StubFacts
<1>2. IsFiniteSet(ShimsAt(s)) /\ IsFiniteSet(ProxiesFor(s))
  BY DEF ShimInv, Sums, StubSum
<1>3. Cardinality(ShimsAt(s)) >= 1
  BY <1>2, SizeIs
<1>4. Cardinality(ShimsAt(s)) = 1 /\ Waits(todo, Op("release_stub", s)) = 0 /\ Cardinality(ProxiesFor(s)) = 0
  BY <1>1, <1>3
<1>5. ASSUME NEW u \in ShimsAt(s), u # t PROVE FALSE
  <2>1. Cardinality(ShimsAt(s)) >= 2
    BY <1>2, <1>5, SizeIs
  <2> QED
    BY <1>4, <2>1
<1> QED
  BY <1>2, <1>4, <1>5, SizeIs

\* A stub of two references, a thread's and a proxy's, has no other.
LEMMA AloneWithOne ==
    ASSUME ShimInv, ~late, NEW s \in Stubs, NEW t \in ShimsAt(s), NEW p \in ProxiesFor(s), stubs[s].refs = 2
    PROVE  /\ ShimsAt(s) = {t} /\ Waits(todo, Op("release_stub", s)) = 0 /\ ProxiesFor(s) = {p}
<1>1. /\ Cardinality(ShimsAt(s)) \in Nat /\ Cardinality(ProxiesFor(s)) \in Nat
      /\ Waits(todo, Op("release_stub", s)) \in Nat
      /\ stubs[s].refs = Cardinality(ShimsAt(s)) + Waits(todo, Op("release_stub", s)) + Cardinality(ProxiesFor(s))
  BY StubFacts
<1>2. IsFiniteSet(ShimsAt(s)) /\ IsFiniteSet(ProxiesFor(s))
  BY DEF ShimInv, Sums, StubSum
<1>3. Cardinality(ShimsAt(s)) >= 1 /\ Cardinality(ProxiesFor(s)) >= 1
  BY <1>2, SizeIs
<1>4. Cardinality(ShimsAt(s)) = 1 /\ Waits(todo, Op("release_stub", s)) = 0 /\ Cardinality(ProxiesFor(s)) = 1
  BY <1>1, <1>3
<1>5. ASSUME NEW u \in ShimsAt(s), u # t PROVE FALSE
  <2>1. Cardinality(ShimsAt(s)) >= 2
    BY <1>2, <1>5, SizeIs
  <2> QED
    BY <1>4, <2>1
<1>6. ASSUME NEW x \in ProxiesFor(s), x # p PROVE FALSE
  <2>1. Cardinality(ProxiesFor(s)) >= 2
    BY <1>2, <1>6, SizeIs
  <2> QED
    BY <1>4, <2>1
<1> QED
  BY <1>4, <1>5, <1>6

\* What a map gives is not pinned, and is not a controller's.
LEMMA ListedUnpinned ==
    ASSUME ShimInv, ~late, NEW s \in Stubs, IsListed(s)
    PROVE  /\ stubs[s].live /\ ~Private(s)
           /\ \A p \in Proxies : proxies[p].shim = s => ~(proxies[p].pins > 0)
           /\ stubs[s].refs >= 1 => stubs[s].pins = 0
<1>1. stubs[s].live
  <2>1. Home \in Modules /\ Object \in Proxies \cup {Object} /\ Maps
    BY DEF ShimInv, ShimAssumption
  <2> QED
    BY <2>1 DEF IsListed, Maps
<1>2. ~Private(s)
  BY DEF Private
<1>3. ASSUME NEW p \in Proxies, proxies[p].shim = s, proxies[p].pins > 0 PROVE FALSE
  BY <1>3 DEF ShimInv, Pins
<1>4. ASSUME stubs[s].refs >= 1 PROVE stubs[s].pins = 0
  <2>1. /\ Waits(todo, Op("release_pin", s)) \in Nat /\ Cardinality(PinnedFor(s)) \in Nat
        /\ stubs[s].pins = Waits(todo, Op("release_pin", s)) + Cardinality(PinnedFor(s)) /\ stubs[s].refs \in Nat
    BY StubFacts
  <2>2. Waits(todo, Op("release_pin", s)) > 0 => stubs[s].refs = 0
    BY DEF ShimInv, Pins
  <2>3. PinnedFor(s) = {}
    BY <1>3 DEF PinnedFor
  <2>4. Cardinality(PinnedFor(s)) = 0
    BY <2>3, FS_EmptySet
  <2> QED
    BY <1>4, <2>1, <2>2, <2>4
<1> QED
  BY <1>1, <1>2, <1>3, <1>4

\* Two places with an operation are two of it.
LEMMA TwoWait ==
    ASSUME Counted(todo), NEW o \in Ops, NEW t \in Threads, NEW u \in Threads,
           NEW j \in 1..Len(todo[t]), NEW i \in 1..Len(todo[u]), Place(todo[t], j) = o, Place(todo[u], i) = o,
           t # u \/ i # j
    PROVE  Waits(todo, o) \in Nat /\ Waits(todo, o) >= 2
<1>1. Len(todo[t]) \in Nat /\ j \in Nat /\ Len(todo[u]) \in Nat /\ i \in Nat
  BY LenProperties DEF Counted, Lists
<1>2. <<t, j>> \in Places(todo, o) /\ <<u, i>> \in Places(todo, o) /\ <<t, j>> # <<u, i>>
  BY <1>1 DEF Places
<1>3. IsFiniteSet(Places(todo, o))
  BY DEF Counted
<1>4. Cardinality(Places(todo, o)) \in Nat /\ Cardinality(Places(todo, o)) >= 2
  BY <1>2, <1>3, SizeIs
<1> QED
  BY <1>4 DEF Waits

\* A controller's proxy that is about to be pinned.
LEMMA AtPin ==
    ASSUME ShimInv, ~late, NEW t \in Threads, NEW j \in 1..Len(todo[t]), Place(todo[t], j).op = "Pin"
    PROVE  LET p == Place(todo[t], j).arg s == proxies[p].shim IN
           /\ p \in Proxies /\ j = 3 /\ Len(todo[t]) = 3
           /\ Place(todo[t], 2) = Op("release", p) /\ Place(todo[t], 1).op = "release_shim"
           /\ wired[t] = Nothing /\ shim[t] = s /\ s \in Stubs
           /\ stubs[s].refs = 2 /\ stubs[s].pins = 0 /\ ~IsListed(s)
           /\ proxies[p].refs = 1 /\ proxies[p].pins = 0 /\ ~IsShared(p)
           /\ ShimsAt(s) = {t} /\ ProxiesFor(s) = {p} /\ Waits(todo, Op("release_stub", s)) = 0
           /\ HandsOf(p) = {} /\ AddsOf(p) = {} /\ Waits(todo, Op("release", p)) = 1
<1> DEFINE p == Place(todo[t], j).arg
           s == proxies[p].shim
           q == todo[t]
<1>1. /\ Place(q, j) \in Ops /\ Len(q) \in Nat /\ j \in Nat /\ LinkAt(t, j)
      /\ ShapeAt(q, shim[t], holds[t], wired[t], j)
  BY InCall
<1>2. p \in Proxies
  BY <1>1, OpsAre DEF ArgsOf
<1>3. /\ j = Len(q) /\ Len(q) = 3 /\ Place(q, 2) = Op("release", p) /\ Place(q, 1).op = "release_shim"
      /\ wired[t] = Nothing
  BY <1>1 DEF ShapeAt, Foremost
<1>4. /\ shim[t] = s /\ stubs[s].refs = 2 /\ stubs[s].pins = 0 /\ ~IsListed(s)
      /\ proxies[p].refs = 1 /\ proxies[p].pins = 0 /\ ~IsShared(p)
  BY <1>1 DEF LinkAt
<1>5. shim[t] \in Stubs /\ t \in ShimsAt(shim[t])
  BY InHand
<1>6. 2 \in 1..Len(todo[t])
  BY <1>3
<1> HIDE DEF p, q
<1>7. p \in ProxiesFor(s)
  BY <1>2, <1>4 DEF ProxiesFor
<1> HIDE DEF s
<1>8. ShimsAt(s) = {t} /\ ProxiesFor(s) = {p} /\ Waits(todo, Op("release_stub", s)) = 0
  BY <1>4, <1>5, <1>7, AloneWithOne
<1>9. Waits(todo, Op("release", p)) \in Nat /\ 1 <= Waits(todo, Op("release", p))
  <2>1. Place(todo[t], 2) = Op("release", p)
    BY <1>3 DEF q
  <2>2. Op("release", p) \in Ops /\ Counted(todo)
    BY <1>2, ProxyFacts DEF ShimInv, Sums
  <2> QED
    BY <1>6, <2>1, <2>2, WaitsFor
<1>10. IsFiniteSet(HandsOf(p)) /\ IsFiniteSet(AddsOf(p))
  BY <1>2 DEF ShimInv, Sums, ProxySum
<1>11. Cardinality(HandsOf(p)) = 0 /\ Cardinality(AddsOf(p)) = 0 /\ Waits(todo, Op("release", p)) = 1
  <2>1. /\ Waits(todo, Op("release", p)) + Cardinality(AddsOf(p)) <= proxies[p].refs
        /\ Waits(todo, Op("release", p)) + Cardinality(HandsOf(p)) <= proxies[p].refs
        /\ Cardinality(HandsOf(p)) \in Nat /\ Cardinality(AddsOf(p)) \in Nat
    BY <1>2, ProxyFacts
  <2> QED
    BY <1>4, <1>9, <2>1
<1>12. HandsOf(p) = {} /\ AddsOf(p) = {}
  BY <1>10, <1>11, SizeIs
<1> QED
  BY <1>2, <1>3, <1>4, <1>5, <1>8, <1>11, <1>12 DEF p, q, s

-----------------------------------------------------------------------------
\* What a step leaves as it was for a thread, and what the thread knows then.

SameCall(u) ==
    /\ shim'[u] = shim[u] /\ holds'[u] = holds[u]
    /\ Shimless(todo'[u]) <=> Shimless(todo[u])
    /\ HasIn(todo'[u], "add2") <=> HasIn(todo[u], "add2")
    /\ HasIn(todo'[u], "new_stub") <=> HasIn(todo[u], "new_stub")
    /\ \A j \in 1..Len(todo'[u]) : Place(todo'[u], j).op \notin Releasing =>
           j \in 1..Len(todo[u]) /\ Place(todo'[u], j) = Place(todo[u], j)

Steady(u) ==
    /\ \A s \in Stubs : IsListed(s) /\ stubs[s].refs > 0 => IsListed(s)'
    /\ \A s \in Stubs : stubs[s].refs = 0 /\ Sought(Op("AddRef_found", s)) => stubs'[s].refs = 0
    /\ \A m \in Modules, p \in Proxies :
           proxies[p].refs = 0 /\ Sought(Op("AddRef_listed", <<m, p>>)) => proxies'[p].refs = 0
    /\ \A p \in Proxies : proxies[p].refs > 0 => proxies'[p].shim = proxies[p].shim /\ proxies'[p].live
    /\ \A p \in Proxies : proxies[p].pins = 0 /\ IsListed(proxies[p].shim) /\ proxies[p].refs > 0
         => proxies'[p].pins = 0
    /\ \A m \in Modules, p \in Proxies, s \in Stubs :
           proxies[p].refs > 0 /\ stubs[s].refs > 0 /\ <<m, p, s>> \in holders => <<m, p, s>> \in holders'
    /\ \A s \in Stubs : u \in ShimsAt(s) /\ Private(s) => Private(s)'
    /\ \A p \in Proxies, s \in Stubs :
           todo[u] # <<>> /\ Head(todo[u]) = Op("Pin", p) /\ proxies[p].shim = s =>
               /\ stubs'[s].refs = 2 /\ stubs'[s].pins = 0 /\ ~IsListed(s)'
               /\ proxies'[p].refs = 1 /\ proxies'[p].pins = 0 /\ ~IsShared(p)'

\* What is known of a thread's call stays so when nothing it rests upon changes.
LEMMA LinkedStill ==
    ASSUME ShimInv, ~late, NEW u \in Threads, SameCall(u), Steady(u)
    PROVE  Linked(u)'
<1>1. ASSUME NEW j \in 1..Len(todo'[u]), Place(todo'[u], j).op \notin Releasing
      PROVE  /\ j \in 1..Len(todo[u]) /\ Place(todo'[u], j) = Place(todo[u], j) /\ LinkAt(u, j)
             /\ Place(todo[u], j) \in Ops
  <2>1. j \in 1..Len(todo[u]) /\ Place(todo'[u], j) = Place(todo[u], j)
    BY <1>1 DEF SameCall
  <2> QED
    BY <2>1, InCall
<1>2. ASSUME NEW p \in Proxies, proxies[p].refs > 0
      PROVE  /\ proxies'[p].shim = proxies[p].shim /\ proxies'[p].live /\ proxies[p].shim \in Stubs
             /\ IsListed(proxies[p].shim) => <<Home, Object, proxies'[p].shim>> \in holders'
             /\ \A m \in Modules : <<m, p, proxies[p].shim>> \in holders => <<m, p, proxies'[p].shim>> \in holders'
  <2>1. PICK s \in Stubs : s = proxies[p].shim /\ stubs[s].refs >= 1
    BY <1>2, ShimOfProxy
  <2>2. proxies'[p].shim = s /\ proxies'[p].live
    BY <1>2, <2>1 DEF Steady, IsListed, IsShared
  <2>3. stubs[s].refs > 0
    BY <2>1, StubFacts
  <2>4. IsListed(s) => <<Home, Object, s>> \in holders'
    BY <2>3 DEF Steady, IsListed
  <2>5. \A m \in Modules : <<m, p, s>> \in holders => <<m, p, s>> \in holders'
    BY <1>2, <2>3 DEF Steady, IsListed, IsShared
  <2> QED
    BY <2>1, <2>2, <2>4, <2>5
<1>3. Hold(u)' = Hold(u)
  BY DEF Hold, SameCall
<1>4. Hold(u)' \in Proxies => /\ <<holds'[u][1], Hold(u)', proxies'[Hold(u)'].shim>> \in holders'
                              /\ <<Home, Object, proxies'[Hold(u)'].shim>> \in holders'
  <2>1. SUFFICES ASSUME Hold(u) \in Proxies PROVE /\ <<holds'[u][1], Hold(u)', proxies'[Hold(u)'].shim>> \in holders'
                                                  /\ <<Home, Object, proxies'[Hold(u)'].shim>> \in holders'
    BY <1>3
  <2>2. PICK p \in Proxies : p = Hold(u)
    BY <2>1
  <2>3. proxies[p].refs > 0
    BY <2>1, <2>2, HeldIsReferred, ProxyFacts
  <2>4. Linked(u) /\ holds'[u] = holds[u]
    BY DEF ShimInv, Links, SameCall
  <2>5. <<holds[u][1], p, proxies[p].shim>> \in holders /\ IsListed(proxies[p].shim)
    BY <2>1, <2>2, <2>4 DEF Linked
  <2>6. holds[u][1] \in Modules
    BY DEF ShimInv, ShimTypes
  <2>7. <<holds[u][1], p, proxies'[p].shim>> \in holders' /\ <<Home, Object, proxies'[p].shim>> \in holders'
    BY <1>2, <2>3, <2>5, <2>6
  <2> QED
    BY <1>3, <2>2, <2>4, <2>7
<1>5. Hold(u)' = Object => holds'[u][1] = Home
  BY <1>3 DEF ShimInv, Links, Linked, SameCall
<1>6. ASSUME NEW j \in 1..Len(todo'[u]) PROVE LinkAt(u, j)'
  <2> DEFINE o == Place(todo[u], j)
  <2>1. CASE Place(todo'[u], j).op \in Releasing
    BY <2>1 DEF LinkAt, Releasing
  <2>2. CASE Place(todo'[u], j).op \notin Releasing
    <3>1. /\ j \in 1..Len(todo[u]) /\ Place(todo'[u], j) = o /\ LinkAt(u, j) /\ o \in Ops
      BY <1>1, <2>2
    <3>2. o.op \in Foremost => /\ j = Len(todo[u]) /\ todo[u] # <<>> /\ Head(todo[u]) = o /\ Sought(o)
      BY <3>1, AtHead
    <3>a. ShapeAt(todo[u], shim[u], holds[u], wired[u], j) /\ o.arg \in ArgsOf(o.op) /\ o = Op(o.op, o.arg)
      BY <3>1, InCall, OpsAre
    <3> HIDE DEF o
    <3>3. o.op = "add1" => /\ <<Home, Object, proxies'[o.arg[2]].shim>> \in holders'
                           /\ proxies'[o.arg[2]].pins = 0 /\ proxies'[o.arg[2]].live
      <4> SUFFICES ASSUME o.op = "add1"
                   PROVE  /\ <<Home, Object, proxies'[o.arg[2]].shim>> \in holders'
                          /\ proxies'[o.arg[2]].pins = 0 /\ proxies'[o.arg[2]].live
        OBVIOUS
      <4>1. PICK p \in Proxies : p = o.arg[2]
        BY <3>a DEF ArgsOf
      <4>2. IsListed(proxies[p].shim) /\ proxies[p].pins = 0
        BY <3>1, <4>1 DEF LinkAt, o
      <4>3. Len(todo[u]) = 3 /\ j = 3
        BY <3>1, <3>2, <3>a DEF ShapeAt, Foremost, o
      <4>4. u \in AddsOf(p)
        BY <3>1, <4>1, <4>3 DEF AddsOf, Adding, o
      <4>5. IsFiniteSet(AddsOf(p))
        BY DEF ShimInv, Sums, ProxySum
      <4>6. Cardinality(AddsOf(p)) >= 1
        BY <4>4, <4>5, SizeIs
      <4>7. /\ Waits(todo, Op("release", p)) + Cardinality(AddsOf(p)) <= proxies[p].refs
            /\ Waits(todo, Op("release", p)) \in Nat /\ Cardinality(AddsOf(p)) \in Nat /\ proxies[p].refs \in Nat
        BY ProxyFacts
      <4>8. proxies[p].refs > 0
        BY <4>6, <4>7
      <4>9. proxies'[p].pins = 0
        BY <4>2, <4>8 DEF Steady, IsListed, IsShared
      <4> QED
        BY <1>2, <4>1, <4>2, <4>8, <4>9
    <3>4. o.op = "AddRef_found" => stubs'[o.arg].refs = 0 \/ <<Home, Object, o.arg>> \in holders'
      <4> SUFFICES ASSUME o.op = "AddRef_found" PROVE stubs'[o.arg].refs = 0 \/ <<Home, Object, o.arg>> \in holders'
        OBVIOUS
      <4>1. PICK s \in Stubs : s = o.arg
        BY <3>a DEF ArgsOf
      <4>2. stubs[s].refs = 0 \/ IsListed(s)
        BY <3>1, <4>1 DEF LinkAt, o
      <4>3. Sought(Op("AddRef_found", s))
        BY <3>2, <3>a, <4>1 DEF Foremost
      <4>4. stubs[s].refs = 0 \/ stubs[s].refs > 0
        BY StubFacts
      <4>5. stubs'[s].refs = 0 \/ <<Home, Object, s>> \in holders'
        BY <4>2, <4>3, <4>4 DEF Steady, IsListed, IsShared
      <4> QED
        BY <4>1, <4>5
    <3>5. o.op = "AddRef_listed" =>
            \/ o.arg[2] = Object /\ o.arg[1] = Home
            \/ /\ o.arg[2] \in Proxies
               /\ \/ proxies'[o.arg[2]].refs = 0
                  \/ /\ <<o.arg[1], o.arg[2], proxies'[o.arg[2]].shim>> \in holders'
                     /\ <<Home, Object, proxies'[o.arg[2]].shim>> \in holders'
      <4> SUFFICES ASSUME o.op = "AddRef_listed", ~(o.arg[2] = Object /\ o.arg[1] = Home)
                   PROVE  /\ o.arg[2] \in Proxies
                          /\ \/ proxies'[o.arg[2]].refs = 0
                             \/ /\ <<o.arg[1], o.arg[2], proxies'[o.arg[2]].shim>> \in holders'
                                /\ <<Home, Object, proxies'[o.arg[2]].shim>> \in holders'
        OBVIOUS
      <4>1. /\ o.arg[2] \in Proxies
            /\ \/ proxies[o.arg[2]].refs = 0
               \/ <<o.arg[1], o.arg[2], proxies[o.arg[2]].shim>> \in holders /\ IsListed(proxies[o.arg[2]].shim)
        BY <3>1 DEF LinkAt, o
      <4>2. o.arg[1] \in Modules /\ o.arg = <<o.arg[1], o.arg[2]>>
        BY <3>a DEF ArgsOf
      <4>3. PICK p \in Proxies, m \in Modules : p = o.arg[2] /\ m = o.arg[1] /\ o.arg = <<m, p>>
        BY <4>1, <4>2
      <4>4. Sought(Op("AddRef_listed", <<m, p>>))
        BY <3>2, <3>a, <4>3 DEF Foremost
      <4>5. proxies[p].refs = 0 \/ proxies[p].refs > 0
        BY ProxyFacts
      <4>6. proxies[p].refs = 0 => proxies'[p].refs = 0
        BY <4>4 DEF Steady, IsListed, IsShared
      <4>7. proxies[p].refs > 0 => <<m, p, proxies'[p].shim>> \in holders'
                 /\ <<Home, Object, proxies'[p].shim>> \in holders'
        BY <1>2, <4>1, <4>3
      <4> QED
        BY <4>3, <4>5, <4>6, <4>7
    <3>6. o.op = "bind" /\ ~Shimless(todo'[u]) /\ ~Has(u, "add2")' => <<Home, Object, shim'[u]>> \in holders'
      <4> SUFFICES ASSUME o.op = "bind", ~Shimless(todo'[u]), ~Has(u, "add2")'
                   PROVE <<Home, Object, shim'[u]>> \in holders'
        OBVIOUS
      <4>1. ~Shimless(todo[u]) /\ ~Has(u, "add2") /\ shim'[u] = shim[u]
        BY DEF SameCall, Has
      <4>2. IsListed(shim[u])
        BY <3>1, <4>1 DEF LinkAt, o
      <4>3. PICK s \in Stubs : s = shim[u] /\ u \in ShimsAt(s)
        BY <3>1, <4>1, InHand DEF o
      <4>4. stubs[s].refs > 0
        <5>1. IsFiniteSet(ShimsAt(s))
          BY DEF ShimInv, Sums, StubSum
        <5>2. Cardinality(ShimsAt(s)) >= 1
          BY <4>3, <5>1, SizeIs
        <5> QED
          BY <5>2, StubFacts
      <4>5. <<Home, Object, s>> \in holders'
        BY <4>2, <4>3, <4>4 DEF Steady, IsListed, IsShared
      <4> QED
        BY <4>1, <4>3, <4>5
    <3>7. o.op = "add2" => (stubs'[o.arg].refs = 1 /\ stubs'[o.arg].pins = 0
               /\ <<Home, Object, o.arg>> \notin holders')
      <4> SUFFICES ASSUME o.op = "add2"
                   PROVE (stubs'[o.arg].refs = 1 /\ stubs'[o.arg].pins = 0 /\ <<Home, Object, o.arg>> \notin holders')
        OBVIOUS
      <4>1. PICK s \in Stubs : s = o.arg /\ u \in ShimsAt(s) /\ Private(s)
        BY <3>1, InHand DEF LinkAt, o
      <4>2. Private(s)'
        BY <4>1 DEF Steady, IsListed, IsShared
      <4> QED
        BY <4>1, <4>2 DEF Private, IsListed
    <3>8. o.op = "new_proxy" /\ ~Has(u, "new_stub")' => (stubs'[shim'[u]].refs = 1 /\ stubs'[shim'[u]].pins = 0
               /\ <<Home, Object, shim'[u]>> \notin holders')
      <4> SUFFICES ASSUME o.op = "new_proxy", ~Has(u, "new_stub")'
                   PROVE (stubs'[shim'[u]].refs = 1 /\ stubs'[shim'[u]].pins = 0
                        /\ <<Home, Object, shim'[u]>> \notin holders')
        OBVIOUS
      <4>1. ~Has(u, "new_stub") /\ shim'[u] = shim[u]
        BY DEF SameCall, Has
      <4>2. PICK s \in Stubs : s = shim[u] /\ u \in ShimsAt(s) /\ Private(s)
        BY <3>1, <4>1, InHand DEF LinkAt, o
      <4>3. Private(s)'
        BY <4>2 DEF Steady
      <4> QED
        BY <4>1, <4>2, <4>3 DEF Private, IsListed
    <3>9. o.op = "Pin" => LET s == proxies'[o.arg].shim IN
             /\ shim'[u] = s /\ stubs'[s].refs = 2 /\ stubs'[s].pins = 0 /\ <<Home, Object, s>> \notin holders'
             /\ proxies'[o.arg].refs = 1 /\ proxies'[o.arg].pins = 0
             /\ \A m \in Modules, r \in Stubs : <<m, o.arg, r>> \notin holders'
      <4> SUFFICES ASSUME o.op = "Pin"
                   PROVE  LET s == proxies'[o.arg].shim IN
                          /\ shim'[u] = s /\ stubs'[s].refs = 2 /\ stubs'[s].pins = 0
                               /\ <<Home, Object, s>> \notin holders'
                          /\ proxies'[o.arg].refs = 1 /\ proxies'[o.arg].pins = 0
                          /\ \A m \in Modules, r \in Stubs : <<m, o.arg, r>> \notin holders'
        OBVIOUS
      <4>1. PICK p \in Proxies, s \in Stubs : /\ p = o.arg /\ s = proxies[p].shim /\ shim[u] = s
                                              /\ proxies[p].refs = 1
        BY <3>1, AtPin DEF o
      <4>2. todo[u] # <<>> /\ Head(todo[u]) = Op("Pin", p)
        BY <3>2, <3>a, <4>1 DEF Foremost
      <4>3. /\ stubs'[s].refs = 2 /\ stubs'[s].pins = 0 /\ <<Home, Object, s>> \notin holders'
            /\ proxies'[p].refs = 1 /\ proxies'[p].pins = 0
            /\ \A m \in Modules, r \in Stubs : <<m, p, r>> \notin holders'
        BY <4>1, <4>2 DEF Steady, IsListed, IsShared
      <4>4. proxies'[p].shim = s /\ shim'[u] = s
        <5>1. proxies[p].refs > 0
          BY <4>1
        <5>2. proxies'[p].shim = proxies[p].shim
          BY <1>2, <5>1
        <5> QED
          BY <4>1, <5>2 DEF SameCall
      <4> QED
        BY <4>1, <4>3, <4>4
    <3> QED
      BY <3>1, <3>3, <3>4, <3>5, <3>6, <3>7, <3>8, <3>9 DEF LinkAt, Private, IsListed, IsShared
  <2> QED
    BY <2>1, <2>2
<1> QED
  BY <1>4, <1>5, <1>6 DEF Linked, IsListed

\* A proxy that a wire stub keeps, or has kept, is pinned and in no map.
LEMMA KeeperFacts ==
    ASSUME ShimInv, ~late, NEW u \in Threads, NEW p \in Proxies, Keeps(u, p)
    PROVE  /\ proxies[p].pins > 0 /\ proxies[p].live /\ proxies[p].shim \in Stubs
           /\ stubs[proxies[p].shim].pins > 0
           /\ ~IsListed(proxies[p].shim) /\ ~IsShared(p) /\ Owns(u, p)
           /\ \A x \in Proxies : x # p /\ proxies[x].refs > 0 => proxies[x].shim # proxies[p].shim
           /\ \A v \in Threads : v # u =>
                 /\ shim[v] # proxies[p].shim
                 /\ \A j \in 1..Len(todo[v]) : /\ Place(todo[v], j) # Op("release", p)
                                               /\ Place(todo[v], j) # Op("release_stub", proxies[p].shim)
<1>1. ProxySum(p) /\ Counted(todo)
  BY DEF ShimInv, Sums
<1>2. Op("Unpin_proxy", p) \in Ops
  <2>1. "Unpin_proxy" \in OpNames /\ p \in ArgsOf("Unpin_proxy")
    BY DEF OpNames, ArgsOf
  <2> QED
    BY <2>1, OpIn
<1>3. Waits(todo, Op("Unpin_proxy", p)) \in Nat /\ Cardinality(WiresOf(p)) \in Nat
  BY <1>1, <1>2, FS_CardinalityType DEF Counted, Waits, ProxySum
<1>4. Waits(todo, Op("Unpin_proxy", p)) >= 1 \/ Cardinality(WiresOf(p)) >= 1
  <2>1. CASE wired[u] = p
    <3>1. u \in WiresOf(p) /\ IsFiniteSet(WiresOf(p))
      BY <1>1, <2>1 DEF WiresOf, ProxySum
    <3> QED
      BY <3>1, SizeIs
  <2>2. CASE \E j \in 1..Len(todo[u]) : Place(todo[u], j) = Op("Unpin_proxy", p)
    BY <1>1, <1>2, <2>2, WaitsFor
  <2> QED
    BY <2>1, <2>2 DEF Keeps
<1>5. proxies[p].pins = Cardinality(WiresOf(p)) + Waits(todo, Op("Unpin_proxy", p))
  BY <1>1 DEF ProxySum
<1>6. proxies[p].pins > 0
  BY <1>3, <1>4, <1>5
<1>7. proxies[p].live /\ proxies[p].shim \in Stubs /\ stubs[proxies[p].shim].pins >= 1
  BY <1>6, ProxyFacts, ShimOfProxy
<1>8. stubs[proxies[p].shim].pins > 0
  BY <1>7, StubFacts
<1>9. ~IsListed(proxies[p].shim) /\ ~IsShared(p) /\ Owns(u, p)
  BY <1>6 DEF ShimInv, Pins, Kept
<1>10. ASSUME NEW x \in Proxies, x # p, proxies[x].refs > 0 PROVE proxies[x].shim # proxies[p].shim
  BY <1>9, <1>10 DEF Owns, ProxiesFor
<1>11. ASSUME NEW v \in Threads, v # u
       PROVE  /\ shim[v] # proxies[p].shim
              /\ \A j \in 1..Len(todo[v]) : /\ Place(todo[v], j) # Op("release", p)
                                            /\ Place(todo[v], j) # Op("release_stub", proxies[p].shim)
  BY <1>9, <1>11 DEF Owns
<1> QED
  BY <1>6, <1>7, <1>8, <1>9, <1>10, <1>11

\* The call of t may have more of A left, that others who keep a proxy do not mind.
Grown(t, A) ==
    \A j \in 1..Len(todo'[t]) : \/ Place(todo'[t], j) \in A
                                \/ \E i \in 1..Len(todo[t]) : Place(todo[t], i) = Place(todo'[t], j)
Undisturbed(t, A) ==
    \A u \in Threads : \A p \in Proxies : Keeps(u, p) =>
        /\ proxies'[p].shim = proxies[p].shim
        /\ \A x \in Proxies : x # p /\ proxies'[x].refs > 0 => proxies'[x].shim # proxies[p].shim
        /\ u # t => /\ shim'[t] # proxies[p].shim /\ Op("release", p) \notin A
                    /\ Op("release_stub", proxies[p].shim) \notin A

\* Who alone releases a proxy with a pin still does, when nothing that refers to it is added.
LEMMA OwnsStill ==
    ASSUME ShimInv, ~late, NEW t \in Threads, NEW A, Grown(t, A), Undisturbed(t, A),
           \A v \in Threads : v # t => todo'[v] = todo[v] /\ shim'[v] = shim[v],
           NEW u \in Threads, NEW p \in Proxies, Keeps(u, p)
    PROVE  Owns(u, p)'
<1>2. Keeps(u, p)
  OBVIOUS
<1> DEFINE s == proxies[p].shim
<1>3. /\ proxies'[p].shim = s
      /\ \A x \in Proxies : x # p /\ proxies'[x].refs > 0 => proxies'[x].shim # s
      /\ u # t => shim'[t] # s /\ Op("release", p) \notin A /\ Op("release_stub", s) \notin A
  BY <1>2 DEF Undisturbed
<1>4. Owns(u, p)
  BY <1>2, KeeperFacts
<1>5. \A v \in Threads \ {u} :
          /\ shim[v] # s
          /\ \A j \in 1..Len(todo[v]) : Place(todo[v], j) \notin {Op("release", p), Op("release_stub", s)}
  BY <1>4 DEF Owns
<1> HIDE DEF s
<1>6. ASSUME NEW v \in Threads, v # u
      PROVE  /\ shim'[v] # s
             /\ \A j \in 1..Len(todo'[v]) : Place(todo'[v], j) \notin {Op("release", p), Op("release_stub", s)}
  <2>1. CASE v # t
    BY <1>5, <1>6, <2>1
  <2>2. CASE v = t
    <3>1. shim'[t] # s /\ Op("release", p) \notin A /\ Op("release_stub", s) \notin A
      BY <1>3, <1>6, <2>2
    <3>2. ASSUME NEW j \in 1..Len(todo'[t])
          PROVE  Place(todo'[t], j) \notin {Op("release", p), Op("release_stub", s)}
      <4>1. CASE Place(todo'[t], j) \in A
        BY <3>1, <4>1
      <4>2. CASE \E i \in 1..Len(todo[t]) : Place(todo[t], i) = Place(todo'[t], j)
        BY <1>5, <1>6, <2>2, <4>2
      <4> QED
        BY <4>1, <4>2 DEF Grown
    <3> QED
      BY <2>2, <3>1, <3>2
  <2> QED
    BY <2>1, <2>2
<1>8. Owns(u, p)' <=> /\ {x \in Proxies : proxies'[x].refs > 0 /\ proxies'[x].shim = s} \subseteq {p}
                      /\ \A v \in Threads \ {u} :
                           /\ shim'[v] # s
                           /\ \A j \in 1..Len(todo'[v]) :
                                Place(todo'[v], j) \notin {Op("release", p), Op("release_stub", s)}
  BY <1>3 DEF Owns, ProxiesFor
<1> QED
  BY <1>3, <1>6, <1>8

\* The same for all threads.
LEMMA KeptBy ==
    ASSUME ShimInv, ~late, NEW t \in Threads, NEW A, Grown(t, A), Undisturbed(t, A),
           \A v \in Threads : v # t => todo'[v] = todo[v] /\ shim'[v] = shim[v],
           \A u \in Threads : \A p \in Proxies : Keeps(u, p)' => Keeps(u, p)
    PROVE  Kept'
<1>1. ASSUME NEW u \in Threads, NEW p \in Proxies, Keeps(u, p)' PROVE Owns(u, p)'
  BY <1>1, OwnsStill
<1> QED
  BY <1>1 DEF Kept

\* The sums of a stub stay when nothing in them changes.
LEMMA StubSame ==
    ASSUME ShimInv, ~late, NEW s \in Stubs, stubs'[s] = stubs[s],
           ShimsAt(s)' = ShimsAt(s), ProxiesFor(s)' = ProxiesFor(s), PinnedFor(s)' = PinnedFor(s),
           Waits(todo', Op("release_stub", s)) = Waits(todo, Op("release_stub", s)),
           Waits(todo', Op("release_pin", s)) = Waits(todo, Op("release_pin", s)),
           Waits(todo', Op("Destruct_stub", s)) = Waits(todo, Op("Destruct_stub", s))
    PROVE  StubSum(s)'
<1>1. StubSum(s)
  BY DEF ShimInv, Sums
<1> QED
  BY <1>1 DEF StubSum

\* The sums of a proxy likewise.
LEMMA ProxySame ==
    ASSUME ShimInv, ~late, NEW p \in Proxies, proxies'[p] = proxies[p],
           HandsOf(p)' = HandsOf(p), AddsOf(p)' = AddsOf(p), WiresOf(p)' = WiresOf(p),
           Waits(todo', Op("release", p)) = Waits(todo, Op("release", p)),
           Waits(todo', Op("Internal_Release", p)) = Waits(todo, Op("Internal_Release", p)),
           Waits(todo', Op("Unpin_proxy", p)) = Waits(todo, Op("Unpin_proxy", p)),
           Waits(todo', Op("Destruct_proxy", p)) = Waits(todo, Op("Destruct_proxy", p))
    PROVE  ProxySum(p)'
<1>1. ProxySum(p)
  BY DEF ShimInv, Sums
<1> QED
  BY <1>1 DEF ProxySum

\* A call that only releases is the same call.
LEMMA FramedSame ==
    ASSUME Framed, UNCHANGED <<shim, holds>>, NEW u \in Threads PROVE SameCall(u)
<1>1. shim'[u] = shim[u] /\ holds'[u] = holds[u]
  OBVIOUS
<1>2. Shimless(todo'[u]) <=> Shimless(todo[u])
  BY DEF Framed
<1>3. (HasIn(todo'[u], "add2") <=> HasIn(todo[u], "add2")) /\ (HasIn(todo'[u], "new_stub")
           <=> HasIn(todo[u], "new_stub"))
  BY DEF Framed, Has, Releasing
<1>4. \A j \in 1..Len(todo'[u]) : Place(todo'[u], j).op \notin Releasing =>
          j \in 1..Len(todo[u]) /\ Place(todo'[u], j) = Place(todo[u], j)
  BY DEF Framed
<1> QED
  BY <1>1, <1>2, <1>3, <1>4 DEF SameCall

\* About to pin a proxy, a thread alone refers to it and to its stub.
LEMMA PinAhead ==
    ASSUME ShimInv, ~late, NEW u \in Threads, NEW p, todo[u] # <<>>, Head(todo[u]) = Op("Pin", p)
    PROVE  LET s == proxies[p].shim IN
           /\ p \in Proxies /\ Len(todo[u]) = 3
           /\ Place(todo[u], 2) = Op("release", p) /\ Place(todo[u], 1).op = "release_shim"
           /\ wired[u] = Nothing /\ shim[u] = s /\ s \in Stubs
           /\ stubs[s].refs = 2 /\ stubs[s].pins = 0 /\ ~IsListed(s)
           /\ proxies[p].refs = 1 /\ proxies[p].pins = 0 /\ ~IsShared(p)
           /\ ShimsAt(s) = {u} /\ ProxiesFor(s) = {p} /\ Waits(todo, Op("release_stub", s)) = 0
           /\ HandsOf(p) = {} /\ AddsOf(p) = {} /\ Waits(todo, Op("release", p)) = 1
<1>1. todo[u] \in Seq(Ops) /\ Len(todo[u]) \in Nat
  BY InCall
<1>2. Len(todo[u]) \in 1..Len(todo[u]) /\ Place(todo[u], Len(todo[u])) = Op("Pin", p)
  BY <1>1, Popped
<1>3. Place(todo[u], Len(todo[u])).op = "Pin" /\ Place(todo[u], Len(todo[u])).arg = p
  BY <1>2, OpsAre
<1> QED
  BY <1>2, <1>3, AtPin

\* The invariant, of its parts after a step.
LEMMA Assembled ==
    ASSUME ShimInv, ShimTypes', late' = late,
           ~late => /\ Counted(todo') /\ ObjectSum'
                    /\ \A s \in Stubs : StubSum(s)'
                    /\ \A p \in Proxies : ProxySum(p)'
                    /\ Shapes' /\ (\A u \in Threads : Linked(u)')
                    /\ Maps' /\ Pins' /\ Kept'
    PROVE  ShimInv'
<1>1. ~late => Sums'
  BY DEF Sums
<1>2. ~late => Links'
  BY DEF Links
<1> QED
  BY <1>1, <1>2 DEF ShimInv, ShimAssumption

\* A step that leaves stubs, proxies and maps alone keeps what is said of them.
LEMMA NothingMoved ==
    ASSUME ShimInv, ~late, UNCHANGED <<stubs, proxies, holders>>
    PROVE  /\ Maps' /\ Referred' = Referred /\ Twice' = Twice
           /\ \A s : ProxiesFor(s)' = ProxiesFor(s) /\ PinnedFor(s)' = PinnedFor(s)
           /\ (\A s \in Stubs : Waits(todo', Op("release_pin", s)) = Waits(todo, Op("release_pin", s))) => Pins'
           /\ \A u \in Threads : Steady(u)
<1>0. stubs' = stubs /\ proxies' = proxies /\ holders' = holders
  OBVIOUS
<1>1. Referred' = Referred /\ Twice' = Twice
  BY <1>0 DEF Referred, Twice
<1>2. \A s : ProxiesFor(s)' = ProxiesFor(s) /\ PinnedFor(s)' = PinnedFor(s)
  BY <1>0 DEF ProxiesFor, PinnedFor
<1>3. Maps /\ Pins
  BY DEF ShimInv
<1>4. Maps'
  BY <1>0, <1>3 DEF Maps, IsListed
<1>5. ASSUME \A s \in Stubs : Waits(todo', Op("release_pin", s)) = Waits(todo, Op("release_pin", s))
      PROVE  Pins'
  BY <1>0, <1>3, <1>5 DEF Pins, IsListed, IsShared
<1>6. ASSUME NEW u \in Threads PROVE Steady(u)
  <2>1. \A s \in Stubs : (IsListed(s)' <=> IsListed(s)) /\ (Private(s)' <=> Private(s))
    BY <1>0 DEF IsListed, Private
  <2>2. \A p \in Proxies : IsShared(p)' <=> IsShared(p)
    BY <1>0 DEF IsShared
  <2>3. \A p \in Proxies : proxies[p].refs > 0 => proxies[p].live
    BY ProxyFacts
  <2>4. ASSUME NEW p \in Proxies, NEW s \in Stubs,
               todo[u] # <<>>, Head(todo[u]) = Op("Pin", p), proxies[p].shim = s
        PROVE  /\ stubs'[s].refs = 2 /\ stubs'[s].pins = 0 /\ ~IsListed(s)'
               /\ proxies'[p].refs = 1 /\ proxies'[p].pins = 0 /\ ~IsShared(p)'
    <3>4. /\ stubs[s].refs = 2 /\ stubs[s].pins = 0 /\ ~IsListed(s)
          /\ proxies[p].refs = 1 /\ proxies[p].pins = 0 /\ ~IsShared(p)
      BY <2>4, PinAhead
    <3> QED
      BY <1>0, <2>1, <2>2, <3>4
  <2> QED
    BY <1>0, <2>1, <2>3, <2>4 DEF Steady
<1> QED
  BY <1>1, <1>2, <1>4, <1>5, <1>6

-----------------------------------------------------------------------------
\* Releases.

\* What a release leaves to do is a release; of a call before it, nothing is moved.
LEMMA ReleaseKeeps ==
    ASSUME ShimInv, ~late, NEW t \in Threads, NEW n, Stepped(t, n), Framed, UNCHANGED wired, NEW u \in Threads,
         NEW p \in Proxies,
           Keeps(u, p)'
    PROVE  Keeps(u, p)
<1>1. CASE wired'[u] = p
  BY <1>1 DEF Keeps
<1>2. CASE \E j \in 1..Len(todo'[u]) : Place(todo'[u], j) = Op("Unpin_proxy", p)
  <2>1. PICK j \in 1..Len(todo'[u]) : Place(todo'[u], j) = Op("Unpin_proxy", p)
    BY <1>2
  <2>2. Place(todo'[u], j).op \notin Releasing
    BY <2>1, OpsAre DEF Releasing
  <2>3. j \in 1..Len(todo[u]) /\ Place(todo[u], j) = Op("Unpin_proxy", p)
    BY <2>1, <2>2 DEF Framed
  <2> QED
    BY <2>3 DEF Keeps
<1> QED
  BY <1>1, <1>2 DEF Keeps

\* The places of a call that has gone on.
LEMMA PlacesAre ==
    ASSUME NEW t \in Threads, NEW n
    PROVE  /\ Goes0(t, n) => Grown(t, {})
           /\ \A a : Goes1(t, n, a) => Grown(t, {a})
           /\ \A a, b : Goes2(t, n, a, b) => Grown(t, {a, b})
<1> DEFINE k == Len(todo[t])
<1>1. Stepped(t, n) => k \in Nat \ {0} /\ \A j \in 1..(k - 1) : Place(todo'[t], j) = Place(todo[t], j)
  BY DEF Stepped, Going, Rest
<1>2. ASSUME Goes0(t, n), NEW j \in 1..Len(todo'[t])
      PROVE  \E i \in 1..Len(todo[t]) : Place(todo[t], i) = Place(todo'[t], j)
  <2>1. j \in 1..(k - 1) /\ j \in 1..k
    BY <1>1, <1>2 DEF Goes0
  <2> QED
    BY <1>1, <1>2, <2>1 DEF Goes0
<1>3. ASSUME NEW a, Goes1(t, n, a), NEW j \in 1..Len(todo'[t])
      PROVE  \/ Place(todo'[t], j) \in {a}
             \/ \E i \in 1..Len(todo[t]) : Place(todo[t], i) = Place(todo'[t], j)
  <2>1. (j \in 1..(k - 1) /\ j \in 1..k) \/ j = k
    BY <1>1, <1>3 DEF Goes1
  <2> QED
    BY <1>1, <1>3, <2>1 DEF Goes1
<1>4. ASSUME NEW a, NEW b, Goes2(t, n, a, b), NEW j \in 1..Len(todo'[t])
      PROVE  \/ Place(todo'[t], j) \in {a, b}
             \/ \E i \in 1..Len(todo[t]) : Place(todo[t], i) = Place(todo'[t], j)
  <2>1. (j \in 1..(k - 1) /\ j \in 1..k) \/ j = k \/ j = k + 1
    BY <1>1, <1>4 DEF Goes2
  <2> QED
    BY <1>1, <1>4, <2>1 DEF Goes2
<1> QED
  BY <1>2, <1>3, <1>4 DEF Grown

\* The others' calls are where they were.
LEMMA OthersStay ==
    ASSUME NEW t \in Threads, NEW n, Stepped(t, n)
    PROVE  /\ \A u \in Threads : u # t => todo'[u] = todo[u]
           /\ todo' \in Lists /\ Counted(todo')
BY DEF Stepped, Going, Rest

\* Each of the steps that release is one of those of ReleaseFrame.
LEMMA GoesFramed ==
    ASSUME ShimInv, NEW t \in Threads, NEW n \in Releasing, UNCHANGED <<shim, holds, wired>>
    PROVE  /\ Goes0(t, n) => Framed
           /\ \A a : Goes1(t, n, a) /\ a.op \in Releasing => Framed
           /\ \A a, b : Goes2(t, n, a, b) /\ a.op \in Releasing /\ b.op \in Releasing => Framed
<1> DEFINE k == Len(todo[t])
<1>0. Stepped(t, n) => k \in Nat \ {0}
  BY DEF Stepped, Going
<1>1. ASSUME Goes0(t, n) PROVE Framed
  <2>1. Stepped(t, n) /\ Len(todo'[t]) = k - 1 /\ k \in Nat \ {0}
    BY <1>0, <1>1 DEF Goes0
  <2>2. /\ Len(todo'[t]) \in Nat /\ Len(todo'[t]) >= k - 1
        /\ \A j \in k..Len(todo'[t]) : Place(todo'[t], j).op \in Releasing
    BY <2>1
  <2> QED
    BY <2>1, <2>2, ReleaseFrame
<1>2. ASSUME NEW a, Goes1(t, n, a), a.op \in Releasing PROVE Framed
  <2>1. Stepped(t, n) /\ Len(todo'[t]) = k /\ Place(todo'[t], k) = a /\ k \in Nat \ {0}
    BY <1>0, <1>2 DEF Goes1
  <2>2. /\ Len(todo'[t]) \in Nat /\ Len(todo'[t]) >= k - 1
        /\ \A j \in k..Len(todo'[t]) : Place(todo'[t], j).op \in Releasing
    <3>1. \A j \in k..k : j = k
      BY <2>1
    <3> QED
      BY <1>2, <2>1, <3>1
  <2> QED
    BY <2>1, <2>2, ReleaseFrame
<1>3. ASSUME NEW a, NEW b, Goes2(t, n, a, b), a.op \in Releasing, b.op \in Releasing PROVE Framed
  <2>1. /\ Stepped(t, n) /\ Len(todo'[t]) = k + 1 /\ Place(todo'[t], k) = b /\ Place(todo'[t], k + 1) = a
        /\ k \in Nat \ {0}
    BY <1>0, <1>3 DEF Goes2
  <2>2. /\ Len(todo'[t]) \in Nat /\ Len(todo'[t]) >= k - 1
        /\ \A j \in k..Len(todo'[t]) : Place(todo'[t], j).op \in Releasing
    <3>1. \A j \in k..(k + 1) : j = k \/ j = k + 1
      BY <2>1
    <3> QED
      BY <1>3, <2>1, <3>1
  <2> QED
    BY <2>1, <2>2, ReleaseFrame
<1> QED
  BY <1>1, <1>2, <1>3

\* What is put into a stub, or a proxy, and what is left as it was.
PutRefs(f, x, a) == [f EXCEPT ![x].refs = a]
PutInts(f, x, a) == [f EXCEPT ![x].ints = a]
PutPins(f, x, a) == [f EXCEPT ![x].pins = a]
PutAll(f, x, r) == [f EXCEPT ![x] = r]

\* A field of a proxy changed, the others and the other proxies are not.
LEMMA ProxyPuts ==
    ASSUME NEW f \in [Proxies -> ProxyKind], NEW p \in Proxies, NEW a \in Int
    PROVE  /\ PutRefs(f, p, a) \in [Proxies -> ProxyKind] /\ PutRefs(f, p, a)[p].refs = a
           /\ PutRefs(f, p, a)[p].ints = f[p].ints /\ PutRefs(f, p, a)[p].pins = f[p].pins
           /\ PutRefs(f, p, a)[p].live = f[p].live /\ PutRefs(f, p, a)[p].shim = f[p].shim
           /\ \A x \in Proxies : x # p => PutRefs(f, p, a)[x] = f[x]
           /\ PutInts(f, p, a) \in [Proxies -> ProxyKind] /\ PutInts(f, p, a)[p].ints = a
           /\ PutInts(f, p, a)[p].refs = f[p].refs /\ PutInts(f, p, a)[p].pins = f[p].pins
           /\ PutInts(f, p, a)[p].live = f[p].live /\ PutInts(f, p, a)[p].shim = f[p].shim
           /\ \A x \in Proxies : x # p => PutInts(f, p, a)[x] = f[x]
           /\ PutPins(f, p, a) \in [Proxies -> ProxyKind] /\ PutPins(f, p, a)[p].pins = a
           /\ PutPins(f, p, a)[p].refs = f[p].refs /\ PutPins(f, p, a)[p].ints = f[p].ints
           /\ PutPins(f, p, a)[p].live = f[p].live /\ PutPins(f, p, a)[p].shim = f[p].shim
           /\ \A x \in Proxies : x # p => PutPins(f, p, a)[x] = f[x]
<1>1. /\ PutRefs(f, p, a) \in [Proxies -> ProxyKind] /\ PutRefs(f, p, a)[p].refs = a
      /\ PutRefs(f, p, a)[p].ints = f[p].ints /\ PutRefs(f, p, a)[p].pins = f[p].pins
      /\ PutRefs(f, p, a)[p].live = f[p].live /\ PutRefs(f, p, a)[p].shim = f[p].shim
      /\ \A x \in Proxies : x # p => PutRefs(f, p, a)[x] = f[x]
  BY DEF PutRefs, ProxyKind
<1>2. /\ PutInts(f, p, a) \in [Proxies -> ProxyKind] /\ PutInts(f, p, a)[p].ints = a
      /\ PutInts(f, p, a)[p].refs = f[p].refs /\ PutInts(f, p, a)[p].pins = f[p].pins
      /\ PutInts(f, p, a)[p].live = f[p].live /\ PutInts(f, p, a)[p].shim = f[p].shim
      /\ \A x \in Proxies : x # p => PutInts(f, p, a)[x] = f[x]
  BY DEF PutInts, ProxyKind
<1>3. /\ PutPins(f, p, a) \in [Proxies -> ProxyKind] /\ PutPins(f, p, a)[p].pins = a
      /\ PutPins(f, p, a)[p].refs = f[p].refs /\ PutPins(f, p, a)[p].ints = f[p].ints
      /\ PutPins(f, p, a)[p].live = f[p].live /\ PutPins(f, p, a)[p].shim = f[p].shim
      /\ \A x \in Proxies : x # p => PutPins(f, p, a)[x] = f[x]
  BY DEF PutPins, ProxyKind
<1> QED
  BY <1>1, <1>2, <1>3

\* A field of a stub changed, the others and the other stubs are not.
LEMMA StubPuts ==
    ASSUME NEW f \in [Stubs -> StubKind], NEW s \in Stubs, NEW a \in Int
    PROVE  /\ PutRefs(f, s, a) \in [Stubs -> StubKind] /\ PutRefs(f, s, a)[s].refs = a
           /\ PutRefs(f, s, a)[s].pins = f[s].pins /\ PutRefs(f, s, a)[s].live = f[s].live
           /\ \A x \in Stubs : x # s => PutRefs(f, s, a)[x] = f[x]
           /\ PutPins(f, s, a) \in [Stubs -> StubKind] /\ PutPins(f, s, a)[s].pins = a
           /\ PutPins(f, s, a)[s].refs = f[s].refs /\ PutPins(f, s, a)[s].live = f[s].live
           /\ \A x \in Stubs : x # s => PutPins(f, s, a)[x] = f[x]
<1>1. /\ PutRefs(f, s, a) \in [Stubs -> StubKind] /\ PutRefs(f, s, a)[s].refs = a
      /\ PutRefs(f, s, a)[s].pins = f[s].pins /\ PutRefs(f, s, a)[s].live = f[s].live
      /\ \A x \in Stubs : x # s => PutRefs(f, s, a)[x] = f[x]
  BY DEF PutRefs, StubKind
<1>2. /\ PutPins(f, s, a) \in [Stubs -> StubKind] /\ PutPins(f, s, a)[s].pins = a
      /\ PutPins(f, s, a)[s].refs = f[s].refs /\ PutPins(f, s, a)[s].live = f[s].live
      /\ \A x \in Stubs : x # s => PutPins(f, s, a)[x] = f[x]
  BY DEF PutPins, StubKind
<1> QED
  BY <1>1, <1>2

\* A proxy or a stub changed as a whole.
LEMMA AllPuts ==
    /\ \A f \in [Proxies -> ProxyKind] : \A x \in Proxies : \A r \in ProxyKind :
           /\ PutAll(f, x, r) \in [Proxies -> ProxyKind] /\ PutAll(f, x, r)[x] = r
           /\ \A y \in Proxies : y # x => PutAll(f, x, r)[y] = f[y]
    /\ \A f \in [Stubs -> StubKind] : \A x \in Stubs : \A r \in StubKind :
           /\ PutAll(f, x, r) \in [Stubs -> StubKind] /\ PutAll(f, x, r)[x] = r
           /\ \A y \in Stubs : y # x => PutAll(f, x, r)[y] = f[y]
BY DEF PutAll

\* Stubs and proxies are of their kinds.
LEMMA KindsAre ==
    ASSUME ShimInv
    PROVE  /\ stubs \in [Stubs -> StubKind] /\ proxies \in [Proxies -> ProxyKind]
           /\ \A s \in Stubs : stubs[s] \in StubKind /\ stubs[s].refs \in Int /\ stubs[s].pins \in Int
           /\ \A p \in Proxies : /\ proxies[p] \in ProxyKind /\ proxies[p].refs \in Int
                                  /\ proxies[p].ints \in Int /\ proxies[p].pins \in Int
                                  /\ proxies[p].live \in BOOLEAN /\ proxies[p].shim \in Stubs \cup {0}
<1>1. stubs \in [Stubs -> StubKind] /\ proxies \in [Proxies -> ProxyKind]
  BY DEF ShimInv, ShimTypes
<1>2. \A s \in Stubs : stubs[s] \in StubKind
  BY <1>1
<1>3. \A p \in Proxies : proxies[p] \in ProxyKind
  BY <1>1
<1> QED
  BY <1>1, <1>2, <1>3 DEF StubKind, ProxyKind

\* A reference to the object itself is given up.
LEMMA ReleaseObject ==
    ASSUME ShimInv, NEW t \in Threads, release(t), Arg(t) = Object
    PROVE  ShimInv'
<1>1. Now(t, "release") /\ Then(t, <<>>) /\ object' = object - 1
  BY DEF release
<1>a. proxies' = proxies /\ stubs' = stubs /\ holders' = holders /\ shim' = shim /\ holds' = holds
  BY DEF release
<1>b. wired' = wired /\ late' = late /\ calls' = calls
  BY DEF release
<1>2. ~late /\ Goes0(t, "release") /\ Stepped(t, "release")
  BY <1>1, ThenGoes DEF Now, Goes0
<1>3. Moves("release", Object, "none", 0, "none", 0)
  BY <1>2, MovesBy
<1>4. (\A u \in Threads : u # t => todo'[u] = todo[u]) /\ todo' \in Lists /\ Counted(todo')
  BY <1>2, OthersStay
<1>5. Framed
  <2>1. "release" \in Releasing
    BY DEF Releasing
  <2> QED
    BY <1>2, <1>a, <1>b, <2>1, GoesFramed
<1>6. /\ Maps' /\ Referred' = Referred /\ Twice' = Twice
      /\ \A s : ProxiesFor(s)' = ProxiesFor(s) /\ PinnedFor(s)' = PinnedFor(s)
      /\ (\A s \in Stubs : Waits(todo', Op("release_pin", s)) = Waits(todo, Op("release_pin", s))) => Pins'
      /\ \A u \in Threads : Steady(u)
  BY <1>2, <1>a, NothingMoved
<1>7. /\ \A s \in Stubs : /\ Waits(todo', Op("release_stub", s)) = Waits(todo, Op("release_stub", s))
                          /\ Waits(todo', Op("release_pin", s)) = Waits(todo, Op("release_pin", s))
                          /\ Waits(todo', Op("Destruct_stub", s)) = Waits(todo, Op("Destruct_stub", s))
      /\ \A p \in Proxies : /\ Waits(todo', Op("Internal_Release", p)) = Waits(todo, Op("Internal_Release", p))
                            /\ Waits(todo', Op("Unpin_proxy", p)) = Waits(todo, Op("Unpin_proxy", p))
                            /\ Waits(todo', Op("Destruct_proxy", p)) = Waits(todo, Op("Destruct_proxy", p))
  BY <1>3 DEF Moves, WaitsMore, One
<1>8. \A p \in Proxies : Waits(todo', Op("release", p)) = Waits(todo, Op("release", p))
  <2>1. ASSUME NEW p \in Proxies PROVE p # Object /\ p \in Proxies \cup {Object}
    BY DEF ShimInv, ShimAssumption, Object
  <2> QED
    BY <1>3, <2>1 DEF Moves, WaitsMore, One
<1>9. /\ Waits(todo, Op("release", Object)) \in Nat /\ Waits(todo', Op("release", Object)) \in Nat
      /\ Waits(todo', Op("release", Object)) = Waits(todo, Op("release", Object)) - 1
  BY <1>3 DEF Moves, WaitsMore, One
<1>10. ObjectSum'
  <2>1. ObjectSum /\ HandsOf(Object)' = HandsOf(Object) /\ object \in Int
    BY <1>2, <1>5 DEF ShimInv, Sums, Framed, ShimTypes
  <2>2. /\ Cardinality(HandsOf(Object)) \in Nat /\ Cardinality(Referred) \in Nat /\ Cardinality(Twice) \in Nat
    BY <2>1, FS_CardinalityType DEF ObjectSum
  <2> QED
    BY <1>1, <1>6, <1>9, <2>1, <2>2 DEF ObjectSum
<1>11. \A s \in Stubs : StubSum(s)'
  BY <1>2, <1>a, <1>5, <1>6, <1>7, StubSame DEF Framed
<1>12. \A p \in Proxies : ProxySum(p)'
  BY <1>2, <1>a, <1>5, <1>7, <1>8, ProxySame DEF Framed
<1>13. ShimTypes'
  BY <1>1, <1>a, <1>b, <1>4 DEF ShimInv, ShimTypes
<1>14. \A u \in Threads : Linked(u)'
  BY <1>2, <1>a, <1>5, <1>6, FramedSame, LinkedStill
<1>15. Kept'
  <2>1. \A u \in Threads : \A p \in Proxies : Keeps(u, p)' => Keeps(u, p)
    BY <1>2, <1>b, <1>5, ReleaseKeeps
  <2>2. Grown(t, {})
    BY <1>2, PlacesAre
  <2>3. ASSUME NEW u \in Threads, NEW p \in Proxies, Keeps(u, p)
        PROVE  /\ proxies'[p].shim = proxies[p].shim
               /\ \A x \in Proxies : x # p /\ proxies'[x].refs > 0 => proxies'[x].shim # proxies[p].shim
               /\ u # t => shim'[t] # proxies[p].shim
    <3>1. /\ \A x \in Proxies : x # p /\ proxies[x].refs > 0 => proxies[x].shim # proxies[p].shim
          /\ \A v \in Threads : v # u => shim[v] # proxies[p].shim
      BY <1>2, <2>3, KeeperFacts
    <3>2. proxies' = proxies /\ shim' = shim
      BY <1>a
    <3>3. u # t => shim'[t] # proxies[p].shim
      BY <3>1, <3>2
    <3>4. \A x \in Proxies : x # p /\ proxies'[x].refs > 0 => proxies'[x].shim # proxies[p].shim
      BY <3>1, <3>2
    <3> QED
      BY <3>2, <3>3, <3>4
  <2>4. Undisturbed(t, {})
    BY <2>3 DEF Undisturbed
  <2>5. \A v \in Threads : v # t => todo'[v] = todo[v] /\ shim'[v] = shim[v]
    BY <1>a, <1>4
  <2> QED
    BY <1>2, <2>1, <2>2, <2>4, <2>5, KeptBy
<1> QED
  BY <1>2, <1>b, <1>4, <1>5, <1>6, <1>7, <1>10, <1>11, <1>12, <1>13, <1>14, <1>15, Assembled DEF Framed

\* What it takes that a step counts down proxies and moves nothing else.
CountedDown ==
    \A p \in Proxies :
        /\ proxies'[p].live = proxies[p].live /\ proxies'[p].shim = proxies[p].shim
        /\ proxies'[p].pins = proxies[p].pins
        /\ proxies'[p].refs \in Int /\ proxies'[p].refs <= proxies[p].refs
        /\ proxies[p].refs = 0 => proxies'[p].refs = 0
        /\ \A u \in Threads : todo[u] # <<>> /\ Head(todo[u]) = Op("Pin", p) => proxies'[p].refs = proxies[p].refs

\* A step that only counts proxies down keeps what is said of maps and pins.
LEMMA OnlyCounted ==
    ASSUME ShimInv, ~late, UNCHANGED <<stubs, holders>>, CountedDown
    PROVE  /\ Maps' /\ Referred' = Referred /\ Twice' = Twice
           /\ \A s : PinnedFor(s)' = PinnedFor(s)
           /\ (\A s \in Stubs : Waits(todo', Op("release_pin", s)) = Waits(todo, Op("release_pin", s))) => Pins'
           /\ \A u \in Threads : Steady(u)
<1>0. stubs' = stubs /\ holders' = holders
  OBVIOUS
<1>1. Referred' = Referred /\ Twice' = Twice
  BY <1>0 DEF Referred, Twice
<1>2. \A p \in Proxies : /\ proxies'[p].live = proxies[p].live /\ proxies'[p].shim = proxies[p].shim
                         /\ proxies'[p].pins = proxies[p].pins
                         /\ proxies'[p].refs <= proxies[p].refs
  BY DEF CountedDown
<1>3. \A s : PinnedFor(s)' = PinnedFor(s)
  BY <1>2 DEF PinnedFor
<1>4. Maps /\ Pins
  BY DEF ShimInv
<1>a. \A s : (IsListed(s)' <=> IsListed(s)) /\ (Private(s)' <=> Private(s))
  BY <1>0 DEF IsListed, Private
<1>b. \A p : IsShared(p)' <=> IsShared(p)
  BY <1>0 DEF IsShared
<1>5. Maps'
  <2>1. \A m \in Modules, x \in Proxies \cup {Object}, s \in Stubs : <<m, x, s>> \in holders' =>
            IF x = Object THEN m = Home /\ stubs'[s].live
            ELSE m # Home /\ proxies'[x].live /\ proxies'[x].shim = s
    BY <1>0, <1>2, <1>4 DEF Maps
  <2>2. \A s, z \in Stubs : IsListed(s)' /\ IsListed(z)' => s = z
    BY <1>4, <1>a DEF Maps
  <2>3. \A m \in Modules, x, y \in Proxies, s \in Stubs :
            <<m, x, s>> \in holders' /\ <<m, y, s>> \in holders' => x = y
    BY <1>0, <1>4 DEF Maps
  <2> QED
    BY <2>1, <2>2, <2>3 DEF Maps
<1>6. ASSUME \A s \in Stubs : Waits(todo', Op("release_pin", s)) = Waits(todo, Op("release_pin", s))
      PROVE  Pins'
  <2>1. ASSUME NEW p \in Proxies, proxies'[p].pins > 0
        PROVE  proxies'[p].refs <= 1 /\ <<Home, Object, proxies'[p].shim>> \notin holders' /\ ~IsShared(p)'
    <3>1. proxies[p].pins > 0
      BY <1>2, <2>1
    <3>2. proxies[p].refs <= 1 /\ ~IsListed(proxies[p].shim) /\ ~IsShared(p)
      BY <1>4, <3>1 DEF Pins
    <3>3. proxies[p].refs \in Nat /\ proxies'[p].refs \in Int /\ proxies'[p].refs <= proxies[p].refs
      BY ProxyFacts DEF CountedDown
    <3>4. proxies'[p].refs <= 1
      BY <3>2, <3>3
    <3> QED
      BY <1>0, <1>2, <1>b, <3>2, <3>4 DEF IsListed
  <2>2. \A s \in Stubs : stubs'[s].pins > 0 => stubs'[s].refs <= 2
    BY <1>0, <1>4 DEF Pins
  <2>3. \A s \in Stubs : Waits(todo', Op("release_pin", s)) > 0 => stubs'[s].refs = 0
    BY <1>0, <1>4, <1>6 DEF Pins
  <2> QED
    BY <2>1, <2>2, <2>3 DEF Pins, IsListed
<1>7. ASSUME NEW u \in Threads PROVE Steady(u)
  <2>1. \A p \in Proxies : proxies[p].refs > 0 => proxies[p].live
    BY ProxyFacts
  <2>2. ASSUME NEW p \in Proxies, NEW s \in Stubs,
               todo[u] # <<>>, Head(todo[u]) = Op("Pin", p), proxies[p].shim = s
        PROVE  /\ stubs'[s].refs = 2 /\ stubs'[s].pins = 0 /\ ~IsListed(s)'
               /\ proxies'[p].refs = 1 /\ proxies'[p].pins = 0 /\ ~IsShared(p)'
    <3>1. /\ stubs[s].refs = 2 /\ stubs[s].pins = 0 /\ ~IsListed(s)
          /\ proxies[p].refs = 1 /\ proxies[p].pins = 0 /\ ~IsShared(p)
      BY <2>2, PinAhead
    <3>2. proxies'[p].refs = proxies[p].refs /\ proxies'[p].pins = proxies[p].pins
      BY <2>2 DEF CountedDown
    <3> QED
      BY <1>0, <1>a, <1>b, <3>1, <3>2
  <2>3. \A p \in Proxies : proxies[p].refs = 0 => proxies'[p].refs = 0
    BY DEF CountedDown
  <2>4. \A p \in Proxies : proxies[p].refs > 0 => proxies'[p].shim = proxies[p].shim /\ proxies'[p].live
    BY <1>2, <2>1
  <2>5. \A p \in Proxies : proxies[p].pins = 0 => proxies'[p].pins = 0
    BY <1>2
  <2> QED
    BY <1>0, <1>a, <2>2, <2>3, <2>4, <2>5 DEF Steady
<1> QED
  BY <1>1, <1>3, <1>5, <1>6, <1>7

\* A proxy that is about to be pinned is released by nobody else.
LEMMA PinNotReleased ==
    ASSUME ShimInv, ~late, NEW t \in Threads, Current(t, "release"), NEW u \in Threads, NEW p \in Proxies,
           todo[u] # <<>>, Head(todo[u]) = Op("Pin", p)
    PROVE  Arg(t) # p
<1> SUFFICES ASSUME Arg(t) = p PROVE FALSE
  OBVIOUS
<1>1. /\ Len(todo[u]) = 3 /\ Place(todo[u], 2) = Op("release", p) /\ Waits(todo, Op("release", p)) = 1
  BY PinAhead
<1>2. /\ Counted(todo) /\ Head(todo[t]) = Op("release", p) /\ Len(todo[t]) \in Nat \ {0}
      /\ Place(todo[t], Len(todo[t])) = Op("release", p) /\ Op("release", p) \in Ops
  BY ProxyFacts DEF Current
<1>3. u # t
  <2>1. Op("release", p) # Op("Pin", p)
    BY OpsAre
  <2> QED
    BY <1>2, <2>1
<1>4. 2 \in 1..Len(todo[u]) /\ Len(todo[t]) \in 1..Len(todo[t])
  BY <1>1, <1>2
<1>5. Waits(todo, Op("release", p)) >= 2
  <2> DEFINE o == Op("release", p)
  <2>1. PICK j \in 1..Len(todo[t]) : Place(todo[t], j) = o
    BY <1>2, <1>4
  <2>2. PICK i \in 1..Len(todo[u]) : Place(todo[u], i) = o
    BY <1>1, <1>4
  <2>3. o \in Ops /\ Counted(todo)
    BY <1>2
  <2> HIDE DEF o
  <2>4. Waits(todo, o) >= 2
    BY <1>3, <2>1, <2>2, <2>3, TwoWait
  <2> QED
    BY <2>4 DEF o
<1> QED
  BY <1>1, <1>5

\* One reference of several to a proxy.
LEMMA ReleaseOne ==
    ASSUME ShimInv, NEW t \in Threads, release(t), NEW p \in Proxies, Arg(t) = p, proxies[p].refs # 1
    PROVE  ShimInv'
<1>0. p # Object /\ Now(t, "release") /\ ~late
  BY DEF ShimInv, ShimAssumption, Object, release, Now
<1>c. Current(t, "release")
  BY <1>0, NowIs
<1>d. proxies[p].refs \in Nat /\ proxies[p].refs >= 2
  <2>1. 1 <= Waits(todo, Op("release", p))
    BY <1>c DEF Current
  <2>2. Waits(todo, Op("release", p)) \in Nat /\ Waits(todo, Op("release", p)) <= proxies[p].refs
             /\ proxies[p].refs \in Nat
    BY <1>0, ProxyFacts
  <2> QED
    BY <2>1, <2>2
<1>e. proxies[p].pins = 0
  <2>1. proxies[p].pins > 0 => proxies[p].refs <= 1
    BY <1>0 DEF ShimInv, Pins
  <2>2. proxies[p].pins \in Nat
    BY <1>0, ProxyFacts
  <2> QED
    BY <1>d, <2>1, <2>2
<1>1. /\ Then(t, <<>>) /\ object' = object
      /\ proxies' = [proxies EXCEPT ![p].refs = @ - 1, ![p].ints = @ + 0]
  BY <1>0, <1>e DEF release
<1>a. stubs' = stubs /\ holders' = holders /\ shim' = shim /\ holds' = holds
  BY DEF release
<1>b. wired' = wired /\ late' = late /\ calls' = calls
  BY DEF release
<1>2. Goes0(t, "release") /\ Stepped(t, "release")
  BY <1>0, <1>1, ThenGoes DEF Goes0
<1>3. Moves("release", p, "none", 0, "none", 0)
  BY <1>2, MovesBy
<1>4. (\A u \in Threads : u # t => todo'[u] = todo[u]) /\ todo' \in Lists /\ Counted(todo')
  BY <1>2, OthersStay
<1>5. Framed
  <2>1. "release" \in Releasing
    BY DEF Releasing
  <2> QED
    BY <1>2, <1>a, <1>b, <2>1, GoesFramed
<1>f. /\ proxies' \in [Proxies -> ProxyKind]
      /\ proxies'[p].refs = proxies[p].refs - 1 /\ proxies'[p].ints = proxies[p].ints
      /\ proxies'[p].pins = proxies[p].pins /\ proxies'[p].shim = proxies[p].shim
      /\ proxies'[p].live = proxies[p].live
      /\ \A x \in Proxies : x # p => proxies'[x] = proxies[x]
  <2> DEFINE f == PutRefs(proxies, p, proxies[p].refs - 1)
  <2>1. /\ proxies \in [Proxies -> ProxyKind] /\ proxies[p].refs - 1 \in Int /\ proxies[p].ints \in Int
    BY KindsAre
  <2>2. /\ f \in [Proxies -> ProxyKind] /\ f[p].refs = proxies[p].refs - 1 /\ f[p].ints = proxies[p].ints
        /\ f[p].pins = proxies[p].pins /\ f[p].shim = proxies[p].shim /\ f[p].live = proxies[p].live
        /\ \A x \in Proxies : x # p => f[x] = proxies[x]
    BY <2>1, ProxyPuts
  <2>a. proxies' = PutInts(f, p, f[p].ints + 0)
    BY <1>1 DEF PutRefs, PutInts
  <2>b. f[p].ints + 0 = f[p].ints
    BY <2>1, <2>2
  <2>3. proxies' = PutInts(f, p, f[p].ints)
    BY <2>a, <2>b
  <2> HIDE DEF f
  <2>4. f[p].ints \in Int
    BY <2>1, <2>2
  <2> QED
    BY <2>2, <2>3, <2>4, ProxyPuts
<1>g. CountedDown
  <2> SUFFICES ASSUME NEW x \in Proxies
               PROVE  /\ proxies'[x].live = proxies[x].live /\ proxies'[x].shim = proxies[x].shim
                      /\ proxies'[x].pins = proxies[x].pins
                      /\ proxies'[x].refs \in Int /\ proxies'[x].refs <= proxies[x].refs
                      /\ proxies[x].refs = 0 => proxies'[x].refs = 0
                      /\ \A u \in Threads : todo[u] # <<>> /\ Head(todo[u]) = Op("Pin", x)
                           => proxies'[x].refs = proxies[x].refs
    BY DEF CountedDown
  <2>1. proxies[x].refs \in Nat
    BY <1>0, ProxyFacts
  <2>2. CASE x # p
    BY <1>f, <2>1, <2>2
  <2>3. CASE x = p
    <3>1. \A u \in Threads : ~(todo[u] # <<>> /\ Head(todo[u]) = Op("Pin", p))
      BY <1>0, <1>c, PinNotReleased
    <3> QED
      BY <1>d, <1>f, <2>3, <3>1
  <2> QED
    BY <2>2, <2>3
<1>6. /\ Maps' /\ Referred' = Referred /\ Twice' = Twice
      /\ \A s : PinnedFor(s)' = PinnedFor(s)
      /\ (\A s \in Stubs : Waits(todo', Op("release_pin", s)) = Waits(todo, Op("release_pin", s))) => Pins'
      /\ \A u \in Threads : Steady(u)
  BY <1>0, <1>a, <1>g, OnlyCounted
<1>h. \A s : ProxiesFor(s)' = ProxiesFor(s)
  <2>1. \A x \in Proxies : (proxies'[x].refs > 0 <=> proxies[x].refs > 0) /\ proxies'[x].shim = proxies[x].shim
    BY <1>d, <1>f
  <2> QED
    BY <2>1 DEF ProxiesFor
<1>7. /\ \A s \in Stubs : /\ Waits(todo', Op("release_stub", s)) = Waits(todo, Op("release_stub", s))
                          /\ Waits(todo', Op("release_pin", s)) = Waits(todo, Op("release_pin", s))
                          /\ Waits(todo', Op("Destruct_stub", s)) = Waits(todo, Op("Destruct_stub", s))
      /\ \A x \in Proxies : /\ Waits(todo', Op("Internal_Release", x)) = Waits(todo, Op("Internal_Release", x))
                            /\ Waits(todo', Op("Unpin_proxy", x)) = Waits(todo, Op("Unpin_proxy", x))
                            /\ Waits(todo', Op("Destruct_proxy", x)) = Waits(todo, Op("Destruct_proxy", x))
  BY <1>3 DEF Moves, WaitsMore, One
<1>8. /\ \A x \in Proxies \cup {Object} : x # p => Waits(todo', Op("release", x)) = Waits(todo, Op("release", x))
      /\ Waits(todo, Op("release", p)) \in Nat
      /\ Waits(todo', Op("release", p)) = Waits(todo, Op("release", p)) - 1
  BY <1>3 DEF Moves, WaitsMore, One
<1>10. ObjectSum'
  <2>1. ObjectSum /\ HandsOf(Object)' = HandsOf(Object)
    BY <1>0, <1>5 DEF ShimInv, Sums, Framed
  <2>2. Waits(todo', Op("release", Object)) = Waits(todo, Op("release", Object))
    BY <1>0, <1>8
  <2> QED
    BY <1>1, <1>6, <2>1, <2>2 DEF ObjectSum
<1>11. \A s \in Stubs : StubSum(s)'
  BY <1>0, <1>a, <1>h, <1>5, <1>6, <1>7, StubSame DEF Framed
<1>12. ASSUME NEW x \in Proxies PROVE ProxySum(x)'
  <2>1. HandsOf(x)' = HandsOf(x) /\ AddsOf(x)' = AddsOf(x) /\ WiresOf(x)' = WiresOf(x)
    BY <1>5 DEF Framed
  <2>2. CASE x # p
    BY <1>0, <1>f, <1>7, <1>8, <2>1, <2>2, ProxySame
  <2>3. CASE x = p
    <3>1. ProxySum(p) /\ proxies[p].live
      BY <1>0, <1>d, ProxyFacts DEF ShimInv, Sums
    <3>2. Cardinality(HandsOf(p)) \in Nat /\ Cardinality(AddsOf(p)) \in Nat
      BY <1>0, ProxyFacts
    <3>3. proxies'[p].refs = Cardinality(HandsOf(p)') + Waits(todo', Op("release", p)) + Cardinality(AddsOf(p)')
      BY <1>d, <1>f, <1>8, <2>1, <2>3, <3>1, <3>2 DEF ProxySum
    <3>4. Waits(todo', Op("Destruct_proxy", p)) = 0 /\ proxies'[p].refs # 0
      BY <1>7, <1>d, <1>f, <3>1 DEF ProxySum, One
    <3> QED
      BY <1>f, <1>7, <2>1, <2>3, <3>1, <3>3, <3>4 DEF ProxySum, One
  <2> QED
    BY <2>2, <2>3
<1>13. ShimTypes'
  BY <1>1, <1>a, <1>b, <1>4, <1>f DEF ShimInv, ShimTypes
<1>14. \A u \in Threads : Linked(u)'
  BY <1>0, <1>a, <1>5, <1>6, FramedSame, LinkedStill
<1>15. Kept'
  <2>1. \A u \in Threads : \A x \in Proxies : Keeps(u, x)' => Keeps(u, x)
    BY <1>0, <1>2, <1>b, <1>5, ReleaseKeeps
  <2>2. Grown(t, {})
    BY <1>2, PlacesAre
  <2>3. ASSUME NEW u \in Threads, NEW y \in Proxies, Keeps(u, y)
        PROVE  /\ proxies'[y].shim = proxies[y].shim
               /\ \A x \in Proxies : x # y /\ proxies'[x].refs > 0 => proxies'[x].shim # proxies[y].shim
               /\ u # t => shim'[t] # proxies[y].shim
    <3>1. /\ \A x \in Proxies : x # y /\ proxies[x].refs > 0 => proxies[x].shim # proxies[y].shim
          /\ \A v \in Threads : v # u => shim[v] # proxies[y].shim
      BY <1>0, <2>3, KeeperFacts
    <3>2. \A x \in Proxies : (proxies'[x].refs > 0 <=> proxies[x].refs > 0) /\ proxies'[x].shim = proxies[x].shim
      BY <1>d, <1>f
    <3>3. \A x \in Proxies : x # y /\ proxies'[x].refs > 0 => proxies'[x].shim # proxies[y].shim
      BY <3>1, <3>2
    <3> QED
      BY <1>a, <3>1, <3>2, <3>3
  <2>4. Undisturbed(t, {})
    BY <2>3 DEF Undisturbed
  <2>5. \A v \in Threads : v # t => todo'[v] = todo[v] /\ shim'[v] = shim[v]
    BY <1>a, <1>4
  <2> QED
    BY <1>0, <2>1, <2>2, <2>4, <2>5, KeptBy
<1> QED
  BY <1>0, <1>b, <1>4, <1>5, <1>6, <1>7, <1>10, <1>11, <1>12, <1>13, <1>14, <1>15, Assembled DEF Framed

\* The operations by their arguments.
LEMMA OpsOf ==
    /\ Op("release", Object) \in Ops
    /\ \A s \in Stubs : /\ Op("release_stub", s) \in Ops /\ Op("release_pin", s) \in Ops
                        /\ Op("Destruct_stub", s) \in Ops /\ Op("AddRef_found", s) \in Ops /\ Op("add2", s) \in Ops
    /\ \A p \in Proxies : /\ Op("release", p) \in Ops /\ Op("Internal_Release", p) \in Ops
                          /\ Op("Destruct_proxy", p) \in Ops /\ Op("Pin", p) \in Ops /\ Op("Unpin_proxy", p) \in Ops
<1>1. /\ "release" \in OpNames /\ "release_stub" \in OpNames /\ "release_pin" \in OpNames
      /\ "Destruct_stub" \in OpNames /\ "Internal_Release" \in OpNames
      /\ "Destruct_proxy" \in OpNames /\ "Unpin_proxy" \in OpNames /\ "Pin" \in OpNames
      /\ "AddRef_found" \in OpNames /\ "add2" \in OpNames
  BY DEF OpNames
<1>2. /\ ArgsOf("release") = Proxies \cup {Object}
      /\ ArgsOf("release_stub") = Stubs /\ ArgsOf("release_pin") = Stubs /\ ArgsOf("Destruct_stub") = Stubs
      /\ ArgsOf("Internal_Release") = Proxies /\ ArgsOf("Destruct_proxy") = Proxies
      /\ ArgsOf("Unpin_proxy") = Proxies /\ ArgsOf("Pin") = Proxies
      /\ ArgsOf("AddRef_found") = Stubs /\ ArgsOf("add2") = Stubs
  BY DEF ArgsOf
<1> QED
  BY <1>1, <1>2, OpIn

\* What is left to show of a step that releases.
LEMMA ReleaseStep ==
    ASSUME ShimInv, ~late, NEW t \in Threads, NEW n, Stepped(t, n), Framed,
           UNCHANGED <<shim, holds, wired, late, calls>>,
           NEW A, Grown(t, A), Undisturbed(t, A),
           object' \in Int, stubs' \in [Stubs -> StubKind], proxies' \in [Proxies -> ProxyKind],
           holders' \subseteq Modules \X (Proxies \cup {Object}) \X Stubs,
           ObjectSum', \A s \in Stubs : StubSum(s)', \A p \in Proxies : ProxySum(p)',
           Maps', Pins', \A u \in Threads : Steady(u)
    PROVE  ShimInv'
<1>1. (\A u \in Threads : u # t => todo'[u] = todo[u]) /\ todo' \in Lists /\ Counted(todo')
  BY OthersStay
<1>2. shim' = shim /\ holds' = holds /\ wired' = wired /\ late' = late /\ calls' = calls
  OBVIOUS
<1>3. ShimTypes'
  BY <1>1, <1>2 DEF ShimInv, ShimTypes
<1>4. \A u \in Threads : Linked(u)'
  BY <1>2, FramedSame, LinkedStill
<1>5. Kept'
  <2>1. \A u \in Threads : \A x \in Proxies : Keeps(u, x)' => Keeps(u, x)
    BY <1>2, ReleaseKeeps
  <2>2. \A v \in Threads : v # t => todo'[v] = todo[v] /\ shim'[v] = shim[v]
    BY <1>1, <1>2
  <2> QED
    BY <2>1, <2>2, KeptBy
<1> QED
  BY <1>1, <1>2, <1>3, <1>4, <1>5, Assembled DEF Framed

\* What a step that releases does to those who keep a proxy.
LEMMA Undisturbing ==
    ASSUME ShimInv, ~late, NEW t \in Threads, shim' = shim, NEW A,
           \A x \in Proxies : proxies'[x].refs > 0 => proxies[x].refs > 0 /\ proxies'[x].shim = proxies[x].shim,
           \A y \in Proxies : proxies[y].pins > 0 => proxies'[y].shim = proxies[y].shim,
           \A u \in Threads : \A y \in Proxies : u # t /\ Keeps(u, y) =>
               Op("release", y) \notin A /\ Op("release_stub", proxies[y].shim) \notin A
    PROVE  Undisturbed(t, A)
<1>1. ASSUME NEW u \in Threads, NEW y \in Proxies, Keeps(u, y)
      PROVE  /\ proxies'[y].shim = proxies[y].shim
             /\ \A x \in Proxies : x # y /\ proxies'[x].refs > 0 => proxies'[x].shim # proxies[y].shim
             /\ u # t => shim'[t] # proxies[y].shim
  <2>1. /\ \A x \in Proxies : x # y /\ proxies[x].refs > 0 => proxies[x].shim # proxies[y].shim
        /\ \A v \in Threads : v # u => shim[v] # proxies[y].shim
        /\ proxies[y].pins > 0
    BY <1>1, KeeperFacts
  <2>2. \A x \in Proxies : x # y /\ proxies'[x].refs > 0 => proxies'[x].shim # proxies[y].shim
    BY <2>1
  <2> QED
    BY <2>1, <2>2
<1> QED
  BY <1>1 DEF Undisturbed

\* The last reference to a proxy.
LEMMA ReleaseLast ==
    ASSUME ShimInv, NEW t \in Threads, release(t), NEW p \in Proxies, Arg(t) = p, proxies[p].refs = 1
    PROVE  ShimInv'
<1>0. p # Object /\ Now(t, "release") /\ ~late
  BY DEF ShimInv, ShimAssumption, Object, release, Now
<1>c. Current(t, "release")
  BY <1>0, NowIs
<1>d. PICK s \in Stubs : s = proxies[p].shim /\ p \in ProxiesFor(s) /\ stubs[s].refs >= 1
  BY <1>0, ShimOfProxy
<1>1. /\ Then(t, <<Op("release_stub", s), Op("Internal_Release", p)>>) /\ object' = object
      /\ proxies' = [proxies EXCEPT ![p].refs = @ - 1, ![p].ints = @ + 1]
  BY <1>0, <1>d DEF release
<1>a. stubs' = stubs /\ holders' = holders /\ shim' = shim /\ holds' = holds
  BY DEF release
<1>b. wired' = wired /\ late' = late /\ calls' = calls
  BY DEF release
<1> DEFINE a == Op("release_stub", s)
           b == Op("Internal_Release", p)
<1>2. Goes2(t, "release", a, b) /\ Stepped(t, "release")
  <2>1. a \in Ops /\ b \in Ops
    BY OpsOf
  <2>2. Then(t, <<a, b>>)
    BY <1>1
  <2> HIDE DEF a, b
  <2> QED
    BY <1>0, <2>1, <2>2, ThenGoes DEF Goes2
<1>3. Moves("release", p, "release_stub", s, "Internal_Release", p)
  BY <1>2, MovesBy
<1>5. Framed
  <2>1. "release" \in Releasing /\ a.op \in Releasing /\ b.op \in Releasing
    BY OpsAre DEF Releasing
  <2> HIDE DEF a, b
  <2> QED
    BY <1>2, <1>a, <1>b, <2>1, GoesFramed
<1>4. Grown(t, {a, b})
  <2> HIDE DEF a, b
  <2> QED
    BY <1>2, PlacesAre
<1>f. /\ proxies' \in [Proxies -> ProxyKind]
      /\ proxies'[p].refs = 0 /\ proxies'[p].ints = proxies[p].ints + 1
      /\ proxies'[p].pins = proxies[p].pins /\ proxies'[p].shim = s
      /\ proxies'[p].live = proxies[p].live
      /\ \A x \in Proxies : x # p => proxies'[x] = proxies[x]
  <2> DEFINE f == PutRefs(proxies, p, 0)
  <2>0. proxies[p].refs - 1 = 0
    OBVIOUS
  <2>1. /\ proxies \in [Proxies -> ProxyKind] /\ 0 \in Int /\ proxies[p].ints + 1 \in Int
    BY KindsAre
  <2>2. /\ f \in [Proxies -> ProxyKind] /\ f[p].refs = 0 /\ f[p].ints = proxies[p].ints
        /\ f[p].pins = proxies[p].pins /\ f[p].shim = proxies[p].shim /\ f[p].live = proxies[p].live
        /\ \A x \in Proxies : x # p => f[x] = proxies[x]
    BY <2>1, ProxyPuts
  <2>3. proxies' = PutInts(f, p, f[p].ints + 1)
    BY <1>1, <2>0 DEF PutRefs, PutInts
  <2> HIDE DEF f
  <2>4. f[p].ints + 1 \in Int
    BY <2>1, <2>2
  <2> QED
    BY <1>d, <2>2, <2>3, <2>4, ProxyPuts
<1> HIDE DEF a, b
<1>g. CountedDown
  <2> SUFFICES ASSUME NEW x \in Proxies
               PROVE  /\ proxies'[x].live = proxies[x].live /\ proxies'[x].shim = proxies[x].shim
                      /\ proxies'[x].pins = proxies[x].pins
                      /\ proxies'[x].refs \in Int /\ proxies'[x].refs <= proxies[x].refs
                      /\ proxies[x].refs = 0 => proxies'[x].refs = 0
                      /\ \A u \in Threads : todo[u] # <<>> /\ Head(todo[u]) = Op("Pin", x)
                           => proxies'[x].refs = proxies[x].refs
    BY DEF CountedDown
  <2>1. proxies[x].refs \in Nat
    BY <1>0, ProxyFacts
  <2>2. CASE x # p
    BY <1>f, <2>1, <2>2
  <2>3. CASE x = p
    <3>1. \A u \in Threads : ~(todo[u] # <<>> /\ Head(todo[u]) = Op("Pin", p))
      BY <1>0, <1>c, PinNotReleased
    <3> QED
      BY <1>d, <1>f, <2>3, <3>1
  <2> QED
    BY <2>2, <2>3
<1>6. /\ Maps' /\ Referred' = Referred /\ Twice' = Twice
      /\ \A r : PinnedFor(r)' = PinnedFor(r)
      /\ (\A r \in Stubs : Waits(todo', Op("release_pin", r)) = Waits(todo, Op("release_pin", r))) => Pins'
      /\ \A u \in Threads : Steady(u)
  BY <1>0, <1>a, <1>g, OnlyCounted
<1>h. /\ ProxiesFor(s)' = ProxiesFor(s) \ {p}
      /\ \A r : r # s => ProxiesFor(r)' = ProxiesFor(r)
  <2>1. /\ ~(proxies'[p].refs > 0)
        /\ \A x \in Proxies : x # p => proxies'[x].refs = proxies[x].refs /\ proxies'[x].shim = proxies[x].shim
    BY <1>f
  <2> QED
    BY <1>d, <2>1 DEF ProxiesFor
<1>7. /\ \A r \in Stubs : /\ Waits(todo, Op("release_stub", r)) \in Nat
                          /\ Waits(todo', Op("release_stub", r)) = Waits(todo, Op("release_stub", r)) + One(r = s)
                          /\ Waits(todo', Op("release_pin", r)) = Waits(todo, Op("release_pin", r))
                          /\ Waits(todo', Op("Destruct_stub", r)) = Waits(todo, Op("Destruct_stub", r))
      /\ \A x \in Proxies : /\ Waits(todo, Op("Internal_Release", x)) \in Nat
                            /\ Waits(todo', Op("Internal_Release", x)) = Waits(todo, Op("Internal_Release", x))
                                 + One(x = p)
                            /\ Waits(todo', Op("Unpin_proxy", x)) = Waits(todo, Op("Unpin_proxy", x))
                            /\ Waits(todo', Op("Destruct_proxy", x)) = Waits(todo, Op("Destruct_proxy", x))
  BY <1>3 DEF Moves, WaitsMore, One
<1>8. /\ \A x \in Proxies \cup {Object} : x # p => Waits(todo', Op("release", x)) = Waits(todo, Op("release", x))
      /\ Waits(todo, Op("release", p)) \in Nat
      /\ Waits(todo', Op("release", p)) = Waits(todo, Op("release", p)) - 1
  BY <1>3 DEF Moves, WaitsMore, One
<1>10. ObjectSum'
  <2>1. ObjectSum /\ HandsOf(Object)' = HandsOf(Object)
    BY <1>0, <1>5 DEF ShimInv, Sums, Framed
  <2>2. Waits(todo', Op("release", Object)) = Waits(todo, Op("release", Object))
    BY <1>0, <1>8
  <2> QED
    BY <1>1, <1>6, <2>1, <2>2 DEF ObjectSum
<1>11. ASSUME NEW r \in Stubs PROVE StubSum(r)'
  <2>1. ShimsAt(r)' = ShimsAt(r) /\ stubs'[r] = stubs[r]
    BY <1>a, <1>5 DEF Framed
  <2>2. CASE r # s
    BY <1>0, <1>h, <1>6, <1>7, <2>1, <2>2, StubSame DEF One
  <2>3. CASE r = s
    <3>1. StubSum(s)
      BY <1>0 DEF ShimInv, Sums
    <3>2. IsFiniteSet(ProxiesFor(s)') /\ Cardinality(ProxiesFor(s)') = Cardinality(ProxiesFor(s)) - 1
      BY <1>d, <1>h, <3>1, FS_RemoveElement DEF StubSum
    <3>3. Cardinality(ShimsAt(s)) \in Nat /\ Cardinality(ProxiesFor(s)) \in Nat
      BY <1>0, StubFacts
    <3>4. stubs'[s].refs = Cardinality(ShimsAt(s)') + Waits(todo', Op("release_stub", s))
               + Cardinality(ProxiesFor(s)')
      BY <1>7, <2>1, <2>3, <3>1, <3>2, <3>3 DEF StubSum, One
    <3> QED
      BY <1>6, <1>7, <2>1, <2>3, <3>1, <3>2, <3>4 DEF StubSum
  <2> QED
    BY <2>2, <2>3
<1>12. ASSUME NEW x \in Proxies PROVE ProxySum(x)'
  <2>1. HandsOf(x)' = HandsOf(x) /\ AddsOf(x)' = AddsOf(x) /\ WiresOf(x)' = WiresOf(x)
    BY <1>5 DEF Framed
  <2>2. CASE x # p
    BY <1>0, <1>f, <1>7, <1>8, <2>1, <2>2, ProxySame DEF One
  <2>3. CASE x = p
    <3>1. ProxySum(p) /\ proxies[p].live /\ proxies[p].ints \in Nat
      BY <1>0, ProxyFacts DEF ShimInv, Sums
    <3>2. Cardinality(HandsOf(p)) \in Nat /\ Cardinality(AddsOf(p)) \in Nat
      BY <1>0, ProxyFacts
    <3>3. proxies'[p].refs = Cardinality(HandsOf(p)') + Waits(todo', Op("release", p)) + Cardinality(AddsOf(p)')
      BY <1>f, <1>8, <2>1, <2>3, <3>1, <3>2 DEF ProxySum
    <3>4. Waits(todo', Op("Destruct_proxy", p)) = 0 /\ proxies'[p].ints # 0
      BY <1>7, <1>f, <3>1 DEF ProxySum, One
    <3>5. proxies'[p].ints = Waits(todo', Op("Internal_Release", p))
      BY <1>7, <1>f, <3>1 DEF ProxySum, One
    <3> QED
      BY <1>f, <1>7, <2>1, <2>3, <3>1, <3>3, <3>4, <3>5 DEF ProxySum, One
  <2> QED
    BY <2>2, <2>3
<1>13. Undisturbed(t, {a, b})
  <2>1. ASSUME NEW x \in Proxies, proxies'[x].refs > 0 PROVE proxies[x].refs > 0 /\ proxies'[x].shim = proxies[x].shim
    <3>1. x # p
      BY <1>f, <2>1
    <3> QED
      BY <1>f, <2>1, <3>1
  <2>2. \A y \in Proxies : proxies[y].pins > 0 => proxies'[y].shim = proxies[y].shim
    BY <1>d, <1>f
  <2>3. ASSUME NEW u \in Threads, NEW y \in Proxies, u # t, Keeps(u, y)
        PROVE  Op("release", y) \notin {a, b} /\ Op("release_stub", proxies[y].shim) \notin {a, b}
    <3>1. Op("release", y) # a /\ Op("release", y) # b /\ Op("release_stub", proxies[y].shim) # b
      BY OpsAre DEF a, b
    <3>2. /\ \A x \in Proxies : x # y /\ proxies[x].refs > 0 => proxies[x].shim # proxies[y].shim
          /\ \A j \in 1..Len(todo[t]) : Place(todo[t], j) # Op("release", y)
      BY <1>0, <2>3, KeeperFacts
    <3>3. y # p
      <4>1. Len(todo[t]) \in 1..Len(todo[t]) /\ Place(todo[t], Len(todo[t])) = Op("release", p)
        BY <1>c DEF Current
      <4> QED
        BY <3>2, <4>1
    <3>4. proxies[p].refs > 0
      OBVIOUS
    <3>5. proxies[y].shim # s
      BY <1>d, <3>2, <3>3, <3>4
    <3>6. Op("release_stub", proxies[y].shim) # a
      BY <3>5, OpsAre DEF a
    <3> QED
      BY <3>1, <3>6
  <2> QED
    BY <1>0, <1>a, <2>1, <2>2, <2>3, Undisturbing
<1>14. object' \in Int /\ stubs' \in [Stubs -> StubKind]
            /\ holders' \subseteq Modules \X (Proxies \cup {Object}) \X Stubs
  BY <1>1, <1>a DEF ShimInv, ShimTypes
<1>15. Pins'
  BY <1>6, <1>7
<1> QED
  BY <1>0, <1>2, <1>a, <1>b, <1>4, <1>5, <1>6, <1>f, <1>10, <1>11, <1>12, <1>13, <1>14, <1>15, ReleaseStep

\* The last internal reference: the proxy goes if nothing refers to it.
LEMMA InternalReleases ==
    ASSUME ShimInv, NEW t \in Threads, Internal_Release(t)
    PROVE  ShimInv'
<1> DEFINE p == Arg(t)
           c == proxies[p].ints = 1 /\ proxies[p].refs = 0 /\ proxies[p].pins = 0
           d == Op("Destruct_proxy", p)
<1>0. Now(t, "Internal_Release") /\ ~late
  BY DEF Internal_Release, Now
<1>c. Current(t, "Internal_Release")
  BY <1>0, NowIs
<1>p. p \in Proxies
  BY <1>c DEF Current, ArgsOf
<1>1. /\ Then(t, IF c THEN <<d>> ELSE <<>>) /\ object' = object
      /\ proxies' = [proxies EXCEPT ![p].ints = @ - 1]
  BY DEF Internal_Release
<1>a. stubs' = stubs /\ holders' = holders /\ shim' = shim /\ holds' = holds
  BY DEF Internal_Release
<1>b. wired' = wired /\ late' = late /\ calls' = calls
  BY DEF Internal_Release
<1>o. "Internal_Release" \in Releasing /\ d.op \in Releasing /\ d \in Ops
  BY <1>p, OpsAre, OpsOf DEF Releasing
<1>z. /\ p # Object /\ p \in Nat
  BY <1>p DEF ShimInv, ShimAssumption, Object
<1>2. /\ Stepped(t, "Internal_Release") /\ Framed /\ Grown(t, {d})
      /\ \A x \in Proxies \cup {Object} : Waits(todo', Op("release", x)) = Waits(todo, Op("release", x))
      /\ \A r \in Stubs : /\ Waits(todo', Op("release_stub", r)) = Waits(todo, Op("release_stub", r))
                          /\ Waits(todo', Op("release_pin", r)) = Waits(todo, Op("release_pin", r))
                          /\ Waits(todo', Op("Destruct_stub", r)) = Waits(todo, Op("Destruct_stub", r))
      /\ \A x \in Proxies : /\ Waits(todo, Op("Internal_Release", x)) \in Nat
                            /\ Waits(todo', Op("Internal_Release", x)) = Waits(todo, Op("Internal_Release",
                                 x)) - One(x = p)
                            /\ Waits(todo', Op("Unpin_proxy", x)) = Waits(todo, Op("Unpin_proxy", x))
                            /\ Waits(todo', Op("Destruct_proxy", x)) = Waits(todo, Op("Destruct_proxy", x))
                                 + One(x = p /\ c)
  <2>1. CASE c
    <3>1. Goes1(t, "Internal_Release", d)
      <4>1. Then(t, <<d>>)
        BY <1>1, <2>1
      <4> HIDE DEF d
      <4> QED
        BY <1>0, <1>o, <4>1, ThenGoes
    <3>2. Moves("Internal_Release", p, "Destruct_proxy", p, "none", 0)
      BY <3>1, MovesBy
    <3>3. Framed /\ Grown(t, {d}) /\ Stepped(t, "Internal_Release")
      <4> HIDE DEF d
      <4> QED
        BY <1>o, <1>a, <1>b, <3>1, GoesFramed, PlacesAre DEF Goes1
    <3> HIDE DEF p, d, c
    <3> QED
      BY <2>1, <3>2, <3>3 DEF Moves, WaitsMore, One
  <2>2. CASE ~c
    <3>1. Goes0(t, "Internal_Release")
      BY <1>0, <1>1, <2>2, ThenGoes
    <3>2. Moves("Internal_Release", p, "none", 0, "none", 0)
      BY <3>1, MovesBy
    <3>3. Framed /\ Grown(t, {}) /\ Stepped(t, "Internal_Release")
      BY <1>o, <1>a, <1>b, <3>1, GoesFramed, PlacesAre DEF Goes0
    <3>4. Grown(t, {d})
      BY <3>3 DEF Grown
    <3> HIDE DEF p, d, c
    <3> QED
      BY <2>2, <3>2, <3>3, <3>4 DEF Moves, WaitsMore, One
  <2> QED
    BY <2>1, <2>2
<1>d. /\ proxies[p].ints \in Nat /\ proxies[p].ints >= 1 /\ proxies[p].live /\ proxies[p].refs \in Nat
  <2>1. 1 <= Waits(todo, Op("Internal_Release", p))
    BY <1>c DEF Current
  <2>2. proxies[p].ints = Waits(todo, Op("Internal_Release", p))
    BY <1>0, <1>p DEF ShimInv, Sums, ProxySum
  <2>3. proxies[p].ints \in Nat /\ proxies[p].refs \in Nat /\ (proxies[p].ints > 0 => proxies[p].live)
    BY <1>0, <1>p, ProxyFacts
  <2> QED
    BY <2>1, <2>2, <2>3
<1>f. /\ proxies' \in [Proxies -> ProxyKind]
      /\ proxies'[p].refs = proxies[p].refs /\ proxies'[p].ints = proxies[p].ints - 1
      /\ proxies'[p].pins = proxies[p].pins /\ proxies'[p].shim = proxies[p].shim
      /\ proxies'[p].live = proxies[p].live
      /\ \A x \in Proxies : x # p => proxies'[x] = proxies[x]
  <2>1. /\ proxies \in [Proxies -> ProxyKind] /\ proxies[p].ints - 1 \in Int
    BY <1>p, KindsAre
  <2>2. proxies' = PutInts(proxies, p, proxies[p].ints - 1)
    BY <1>1 DEF PutInts
  <2> HIDE DEF p
  <2> QED
    BY <1>p, <2>1, <2>2, ProxyPuts
<1> HIDE DEF p, d, c
<1>g. CountedDown
  <2> SUFFICES ASSUME NEW x \in Proxies
               PROVE  /\ proxies'[x].live = proxies[x].live /\ proxies'[x].shim = proxies[x].shim
                      /\ proxies'[x].pins = proxies[x].pins
                      /\ proxies'[x].refs \in Int /\ proxies'[x].refs <= proxies[x].refs
                      /\ proxies[x].refs = 0 => proxies'[x].refs = 0
                      /\ \A u \in Threads : todo[u] # <<>> /\ Head(todo[u]) = Op("Pin", x)
                           => proxies'[x].refs = proxies[x].refs
    BY DEF CountedDown
  <2>1. proxies[x].refs \in Nat
    BY <1>0, ProxyFacts
  <2> QED
    BY <1>f, <2>1
<1>6. /\ Maps' /\ Referred' = Referred /\ Twice' = Twice
      /\ \A r : PinnedFor(r)' = PinnedFor(r)
      /\ (\A r \in Stubs : Waits(todo', Op("release_pin", r)) = Waits(todo, Op("release_pin", r))) => Pins'
      /\ \A u \in Threads : Steady(u)
  BY <1>0, <1>a, <1>g, OnlyCounted
<1>h. \A r : ProxiesFor(r)' = ProxiesFor(r)
  <2>1. \A x \in Proxies : (proxies'[x].refs > 0 <=> proxies[x].refs > 0) /\ proxies'[x].shim = proxies[x].shim
    BY <1>f
  <2> QED
    BY <2>1 DEF ProxiesFor
<1>10. ObjectSum'
  <2>1. ObjectSum /\ HandsOf(Object)' = HandsOf(Object)
    BY <1>0, <1>2 DEF ShimInv, Sums, Framed
  <2>2. Waits(todo', Op("release", Object)) = Waits(todo, Op("release", Object))
    BY <1>2
  <2> QED
    BY <1>1, <1>6, <2>1, <2>2 DEF ObjectSum
<1>11. \A r \in Stubs : StubSum(r)'
  BY <1>0, <1>a, <1>h, <1>2, <1>6, StubSame DEF Framed
<1>12. ASSUME NEW x \in Proxies PROVE ProxySum(x)'
  <2>1. HandsOf(x)' = HandsOf(x) /\ AddsOf(x)' = AddsOf(x) /\ WiresOf(x)' = WiresOf(x)
    BY <1>2 DEF Framed
  <2>2. CASE x # p
    <3>1. /\ Waits(todo', Op("Internal_Release", x)) = Waits(todo, Op("Internal_Release", x))
          /\ One(x = p /\ c) = 0
      BY <1>2, <2>2 DEF One
    <3>2. Waits(todo, Op("Destruct_proxy", x)) = 0 \/ Waits(todo, Op("Destruct_proxy", x)) = 1
      BY <1>0 DEF ShimInv, Sums, ProxySum, One
    <3>3. Waits(todo', Op("Destruct_proxy", x)) = Waits(todo, Op("Destruct_proxy", x))
      BY <1>2, <3>1, <3>2
    <3>4. Waits(todo', Op("release", x)) = Waits(todo, Op("release", x))
      BY <1>2
    <3> QED
      BY <1>0, <1>f, <1>2, <2>1, <2>2, <3>1, <3>3, <3>4, ProxySame
  <2>3. CASE x = p
    <3>1. ProxySum(p)
      BY <1>0, <1>p DEF ShimInv, Sums
    <3>2. Waits(todo', Op("release", p)) = Waits(todo, Op("release", p))
      BY <1>2, <1>p
    <3>3. proxies'[p].ints = Waits(todo', Op("Internal_Release", p))
      BY <1>p, <1>2, <1>f, <3>1 DEF ProxySum, One
    <3>4. Waits(todo, Op("Destruct_proxy", p)) = 0
      BY <1>d, <3>1 DEF ProxySum, One
    <3>5. c <=> proxies'[p].live /\ proxies'[p].refs = 0 /\ proxies'[p].pins = 0 /\ proxies'[p].ints = 0
      BY <1>d, <1>f DEF c
    <3>6. Waits(todo', Op("Destruct_proxy", p)) =
              One(proxies'[p].live /\ proxies'[p].refs = 0 /\ proxies'[p].pins = 0 /\ proxies'[p].ints = 0)
      BY <1>2, <1>p, <3>4, <3>5 DEF One
    <3>7. proxies'[p].shim \in Stubs /\ proxies'[p].live
      BY <1>d, <1>f, <3>1 DEF ProxySum
    <3>8. /\ proxies'[p].refs = Cardinality(HandsOf(p)) + Waits(todo, Op("release", p)) + Cardinality(AddsOf(p))
          /\ proxies'[p].pins = Cardinality(WiresOf(p)) + Waits(todo', Op("Unpin_proxy", p))
      BY <1>f, <1>2, <1>p, <3>1 DEF ProxySum
    <3>9. IsFiniteSet(HandsOf(p)) /\ IsFiniteSet(AddsOf(p)) /\ IsFiniteSet(WiresOf(p))
      BY <3>1 DEF ProxySum
    <3> QED
      BY <2>1, <2>3, <3>2, <3>3, <3>6, <3>7, <3>8, <3>9 DEF ProxySum
  <2> QED
    BY <2>2, <2>3
<1>13. Undisturbed(t, {d})
  <2>1. \A x \in Proxies : proxies'[x].refs > 0 => proxies[x].refs > 0 /\ proxies'[x].shim = proxies[x].shim
    BY <1>f
  <2>2. \A y \in Proxies : proxies[y].pins > 0 => proxies'[y].shim = proxies[y].shim
    BY <1>f
  <2>3. \A y : Op("release", y) \notin {d} /\ Op("release_stub", y) \notin {d}
    BY OpsAre DEF d
  <2> QED
    BY <1>0, <1>a, <2>1, <2>2, <2>3, Undisturbing
<1>14. object' \in Int /\ stubs' \in [Stubs -> StubKind]
            /\ holders' \subseteq Modules \X (Proxies \cup {Object}) \X Stubs
  BY <1>1, <1>a DEF ShimInv, ShimTypes
<1>15. Pins'
  BY <1>6, <1>2
<1> QED
  BY <1>0, <1>2, <1>a, <1>b, <1>6, <1>f, <1>10, <1>11, <1>12, <1>13, <1>14, <1>15, ReleaseStep

\* A proxy that goes is in no map and in nobody's hands.
LEMMA ProxyDestructs ==
    ASSUME ShimInv, NEW t \in Threads, Destruct_proxy(t)
    PROVE  ShimInv'
<1> DEFINE p == Arg(t)
<1>0. Now(t, "Destruct_proxy") /\ ~late
  BY DEF Destruct_proxy, Now
<1>c. Current(t, "Destruct_proxy")
  BY <1>0, NowIs
<1>p. p \in Proxies
  BY <1>c DEF Current, ArgsOf
<1>1. /\ Then(t, <<>>) /\ object' = object /\ stubs' = stubs
      /\ proxies' = PutAll(proxies, p, NoProxy) /\ holders' = {h \in holders : h[2] # p}
  BY DEF Destruct_proxy, PutAll
<1>a. shim' = shim /\ holds' = holds
  BY DEF Destruct_proxy
<1>b. wired' = wired /\ late' = late /\ calls' = calls
  BY DEF Destruct_proxy
<1>z. p # Object /\ p \in Nat
  BY <1>p DEF ShimInv, ShimAssumption, Object
<1>2. Goes0(t, "Destruct_proxy") /\ Stepped(t, "Destruct_proxy")
  BY <1>0, <1>1, ThenGoes DEF Goes0
<1>3. Moves("Destruct_proxy", p, "none", 0, "none", 0)
  BY <1>2, MovesBy
<1>4. Framed /\ Grown(t, {})
  <2>1. "Destruct_proxy" \in Releasing
    BY DEF Releasing
  <2> QED
    BY <1>2, <1>a, <1>b, <2>1, GoesFramed, PlacesAre
<1>5. /\ \A x \in Proxies \cup {Object} : Waits(todo', Op("release", x)) = Waits(todo, Op("release", x))
      /\ \A r \in Stubs : /\ Waits(todo', Op("release_stub", r)) = Waits(todo, Op("release_stub", r))
                          /\ Waits(todo', Op("release_pin", r)) = Waits(todo, Op("release_pin", r))
                          /\ Waits(todo', Op("Destruct_stub", r)) = Waits(todo, Op("Destruct_stub", r))
      /\ \A x \in Proxies : /\ Waits(todo', Op("Internal_Release", x)) = Waits(todo, Op("Internal_Release", x))
                            /\ Waits(todo', Op("Unpin_proxy", x)) = Waits(todo, Op("Unpin_proxy", x))
                            /\ Waits(todo, Op("Destruct_proxy", x)) \in Nat
                            /\ Waits(todo', Op("Destruct_proxy", x)) = Waits(todo, Op("Destruct_proxy",
                                 x)) - One(x = p)
  <2> HIDE DEF p
  <2> QED
    BY <1>3 DEF Moves, WaitsMore, One
<1>d. /\ proxies[p].live /\ proxies[p].refs = 0 /\ proxies[p].pins = 0 /\ proxies[p].ints = 0
      /\ Waits(todo, Op("Destruct_proxy", p)) = 1 /\ ProxySum(p)
  <2>1. 1 <= Waits(todo, Op("Destruct_proxy", p))
    BY <1>c DEF Current
  <2>2. ProxySum(p)
    BY <1>0, <1>p DEF ShimInv, Sums
  <2>3. Waits(todo, Op("Destruct_proxy", p)) = One(proxies[p].live /\ proxies[p].refs = 0 /\ proxies[p].pins = 0
             /\ proxies[p].ints = 0)
    BY <2>2 DEF ProxySum
  <2> HIDE DEF p
  <2> QED
    BY <2>1, <2>2, <2>3 DEF One
<1> HIDE DEF p
<1>f. /\ proxies' \in [Proxies -> ProxyKind] /\ proxies'[p] = NoProxy
      /\ \A x \in Proxies : x # p => proxies'[x] = proxies[x]
  <2>1. NoProxy \in ProxyKind
    BY DEF NoProxy, ProxyKind
  <2> QED
    BY <1>1, <1>p, <2>1, KindsAre, AllPuts
<1>e. /\ proxies'[p].refs = 0 /\ proxies'[p].pins = 0 /\ proxies'[p].ints = 0 /\ proxies'[p].live = FALSE
  BY <1>f DEF NoProxy
<1>6. /\ Referred' = Referred /\ Twice' = Twice
      /\ \A r : ProxiesFor(r)' = ProxiesFor(r) /\ PinnedFor(r)' = PinnedFor(r)
  <2>1. Referred' = Referred /\ Twice' = Twice
    BY <1>1 DEF Referred, Twice
  <2>2. \A x \in Proxies : /\ (proxies'[x].refs > 0 <=> proxies[x].refs > 0)
                           /\ (proxies'[x].pins > 0 <=> proxies[x].pins > 0)
                           /\ proxies[x].refs > 0 \/ proxies[x].pins > 0 => proxies'[x].shim = proxies[x].shim
    BY <1>d, <1>e, <1>f
  <2> QED
    BY <2>1, <2>2 DEF ProxiesFor, PinnedFor
<1>g. \A m, x, r : <<m, x, r>> \in holders' <=> <<m, x, r>> \in holders /\ x # p
  BY <1>1
<1>i. /\ \A r : IsListed(r)' <=> IsListed(r)
      /\ \A x : IsShared(x)' => IsShared(x)
      /\ \A r : Private(r)' <=> Private(r)
  <2>1. \A r : IsListed(r)' <=> IsListed(r)
    BY <1>g, <1>z DEF IsListed
  <2> QED
    BY <1>1, <1>g, <2>1 DEF IsShared, Private
<1>7. Maps'
  <2>1. ASSUME NEW m \in Modules, NEW x \in Proxies \cup {Object}, NEW r \in Stubs, <<m, x, r>> \in holders'
        PROVE  IF x = Object THEN m = Home /\ stubs'[r].live
               ELSE m # Home /\ proxies'[x].live /\ proxies'[x].shim = r
    <3>1. <<m, x, r>> \in holders /\ x # p
      BY <1>g, <2>1
    <3>2. IF x = Object THEN m = Home /\ stubs[r].live ELSE m # Home /\ proxies[x].live /\ proxies[x].shim = r
      BY <1>0, <3>1 DEF ShimInv, Maps
    <3> QED
      BY <1>1, <1>f, <3>1, <3>2
  <2>2. \A r, z \in Stubs : IsListed(r)' /\ IsListed(z)' => r = z
    BY <1>0, <1>i DEF ShimInv, Maps
  <2>3. \A m \in Modules, x, y \in Proxies, r \in Stubs :
            <<m, x, r>> \in holders' /\ <<m, y, r>> \in holders' => x = y
    BY <1>0, <1>g DEF ShimInv, Maps
  <2> QED
    BY <2>1, <2>2, <2>3 DEF Maps
<1>8. Pins'
  <2>1. ASSUME NEW x \in Proxies, proxies'[x].pins > 0
        PROVE  proxies'[x].refs <= 1 /\ <<Home, Object, proxies'[x].shim>> \notin holders' /\ ~IsShared(x)'
    <3>1. x # p /\ proxies'[x] = proxies[x]
      BY <1>e, <1>f, <2>1
    <3>2. proxies[x].refs <= 1 /\ ~IsListed(proxies[x].shim) /\ ~IsShared(x)
      BY <1>0, <2>1, <3>1 DEF ShimInv, Pins
    <3> QED
      BY <1>g, <1>i, <3>1, <3>2 DEF IsListed
  <2>2. \A r \in Stubs : stubs'[r].pins > 0 => stubs'[r].refs <= 2
    BY <1>0, <1>1 DEF ShimInv, Pins
  <2>3. \A r \in Stubs : Waits(todo', Op("release_pin", r)) > 0 => stubs'[r].refs = 0
    BY <1>0, <1>1, <1>5 DEF ShimInv, Pins
  <2> QED
    BY <2>1, <2>2, <2>3 DEF Pins, IsListed
<1>9. ASSUME NEW u \in Threads PROVE Steady(u)
  <2>1. \A x \in Proxies : proxies[x].refs > 0 => proxies[x].live
    BY <1>0, ProxyFacts
  <2>2. ASSUME NEW x \in Proxies, NEW r \in Stubs,
               todo[u] # <<>>, Head(todo[u]) = Op("Pin", x), proxies[x].shim = r
        PROVE  /\ stubs'[r].refs = 2 /\ stubs'[r].pins = 0 /\ ~IsListed(r)'
               /\ proxies'[x].refs = 1 /\ proxies'[x].pins = 0 /\ ~IsShared(x)'
    <3>1. /\ stubs[r].refs = 2 /\ stubs[r].pins = 0 /\ ~IsListed(r)
          /\ proxies[x].refs = 1 /\ proxies[x].pins = 0 /\ ~IsShared(x)
      BY <1>0, <2>2, PinAhead
    <3>2. x # p
      BY <1>d, <3>1
    <3> QED
      BY <1>1, <1>f, <1>i, <3>1, <3>2
  <2>3. \A x \in Proxies : proxies[x].refs = 0 => proxies'[x].refs = 0
    BY <1>e, <1>f
  <2>4. \A x \in Proxies : proxies[x].refs > 0 => proxies'[x].shim = proxies[x].shim /\ proxies'[x].live
    BY <1>d, <1>f, <2>1
  <2>5. \A x \in Proxies : proxies[x].pins = 0 => proxies'[x].pins = 0
    BY <1>e, <1>f
  <2>6. \A m \in Modules, x \in Proxies, r \in Stubs :
            proxies[x].refs > 0 /\ stubs[r].refs > 0 /\ <<m, x, r>> \in holders => <<m, x, r>> \in holders'
    BY <1>d, <1>g
  <2> QED
    BY <1>1, <1>i, <2>2, <2>3, <2>4, <2>5, <2>6 DEF Steady
<1>10. ObjectSum'
  <2>1. ObjectSum /\ HandsOf(Object)' = HandsOf(Object)
    BY <1>0, <1>4 DEF ShimInv, Sums, Framed
  <2>2. Waits(todo', Op("release", Object)) = Waits(todo, Op("release", Object))
    BY <1>5
  <2> QED
    BY <1>1, <1>6, <2>1, <2>2 DEF ObjectSum
<1>11. \A r \in Stubs : StubSum(r)'
  BY <1>0, <1>1, <1>4, <1>5, <1>6, StubSame DEF Framed
<1>12. ASSUME NEW x \in Proxies PROVE ProxySum(x)'
  <2>1. HandsOf(x)' = HandsOf(x) /\ AddsOf(x)' = AddsOf(x) /\ WiresOf(x)' = WiresOf(x)
    BY <1>4 DEF Framed
  <2>2. CASE x # p
    <3>1. Waits(todo', Op("Destruct_proxy", x)) = Waits(todo, Op("Destruct_proxy", x))
      BY <1>5, <2>2 DEF One
    <3> QED
      BY <1>0, <1>f, <1>5, <2>1, <2>2, <3>1, ProxySame
  <2>3. CASE x = p
    <3>1. Waits(todo', Op("Destruct_proxy", p)) = 0
      BY <1>5, <1>p, <1>d DEF One
    <3> QED
      BY <1>d, <1>e, <1>f, <1>5, <1>p, <2>1, <2>3, <3>1 DEF ProxySum, One
  <2> QED
    BY <2>2, <2>3
<1>13. Undisturbed(t, {})
  <2>1. \A x \in Proxies : proxies'[x].refs > 0 => proxies[x].refs > 0 /\ proxies'[x].shim = proxies[x].shim
    BY <1>e, <1>f
  <2>2. \A y \in Proxies : proxies[y].pins > 0 => proxies'[y].shim = proxies[y].shim
    BY <1>d, <1>f
  <2> QED
    BY <1>0, <1>a, <2>1, <2>2, Undisturbing
<1>14. object' \in Int /\ stubs' \in [Stubs -> StubKind]
            /\ holders' \subseteq Modules \X (Proxies \cup {Object}) \X Stubs
  BY <1>1, <1>a DEF ShimInv, ShimTypes
<1> QED
  BY <1>0, <1>2, <1>a, <1>b, <1>4, <1>7, <1>8, <1>9, <1>f, <1>10, <1>11, <1>12, <1>13, <1>14, ReleaseStep

\* A step that counts one stub.
LEMMA StubChanged ==
    ASSUME ShimInv, ~late, NEW s \in Stubs, UNCHANGED <<proxies, holders>>,
           \A r \in Stubs : r # s => stubs'[r] = stubs[r],
           stubs'[s].live = stubs[s].live, stubs[s].refs = 0 => stubs'[s].refs = 0,
           \A u \in ShimsAt(s) : ~Private(s),
           \A u \in Threads : \A p \in Proxies : todo[u] # <<>> /\ Head(todo[u]) = Op("Pin", p)
                => proxies[p].shim # s,
           stubs'[s].pins > 0 => stubs'[s].refs <= 2
    PROVE  /\ Maps'
           /\ \A r : ProxiesFor(r)' = ProxiesFor(r) /\ PinnedFor(r)' = PinnedFor(r)
           /\ (\A r \in Stubs : Waits(todo', Op("release_pin", r)) > 0 => stubs'[r].refs = 0) => Pins'
           /\ \A u \in Threads : Steady(u)
<1>0. proxies' = proxies /\ holders' = holders
  OBVIOUS
<1>1. \A r : ProxiesFor(r)' = ProxiesFor(r) /\ PinnedFor(r)' = PinnedFor(r)
  BY <1>0 DEF ProxiesFor, PinnedFor
<1>2. (\A r : IsListed(r)' <=> IsListed(r)) /\ (\A x : IsShared(x)' <=> IsShared(x))
  BY <1>0 DEF IsListed, IsShared
<1>3. Maps /\ Pins
  BY DEF ShimInv
<1>4. Maps'
  <2>1. \A m \in Modules, x \in Proxies \cup {Object}, r \in Stubs : <<m, x, r>> \in holders' =>
            IF x = Object THEN m = Home /\ stubs'[r].live ELSE m # Home /\ proxies'[x].live /\ proxies'[x].shim = r
    <3>1. \A r \in Stubs : stubs'[r].live = stubs[r].live
      OBVIOUS
    <3> QED
      BY <1>0, <1>3, <3>1 DEF Maps
  <2>2. \A r, z \in Stubs : IsListed(r)' /\ IsListed(z)' => r = z
    BY <1>2, <1>3 DEF Maps
  <2>3. \A m \in Modules, x, y \in Proxies, r \in Stubs :
            <<m, x, r>> \in holders' /\ <<m, y, r>> \in holders' => x = y
    BY <1>0, <1>3 DEF Maps
  <2> QED
    BY <2>1, <2>2, <2>3 DEF Maps
<1>5. ASSUME \A r \in Stubs : Waits(todo', Op("release_pin", r)) > 0 => stubs'[r].refs = 0
      PROVE  Pins'
  <2>1. \A x \in Proxies : proxies'[x].pins > 0 =>
            proxies'[x].refs <= 1 /\ <<Home, Object, proxies'[x].shim>> \notin holders' /\ ~IsShared(x)'
    BY <1>0, <1>2, <1>3 DEF Pins, IsListed
  <2>2. \A r \in Stubs : stubs'[r].pins > 0 => stubs'[r].refs <= 2
    BY <1>3 DEF Pins
  <2> QED
    BY <1>5, <2>1, <2>2 DEF Pins, IsListed
<1>6. ASSUME NEW u \in Threads PROVE Steady(u)
  <2>1. \A x \in Proxies : proxies[x].refs > 0 => proxies[x].live
    BY ProxyFacts
  <2>2. ASSUME NEW x \in Proxies, NEW r \in Stubs,
               todo[u] # <<>>, Head(todo[u]) = Op("Pin", x), proxies[x].shim = r
        PROVE  /\ stubs'[r].refs = 2 /\ stubs'[r].pins = 0 /\ ~IsListed(r)'
               /\ proxies'[x].refs = 1 /\ proxies'[x].pins = 0 /\ ~IsShared(x)'
    <3>1. /\ stubs[r].refs = 2 /\ stubs[r].pins = 0 /\ ~IsListed(r)
          /\ proxies[x].refs = 1 /\ proxies[x].pins = 0 /\ ~IsShared(x)
      BY <2>2, PinAhead
    <3>2. r # s
      BY <2>2
    <3> QED
      BY <1>0, <1>2, <3>1, <3>2
  <2>3. ASSUME NEW r \in Stubs, u \in ShimsAt(r), Private(r) PROVE Private(r)'
    <3>1. r # s
      BY <2>3
    <3> QED
      BY <1>2, <2>3, <3>1 DEF Private
  <2>4. \A r \in Stubs : stubs[r].refs = 0 => stubs'[r].refs = 0
    OBVIOUS
  <2> QED
    BY <1>0, <1>2, <2>1, <2>2, <2>3, <2>4 DEF Steady
<1> QED
  BY <1>1, <1>4, <1>5, <1>6

\* A stub of which a reference is to be released is in no thread's hands alone.
LEMMA StubReleased ==
    ASSUME ShimInv, ~late, NEW s \in Stubs, Waits(todo, Op("release_stub", s)) >= 1
    PROVE  /\ \A u \in ShimsAt(s) : ~Private(s)
           /\ \A u \in Threads : \A p \in Proxies :
                  todo[u] # <<>> /\ Head(todo[u]) = Op("Pin", p) => proxies[p].shim # s
           /\ stubs[s].refs >= 1 /\ stubs[s].live
<1>1. ASSUME NEW u \in ShimsAt(s), Private(s) PROVE FALSE
  <2>1. stubs[s].refs = 1
    BY <1>1 DEF Private
  <2>2. Waits(todo, Op("release_stub", s)) = 0
    BY <2>1, Alone
  <2> QED
    BY <2>2
<1>2. ASSUME NEW u \in Threads, NEW p \in Proxies, todo[u] # <<>>, Head(todo[u]) = Op("Pin", p), proxies[p].shim = s
      PROVE  FALSE
  <2>1. Waits(todo, Op("release_stub", s)) = 0
    BY <1>2, PinAhead
  <2> QED
    BY <2>1
<1>3. stubs[s].refs >= 1 /\ stubs[s].live
  <2>1. /\ Cardinality(ShimsAt(s)) \in Nat /\ Cardinality(ProxiesFor(s)) \in Nat
        /\ Waits(todo, Op("release_stub", s)) \in Nat
        /\ stubs[s].refs = Cardinality(ShimsAt(s)) + Waits(todo, Op("release_stub", s)) + Cardinality(ProxiesFor(s))
        /\ stubs[s].refs > 0 => stubs[s].live
    BY StubFacts
  <2>2. stubs[s].refs >= 1
    BY <2>1
  <2>3. stubs[s].refs > 0
    BY <2>1, <2>2
  <2> QED
    BY <2>1, <2>2, <2>3
<1> QED
  BY <1>1, <1>2, <1>3

\* Of a stub's references the last gives way to the object's and to a pin, another to
\* the object's if the stub is pinned.
ReleasesOf(s) == {Op("release", Object), Op("release_pin", s)}
StubGoes(t, s, more, last) ==
    /\ Stepped(t, "release_stub") /\ Framed /\ Grown(t, ReleasesOf(s))
    /\ Waits(todo, Op("release", Object)) \in Nat
    /\ Waits(todo', Op("release", Object)) = Waits(todo, Op("release", Object)) + One(more)
    /\ \A x \in Proxies : Waits(todo', Op("release", x)) = Waits(todo, Op("release", x))
    /\ \A r \in Stubs : /\ Waits(todo, Op("release_stub", r)) \in Nat /\ Waits(todo, Op("release_pin", r)) \in Nat
                        /\ Waits(todo', Op("release_stub", r)) = Waits(todo, Op("release_stub", r)) - One(r = s)
                        /\ Waits(todo', Op("release_pin", r)) = Waits(todo, Op("release_pin", r)) + One(r = s /\ last)
                        /\ Waits(todo', Op("Destruct_stub", r)) = Waits(todo, Op("Destruct_stub", r))
    /\ \A x \in Proxies : /\ Waits(todo', Op("Internal_Release", x)) = Waits(todo, Op("Internal_Release", x))
                          /\ Waits(todo', Op("Unpin_proxy", x)) = Waits(todo, Op("Unpin_proxy", x))
                          /\ Waits(todo', Op("Destruct_proxy", x)) = Waits(todo, Op("Destruct_proxy", x))

\* What a stub's release brings about.
LEMMA StubGoesOn ==
    ASSUME ShimInv, NEW t \in Threads, release_stub(t), NEW s \in Stubs, Arg(t) = s
    PROVE  StubGoes(t, s, stubs[s].refs = 1 \/ stubs[s].pins # 0, stubs[s].refs = 1)
<1> DEFINE last == stubs[s].refs = 1
           more == last \/ stubs[s].pins # 0
           a == Op("release", Object)
           b == Op("release_pin", s)
<1>0. Now(t, "release_stub")
  BY DEF release_stub
<1>1. Then(t, IF last THEN <<a, b>> ELSE IF stubs[s].pins # 0 THEN <<a>> ELSE <<>>)
  BY DEF release_stub
<1>a. shim' = shim /\ holds' = holds /\ wired' = wired
  BY DEF release_stub
<1>o. "release_stub" \in Releasing /\ a \in Ops /\ b \in Ops /\ a.op \in Releasing /\ b.op \in Releasing
  BY OpsOf, OpsAre DEF Releasing
<1>z. \A x \in Proxies : x # Object
  BY DEF ShimInv, ShimAssumption, Object
<1> HIDE DEF a, b
<1>2. CASE last
  <2>1. Then(t, <<a, b>>)
    BY <1>1, <1>2
  <2>2. Goes2(t, "release_stub", a, b)
    BY <1>0, <1>o, <2>1, ThenGoes
  <2>3. Moves("release_stub", s, "release", Object, "release_pin", s)
    BY <2>2, MovesBy DEF a, b
  <2>4. Framed /\ Grown(t, {a, b}) /\ Stepped(t, "release_stub")
    BY <1>o, <1>a, <2>2, GoesFramed, PlacesAre DEF Goes2
  <2>5. Grown(t, ReleasesOf(s))
    BY <2>4 DEF ReleasesOf, a, b
  <2> HIDE DEF last
  <2>6. (more <=> TRUE) /\ (last <=> TRUE)
    BY <1>2
  <2> HIDE DEF more
  <2>7. StubGoes(t, s, more, last)
    BY <1>z, <2>3, <2>4, <2>5, <2>6 DEF Moves, WaitsMore, One, StubGoes
  <2> QED
    BY <2>7 DEF more, last
<1>3. CASE ~last /\ more
  <2>1. Then(t, <<a>>)
    BY <1>1, <1>3
  <2>2. Goes1(t, "release_stub", a)
    BY <1>0, <1>o, <2>1, ThenGoes
  <2>3. Moves("release_stub", s, "release", Object, "none", 0)
    BY <2>2, MovesBy DEF a
  <2>4. Framed /\ Grown(t, {a}) /\ Stepped(t, "release_stub")
    BY <1>o, <1>a, <2>2, GoesFramed, PlacesAre DEF Goes1
  <2>5. Grown(t, ReleasesOf(s))
    BY <2>4 DEF ReleasesOf, a, Grown
  <2> HIDE DEF last, more
  <2>7. StubGoes(t, s, more, last)
    BY <1>z, <1>3, <2>3, <2>4, <2>5 DEF Moves, WaitsMore, One, StubGoes
  <2> QED
    BY <2>7 DEF more, last
<1>4. CASE ~more
  <2>1. Then(t, <<>>)
    BY <1>1, <1>4
  <2>2. Goes0(t, "release_stub")
    BY <1>0, <2>1, ThenGoes
  <2>3. Moves("release_stub", s, "none", 0, "none", 0)
    BY <2>2, MovesBy
  <2>4. Framed /\ Grown(t, {}) /\ Stepped(t, "release_stub")
    BY <1>o, <1>a, <2>2, GoesFramed, PlacesAre DEF Goes0
  <2>5. Grown(t, ReleasesOf(s))
    BY <2>4 DEF Grown
  <2>6. ~last
    BY <1>4
  <2> HIDE DEF last, more
  <2>7. StubGoes(t, s, more, last)
    BY <1>z, <1>4, <2>3, <2>4, <2>5, <2>6 DEF Moves, WaitsMore, One, StubGoes
  <2> QED
    BY <2>7 DEF more, last
<1> QED
  BY <1>2, <1>3, <1>4

\* A reference to a stub is given up, and with the last one that to the object.
LEMMA StubReleases ==
    ASSUME ShimInv, NEW t \in Threads, release_stub(t)
    PROVE  ShimInv'
<1>0. Now(t, "release_stub") /\ ~late
  BY DEF release_stub, Now
<1>c. Current(t, "release_stub")
  BY <1>0, NowIs
<1>s. PICK s \in Stubs : s = Arg(t)
  BY <1>c DEF Current, ArgsOf
<1> DEFINE last == stubs[s].refs = 1
           more == last \/ stubs[s].pins # 0
<1>1. /\ object' = object /\ proxies' = proxies /\ holders' = holders
      /\ stubs' = [stubs EXCEPT ![s].refs = @ - 1, ![s].pins = @ + One(last)]
  BY <1>s DEF release_stub, One
<1>a. shim' = shim /\ holds' = holds
  BY DEF release_stub
<1>b. wired' = wired /\ late' = late /\ calls' = calls
  BY DEF release_stub
<1>2. StubGoes(t, s, more, last)
  BY <1>s, StubGoesOn
<1>d. /\ Waits(todo, Op("release_stub", s)) >= 1
      /\ stubs[s].refs \in Nat /\ stubs[s].pins \in Nat /\ stubs[s].refs >= 1 /\ stubs[s].live
      /\ \A u \in ShimsAt(s) : ~Private(s)
      /\ \A u \in Threads : \A p \in Proxies :
             todo[u] # <<>> /\ Head(todo[u]) = Op("Pin", p) => proxies[p].shim # s
  <2>1. 1 <= Waits(todo, Op("release_stub", s)) /\ Waits(todo, Op("release_stub", s)) \in Nat
    BY <1>0, <1>c, <1>s, StubFacts DEF Current
  <2>2. Waits(todo, Op("release_stub", s)) >= 1
    BY <2>1
  <2> QED
    BY <1>0, <2>2, StubReleased, StubFacts
<1>f. /\ stubs' \in [Stubs -> StubKind]
      /\ stubs'[s].refs = stubs[s].refs - 1 /\ stubs'[s].pins = stubs[s].pins + One(last)
      /\ stubs'[s].live = stubs[s].live
      /\ \A r \in Stubs : r # s => stubs'[r] = stubs[r]
  <2> DEFINE f == PutRefs(stubs, s, stubs[s].refs - 1)
  <2>1. stubs \in [Stubs -> StubKind] /\ stubs[s].refs - 1 \in Int /\ stubs[s].pins + One(last) \in Int
    BY <1>d, KindsAre DEF One
  <2>2. /\ f \in [Stubs -> StubKind] /\ f[s].refs = stubs[s].refs - 1 /\ f[s].pins = stubs[s].pins
        /\ f[s].live = stubs[s].live /\ \A x \in Stubs : x # s => f[x] = stubs[x]
    BY <2>1, StubPuts
  <2>3. stubs' = PutPins(f, s, f[s].pins + One(last))
    BY <1>1 DEF PutRefs, PutPins
  <2> HIDE DEF f, last
  <2>4. f[s].pins + One(last) \in Int
    BY <2>1, <2>2
  <2> QED
    BY <2>2, <2>3, <2>4, StubPuts
<1>e. stubs[s].pins > 0 => stubs[s].refs <= 2
  BY <1>0 DEF ShimInv, Pins
<1>g. /\ last => One(last) = 1 /\ stubs'[s].refs = 0 /\ stubs'[s].pins = stubs[s].pins + 1
      /\ ~last => One(last) = 0 /\ stubs'[s].refs >= 1 /\ stubs'[s].pins = stubs[s].pins
      /\ stubs'[s].refs \in Nat /\ stubs'[s].pins \in Nat
  BY <1>d, <1>f DEF One
<1>h. Waits(todo, Op("release_pin", s)) > 0 => stubs[s].refs = 0
  BY <1>0 DEF ShimInv, Pins
<1>6. /\ Maps'
      /\ \A r : ProxiesFor(r)' = ProxiesFor(r) /\ PinnedFor(r)' = PinnedFor(r)
      /\ (\A r \in Stubs : Waits(todo', Op("release_pin", r)) > 0 => stubs'[r].refs = 0) => Pins'
      /\ \A u \in Threads : Steady(u)
  <2>1. stubs[s].refs = 0 => stubs'[s].refs = 0
    BY <1>d
  <2>2. stubs'[s].pins > 0 => stubs'[s].refs <= 2
    <3>1. CASE last
      BY <1>g, <3>1
    <3>2. CASE ~last
      <4>1. stubs'[s].pins = stubs[s].pins /\ stubs'[s].refs = stubs[s].refs - 1
        BY <1>f, <1>g, <3>2
      <4> QED
        BY <1>d, <1>e, <4>1
    <3> QED
      BY <3>1, <3>2
  <2>3. \A r \in Stubs : r # s => stubs'[r] = stubs[r]
    BY <1>f
  <2> QED
    BY <1>0, <1>1, <1>d, <1>f, <2>1, <2>2, <2>3, StubChanged
<1>7. Pins'
  <2>1. ASSUME NEW r \in Stubs, Waits(todo', Op("release_pin", r)) > 0 PROVE stubs'[r].refs = 0
    <3>1. CASE r # s
      <4>1. Waits(todo', Op("release_pin", r)) = Waits(todo, Op("release_pin", r))
        BY <1>2, <3>1 DEF StubGoes, One
      <4> QED
        BY <1>0, <1>f, <2>1, <3>1, <4>1 DEF ShimInv, Pins
    <3>2. CASE r = s
      <4>1. CASE last
        BY <1>g, <3>2, <4>1
      <4>2. CASE ~last
        <5>1. Waits(todo', Op("release_pin", s)) = Waits(todo, Op("release_pin", s))
          BY <1>2, <4>2 DEF StubGoes, One
        <5>2. stubs[s].refs = 0
          BY <1>h, <2>1, <3>2, <5>1
        <5> QED
          BY <1>d, <5>2
      <4> QED
        BY <4>1, <4>2
    <3> QED
      BY <3>1, <3>2
  <2> QED
    BY <1>6, <2>1
<1>8. /\ IsFiniteSet(Referred') /\ IsFiniteSet(Twice') /\ Cardinality(Referred') \in Nat
           /\ Cardinality(Twice') \in Nat
      /\ Cardinality(Referred') + Cardinality(Twice') = Cardinality(Referred) + Cardinality(Twice) - One(more)
  <2>1. /\ IsFiniteSet(Referred) /\ IsFiniteSet(Twice) /\ Cardinality(Referred) \in Nat /\ Cardinality(Twice) \in Nat
    BY <1>0, FS_CardinalityType DEF ShimInv, Sums, ObjectSum
  <2>2. /\ Referred' \ {s} = Referred \ {s} /\ Twice' \ {s} = Twice \ {s}
        /\ s \in Referred
        /\ s \in Twice <=> stubs[s].refs = 2 /\ stubs[s].pins > 0
        /\ s \in Referred' <=> stubs'[s].refs > 0
        /\ s \in Twice' <=> stubs'[s].refs = 2 /\ stubs'[s].pins > 0
    BY <1>d, <1>f DEF Referred, Twice
  <2>3. /\ IsFiniteSet(Referred') /\ Cardinality(Referred') \in Nat
        /\ Cardinality(Referred') = Cardinality(Referred) - One(s \in Referred) + One(s \in Referred')
    BY <2>1, <2>2, OneChanges
  <2>4. /\ IsFiniteSet(Twice') /\ Cardinality(Twice') \in Nat
        /\ Cardinality(Twice') = Cardinality(Twice) - One(s \in Twice) + One(s \in Twice')
    BY <2>1, <2>2, OneChanges
  <2>5. CASE last
    <3>1. s \notin Referred' /\ s \notin Twice /\ s \notin Twice'
      BY <1>g, <2>2, <2>5
    <3> QED
      BY <2>1, <2>2, <2>3, <2>4, <2>5, <3>1 DEF One
  <2>6. CASE ~last /\ stubs[s].pins # 0
    <3>0. stubs[s].refs = 2 /\ stubs[s].pins > 0
      BY <1>d, <1>e, <2>6
    <3>1. s \in Referred' /\ s \in Twice /\ s \notin Twice'
      BY <1>f, <1>g, <2>2, <2>6, <3>0
    <3> QED
      BY <2>1, <2>2, <2>3, <2>4, <2>6, <3>1 DEF One
  <2>7. CASE ~more
    <3>1. s \in Referred' /\ s \notin Twice /\ s \notin Twice'
      BY <1>f, <1>g, <2>2, <2>7
    <3> QED
      BY <2>1, <2>2, <2>3, <2>4, <2>7, <3>1 DEF One
  <2> QED
    BY <2>5, <2>6, <2>7
<1> HIDE DEF more
<1>10. ObjectSum'
  <2>1. ObjectSum /\ HandsOf(Object)' = HandsOf(Object) /\ object \in Int
    BY <1>0, <1>2 DEF ShimInv, Sums, Framed, ShimTypes, StubGoes
  <2>2. Cardinality(HandsOf(Object)) \in Nat /\ Cardinality(Referred) \in Nat /\ Cardinality(Twice) \in Nat
    BY <2>1, FS_CardinalityType DEF ObjectSum
  <2>3. /\ Waits(todo, Op("release", Object)) \in Nat
        /\ Waits(todo', Op("release", Object)) = Waits(todo, Op("release", Object)) + One(more)
    BY <1>2 DEF StubGoes
  <2>4. One(more) \in Nat
    BY DEF One
  <2> QED
    BY <1>1, <1>8, <2>1, <2>2, <2>3, <2>4 DEF ObjectSum
<1>11. ASSUME NEW r \in Stubs PROVE StubSum(r)'
  <2>1. ShimsAt(r)' = ShimsAt(r)
    BY <1>2 DEF Framed, StubGoes
  <2>2. CASE r # s
    <3>1. /\ Waits(todo', Op("release_stub", r)) = Waits(todo, Op("release_stub", r))
          /\ Waits(todo', Op("release_pin", r)) = Waits(todo, Op("release_pin", r))
          /\ Waits(todo', Op("Destruct_stub", r)) = Waits(todo, Op("Destruct_stub", r))
      BY <1>2, <2>2 DEF StubGoes, One
    <3> QED
      BY <1>0, <1>f, <1>6, <2>1, <2>2, <3>1, StubSame
  <2>3. CASE r = s
    <3>1. StubSum(s)
      BY <1>0 DEF ShimInv, Sums
    <3>2. /\ Cardinality(ShimsAt(s)) \in Nat /\ Cardinality(ProxiesFor(s)) \in Nat
               /\ Cardinality(PinnedFor(s)) \in Nat
          /\ Waits(todo, Op("release_stub", s)) \in Nat /\ Waits(todo, Op("release_pin", s)) \in Nat
      BY <1>0, StubFacts
    <3>3. /\ Waits(todo', Op("release_stub", s)) = Waits(todo, Op("release_stub", s)) - 1
          /\ Waits(todo', Op("release_pin", s)) = Waits(todo, Op("release_pin", s)) + One(last)
          /\ Waits(todo', Op("Destruct_stub", s)) = Waits(todo, Op("Destruct_stub", s))
      BY <1>2 DEF StubGoes, One
    <3>4. Waits(todo', Op("Destruct_stub", s)) = 0 /\ (stubs'[s].refs # 0 \/ stubs'[s].pins # 0)
      BY <1>d, <1>g, <3>1, <3>3 DEF StubSum, One
    <3>5. stubs'[s].refs = Cardinality(ShimsAt(s)) + Waits(todo', Op("release_stub", s)) + Cardinality(ProxiesFor(s))
      <4>1. stubs[s].refs = Cardinality(ShimsAt(s)) + Waits(todo, Op("release_stub", s)) + Cardinality(ProxiesFor(s))
        BY <3>1 DEF StubSum
      <4>2. stubs'[s].refs = stubs[s].refs - 1
        BY <1>f
      <4> QED
        BY <3>2, <3>3, <4>1, <4>2
    <3>7. stubs'[s].pins = Waits(todo', Op("release_pin", s)) + Cardinality(PinnedFor(s))
      <4>1. stubs[s].pins = Waits(todo, Op("release_pin", s)) + Cardinality(PinnedFor(s))
        BY <3>1 DEF StubSum
      <4>2. stubs'[s].pins = stubs[s].pins + One(last) /\ One(last) \in Nat
        BY <1>f DEF One
      <4> HIDE DEF last
      <4> QED
        BY <3>2, <3>3, <4>1, <4>2
    <3>6. stubs'[s].live
      BY <1>d, <1>f
    <3> QED
      BY <1>6, <2>1, <2>3, <3>1, <3>4, <3>5, <3>6, <3>7 DEF StubSum, One
  <2> QED
    BY <2>2, <2>3
<1>12. \A x \in Proxies : ProxySum(x)'
  BY <1>0, <1>1, <1>2, ProxySame DEF Framed, StubGoes
<1>13. Undisturbed(t, ReleasesOf(s))
  <2>1. \A x \in Proxies : proxies'[x].refs > 0 => proxies[x].refs > 0 /\ proxies'[x].shim = proxies[x].shim
    BY <1>1
  <2>2. \A y \in Proxies : proxies[y].pins > 0 => proxies'[y].shim = proxies[y].shim
    BY <1>1
  <2>3. \A y \in Proxies : \A z : Op("release", y) \notin ReleasesOf(s) /\ Op("release_stub", z) \notin ReleasesOf(s)
    <3>1. \A y \in Proxies : y # Object
      BY DEF ShimInv, ShimAssumption, Object
    <3> QED
      BY <3>1, OpsAre DEF ReleasesOf
  <2> QED
    BY <1>0, <1>a, <2>1, <2>2, <2>3, Undisturbing
<1>14. object' \in Int /\ proxies' \in [Proxies -> ProxyKind]
            /\ holders' \subseteq Modules \X (Proxies \cup {Object}) \X Stubs
  BY <1>1 DEF ShimInv, ShimTypes
<1>15. Stepped(t, "release_stub") /\ Framed /\ Grown(t, ReleasesOf(s))
  BY <1>2 DEF StubGoes
<1> QED
  BY <1>0, <1>15, <1>a, <1>b, <1>6, <1>7, <1>f, <1>10, <1>11, <1>12, <1>13, <1>14, ReleaseStep

\* The pin of a stub's last release is given up.
LEMMA PinReleases ==
    ASSUME ShimInv, NEW t \in Threads, release_pin(t)
    PROVE  ShimInv'
<1>0. Now(t, "release_pin") /\ ~late
  BY DEF release_pin, Now
<1>c. Current(t, "release_pin")
  BY <1>0, NowIs
<1>s. PICK s \in Stubs : s = Arg(t)
  BY <1>c DEF Current, ArgsOf
<1> DEFINE c == stubs[s].pins = 1
           d == Op("Destruct_stub", s)
<1>1. /\ object' = object /\ proxies' = proxies /\ holders' = holders
      /\ stubs' = PutPins(stubs, s, stubs[s].pins - 1) /\ Then(t, IF c THEN <<d>> ELSE <<>>)
  BY <1>s DEF release_pin, PutPins
<1>a. shim' = shim /\ holds' = holds
  BY DEF release_pin
<1>b. wired' = wired /\ late' = late /\ calls' = calls
  BY DEF release_pin
<1>o. "release_pin" \in Releasing /\ d.op \in Releasing /\ d \in Ops
  BY OpsAre, OpsOf DEF Releasing
<1>2. /\ Stepped(t, "release_pin") /\ Framed /\ Grown(t, {d})
      /\ \A x \in Proxies \cup {Object} : Waits(todo', Op("release", x)) = Waits(todo, Op("release", x))
      /\ \A r \in Stubs : /\ Waits(todo, Op("release_pin", r)) \in Nat
                          /\ Waits(todo', Op("release_stub", r)) = Waits(todo, Op("release_stub", r))
                          /\ Waits(todo', Op("release_pin", r)) = Waits(todo, Op("release_pin", r)) - One(r = s)
                          /\ Waits(todo', Op("Destruct_stub", r)) = Waits(todo, Op("Destruct_stub", r))
                               + One(r = s /\ c)
      /\ \A x \in Proxies : /\ Waits(todo', Op("Internal_Release", x)) = Waits(todo, Op("Internal_Release", x))
                            /\ Waits(todo', Op("Unpin_proxy", x)) = Waits(todo, Op("Unpin_proxy", x))
                            /\ Waits(todo', Op("Destruct_proxy", x)) = Waits(todo, Op("Destruct_proxy", x))
  <2>1. CASE c
    <3>1. Goes1(t, "release_pin", d)
      <4>1. Then(t, <<d>>)
        BY <1>1, <2>1
      <4> HIDE DEF d
      <4> QED
        BY <1>0, <1>o, <4>1, ThenGoes
    <3>2. Moves("release_pin", s, "Destruct_stub", s, "none", 0)
      BY <1>s, <3>1, MovesBy
    <3>3. Framed /\ Grown(t, {d}) /\ Stepped(t, "release_pin")
      <4> HIDE DEF d
      <4> QED
        BY <1>o, <1>a, <1>b, <3>1, GoesFramed, PlacesAre DEF Goes1
    <3> HIDE DEF d, c
    <3> QED
      BY <2>1, <3>2, <3>3 DEF Moves, WaitsMore, One
  <2>2. CASE ~c
    <3>1. Goes0(t, "release_pin")
      BY <1>0, <1>1, <2>2, ThenGoes
    <3>2. Moves("release_pin", s, "none", 0, "none", 0)
      BY <1>s, <3>1, MovesBy
    <3>3. Framed /\ Grown(t, {}) /\ Stepped(t, "release_pin")
      BY <1>o, <1>a, <1>b, <3>1, GoesFramed, PlacesAre DEF Goes0
    <3>4. Grown(t, {d})
      BY <3>3 DEF Grown
    <3> HIDE DEF d, c
    <3> QED
      BY <2>2, <3>2, <3>3, <3>4 DEF Moves, WaitsMore, One
  <2> QED
    BY <2>1, <2>2
<1>d. /\ stubs[s].refs = 0 /\ stubs[s].pins \in Nat /\ stubs[s].pins >= 1 /\ stubs[s].live
  <2>1. 1 <= Waits(todo, Op("release_pin", s)) /\ Waits(todo, Op("release_pin", s)) \in Nat
    BY <1>0, <1>c, <1>s, StubFacts DEF Current
  <2>2. /\ Cardinality(PinnedFor(s)) \in Nat /\ stubs[s].pins \in Nat
        /\ stubs[s].pins = Waits(todo, Op("release_pin", s)) + Cardinality(PinnedFor(s))
        /\ stubs[s].pins > 0 => stubs[s].live
    BY <1>0, StubFacts
  <2>3. Waits(todo, Op("release_pin", s)) > 0 => stubs[s].refs = 0
    BY <1>0 DEF ShimInv, Pins
  <2> QED
    BY <2>1, <2>2, <2>3
<1>f. /\ stubs' \in [Stubs -> StubKind]
      /\ stubs'[s].refs = 0 /\ stubs'[s].pins = stubs[s].pins - 1
      /\ stubs'[s].live = stubs[s].live
      /\ \A r \in Stubs : r # s => stubs'[r] = stubs[r]
  <2>1. stubs \in [Stubs -> StubKind] /\ stubs[s].pins - 1 \in Int
    BY KindsAre
  <2> DEFINE k == stubs[s].pins - 1
  <2>2. stubs' = PutPins(stubs, s, k) /\ k \in Int
    BY <1>1, <2>1
  <2> HIDE DEF k
  <2>3. /\ stubs' \in [Stubs -> StubKind] /\ stubs'[s].pins = k /\ stubs'[s].refs = stubs[s].refs
        /\ stubs'[s].live = stubs[s].live /\ \A r \in Stubs : r # s => stubs'[r] = stubs[r]
    BY <2>1, <2>2, StubPuts
  <2> QED
    BY <1>d, <2>3 DEF k
<1> HIDE DEF c, d
<1>6. /\ Maps'
      /\ \A r : ProxiesFor(r)' = ProxiesFor(r) /\ PinnedFor(r)' = PinnedFor(r)
      /\ (\A r \in Stubs : Waits(todo', Op("release_pin", r)) > 0 => stubs'[r].refs = 0) => Pins'
      /\ \A u \in Threads : Steady(u)
  <2>1. \A u \in ShimsAt(s) : ~Private(s)
    BY <1>d DEF Private
  <2>2. ASSUME NEW u \in Threads, NEW p \in Proxies, todo[u] # <<>>, Head(todo[u]) = Op("Pin", p), proxies[p].shim = s
        PROVE  FALSE
    <3>1. stubs[s].refs = 2
      BY <1>0, <2>2, PinAhead
    <3> QED
      BY <1>d, <3>1
  <2>3. stubs'[s].pins > 0 => stubs'[s].refs <= 2
    BY <1>f
  <2> QED
    BY <1>0, <1>1, <1>f, <2>1, <2>2, <2>3, StubChanged
<1>7. Pins'
  <2>1. ASSUME NEW r \in Stubs, Waits(todo', Op("release_pin", r)) > 0 PROVE stubs'[r].refs = 0
    <3>1. CASE r # s
      <4>1. Waits(todo', Op("release_pin", r)) = Waits(todo, Op("release_pin", r))
        BY <1>2, <3>1 DEF One
      <4> QED
        BY <1>0, <1>f, <2>1, <3>1, <4>1 DEF ShimInv, Pins
    <3>2. CASE r = s
      BY <1>f, <3>2
    <3> QED
      BY <3>1, <3>2
  <2> QED
    BY <1>6, <2>1
<1>8. Referred' = Referred /\ Twice' = Twice
  <2>1. \A r \in Stubs : stubs'[r].refs = stubs[r].refs /\ (r # s => stubs'[r] = stubs[r])
    BY <1>d, <1>f
  <2> QED
    BY <1>d, <2>1 DEF Referred, Twice
<1>10. ObjectSum'
  <2>1. ObjectSum /\ HandsOf(Object)' = HandsOf(Object)
    BY <1>0, <1>2 DEF ShimInv, Sums, Framed
  <2>2. Waits(todo', Op("release", Object)) = Waits(todo, Op("release", Object))
    BY <1>2
  <2> QED
    BY <1>1, <1>8, <2>1, <2>2 DEF ObjectSum
<1>11. ASSUME NEW r \in Stubs PROVE StubSum(r)'
  <2>1. ShimsAt(r)' = ShimsAt(r)
    BY <1>2 DEF Framed
  <2>2. CASE r # s
    <3>1. /\ Waits(todo', Op("release_stub", r)) = Waits(todo, Op("release_stub", r))
          /\ Waits(todo', Op("release_pin", r)) = Waits(todo, Op("release_pin", r))
      BY <1>2, <2>2 DEF One
    <3>2. Waits(todo, Op("Destruct_stub", r)) = 0 \/ Waits(todo, Op("Destruct_stub", r)) = 1
      BY <1>0 DEF ShimInv, Sums, StubSum, One
    <3>3. One(r = s /\ c) = 0
      BY <2>2 DEF One
    <3>4. Waits(todo', Op("Destruct_stub", r)) = Waits(todo, Op("Destruct_stub", r))
      BY <1>2, <3>2, <3>3
    <3> QED
      BY <1>0, <1>f, <1>6, <2>1, <2>2, <3>1, <3>4, StubSame
  <2>3. CASE r = s
    <3>1. StubSum(s)
      BY <1>0 DEF ShimInv, Sums
    <3>2. Cardinality(PinnedFor(s)) \in Nat /\ Waits(todo, Op("release_pin", s)) \in Nat
      BY <1>0, StubFacts
    <3>3. stubs'[s].pins = Waits(todo', Op("release_pin", s)) + Cardinality(PinnedFor(s))
      <4>1. Waits(todo', Op("release_pin", s)) = Waits(todo, Op("release_pin", s)) - 1
        BY <1>2 DEF One
      <4>2. stubs[s].pins = Waits(todo, Op("release_pin", s)) + Cardinality(PinnedFor(s))
        BY <3>1 DEF StubSum
      <4> QED
        BY <1>d, <1>f, <3>2, <4>1, <4>2
    <3>4. Waits(todo, Op("Destruct_stub", s)) = 0
      BY <1>d, <3>1 DEF StubSum, One
    <3>5. c <=> stubs'[s].live /\ stubs'[s].refs = 0 /\ stubs'[s].pins = 0
      BY <1>d, <1>f DEF c
    <3>6. Waits(todo', Op("Destruct_stub", s)) = One(stubs'[s].live /\ stubs'[s].refs = 0 /\ stubs'[s].pins = 0)
      BY <1>2, <3>4, <3>5 DEF One
    <3>7. stubs'[s].refs = Cardinality(ShimsAt(s)) + Waits(todo', Op("release_stub", s)) + Cardinality(ProxiesFor(s))
      BY <1>2, <1>d, <1>f, <3>1 DEF StubSum
    <3>8. stubs'[s].live /\ IsFiniteSet(ShimsAt(s)) /\ IsFiniteSet(ProxiesFor(s)) /\ IsFiniteSet(PinnedFor(s))
      BY <1>d, <1>f, <3>1 DEF StubSum
    <3> QED
      BY <1>6, <2>1, <2>3, <3>3, <3>6, <3>7, <3>8 DEF StubSum
  <2> QED
    BY <2>2, <2>3
<1>12. \A x \in Proxies : ProxySum(x)'
  BY <1>0, <1>1, <1>2, ProxySame DEF Framed
<1>13. Undisturbed(t, {d})
  <2>1. \A x \in Proxies : proxies'[x].refs > 0 => proxies[x].refs > 0 /\ proxies'[x].shim = proxies[x].shim
    BY <1>1
  <2>2. \A y \in Proxies : proxies[y].pins > 0 => proxies'[y].shim = proxies[y].shim
    BY <1>1
  <2>3. \A y : Op("release", y) \notin {d} /\ Op("release_stub", y) \notin {d}
    BY OpsAre DEF d
  <2> QED
    BY <1>0, <1>a, <2>1, <2>2, <2>3, Undisturbing
<1>14. object' \in Int /\ proxies' \in [Proxies -> ProxyKind]
            /\ holders' \subseteq Modules \X (Proxies \cup {Object}) \X Stubs
  BY <1>1 DEF ShimInv, ShimTypes
<1> QED
  BY <1>0, <1>2, <1>a, <1>b, <1>6, <1>7, <1>f, <1>10, <1>11, <1>12, <1>13, <1>14, ReleaseStep

\* A stub that goes is in no map, and no proxy has it.
LEMMA StubDestructs ==
    ASSUME ShimInv, NEW t \in Threads, Destruct_stub(t)
    PROVE  ShimInv'
<1>0. Now(t, "Destruct_stub") /\ ~late
  BY DEF Destruct_stub, Now
<1>c. Current(t, "Destruct_stub")
  BY <1>0, NowIs
<1>s. PICK s \in Stubs : s = Arg(t)
  BY <1>c DEF Current, ArgsOf
<1>1. /\ Then(t, <<>>) /\ object' = object /\ proxies' = proxies
      /\ stubs' = PutAll(stubs, s, NoStub) /\ holders' = {h \in holders : h[1] # Home \/ h[3] # s}
  BY <1>s DEF Destruct_stub, PutAll
<1>a. shim' = shim /\ holds' = holds
  BY DEF Destruct_stub
<1>b. wired' = wired /\ late' = late /\ calls' = calls
  BY DEF Destruct_stub
<1>2. Goes0(t, "Destruct_stub") /\ Stepped(t, "Destruct_stub")
  BY <1>0, <1>1, ThenGoes DEF Goes0
<1>3. Moves("Destruct_stub", s, "none", 0, "none", 0)
  BY <1>s, <1>2, MovesBy
<1>4. Framed /\ Grown(t, {})
  <2>1. "Destruct_stub" \in Releasing
    BY DEF Releasing
  <2> QED
    BY <1>2, <1>a, <1>b, <2>1, GoesFramed, PlacesAre
<1>5. /\ \A x \in Proxies \cup {Object} : Waits(todo', Op("release", x)) = Waits(todo, Op("release", x))
      /\ \A r \in Stubs : /\ Waits(todo', Op("release_stub", r)) = Waits(todo, Op("release_stub", r))
                          /\ Waits(todo', Op("release_pin", r)) = Waits(todo, Op("release_pin", r))
                          /\ Waits(todo, Op("Destruct_stub", r)) \in Nat
                          /\ Waits(todo', Op("Destruct_stub", r)) = Waits(todo, Op("Destruct_stub", r)) - One(r = s)
      /\ \A x \in Proxies : /\ Waits(todo', Op("Internal_Release", x)) = Waits(todo, Op("Internal_Release", x))
                            /\ Waits(todo', Op("Unpin_proxy", x)) = Waits(todo, Op("Unpin_proxy", x))
                            /\ Waits(todo', Op("Destruct_proxy", x)) = Waits(todo, Op("Destruct_proxy", x))
  BY <1>3 DEF Moves, WaitsMore, One
<1>d. /\ stubs[s].live /\ stubs[s].refs = 0 /\ stubs[s].pins = 0
      /\ Waits(todo, Op("Destruct_stub", s)) = 1 /\ StubSum(s)
  <2>1. 1 <= Waits(todo, Op("Destruct_stub", s))
    BY <1>c, <1>s DEF Current
  <2>2. StubSum(s)
    BY <1>0 DEF ShimInv, Sums
  <2>3. Waits(todo, Op("Destruct_stub", s)) = One(stubs[s].live /\ stubs[s].refs = 0 /\ stubs[s].pins = 0)
    BY <2>2 DEF StubSum
  <2> QED
    BY <2>1, <2>2, <2>3 DEF One
<1>f. /\ stubs' \in [Stubs -> StubKind] /\ stubs'[s] = NoStub
      /\ \A x \in Stubs : x # s => stubs'[x] = stubs[x]
  <2>1. NoStub \in StubKind
    BY DEF NoStub, StubKind
  <2> QED
    BY <1>1, <2>1, KindsAre, AllPuts
<1>e. stubs'[s].refs = 0 /\ stubs'[s].pins = 0 /\ stubs'[s].live = FALSE
  BY <1>f DEF NoStub
<1>6. /\ Referred' = Referred /\ Twice' = Twice
      /\ \A r : ProxiesFor(r)' = ProxiesFor(r) /\ PinnedFor(r)' = PinnedFor(r)
  <2>1. \A r : ProxiesFor(r)' = ProxiesFor(r) /\ PinnedFor(r)' = PinnedFor(r)
    BY <1>1 DEF ProxiesFor, PinnedFor
  <2>2. \A x \in Stubs : stubs'[x].refs = stubs[x].refs /\ stubs'[x].pins = stubs[x].pins
    BY <1>d, <1>e, <1>f
  <2> QED
    BY <2>1, <2>2 DEF Referred, Twice
<1>g. \A m, x, r : <<m, x, r>> \in holders' <=> <<m, x, r>> \in holders /\ (m # Home \/ r # s)
  BY <1>1
<1>i. /\ \A r : IsListed(r)' <=> IsListed(r) /\ r # s
      /\ \A x : IsShared(x)' => IsShared(x)
  BY <1>g DEF IsListed, IsShared
<1>7. Maps'
  <2>1. ASSUME NEW m \in Modules, NEW x \in Proxies \cup {Object}, NEW r \in Stubs, <<m, x, r>> \in holders'
        PROVE  IF x = Object THEN m = Home /\ stubs'[r].live
               ELSE m # Home /\ proxies'[x].live /\ proxies'[x].shim = r
    <3>1. <<m, x, r>> \in holders /\ (m # Home \/ r # s)
      BY <1>g, <2>1
    <3>2. IF x = Object THEN m = Home /\ stubs[r].live ELSE m # Home /\ proxies[x].live /\ proxies[x].shim = r
      BY <1>0, <3>1 DEF ShimInv, Maps
    <3> QED
      BY <1>1, <1>f, <3>1, <3>2
  <2>2. \A r, z \in Stubs : IsListed(r)' /\ IsListed(z)' => r = z
    BY <1>0, <1>i DEF ShimInv, Maps
  <2>3. \A m \in Modules, x, y \in Proxies, r \in Stubs :
            <<m, x, r>> \in holders' /\ <<m, y, r>> \in holders' => x = y
    BY <1>0, <1>g DEF ShimInv, Maps
  <2> QED
    BY <2>1, <2>2, <2>3 DEF Maps
<1>8. Pins'
  <2>1. ASSUME NEW x \in Proxies, proxies'[x].pins > 0
        PROVE  proxies'[x].refs <= 1 /\ <<Home, Object, proxies'[x].shim>> \notin holders' /\ ~IsShared(x)'
    <3>1. proxies'[x] = proxies[x]
      BY <1>1
    <3>2. proxies[x].refs <= 1 /\ ~IsListed(proxies[x].shim) /\ ~IsShared(x)
      BY <1>0, <2>1, <3>1 DEF ShimInv, Pins
    <3> QED
      BY <1>g, <1>i, <3>1, <3>2 DEF IsListed
  <2>2. \A r \in Stubs : stubs'[r].pins > 0 => stubs'[r].refs <= 2
    BY <1>0, <1>e, <1>f DEF ShimInv, Pins
  <2>3. \A r \in Stubs : Waits(todo', Op("release_pin", r)) > 0 => stubs'[r].refs = 0
    BY <1>0, <1>e, <1>f, <1>5 DEF ShimInv, Pins
  <2> QED
    BY <2>1, <2>2, <2>3 DEF Pins, IsListed
<1>9. ASSUME NEW u \in Threads PROVE Steady(u)
  <2>1. \A x \in Proxies : proxies[x].refs > 0 => proxies[x].live
    BY <1>0, ProxyFacts
  <2>2. ASSUME NEW x \in Proxies, NEW r \in Stubs,
               todo[u] # <<>>, Head(todo[u]) = Op("Pin", x), proxies[x].shim = r
        PROVE  /\ stubs'[r].refs = 2 /\ stubs'[r].pins = 0 /\ ~IsListed(r)'
               /\ proxies'[x].refs = 1 /\ proxies'[x].pins = 0 /\ ~IsShared(x)'
    <3>1. /\ stubs[r].refs = 2 /\ stubs[r].pins = 0 /\ ~IsListed(r)
          /\ proxies[x].refs = 1 /\ proxies[x].pins = 0 /\ ~IsShared(x)
      BY <1>0, <2>2, PinAhead
    <3>2. r # s
      BY <1>d, <3>1
    <3> QED
      BY <1>1, <1>f, <1>i, <3>1, <3>2
  <2>3. ASSUME NEW r \in Stubs, u \in ShimsAt(r), Private(r) PROVE Private(r)'
    <3>1. r # s
      BY <1>d, <2>3 DEF Private
    <3> QED
      BY <1>f, <1>i, <2>3, <3>1 DEF Private
  <2>4. \A r \in Stubs : stubs[r].refs = 0 => stubs'[r].refs = 0
    BY <1>e, <1>f
  <2>5. \A r \in Stubs : IsListed(r) /\ stubs[r].refs > 0 => IsListed(r)'
    BY <1>d, <1>i
  <2>6. \A m \in Modules, x \in Proxies, r \in Stubs :
            proxies[x].refs > 0 /\ stubs[r].refs > 0 /\ <<m, x, r>> \in holders => <<m, x, r>> \in holders'
    BY <1>d, <1>g
  <2> QED
    BY <1>1, <2>1, <2>2, <2>3, <2>4, <2>5, <2>6 DEF Steady
<1>10. ObjectSum'
  <2>1. ObjectSum /\ HandsOf(Object)' = HandsOf(Object)
    BY <1>0, <1>4 DEF ShimInv, Sums, Framed
  <2>2. Waits(todo', Op("release", Object)) = Waits(todo, Op("release", Object))
    BY <1>5
  <2> QED
    BY <1>1, <1>6, <2>1, <2>2 DEF ObjectSum
<1>11. ASSUME NEW r \in Stubs PROVE StubSum(r)'
  <2>1. ShimsAt(r)' = ShimsAt(r)
    BY <1>4 DEF Framed
  <2>2. CASE r # s
    <3>1. Waits(todo', Op("Destruct_stub", r)) = Waits(todo, Op("Destruct_stub", r))
      BY <1>5, <2>2 DEF One
    <3> QED
      BY <1>0, <1>f, <1>5, <1>6, <2>1, <2>2, <3>1, StubSame
  <2>3. CASE r = s
    <3>1. Waits(todo', Op("Destruct_stub", s)) = 0
      BY <1>5, <1>d DEF One
    <3> QED
      BY <1>d, <1>e, <1>f, <1>5, <1>6, <2>1, <2>3, <3>1 DEF StubSum, One
  <2> QED
    BY <2>2, <2>3
<1>12. \A x \in Proxies : ProxySum(x)'
  BY <1>0, <1>1, <1>4, <1>5, ProxySame DEF Framed
<1>13. Undisturbed(t, {})
  BY <1>0, <1>a, <1>1, Undisturbing
<1>14. object' \in Int /\ proxies' \in [Proxies -> ProxyKind]
            /\ holders' \subseteq Modules \X (Proxies \cup {Object}) \X Stubs
  BY <1>1 DEF ShimInv, ShimTypes
<1> QED
  BY <1>0, <1>2, <1>a, <1>b, <1>4, <1>7, <1>8, <1>9, <1>f, <1>10, <1>11, <1>12, <1>13, <1>14, ReleaseStep

\* A call in which nothing but releases is left.
LEMMA BareFrame ==
    ASSUME ShimInv, ~late, NEW t \in Threads, NEW n, Stepped(t, n), UNCHANGED <<shim, holds, wired>>,
           \A j \in 1..Len(todo[t]) : Place(todo[t], j).op \in Releasing \cup {"Unpin_proxy"},
           \A j \in 1..Len(todo'[t]) : Place(todo'[t], j).op \in Releasing
    PROVE  Framed
<1>0. shim' = shim /\ holds' = holds /\ wired' = wired
  OBVIOUS
<1>1. (\A u \in Threads : u # t => todo'[u] = todo[u]) /\ todo' \in Lists
  BY OthersStay
<1>2. /\ \A m : m \notin Releasing /\ m # "Unpin_proxy" => ~HasIn(todo[t], m)
      /\ \A m : m \notin Releasing => ~HasIn(todo'[t], m)
  BY DEF HasIn
<1>3. Shapes /\ \A u \in Threads : ShapeOf(todo[u], shim[u], holds[u], wired[u])
  BY DEF ShimInv, Shapes
<1>4. ShapeOf(todo'[t], shim[t], holds[t], wired[t])
  <2>1. ASSUME NEW j \in 1..Len(todo'[t]) PROVE ShapeAt(todo'[t], shim[t], holds[t], wired[t], j)
    <3>1. Place(todo'[t], j).op \in Releasing
      OBVIOUS
    <3> QED
      BY <3>1 DEF ShapeAt, Releasing, Foremost
  <2>2. shim[t] = 0
    <3>1. shim[t] # 0 => HasIn(todo[t], "release_shim")
      BY <1>3 DEF ShapeOf
    <3>2. ~HasIn(todo[t], "release_shim")
      BY <1>2 DEF Releasing
    <3> QED
      BY <3>1, <3>2
  <2> QED
    BY <2>1, <2>2 DEF ShapeOf
<1>5. Shapes'
  <2>1. ASSUME NEW u \in Threads PROVE ShapeOf(todo'[u], shim'[u], holds'[u], wired'[u])
    <3>1. CASE u = t
      BY <1>0, <1>4, <3>1
    <3>2. CASE u # t
      BY <1>0, <1>1, <1>3, <3>2
    <3> QED
      BY <3>1, <3>2
  <2> QED
    BY <2>1 DEF Shapes
<1>6. ASSUME NEW u \in Threads, NEW m, m \notin Releasing, m # "Unpin_proxy"
      PROVE HasIn(todo'[u], m) <=> HasIn(todo[u], m)
  BY <1>1, <1>2, <1>6
<1>7. ASSUME NEW u \in Threads PROVE (Handing(u)' <=> Handing(u)) /\ (Shimless(todo'[u]) <=> Shimless(todo[u]))
  <2>1. \A m \in {"bind", "add1", "AddRef_listed", "find", "new_stub", "AddRef_found"} :
            HasIn(todo'[u], m) <=> HasIn(todo[u], m)
    BY <1>6 DEF Releasing
  <2> QED
    BY <2>1 DEF Handing, Has, Shimless
<1>8. \A x : HandsOf(x)' = HandsOf(x)
  BY <1>0, <1>7 DEF HandsOf, Hold
<1>9. \A u \in Threads : Has(u, "AddRef_found")' <=> Has(u, "AddRef_found")
  BY <1>6 DEF Has, Releasing
<1>10. \A s : ShimsAt(s)' = ShimsAt(s)
  BY <1>0, <1>9 DEF ShimsAt
<1>11. ASSUME NEW u \in Threads, NEW p PROVE Adding(todo'[u], p) <=> Adding(todo[u], p)
  <2>1. CASE u # t
    BY <1>1, <2>1
  <2>2. ASSUME NEW q, Adding(q, p) PROVE HasIn(q, "add1")
    <3>1. 3 \in 1..Len(q) /\ Place(q, 3).op = "add1"
      BY <2>2 DEF Adding
    <3> QED
      BY <3>1 DEF HasIn
  <2>3. ~HasIn(todo[t], "add1") /\ ~HasIn(todo'[t], "add1")
    BY <1>2 DEF Releasing
  <2> QED
    BY <2>1, <2>2, <2>3
<1>12. \A p : AddsOf(p)' = AddsOf(p)
  BY <1>11 DEF AddsOf
<1>13. \A p : WiresOf(p)' = WiresOf(p)
  BY <1>0 DEF WiresOf
<1>14. ASSUME NEW u \in Threads, NEW j \in 1..Len(todo'[u]), Place(todo'[u], j).op \notin Releasing
       PROVE  j \in 1..Len(todo[u]) /\ Place(todo'[u], j) = Place(todo[u], j)
  <2>1. u # t
    BY <1>14
  <2> QED
    BY <1>1, <2>1
<1> QED
  BY <1>5, <1>6, <1>7, <1>8, <1>10, <1>12, <1>13, <1>14 DEF Framed, Has

\* A thread about to unpin: its proxy and the proxy's stub are pinned for it alone.
LEMMA AtUnpin ==
    ASSUME ShimInv, ~late, NEW t \in Threads, Current(t, "Unpin_proxy")
    PROVE  LET p == Arg(t) s == proxies[p].shim IN
           /\ p \in Proxies /\ s \in Stubs /\ proxies[p].live /\ stubs[s].live
           /\ Len(todo[t]) = 1 /\ (\A j \in 1..Len(todo[t]) : Place(todo[t], j).op = "Unpin_proxy")
           /\ proxies[p].refs = 0 /\ stubs[s].refs = 0 /\ proxies[p].pins >= 1 /\ stubs[s].pins >= 1
           /\ proxies[p].pins \in Nat /\ stubs[s].pins \in Nat /\ proxies[p].ints \in Nat
<1> DEFINE p == Arg(t)
           s == proxies[p].shim
<1>1. p \in Proxies
  BY DEF Current, ArgsOf
<1>2. Len(todo[t]) \in 1..Len(todo[t]) /\ Place(todo[t], Len(todo[t])) = Op("Unpin_proxy", p)
  BY DEF Current
<1>3. Len(todo[t]) = 1
  <2>1. ShapeAt(todo[t], shim[t], holds[t], wired[t], Len(todo[t]))
    BY <1>2, InCall
  <2>2. Place(todo[t], Len(todo[t])).op = "Unpin_proxy"
    BY <1>2, OpsAre
  <2> QED
    BY <2>1, <2>2 DEF ShapeAt
<1>4. \A j \in 1..Len(todo[t]) : Place(todo[t], j) = Op("Unpin_proxy", p)
  BY <1>2, <1>3
<1>5. \A j \in 1..Len(todo[t]) : Place(todo[t], j).op = "Unpin_proxy"
  BY <1>4, OpsAre
<1>6. shim[t] = 0
  <2>1. shim[t] # 0 => HasIn(todo[t], "release_shim")
    BY InCall DEF ShapeOf
  <2>2. ~HasIn(todo[t], "release_shim")
    BY <1>5 DEF HasIn
  <2> QED
    BY <2>1, <2>2
<1>7. Keeps(t, p)
  BY <1>2 DEF Current, Keeps
<1> HIDE DEF p
<1>8. /\ proxies[p].pins > 0 /\ proxies[p].live /\ s \in Stubs /\ stubs[s].pins > 0
      /\ ~IsListed(s) /\ ~IsShared(p) /\ ProxiesFor(s) \subseteq {p}
      /\ \A v \in Threads : v # t =>
            /\ shim[v] # s
            /\ \A j \in 1..Len(todo[v]) : Place(todo[v], j) # Op("release", p)
                 /\ Place(todo[v], j) # Op("release_stub", s)
  BY <1>1, <1>7, KeeperFacts DEF Owns
<1> HIDE DEF s
<1>9. /\ proxies[p].pins \in Nat /\ proxies[p].ints \in Nat /\ proxies[p].pins >= 1
      /\ stubs[s].pins \in Nat /\ stubs[s].pins >= 1 /\ stubs[s].live
  <2>1. proxies[p].pins \in Nat /\ proxies[p].ints \in Nat /\ stubs[s].pins \in Nat /\ (stubs[s].pins > 0
             => stubs[s].live)
    BY <1>1, <1>8, ProxyFacts, StubFacts
  <2> QED
    BY <1>8, <2>1
<1>10. Counted(todo) /\ ProxySum(p) /\ StubSum(s)
  BY <1>1, <1>8 DEF ShimInv, Sums
<1>11. \A v \in Threads : \A j \in 1..Len(todo[v]) :
           Place(todo[v], j) # Op("release", p) /\ Place(todo[v], j) # Op("release_stub", s)
  <2>1. \A j \in 1..Len(todo[t]) : Place(todo[t], j) # Op("release", p) /\ Place(todo[t], j) # Op("release_stub", s)
    BY <1>5, OpsAre
  <2> QED
    BY <1>8, <2>1
<1>12. Waits(todo, Op("release", p)) = 0 /\ Waits(todo, Op("release_stub", s)) = 0
  <2>1. Places(todo, Op("release", p)) = {} /\ Places(todo, Op("release_stub", s)) = {}
    BY <1>11 DEF Places
  <2> QED
    BY <2>1, FS_EmptySet DEF Waits
<1>13. HandsOf(p) = {}
  <2>1. ASSUME NEW u \in HandsOf(p) PROVE FALSE
    <3>1. Hold(u) = p /\ Linked(u)
      BY DEF HandsOf, ShimInv, Links
    <3>2. IsListed(proxies[Hold(u)].shim)
      BY <1>1, <3>1 DEF Linked
    <3>a. Hold(u) = p
      BY <3>1
    <3>3. proxies[Hold(u)].shim = s
      BY <3>a DEF s
    <3> QED
      BY <1>8, <3>2, <3>3
  <2> QED
    BY <2>1
<1>14. AddsOf(p) = {}
  <2>1. ASSUME NEW u \in AddsOf(p) PROVE FALSE
    <3>0. Len(todo[u]) = 3 /\ Place(todo[u], 3).op = "add1" /\ Place(todo[u], 3).arg[2] = p
      BY DEF AddsOf, Adding
    <3>1. 3 \in 1..Len(todo[u]) /\ Place(todo[u], 3).op = "add1" /\ Place(todo[u], 3).arg[2] = p
      BY <3>0
    <3>2. LinkAt(u, 3)
      BY <3>1, InCall DEF AddsOf
    <3>3. proxies[p].pins = 0
      BY <3>1, <3>2 DEF LinkAt
    <3> QED
      BY <1>9, <3>3
  <2> QED
    BY <2>1
<1>15. ShimsAt(s) = {}
  <2>1. 0 \notin Stubs
    BY DEF ShimInv, ShimAssumption
  <2> QED
    BY <1>6, <1>8, <2>1 DEF ShimsAt
<1>16. proxies[p].refs = 0
  BY <1>10, <1>12, <1>13, <1>14, FS_EmptySet DEF ProxySum
<1>17. ProxiesFor(s) = {}
  <2>1. p \notin ProxiesFor(s)
    BY <1>16 DEF ProxiesFor
  <2> QED
    BY <1>8, <2>1
<1>18. stubs[s].refs = 0
  BY <1>10, <1>12, <1>15, <1>17, FS_EmptySet DEF StubSum
<1> QED
  BY <1>1, <1>3, <1>5, <1>8, <1>9, <1>16, <1>18 DEF p, s

\* What the two lists of a step come to.
LEMMA TwoLists ==
    ASSUME NEW a, NEW b
    PROVE  /\ <<>> \o <<>> = <<>> /\ <<a>> \o <<>> = <<a>> /\ <<>> \o <<b>> = <<b>>
           /\ <<a>> \o <<b>> = <<a, b>>
<1> DEFINE Z == {a, b}
<1>1. <<>> \in Seq(Z) /\ <<a>> \in Seq(Z) /\ <<b>> \in Seq(Z) /\ <<a, b>> \in Seq(Z) /\ a \in Z /\ b \in Z
  OBVIOUS
<1> HIDE DEF Z
<1>2. <<>> \o <<>> = <<>> /\ <<a>> \o <<>> = <<a>> /\ <<>> \o <<b>> = <<b>> /\ <<b>> \o <<>> = <<b>>
      /\ <<a, b>> \o <<>> = <<a, b>>
  BY <1>1, ConcatEmptySeq
<1>3. <<a, b>> \o <<>> = <<a>> \o (<<b>> \o <<>>)
  BY <1>1, TwoOn
<1> QED
  BY <1>2, <1>3

\* The operations that an unpinning leaves.
Extra(m, x, p, s, c, d) == One(m = "Destruct_stub" /\ x = s /\ c) + One(m = "Destruct_proxy" /\ x = p /\ d)
UnpinMoves(p, s, c, d) ==
    /\ \A x \in Proxies \cup {Object} : Waits(todo', Op("release", x)) = Waits(todo, Op("release", x))
    /\ \A r \in Stubs : /\ Waits(todo', Op("release_stub", r)) = Waits(todo, Op("release_stub", r))
                        /\ Waits(todo', Op("release_pin", r)) = Waits(todo, Op("release_pin", r))
                        /\ Waits(todo', Op("Destruct_stub", r)) = Waits(todo, Op("Destruct_stub", r))
                             + One(r = s /\ c)
    /\ \A x \in Proxies : /\ Waits(todo', Op("Internal_Release", x)) = Waits(todo, Op("Internal_Release", x))
                          /\ Waits(todo, Op("Unpin_proxy", x)) \in Nat
                          /\ Waits(todo', Op("Unpin_proxy", x)) = Waits(todo, Op("Unpin_proxy", x)) - One(x = p)
                          /\ Waits(todo', Op("Destruct_proxy", x)) = Waits(todo, Op("Destruct_proxy", x))
                               + One(x = p /\ d)
UnpinGoes(t, p, s, c, d) ==
    /\ Stepped(t, "Unpin_proxy") /\ Framed /\ Grown(t, {Op("Destruct_stub", s), Op("Destruct_proxy", p)})
    /\ UnpinMoves(p, s, c, d)

\* It is enough to know of each operation how many of it wait after an unpin.
LEMMA UnpinMovesIf ==
    ASSUME NEW p \in Proxies, NEW s \in Stubs, NEW c, NEW d, NEW an, NEW av, NEW bn, NEW bv,
           Moves("Unpin_proxy", p, an, av, bn, bv),
           \A m \in OpNames : \A x : One(m = an /\ x = av) + One(m = bn /\ x = bv) = Extra(m, x, p, s, c, d)
    PROVE  UnpinMoves(p, s, c, d)
<1>0. ASSUME NEW m \in OpNames, NEW x, WaitsMore(m, x, "Unpin_proxy", p, an, av, bn, bv)
      PROVE  /\ Waits(todo, Op(m, x)) \in Nat
             /\ Waits(todo', Op(m, x)) = Waits(todo, Op(m, x)) - One(m = "Unpin_proxy" /\ x = p)
                  + Extra(m, x, p, s, c, d)
  <2>1. One(m = an /\ x = av) + One(m = bn /\ x = bv) = Extra(m, x, p, s, c, d)
    OBVIOUS
  <2>2. One(m = "Unpin_proxy" /\ x = p) \in Int /\ One(m = an /\ x = av) \in Int /\ One(m = bn /\ x = bv) \in Int
    BY DEF One
  <2> QED
    BY <1>0, <2>1, <2>2 DEF WaitsMore
<1>1. ASSUME NEW x \in Proxies \cup {Object} PROVE Waits(todo', Op("release", x)) = Waits(todo, Op("release", x))
  <2>1. WaitsMore("release", x, "Unpin_proxy", p, an, av, bn, bv)
    BY DEF Moves
  <2> QED
    BY <1>0, <2>1 DEF One, Extra, OpNames
<1>2. ASSUME NEW r \in Stubs
      PROVE  /\ Waits(todo', Op("release_stub", r)) = Waits(todo, Op("release_stub", r))
             /\ Waits(todo', Op("release_pin", r)) = Waits(todo, Op("release_pin", r))
             /\ Waits(todo', Op("Destruct_stub", r)) = Waits(todo, Op("Destruct_stub", r)) + One(r = s /\ c)
  <2>1. /\ WaitsMore("release_stub", r, "Unpin_proxy", p, an, av, bn, bv)
        /\ WaitsMore("release_pin", r, "Unpin_proxy", p, an, av, bn, bv)
        /\ WaitsMore("Destruct_stub", r, "Unpin_proxy", p, an, av, bn, bv)
    BY DEF Moves
  <2> QED
    BY <1>0, <2>1 DEF One, Extra, OpNames
<1>3. ASSUME NEW x \in Proxies
      PROVE  /\ Waits(todo', Op("Internal_Release", x)) = Waits(todo, Op("Internal_Release", x))
             /\ Waits(todo, Op("Unpin_proxy", x)) \in Nat
             /\ Waits(todo', Op("Unpin_proxy", x)) = Waits(todo, Op("Unpin_proxy", x)) - One(x = p)
             /\ Waits(todo', Op("Destruct_proxy", x)) = Waits(todo, Op("Destruct_proxy", x)) + One(x = p /\ d)
  <2>1. /\ WaitsMore("Internal_Release", x, "Unpin_proxy", p, an, av, bn, bv)
        /\ WaitsMore("Unpin_proxy", x, "Unpin_proxy", p, an, av, bn, bv)
        /\ WaitsMore("Destruct_proxy", x, "Unpin_proxy", p, an, av, bn, bv)
    BY DEF Moves
  <2> QED
    BY <1>0, <2>1 DEF One, Extra, OpNames
<1> QED
  BY <1>1, <1>2, <1>3 DEF UnpinMoves

\* What an unpin brings about: the end of the stub, of the proxy, of both or of neither.
LEMMA UnpinGoesOn ==
    ASSUME ShimInv, NEW t \in Threads, Unpin_proxy(t), NEW p \in Proxies, Arg(t) = p,
           NEW s \in Stubs, s = proxies[p].shim
    PROVE  UnpinGoes(t, p, s, proxies[p].pins = 1 /\ stubs[s].pins = 1, proxies[p].pins = 1 /\ proxies[p].ints = 0)
<1> DEFINE c == proxies[p].pins = 1 /\ stubs[s].pins = 1
           d == proxies[p].pins = 1 /\ proxies[p].ints = 0
           a == Op("Destruct_stub", s)
           b == Op("Destruct_proxy", p)
<1>0. Now(t, "Unpin_proxy") /\ ~late
  BY DEF Unpin_proxy, Now
<1>1. Current(t, "Unpin_proxy")
  BY <1>0, NowIs
<1>2. /\ Len(todo[t]) = 1 /\ (\A j \in 1..Len(todo[t]) : Place(todo[t], j).op = "Unpin_proxy")
      /\ proxies[p].refs = 0 /\ stubs[s].refs = 0
  BY <1>0, <1>1, AtUnpin
<1>3. Then(t, (IF c THEN <<a>> ELSE <<>>) \o (IF d THEN <<b>> ELSE <<>>))
  <2>1. /\ (proxies[p].pins = 1 /\ stubs[s].pins = 1 /\ stubs[s].refs = 0) <=> c
        /\ (proxies[p].pins = 1 /\ proxies[p].ints = 0 /\ proxies[p].refs = 0) <=> d
    BY <1>2
  <2>2. Then(t, (IF proxies[p].pins = 1 /\ stubs[s].pins = 1 /\ stubs[s].refs = 0 THEN <<a>> ELSE <<>>)
                \o (IF proxies[p].pins = 1 /\ proxies[p].ints = 0 /\ proxies[p].refs = 0 THEN <<b>> ELSE <<>>))
    BY DEF Unpin_proxy
  <2> HIDE DEF c, d
  <2> QED
    BY <2>1, <2>2
<1>a. shim' = shim /\ holds' = holds /\ wired' = wired
  BY DEF Unpin_proxy
<1>o. a \in Ops /\ b \in Ops /\ a.op \in Releasing /\ b.op \in Releasing
  BY OpsOf, OpsAre DEF Releasing
<1>b. \A j \in 1..Len(todo[t]) : Place(todo[t], j).op \in Releasing \cup {"Unpin_proxy"}
  BY <1>2
<1> SUFFICES UnpinGoes(t, p, s, c, d)
  OBVIOUS
<1> HIDE DEF a, b, c, d
<1>4. CASE c /\ d
  <2>1. Then(t, <<a, b>>)
    <3>1. (IF c THEN <<a>> ELSE <<>>) \o (IF d THEN <<b>> ELSE <<>>) = <<a, b>>
      BY <1>4, TwoLists
    <3> QED
      BY <1>3, <3>1 DEF Then
  <2>2. Goes2(t, "Unpin_proxy", a, b)
    BY <1>0, <1>o, <2>1, ThenGoes
  <2>3. Moves("Unpin_proxy", p, "Destruct_stub", s, "Destruct_proxy", p)
    BY <2>2, MovesBy DEF a, b
  <2>4. Stepped(t, "Unpin_proxy") /\ Grown(t, {a, b}) /\ Len(todo'[t]) = 2 /\ Place(todo'[t], 1) = b
             /\ Place(todo'[t], 2) = a
    <3>1. /\ Stepped(t, "Unpin_proxy") /\ Grown(t, {a, b}) /\ Len(todo'[t]) = Len(todo[t]) + 1
          /\ Place(todo'[t], Len(todo[t])) = b /\ Place(todo'[t], Len(todo[t]) + 1) = a
      BY <2>2, PlacesAre DEF Goes2
    <3>2. Len(todo[t]) + 1 = 2
      BY <1>2
    <3> QED
      BY <1>2, <3>1, <3>2
  <2>5. \A j \in 1..Len(todo'[t]) : Place(todo'[t], j).op \in Releasing
    <3>1. \A j \in 1..2 : j = 1 \/ j = 2
      OBVIOUS
    <3> QED
      BY <1>o, <2>4, <3>1
  <2>6. Framed
    BY <1>0, <1>a, <1>b, <2>4, <2>5, BareFrame
  <2>8. Stepped(t, "Unpin_proxy") /\ Grown(t, {Op("Destruct_stub", s), Op("Destruct_proxy", p)})
    BY <2>4 DEF a, b
  <2>9. ASSUME NEW m \in OpNames, NEW x
        PROVE One(m = "Destruct_stub" /\ x = s) + One(m = "Destruct_proxy" /\ x = p) = Extra(m, x, p, s, c, d)
    BY <1>4 DEF One, Extra, OpNames
  <2>10. UnpinMoves(p, s, c, d)
    BY <2>3, <2>9, UnpinMovesIf
  <2> QED
    BY <2>6, <2>8, <2>10 DEF UnpinGoes
<1>5. CASE c /\ ~d
  <2>1. Then(t, <<a>>)
    <3>1. (IF c THEN <<a>> ELSE <<>>) \o (IF d THEN <<b>> ELSE <<>>) = <<a>>
      BY <1>5, TwoLists
    <3> QED
      BY <1>3, <3>1 DEF Then
  <2>2. Goes1(t, "Unpin_proxy", a)
    BY <1>0, <1>o, <2>1, ThenGoes
  <2>3. Moves("Unpin_proxy", p, "Destruct_stub", s, "none", 0)
    BY <2>2, MovesBy DEF a
  <2>4. Stepped(t, "Unpin_proxy") /\ Grown(t, {a}) /\ Len(todo'[t]) = 1 /\ Place(todo'[t], 1) = a
    BY <1>2, <2>2, PlacesAre DEF Goes1
  <2>5. \A j \in 1..Len(todo'[t]) : Place(todo'[t], j).op \in Releasing
    <3>1. \A j \in 1..1 : j = 1
      OBVIOUS
    <3> QED
      BY <1>o, <2>4, <3>1
  <2>6. Framed
    BY <1>0, <1>a, <1>b, <2>4, <2>5, BareFrame
  <2>7. Grown(t, {a, b})
    BY <2>4 DEF Grown
  <2>8. Stepped(t, "Unpin_proxy") /\ Grown(t, {Op("Destruct_stub", s), Op("Destruct_proxy", p)})
    BY <2>4, <2>7 DEF a, b
  <2>9. ASSUME NEW m \in OpNames, NEW x
        PROVE One(m = "Destruct_stub" /\ x = s) + One(m = "none" /\ x = 0) = Extra(m, x, p, s, c, d)
    BY <1>5 DEF One, Extra, OpNames
  <2>10. UnpinMoves(p, s, c, d)
    BY <2>3, <2>9, UnpinMovesIf
  <2> QED
    BY <2>6, <2>8, <2>10 DEF UnpinGoes
<1>6. CASE ~c /\ d
  <2>1. Then(t, <<b>>)
    <3>1. (IF c THEN <<a>> ELSE <<>>) \o (IF d THEN <<b>> ELSE <<>>) = <<b>>
      BY <1>6, TwoLists
    <3> QED
      BY <1>3, <3>1 DEF Then
  <2>2. Goes1(t, "Unpin_proxy", b)
    BY <1>0, <1>o, <2>1, ThenGoes
  <2>3. Moves("Unpin_proxy", p, "Destruct_proxy", p, "none", 0)
    BY <2>2, MovesBy DEF b
  <2>4. Stepped(t, "Unpin_proxy") /\ Grown(t, {b}) /\ Len(todo'[t]) = 1 /\ Place(todo'[t], 1) = b
    BY <1>2, <2>2, PlacesAre DEF Goes1
  <2>5. \A j \in 1..Len(todo'[t]) : Place(todo'[t], j).op \in Releasing
    <3>1. \A j \in 1..1 : j = 1
      OBVIOUS
    <3> QED
      BY <1>o, <2>4, <3>1
  <2>6. Framed
    BY <1>0, <1>a, <1>b, <2>4, <2>5, BareFrame
  <2>7. Grown(t, {a, b})
    BY <2>4 DEF Grown
  <2>8. Stepped(t, "Unpin_proxy") /\ Grown(t, {Op("Destruct_stub", s), Op("Destruct_proxy", p)})
    BY <2>4, <2>7 DEF a, b
  <2>9. ASSUME NEW m \in OpNames, NEW x
        PROVE One(m = "Destruct_proxy" /\ x = p) + One(m = "none" /\ x = 0) = Extra(m, x, p, s, c, d)
    BY <1>6 DEF One, Extra, OpNames
  <2>10. UnpinMoves(p, s, c, d)
    BY <2>3, <2>9, UnpinMovesIf
  <2> QED
    BY <2>6, <2>8, <2>10 DEF UnpinGoes
<1>7. CASE ~c /\ ~d
  <2>1. Then(t, <<>>)
    <3>1. (IF c THEN <<a>> ELSE <<>>) \o (IF d THEN <<b>> ELSE <<>>) = <<>>
      BY <1>7, TwoLists
    <3> QED
      BY <1>3, <3>1 DEF Then
  <2>2. Goes0(t, "Unpin_proxy")
    BY <1>0, <2>1, ThenGoes
  <2>3. Moves("Unpin_proxy", p, "none", 0, "none", 0)
    BY <2>2, MovesBy
  <2>4. Stepped(t, "Unpin_proxy") /\ Grown(t, {}) /\ Len(todo'[t]) = 0
    <3>1. Stepped(t, "Unpin_proxy") /\ Grown(t, {}) /\ Len(todo'[t]) = Len(todo[t]) - 1
      BY <2>2, PlacesAre DEF Goes0
    <3> QED
      BY <1>2, <3>1
  <2>5. \A j \in 1..Len(todo'[t]) : Place(todo'[t], j).op \in Releasing
    BY <2>4
  <2>6. Framed
    BY <1>0, <1>a, <1>b, <2>4, <2>5, BareFrame
  <2>7. Grown(t, {a, b})
    BY <2>4 DEF Grown
  <2>8. Stepped(t, "Unpin_proxy") /\ Grown(t, {Op("Destruct_stub", s), Op("Destruct_proxy", p)})
    BY <2>4, <2>7 DEF a, b
  <2>9. ASSUME NEW m \in OpNames, NEW x
        PROVE One(m = "none" /\ x = 0) + One(m = "none" /\ x = 0) = Extra(m, x, p, s, c, d)
    BY <1>7 DEF One, Extra, OpNames
  <2>10. UnpinMoves(p, s, c, d)
    BY <2>3, <2>9, UnpinMovesIf
  <2> QED
    BY <2>6, <2>8, <2>10 DEF UnpinGoes
<1> QED
  BY <1>4, <1>5, <1>6, <1>7

\* A wire stub's pin is given up.
LEMMA Unpins ==
    ASSUME ShimInv, NEW t \in Threads, Unpin_proxy(t)
    PROVE  ShimInv'
<1>0. Now(t, "Unpin_proxy") /\ ~late
  BY DEF Unpin_proxy, Now
<1>c. Current(t, "Unpin_proxy")
  BY <1>0, NowIs
<1>p. PICK p \in Proxies : p = Arg(t)
  BY <1>c DEF Current, ArgsOf
<1>s. PICK s \in Stubs : s = proxies[p].shim
  BY <1>0, <1>c, <1>p, AtUnpin
<1>l. proxies[p].live /\ stubs[s].live
  BY <1>0, <1>c, <1>p, <1>s, AtUnpin
<1>d. /\ proxies[p].refs = 0 /\ stubs[s].refs = 0
      /\ proxies[p].pins \in Nat /\ stubs[s].pins \in Nat /\ proxies[p].ints \in Nat
      /\ proxies[p].pins >= 1 /\ stubs[s].pins >= 1
  BY <1>0, <1>c, <1>p, <1>s, AtUnpin
<1> DEFINE last == proxies[p].pins = 1
           c == proxies[p].pins = 1 /\ stubs[s].pins = 1
           d == proxies[p].pins = 1 /\ proxies[p].ints = 0
           k == stubs[s].pins - One(last)
           l == proxies[p].pins - 1
           a == Op("Destruct_stub", s)
           b == Op("Destruct_proxy", p)
<1>1. object' = object /\ holders' = holders
  BY DEF Unpin_proxy
<1>a. shim' = shim /\ holds' = holds
  BY DEF Unpin_proxy
<1>b. wired' = wired /\ late' = late /\ calls' = calls
  BY DEF Unpin_proxy
<1>2. UnpinGoes(t, p, s, c, d)
  BY <1>p, <1>s, UnpinGoesOn
<1>3. /\ Stepped(t, "Unpin_proxy") /\ Framed /\ Grown(t, {a, b}) /\ UnpinMoves(p, s, c, d)
  BY <1>2 DEF UnpinGoes
<1>f. /\ stubs' \in [Stubs -> StubKind]
      /\ stubs'[s].refs = 0 /\ stubs'[s].pins = k /\ stubs'[s].live = stubs[s].live
      /\ \A r \in Stubs : r # s => stubs'[r] = stubs[r]
  <2>1. stubs \in [Stubs -> StubKind] /\ k \in Int
    BY <1>d, KindsAre DEF One
  <2>2. stubs' = PutPins(stubs, s, k)
    BY <1>p, <1>s DEF Unpin_proxy, PutPins, One
  <2> HIDE DEF k
  <2> QED
    BY <1>d, <2>1, <2>2, StubPuts
<1>g. /\ proxies' \in [Proxies -> ProxyKind]
      /\ proxies'[p].refs = 0 /\ proxies'[p].pins = l /\ proxies'[p].ints = proxies[p].ints
      /\ proxies'[p].live = proxies[p].live /\ proxies'[p].shim = s
      /\ \A x \in Proxies : x # p => proxies'[x] = proxies[x]
  <2>1. proxies \in [Proxies -> ProxyKind] /\ l \in Int
    BY <1>d, KindsAre
  <2>2. proxies' = PutPins(proxies, p, l)
    BY <1>p DEF Unpin_proxy, PutPins
  <2> HIDE DEF l
  <2> QED
    BY <1>d, <1>s, <2>1, <2>2, ProxyPuts
<1>h. k \in Nat /\ k <= stubs[s].pins /\ l \in Nat /\ l < proxies[p].pins /\ (l = 0 <=> last)
  BY <1>d DEF One
<1>i. /\ c <=> last /\ k = 0
      /\ d <=> l = 0 /\ proxies[p].ints = 0
      /\ ~last => k > 0 /\ l > 0
  BY <1>d DEF One
<1> HIDE DEF a, b, c, d, k, l
<1>r. /\ \A r \in Stubs : stubs'[r].refs = stubs[r].refs /\ stubs'[r].live = stubs[r].live
      /\ \A r \in Stubs : stubs'[r].pins > 0 => stubs[r].pins > 0
      /\ \A r \in Stubs : stubs[r].refs > 0 => stubs'[r] = stubs[r]
      /\ \A x \in Proxies : /\ proxies'[x].refs = proxies[x].refs /\ proxies'[x].live = proxies[x].live
                            /\ proxies'[x].shim = proxies[x].shim
      /\ \A x \in Proxies : proxies'[x].pins > 0 => proxies[x].pins > 0
      /\ \A x \in Proxies : proxies[x].refs > 0 \/ proxies[x].pins = 0 => proxies'[x] = proxies[x]
  <2>1. ASSUME NEW r \in Stubs
        PROVE  /\ stubs'[r].refs = stubs[r].refs /\ stubs'[r].live = stubs[r].live
               /\ stubs'[r].pins > 0 => stubs[r].pins > 0
               /\ stubs[r].refs > 0 => stubs'[r] = stubs[r]
    <3>1. CASE r = s
      BY <1>d, <1>f, <3>1
    <3>2. CASE r # s
      BY <1>f, <3>2
    <3> QED
      BY <3>1, <3>2
  <2>2. ASSUME NEW x \in Proxies
        PROVE  /\ proxies'[x].refs = proxies[x].refs /\ proxies'[x].live = proxies[x].live
               /\ proxies'[x].shim = proxies[x].shim
               /\ proxies'[x].pins > 0 => proxies[x].pins > 0
               /\ proxies[x].refs > 0 \/ proxies[x].pins = 0 => proxies'[x] = proxies[x]
    <3>1. CASE x = p
      BY <1>d, <1>g, <1>s, <3>1
    <3>2. CASE x # p
      BY <1>g, <3>2
    <3> QED
      BY <3>1, <3>2
  <2> QED
    BY <2>1, <2>2
<1>4. /\ \A r : ProxiesFor(r)' = ProxiesFor(r)
      /\ Referred' = Referred /\ Twice' = Twice
  BY <1>d, <1>f, <1>r DEF ProxiesFor, Referred, Twice
<1>5. /\ PinnedFor(s)' = IF last THEN PinnedFor(s) \ {p} ELSE PinnedFor(s)
      /\ p \in PinnedFor(s)
      /\ \A r : r # s => PinnedFor(r)' = PinnedFor(r)
  <2>1. p \in PinnedFor(s) /\ \A r : r # s => p \notin PinnedFor(r)
    BY <1>d, <1>s DEF PinnedFor
  <2>2. proxies'[p].pins > 0 <=> ~last
    BY <1>g, <1>h
  <2>3. \A x \in Proxies : x # p => proxies'[x].pins = proxies[x].pins
    BY <1>g
  <2>4. proxies'[p].shim = s
    BY <1>g
  <2>5. ASSUME NEW r, NEW x \in Proxies, x # p PROVE x \in PinnedFor(r)' <=> x \in PinnedFor(r)
    BY <1>r, <2>3, <2>5 DEF PinnedFor
  <2>6. p \in PinnedFor(s)' <=> ~last
    BY <2>2, <2>4 DEF PinnedFor
  <2>7. \A r : r # s => p \notin PinnedFor(r)'
    BY <2>4 DEF PinnedFor
  <2>8. \A r : PinnedFor(r) \subseteq Proxies /\ PinnedFor(r)' \subseteq Proxies
    BY DEF PinnedFor
  <2> HIDE DEF last
  <2>9. ASSUME NEW r, r # s PROVE PinnedFor(r)' = PinnedFor(r)
    <3>1. \A x \in Proxies : x \in PinnedFor(r)' <=> x \in PinnedFor(r)
      BY <2>1, <2>5, <2>7, <2>9
    <3>2. PinnedFor(r) \subseteq Proxies /\ PinnedFor(r)' \subseteq Proxies
      BY <2>8
    <3>3. \A x : x \in PinnedFor(r)' <=> x \in PinnedFor(r)
      BY <3>1, <3>2
    <3> QED
      BY <3>3, Zenon
  <2>10. PinnedFor(s)' = IF last THEN PinnedFor(s) \ {p} ELSE PinnedFor(s)
    <3>1. PinnedFor(s) \subseteq Proxies /\ PinnedFor(s)' \subseteq Proxies
      BY <2>8
    <3>2. \A x \in Proxies : x # p => (x \in PinnedFor(s)' <=> x \in PinnedFor(s))
      BY <2>5
    <3>3. CASE last
      <4>1. \A x : x \in PinnedFor(s)' <=> x \in PinnedFor(s) \ {p}
        BY <2>6, <3>1, <3>2, <3>3
      <4>2. PinnedFor(s)' = PinnedFor(s) \ {p}
        BY <4>1, Zenon
      <4> QED
        BY <3>3, <4>2
    <3>4. CASE ~last
      <4>1. \A x : x \in PinnedFor(s)' <=> x \in PinnedFor(s)
        BY <2>1, <2>6, <3>1, <3>2, <3>4
      <4>2. PinnedFor(s)' = PinnedFor(s)
        BY <4>1, Zenon
      <4> QED
        BY <3>4, <4>2
    <3> QED
      BY <3>3, <3>4
  <2> QED
    BY <2>1, <2>9, <2>10
<1>6. Maps'
  BY <1>0, <1>1, <1>r DEF ShimInv, Maps, IsListed
<1>7. Pins'
  <2>1. Pins
    BY <1>0 DEF ShimInv
  <2>2. \A x \in Proxies : /\ IsListed(proxies[x].shim)' <=> IsListed(proxies[x].shim)
                           /\ IsShared(x)' <=> IsShared(x)
    BY <1>1, <1>r DEF IsListed, IsShared
  <2>3. \A r \in Stubs : Waits(todo', Op("release_pin", r)) = Waits(todo, Op("release_pin", r))
    BY <1>3 DEF UnpinMoves
  <2>4. \A x \in Proxies : proxies'[x].pins > 0 =>
            proxies'[x].refs <= 1 /\ ~IsListed(proxies[x].shim)' /\ ~IsShared(x)'
    BY <1>r, <2>1, <2>2 DEF Pins
  <2>5. \A r \in Stubs : stubs'[r].pins > 0 => stubs'[r].refs <= 2
    BY <1>r, <2>1 DEF Pins
  <2>6. \A r \in Stubs : Waits(todo', Op("release_pin", r)) > 0 => stubs'[r].refs = 0
    BY <1>r, <2>1, <2>3 DEF Pins
  <2> QED
    BY <2>4, <2>5, <2>6 DEF Pins, IsListed
<1>8. ASSUME NEW u \in Threads PROVE Steady(u)
  <2>1. \A r : IsListed(r)' <=> IsListed(r)
    BY <1>1 DEF IsListed
  <2>2. \A x : IsShared(x)' <=> IsShared(x)
    BY <1>1 DEF IsShared
  <2>3. ASSUME NEW x \in Proxies, NEW r \in Stubs, todo[u] # <<>>, Head(todo[u]) = Op("Pin", x), proxies[x].shim = r
        PROVE  /\ stubs'[r].refs = 2 /\ stubs'[r].pins = 0 /\ ~IsListed(r)'
               /\ proxies'[x].refs = 1 /\ proxies'[x].pins = 0 /\ ~IsShared(x)'
    <3>1. /\ stubs[r].refs = 2 /\ stubs[r].pins = 0 /\ ~IsListed(r)
          /\ proxies[x].refs = 1 /\ proxies[x].pins = 0 /\ ~IsShared(x)
      BY <1>0, <2>3, PinAhead
    <3>2. stubs'[r] = stubs[r] /\ proxies'[x] = proxies[x]
      BY <1>r, <3>1
    <3> QED
      BY <2>1, <2>2, <3>1, <3>2
  <2>4. ASSUME NEW r \in Stubs, Private(r) PROVE Private(r)'
    <3>1. stubs'[r] = stubs[r]
      BY <1>r, <2>4 DEF Private
    <3> QED
      BY <2>1, <2>4, <3>1 DEF Private
  <2>5. \A x \in Proxies : proxies[x].refs > 0 => proxies'[x].live
    BY <1>0, <1>r, ProxyFacts
  <2>6. \A x \in Proxies : proxies[x].pins = 0 => proxies'[x].pins = 0
    BY <1>r
  <2> QED
    BY <1>1, <1>r, <2>1, <2>3, <2>4, <2>5, <2>6 DEF Steady
<1>10. ObjectSum'
  <2>1. ObjectSum /\ HandsOf(Object)' = HandsOf(Object)
    BY <1>0, <1>3 DEF ShimInv, Sums, Framed
  <2>2. Waits(todo', Op("release", Object)) = Waits(todo, Op("release", Object))
    BY <1>3 DEF UnpinMoves
  <2> QED
    BY <1>1, <1>4, <2>1, <2>2 DEF ObjectSum
<1>11. ASSUME NEW r \in Stubs PROVE StubSum(r)'
  <2>1. ShimsAt(r)' = ShimsAt(r)
    BY <1>3 DEF Framed
  <2>4. /\ Waits(todo', Op("release_stub", r)) = Waits(todo, Op("release_stub", r))
        /\ Waits(todo', Op("release_pin", r)) = Waits(todo, Op("release_pin", r))
        /\ Waits(todo', Op("Destruct_stub", r)) = Waits(todo, Op("Destruct_stub", r)) + One(r = s /\ c)
    BY <1>3 DEF UnpinMoves
  <2>2. CASE r # s
    <3>2. Waits(todo, Op("Destruct_stub", r)) = 0 \/ Waits(todo, Op("Destruct_stub", r)) = 1
      BY <1>0 DEF ShimInv, Sums, StubSum, One
    <3>3. One(r = s /\ c) = 0
      BY <2>2 DEF One
    <3>4. Waits(todo', Op("Destruct_stub", r)) = Waits(todo, Op("Destruct_stub", r))
      BY <2>4, <3>2, <3>3
    <3> QED
      BY <1>0, <1>f, <1>4, <1>5, <2>1, <2>2, <2>4, <3>4, StubSame
  <2>3. CASE r = s
    <3>1. StubSum(s)
      BY <1>0 DEF ShimInv, Sums
    <3>2. Cardinality(PinnedFor(s)) \in Nat /\ Waits(todo, Op("release_pin", s)) \in Nat /\ IsFiniteSet(PinnedFor(s))
      BY <1>0, <3>1, StubFacts DEF StubSum
    <3>3. /\ IsFiniteSet(PinnedFor(s)') /\ Cardinality(PinnedFor(s)') = Cardinality(PinnedFor(s)) - One(last)
      <4>1. CASE last
        BY <1>5, <3>2, <4>1, FS_RemoveElement DEF One
      <4>2. CASE ~last
        BY <1>5, <3>2, <4>2 DEF One
      <4> QED
        BY <4>1, <4>2
    <3>5. stubs'[s].pins = Waits(todo', Op("release_pin", s)) + Cardinality(PinnedFor(s)')
      <4>1. stubs[s].pins = Waits(todo, Op("release_pin", s)) + Cardinality(PinnedFor(s))
        BY <3>1 DEF StubSum
      <4>2. stubs'[s].pins = stubs[s].pins - One(last) /\ One(last) \in Int
        BY <1>f DEF k, One
      <4> HIDE DEF last
      <4> QED
        BY <2>3, <2>4, <3>2, <3>3, <4>1, <4>2
    <3>4. Waits(todo, Op("Destruct_stub", s)) = 0
      BY <1>d, <3>1 DEF StubSum, One
    <3>6. Waits(todo', Op("Destruct_stub", s)) = One(stubs'[s].live /\ stubs'[s].refs = 0 /\ stubs'[s].pins = 0)
      <4>1. c <=> k = 0
        BY <1>i
      <4> QED
        BY <1>l, <1>f, <2>3, <2>4, <3>4, <4>1 DEF One
    <3>7. stubs'[s].refs = Cardinality(ShimsAt(s)') + Waits(todo', Op("release_stub", s))
               + Cardinality(ProxiesFor(s)')
      BY <1>d, <1>f, <1>4, <2>1, <2>3, <2>4, <3>1 DEF StubSum
    <3>8. stubs'[s].live /\ IsFiniteSet(ShimsAt(s)') /\ IsFiniteSet(ProxiesFor(s)')
      BY <1>l, <1>f, <1>4, <2>1, <2>3, <3>1 DEF StubSum
    <3> QED
      BY <2>3, <3>3, <3>5, <3>6, <3>7, <3>8 DEF StubSum
  <2> QED
    BY <2>2, <2>3
<1>12. ASSUME NEW x \in Proxies PROVE ProxySum(x)'
  <2>1. HandsOf(x)' = HandsOf(x) /\ AddsOf(x)' = AddsOf(x) /\ WiresOf(x)' = WiresOf(x)
    BY <1>3 DEF Framed
  <2>4. /\ Waits(todo', Op("release", x)) = Waits(todo, Op("release", x))
        /\ Waits(todo', Op("Internal_Release", x)) = Waits(todo, Op("Internal_Release", x))
        /\ Waits(todo, Op("Unpin_proxy", x)) \in Nat
        /\ Waits(todo', Op("Unpin_proxy", x)) = Waits(todo, Op("Unpin_proxy", x)) - One(x = p)
        /\ Waits(todo', Op("Destruct_proxy", x)) = Waits(todo, Op("Destruct_proxy", x)) + One(x = p /\ d)
    BY <1>3 DEF UnpinMoves
  <2>2. CASE x # p
    <3>1. Waits(todo, Op("Destruct_proxy", x)) = 0 \/ Waits(todo, Op("Destruct_proxy", x)) = 1
      BY <1>0 DEF ShimInv, Sums, ProxySum, One
    <3>2. One(x = p /\ d) = 0 /\ One(x = p) = 0
      BY <2>2 DEF One
    <3>3. Waits(todo', Op("Destruct_proxy", x)) = Waits(todo, Op("Destruct_proxy", x))
          /\ Waits(todo', Op("Unpin_proxy", x)) = Waits(todo, Op("Unpin_proxy", x))
      BY <2>4, <3>1, <3>2
    <3> QED
      BY <1>0, <1>g, <2>1, <2>2, <2>4, <3>3, ProxySame
  <2>3. CASE x = p
    <3>1. ProxySum(p)
      BY <1>0 DEF ShimInv, Sums
    <3>2. IsFiniteSet(WiresOf(p)) /\ Cardinality(WiresOf(p)) \in Nat
      BY <3>1, FS_CardinalityType DEF ProxySum
    <3>3. proxies'[p].refs = Cardinality(HandsOf(p)') + Waits(todo', Op("release", p)) + Cardinality(AddsOf(p)')
      BY <1>d, <1>g, <2>1, <2>3, <2>4, <3>1 DEF ProxySum
    <3>4. Waits(todo, Op("Destruct_proxy", p)) = 0
      BY <1>d, <3>1 DEF ProxySum, One
    <3>5. proxies'[p].pins = Cardinality(WiresOf(p)') + Waits(todo', Op("Unpin_proxy", p))
      <4>1. proxies[p].pins = Cardinality(WiresOf(p)) + Waits(todo, Op("Unpin_proxy", p))
        BY <3>1 DEF ProxySum
      <4>2. proxies'[p].pins = proxies[p].pins - 1
        BY <1>g DEF l
      <4>3. Waits(todo', Op("Unpin_proxy", p)) = Waits(todo, Op("Unpin_proxy", p)) - 1
        BY <2>3, <2>4 DEF One
      <4>4. Waits(todo, Op("Unpin_proxy", p)) \in Nat /\ WiresOf(p)' = WiresOf(p)
        BY <2>1, <2>3, <2>4
      <4> QED
        BY <3>2, <4>1, <4>2, <4>3, <4>4
    <3>6. Waits(todo', Op("Destruct_proxy", p)) =
              One(proxies'[p].live /\ proxies'[p].refs = 0 /\ proxies'[p].pins = 0 /\ proxies'[p].ints = 0)
      <4>1. d <=> proxies'[p].live /\ proxies'[p].refs = 0 /\ proxies'[p].pins = 0 /\ proxies'[p].ints = 0
        BY <1>l, <1>g, <1>i
      <4> QED
        BY <2>3, <2>4, <3>4, <4>1 DEF One
    <3>7. proxies'[p].ints = Waits(todo', Op("Internal_Release", p)) /\ IsFiniteSet(HandsOf(p)')
               /\ IsFiniteSet(AddsOf(p)')
          /\ IsFiniteSet(WiresOf(p)')
      BY <1>g, <2>1, <2>3, <2>4, <3>1 DEF ProxySum
    <3>8. proxies'[p].live /\ proxies'[p].shim \in Stubs
      BY <1>l, <1>g
    <3> QED
      BY <2>3, <3>3, <3>5, <3>6, <3>7, <3>8 DEF ProxySum
  <2> QED
    BY <2>2, <2>3
<1>13. Undisturbed(t, {a, b})
  <2>1. \A x \in Proxies : proxies'[x].refs > 0 => proxies[x].refs > 0 /\ proxies'[x].shim = proxies[x].shim
    BY <1>r
  <2>2. \A y \in Proxies : proxies[y].pins > 0 => proxies'[y].shim = proxies[y].shim
    BY <1>r
  <2>3. \A y : Op("release", y) \notin {a, b} /\ Op("release_stub", y) \notin {a, b}
    BY OpsAre DEF a, b
  <2> QED
    BY <1>0, <1>a, <2>1, <2>2, <2>3, Undisturbing
<1>14. object' \in Int /\ holders' \subseteq Modules \X (Proxies \cup {Object}) \X Stubs
  BY <1>1 DEF ShimInv, ShimTypes
<1> QED
  BY <1>0, <1>3, <1>a, <1>b, <1>6, <1>7, <1>8, <1>f, <1>g, <1>10, <1>11, <1>12, <1>13, <1>14, ReleaseStep

================================================================================
