------------------------------- MODULE SafeShims ------------------------------
(***************************************************************************)
(* An object crosses modules that need not be of one compiler as a shim,   *)
(* with a stub at the side it comes from and a proxy at the other          *)
(* (safe_ps.h, safe.inl, Safe.cpp). Each module has a SafeHolder, which    *)
(* pairs objects and proxies with shims. One object, of module Home; the   *)
(* calls a thread is in the middle of are a list, and each atomic          *)
(* operation of them a step.                                               *)
(***************************************************************************)
EXTENDS Integers, Sequences, FiniteSets

CONSTANTS
    Threads, Modules,
    Home,        \* the module of the object, one of Modules
    Stubs,       \* numbers above 0
    Proxies,     \* numbers above 0
    MaxCalls     \* bound: calls begun

Object == 0      \* the object, among the proxies
Nothing == -1

VARIABLES
    object,      \* references to the object
    stubs,       \* [Stubs -> Safe_Stub_Base]
    proxies,     \* [Proxies -> Safe_Proxy_Base]
    holders,     \* <<module, object or proxy, stub>>: the two maps of SafeHolder
    todo,        \* [Threads -> what is left of its call]
    shim,        \* [Threads -> the shim it has in its hands]
    holds,       \* [Threads -> <<module, the reference it holds there>>]
    wired,       \* [Threads -> the proxy that its wire stub has pinned]
    late,        \* history: something was found in a map that had ended by then
    calls

vars == <<object, stubs, proxies, holders, todo, shim, holds, wired, late, calls>>

NoStub == [live |-> FALSE, refs |-> 0, pins |-> 0]
NoProxy == [live |-> FALSE, refs |-> 0, ints |-> 0, pins |-> 0, shim |-> 0]

Init ==
    /\ object = 1   \* its own module keeps it
    /\ stubs = [s \in Stubs |-> NoStub] /\ proxies = [p \in Proxies |-> NoProxy]
    /\ holders = {}
    /\ todo = [t \in Threads |-> <<>>] /\ shim = [t \in Threads |-> 0]
    /\ holds = [t \in Threads |-> <<Home, Nothing>>]
    /\ wired = [t \in Threads |-> Nothing]
    /\ late = FALSE /\ calls = 0

Op(name, arg) == [op |-> name, arg |-> arg]
Now(t, name) == ~late /\ todo[t] # <<>> /\ Head(todo[t]).op = name
Arg(t) == Head(todo[t]).arg
Then(t, ops) == todo' = [todo EXCEPT ![t] = ops \o Tail(@)]

-----------------------------------------------------------------------------
\* What threads call, when they are in no call.

Begins(t) == ~late /\ todo[t] = <<>> /\ calls < MaxCalls /\ calls' = calls + 1
Hold(t) == holds[t][2]

\* The object's module hands it out.
Take(t) ==
    /\ Begins(t) /\ Hold(t) = Nothing
    /\ object' = object + 1
    /\ holds' = [holds EXCEPT ![t] = <<Home, Object>>]
    /\ UNCHANGED <<stubs, proxies, holders, todo, shim, wired, late>>

\* As an argument of a call from one module to another; the reference held there
\* takes the place of that held here.
Pass(t, m) ==
    /\ Begins(t) /\ Hold(t) # Nothing /\ m # holds[t][1]
    /\ todo' = [todo EXCEPT ![t] =
           <<Op("find", Hold(t)), Op("bind", m), Op("release_shim", 0), Op("release", Hold(t))>>]
    /\ UNCHANGED <<object, stubs, proxies, holders, shim, holds, wired, late>>

Drop(t) ==
    /\ Begins(t) /\ Hold(t) # Nothing
    /\ holds' = [holds EXCEPT ![t] = <<Home, Nothing>>]
    /\ todo' = [todo EXCEPT ![t] = <<Op("release", Hold(t))>>]
    /\ UNCHANGED <<object, stubs, proxies, holders, shim, wired, late>>

\* CreateWireStub: the object is the controller. Its shim is not that of an IObject
\* and in no map; the wire stub pins its proxy, and keeps no reference.
CreateWireStub(t) ==
    /\ Begins(t) /\ Hold(t) = Object /\ wired[t] = Nothing
    /\ todo' = [todo EXCEPT ![t] =
           <<Op("new_stub", FALSE), Op("new_proxy", 0), Op("release_shim", 0)>>]
    /\ UNCHANGED <<object, stubs, proxies, holders, shim, holds, wired, late>>

WireStubEnds(t) ==
    /\ Begins(t) /\ wired[t] # Nothing
    /\ wired' = [wired EXCEPT ![t] = Nothing]
    /\ todo' = [todo EXCEPT ![t] = <<Op("Unpin_proxy", wired[t])>>]
    /\ UNCHANGED <<object, stubs, proxies, holders, shim, holds, late>>

-----------------------------------------------------------------------------
\* create_safe_stub of an IObject.

ListedStubs(m, x) == {s \in Stubs : <<m, x, s>> \in holders}
ListedFor(m, s) == {x \in Proxies \cup {Object} : <<m, x, s>> \in holders}

\* A thread is about to use what it found. Another stub or proxy that comes to be
\* at its address is not taken for it: what ended before it was used is late.
Sought(op) == \E t \in Threads : todo[t] # <<>> /\ Head(todo[t]) = op

\* The map is looked at under its lock, and the reference taken after it. A proxy
\* that is in no map has its shim from GetShim.
find(t) ==
    LET x == Arg(t)
        listed == ListedStubs(holds[t][1], x)
    IN  /\ Now(t, "find")
        /\ IF listed # {} THEN \E s \in listed : Then(t, <<Op("AddRef_found", s)>>)
           ELSE IF x = Object THEN Then(t, <<Op("new_stub", TRUE)>>)
           ELSE Then(t, <<Op("AddRef_found", proxies[x].shim)>>)
        /\ UNCHANGED <<object, stubs, proxies, holders, shim, holds, wired, late, calls>>

\* addref_safe of what a map gave: it may have ended, or be about to. From then
\* on nothing is defined.
AddRef_found(t) ==
    LET s == Arg(t) IN
    /\ Now(t, "AddRef_found")
    /\ late' = (stubs[s].refs = 0)
    /\ stubs' = [stubs EXCEPT ![s].refs = @ + 1]
    /\ object' = IF stubs[s].pins = 0 THEN object ELSE object + 1
    /\ shim' = [shim EXCEPT ![t] = s]
    /\ Then(t, <<>>)
    /\ UNCHANGED <<proxies, holders, holds, wired, calls>>

new_stub(t) ==
    /\ Now(t, "new_stub")
    /\ \E s \in Stubs :
          /\ ~stubs[s].live /\ ~Sought(Op("AddRef_found", s))
          /\ stubs' = [stubs EXCEPT ![s] = [live |-> TRUE, refs |-> 1, pins |-> 0]]
          /\ shim' = [shim EXCEPT ![t] = s]
          /\ Then(t, IF Arg(t) THEN <<Op("add2", s)>> ELSE <<>>)
    /\ object' = object + 1
    /\ UNCHANGED <<proxies, holders, holds, wired, late, calls>>

\* Mutant: the object is listed again.
add2Anyway(t) ==
    /\ Now(t, "add2")
    /\ holders' = holders \cup {<<Home, Object, Arg(t)>>}
    /\ Then(t, <<>>)
    /\ UNCHANGED <<object, stubs, proxies, shim, holds, wired, late, calls>>

\* safe_holder::add: another thread's stub for the object is taken, if there is one.
add2(t) ==
    LET listed == ListedStubs(Home, Object) IN
    /\ Now(t, "add2")
    /\ IF listed = {}
         THEN holders' = holders \cup {<<Home, Object, Arg(t)>>} /\ Then(t, <<>>)
         ELSE /\ \E s \in listed : Then(t, <<Op("AddRef_found", s), Op("release_stub", Arg(t))>>)
              /\ UNCHANGED holders
    /\ UNCHANGED <<object, stubs, proxies, shim, holds, wired, late, calls>>

-----------------------------------------------------------------------------
\* create_safe_proxy of the shim at hand.

NewProxy(t, p) ==
    /\ ~proxies[p].live /\ \A m \in Modules : ~Sought(Op("AddRef_listed", <<m, p>>))
    /\ proxies' = [proxies EXCEPT ![p] = [NoProxy EXCEPT !.live = TRUE, !.refs = 1, !.shim = shim[t]]]
    /\ stubs' = [stubs EXCEPT ![shim[t]].refs = @ + 1]
    /\ object' = IF stubs[shim[t]].pins = 0 THEN object ELSE object + 1

bind(t) ==
    /\ Now(t, "bind")
    /\ \E p \in Proxies : NewProxy(t, p) /\ Then(t, <<Op("add1", <<Arg(t), p>>)>>)
    /\ UNCHANGED <<holders, shim, holds, wired, late, calls>>

\* A proxy for the shim, or the object the shim is of, may be there already.
add1(t) ==
    LET m == Arg(t)[1]
        p == Arg(t)[2]
        listed == ListedFor(m, proxies[p].shim)
    IN  /\ Now(t, "add1")
        /\ IF listed = {}
             THEN /\ holders' = holders \cup {<<m, p, proxies[p].shim>>}
                  /\ holds' = [holds EXCEPT ![t] = <<m, p>>]
                  /\ Then(t, <<>>)
             ELSE /\ \E x \in listed : Then(t, <<Op("AddRef_listed", <<m, x>>), Op("release", p)>>)
                  /\ UNCHANGED <<holders, holds>>
        /\ UNCHANGED <<object, stubs, proxies, shim, wired, late, calls>>

AddRef_listed(t) ==
    LET x == Arg(t)[2] IN
    /\ Now(t, "AddRef_listed")
    /\ IF x = Object
         THEN object' = object + 1 /\ UNCHANGED <<proxies, late>>
         ELSE /\ late' = (proxies[x].refs = 0)
              /\ proxies' = [proxies EXCEPT ![x].refs = @ + 1]
              /\ UNCHANGED object
    /\ holds' = [holds EXCEPT ![t] = Arg(t)]
    /\ Then(t, <<>>)
    /\ UNCHANGED <<stubs, holders, shim, wired, calls>>

\* The proxy of a controller: pinned by the wire stub's constructor, and let go of.
new_proxy(t) ==
    /\ Now(t, "new_proxy")
    /\ \E p \in Proxies : NewProxy(t, p) /\ Then(t, <<Op("Pin", p), Op("release", p)>>)
    /\ UNCHANGED <<holders, shim, holds, wired, late, calls>>

\* The first pin of a proxy pins its stub, whose first references the object again.
Pin(t) ==
    LET p == Arg(t)
        s == proxies[p].shim
    IN  /\ Now(t, "Pin")
        /\ proxies' = [proxies EXCEPT ![p].pins = @ + 1]
        /\ stubs' = [stubs EXCEPT ![s].pins = @ + (IF proxies[p].pins = 0 THEN 1 ELSE 0)]
        /\ object' = IF proxies[p].pins = 0 /\ stubs[s].pins = 0 THEN object + 1 ELSE object
        /\ wired' = [wired EXCEPT ![t] = p]
        /\ Then(t, <<>>)
        /\ UNCHANGED <<holders, shim, holds, late, calls>>

-----------------------------------------------------------------------------
\* Release, and what it brings about.

release_shim(t) ==
    /\ Now(t, "release_shim")
    /\ shim' = [shim EXCEPT ![t] = 0]
    /\ Then(t, <<Op("release_stub", shim[t])>>)
    /\ UNCHANGED <<object, stubs, proxies, holders, holds, wired, late, calls>>

release(t) ==
    LET p == Arg(t) IN
    /\ Now(t, "release")
    /\ IF p = Object
         THEN object' = object - 1 /\ Then(t, <<>>) /\ UNCHANGED proxies
         ELSE /\ proxies' = [proxies EXCEPT ![p].refs = @ - 1,
                                            ![p].ints = @ + (IF proxies[p].refs = 1 THEN 1 ELSE 0)]
              /\ Then(t, IF proxies[p].refs = 1
                           THEN <<Op("release_stub", proxies[p].shim), Op("Internal_Release", p)>>
                         ELSE IF proxies[p].pins # 0 THEN <<Op("release_stub", proxies[p].shim)>>
                         ELSE <<>>)
              /\ UNCHANGED object
    /\ UNCHANGED <<stubs, holders, shim, holds, wired, late, calls>>

Internal_Release(t) ==
    LET p == Arg(t) IN
    /\ Now(t, "Internal_Release")
    /\ proxies' = [proxies EXCEPT ![p].ints = @ - 1]
    /\ Then(t, IF proxies[p].ints = 1 /\ proxies[p].refs = 0 /\ proxies[p].pins = 0
                 THEN <<Op("Destruct_proxy", p)>> ELSE <<>>)
    /\ UNCHANGED <<object, stubs, holders, shim, holds, wired, late, calls>>

Destruct_proxy(t) ==
    LET p == Arg(t) IN
    /\ Now(t, "Destruct_proxy")
    /\ holders' = {h \in holders : h[2] # p}
    /\ proxies' = [proxies EXCEPT ![p] = NoProxy]
    /\ Then(t, <<>>)
    /\ UNCHANGED <<object, stubs, shim, holds, wired, late, calls>>

\* The last reference gives up the object's, and the stub is deleted if it is not
\* pinned by then; one that is not the last gives one up while it is pinned.
release_stub(t) ==
    LET s == Arg(t)
        last == stubs[s].refs = 1
    IN  /\ Now(t, "release_stub")
        /\ stubs' = [stubs EXCEPT ![s].refs = @ - 1, ![s].pins = @ + (IF last THEN 1 ELSE 0)]
        /\ Then(t, IF last THEN <<Op("release", Object), Op("release_pin", s)>>
                   ELSE IF stubs[s].pins # 0 THEN <<Op("release", Object)>>
                   ELSE <<>>)
        /\ UNCHANGED <<object, proxies, holders, shim, holds, wired, late, calls>>

release_pin(t) ==
    LET s == Arg(t) IN
    /\ Now(t, "release_pin")
    /\ stubs' = [stubs EXCEPT ![s].pins = @ - 1]
    /\ Then(t, IF stubs[s].pins = 1 THEN <<Op("Destruct_stub", s)>> ELSE <<>>)
    /\ UNCHANGED <<object, proxies, holders, shim, holds, wired, late, calls>>

Destruct_stub(t) ==
    LET s == Arg(t) IN
    /\ Now(t, "Destruct_stub")
    /\ holders' = {h \in holders : h[1] # Home \/ h[3] # s}
    /\ stubs' = [stubs EXCEPT ![s] = NoStub]
    /\ Then(t, <<>>)
    /\ UNCHANGED <<object, proxies, shim, holds, wired, late, calls>>

\* The proxy's last pin unpins the stub, which goes if nothing refers to it; the
\* proxy likewise.
Unpin_proxy(t) ==
    LET p == Arg(t)
        s == proxies[p].shim
        last == proxies[p].pins = 1
    IN  /\ Now(t, "Unpin_proxy")
        /\ proxies' = [proxies EXCEPT ![p].pins = @ - 1]
        /\ stubs' = [stubs EXCEPT ![s].pins = @ - (IF last THEN 1 ELSE 0)]
        /\ Then(t, (IF last /\ stubs[s].pins = 1 /\ stubs[s].refs = 0
                      THEN <<Op("Destruct_stub", s)>> ELSE <<>>)
                   \o (IF last /\ proxies[p].ints = 0 /\ proxies[p].refs = 0
                         THEN <<Op("Destruct_proxy", p)>> ELSE <<>>))
        /\ UNCHANGED <<object, holders, shim, holds, wired, late, calls>>

Next ==
    \E t \in Threads :
        \/ Take(t) \/ Drop(t) \/ CreateWireStub(t) \/ WireStubEnds(t)
        \/ \E m \in Modules : Pass(t, m)
        \/ find(t) \/ AddRef_found(t) \/ new_stub(t) \/ add2(t)
        \/ bind(t) \/ add1(t) \/ AddRef_listed(t) \/ new_proxy(t) \/ Pin(t)
        \/ release_shim(t) \/ release(t) \/ Internal_Release(t) \/ Destruct_proxy(t)
        \/ release_stub(t) \/ release_pin(t) \/ Destruct_stub(t) \/ Unpin_proxy(t)

Spec == Init /\ [][Next]_vars

-----------------------------------------------------------------------------
TypeOK ==
    /\ object \in Nat
    /\ \A s \in Stubs : stubs[s].refs \in Nat /\ stubs[s].pins \in Nat
    /\ \A p \in Proxies : proxies[p].refs \in Nat /\ proxies[p].shim \in Stubs \cup {0}
    /\ holders \subseteq Modules \X (Proxies \cup {Object}) \X Stubs
    /\ calls \in 0..MaxCalls

\* Threads that hold the object in one module hold one pointer, and in its own
\* module it is the object, whichever way it came there (safe_ps.h 369-383, 690-705).
OneIdentity ==
    \A t, u \in Threads :
        /\ ~late /\ Hold(t) # Nothing /\ holds[t][1] = Home => Hold(t) = Object
        /\ ~late /\ Nothing \notin {Hold(t), Hold(u)} /\ holds[t][1] = holds[u][1] => Hold(t) = Hold(u)

\* Whatever is referred to, or pinned, is alive down to the object: only what a
\* lookup finds can have ended (safe_ps.h 195-222, 402-424).
NothingDangles ==
    ~late =>
        /\ object >= 1
        /\ \A p \in Proxies : proxies[p].refs > 0 \/ proxies[p].pins > 0 =>
               proxies[p].live /\ stubs[proxies[p].shim].live
        /\ \A s \in Stubs : stubs[s].refs > 0 => stubs[s].live /\ object >= 2
        /\ \A t \in Threads :
               /\ Hold(t) \in Proxies => proxies[Hold(t)].refs > 0
               /\ wired[t] # Nothing => proxies[wired[t]].pins > 0
               /\ shim[t] # 0 => stubs[shim[t]].refs > 0

\* When no call is under way the object is referred to by its module, by threads,
\* and once by a stub that others hold proxies of; a wire stub does not keep its
\* controller. When nobody holds it nothing is left.
NothingLeaks ==
    LET holders_of(x) == {t \in Threads : Hold(t) = x} IN
    ~late /\ (\A t \in Threads : todo[t] = <<>>) =>
        /\ object = 1 + Cardinality(holders_of(Object))
                      + (IF \E t \in Threads : Hold(t) \in Proxies THEN 1 ELSE 0)
        /\ \A p \in Proxies : proxies[p].live =>
               \E t \in Threads : Hold(t) = p \/ wired[t] = p
        /\ \A s \in Stubs : stubs[s].live => \E p \in Proxies : proxies[p].live /\ proxies[p].shim = s

\* All three: the shims of an object are as one with it.
ShimsAreOne == OneIdentity /\ NothingDangles /\ NothingLeaks

===============================================================================
