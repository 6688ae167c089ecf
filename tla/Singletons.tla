------------------------------ MODULE Singletons ------------------------------
(***************************************************************************)
(* The singletons of a module (Threading.cpp, threading.inl): made by the  *)
(* first thread that asks for them, destroyed by CloseSingletons when      *)
(* Omega is uninitialised, or as their module is unloaded, or by whichever *)
(* comes first.                                                            *)
(***************************************************************************)
EXTENDS FiniteSets, Integers, Sequences, SequencesExt

CONSTANTS
    Threads,
    Names,     \* the singletons, each of a type of its own,
    Lifetime,  \* until "initialise" is undone, or the "module" unloaded,
    None,
    MaxMade    \* bound: instances made

VARIABLES
    instance,  \* the static pointer of each singleton, to an instance or None,
    made,      \* the instances made: what of, and what has become of each
    lock,      \* the thread that has the SpinLock of all singletons, or None
    uninit,    \* m_stackUninitCalls: the instances it has an entry of,
    stack,     \* and the stack of the module; an instance has one multi_dctor
    freed,     \* the multi_dctors that have been freed
    at, on,    \* each thread's place, and what it asks for, makes or destroys
    raced,     \* history: singletons made when there was one, or whose making failed
               \* when it was to be destroyed already,
    crossed,   \* whether one was closing as the module was unloaded,
    broken     \* and whether what was freed has been used: the process ends

vars == <<instance, made, lock, uninit, stack, freed, at, on, raced, crossed, broken>>

Init ==
    /\ instance = [s \in Names |-> None] /\ made = <<>>
    /\ lock = None /\ uninit = <<>> /\ stack = <<>> /\ freed = {}
    /\ at = [t \in Threads |-> "idle"] /\ on = [t \in Threads |-> None]
    /\ raced = {} /\ crossed = FALSE /\ broken = FALSE

Goes(t, place, what) == at' = [at EXCEPT ![t] = place] /\ on' = [on EXCEPT ![t] = what]
Unloading == \E t \in Threads : at[t] \in {"unload", "destroys"}
Closing == \E t \in Threads : at[t] \in {"close", "guard2", "destructs"}
Becomes(i, what) == made' = [made EXCEPT ![i].is = what]
WithoutEntry(seq, i) == RemoveFirst(seq, i)
Popped(seq) == SubSeq(seq, 1, Len(seq) - 1)

-----------------------------------------------------------------------------
\* OOCore_sngtn_once. It reads the pointer once, and does not again when it has
\* the lock: what another thread has made in between is not seen.

Look(t, s) ==
    /\ at[t] = "idle" /\ ~Unloading /\ instance[s] = None
    /\ Goes(t, "once", s)
    /\ UNCHANGED <<instance, made, lock, uninit, stack, freed, raced, crossed, broken>>

\* The memory is what instance() returns from here on.
Allocate(t) ==
    LET s == on[t]
        i == Len(made) + 1 IN
    /\ at[t] = "once" /\ lock = None /\ i <= MaxMade
    /\ lock' = t /\ instance' = [instance EXCEPT ![s] = i]
    /\ made' = Append(made, [of |-> s, is |-> "raw"])
    /\ raced' = IF instance[s] = None THEN raced ELSE raced \cup {s}
    /\ Goes(t, "init", i)
    /\ UNCHANGED <<uninit, stack, freed, crossed, broken>>

\* The constructor throws.
InitThrows(t) ==
    LET i == on[t] IN
    /\ at[t] = "init"
    /\ lock' = None /\ instance' = [instance EXCEPT ![made[i].of] = None] /\ Becomes(i, "gone")
    /\ Goes(t, "idle", None)
    /\ UNCHANGED <<uninit, stack, freed, raced, crossed, broken>>

\* do_init, and add_destructor: an entry for the end of Omega, and one for that of
\* the module.
do_init(t) ==
    LET i == on[t] IN
    /\ at[t] = "init"
    /\ Becomes(i, "built")
    /\ uninit' = IF Lifetime[made[i].of] = "initialise" THEN Append(uninit, i) ELSE uninit
    /\ Goes(t, "add", i)
    /\ UNCHANGED <<instance, lock, stack, freed, raced, crossed, broken>>

add_destructor(t) ==
    LET i == on[t] IN
    /\ at[t] = "add"
    /\ stack' = Append(stack, i) /\ lock' = None
    /\ Goes(t, "idle", None)
    /\ UNCHANGED <<instance, made, uninit, freed, raced, crossed, broken>>

\* The second entry cannot be made: the first is taken back, and the memory is
\* freed without a destructor.
AddThrows(t) ==
    LET i == on[t] IN
    /\ at[t] = "add"
    /\ uninit' = WithoutEntry(uninit, i) /\ freed' = freed \cup {i}
    /\ instance' = [instance EXCEPT ![made[i].of] = None] /\ Becomes(i, "gone")
    /\ raced' = IF Lifetime[made[i].of] = "initialise" /\ i \notin ToSet(uninit) THEN raced \cup {made[i].of} ELSE raced
    /\ lock' = None /\ Goes(t, "idle", None)
    /\ UNCHANGED <<stack, crossed, broken>>

-----------------------------------------------------------------------------
\* What there is of the singleton is destroyed, by way of the static pointer.
do_term(s) ==
    /\ instance' = [instance EXCEPT ![s] = None]
    /\ IF instance[s] = None THEN broken' = TRUE /\ UNCHANGED made
       ELSE Becomes(instance[s], "gone") /\ UNCHANGED broken

\* A mutant: the module's entry is left.
destruct_only(i) ==
    IF i \in freed THEN broken' = TRUE /\ UNCHANGED <<instance, made, uninit, stack, freed>>
    ELSE /\ uninit' = WithoutEntry(uninit, i) /\ UNCHANGED stack
         /\ do_term(made[i].of) /\ freed' = freed \cup {i}

\* InitialiseDestructor::destruct: both of the entries go first.
destruct(i) ==
    IF i \in freed THEN broken' = TRUE /\ UNCHANGED <<instance, made, uninit, stack, freed>>
    ELSE /\ uninit' = WithoutEntry(uninit, i) /\ stack' = WithoutEntry(stack, i)
         /\ do_term(made[i].of) /\ freed' = freed \cup {i}

\* SingletonHolder::close_singletons, by the last Uninitialize, or each of a process
\* that the server hosts: entries are popped one by one, the latest first ...
CloseSingletons(t) ==
    /\ at[t] = "idle"
    /\ Goes(t, "close", None) /\ crossed' = (crossed \/ Unloading)
    /\ UNCHANGED <<instance, made, lock, uninit, stack, freed, raced, broken>>

close_singletons(t) ==
    /\ at[t] = "close"
    /\ IF uninit = <<>> THEN Goes(t, "idle", None) /\ UNCHANGED uninit
       ELSE uninit' = Popped(uninit) /\ Goes(t, "guard2", Last(uninit))
    /\ UNCHANGED <<instance, made, lock, stack, freed, raced, crossed, broken>>

\* ... and destroyed with the lock of the singletons held.
Guard2(t) ==
    /\ at[t] = "guard2" /\ lock = None
    /\ lock' = t /\ Goes(t, "destructs", on[t])
    /\ UNCHANGED <<instance, made, uninit, stack, freed, raced, crossed, broken>>

Destructs(t) ==
    /\ at[t] = "destructs"
    /\ destruct(on[t])
    /\ lock' = None /\ Goes(t, "close", None)
    /\ UNCHANGED <<raced, crossed>>

\* OOCore_mod_destruct__dctor, as the module is unloaded, which asks for no
\* singleton any more: without that lock.
Unload(t) ==
    /\ at[t] = "idle" /\ ~Unloading /\ \A u \in Threads : at[u] \notin {"once", "init", "add"}
    /\ Goes(t, "unload", None) /\ crossed' = (crossed \/ Closing)
    /\ UNCHANGED <<instance, made, lock, uninit, stack, freed, raced, broken>>

mod_destruct__dctor(t) ==
    /\ at[t] = "unload"
    /\ IF stack = <<>> THEN Goes(t, "idle", None) /\ UNCHANGED stack
       ELSE stack' = Popped(stack) /\ Goes(t, "destroys", Last(stack))
    /\ UNCHANGED <<instance, made, lock, uninit, freed, raced, crossed, broken>>

Destroys(t) ==
    LET i == on[t] IN
    /\ at[t] = "destroys"
    /\ IF Lifetime[made[i].of] = "initialise" THEN destruct(i)
       ELSE do_term(made[i].of) /\ UNCHANGED <<uninit, stack, freed>>
    /\ Goes(t, "unload", None)
    /\ UNCHANGED <<lock, raced, crossed>>

Step(t) ==
    \/ \E s \in Names : Look(t, s)
    \/ Allocate(t) \/ InitThrows(t) \/ do_init(t) \/ add_destructor(t) \/ AddThrows(t)
    \/ CloseSingletons(t) \/ close_singletons(t) \/ Guard2(t) \/ Destructs(t)
    \/ Unload(t) \/ mod_destruct__dctor(t) \/ Destroys(t)

Next == ~broken /\ \E t \in Threads : Step(t)

Spec == Init /\ [][Next]_vars

-----------------------------------------------------------------------------
TypeOK ==
    /\ instance \in [Names -> (DOMAIN made) \cup {None}]
    /\ made \in Seq([of : Names, is : {"raw", "built", "gone"}]) /\ Len(made) <= MaxMade
    /\ lock \in Threads \cup {None}
    /\ {uninit, stack} \subseteq Seq(DOMAIN made) /\ freed \subseteq DOMAIN made
    /\ at \in [Threads -> {"idle", "once", "init", "add", "close", "guard2", "destructs", "unload", "destroys"}]
    /\ raced \subseteq Names

\* Whoever makes singletons and destroys them, but for those that were made twice
\* or failed late, and as long as no thread closes them while their module is
\* unloaded: one that is made is the only one, has the entries it is to be
\* destroyed by until it is, leaves none when it has been, and is destroyed once.
MadeOnce(s) ==
    Cardinality({i \in DOMAIN made : made[i].of = s /\ made[i].is # "gone"}) = IF instance[s] = None THEN 0 ELSE 1

HasItsEntry(i) ==
    \/ \E t \in Threads : on[t] = i /\ at[t] \in {"init", "add", "guard2", "destructs", "destroys"}
    \/ i \in ToSet(stack) /\ (Lifetime[made[i].of] = "initialise" => i \in ToSet(uninit))

SingletonsAreOne ==
    ~crossed =>
        /\ broken => raced # {}
        /\ \A s \in Names \ raced : MadeOnce(s)
        /\ \A i \in DOMAIN made :
               /\ made[i].is # "gone" /\ made[i].of \notin raced => HasItsEntry(i)
               /\ made[i].is = "gone" /\ made[i].of \notin raced /\ ~broken =>
                      i \notin ToSet(stack) \cup ToSet(uninit)
===============================================================================
