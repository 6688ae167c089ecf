------------------------------ MODULE RemoteRefs ------------------------------
(***************************************************************************)
(* What object managers promise about an object that another process       *)
(* holds: its stub is there for as long as the process refers to it.       *)
(***************************************************************************)
CONSTANT Ids    \* the ids of stubs

VARIABLES
    life,   \* what has become of the stub of each id
    held,   \* does anyone outside refer to it?
    open    \* is the channel connected?

vars == <<life, held, open>>

Init ==
    /\ life = [i \in Ids |-> "none"]
    /\ held = [i \in Ids |-> FALSE]
    /\ open = TRUE

\* An object is marshalled for the first time: it gets an id never used before.
Export(i) ==
    /\ life[i] = "none"
    /\ life' = [life EXCEPT ![i] = "live"]
    /\ UNCHANGED <<held, open>>

\* Its reference is given to the other side ...
Refer(i) ==
    /\ life[i] = "live" /\ ~held[i]
    /\ held' = [held EXCEPT ![i] = TRUE]
    /\ UNCHANGED <<life, open>>

\* ... and the last of its references is given back.
Unrefer(i) ==
    /\ held[i]
    /\ held' = [held EXCEPT ![i] = FALSE]
    /\ UNCHANGED <<life, open>>

\* A stub is withdrawn when nobody refers to it.
Withdraw(i) ==
    /\ life[i] = "live" /\ ~held[i]
    /\ life' = [life EXCEPT ![i] = "gone"]
    /\ UNCHANGED <<held, open>>

\* What is left open: the object is marshalled again while its last reference
\* is being given back, and the new reference may lead nowhere; or such a
\* reference is charged to another stub of the object.
Forget(S) ==
    /\ \A i \in S : life[i] # "none"
    /\ life' = [i \in Ids |-> IF i \in S THEN "lost" ELSE life[i]]
    /\ held' = [i \in Ids |-> i \notin S /\ held[i]]
    /\ UNCHANGED open

\* The channel closes: every stub is withdrawn, referred to or not, and of
\* those that are there nothing more is promised.
Close ==
    /\ open
    /\ open' = FALSE
    /\ UNCHANGED life
    /\ held' = [i \in Ids |-> FALSE]

Next ==
    \/ \E i \in Ids : Export(i) \/ Refer(i) \/ Unrefer(i) \/ Withdraw(i)
    \/ \E S \in SUBSET Ids : Forget(S)
    \/ Close

Spec == Init /\ [][Next]_vars

===============================================================================
