----------------------------- MODULE MCRootServer -----------------------------
(***************************************************************************)
(* The root's parts beside routing: the registry, services and processes   *)
(* of the users. They share no state, so a behaviour is one of one of      *)
(* them, the others resting.                                               *)
(***************************************************************************)
EXTENDS UserProcesses, Sequences

CONSTANTS
    u, v, s, n1, n2, miss, c1, c2, c3,
    Callers, Sandbox, Perm, Paths, NewNames, NewRights, MaxKey, MaxChanges, MaxHandles,
    Names, Graphs, MaxStarts, MaxStops

VARIABLES part, hives, handles, changes, orphans, m_mapServices, starts, deps, visits, boot,
          stopAll, stopping, stopped, stops, lost

\* The system's database may be read by one user, and not by the other; the
\* sandbox's account may do both.
Modes == [c \in {u, v, s} |-> [x \in {"system", u, v} |->
             IF x = c \/ c = s THEN {"read", "write"} ELSE IF c = u THEN {"read"} ELSE {}]]

\* A name that a link leads on, one of protected keys, two new keys, the links.
NamedPaths == {<<"Local User", "a">>, <<"All Users", "a">>, <<"a", "b">>, <<".links">>}
Masks == {{}, {"read", "write"}}

\* Two services, each with any dependencies, on one that does not exist as well.
AnyGraphs == [{n1, n2} -> SUBSET {n1, n2, miss}]

Reg == INSTANCE Registry
Svc == INSTANCE ServiceControl

\* Three clients of one user, two of them in one session.
Logins == [c \in {c1, c2, c3} |-> [uid |-> "u", session |-> IF c = c3 THEN "y" ELSE "x"]]

\* Who may write a database may read it; a new installation has its four keys.
ASSUME RootAssumption ==
    /\ Perm \in [Callers -> [Reg!Hives -> {{}, {"read"}, {"read", "write"}}]]
    /\ Paths \subseteq Seq(STRING) /\ NewRights \subseteq SUBSET Reg!Rights
    /\ MaxKey \in Nat /\ MaxKey >= 4 /\ MaxChanges \in Nat
    /\ \A g \in Graphs : DOMAIN g \subseteq Names
    /\ MaxStarts \in Nat /\ MaxStops \in Nat /\ None \notin Names \cup (1..MaxStarts)

regVars == <<hives, handles, changes, orphans>>
svcVars == <<m_mapServices, starts, deps, visits, boot, stopAll, stopping, stopped, stops, lost>>

\* What rests has nothing under way that fairness would have go on.
RootInit ==
    /\ part \in {"registry", "services", "processes"}
    /\ Reg!Init /\ Svc!Init /\ Init
    /\ part # "services" => deps = CHOOSE g \in Graphs : TRUE
    /\ part # "processes" => files = [uid \in Uids |-> "whole"]

RootNext ==
    \/ part = "registry" /\ Reg!Next /\ UNCHANGED <<part, svcVars, vars>>
    \/ part = "services" /\ Svc!Next /\ UNCHANGED <<part, regVars, vars>>
    \/ part = "processes" /\ Next /\ UNCHANGED <<part, regVars, svcVars>>

RootSpec ==
    /\ RootInit /\ [][RootNext]_<<part, regVars, svcVars, vars>>
    /\ Svc!Fairness /\ Fairness

\* Each part is of its type; the others rest where they start.
RootTypeOK ==
    CASE part = "registry" -> Reg!TypeOK
      [] part = "services" -> Svc!TypeOK
      [] part = "processes" -> TypeOK

\* Each of these is what its part's module says of it.
TreeIsWhole == part = "registry" => Reg!TreeIsWhole
ChangesWhatItNames == Reg!ChangesWhatItNames
ServicesAreListed == part = "services" => Svc!ServicesAreListed
StartsEnd == Svc!StartsEnd
===============================================================================
