---------------------------- MODULE MCObjectLaunch ----------------------------
(***************************************************************************)
(* ObjectLaunch for one executable with two objects.                       *)
(***************************************************************************)
EXTENDS ObjectLaunch, TLC

CONSTANTS t1, t2, o1, o2, editor

MCFactories == [a \in Apps |-> <<o1, o2>>]

MCFactory == [a \in Apps |-> <<o1>>]
=============================================================================
