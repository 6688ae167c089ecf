--------------------------- MODULE MCMessageRouting ---------------------------
(***************************************************************************)
(* MessageRouting on a small tree: an application of one user, one of      *)
(* another user and one in the sandbox.                                    *)
(***************************************************************************)
EXTENDS MessageRouting

CONSTANTS root, userA, userD, sandbox, appA, appC, appD

MCUserOf ==
    [n \in Apps |-> CASE n = appA -> userA [] n = appC -> sandbox [] n = appD -> userD]

\* An application calls the sandbox and is called back, possibly while it waits;
\* its user process calls it (its ROT, its factories); and an application of
\* another user calls an object of it that it was handed by way of the sandbox.
MCCalls == {<<appA, appC>>, <<appC, appA>>, <<userA, appA>>, <<appD, appA>>}

\* The call across the root alone.
MCOneCall == {<<appA, appC>>}
=============================================================================
