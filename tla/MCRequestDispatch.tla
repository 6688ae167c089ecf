-------------------------- MODULE MCRequestDispatch --------------------------
(***************************************************************************)
(* RequestDispatch for two applications with a thread of their own and one *)
(* that pumps, and a third one that only serves.                           *)
(***************************************************************************)
EXTENDS RequestDispatch

CONSTANTS pp, qq, rr, p1, p2, q1, q2, r1

MCHome == [t \in Threads |->
             CASE t \in {p1, p2} -> pp [] t \in {q1, q2} -> qq [] t = r1 -> rr]

\* qq uses pp, pp uses rr; both are called back.
MCKnows == {<<qq, pp>>, <<pp, qq>>, <<pp, rr>>, <<rr, pp>>}

\* The two of them alone.
MCKnowsTwo == {<<qq, pp>>, <<pp, qq>>}
=============================================================================
