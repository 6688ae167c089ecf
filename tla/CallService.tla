----------------------------- MODULE CallService -----------------------------
(***************************************************************************)
(* What synchronous calls between processes promise, whatever carries      *)
(* them: a caller blocks on one callee at a time; it comes back with an    *)
(* answer, or with IChannelClosedException, and with the latter only if    *)
(* the callee cannot be reached any more; and it does come back.           *)
(***************************************************************************)
CONSTANTS Callers, Callees, Nobody  \* Nobody is not one of the Callees

VARIABLES
    pending,  \* the callee each caller is blocked on, or Nobody
    result,   \* how each caller's last call ended
    gone      \* the callees that have become unreachable

vars == <<pending, result, gone>>

Init ==
    /\ pending = [n \in Callers |-> Nobody]
    /\ result = [n \in Callers |-> "none"]
    /\ gone = {}

Invoke(n, c) ==
    /\ pending[n] = Nobody
    /\ pending' = [pending EXCEPT ![n] = c]
    /\ result' = [result EXCEPT ![n] = "none"]
    /\ UNCHANGED gone

\* The caller already knows that the callee has gone.
Refuse(n) ==
    /\ pending[n] = Nobody /\ gone # {}
    /\ result' = [result EXCEPT ![n] = "closed"]
    /\ UNCHANGED <<pending, gone>>

Released(n) ==
    /\ pending[n] # Nobody
    /\ pending' = [pending EXCEPT ![n] = Nobody]

Return(n, r) ==
    /\ Released(n)
    /\ result' = [result EXCEPT ![n] = r]

Answer(n) == Return(n, "answer") /\ UNCHANGED gone

\* Out of reach: the callee has gone, or the caller has lost its own connection.
Fail(n) ==
    /\ Return(n, "closed")
    /\ gone' \in SUBSET Callees /\ gone \subseteq gone'
    /\ pending[n] \in gone' \/ n \in gone'

\* Processes leave, callers among them.
Leave ==
    /\ gone' \in SUBSET Callees /\ gone \subseteq gone'
    /\ pending' \in [Callers -> Callees \cup {Nobody}]
    /\ result' \in [Callers -> {"none", "answer", "closed"}]
    /\ \A n \in Callers :
          \/ pending'[n] = pending[n] /\ result'[n] = result[n]
          \/ n \in gone' /\ pending'[n] = Nobody /\ result'[n] = "none"

Next ==
    \/ \E n \in Callers, c \in Callees : Invoke(n, c)
    \/ \E n \in Callers : Refuse(n) \/ Answer(n) \/ Fail(n)
    \/ Leave

\* A caller is not left waiting: it comes back.
Spec ==
    /\ Init /\ [][Next]_vars
    /\ \A n \in Callers : WF_pending(Released(n))
=============================================================================
