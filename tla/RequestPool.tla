------------------------------ MODULE RequestPool ------------------------------
(***************************************************************************)
(* The threads that serve a handler's requests (MessageConnection.cpp      *)
(* 263-277, 381-427, 660-723, 755-788): each waits on the default queue    *)
(* for 15 seconds at a time, and leaves when it is not needed; who queues  *)
(* a request starts one more when few were waiting just before; while it   *)
(* serves a request a thread may wait for a response on its own queue; at  *)
(* the end the channels are shut down, the queues closed, and the threads  *)
(* joined. The threads are alike, and are counted by what they do and by   *)
(* whether their own queue has been closed.                                *)
(***************************************************************************)
EXTENDS Integers, FiniteSets, FiniteSetsExt

CONSTANTS
    MaxThreads, AtFirst,  \* AtFirst: how many start_request_threads starts at first
    Senders,            \* who reads or calls, and queues requests
    MaxRequests,        \* bound: requests queued
    MaxFailed           \* bound: threads that leave for an error

VARIABLES
    m_waiting_threads,
    threads,      \* [Doing \X BOOLEAN -> how many threads]
    queue,        \* requests in m_default_msg_queue, and whether it is closed
    senders,      \* [Senders -> the call of queue_message it is in]
    sent,         \* requests queued so far
    channels,     \* are there any to call: until shutdown_channels has emptied the
                  \* table, and again when one has been accepted after that
    stopping,     \* stop_request_threads: no, contexts closed, or queue closed
    failed        \* history: threads that have left for an error

vars == <<m_waiting_threads, threads, queue, senders, sent, channels, stopping, failed>>

\* A thread has a ThreadContext in m_mapThreadContexts from its first loop on.
Doing == {"none", "started", "loops", "waits", "got", "timed_out", "ends", "serves", "calls"}
Enters == {"none", "started"}
In(ds) == MapThenSumSet(LAMBDA d : threads[<<d, FALSE>>] + threads[<<d, TRUE>>], ds)

Idle == [in |-> "no", few |-> FALSE]

\* One thread that does d goes on to e.
Goes(d, own, e) ==
    /\ threads[<<d, own>>] > 0
    /\ threads' = [threads EXCEPT ![<<d, own>>] = @ - 1, ![<<e, own /\ e # "none">>] = @ + 1]

Init ==
    /\ m_waiting_threads = 0
    /\ threads = [k \in Doing \X BOOLEAN |->
           CASE k = <<"started", FALSE>> -> AtFirst [] k = <<"none", FALSE>> -> MaxThreads - AtFirst [] OTHER -> 0]
    /\ queue = [length |-> 0, closed |-> FALSE]
    /\ senders = [s \in Senders |-> Idle] /\ sent = 0
    /\ channels = "open" /\ stopping = "no" /\ failed = 0

-----------------------------------------------------------------------------
\* pump_requests: ThreadContext::instance.
Enter ==
    /\ Goes("started", FALSE, "loops")
    /\ UNCHANGED <<m_waiting_threads, queue, senders, sent, channels, stopping, failed>>

\* The count goes up, and it waits.
Loop(own) ==
    /\ Goes("loops", own, "waits")
    /\ m_waiting_threads' = m_waiting_threads + 1
    /\ UNCHANGED <<queue, senders, sent, channels, stopping, failed>>

\* The pop: a request, after 15 seconds none, or the queue is closed and empty; or
\* an error, for which the thread will leave as well.
Pop(own) ==
    /\ \/ /\ IF queue.length > 0
             THEN Goes("waits", own, "got") /\ queue' = [queue EXCEPT !.length = @ - 1]
             ELSE Goes("waits", own, IF queue.closed THEN "ends" ELSE "timed_out") /\ UNCHANGED queue
          /\ UNCHANGED failed
       \/ /\ failed < MaxFailed /\ failed' = failed + 1
          /\ Goes("waits", own, "ends") /\ UNCHANGED queue
    /\ UNCHANGED <<m_waiting_threads, senders, sent, channels, stopping>>

\* A mutant: a thread that has waited in vain leaves.
anyIsTooMany(waiters) == waiters >= 0

\* A thread leaves when more than two others wait.
tooMany(waiters) == waiters > 2

\* The count goes down, and it is what is left that decides.
Popped(d, own) ==
    LET waiters == m_waiting_threads - 1 IN
    /\ Goes(d, own, CASE d = "got" -> "serves"
                      [] d = "ends" \/ (d = "timed_out" /\ tooMany(waiters)) -> "none"
                      [] OTHER -> "loops")
    /\ m_waiting_threads' = waiters
    /\ UNCHANGED <<queue, senders, sent, channels, stopping, failed>>

\* process_request_context: the request is done. It fails when an asynchronous
\* function throws or the channel's thread cannot be noted, and the thread leaves.
Done(own) ==
    /\ \/ Goes("serves", own, "loops") /\ UNCHANGED failed
       \/ failed < MaxFailed /\ Goes("serves", own, "none") /\ failed' = failed + 1
    /\ UNCHANGED <<m_waiting_threads, queue, senders, sent, channels, stopping>>

\* Or it makes a call and waits for the response, if the channel is there when it
\* looks. There is no time limit.
wait_for_response(own) ==
    /\ channels # "shut"
    /\ Goes("serves", own, "calls")
    /\ UNCHANGED <<m_waiting_threads, queue, senders, sent, channels, stopping, failed>>

\* It ends with the response, which a channel that is shut down will not send, or
\* as its own queue is closed.
Ends(own) ==
    /\ channels # "shut" \/ own
    /\ Goes("calls", own, "serves")
    /\ UNCHANGED <<m_waiting_threads, queue, senders, sent, channels, stopping, failed>>

-----------------------------------------------------------------------------
\* queue_message for no thread in particular: the count is read, the request
\* pushed, and then, if at most one was waiting, a thread is started.
Look(s) ==
    /\ senders[s] = Idle /\ sent < MaxRequests
    /\ senders' = [senders EXCEPT ![s] = [in |-> "looked", few |-> m_waiting_threads <= 1]]
    /\ sent' = sent + 1
    /\ UNCHANGED <<m_waiting_threads, threads, queue, channels, stopping, failed>>

Push(s) ==
    /\ senders[s].in = "looked"
    /\ IF queue.closed
       THEN senders' = [senders EXCEPT ![s] = Idle] /\ UNCHANGED queue
       ELSE /\ queue' = [queue EXCEPT !.length = @ + 1]
            /\ senders' = [senders EXCEPT ![s] = IF @.few THEN [@ EXCEPT !.in = "pushed"] ELSE Idle]
    /\ UNCHANGED <<m_waiting_threads, threads, sent, channels, stopping, failed>>

\* start_request_threads(1): whether it does is not looked at.
Start(s) ==
    /\ senders[s].in = "pushed"
    /\ senders' = [senders EXCEPT ![s] = Idle]
    /\ Goes("none", FALSE, "started") \/ UNCHANGED threads
    /\ UNCHANGED <<m_waiting_threads, queue, sent, channels, stopping, failed>>

-----------------------------------------------------------------------------
shutdown_channels ==
    /\ channels = "open" /\ channels' = "shut"
    /\ UNCHANGED <<m_waiting_threads, threads, queue, senders, sent, stopping, failed>>

\* on_accept goes on after that, and its channel is in the table.
on_accept ==
    /\ channels = "shut" /\ channels' = "again"
    /\ UNCHANGED <<m_waiting_threads, threads, queue, senders, sent, stopping, failed>>

\* A mutant: no thread's own queue is closed.
closedNone == threads

\* stop_request_threads: the queue of each thread that has a context is closed.
closedOwn ==
    [k \in Doing \X BOOLEAN |->
        IF k[1] \in Enters THEN threads[k] ELSE IF k[2] THEN In({k[1]}) ELSE 0]

CloseContexts ==
    /\ channels # "open" /\ stopping = "no"
    /\ threads' = closedOwn
    /\ stopping' = "contexts"
    /\ UNCHANGED <<m_waiting_threads, queue, senders, sent, channels, failed>>

CloseQueue ==
    /\ stopping = "contexts" /\ stopping' = "queue"
    /\ queue' = [queue EXCEPT !.closed = TRUE]
    /\ UNCHANGED <<m_waiting_threads, threads, senders, sent, channels, failed>>

Step(d) ==
    \/ d = "started" /\ Enter
    \/ \E own \in BOOLEAN :
          \/ d = "loops" /\ Loop(own)
          \/ d = "waits" /\ Pop(own)
          \/ d \in {"got", "timed_out", "ends"} /\ Popped(d, own)
          \/ d = "serves" /\ Done(own)
          \/ d = "calls" /\ Ends(own)

Next ==
    \/ \E d \in Doing : Step(d)
    \/ \E own \in BOOLEAN : wait_for_response(own)
    \/ \E s \in Senders : Look(s) \/ Push(s) \/ Start(s)
    \/ shutdown_channels \/ on_accept \/ CloseContexts \/ CloseQueue

\* Some of the threads that wait for requests runs, and what has begun to be queued,
\* or to stop, goes on. Some of the requests that are served is done some time, however
\* often it makes calls, if those end: that any ends is assumed only when the thread's
\* own queue has been closed.
Waiting == \E d \in Doing \ {"none", "serves", "calls"} : Step(d)
Begun == (\E s \in Senders : Push(s) \/ Start(s)) \/ CloseContexts \/ CloseQueue

Fairness ==
    /\ WF_vars(Waiting) /\ WF_vars(Begun)
    /\ WF_vars(Ends(TRUE)) /\ SF_vars(Step("serves"))

Spec == Init /\ [][Next]_vars /\ Fairness

-----------------------------------------------------------------------------
TypeOK ==
    /\ m_waiting_threads \in 0..MaxThreads
    /\ threads \in [Doing \X BOOLEAN -> 0..MaxThreads]
    /\ queue \in [length : 0..MaxRequests, closed : BOOLEAN]
    /\ senders \in [Senders -> [in : {"no", "looked", "pushed"}, few : BOOLEAN]]
    /\ sent \in 0..MaxRequests /\ stopping \in {"no", "contexts", "queue"}
    /\ channels \in {"open", "shut", "again"} /\ failed \in 0..MaxFailed

\* The count is of the threads that wait or have yet to count themselves out, and
\* however the threads time out together, as many as were started at first stay: but
\* for those that have left for an error (MessageConnection.cpp 403-427).
SomeStay ==
    /\ m_waiting_threads = In({"waits", "got", "timed_out", "ends"})
    /\ ~queue.closed => In(Doing \ {"none"}) + failed >= AtFirst

\* A request stays in the queue only while every thread that is left is in a call,
\* though none was started for it since those counted as waiting were about to take
\* others. Whether the calls end is not the pool's: they may wait for this request.
Served == []<>(queue.length = 0 \/ In(Doing \ {"none", "calls"}) = 0)

\* Once the channels are shut down the threads can be joined, those that wait for a
\* response among them: unless a channel is accepted after that, for a thread that
\* enters late can wait for it, its own queue never being closed.
StopEnds == []<>(channels # "shut" \/ In(Doing \ {"none"}) = 0)

\* Both: no request waits for want of a thread that is there, and the threads leave.
PoolServes == Served /\ StopEnds

===============================================================================
