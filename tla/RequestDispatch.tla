---------------------------- MODULE RequestDispatch ----------------------------
(***************************************************************************)
(* Synchronous and asynchronous requests between the threads of several    *)
(* applications: UserSession::send_request and wait_for_response, the read *)
(* loop that sorts messages into the queues of the threads, the pump       *)
(* (Omega::HandleRequest) and process_request with its nested calls.       *)
(*                                                                         *)
(* A response carries no reference to its request.  It finds its way back  *)
(* by the id of the thread that called, and a thread takes the first       *)
(* response in its queue for the answer to its innermost call.  The id in  *)
(* the messages of this module is not in the code: it is what the          *)
(* properties use to tell the calls apart.                                 *)
(***************************************************************************)
EXTENDS Naturals, SequencesExt

CONSTANTS
    Procs,     \* the applications
    Threads,   \* their threads
    Home,      \* [Threads -> Procs]: the application of a thread
    Pumps,     \* threads that do nothing but HandleRequest
    Knows,     \* <<p, q>>: p has proxies for objects of q
    Mortal,    \* applications that may die
    Posting,   \* applications that make asynchronous requests
    None,      \* no thread: thread id 0
    MaxCalls   \* bound: requests made altogether

ASSUME DispatchAssumption ==
    /\ Home \in [Threads -> Procs]
    /\ Pumps \subseteq Threads
    /\ Knows \subseteq {e \in Procs \X Procs : e[1] # e[2]}
    /\ Mortal \subseteq Procs /\ Posting \subseteq Procs
    /\ None \notin Threads
    /\ MaxCalls \in Nat

VARIABLES
    up,       \* the applications that run
    stack,    \* the calls each thread is in and the requests it is serving
    mode,     \* where each thread is in wait_for_response, if it is
    channel,  \* m_mapChannelThreads: whom a thread answers to in each application
    queue,    \* m_msg_queue of each thread
    pulsed,   \* threads whose queue has been pulsed
    default,  \* m_default_msg_queue of each application
    open,     \* each application's entry for its channel to another (m_mapChannels)
    wire,     \* what is on its way from one application to another
    due,      \* <<p, q>>: p has yet to be told that q's channel has closed
    calls,    \* requests made so far (bounded by MaxCalls)
    strayed,  \* has a call been left with messages for the thread in its queue or on
              \* their way, an asynchronous request been served in the middle of one,
              \* or a channel been opened again by one that came late?
    calledBack  \* has who serves an asynchronous request made one to its poster?

vars == <<up, stack, mode, channel, queue, pulsed, default, open, wire, due, calls,
          strayed, calledBack>>

-----------------------------------------------------------------------------

Frame ==
    [what : {"call"}, peer : Procs, id : 1..MaxCalls]
    \cup [what : {"serve", "serveAsync"}, peer : Procs, thread : Threads,
          id : 1..MaxCalls, saved : Threads \cup {None}]

Message ==
    [type : {"request", "post", "response"}, src : Procs, from : Threads,
     to : Threads \cup {None}, id : 1..MaxCalls]

Pairs == Procs \X Procs

Carries(s, type, i) == \E k \in DOMAIN s : s[k].type = type /\ s[k].id = i

TypeOK ==
    /\ up \subseteq Procs
    /\ stack \in [Threads -> Seq(Frame)]
    /\ mode \in [Threads -> {"run", "look", "wait"}]
    /\ channel \in [Threads -> [Procs -> Threads \cup {None}]]
    /\ queue \in [Threads -> Seq(Message)]
    /\ pulsed \subseteq Threads
    /\ default \in [Procs -> Seq(Message)]
    /\ open \in [Procs -> [Procs -> {"open", "closed", "none"}]]
    /\ wire \in [Pairs -> Seq(Message)]
    /\ due \subseteq Pairs
    /\ calls \in 0..MaxCalls
    /\ strayed \in BOOLEAN
    /\ calledBack \in BOOLEAN

Init ==
    /\ up = Procs
    /\ stack = [t \in Threads |-> <<>>]
    /\ mode = [t \in Threads |-> "run"]
    /\ channel = [t \in Threads |-> [p \in Procs |-> None]]
    /\ queue = [t \in Threads |-> <<>>]
    /\ pulsed = {}
    /\ default = [p \in Procs |-> <<>>]
    /\ open = [p \in Procs |-> [q \in Procs |-> "open"]]
    /\ wire = [e \in Pairs |-> <<>>]
    /\ due = {}
    /\ calls = 0
    /\ strayed = FALSE
    /\ calledBack = FALSE

Alive(t) == Home[t] \in up
Top(t) == Last(stack[t])
Pop(t) == Front(stack[t])
ThreadsOf(p) == {t \in Threads : Home[t] = p}

\* t is in the program's own code, or in that of an object it is serving.
Running(t) ==
    /\ Alive(t) /\ mode[t] = "run"
    /\ t \in Pumps => stack[t] # <<>>

\* Written to the stream; the user process loses what is for the dead and tells
\* the sender.
Send(p, q, m) ==
    IF q \in up THEN /\ wire' = [wire EXCEPT ![<<p, q>>] = Append(@, m)]
                     /\ UNCHANGED due
    ELSE /\ due' = due \cup {<<p, q>>}
         /\ UNCHANGED wire

Request(t, q, type) ==
    [type |-> type, src |-> Home[t], from |-> t, to |-> channel[t][q], id |-> calls + 1]

\* t is serving an asynchronous request of q: what it asks of q is for the poster.
ServesPostOf(t, q) ==
    \E i \in DOMAIN stack[t] : stack[t][i].what = "serveAsync" /\ stack[t][i].peer = q

-----------------------------------------------------------------------------
\* UserSession::send_request

\* Mutant of Call: the request is sent as if it were asynchronous.
CallGoesOn(t, q) ==
    /\ Running(t) /\ <<Home[t], q>> \in Knows /\ calls < MaxCalls
    /\ calls' = calls + 1
    /\ Send(Home[t], q, Request(t, q, "request"))
    /\ calledBack' = (calledBack \/ ServesPostOf(t, q))
    /\ UNCHANGED <<up, stack, mode, channel, queue, pulsed, default, open, strayed>>

Call(t, q) ==
    /\ Running(t) /\ <<Home[t], q>> \in Knows /\ calls < MaxCalls
    /\ calls' = calls + 1
    /\ Send(Home[t], q, Request(t, q, "request"))
    /\ stack' = [stack EXCEPT ![t] = Append(@, [what |-> "call", peer |-> q, id |-> calls + 1])]
    /\ mode' = [mode EXCEPT ![t] = "look"]
    /\ calledBack' = (calledBack \/ ServesPostOf(t, q))
    /\ UNCHANGED <<up, channel, queue, pulsed, default, open, strayed>>

\* TypeInfo::Asynchronous: nothing is waited for.
Post(t, q) ==
    /\ Running(t) /\ <<Home[t], q>> \in Knows /\ calls < MaxCalls
    /\ Home[t] \in Posting
    /\ calls' = calls + 1
    /\ Send(Home[t], q, Request(t, q, "post"))
    /\ calledBack' = (calledBack \/ ServesPostOf(t, q))
    /\ UNCHANGED <<up, stack, mode, channel, queue, pulsed, default, open, strayed>>

-----------------------------------------------------------------------------
\* UserSession::wait_for_response.  The loop first looks at the channel ...

GoesToWait(t) ==
    /\ Alive(t) /\ mode[t] = "look" /\ open[Home[t]][Top(t).peer] = "open"
    /\ mode' = [mode EXCEPT ![t] = "wait"]
    /\ UNCHANGED <<up, stack, channel, queue, pulsed, default, open, wire, due, calls, strayed, calledBack>>

\* What another application has sent to t, and t's application has not read yet.
OnItsWay(q, t) == \E k \in DOMAIN wire[<<q, Home[t]>>] : wire[<<q, Home[t]>>][k].to = t

\* ... and throws IChannelClosedException if it has been closed: is_channel_open
\* then removes the entry.
GivesUp(t) == LET q == Top(t).peer IN
    /\ Alive(t) /\ mode[t] = "look" /\ open[Home[t]][q] # "open"
    /\ stack' = [stack EXCEPT ![t] = Pop(t)]
    /\ mode' = [mode EXCEPT ![t] = "run"]
    /\ open' = [open EXCEPT ![Home[t]][q] = "none"]
    /\ strayed' = (strayed \/ queue[t] # <<>> \/ OnItsWay(q, t))
    /\ UNCHANGED <<up, channel, queue, pulsed, default, wire, due, calls, calledBack>>

\* A pulse sends the thread round the loop.  It may find messages as well; which
\* of the two BoundedQueue::pop reports first is left open.
IsPulsed(t) ==
    /\ Alive(t) /\ mode[t] = "wait" /\ t \in pulsed
    /\ pulsed' = pulsed \ {t}
    /\ mode' = [mode EXCEPT ![t] = "look"]
    /\ UNCHANGED <<up, stack, channel, queue, default, open, wire, due, calls, strayed, calledBack>>

TakesResponse(t) ==
    /\ Alive(t) /\ mode[t] = "wait" /\ queue[t] # <<>> /\ Head(queue[t]).type = "response"
    /\ queue' = [queue EXCEPT ![t] = Tail(@)]
    /\ stack' = [stack EXCEPT ![t] = Pop(t)]
    /\ mode' = [mode EXCEPT ![t] = "run"]
    /\ UNCHANGED <<up, channel, pulsed, default, open, wire, due, calls, strayed, calledBack>>

-----------------------------------------------------------------------------
\* UserSession::process_request

\* Compartment::create_channel: a channel without an entry gets a new one, be it
\* that the application at its other end has died long ago.
Reopened(t, q) ==
    [open EXCEPT ![Home[t]][q] = IF @ = "none" THEN "open" ELSE @]

\* Mutant of Serves: old_thread_id is not kept.
ServesUnsaved(t, m) ==
    /\ stack' = [stack EXCEPT ![t] =
                    Append(@, [what |-> IF m.type = "post" THEN "serveAsync" ELSE "serve",
                               peer |-> m.src, thread |-> m.from, id |-> m.id])]
    /\ channel' = [channel EXCEPT ![t][m.src] = m.from]
    /\ open' = Reopened(t, m.src)
    /\ mode' = [mode EXCEPT ![t] = "run"]

\* For as long as t serves m, its own requests to m.src are for the thread m.from.
Serves(t, m) ==
    /\ stack' = [stack EXCEPT ![t] =
                    Append(@, [what |-> IF m.type = "post" THEN "serveAsync" ELSE "serve",
                               peer |-> m.src, thread |-> m.from, id |-> m.id,
                               saved |-> channel[t][m.src]])]
    /\ channel' = [channel EXCEPT ![t][m.src] = m.from]
    /\ open' = Reopened(t, m.src)
    /\ mode' = [mode EXCEPT ![t] = "run"]

\* A request for a thread in the middle of a call, in wait_for_response ...
TakesRequest(t) ==
    /\ Alive(t) /\ mode[t] = "wait" /\ queue[t] # <<>> /\ Head(queue[t]).type # "response"
    /\ queue' = [queue EXCEPT ![t] = Tail(@)]
    /\ Serves(t, Head(queue[t]))
    /\ strayed' = (strayed \/ Head(queue[t]).type = "post")
    /\ UNCHANGED <<up, pulsed, default, wire, due, calls, calledBack>>

\* m opens the channel of an application that has died again, and as nothing is
\* sent in answer to m, no further notice of its death need come.
LateAndPosted(p, m) == m.type = "post" /\ open[p][m.src] = "none"

\* ... or for whoever is in pump_request.
Pumped(t) == LET p == Home[t] IN
    /\ Alive(t) /\ t \in Pumps /\ stack[t] = <<>> /\ default[p] # <<>>
    /\ default' = [default EXCEPT ![p] = Tail(@)]
    /\ Serves(t, Head(default[p]))
    /\ strayed' = (strayed \/ LateAndPosted(p, Head(default[p])))
    /\ UNCHANGED <<up, queue, pulsed, wire, due, calls, calledBack>>

\* Mutant of Finishes: asynchronous requests are answered too.
FinishesAll(t) == LET f == Top(t) IN
    /\ Alive(t) /\ mode[t] = "run" /\ stack[t] # <<>>
    /\ IF f.what # "call"
       THEN Send(Home[t], f.peer, [type |-> "response", src |-> Home[t], from |-> t,
                                   to |-> f.thread, id |-> f.id])
       ELSE UNCHANGED <<wire, due>>
    /\ channel' = [channel EXCEPT ![t][f.peer] = f.saved]
    /\ stack' = [stack EXCEPT ![t] = Pop(t)]
    /\ mode' = [mode EXCEPT ![t] = IF Len(stack[t]) > 1 THEN "look" ELSE "run"]
    /\ UNCHANGED <<up, queue, pulsed, default, open, calls, strayed, calledBack>>

\* Mutant of Finishes: only the pump sends responses.
FinishesPumped(t) == LET f == Top(t) IN
    /\ Alive(t) /\ mode[t] = "run" /\ stack[t] # <<>>
    /\ IF f.what = "serve" /\ Len(stack[t]) = 1
       THEN Send(Home[t], f.peer, [type |-> "response", src |-> Home[t], from |-> t,
                                   to |-> f.thread, id |-> f.id])
       ELSE UNCHANGED <<wire, due>>
    /\ channel' = [channel EXCEPT ![t][f.peer] = f.saved]
    /\ stack' = [stack EXCEPT ![t] = Pop(t)]
    /\ mode' = [mode EXCEPT ![t] = IF Len(stack[t]) > 1 THEN "look" ELSE "run"]
    /\ UNCHANGED <<up, queue, pulsed, default, open, calls, strayed, calledBack>>

\* The request has been processed: send_response unless it was asynchronous, the
\* channel's thread restored, back into the loop of the call around it, if any.
Finishes(t) == LET f == Top(t) IN
    /\ Alive(t) /\ mode[t] = "run" /\ stack[t] # <<>>
    /\ IF f.what = "serve"
       THEN Send(Home[t], f.peer, [type |-> "response", src |-> Home[t], from |-> t,
                                   to |-> f.thread, id |-> f.id])
       ELSE UNCHANGED <<wire, due>>
    /\ channel' = [channel EXCEPT ![t][f.peer] = f.saved]
    /\ stack' = [stack EXCEPT ![t] = Pop(t)]
    /\ mode' = [mode EXCEPT ![t] = IF Len(stack[t]) > 1 THEN "look" ELSE "run"]
    /\ UNCHANGED <<up, queue, pulsed, default, open, calls, strayed, calledBack>>

-----------------------------------------------------------------------------
\* UserSession::run_read_loop

Sorts(p, q) == LET m == Head(wire[<<q, p>>]) IN
    /\ p \in up /\ wire[<<q, p>>] # <<>>
    /\ wire' = [wire EXCEPT ![<<q, p>>] = Tail(@)]
    /\ IF m.to # None
       THEN /\ queue' = [queue EXCEPT ![m.to] = Append(@, m)]
            /\ UNCHANGED default
       ELSE /\ default' = [default EXCEPT ![p] = Append(@, m)]
            /\ UNCHANGED queue
    /\ UNCHANGED <<up, stack, mode, channel, pulsed, open, due, calls, strayed, calledBack>>

\* p is told that q's channel has closed.  The user process says so when it has
\* read the end of q's stream, or as soon as a write to q fails, which may be
\* before it has read and sent on any of what q has sent last (on_sent); and
\* again for each message it cannot route to q.  So the notice may come before,
\* between or after q's last messages, and another may follow it.
Notified(p, q) ==
    /\ p \in up /\ <<p, q>> \in due
    /\ IF open[p][q] = "open" THEN due' \in {due, due \ {<<p, q>>}}
                              ELSE due' = due \ {<<p, q>>}
    /\ open' = [open EXCEPT ![p][q] = IF @ = "none" THEN "none" ELSE "closed"]

\* Mutant of Closes: the threads that wait are not pulsed.
ClosesQuietly(p, q) ==
    /\ Notified(p, q)
    /\ UNCHANGED <<up, stack, mode, channel, queue, pulsed, default, wire, calls, strayed, calledBack>>

\* process_channel_close
Closes(p, q) ==
    /\ Notified(p, q)
    /\ pulsed' = IF open[p][q] = "none" THEN pulsed ELSE pulsed \cup ThreadsOf(p)
    /\ UNCHANGED <<up, stack, mode, channel, queue, default, wire, calls, strayed, calledBack>>

\* q dies.  What it has sent is still delivered.
Die(q) ==
    /\ q \in up \cap Mortal
    /\ up' = up \ {q}
    /\ wire' = [e \in Pairs |-> IF e[2] = q THEN <<>> ELSE wire[e]]
    /\ due' = {e \in due : e[1] # q} \cup {<<p, q>> : p \in up'}
    /\ stack' = [t \in Threads |-> IF Home[t] = q THEN <<>> ELSE stack[t]]
    /\ mode' = [t \in Threads |-> IF Home[t] = q THEN "run" ELSE mode[t]]
    /\ queue' = [t \in Threads |-> IF Home[t] = q THEN <<>> ELSE queue[t]]
    /\ default' = [default EXCEPT ![q] = <<>>]
    /\ UNCHANGED <<channel, pulsed, open, calls, strayed, calledBack>>

-----------------------------------------------------------------------------

ThreadStep(t) ==
    \/ GoesToWait(t) \/ GivesUp(t) \/ IsPulsed(t) \/ TakesResponse(t)
    \/ TakesRequest(t) \/ Pumped(t) \/ Finishes(t)

Handling ==
    \/ \E t \in Threads : ThreadStep(t)
    \/ \E p, q \in Procs : Sorts(p, q) \/ Closes(p, q)

Next ==
    \/ \E t \in Threads, q \in Procs : Call(t, q) \/ Post(t, q)
    \/ Handling
    \/ \E q \in Procs : Die(q)

\* Readers read, threads run, and the service an object does ends: as requests
\* are finitely many, it is enough that something is done while something can
\* be.  Nobody has to make a request or to die.
Fairness == WF_vars(Handling)

Spec == Init /\ [][Next]_vars /\ Fairness

-----------------------------------------------------------------------------
\* Properties

InCall(t) == mode[t] \in {"look", "wait"}

\* The i-th message in t's queue is the first response there.
FirstResponse(t, i) ==
    /\ queue[t][i].type = "response"
    /\ \A j \in 1..i - 1 : queue[t][j].type # "response"

\* The answer t would take is the answer to the call it is in.
OwnAnswer(t) ==
    InCall(t) => \A i \in DOMAIN queue[t] : FirstResponse(t, i) => queue[t][i].id = Top(t).id

\* Nested and crossing calls, callbacks, asynchronous requests and deaths never
\* make a thread take one call's answer for another's, up to the moment somebody
\* leaves an answer or a callback behind, in its queue or on its way, serves an
\* asynchronous request within a call, or calls the thread that has posted what it
\* serves: nothing else can pair them wrongly, although send_request keeps no id.
AnswersMatch == ~strayed /\ ~calledBack => \A t \in Threads : OwnAnswer(t)

\* "Wait for response..." (UserSession.cpp:632): a call returns the response to
\* the request it has sent.  The code breaks it: the call given up may have been
\* answered, and its answer stays in the queue for the thread's next call, or comes
\* there when the notice has overtaken it; and a call made while serving an
\* asynchronous request may find the answer to the call around it.
NeverMisled == \A t \in Threads : OwnAnswer(t)

\* A request put in a thread's queue is for a thread that is in a call to the
\* application it comes from, so that wait_for_response will take it up.
Expected(t) ==
    \A i \in DOMAIN queue[t] : queue[t][i].type # "response" /\ queue[t][i].src \in up =>
        InCall(t) /\ Top(t).peer = queue[t][i].src

\* Callbacks go to the thread that is waiting for them: holds as long as nobody
\* has called back the poster of an asynchronous request or left a call with a
\* message there or on its way (process_request keeps the thread of each channel,
\* and puts back the one before).
CallbacksMeetCaller == ~calledBack /\ ~strayed => \A t \in Threads : Expected(t)

\* "Find the right queue to send it to..." (UserSession.cpp:398), at all times.
\* The code breaks it: who serves an asynchronous request and calls back
\* addresses the thread that posted it, which waits for nothing.
RightQueue == ~strayed => \A t \in Threads : Expected(t)

\* A call is never lost: as long as a thread is in it, its request is on the way
\* or in a queue, or somebody serves it, or its answer is on the way, or the
\* callee has died (send_response, run_read_loop and both ways to serve).
Underway(t, f) ==
    \/ f.peer \notin up
    \/ Carries(wire[<<Home[t], f.peer>>], "request", f.id)
    \/ Carries(default[f.peer], "request", f.id)
    \/ Carries(wire[<<f.peer, Home[t]>>], "response", f.id)
    \/ Carries(queue[t], "response", f.id)
    \/ \E u \in ThreadsOf(f.peer) :
          \/ Carries(queue[u], "request", f.id)
          \/ \E i \in DOMAIN stack[u] : stack[u][i].what = "serve" /\ stack[u][i].id = f.id

CallNotLost ==
    ~strayed /\ ~calledBack => \A t \in Threads : \A i \in DOMAIN stack[t] :
        LET f == stack[t][i] IN f.what = "call" => Underway(t, f)

\* Calls return, whoever dies and whenever its last messages and the notices of its
\* death come, until somebody calls a poster back, leaves a call with a message
\* underway, or serves a post of the dead that comes after their channel has been
\* removed: the thread is woken by its answer, a callback, or the pulse of
\* process_channel_close.
CallsReturn ==
    \A t \in Threads : []<>(~InCall(t) \/ calledBack \/ strayed)

=============================================================================
