------------------------- MODULE RequestDispatchProofs -------------------------
(***************************************************************************)
(* What the stacks of threads and the messages between them look like in   *)
(* RequestDispatch, and why no request and no answer of it is ever in two  *)
(* places: each is on one wire, in one queue or served, and is addressed   *)
(* to a thread, or a channel, that it can reach; for any applications,     *)
(* threads, requests and deaths.                                           *)
(***************************************************************************)
EXTENDS RequestDispatch, SequenceTheorems, TLAPS

\* A thread makes a call in the course of a service and serves in the course of a
\* call: what it finishes is always a request.
Alternates(t) ==
    /\ \A k \in 1..Len(stack[t]) - 1 :
           stack[t][k].what = "call" <=> stack[t][k + 1].what # "call"
    /\ InCall(t) => stack[t] # <<>> /\ Top(t).what = "call"
    /\ ~InCall(t) => stack[t] = <<>> \/ Top(t).what # "call"

Nesting == TypeOK /\ \A t \in Threads : Alternates(t)

-----------------------------------------------------------------------------
\* Sequences

LEMMA EndsOfSeq ==
    ASSUME NEW S, NEW s \in Seq(S), s # <<>>
    PROVE  /\ Last(s) \in S /\ Last(s) = s[Len(s)] /\ Len(s) \in Nat \ {0}
           /\ Front(s) \in Seq(S) /\ Len(Front(s)) = Len(s) - 1
           /\ \A k \in 1..Len(s) - 1 : Front(s)[k] = s[k]
<1>1. Len(s) \in Nat \ {0} /\ \A k \in 1..Len(s) : s[k] \in S
  OBVIOUS
<1>2. \A k \in 1..Len(s) - 1 : s[k] \in S
  BY <1>1
<1> DEFINE n == Len(s) - 1
<1>3. n \in Int /\ 1 \in Int /\ \A k \in 1..n : s[k] \in S
  BY <1>1
<1>4. n >= 0 /\ n - 1 + 1 = n /\ (~(1 <= n) => n = 0)
  <2>1. n \in Int /\ n >= 0
    BY <1>1
  <2> HIDE DEF n
  <2> QED
    BY <2>1
<1> HIDE DEF n
<1>5. /\ SubSeq(s, 1, n) \in Seq(S)
      /\ Len(SubSeq(s, 1, n)) = IF 1 <= n THEN n - 1 + 1 ELSE 0
      /\ \A k \in 1..n - 1 + 1 : SubSeq(s, 1, n)[k] = s[1 + k - 1]
  BY <1>3, SubSeqProperties
<1>6. /\ Len(SubSeq(s, 1, n)) = n
      /\ \A k \in 1..n : SubSeq(s, 1, n)[k] = s[k]
  <2>1. \A k \in 1..n : 1 + k - 1 = k
    BY <1>3
  <2> QED
    BY <1>3, <1>4, <1>5, <2>1
<1>7. Front(s) = SubSeq(s, 1, n)
  BY DEF Front, n
<1>8. Front(s) \in Seq(S) /\ Len(Front(s)) = n /\ \A k \in 1..n : Front(s)[k] = s[k]
  BY <1>5, <1>6, <1>7
<1> QED
  BY <1>1, <1>8 DEF Last, n

LEMMA AppendToSeq ==
    ASSUME NEW S, NEW s \in Seq(S), NEW m \in S
    PROVE  /\ Append(s, m) \in Seq(S) /\ Len(Append(s, m)) = Len(s) + 1 /\ Append(s, m) # <<>>
           /\ Last(Append(s, m)) = m
           /\ Append(s, m)[Len(s) + 1] = m
           /\ \A k \in 1..Len(s) : Append(s, m)[k] = s[k]
  BY DEF Last

LEMMA TailOfSeq ==
    ASSUME NEW S, NEW s \in Seq(S), s # <<>>
    PROVE  /\ Head(s) \in S /\ Head(s) = s[1] /\ Len(s) \in Nat \ {0}
           /\ Tail(s) \in Seq(S) /\ Len(Tail(s)) = Len(s) - 1
           /\ \A k \in 1..Len(s) - 1 : Tail(s)[k] = s[k + 1]
  OBVIOUS

-----------------------------------------------------------------------------
\* Stacks

LEMMA StackStays ==
    ASSUME NEW t, Alternates(t), stack'[t] = stack[t], InCall(t)' <=> InCall(t)
    PROVE  Alternates(t)'
  BY DEF Alternates, Top

LEMMA StackGrows ==
    ASSUME TypeOK, NEW t \in Threads, Alternates(t), NEW f \in Frame,
           stack'[t] = Append(stack[t], f),
           f.what = "call" <=> InCall(t)',
           stack[t] # <<>> => (f.what = "call" <=> ~InCall(t))
    PROVE  Alternates(t)'
<1> DEFINE s == stack[t]
<1>1. s \in Seq(Frame)
  BY DEF TypeOK
<1>2. /\ Len(stack'[t]) = Len(s) + 1 /\ stack'[t] # <<>> /\ Top(t)' = f /\ Len(s) \in Nat
      /\ stack'[t][Len(s) + 1] = f /\ \A k \in 1..Len(s) : stack'[t][k] = s[k]
  BY <1>1, AppendToSeq DEF Top
<1>3. s # <<>> => s[Len(s)].what = "call" <=> InCall(t)
  BY <1>1, EndsOfSeq DEF Alternates, Top
<1>4. ASSUME NEW k \in 1..Len(s)
      PROVE  stack'[t][k].what = "call" <=> stack'[t][k + 1].what # "call"
  <2>1. CASE k = Len(s)
    BY <1>1, <1>2, <1>3, <2>1
  <2>2. CASE k \in 1..Len(s) - 1
    <3>1. k \in 1..Len(s) /\ k + 1 \in 1..Len(s)
      BY <1>2, <2>2
    <3>2. stack'[t][k] = s[k] /\ stack'[t][k + 1] = s[k + 1]
      BY <1>2, <3>1
    <3> QED
      BY <2>2, <3>2 DEF Alternates
  <2> QED
    BY <1>2, <2>1, <2>2
<1> QED
  BY <1>2, <1>4 DEF Alternates

LEMMA StackShrinks ==
    ASSUME TypeOK, NEW t \in Threads, Alternates(t), stack[t] # <<>>,
           stack'[t] = Pop(t), InCall(t)' <=> ~InCall(t) /\ Len(stack[t]) > 1
    PROVE  Alternates(t)'
<1> DEFINE s == stack[t]
           n == Len(s)
<1>1. s \in Seq(Frame)
  BY DEF TypeOK
<1>2. /\ stack'[t] \in Seq(Frame) /\ n \in Nat \ {0} /\ Len(stack'[t]) = n - 1
      /\ \A k \in 1..n - 1 : stack'[t][k] = s[k]
      /\ s[n].what = "call" <=> InCall(t)
  BY <1>1, EndsOfSeq DEF Pop, Alternates, Top
<1>3. \A k \in 1..n - 1 : s[k].what = "call" <=> s[k + 1].what # "call"
  BY DEF Alternates
<1> HIDE DEF s, n
<1>4. ASSUME NEW k \in 1..(n - 1) - 1
      PROVE  stack'[t][k].what = "call" <=> stack'[t][k + 1].what # "call"
  <2>1. k \in 1..n - 1 /\ k + 1 \in 1..n - 1
    BY <1>2
  <2> QED
    BY <1>2, <1>3, <2>1
<1>5. CASE n = 1
  <2>1. stack'[t] = <<>>
    BY <1>2, <1>5
  <2> QED
    BY <1>2, <1>4, <1>5, <2>1 DEF Alternates, n, s
<1>6. CASE n > 1
  <2>1. stack'[t] # <<>> /\ n - 1 \in 1..n - 1 /\ (n - 1) + 1 = n
    BY <1>2, <1>6
  <2>2. Top(t)' = s[n - 1]
    BY <1>2, <2>1, EndsOfSeq DEF Top
  <2>3. Top(t)'.what = "call" <=> ~InCall(t)
    BY <1>2, <1>3, <2>1, <2>2
  <2> QED
    BY <1>2, <1>4, <1>6, <2>1, <2>3 DEF Alternates, n, s
<1> QED
  BY <1>2, <1>5, <1>6

\* The frame a thread is in.
LEMMA TopIsFrame ==
    ASSUME TypeOK, NEW t \in Threads, stack[t] # <<>>
    PROVE  /\ Top(t) \in Frame /\ Pop(t) \in Seq(Frame) /\ Len(stack[t]) \in Nat \ {0}
           /\ Top(t).peer \in Procs /\ Top(t).id \in 1..MaxCalls
           /\ Top(t).what # "call" => Top(t).thread \in Threads /\ Top(t).saved \in Threads \cup {None}
<1>1. stack[t] \in Seq(Frame)
  BY DEF TypeOK
<1>2. Top(t) \in Frame /\ Pop(t) \in Seq(Frame) /\ Len(stack[t]) \in Nat \ {0}
  BY <1>1, EndsOfSeq DEF Top, Pop
<1> QED
  BY <1>2 DEF Frame

\* Sending keeps the wires and the notices typed.
LEMMA SendTyped ==
    ASSUME TypeOK, NEW p \in Procs, NEW q \in Procs, NEW m \in Message, Send(p, q, m)
    PROVE  wire' \in [Pairs -> Seq(Message)] /\ due' \subseteq Pairs
<1>1. <<p, q>> \in Pairs /\ wire \in [Pairs -> Seq(Message)] /\ due \subseteq Pairs
  BY DEF Pairs, TypeOK
<1>2. Append(wire[<<p, q>>], m) \in Seq(Message)
  BY <1>1, AppendToSeq
<1> QED
  BY <1>1, <1>2 DEF Send

LEMMA RequestTyped ==
    ASSUME TypeOK, NEW t \in Threads, NEW q \in Procs, NEW type \in {"request", "post"},
           calls < MaxCalls
    PROVE  Request(t, q, type) \in Message /\ Home[t] \in Procs
<1>1. Home[t] \in Procs /\ channel[t][q] \in Threads \cup {None} /\ calls + 1 \in 1..MaxCalls
  BY DispatchAssumption DEF TypeOK
<1> QED
  BY <1>1 DEF Request, Message

LEMMA ReopenedTyped ==
    ASSUME TypeOK, NEW t \in Threads, NEW q \in Procs
    PROVE  Reopened(t, q) \in [Procs -> [Procs -> {"open", "closed", "none"}]]
  BY DEF TypeOK, Reopened

LEMMA CallNests ==
    ASSUME Nesting, NEW t \in Threads, NEW q \in Procs, Call(t, q)
    PROVE  Nesting'
<1> DEFINE f == [what |-> "call", peer |-> q, id |-> calls + 1]
<1>1. /\ mode[t] = "run" /\ calls < MaxCalls /\ calls' = calls + 1 /\ TypeOK
      /\ Send(Home[t], q, Request(t, q, "request"))
      /\ stack' = [stack EXCEPT ![t] = Append(@, f)]
      /\ mode' = [mode EXCEPT ![t] = "look"]
      /\ calledBack' = (calledBack \/ ServesPostOf(t, q))
      /\ UNCHANGED <<up, channel, queue, pulsed, default, open, strayed>>
  BY DEF Call, Running, Nesting
<1>2. f \in Frame /\ calls' \in 0..MaxCalls
  BY <1>1, DispatchAssumption DEF Frame, TypeOK
<1> HIDE DEF f
<1>3. wire' \in [Pairs -> Seq(Message)] /\ due' \subseteq Pairs
  BY <1>1, RequestTyped, SendTyped
<1>4. stack \in [Threads -> Seq(Frame)] /\ mode \in [Threads -> {"run", "look", "wait"}]
  BY <1>1 DEF TypeOK
<1>5. stack' \in [Threads -> Seq(Frame)] /\ stack'[t] = Append(stack[t], f)
  BY <1>1, <1>2, <1>4, AppendToSeq
<1>6. mode' \in [Threads -> {"run", "look", "wait"}] /\ mode'[t] = "look"
  BY <1>1, <1>4
<1>7. calledBack' \in BOOLEAN
  BY <1>1 DEF TypeOK, ServesPostOf
<1>8. TypeOK'
  BY <1>1, <1>2, <1>3, <1>5, <1>6, <1>7 DEF TypeOK
<1>9. Alternates(t)'
  <2>1. f.what = "call" /\ InCall(t)' /\ ~InCall(t)
    BY <1>1, <1>6 DEF f, InCall
  <2> QED
    BY <1>1, <1>2, <1>5, <2>1, StackGrows DEF Nesting
<1>10. ASSUME NEW u \in Threads, u # t PROVE Alternates(u)'
  BY <1>1, <1>4, <1>10, StackStays DEF Nesting, InCall
<1> QED
  BY <1>8, <1>9, <1>10 DEF Nesting

\* A thread that starts to serve a message.
LEMMA ServeNests ==
    ASSUME Nesting, NEW t \in Threads, NEW m \in Message, Serves(t, m),
           stack[t] # <<>> => InCall(t)
    PROVE  /\ stack' \in [Threads -> Seq(Frame)]
           /\ channel' \in [Threads -> [Procs -> Threads \cup {None}]]
           /\ mode' \in [Threads -> {"run", "look", "wait"}]
           /\ open' \in [Procs -> [Procs -> {"open", "closed", "none"}]]
           /\ \A u \in Threads : Alternates(u)'
<1> DEFINE f == [what |-> IF m.type = "post" THEN "serveAsync" ELSE "serve",
                 peer |-> m.src, thread |-> m.from, id |-> m.id, saved |-> channel[t][m.src]]
<1>1. /\ stack' = [stack EXCEPT ![t] = Append(@, f)]
      /\ channel' = [channel EXCEPT ![t][m.src] = m.from]
      /\ mode' = [mode EXCEPT ![t] = "run"] /\ TypeOK
  BY DEF Serves, Nesting
<1>2. m.src \in Procs /\ m.from \in Threads /\ m.id \in 1..MaxCalls
  BY DEF Message
<1>3. channel[t][m.src] \in Threads \cup {None}
  BY <1>1, <1>2 DEF TypeOK
<1>4. f \in Frame /\ f.what # "call"
  BY <1>2, <1>3 DEF Frame
<1> HIDE DEF f
<1>5. /\ stack \in [Threads -> Seq(Frame)] /\ mode \in [Threads -> {"run", "look", "wait"}]
      /\ channel \in [Threads -> [Procs -> Threads \cup {None}]]
  BY <1>1 DEF TypeOK
<1>6. stack' \in [Threads -> Seq(Frame)] /\ stack'[t] = Append(stack[t], f)
  BY <1>1, <1>4, <1>5, AppendToSeq
<1>7. mode' \in [Threads -> {"run", "look", "wait"}] /\ mode'[t] = "run"
  BY <1>1, <1>5
<1>8. channel' \in [Threads -> [Procs -> Threads \cup {None}]]
  BY <1>1, <1>2, <1>5
<1>9. Alternates(t)'
  <2>1. ~InCall(t)'
    BY <1>7 DEF InCall
  <2> QED
    BY <1>1, <1>4, <1>6, <2>1, StackGrows DEF Nesting
<1>10. ASSUME NEW u \in Threads, u # t PROVE Alternates(u)'
  BY <1>1, <1>5, <1>10, StackStays DEF Nesting, InCall
<1>11. open' \in [Procs -> [Procs -> {"open", "closed", "none"}]]
  <2>1. open' = Reopened(t, m.src)
    BY DEF Serves
  <2>2. Reopened(t, m.src) \in [Procs -> [Procs -> {"open", "closed", "none"}]]
    BY <1>1, <1>2, ReopenedTyped
  <2> QED
    BY <2>1, <2>2
<1> QED
  BY <1>6, <1>7, <1>8, <1>9, <1>10, <1>11

\* A thread that leaves the frame it is in.
LEMMA PopNests ==
    ASSUME Nesting, NEW t \in Threads, stack[t] # <<>>, NEW place \in {"run", "look"},
           stack' = [stack EXCEPT ![t] = Pop(t)], mode' = [mode EXCEPT ![t] = place],
           place = "look" <=> ~InCall(t) /\ Len(stack[t]) > 1
    PROVE  /\ stack' \in [Threads -> Seq(Frame)]
           /\ mode' \in [Threads -> {"run", "look", "wait"}]
           /\ \A u \in Threads : Alternates(u)'
<1>1. /\ stack \in [Threads -> Seq(Frame)] /\ mode \in [Threads -> {"run", "look", "wait"}]
      /\ TypeOK
  BY DEF TypeOK, Nesting
<1>2. Pop(t) \in Seq(Frame)
  BY <1>1, TopIsFrame
<1>3. stack' \in [Threads -> Seq(Frame)] /\ stack'[t] = Pop(t)
  BY <1>1, <1>2
<1>4. mode' \in [Threads -> {"run", "look", "wait"}] /\ mode'[t] = place
  BY <1>1
<1>5. Alternates(t)'
  BY <1>1, <1>3, <1>4, StackShrinks DEF Nesting, InCall
<1>6. ASSUME NEW u \in Threads, u # t PROVE Alternates(u)'
  BY <1>1, <1>6, StackStays DEF Nesting, InCall
<1> QED
  BY <1>3, <1>4, <1>5, <1>6

\* Steps that leave the stacks alone.
LEMMA SameStacks ==
    ASSUME Nesting, UNCHANGED stack, \A u \in Threads : InCall(u)' <=> InCall(u)
    PROVE  \A u \in Threads : Alternates(u)'
  BY StackStays DEF Nesting

LEMMA WaitingNests ==
    ASSUME Nesting, NEW t \in Threads,
           GoesToWait(t) \/ GivesUp(t) \/ IsPulsed(t) \/ TakesResponse(t)
    PROVE  Nesting'
<1>1. TypeOK /\ Alternates(t) /\ mode \in [Threads -> {"run", "look", "wait"}]
      /\ queue \in [Threads -> Seq(Message)]
  BY DEF Nesting, TypeOK
<1>2. CASE GoesToWait(t) \/ IsPulsed(t)
  <2>1. /\ mode' \in [Threads -> {"run", "look", "wait"}]
        /\ \A u \in Threads : InCall(u)' <=> InCall(u)
    BY <1>1, <1>2 DEF GoesToWait, IsPulsed, InCall
  <2>2. TypeOK'
    BY <1>1, <1>2, <2>1 DEF GoesToWait, IsPulsed, TypeOK
  <2>3. \A u \in Threads : Alternates(u)'
    BY <1>2, <2>1, SameStacks DEF GoesToWait, IsPulsed
  <2> QED
    BY <2>2, <2>3 DEF Nesting
<1>3. CASE GivesUp(t)
  <2>1. InCall(t) /\ stack[t] # <<>>
    BY <1>1, <1>3 DEF GivesUp, InCall, Alternates
  <2>2. /\ stack' = [stack EXCEPT ![t] = Pop(t)] /\ mode' = [mode EXCEPT ![t] = "run"]
        /\ open' = [open EXCEPT ![Home[t]][Top(t).peer] = "none"]
        /\ strayed' \in BOOLEAN
        /\ UNCHANGED <<up, channel, queue, pulsed, default, wire, due, calls, calledBack>>
    BY <1>1, <1>3 DEF GivesUp, TypeOK, OnItsWay
  <2>3. /\ stack' \in [Threads -> Seq(Frame)] /\ mode' \in [Threads -> {"run", "look", "wait"}]
        /\ \A u \in Threads : Alternates(u)'
    BY <2>1, <2>2, PopNests
  <2>4. open' \in [Procs -> [Procs -> {"open", "closed", "none"}]]
    BY <1>1, <2>2 DEF TypeOK
  <2> QED
    BY <1>1, <2>2, <2>3, <2>4 DEF Nesting, TypeOK
<1>4. CASE TakesResponse(t)
  <2>1. InCall(t) /\ stack[t] # <<>>
    BY <1>1, <1>4 DEF TakesResponse, InCall, Alternates
  <2>2. /\ stack' = [stack EXCEPT ![t] = Pop(t)] /\ mode' = [mode EXCEPT ![t] = "run"]
        /\ queue[t] # <<>> /\ queue' = [queue EXCEPT ![t] = Tail(@)]
        /\ UNCHANGED <<up, channel, pulsed, default, open, wire, due, calls, strayed, calledBack>>
    BY <1>4 DEF TakesResponse
  <2>3. /\ stack' \in [Threads -> Seq(Frame)] /\ mode' \in [Threads -> {"run", "look", "wait"}]
        /\ \A u \in Threads : Alternates(u)'
    BY <2>1, <2>2, PopNests
  <2>4. queue' \in [Threads -> Seq(Message)]
    BY <1>1, <2>2, TailOfSeq
  <2> QED
    BY <1>1, <2>2, <2>3, <2>4 DEF Nesting, TypeOK
<1> QED
  BY <1>2, <1>3, <1>4

LEMMA ServingNests ==
    ASSUME Nesting, NEW t \in Threads, TakesRequest(t) \/ Pumped(t) \/ Finishes(t)
    PROVE  Nesting'
<1>1. /\ TypeOK /\ Alternates(t) /\ mode \in [Threads -> {"run", "look", "wait"}]
      /\ queue \in [Threads -> Seq(Message)] /\ default \in [Procs -> Seq(Message)]
      /\ channel \in [Threads -> [Procs -> Threads \cup {None}]] /\ Home[t] \in Procs
  BY DispatchAssumption DEF Nesting, TypeOK
<1>2. CASE TakesRequest(t)
  <2>1. InCall(t)
    BY <1>2 DEF TakesRequest, InCall
  <2>2. /\ queue[t] # <<>> /\ queue' = [queue EXCEPT ![t] = Tail(@)]
        /\ Serves(t, Head(queue[t])) /\ strayed' \in BOOLEAN
        /\ UNCHANGED <<up, pulsed, default, wire, due, calls, calledBack>>
    BY <1>1, <1>2 DEF TakesRequest, TypeOK
  <2>3. queue' \in [Threads -> Seq(Message)] /\ Head(queue[t]) \in Message
    BY <1>1, <2>2, TailOfSeq
  <2>4. /\ stack' \in [Threads -> Seq(Frame)] /\ mode' \in [Threads -> {"run", "look", "wait"}]
        /\ channel' \in [Threads -> [Procs -> Threads \cup {None}]]
        /\ open' \in [Procs -> [Procs -> {"open", "closed", "none"}]]
        /\ \A u \in Threads : Alternates(u)'
    BY <2>1, <2>2, <2>3, ServeNests
  <2> QED
    BY <1>1, <2>2, <2>3, <2>4 DEF Nesting, TypeOK
<1>3. CASE Pumped(t)
  <2>1. /\ stack[t] = <<>> /\ default[Home[t]] # <<>>
        /\ default' = [default EXCEPT ![Home[t]] = Tail(@)]
        /\ Serves(t, Head(default[Home[t]])) /\ strayed' \in BOOLEAN
        /\ UNCHANGED <<up, queue, pulsed, wire, due, calls, calledBack>>
    BY <1>1, <1>3 DEF Pumped, LateAndPosted, TypeOK
  <2>2. default' \in [Procs -> Seq(Message)] /\ Head(default[Home[t]]) \in Message
    BY <1>1, <2>1, TailOfSeq
  <2>3. /\ stack' \in [Threads -> Seq(Frame)] /\ mode' \in [Threads -> {"run", "look", "wait"}]
        /\ channel' \in [Threads -> [Procs -> Threads \cup {None}]]
        /\ open' \in [Procs -> [Procs -> {"open", "closed", "none"}]]
        /\ \A u \in Threads : Alternates(u)'
    BY <2>1, <2>2, ServeNests
  <2> QED
    BY <1>1, <2>1, <2>2, <2>3 DEF Nesting, TypeOK
<1>4. CASE Finishes(t)
  <2> DEFINE f == Top(t)
             m == [type |-> "response", src |-> Home[t], from |-> t, to |-> f.thread, id |-> f.id]
  <2>1. /\ mode[t] = "run" /\ stack[t] # <<>>
        /\ IF f.what = "serve" THEN Send(Home[t], f.peer, m) ELSE UNCHANGED <<wire, due>>
        /\ channel' = [channel EXCEPT ![t][f.peer] = f.saved]
        /\ stack' = [stack EXCEPT ![t] = Pop(t)]
        /\ mode' = [mode EXCEPT ![t] = IF Len(stack[t]) > 1 THEN "look" ELSE "run"]
        /\ UNCHANGED <<up, queue, pulsed, default, open, calls, strayed, calledBack>>
    BY <1>4 DEF Finishes
  <2>2. f.what # "call" /\ ~InCall(t)
    BY <1>1, <2>1 DEF Alternates, InCall
  <2>3. /\ f.peer \in Procs /\ f.id \in 1..MaxCalls /\ f.thread \in Threads
        /\ f.saved \in Threads \cup {None}
    BY <1>1, <2>1, <2>2, TopIsFrame
  <2>4. m \in Message
    BY <1>1, <2>3 DEF Message
  <2> HIDE DEF f, m
  <2>5. wire' \in [Pairs -> Seq(Message)] /\ due' \subseteq Pairs
    BY <1>1, <2>1, <2>3, <2>4, SendTyped DEF TypeOK
  <2>6. channel' \in [Threads -> [Procs -> Threads \cup {None}]]
    BY <1>1, <2>1, <2>3
  <2> DEFINE place == IF Len(stack[t]) > 1 THEN "look" ELSE "run"
  <2>7. place \in {"run", "look"} /\ (place = "look" <=> ~InCall(t) /\ Len(stack[t]) > 1)
    BY <2>2
  <2> HIDE DEF place
  <2>8. /\ stack' \in [Threads -> Seq(Frame)] /\ mode' \in [Threads -> {"run", "look", "wait"}]
        /\ \A u \in Threads : Alternates(u)'
    BY <2>1, <2>7, PopNests DEF place
  <2> QED
    BY <1>1, <2>1, <2>5, <2>6, <2>8 DEF Nesting, TypeOK
<1> QED
  BY <1>2, <1>3, <1>4

LEMMA PostNests ==
    ASSUME Nesting, NEW t \in Threads, NEW q \in Procs, Post(t, q)
    PROVE  Nesting'
<1>1. /\ calls < MaxCalls /\ calls' = calls + 1 /\ TypeOK
      /\ Send(Home[t], q, Request(t, q, "post"))
      /\ calledBack' = (calledBack \/ ServesPostOf(t, q))
      /\ UNCHANGED <<up, stack, mode, channel, queue, pulsed, default, open, strayed>>
  BY DEF Post, Nesting
<1>2. wire' \in [Pairs -> Seq(Message)] /\ due' \subseteq Pairs
  BY <1>1, RequestTyped, SendTyped
<1>3. calls' \in 0..MaxCalls /\ calledBack' \in BOOLEAN
  BY <1>1, DispatchAssumption DEF TypeOK, ServesPostOf
<1>4. \A u \in Threads : Alternates(u)'
  BY <1>1, SameStacks DEF InCall
<1> QED
  BY <1>1, <1>2, <1>3, <1>4 DEF Nesting, TypeOK

LEMMA SortingNests ==
    ASSUME Nesting, NEW p \in Procs, NEW q \in Procs, Sorts(p, q)
    PROVE  Nesting'
<1> DEFINE s == wire[<<q, p>>]
           m == Head(s)
<1>1. /\ TypeOK /\ <<q, p>> \in Pairs /\ wire \in [Pairs -> Seq(Message)]
      /\ queue \in [Threads -> Seq(Message)] /\ default \in [Procs -> Seq(Message)]
  BY DEF Nesting, TypeOK, Pairs
<1>2. s # <<>> /\ wire' = [wire EXCEPT ![<<q, p>>] = Tail(s)]
  BY <1>1 DEF Sorts
<1>3. s \in Seq(Message)
  BY <1>1
<1>4. m \in Message /\ Tail(s) \in Seq(Message)
  BY <1>2, <1>3, TailOfSeq
<1>5. wire' \in [Pairs -> Seq(Message)]
  BY <1>1, <1>2, <1>4
<1>6. UNCHANGED <<stack, mode>> /\ \A u \in Threads : Alternates(u)'
  BY SameStacks DEF Sorts, InCall
<1>7. /\ UNCHANGED <<up, stack, mode, channel, pulsed, open, due, calls, strayed, calledBack>>
      /\ \/ m.to # None /\ queue' = [queue EXCEPT ![m.to] = Append(@, m)] /\ UNCHANGED default
         \/ default' = [default EXCEPT ![p] = Append(@, m)] /\ UNCHANGED queue
  BY DEF Sorts
<1>8. m.to \in Threads \cup {None}
  BY <1>4 DEF Message
<1> HIDE DEF m
<1>9. CASE m.to # None /\ queue' = [queue EXCEPT ![m.to] = Append(@, m)] /\ UNCHANGED default
  <2>1. queue[m.to] \in Seq(Message) /\ Append(queue[m.to], m) \in Seq(Message)
    BY <1>1, <1>4, <1>8, <1>9, AppendToSeq
  <2>2. queue' \in [Threads -> Seq(Message)]
    BY <1>1, <1>9, <2>1
  <2> QED
    BY <1>1, <1>5, <1>6, <1>7, <1>9, <2>2 DEF Nesting, TypeOK
<1>10. CASE default' = [default EXCEPT ![p] = Append(@, m)] /\ UNCHANGED queue
  <2>1. Append(default[p], m) \in Seq(Message)
    BY <1>1, <1>4, AppendToSeq
  <2>2. default' \in [Procs -> Seq(Message)]
    BY <1>1, <1>10, <2>1
  <2> QED
    BY <1>1, <1>5, <1>6, <1>7, <1>10, <2>2 DEF Nesting, TypeOK
<1> QED
  BY <1>7, <1>9, <1>10

LEMMA ClosingNests ==
    ASSUME Nesting, NEW p \in Procs, NEW q \in Procs, Closes(p, q)
    PROVE  Nesting'
<1>1. /\ open' = [open EXCEPT ![p][q] = IF @ = "none" THEN "none" ELSE "closed"]
      /\ due' \subseteq due /\ (pulsed' = pulsed \/ pulsed' = pulsed \cup ThreadsOf(p))
      /\ UNCHANGED <<up, stack, mode, channel, queue, default, wire, calls, strayed, calledBack>>
  BY DEF Closes, Notified
<1>2. open' \in [Procs -> [Procs -> {"open", "closed", "none"}]]
  BY <1>1 DEF Nesting, TypeOK
<1>3. pulsed' \subseteq Threads /\ due' \subseteq Pairs
  BY <1>1 DEF Nesting, TypeOK, ThreadsOf
<1>4. \A u \in Threads : Alternates(u)'
  BY <1>1, SameStacks DEF InCall
<1> QED
  BY <1>1, <1>2, <1>3, <1>4 DEF Nesting, TypeOK

LEMMA DyingNests ==
    ASSUME Nesting, NEW q \in Procs, Die(q)
    PROVE  Nesting'
<1>1. /\ TypeOK /\ wire \in [Pairs -> Seq(Message)]
      /\ queue \in [Threads -> Seq(Message)] /\ default \in [Procs -> Seq(Message)]
      /\ stack \in [Threads -> Seq(Frame)] /\ mode \in [Threads -> {"run", "look", "wait"}]
  BY DEF Nesting, TypeOK
<1>2. /\ up' = up \ {q}
      /\ wire' = [e \in Pairs |-> IF e[2] = q THEN <<>> ELSE wire[e]]
      /\ stack' = [t \in Threads |-> IF Home[t] = q THEN <<>> ELSE stack[t]]
      /\ mode' = [t \in Threads |-> IF Home[t] = q THEN "run" ELSE mode[t]]
      /\ queue' = [t \in Threads |-> IF Home[t] = q THEN <<>> ELSE queue[t]]
      /\ default' = [default EXCEPT ![q] = <<>>]
      /\ due' = {e \in due : e[1] # q} \cup {<<p, q>> : p \in up'}
      /\ UNCHANGED <<channel, pulsed, open, calls, strayed, calledBack>>
  BY DEF Die
<1>3. <<>> \in Seq(Message) /\ <<>> \in Seq(Frame)
  OBVIOUS
<1>4. wire' \in [Pairs -> Seq(Message)] /\ due' \subseteq Pairs
  <2>1. wire' \in [Pairs -> Seq(Message)]
    BY <1>1, <1>2, <1>3
  <2>2. up' \subseteq Procs /\ due \subseteq Pairs
    BY <1>1, <1>2 DEF TypeOK
  <2> QED
    BY <1>2, <2>1, <2>2 DEF Pairs
<1>5. /\ queue' \in [Threads -> Seq(Message)] /\ default' \in [Procs -> Seq(Message)]
      /\ stack' \in [Threads -> Seq(Frame)] /\ mode' \in [Threads -> {"run", "look", "wait"}]
  BY <1>1, <1>2, <1>3
<1>6. TypeOK'
  BY <1>1, <1>2, <1>4, <1>5 DEF TypeOK
<1>7. ASSUME NEW u \in Threads PROVE Alternates(u)'
  <2>1. CASE Home[u] = q
    <3>1. stack'[u] = <<>> /\ mode'[u] = "run"
      BY <1>2, <2>1
    <3> QED
      BY <3>1 DEF Alternates, InCall
  <2>2. CASE Home[u] # q
    BY <1>2, <2>2, StackStays DEF Nesting, InCall
  <2> QED
    BY <2>1, <2>2
<1> QED
  BY <1>6, <1>7 DEF Nesting

-----------------------------------------------------------------------------

LEMMA NestingStep == Nesting /\ [Next]_vars => Nesting'
<1> SUFFICES ASSUME Nesting, [Next]_vars PROVE Nesting'
  OBVIOUS
<1>1. ASSUME NEW t \in Threads, NEW q \in Procs, Call(t, q) \/ Post(t, q) PROVE Nesting'
  BY <1>1, CallNests, PostNests
<1>2. ASSUME NEW t \in Threads, ThreadStep(t) PROVE Nesting'
  BY <1>2, WaitingNests, ServingNests DEF ThreadStep
<1>3. ASSUME NEW p \in Procs, NEW q \in Procs, Sorts(p, q) \/ Closes(p, q) PROVE Nesting'
  BY <1>3, SortingNests, ClosingNests
<1>4. ASSUME NEW q \in Procs, Die(q) PROVE Nesting'
  BY <1>4, DyingNests
<1>5. CASE UNCHANGED vars
  <2>1. \A u \in Threads : Alternates(u)'
    BY <1>5, SameStacks DEF vars, InCall
  <2> QED
    BY <1>5, <2>1 DEF Nesting, TypeOK, vars
<1> QED
  BY <1>1, <1>2, <1>3, <1>4, <1>5 DEF Next, Handling

LEMMA NestingStarts == Init => Nesting
<1> SUFFICES ASSUME Init PROVE Nesting
  OBVIOUS
<1>1. TypeOK
  <2>1. /\ wire \in [Pairs -> Seq(Message)] /\ queue \in [Threads -> Seq(Message)]
        /\ stack \in [Threads -> Seq(Frame)] /\ default \in [Procs -> Seq(Message)]
    BY DEF Init
  <2>2. /\ mode \in [Threads -> {"run", "look", "wait"}]
        /\ open \in [Procs -> [Procs -> {"open", "closed", "none"}]]
        /\ channel \in [Threads -> [Procs -> Threads \cup {None}]]
    BY DEF Init
  <2>3. /\ up \subseteq Procs /\ pulsed \subseteq Threads /\ due \subseteq Pairs
        /\ strayed \in BOOLEAN /\ calledBack \in BOOLEAN
    BY DEF Init
  <2>4. calls \in 0..MaxCalls
    BY DispatchAssumption DEF Init
  <2> QED
    BY <2>1, <2>2, <2>3, <2>4 DEF TypeOK
<1>2. \A u \in Threads : Alternates(u)
  BY DEF Init, Alternates, InCall
<1> QED
  BY <1>1, <1>2 DEF Nesting

\* In every state the calls and the requests a thread is in alternate, with the call
\* on top for as long as it is in wait_for_response: process_request never finishes
\* what it has not been asked, and send_request is never returned to out of turn.
THEOREM CallsAndServicesAlternate == Spec => []Nesting
<1>1. Init => Nesting
  BY NestingStarts
<1>2. Nesting /\ [Next]_vars => Nesting'
  BY NestingStep
<1> QED
  BY <1>1, <1>2, PTL DEF Spec

\* The state of the threads, of what they have queued and of the wires keeps its
\* types, so that a frame popped by process_request has a thread to answer to and a
\* thread to put back.
THEOREM DispatchTypes == Spec => []TypeOK
<1>1. Nesting => TypeOK
  BY DEF Nesting
<1> QED
  BY <1>1, CallsAndServicesAlternate, PTL

-----------------------------------------------------------------------------
\* Boxes: the wires and queues that messages are in, seen as one family.

WireBox(p, q) == <<"wire", p, q>>
QueueBox(t) == <<"queue", t, t>>
DefaultBox(p) == <<"default", p, p>>

Boxes == {WireBox(e[1], e[2]) : e \in Pairs} \cup {QueueBox(t) : t \in Threads}
         \cup {DefaultBox(p) : p \in Procs}

Box(b) == IF b[1] = "wire" THEN wire[<<b[2], b[3]>>]
          ELSE IF b[1] = "queue" THEN queue[b[2]] ELSE default[b[2]]

\* The application a box is in, or on the way to.
Dest(b) == IF b[1] = "queue" THEN Home[b[2]] ELSE b[3]

\* A synchronous request or a response.
Sync(m) == m.type # "post"

\* The synchronous requests and responses on their way in or to an application.
Coming(q) ==
    {m \in Message : /\ Sync(m)
                     /\ \E b \in Boxes : Dest(b) = q /\ \E i \in 1..Len(Box(b)) : Box(b)[i] = m}

\* What a step can do to the boxes.
Keeps == \A c \in Boxes : Box(c)' = Box(c)
Adds(b, m) == \A c \in Boxes : Box(c)' = IF c = b THEN Append(Box(c), m) ELSE Box(c)
Drops(b) ==
    /\ Box(b) # <<>>
    /\ \A c \in Boxes : Box(c)' = IF c = b THEN Tail(Box(c)) ELSE Box(c)
Moves(b, d) ==
    /\ Box(b) # <<>> /\ d # b /\ Dest(d) = Dest(b)
    /\ \A c \in Boxes : Box(c)' = IF c = b THEN Tail(Box(c))
                                  ELSE IF c = d THEN Append(Box(c), Head(Box(b))) ELSE Box(c)
Empties(q) ==
    \A c \in Boxes : Box(c)' = IF Dest(c) = q THEN <<>> ELSE Box(c)

LEMMA BoxKinds ==
    ASSUME NEW b \in Boxes
    PROVE  \/ \E p, q \in Procs : b = WireBox(p, q)
           \/ \E t \in Threads : b = QueueBox(t)
           \/ \E p \in Procs : b = DefaultBox(p)
<1>1. CASE b \in {WireBox(e[1], e[2]) : e \in Pairs}
  <2>1. PICK e \in Pairs : b = WireBox(e[1], e[2])
    BY <1>1
  <2>2. e[1] \in Procs /\ e[2] \in Procs
    BY DEF Pairs
  <2> QED
    BY <2>1, <2>2
<1> QED
  BY <1>1 DEF Boxes

LEMMA WireBoxes ==
    ASSUME NEW p \in Procs, NEW q \in Procs
    PROVE  /\ WireBox(p, q) \in Boxes /\ Dest(WireBox(p, q)) = q /\ WireBox(p, q)[1] = "wire"
           /\ Box(WireBox(p, q)) = wire[<<p, q>>] /\ Box(WireBox(p, q))' = wire'[<<p, q>>]
           /\ WireBox(p, q)[2] = p
<1>1. <<p, q>> \in Pairs
  BY DEF Pairs
<1> QED
  BY <1>1 DEF Boxes, WireBox, Dest, Box

LEMMA QueueBoxes ==
    ASSUME NEW t \in Threads
    PROVE  /\ QueueBox(t) \in Boxes /\ Dest(QueueBox(t)) = Home[t] /\ QueueBox(t)[1] = "queue"
           /\ Box(QueueBox(t)) = queue[t] /\ Box(QueueBox(t))' = queue'[t]
           /\ QueueBox(t)[2] = t
  BY DEF Boxes, QueueBox, Dest, Box

LEMMA DefaultBoxes ==
    ASSUME NEW p \in Procs
    PROVE  /\ DefaultBox(p) \in Boxes /\ Dest(DefaultBox(p)) = p /\ DefaultBox(p)[1] = "default"
           /\ Box(DefaultBox(p)) = default[p] /\ Box(DefaultBox(p))' = default'[p]
           /\ DefaultBox(p)[2] = p
  BY DEF Boxes, DefaultBox, Dest, Box

LEMMA BoxTyped ==
    ASSUME TypeOK, NEW b \in Boxes
    PROVE  /\ Box(b) \in Seq(Message) /\ Len(Box(b)) \in Nat /\ Dest(b) \in Procs
           /\ b[1] # "wire" => Box(b) \in Seq(Message)
<1>1. CASE \E p, q \in Procs : b = WireBox(p, q)
  <2>1. PICK p \in Procs, q \in Procs : b = WireBox(p, q)
    BY <1>1
  <2>2. <<p, q>> \in Pairs /\ wire \in [Pairs -> Seq(Message)]
    BY DEF Pairs, TypeOK
  <2> QED
    BY <2>1, <2>2, WireBoxes
<1>2. CASE \E t \in Threads : b = QueueBox(t)
  <2>1. PICK t \in Threads : b = QueueBox(t)
    BY <1>2
  <2>2. queue[t] \in Seq(Message) /\ Home[t] \in Procs
    BY DispatchAssumption DEF TypeOK
  <2>3. queue[t] \in Seq(Message)
    BY <2>2
  <2> QED
    BY <2>1, <2>2, <2>3, QueueBoxes
<1>3. CASE \E p \in Procs : b = DefaultBox(p)
  <2>1. PICK p \in Procs : b = DefaultBox(p)
    BY <1>3
  <2>2. default[p] \in Seq(Message)
    BY DEF TypeOK
  <2>3. default[p] \in Seq(Message)
    BY <2>2
  <2> QED
    BY <2>1, <2>2, <2>3, DefaultBoxes
<1> QED
  BY <1>1, <1>2, <1>3, BoxKinds

\* Which boxes are the same.
LEMMA BoxesDiffer ==
    /\ \A p, q, r, s : WireBox(p, q) = WireBox(r, s) <=> (p = r /\ q = s)
    /\ \A t, u : QueueBox(t) = QueueBox(u) <=> t = u
    /\ \A p, q : DefaultBox(p) = DefaultBox(q) <=> p = q
    /\ \A p, q, t : WireBox(p, q) # QueueBox(t)
    /\ \A p, q, r : WireBox(p, q) # DefaultBox(r)
    /\ \A t, p : QueueBox(t) # DefaultBox(p)
  BY DEF WireBox, QueueBox, DefaultBox

-----------------------------------------------------------------------------
\* What is in the boxes after a step was in them before, or is new.

LEMMA AfterAdding ==
    ASSUME TypeOK, NEW b \in Boxes, NEW m \in Message, Adds(b, m),
           NEW c \in Boxes, NEW i \in 1..Len(Box(c)')
    PROVE  \/ i \in 1..Len(Box(c)) /\ Box(c)'[i] = Box(c)[i]
           \/ c = b /\ i = Len(Box(c)) + 1 /\ Box(c)'[i] = m
<1> DEFINE s == Box(c)
<1>1. s \in Seq(Message) /\ Len(s) \in Nat
  BY BoxTyped
<1>2. Box(c)' = IF c = b THEN Append(s, m) ELSE s
  BY DEF Adds
<1> HIDE DEF s
<1>3. CASE c = b
  BY <1>1, <1>2, <1>3, AppendToSeq DEF s
<1>4. CASE c # b
  BY <1>1, <1>2, <1>4 DEF s
<1> QED
  BY <1>3, <1>4

LEMMA AfterDropping ==
    ASSUME TypeOK, NEW b \in Boxes, Drops(b), NEW c \in Boxes, NEW i \in 1..Len(Box(c)')
    PROVE  \/ c # b /\ i \in 1..Len(Box(c)) /\ Box(c)'[i] = Box(c)[i]
           \/ c = b /\ i + 1 \in 2..Len(Box(c)) /\ Box(c)'[i] = Box(c)[i + 1]
<1> DEFINE s == Box(c)
<1>1. s \in Seq(Message) /\ Len(s) \in Nat
  BY BoxTyped
<1>2. Box(c)' = IF c = b THEN Tail(s) ELSE s
  BY DEF Drops
<1>3. c = b => s # <<>>
  BY DEF Drops
<1> HIDE DEF s
<1>4. CASE c = b
  <2>1. /\ s # <<>> /\ Len(Tail(s)) = Len(s) - 1 /\ Len(s) \in Nat \ {0}
        /\ \A k \in 1..Len(s) - 1 : Tail(s)[k] = s[k + 1]
    BY <1>1, <1>3, <1>4, TailOfSeq
  <2>2. i \in 1..Len(s) - 1 /\ Box(c)'[i] = s[i + 1]
    BY <1>2, <1>4, <2>1
  <2> QED
    BY <1>4, <2>1, <2>2 DEF s
<1>5. CASE c # b
  BY <1>1, <1>2, <1>5 DEF s
<1> QED
  BY <1>4, <1>5

LEMMA AfterMoving ==
    ASSUME TypeOK, NEW b \in Boxes, NEW d \in Boxes, Moves(b, d),
           NEW c \in Boxes, NEW i \in 1..Len(Box(c)')
    PROVE  \/ c # b /\ i \in 1..Len(Box(c)) /\ Box(c)'[i] = Box(c)[i]
           \/ c = b /\ i + 1 \in 2..Len(Box(c)) /\ Box(c)'[i] = Box(c)[i + 1]
           \/ c = d /\ c # b /\ i = Len(Box(c)) + 1 /\ Box(c)'[i] = Box(b)[1]
<1> DEFINE s == Box(c)
           m == Head(Box(b))
<1>1. s \in Seq(Message) /\ Len(s) \in Nat
  BY BoxTyped
<1>2. /\ Box(c)' = IF c = b THEN Tail(s) ELSE IF c = d THEN Append(s, m) ELSE s
      /\ c = b => s # <<>> /\ d # b
  BY DEF Moves
<1>3. m \in Message /\ m = Box(b)[1]
  BY BoxTyped, TailOfSeq DEF Moves
<1> HIDE DEF s, m
<1>4. CASE c = b
  <2>1. /\ s # <<>> /\ Len(Tail(s)) = Len(s) - 1 /\ Len(s) \in Nat \ {0}
        /\ \A k \in 1..Len(s) - 1 : Tail(s)[k] = s[k + 1]
    BY <1>1, <1>2, <1>4, TailOfSeq
  <2>2. i \in 1..Len(s) - 1 /\ Box(c)'[i] = s[i + 1]
    BY <1>2, <1>4, <2>1
  <2> QED
    BY <1>4, <2>1, <2>2 DEF s
<1>5. CASE c = d /\ c # b
  <2>1. /\ Len(Append(s, m)) = Len(s) + 1 /\ Append(s, m)[Len(s) + 1] = m
        /\ \A k \in 1..Len(s) : Append(s, m)[k] = s[k]
    BY <1>1, <1>3, AppendToSeq
  <2>2. Box(c)' = Append(s, m)
    BY <1>2, <1>5
  <2>3. i \in 1..Len(s) \/ i = Len(s) + 1
    BY <1>1, <2>1, <2>2
  <2> QED
    BY <1>3, <1>5, <2>1, <2>2, <2>3 DEF s
<1>6. CASE c # d /\ c # b
  BY <1>1, <1>2, <1>6 DEF s
<1> QED
  BY <1>4, <1>5, <1>6

LEMMA AfterEmptying ==
    ASSUME TypeOK, NEW q \in Procs, Empties(q), NEW c \in Boxes, NEW i \in 1..Len(Box(c)')
    PROVE  Dest(c) # q /\ i \in 1..Len(Box(c)) /\ Box(c)'[i] = Box(c)[i]
<1>1. Box(c)' = IF Dest(c) = q THEN <<>> ELSE Box(c)
  BY DEF Empties
<1>2. Dest(c) # q
  BY <1>1
<1> QED
  BY <1>1, <1>2

-----------------------------------------------------------------------------
\* No request and no answer is in two places.

InBoxes(x) == \E b \in Boxes : \E i \in 1..Len(Box(b)) : Sync(Box(b)[i]) /\ Box(b)[i].id = x

Once ==
    \A b, c \in Boxes : \A i \in 1..Len(Box(b)), j \in 1..Len(Box(c)) :
        Sync(Box(b)[i]) /\ Sync(Box(c)[j]) /\ Box(b)[i].id = Box(c)[j].id => b = c /\ i = j

LEMMA OnceAdding ==
    ASSUME TypeOK, Once, NEW b \in Boxes, NEW m \in Message, Adds(b, m),
           Sync(m) => ~InBoxes(m.id)
    PROVE  /\ Once'
           /\ \A x : InBoxes(x)' => InBoxes(x) \/ (Sync(m) /\ x = m.id)
<1>1. ASSUME NEW c \in Boxes, NEW i \in 1..Len(Box(c)'), Sync(Box(c)'[i])
      PROVE  \/ i \in 1..Len(Box(c)) /\ Box(c)'[i] = Box(c)[i] /\ InBoxes(Box(c)'[i].id)
             \/ c = b /\ i = Len(Box(c)) + 1 /\ Box(c)'[i] = m
  BY <1>1, AfterAdding DEF InBoxes
<1>2. Once'
  <2> SUFFICES ASSUME NEW c \in Boxes, NEW d \in Boxes,
                      NEW i \in 1..Len(Box(c)'), NEW j \in 1..Len(Box(d)'),
                      Sync(Box(c)'[i]), Sync(Box(d)'[j]), Box(c)'[i].id = Box(d)'[j].id
               PROVE  c = d /\ i = j
    BY DEF Once, Sync
  <2> QED
    BY <1>1, SMTT(30) DEF Once
<1>3. ASSUME NEW x, InBoxes(x)' PROVE InBoxes(x) \/ (Sync(m) /\ x = m.id)
  <2>1. PICK c \in Boxes : \E i \in 1..Len(Box(c)') : Sync(Box(c)'[i]) /\ Box(c)'[i].id = x
    BY <1>3 DEF InBoxes, Sync
  <2>2. PICK i \in 1..Len(Box(c)') : Sync(Box(c)'[i]) /\ Box(c)'[i].id = x
    BY <2>1
  <2>3. CASE i \in 1..Len(Box(c)) /\ Box(c)'[i] = Box(c)[i]
    BY <2>2, <2>3 DEF InBoxes
  <2>4. CASE Box(c)'[i] = m
    BY <2>2, <2>4
  <2> QED
    BY <1>1, <2>2, <2>3, <2>4
<1> QED
  BY <1>2, <1>3

LEMMA OnceDropping ==
    ASSUME TypeOK, Once, NEW b \in Boxes, Drops(b)
    PROVE  /\ Once'
           /\ \A x : InBoxes(x)' => InBoxes(x) /\ (Sync(Box(b)[1]) => x # Box(b)[1].id)
<1> DEFINE at(c, i) == IF c = b THEN i + 1 ELSE i
<1>1. ASSUME NEW c \in Boxes, NEW i \in 1..Len(Box(c)')
      PROVE  /\ at(c, i) \in 1..Len(Box(c)) /\ Box(c)'[i] = Box(c)[at(c, i)]
             /\ c = b => at(c, i) # 1
  BY AfterDropping, BoxTyped
<1>2. Once'
  <2> SUFFICES ASSUME NEW c \in Boxes, NEW d \in Boxes,
                      NEW i \in 1..Len(Box(c)'), NEW j \in 1..Len(Box(d)'),
                      Sync(Box(c)'[i]), Sync(Box(d)'[j]), Box(c)'[i].id = Box(d)'[j].id
               PROVE  c = d /\ i = j
    BY DEF Once, Sync
  <2> HIDE DEF at
  <2>1. PICK k, l : k = at(c, i) /\ l = at(d, j)
    OBVIOUS
  <2>2. /\ k \in 1..Len(Box(c)) /\ Box(c)'[i] = Box(c)[k]
        /\ l \in 1..Len(Box(d)) /\ Box(d)'[j] = Box(d)[l]
    BY <1>1, <2>1
  <2>3. c = d /\ k = l
    BY <2>2 DEF Once
  <2> QED
    BY <2>1, <2>3 DEF at
<1>3. ASSUME NEW x, InBoxes(x)' PROVE InBoxes(x) /\ (Sync(Box(b)[1]) => x # Box(b)[1].id)
  <2>1. PICK c \in Boxes : \E i \in 1..Len(Box(c)') : Sync(Box(c)'[i]) /\ Box(c)'[i].id = x
    BY <1>3 DEF InBoxes, Sync
  <2>2. PICK i \in 1..Len(Box(c)') : Sync(Box(c)'[i]) /\ Box(c)'[i].id = x
    BY <2>1
  <2>3. 1 \in 1..Len(Box(b))
    BY BoxTyped, EndsOfSeq DEF Drops
  <2> HIDE DEF at
  <2>4. PICK k : k = at(c, i)
    OBVIOUS
  <2>5. k \in 1..Len(Box(c)) /\ Sync(Box(c)[k]) /\ Box(c)[k].id = x /\ (c = b => k # 1)
    BY <1>1, <2>2, <2>4
  <2> QED
    BY <2>3, <2>5 DEF InBoxes, Once
<1> QED
  BY <1>2, <1>3

LEMMA OnceMoving ==
    ASSUME TypeOK, Once, NEW b \in Boxes, NEW d \in Boxes, Moves(b, d)
    PROVE  Once' /\ \A x : InBoxes(x)' => InBoxes(x)
<1> DEFINE new(c, i) == c = d /\ i = Len(Box(c)) + 1
           from(c, i) == IF new(c, i) THEN b ELSE c
           at(c, i) == IF new(c, i) THEN 1 ELSE IF c = b THEN i + 1 ELSE i
<1>1. d # b /\ Len(Box(d)) \in Nat /\ 1 \in 1..Len(Box(b))
  BY BoxTyped, EndsOfSeq DEF Moves
<1>2. ASSUME NEW c \in Boxes, NEW i \in 1..Len(Box(c)')
      PROVE  /\ from(c, i) \in Boxes /\ at(c, i) \in 1..Len(Box(from(c, i)))
             /\ Box(c)'[i] = Box(from(c, i))[at(c, i)]
             /\ from(c, i) = b /\ ~new(c, i) => at(c, i) # 1
  BY <1>1, AfterMoving, BoxTyped
<1>3. Once'
  <2> SUFFICES ASSUME NEW c \in Boxes, NEW e \in Boxes,
                      NEW i \in 1..Len(Box(c)'), NEW j \in 1..Len(Box(e)'),
                      Sync(Box(c)'[i]), Sync(Box(e)'[j]), Box(c)'[i].id = Box(e)'[j].id
               PROVE  c = e /\ i = j
    BY DEF Once, Sync
  <2> HIDE DEF new, from, at
  <2>1. from(c, i) = from(e, j) /\ at(c, i) = at(e, j)
    <3> PICK c0, i0, e0, j0 : c0 = from(c, i) /\ i0 = at(c, i) /\ e0 = from(e, j) /\ j0 = at(e, j)
      OBVIOUS
    <3>1. c0 \in Boxes /\ i0 \in 1..Len(Box(c0)) /\ Box(c)'[i] = Box(c0)[i0]
      BY <1>2
    <3>2. e0 \in Boxes /\ j0 \in 1..Len(Box(e0)) /\ Box(e)'[j] = Box(e0)[j0]
      BY <1>2
    <3>3. Sync(Box(c0)[i0]) /\ Sync(Box(e0)[j0]) /\ Box(c0)[i0].id = Box(e0)[j0].id
      BY <3>1, <3>2
    <3>4. c0 = e0 /\ i0 = j0
      BY <3>1, <3>2, <3>3 DEF Once
    <3> QED
      BY <3>4
  <2>2. new(c, i) <=> new(e, j)
    BY <1>2, <2>1 DEF from, at
  <2> QED
    BY <2>1, <2>2 DEF new, from, at
<1>4. ASSUME NEW x, InBoxes(x)' PROVE InBoxes(x)
  <2>1. PICK c \in Boxes : \E i \in 1..Len(Box(c)') : Sync(Box(c)'[i]) /\ Box(c)'[i].id = x
    BY <1>4 DEF InBoxes, Sync
  <2> HIDE DEF new, from, at
  <2> QED
    BY <1>2, <2>1 DEF InBoxes
<1> QED
  BY <1>3, <1>4

LEMMA OnceEmptying ==
    ASSUME TypeOK, Once, NEW q \in Procs, Empties(q)
    PROVE  Once' /\ \A x : InBoxes(x)' => InBoxes(x)
<1>1. ASSUME NEW c \in Boxes, NEW i \in 1..Len(Box(c)'), Sync(Box(c)'[i])
      PROVE  i \in 1..Len(Box(c)) /\ Box(c)'[i] = Box(c)[i]
  BY <1>1, AfterEmptying DEF Sync
<1>2. Once'
  <2> SUFFICES ASSUME NEW c \in Boxes, NEW d \in Boxes,
                      NEW i \in 1..Len(Box(c)'), NEW j \in 1..Len(Box(d)'),
                      Sync(Box(c)'[i]), Sync(Box(d)'[j]), Box(c)'[i].id = Box(d)'[j].id
               PROVE  c = d /\ i = j
    BY DEF Once, Sync
  <2> QED
    BY <1>1 DEF Once
<1>3. ASSUME NEW x, InBoxes(x)' PROVE InBoxes(x)
  <2>1. PICK c \in Boxes : \E i \in 1..Len(Box(c)') : Sync(Box(c)'[i]) /\ Box(c)'[i].id = x
    BY <1>3 DEF InBoxes, Sync
  <2> QED
    BY <1>1, <2>1 DEF InBoxes
<1> QED
  BY <1>2, <1>3

-----------------------------------------------------------------------------
\* How a step changes what is coming to an application.

LEMMA ComingOnce ==
    ASSUME Once, NEW p, NEW q, NEW m \in Coming(p), NEW n \in Coming(q), m.id = n.id
    PROVE  m = n /\ p = q
<1>1. PICK b \in Boxes : Dest(b) = p /\ \E i \in 1..Len(Box(b)) : Box(b)[i] = m
  BY DEF Coming
<1>2. PICK c \in Boxes : Dest(c) = q /\ \E i \in 1..Len(Box(c)) : Box(c)[i] = n
  BY DEF Coming
<1>3. Sync(m) /\ Sync(n)
  BY DEF Coming
<1> QED
  BY <1>1, <1>2, <1>3 DEF Once

LEMMA ComingInBoxes ==
    ASSUME NEW q, NEW m \in Coming(q)
    PROVE  m \in Message /\ Sync(m) /\ InBoxes(m.id)
  BY DEF Coming, InBoxes

LEMMA BoxesCome ==
    ASSUME TypeOK, NEW b \in Boxes, NEW i \in 1..Len(Box(b)), Sync(Box(b)[i])
    PROVE  Box(b)[i] \in Coming(Dest(b))
<1>1. Box(b)[i] \in Message
  BY BoxTyped
<1> QED
  BY <1>1 DEF Coming, Sync

LEMMA ComingAdding ==
    ASSUME TypeOK, NEW b \in Boxes, NEW m \in Message, Adds(b, m), NEW q
    PROVE  Coming(q)' = IF Sync(m) /\ q = Dest(b) THEN Coming(q) \cup {m} ELSE Coming(q)
<1>1. ASSUME NEW c \in Boxes, NEW i \in 1..Len(Box(c))
      PROVE  i \in 1..Len(Box(c)') /\ Box(c)'[i] = Box(c)[i]
  <2>1. Box(c) \in Seq(Message)
    BY BoxTyped
  <2> QED
    BY <2>1, AppendToSeq DEF Adds
<1>2. Len(Box(b)) + 1 \in 1..Len(Box(b)') /\ Box(b)'[Len(Box(b)) + 1] = m
  <2>1. Box(b) \in Seq(Message) /\ Len(Box(b)) \in Nat
    BY BoxTyped
  <2> QED
    BY <2>1, AppendToSeq DEF Adds
<1>3. ASSUME NEW n \in Coming(q)' PROVE n \in Coming(q) \/ (Sync(m) /\ q = Dest(b) /\ n = m)
  <2>1. PICK c \in Boxes : Dest(c) = q /\ \E i \in 1..Len(Box(c)') : Box(c)'[i] = n
    BY <1>3 DEF Coming, Dest
  <2>2. n \in Message /\ Sync(n)
    BY <1>3 DEF Coming, Sync
  <2> QED
    BY <2>1, <2>2, AfterAdding DEF Coming
<1>4. ASSUME NEW n \in Coming(q) PROVE n \in Coming(q)'
  <2>1. PICK c \in Boxes : Dest(c) = q /\ \E i \in 1..Len(Box(c)) : Box(c)[i] = n
    BY <1>4 DEF Coming
  <2>2. \E i \in 1..Len(Box(c)') : Box(c)'[i] = n
    BY <1>1, <2>1
  <2> QED
    BY <1>4, <2>1, <2>2 DEF Coming, Dest, Sync
<1>5. ASSUME Sync(m), q = Dest(b) PROVE m \in Coming(q)'
  <2>1. m \in Message
    BY <1>5 DEF Sync
  <2> QED
    BY <1>2, <1>5, <2>1 DEF Coming, Dest, Sync
<1> QED
  BY <1>3, <1>4, <1>5

LEMMA ComingDropping ==
    ASSUME TypeOK, Once, NEW b \in Boxes, Drops(b), NEW q
    PROVE  Coming(q)' = Coming(q) \ {Box(b)[1]}
<1>1. ASSUME NEW c \in Boxes, NEW i \in 1..Len(Box(c)), c # b \/ i # 1
      PROVE  \E k \in 1..Len(Box(c)') : Box(c)'[k] = Box(c)[i]
  <2>1. Box(c) \in Seq(Message) /\ Len(Box(c)) \in Nat
    BY BoxTyped
  <2>2. CASE c # b
    BY <2>1, <2>2 DEF Drops
  <2>3. CASE c = b
    <3>1. /\ Len(Tail(Box(c))) = Len(Box(c)) - 1
          /\ \A k \in 1..Len(Box(c)) - 1 : Tail(Box(c))[k] = Box(c)[k + 1]
      BY <2>1, <2>3, TailOfSeq DEF Drops
    <3>2. i - 1 \in 1..Len(Box(c)) - 1 /\ (i - 1) + 1 = i
      BY <1>1, <2>1, <2>3
    <3> QED
      BY <2>3, <3>1, <3>2 DEF Drops
  <2> QED
    BY <2>2, <2>3
<1>2. ASSUME NEW n \in Coming(q)' PROVE n \in Coming(q) /\ n # Box(b)[1]
  <2>1. PICK c \in Boxes : Dest(c) = q /\ \E i \in 1..Len(Box(c)') : Box(c)'[i] = n
    BY <1>2 DEF Coming, Dest
  <2>2. n \in Message /\ Sync(n)
    BY <1>2 DEF Coming, Sync
  <2>3. PICK i \in 1..Len(Box(c)') : Box(c)'[i] = n
    BY <2>1
  <2>4. PICK k \in 1..Len(Box(c)) : Box(c)[k] = n /\ (c = b => k # 1)
    BY <2>3, AfterDropping, BoxTyped
  <2>5. 1 \in 1..Len(Box(b))
    BY BoxTyped, EndsOfSeq DEF Drops
  <2>6. n # Box(b)[1]
    BY <2>2, <2>4, <2>5 DEF Once
  <2> QED
    BY <2>1, <2>2, <2>4, <2>6 DEF Coming
<1>3. ASSUME NEW n \in Coming(q), n # Box(b)[1] PROVE n \in Coming(q)'
  <2>1. PICK c \in Boxes : Dest(c) = q /\ \E i \in 1..Len(Box(c)) : Box(c)[i] = n
    BY <1>3 DEF Coming
  <2>2. \E i \in 1..Len(Box(c)') : Box(c)'[i] = n
    BY <1>1, <1>3, <2>1
  <2> QED
    BY <1>3, <2>1, <2>2 DEF Coming, Dest, Sync
<1> QED
  BY <1>2, <1>3

LEMMA ComingMoving ==
    ASSUME TypeOK, NEW b \in Boxes, NEW d \in Boxes, Moves(b, d), NEW q
    PROVE  Coming(q)' = Coming(q)
<1>1. 1 \in 1..Len(Box(b)) /\ d # b /\ Dest(d) = Dest(b) /\ Box(b) # <<>>
  BY BoxTyped, EndsOfSeq DEF Moves
<1>2. ASSUME NEW c \in Boxes, NEW i \in 1..Len(Box(c))
      PROVE  \E e \in Boxes : Dest(e) = Dest(c) /\ \E k \in 1..Len(Box(e)') : Box(e)'[k] = Box(c)[i]
  <2>1. Box(c) \in Seq(Message) /\ Len(Box(c)) \in Nat
    BY BoxTyped
  <2>2. CASE c = b /\ i = 1
    <3>1. Box(d) \in Seq(Message) /\ Len(Box(d)) \in Nat
      BY BoxTyped
    <3>2. Head(Box(b)) = Box(b)[1] /\ Head(Box(b)) \in Message
      BY <1>1, <2>1, <2>2, TailOfSeq
    <3>3. Box(d)' = Append(Box(d), Head(Box(b)))
      BY <1>1 DEF Moves
    <3>4. Len(Box(d)) + 1 \in 1..Len(Box(d)') /\ Box(d)'[Len(Box(d)) + 1] = Box(b)[1]
      BY <3>1, <3>2, <3>3, AppendToSeq
    <3> QED
      BY <1>1, <2>2, <3>4
  <2>3. CASE c = b /\ i # 1
    <3>1. /\ Len(Tail(Box(c))) = Len(Box(c)) - 1
          /\ \A k \in 1..Len(Box(c)) - 1 : Tail(Box(c))[k] = Box(c)[k + 1]
      BY <1>1, <2>1, <2>3, TailOfSeq
    <3>2. i - 1 \in 1..Len(Box(c)) - 1 /\ (i - 1) + 1 = i
      BY <2>1, <2>3
    <3> QED
      BY <2>3, <3>1, <3>2 DEF Moves
  <2>4. CASE c # b
    <3>1. i \in 1..Len(Box(c)') /\ Box(c)'[i] = Box(c)[i]
      <4>1. CASE c = d
        <5>1. Head(Box(b)) \in Message
          BY <1>1, BoxTyped, TailOfSeq
        <5>2. Box(c)' = Append(Box(c), Head(Box(b)))
          BY <2>4, <4>1 DEF Moves
        <5> QED
          BY <2>1, <5>1, <5>2, AppendToSeq
      <4>2. CASE c # d
        BY <2>1, <2>4, <4>2 DEF Moves
      <4> QED
        BY <4>1, <4>2
    <3> QED
      BY <3>1
  <2> QED
    BY <2>2, <2>3, <2>4
<1>3. ASSUME NEW n \in Coming(q)' PROVE n \in Coming(q)
  <2>1. PICK c \in Boxes : Dest(c) = q /\ \E i \in 1..Len(Box(c)') : Box(c)'[i] = n
    BY <1>3 DEF Coming, Dest
  <2>2. n \in Message /\ Sync(n)
    BY <1>3 DEF Coming, Sync
  <2>3. \E e \in Boxes : Dest(e) = q /\ \E k \in 1..Len(Box(e)) : Box(e)[k] = n
    <3> PICK i \in 1..Len(Box(c)') : Box(c)'[i] = n
      BY <2>1
    <3>1. CASE i \in 1..Len(Box(c)) /\ Box(c)'[i] = Box(c)[i]
      BY <2>1, <3>1
    <3>2. CASE i + 1 \in 2..Len(Box(c)) /\ Box(c)'[i] = Box(c)[i + 1]
      <4>1. i + 1 \in 1..Len(Box(c))
        BY <3>2, BoxTyped
      <4> QED
        BY <2>1, <3>2, <4>1
    <3>3. CASE c = d /\ Box(c)'[i] = Box(b)[1]
      BY <1>1, <2>1, <3>3
    <3> QED
      BY <3>1, <3>2, <3>3, AfterMoving
  <2> QED
    BY <2>2, <2>3 DEF Coming
<1>4. ASSUME NEW n \in Coming(q) PROVE n \in Coming(q)'
  <2>1. PICK c \in Boxes : Dest(c) = q /\ \E i \in 1..Len(Box(c)) : Box(c)[i] = n
    BY <1>4 DEF Coming
  <2>2. \E e \in Boxes : Dest(e) = q /\ \E i \in 1..Len(Box(e)') : Box(e)'[i] = n
    BY <1>2, <2>1
  <2> QED
    BY <1>4, <2>2 DEF Coming, Dest, Sync
<1> QED
  BY <1>3, <1>4

LEMMA ComingEmptying ==
    ASSUME TypeOK, NEW q \in Procs, Empties(q), NEW p
    PROVE  Coming(p)' = IF p = q THEN {} ELSE Coming(p)
<1>1. ASSUME NEW n \in Coming(p)' PROVE n \in Coming(p) /\ p # q
  <2>1. PICK c \in Boxes : Dest(c) = p /\ \E i \in 1..Len(Box(c)') : Box(c)'[i] = n
    BY <1>1 DEF Coming, Dest
  <2>2. n \in Message /\ Sync(n)
    BY <1>1 DEF Coming, Sync
  <2>3. p # q /\ \E i \in 1..Len(Box(c)) : Box(c)[i] = n
    BY <2>1, <2>2, AfterEmptying DEF Sync
  <2> QED
    BY <2>1, <2>2, <2>3 DEF Coming
<1>2. ASSUME NEW n \in Coming(p), p # q PROVE n \in Coming(p)'
  <2>1. PICK c \in Boxes : Dest(c) = p /\ \E i \in 1..Len(Box(c)) : Box(c)[i] = n
    BY <1>2 DEF Coming
  <2>2. PICK i \in 1..Len(Box(c)) : Box(c)[i] = n
    BY <2>1
  <2>3. Box(c) \in Seq(Message) /\ Len(Box(c)) \in Nat
    BY BoxTyped
  <2>4. Box(c)' = Box(c)
    BY <1>2, <2>1 DEF Empties
  <2>5. i \in 1..Len(Box(c)') /\ Box(c)'[i] = n
    BY <2>2, <2>3, <2>4
  <2> QED
    BY <1>2, <2>1, <2>5 DEF Coming, Dest, Sync
<1> QED
  BY <1>1, <1>2

LEMMA ComingKept ==
    ASSUME Keeps
    PROVE  /\ \A q : Coming(q)' = Coming(q)
           /\ \A x : InBoxes(x)' <=> InBoxes(x)
           /\ Once => Once'
  BY DEF Keeps, Coming, InBoxes, Once, Dest, Sync

-----------------------------------------------------------------------------
\* The steps of the specification, as what they do to the boxes.

Sends(p, q, m) == IF q \in up THEN Adds(WireBox(p, q), m) ELSE Keeps

LEMMA SendBoxes ==
    ASSUME TypeOK, NEW p \in Procs, NEW q \in Procs, NEW m, Send(p, q, m),
           UNCHANGED <<queue, default>>
    PROVE  Sends(p, q, m)
<1>1. <<p, q>> \in Pairs /\ wire \in [Pairs -> Seq(Message)]
  BY DEF Pairs, TypeOK
<1>2. wire' = IF q \in up THEN [wire EXCEPT ![<<p, q>>] = Append(@, m)] ELSE wire
  BY DEF Send
<1>3. ASSUME NEW c \in Boxes
      PROVE  Box(c)' = IF q \in up /\ c = WireBox(p, q) THEN Append(Box(c), m) ELSE Box(c)
  <2>1. ASSUME NEW r \in Procs, NEW s \in Procs, c = WireBox(r, s)
        PROVE  Box(c)' = IF q \in up /\ c = WireBox(p, q) THEN Append(Box(c), m) ELSE Box(c)
    <3>1. <<r, s>> \in Pairs /\ Box(c) = wire[<<r, s>>] /\ Box(c)' = wire'[<<r, s>>]
      BY <2>1, WireBoxes, BoxesDiffer DEF Pairs
    <3>2. c = WireBox(p, q) <=> (r = p /\ s = q)
      BY <2>1, WireBoxes, BoxesDiffer
    <3> QED
      BY <1>1, <1>2, <3>1, <3>2
  <2>2. ASSUME NEW t \in Threads, c = QueueBox(t) PROVE Box(c)' = Box(c) /\ c # WireBox(p, q)
    BY <2>2, QueueBoxes, WireBoxes, BoxesDiffer
  <2>3. ASSUME NEW r \in Procs, c = DefaultBox(r) PROVE Box(c)' = Box(c) /\ c # WireBox(p, q)
    BY <2>3, DefaultBoxes, WireBoxes, BoxesDiffer
  <2> QED
    BY <2>1, <2>2, <2>3, BoxKinds
<1> QED
  BY <1>3 DEF Sends, Adds, Keeps

LEMMA SameBoxes == ASSUME UNCHANGED <<wire, queue, default>> PROVE Keeps
  BY DEF Keeps, Box

LEMMA QueueDrops ==
    ASSUME TypeOK, NEW t \in Threads, queue[t] # <<>>,
           queue' = [queue EXCEPT ![t] = Tail(@)], UNCHANGED <<wire, default>>
    PROVE  Drops(QueueBox(t))
<1>1. queue \in [Threads -> Seq(Message)]
  BY DEF TypeOK
<1>2. ASSUME NEW c \in Boxes
      PROVE  Box(c)' = IF c = QueueBox(t) THEN Tail(Box(c)) ELSE Box(c)
  <2>1. ASSUME NEW r \in Procs, NEW s \in Procs, c = WireBox(r, s)
        PROVE  Box(c)' = Box(c) /\ c # QueueBox(t)
    <3>1. Box(c) = wire[<<r, s>>] /\ Box(c)' = wire'[<<r, s>>]
      BY <2>1, WireBoxes
    <3> QED
      BY <2>1, <3>1, BoxesDiffer
  <2>2. ASSUME NEW u \in Threads, c = QueueBox(u)
        PROVE  Box(c)' = IF c = QueueBox(t) THEN Tail(Box(c)) ELSE Box(c)
    BY <1>1, <2>2, QueueBoxes, BoxesDiffer
  <2>3. ASSUME NEW r \in Procs, c = DefaultBox(r) PROVE Box(c)' = Box(c) /\ c # QueueBox(t)
    BY <2>3, DefaultBoxes, QueueBoxes, BoxesDiffer
  <2> QED
    BY <2>1, <2>2, <2>3, BoxKinds
<1> QED
  BY <1>2, QueueBoxes, BoxesDiffer DEF Drops

LEMMA DefaultDrops ==
    ASSUME TypeOK, NEW p \in Procs, default[p] # <<>>,
           default' = [default EXCEPT ![p] = Tail(@)], UNCHANGED <<wire, queue>>
    PROVE  Drops(DefaultBox(p))
<1>1. default \in [Procs -> Seq(Message)]
  BY DEF TypeOK
<1>2. ASSUME NEW c \in Boxes
      PROVE  Box(c)' = IF c = DefaultBox(p) THEN Tail(Box(c)) ELSE Box(c)
  <2>1. ASSUME NEW r \in Procs, NEW s \in Procs, c = WireBox(r, s)
        PROVE  Box(c)' = Box(c) /\ c # DefaultBox(p)
    <3>1. Box(c) = wire[<<r, s>>] /\ Box(c)' = wire'[<<r, s>>]
      BY <2>1, WireBoxes
    <3> QED
      BY <2>1, <3>1, BoxesDiffer
  <2>2. ASSUME NEW u \in Threads, c = QueueBox(u) PROVE Box(c)' = Box(c) /\ c # DefaultBox(p)
    BY <2>2, QueueBoxes, DefaultBoxes, BoxesDiffer
  <2>3. ASSUME NEW r \in Procs, c = DefaultBox(r)
        PROVE  Box(c)' = IF c = DefaultBox(p) THEN Tail(Box(c)) ELSE Box(c)
    BY <1>1, <2>3, DefaultBoxes, BoxesDiffer
  <2> QED
    BY <2>1, <2>2, <2>3, BoxKinds
<1> QED
  BY <1>2, DefaultBoxes, BoxesDiffer DEF Drops

\* Where a message is sorted to.
Goal(p, m) == IF m.to # None THEN QueueBox(m.to) ELSE DefaultBox(p)

LEMMA SortMoves ==
    ASSUME TypeOK, NEW p \in Procs, NEW q \in Procs, Sorts(p, q),
           Head(wire[<<q, p>>]).to # None => Home[Head(wire[<<q, p>>]).to] = p
    PROVE  LET m == Head(wire[<<q, p>>]) IN
           /\ m \in Message /\ m = Box(WireBox(q, p))[1]
           /\ Goal(p, m) \in Boxes /\ Moves(WireBox(q, p), Goal(p, m))
<1> DEFINE m == Head(wire[<<q, p>>])
<1>1. /\ wire \in [Pairs -> Seq(Message)] /\ <<q, p>> \in Pairs
      /\ queue \in [Threads -> Seq(Message)] /\ default \in [Procs -> Seq(Message)]
  BY DEF TypeOK, Pairs
<1>2. /\ wire[<<q, p>>] # <<>> /\ wire' = [wire EXCEPT ![<<q, p>>] = Tail(@)]
      /\ IF m.to # None
         THEN queue' = [queue EXCEPT ![m.to] = Append(@, m)] /\ UNCHANGED default
         ELSE default' = [default EXCEPT ![p] = Append(@, m)] /\ UNCHANGED queue
  BY <1>1 DEF Sorts
<1>3. m \in Message /\ m = wire[<<q, p>>][1]
  <2>1. wire[<<q, p>>] \in Seq(Message)
    BY <1>1
  <2> QED
    BY <1>2, <2>1, TailOfSeq
<1>4. m.to \in Threads \cup {None} /\ (m.to # None => Home[m.to] = p)
  BY <1>3 DEF Message
<1>5. m = Box(WireBox(q, p))[1] /\ m = Head(Box(WireBox(q, p)))
  BY <1>3, WireBoxes, BoxesDiffer
<1> HIDE DEF m
<1>6. /\ Goal(p, m) \in Boxes /\ Dest(Goal(p, m)) = p /\ Goal(p, m)[1] # "wire"
      /\ m.to # None => Goal(p, m) = QueueBox(m.to)
      /\ m.to = None => Goal(p, m) = DefaultBox(p)
  BY <1>4, QueueBoxes, DefaultBoxes, BoxesDiffer DEF Goal
<1>7. ASSUME NEW c \in Boxes
      PROVE  Box(c)' = IF c = WireBox(q, p) THEN Tail(Box(c))
                       ELSE IF c = Goal(p, m) THEN Append(Box(c), m) ELSE Box(c)
  <2>1. ASSUME NEW r \in Procs, NEW s \in Procs, c = WireBox(r, s)
        PROVE  /\ Box(c)' = IF c = WireBox(q, p) THEN Tail(Box(c)) ELSE Box(c)
               /\ c # Goal(p, m)
    <3>1. /\ <<r, s>> \in Pairs /\ Box(c) = wire[<<r, s>>] /\ Box(c)' = wire'[<<r, s>>]
          /\ c[1] = "wire"
      BY <2>1, WireBoxes, BoxesDiffer DEF Pairs
    <3>2. c = WireBox(q, p) <=> (r = q /\ s = p)
      BY <2>1, WireBoxes, BoxesDiffer
    <3> QED
      BY <1>1, <1>2, <1>6, <3>1, <3>2
  <2>2. ASSUME NEW u \in Threads, c = QueueBox(u)
        PROVE  /\ Box(c)' = IF c = Goal(p, m) THEN Append(Box(c), m) ELSE Box(c)
               /\ c # WireBox(q, p)
    <3>1. c # WireBox(q, p) /\ Box(c) = queue[u] /\ Box(c)' = queue'[u]
      BY <2>2, QueueBoxes, WireBoxes, BoxesDiffer
    <3>2. CASE m.to # None
      <4>1. m.to \in Threads /\ (c = Goal(p, m) <=> u = m.to)
        BY <1>4, <1>6, <2>2, <3>2, QueueBoxes, BoxesDiffer
      <4> QED
        BY <1>1, <1>2, <3>1, <3>2, <4>1
    <3>3. CASE m.to = None
      <4>1. c # Goal(p, m)
        BY <1>6, <2>2, <3>3, QueueBoxes, DefaultBoxes, BoxesDiffer
      <4> QED
        BY <1>2, <3>1, <3>3, <4>1
    <3> QED
      BY <3>2, <3>3
  <2>3. ASSUME NEW r \in Procs, c = DefaultBox(r)
        PROVE  /\ Box(c)' = IF c = Goal(p, m) THEN Append(Box(c), m) ELSE Box(c)
               /\ c # WireBox(q, p)
    <3>1. c # WireBox(q, p) /\ Box(c) = default[r] /\ Box(c)' = default'[r]
      BY <2>3, DefaultBoxes, WireBoxes, BoxesDiffer
    <3>2. CASE m.to # None
      <4>1. c # Goal(p, m)
        BY <1>4, <1>6, <2>3, <3>2, QueueBoxes, DefaultBoxes, BoxesDiffer
      <4> QED
        BY <1>2, <3>1, <3>2, <4>1
    <3>3. CASE m.to = None
      <4>1. c = Goal(p, m) <=> r = p
        BY <1>6, <2>3, <3>3, DefaultBoxes, BoxesDiffer
      <4> QED
        BY <1>1, <1>2, <3>1, <3>3, <4>1
    <3> QED
      BY <3>2, <3>3
  <2> QED
    BY <2>1, <2>2, <2>3, BoxKinds
<1>8. Moves(WireBox(q, p), Goal(p, m))
  <2>1. Box(WireBox(q, p)) # <<>> /\ Dest(WireBox(q, p)) = p /\ Goal(p, m) # WireBox(q, p)
    BY <1>2, <1>6, WireBoxes, BoxesDiffer
  <2> QED
    BY <1>5, <1>6, <1>7, <2>1 DEF Moves
<1> QED
  BY <1>3, <1>5, <1>6, <1>8 DEF m

LEMMA DyingEmpties ==
    ASSUME TypeOK, NEW q \in Procs, Die(q)
    PROVE  Empties(q)
<1>1. /\ wire \in [Pairs -> Seq(Message)]
      /\ queue \in [Threads -> Seq(Message)] /\ default \in [Procs -> Seq(Message)]
  BY DEF TypeOK
<1>2. /\ up' = up \ {q}
      /\ wire' = [e \in Pairs |-> IF e[2] = q THEN <<>> ELSE wire[e]]
      /\ queue' = [t \in Threads |-> IF Home[t] = q THEN <<>> ELSE queue[t]]
      /\ default' = [default EXCEPT ![q] = <<>>]
  BY DEF Die
<1>3. ASSUME NEW c \in Boxes PROVE Box(c)' = IF Dest(c) = q THEN <<>> ELSE Box(c)
  <2>1. ASSUME NEW r \in Procs, NEW s \in Procs, c = WireBox(r, s)
        PROVE  Box(c)' = IF Dest(c) = q THEN <<>> ELSE Box(c)
    <3>1. /\ <<r, s>> \in Pairs /\ Box(c) = wire[<<r, s>>] /\ Box(c)' = wire'[<<r, s>>]
          /\ Dest(c) = s
      BY <2>1, WireBoxes, BoxesDiffer DEF Pairs
    <3>2. wire'[<<r, s>>] = IF s = q THEN <<>> ELSE wire[<<r, s>>]
      BY <1>2, <3>1
    <3> QED
      BY <3>1, <3>2
  <2>2. ASSUME NEW u \in Threads, c = QueueBox(u)
        PROVE  Box(c)' = IF Dest(c) = q THEN <<>> ELSE Box(c)
    BY <1>2, <2>2, QueueBoxes, BoxesDiffer
  <2>3. ASSUME NEW r \in Procs, c = DefaultBox(r)
        PROVE  Box(c)' = IF Dest(c) = q THEN <<>> ELSE Box(c)
    BY <1>1, <1>2, <2>3, DefaultBoxes, BoxesDiffer
  <2> QED
    BY <2>1, <2>2, <2>3, BoxKinds
<1> QED
  BY <1>3 DEF Empties

-----------------------------------------------------------------------------
\* Where messages are: each in a box that it is for.

Fits(b, m) ==
    /\ m.id <= calls /\ Home[m.from] = m.src /\ m.src # Dest(b)
    /\ m.to # None => Home[m.to] = Dest(b)
    /\ m.type = "response" => m.to # None
    /\ b[1] = "wire" => m.src = b[2]
    /\ b[1] = "queue" => m.to = b[2]
    /\ b[1] = "default" => m.to = None

Addressed ==
    \A b \in Boxes : \A i \in 1..Len(Box(b)) : Fits(b, Box(b)[i])

LEMMA FitsLater ==
    ASSUME calls \in Nat, calls' \in Nat, calls <= calls', NEW b, NEW m \in Message, Fits(b, m)
    PROVE  Fits(b, m)'
<1>1. m.id \in Nat
  BY DispatchAssumption DEF Message
<1> QED
  BY <1>1 DEF Fits, Dest

LEMMA AddressedAdding ==
    ASSUME TypeOK, calls' \in Nat, calls <= calls', Addressed,
           NEW b \in Boxes, NEW m \in Message, Adds(b, m),
           Fits(b, m)'
    PROVE  Addressed'
<1> SUFFICES ASSUME NEW c \in Boxes, NEW i \in 1..Len(Box(c)'), NEW n, n = Box(c)'[i]
             PROVE  Fits(c, n)'
  BY DEF Addressed, Fits, Dest
<1>1. calls \in Nat
  BY DispatchAssumption DEF TypeOK
<1>2. CASE i \in 1..Len(Box(c)) /\ n = Box(c)[i]
  <2>1. Fits(c, n) /\ n \in Message
    BY <1>2, BoxTyped DEF Addressed
  <2> QED
    BY <1>1, <2>1, FitsLater
<1>3. CASE c = b /\ n = m
  BY <1>3
<1> QED
  BY <1>2, <1>3, AfterAdding

LEMMA AddressedDropping ==
    ASSUME TypeOK, UNCHANGED calls, Addressed, NEW b \in Boxes, Drops(b)
    PROVE  Addressed'
<1> SUFFICES ASSUME NEW c \in Boxes, NEW i \in 1..Len(Box(c)'), NEW n, n = Box(c)'[i]
             PROVE  Fits(c, n)'
  BY DEF Addressed, Fits, Dest
<1>1. PICK k \in 1..Len(Box(c)) : n = Box(c)[k]
  BY AfterDropping, BoxTyped
<1>2. Fits(c, n)
  BY <1>1 DEF Addressed
<1> QED
  BY <1>2 DEF Fits, Dest

LEMMA AddressedMoving ==
    ASSUME TypeOK, UNCHANGED calls, Addressed, NEW b \in Boxes, NEW d \in Boxes, Moves(b, d),
           Fits(d, Box(b)[1])
    PROVE  Addressed'
<1> SUFFICES ASSUME NEW c \in Boxes, NEW i \in 1..Len(Box(c)'), NEW n, n = Box(c)'[i]
             PROVE  Fits(c, n)'
  BY DEF Addressed, Fits, Dest
<1>1. CASE c = d /\ n = Box(b)[1]
  BY <1>1 DEF Fits, Dest
<1>2. CASE \E k \in 1..Len(Box(c)) : n = Box(c)[k]
  <2>1. Fits(c, n)
    BY <1>2 DEF Addressed
  <2> QED
    BY <2>1 DEF Fits, Dest
<1> QED
  BY <1>1, <1>2, AfterMoving, BoxTyped

LEMMA AddressedEmptying ==
    ASSUME TypeOK, UNCHANGED calls, Addressed, NEW q \in Procs, Empties(q)
    PROVE  Addressed'
<1> SUFFICES ASSUME NEW c \in Boxes, NEW i \in 1..Len(Box(c)'), NEW n, n = Box(c)'[i]
             PROVE  Fits(c, n)'
  BY DEF Addressed, Fits, Dest
<1>1. i \in 1..Len(Box(c)) /\ n = Box(c)[i]
  BY AfterEmptying
<1>2. Fits(c, n)
  BY <1>1 DEF Addressed
<1> QED
  BY <1>2 DEF Fits, Dest

LEMMA AddressedKept ==
    ASSUME TypeOK, calls' \in Nat, calls <= calls', Addressed, Keeps
    PROVE  Addressed'
<1> SUFFICES ASSUME NEW c \in Boxes, NEW i \in 1..Len(Box(c)'), NEW n, n = Box(c)'[i]
             PROVE  Fits(c, n)'
  BY DEF Addressed, Fits, Dest
<1>1. i \in 1..Len(Box(c)) /\ n = Box(c)[i]
  BY DEF Keeps
<1>2. Fits(c, n) /\ n \in Message /\ calls \in Nat
  BY <1>1, BoxTyped, DispatchAssumption DEF Addressed, TypeOK
<1> QED
  BY <1>2, FitsLater

-----------------------------------------------------------------------------
\* Who is gone: nothing is left of the dead but what they had sent.

Gone ==
    /\ \A b \in Boxes : Dest(b) \notin up => Box(b) = <<>>
    /\ \A t \in Threads : Home[t] \notin up => stack[t] = <<>>

\* Only the channels of the dead are told closed and found closed.
Hung ==
    /\ \A e \in due : e[2] \notin up
    /\ \A p, q \in Procs : open[p][q] # "open" => q \notin up

-----------------------------------------------------------------------------
\* Frames

Pushes(t, f) == stack' = [stack EXCEPT ![t] = Append(@, f)]
Pops(t) == stack[t] # <<>> /\ stack' = [stack EXCEPT ![t] = Pop(t)]

LEMMA AfterPushing ==
    ASSUME TypeOK, NEW t \in Threads, NEW f \in Frame, Pushes(t, f)
    PROVE  /\ Len(stack'[t]) = Len(stack[t]) + 1 /\ stack'[t][Len(stack[t]) + 1] = f
           /\ stack'[t] # <<>> /\ Last(stack'[t]) = f
           /\ \A u \in Threads : u # t => stack'[u] = stack[u]
           /\ \A u \in Threads : \A k \in 1..Len(stack[u]) :
                  k \in 1..Len(stack'[u]) /\ stack'[u][k] = stack[u][k]
           /\ \A u \in Threads : \A k \in 1..Len(stack'[u]) :
                  k \in 1..Len(stack[u]) \/ (u = t /\ k = Len(stack[t]) + 1)
<1>1. stack \in [Threads -> Seq(Frame)]
  BY DEF TypeOK
<1>2. stack'[t] = Append(stack[t], f) /\ \A u \in Threads : u # t => stack'[u] = stack[u]
  BY <1>1 DEF Pushes
<1>3. /\ Len(stack'[t]) = Len(stack[t]) + 1 /\ stack'[t][Len(stack[t]) + 1] = f
      /\ stack'[t] # <<>> /\ Last(stack'[t]) = f
      /\ \A k \in 1..Len(stack[t]) : stack'[t][k] = stack[t][k]
  BY <1>1, <1>2, AppendToSeq
<1>4. \A u \in Threads : Len(stack[u]) \in Nat
  BY <1>1
<1>5. ASSUME NEW u \in Threads, NEW k \in 1..Len(stack[u])
      PROVE  k \in 1..Len(stack'[u]) /\ stack'[u][k] = stack[u][k]
  <2>1. CASE u = t
    BY <1>3, <1>4, <2>1
  <2>2. CASE u # t
    BY <1>2, <2>2
  <2> QED
    BY <2>1, <2>2
<1>6. ASSUME NEW u \in Threads, NEW k \in 1..Len(stack'[u])
      PROVE  k \in 1..Len(stack[u]) \/ (u = t /\ k = Len(stack[t]) + 1)
  <2>1. CASE u = t
    BY <1>3, <1>4, <2>1
  <2>2. CASE u # t
    BY <1>2, <2>2
  <2> QED
    BY <2>1, <2>2
<1> QED
  BY <1>2, <1>3, <1>5, <1>6

LEMMA AfterPopping ==
    ASSUME TypeOK, NEW t \in Threads, Pops(t)
    PROVE  /\ Len(stack[t]) \in Nat \ {0} /\ Len(stack'[t]) = Len(stack[t]) - 1
           /\ stack[t][Len(stack[t])] = Top(t)
           /\ \A u \in Threads : u # t => stack'[u] = stack[u]
           /\ \A u \in Threads : \A k \in 1..Len(stack'[u]) :
                  /\ k \in 1..Len(stack[u]) /\ stack'[u][k] = stack[u][k]
                  /\ u = t => k # Len(stack[t])
           /\ \A u \in Threads : \A k \in 1..Len(stack[u]) :
                  k \in 1..Len(stack'[u]) \/ (u = t /\ k = Len(stack[t]))
<1>1. stack \in [Threads -> Seq(Frame)] /\ stack[t] # <<>>
  BY DEF TypeOK, Pops
<1>2. stack'[t] = Pop(t) /\ \A u \in Threads : u # t => stack'[u] = stack[u]
  BY <1>1 DEF Pops
<1>3. /\ Len(stack[t]) \in Nat \ {0} /\ Len(stack'[t]) = Len(stack[t]) - 1
      /\ stack[t][Len(stack[t])] = Top(t)
      /\ \A k \in 1..Len(stack[t]) - 1 : stack'[t][k] = stack[t][k]
  <2>1. stack[t] \in Seq(Frame) /\ stack[t] # <<>>
    BY <1>1
  <2> QED
    BY <1>2, <2>1, EndsOfSeq DEF Pop, Top
<1>4. ASSUME NEW u \in Threads, NEW k \in 1..Len(stack'[u])
      PROVE  /\ k \in 1..Len(stack[u]) /\ stack'[u][k] = stack[u][k]
             /\ u = t => k # Len(stack[t])
  <2>1. CASE u = t
    BY <1>3, <2>1
  <2>2. CASE u # t
    BY <1>2, <2>2
  <2> QED
    BY <2>1, <2>2
<1>5. ASSUME NEW u \in Threads, NEW k \in 1..Len(stack[u])
      PROVE  k \in 1..Len(stack'[u]) \/ (u = t /\ k = Len(stack[t]))
  <2>1. CASE u = t
    BY <1>3, <2>1
  <2>2. CASE u # t
    BY <1>2, <2>2
  <2> QED
    BY <2>1, <2>2
<1> QED
  BY <1>2, <1>3, <1>4, <1>5

\* The last service in the first n frames of a stack that is for q is for its thread u.
Latest(st, n, q, u) ==
    \E k \in 1..n : /\ st[k].what # "call" /\ st[k].peer = q /\ st[k].thread = u
                    /\ \A i \in k + 1..n : st[i].what # "call" => st[i].peer # q

\* A thread addresses its requests to the thread it serves, now and when it has
\* finished what it serves.
AddressesIn(st, ch) ==
    /\ \A q \in Procs : ch[q] # None => Latest(st, Len(st), q, ch[q])
    /\ \A k \in 1..Len(st) :
           st[k].what # "call" /\ st[k].saved # None => Latest(st, k - 1, st[k].peer, st[k].saved)

FrameFits(t, f) ==
    /\ f.peer # Home[t] /\ f.id <= calls
    /\ f.what # "call" => f.peer = Home[f.thread]

Framed == \A t \in Threads : \A k \in 1..Len(stack[t]) : FrameFits(t, stack[t][k])

\* A call is made once, and served once.
FramesOnce ==
    \A t, u \in Threads : \A i \in 1..Len(stack[t]), j \in 1..Len(stack[u]) :
        /\ stack[t][i].what = stack[u][j].what /\ stack[t][i].what # "serveAsync"
        /\ stack[t][i].id = stack[u][j].id
        => t = u /\ i = j

\* What is served is no longer to be taken, and not yet answered.
Served ==
    \A t \in Threads : \A k \in 1..Len(stack[t]) :
        stack[t][k].what = "serve" => ~InBoxes(stack[t][k].id)

Channels == \A s \in Threads : Home[s] \in up => AddressesIn(stack[s], channel[s])

\* A request is in one place, and so is its answer; both are where they should be.
Delivery ==
    /\ Nesting /\ Addressed /\ Gone /\ Hung /\ Once
    /\ Framed /\ FramesOnce /\ Served /\ Channels

LEMMA FrameTyped ==
    ASSUME TypeOK, NEW t \in Threads, NEW k \in 1..Len(stack[t])
    PROVE  /\ stack[t][k] \in Frame /\ Len(stack[t]) \in Nat
           /\ stack[t][k].peer \in Procs /\ stack[t][k].id \in 1..MaxCalls
           /\ stack[t][k].what \in {"call", "serve", "serveAsync"}
           /\ stack[t][k].what # "call" =>
                  stack[t][k].thread \in Threads /\ stack[t][k].saved \in Threads \cup {None}
<1>1. stack[t] \in Seq(Frame)
  BY DEF TypeOK
<1>2. stack[t][k] \in Frame /\ Len(stack[t]) \in Nat
  BY <1>1
<1> QED
  BY <1>2 DEF Frame

LEMMA LatestSame ==
    ASSUME NEW st, NEW st2, NEW n \in Nat, NEW q, NEW u, Latest(st, n, q, u),
           \A k \in 1..n : st2[k] = st[k]
    PROVE  Latest(st2, n, q, u)
<1>1. PICK k \in 1..n : /\ st[k].what # "call" /\ st[k].peer = q /\ st[k].thread = u
                        /\ \A i \in k + 1..n : st[i].what # "call" => st[i].peer # q
  BY DEF Latest
<1>2. \A i \in k + 1..n : i \in 1..n
  BY <1>1
<1> QED
  BY <1>1, <1>2 DEF Latest

LEMMA LatestAbove ==
    ASSUME NEW st, NEW n \in Nat, NEW q, NEW u,
           st[n + 1].what = "call" \/ st[n + 1].peer # q
    PROVE  Latest(st, n + 1, q, u) <=> Latest(st, n, q, u)
<1>1. ASSUME Latest(st, n, q, u) PROVE Latest(st, n + 1, q, u)
  <2>1. PICK k \in 1..n : /\ st[k].what # "call" /\ st[k].peer = q /\ st[k].thread = u
                          /\ \A i \in k + 1..n : st[i].what # "call" => st[i].peer # q
    BY <1>1 DEF Latest
  <2>2. k \in 1..n + 1 /\ \A i \in k + 1..n + 1 : i \in k + 1..n \/ i = n + 1
    BY <2>1
  <2> QED
    BY <2>1, <2>2 DEF Latest
<1>2. ASSUME Latest(st, n + 1, q, u) PROVE Latest(st, n, q, u)
  <2>1. PICK k \in 1..n + 1 : /\ st[k].what # "call" /\ st[k].peer = q /\ st[k].thread = u
                              /\ \A i \in k + 1..n + 1 : st[i].what # "call" => st[i].peer # q
    BY <1>2 DEF Latest
  <2>2. k # n + 1
    BY <2>1
  <2>3. k \in 1..n /\ \A i \in k + 1..n : i \in k + 1..n + 1
    BY <2>1, <2>2
  <2> QED
    BY <2>1, <2>3 DEF Latest
<1> QED
  BY <1>1, <1>2

LEMMA FrameFitsLater ==
    ASSUME calls \in Nat, calls' \in Nat, calls <= calls', NEW t, NEW f \in Frame, FrameFits(t, f)
    PROVE  FrameFits(t, f)'
<1>1. f.id \in Nat
  BY DispatchAssumption DEF Frame
<1> QED
  BY <1>1 DEF FrameFits

LEMMA FramesPushing ==
    ASSUME TypeOK, calls' \in Nat, calls <= calls', Framed, FramesOnce,
           NEW t \in Threads, NEW f \in Frame, Pushes(t, f), FrameFits(t, f)',
           \A u \in Threads : \A k \in 1..Len(stack[u]) :
               stack[u][k].what = f.what /\ f.what # "serveAsync" => stack[u][k].id # f.id
    PROVE  Framed' /\ FramesOnce'
<1>1. ASSUME NEW u \in Threads, NEW k \in 1..Len(stack'[u])
      PROVE  \/ k \in 1..Len(stack[u]) /\ stack'[u][k] = stack[u][k]
             \/ u = t /\ k = Len(stack[t]) + 1 /\ stack'[u][k] = f
  BY AfterPushing
<1>2. Framed'
  <2> SUFFICES ASSUME NEW u \in Threads, NEW k \in 1..Len(stack'[u]), NEW g, g = stack'[u][k]
               PROVE  FrameFits(u, g)'
    BY DEF Framed, FrameFits
  <2>1. CASE k \in 1..Len(stack[u]) /\ g = stack[u][k]
    <3>1. FrameFits(u, g) /\ g \in Frame /\ calls \in Nat
      BY <2>1, FrameTyped, DispatchAssumption DEF Framed, TypeOK
    <3> QED
      BY <3>1, FrameFitsLater
  <2>2. CASE u = t /\ g = f
    BY <2>2
  <2> QED
    BY <1>1, <2>1, <2>2
<1>3. FramesOnce'
  <2> SUFFICES ASSUME NEW u \in Threads, NEW v \in Threads,
                      NEW i \in 1..Len(stack'[u]), NEW j \in 1..Len(stack'[v]),
                      stack'[u][i].what = stack'[v][j].what, stack'[u][i].what # "serveAsync",
                      stack'[u][i].id = stack'[v][j].id
               PROVE  u = v /\ i = j
    BY DEF FramesOnce
  <2>1. CASE i \in 1..Len(stack[u]) /\ stack'[u][i] = stack[u][i]
    <3>1. CASE j \in 1..Len(stack[v]) /\ stack'[v][j] = stack[v][j]
      BY <2>1, <3>1 DEF FramesOnce
    <3>2. CASE stack'[v][j] = f
      BY <2>1, <3>2
    <3> QED
      BY <1>1, <3>1, <3>2
  <2>2. CASE u = t /\ i = Len(stack[t]) + 1 /\ stack'[u][i] = f
    <3>1. CASE j \in 1..Len(stack[v]) /\ stack'[v][j] = stack[v][j]
      BY <2>2, <3>1
    <3>2. CASE v = t /\ j = Len(stack[t]) + 1
      BY <2>2, <3>2
    <3> QED
      BY <1>1, <3>1, <3>2
  <2> QED
    BY <1>1, <2>1, <2>2
<1> QED
  BY <1>2, <1>3

\* Steps that take frames away, or none.
LEMMA FramesLeft ==
    ASSUME TypeOK, calls' \in Nat, calls <= calls', Framed, FramesOnce,
           \A u \in Threads : \A k \in 1..Len(stack'[u]) :
               k \in 1..Len(stack[u]) /\ stack'[u][k] = stack[u][k]
    PROVE  Framed' /\ FramesOnce'
<1>1. Framed'
  <2> SUFFICES ASSUME NEW u \in Threads, NEW k \in 1..Len(stack'[u]), NEW g, g = stack'[u][k]
               PROVE  FrameFits(u, g)'
    BY DEF Framed, FrameFits
  <2>1. k \in 1..Len(stack[u]) /\ g = stack[u][k]
    OBVIOUS
  <2>2. FrameFits(u, g) /\ g \in Frame /\ calls \in Nat
    BY <2>1, FrameTyped, DispatchAssumption DEF Framed, TypeOK
  <2> QED
    BY <2>2, FrameFitsLater
<1>2. FramesOnce'
  <2> SUFFICES ASSUME NEW u \in Threads, NEW v \in Threads,
                      NEW i \in 1..Len(stack'[u]), NEW j \in 1..Len(stack'[v]),
                      stack'[u][i].what = stack'[v][j].what, stack'[u][i].what # "serveAsync",
                      stack'[u][i].id = stack'[v][j].id
               PROVE  u = v /\ i = j
    BY DEF FramesOnce
  <2>1. /\ i \in 1..Len(stack[u]) /\ stack'[u][i] = stack[u][i]
        /\ j \in 1..Len(stack[v]) /\ stack'[v][j] = stack[v][j]
    OBVIOUS
  <2> QED
    BY <2>1 DEF FramesOnce
<1> QED
  BY <1>1, <1>2

\* Served, when no frame is added and what is new in the boxes is not served.
LEMMA ServedLeft ==
    ASSUME Served,
           \A u \in Threads : \A k \in 1..Len(stack'[u]) :
               /\ k \in 1..Len(stack[u]) /\ stack'[u][k] = stack[u][k]
               /\ stack[u][k].what = "serve" =>
                      (InBoxes(stack[u][k].id)' => InBoxes(stack[u][k].id))
    PROVE  Served'
<1> SUFFICES ASSUME NEW u \in Threads, NEW k \in 1..Len(stack'[u]), stack'[u][k].what = "serve",
                    NEW x, x = stack'[u][k].id, InBoxes(x)'
             PROVE  FALSE
  BY DEF Served, InBoxes
<1>1. k \in 1..Len(stack[u]) /\ stack'[u][k] = stack[u][k]
  OBVIOUS
<1>2. ~InBoxes(x)
  BY <1>1 DEF Served
<1>3. InBoxes(stack[u][k].id)'
  BY <1>1 DEF InBoxes
<1> QED
  BY <1>1, <1>2, <1>3

-----------------------------------------------------------------------------
\* Whom a thread answers to.

LEMMA AddressesCalling ==
    ASSUME NEW st \in Seq(Frame), NEW ch, NEW f \in Frame, f.what = "call", AddressesIn(st, ch)
    PROVE  AddressesIn(Append(st, f), ch)
<1> DEFINE n == Len(st)
           st2 == Append(st, f)
<1>1. n \in Nat /\ Len(st2) = n + 1 /\ st2[n + 1] = f /\ \A k \in 1..n : st2[k] = st[k]
  BY AppendToSeq
<1>2. /\ \A q \in Procs : ch[q] # None => Latest(st, n, q, ch[q])
      /\ \A k \in 1..n :
            st[k].what # "call" /\ st[k].saved # None => Latest(st, k - 1, st[k].peer, st[k].saved)
  BY DEF AddressesIn
<1> HIDE DEF n, st2
<1>3. \A m \in 0..n : \A q, u : Latest(st, m, q, u) => Latest(st2, m, q, u)
  <2> SUFFICES ASSUME NEW m \in 0..n, NEW q, NEW u, Latest(st, m, q, u) PROVE Latest(st2, m, q, u)
    OBVIOUS
  <2>1. m \in Nat /\ \A k \in 1..m : st2[k] = st[k]
    BY <1>1
  <2> QED
    BY <2>1, LatestSame
<1>4. ASSUME NEW q \in Procs, ch[q] # None PROVE Latest(st2, Len(st2), q, ch[q])
  <2>1. Latest(st2, n, q, ch[q])
    BY <1>1, <1>2, <1>3, <1>4
  <2> QED
    BY <1>1, <2>1, LatestAbove
<1>5. ASSUME NEW k \in 1..Len(st2), st2[k].what # "call", st2[k].saved # None
      PROVE  Latest(st2, k - 1, st2[k].peer, st2[k].saved)
  <2>1. k \in 1..n /\ k - 1 \in 0..n
    BY <1>1, <1>5
  <2> QED
    BY <1>1, <1>2, <1>3, <1>5, <2>1
<1> QED
  BY <1>4, <1>5 DEF AddressesIn, st2

LEMMA AddressesServing ==
    ASSUME NEW st \in Seq(Frame), NEW ch \in [Procs -> Threads \cup {None}], NEW f \in Frame,
           f.what # "call", f.saved = ch[f.peer], AddressesIn(st, ch)
    PROVE  AddressesIn(Append(st, f), [ch EXCEPT ![f.peer] = f.thread])
<1> DEFINE n == Len(st)
           st2 == Append(st, f)
           ch2 == [ch EXCEPT ![f.peer] = f.thread]
<1>1. n \in Nat /\ Len(st2) = n + 1 /\ st2[n + 1] = f /\ \A k \in 1..n : st2[k] = st[k]
  BY AppendToSeq
<1>2. /\ \A q \in Procs : ch[q] # None => Latest(st, n, q, ch[q])
      /\ \A k \in 1..n :
            st[k].what # "call" /\ st[k].saved # None => Latest(st, k - 1, st[k].peer, st[k].saved)
  BY DEF AddressesIn
<1>3. /\ f.peer \in Procs /\ ch2[f.peer] = f.thread
      /\ \A q \in Procs : q # f.peer => ch2[q] = ch[q]
  BY DEF Frame
<1> HIDE DEF n, st2, ch2
<1>4. \A m \in 0..n : \A q, u : Latest(st, m, q, u) => Latest(st2, m, q, u)
  <2> SUFFICES ASSUME NEW m \in 0..n, NEW q, NEW u, Latest(st, m, q, u) PROVE Latest(st2, m, q, u)
    OBVIOUS
  <2>1. m \in Nat /\ \A k \in 1..m : st2[k] = st[k]
    BY <1>1
  <2> QED
    BY <2>1, LatestSame
<1>5. ASSUME NEW q \in Procs, ch2[q] # None PROVE Latest(st2, Len(st2), q, ch2[q])
  <2>1. CASE q = f.peer
    <3>1. n + 1 \in 1..n + 1 /\ \A i \in (n + 1) + 1..n + 1 : FALSE
      BY <1>1
    <3> QED
      BY <1>1, <1>3, <2>1, <3>1 DEF Latest
  <2>2. CASE q # f.peer
    <3>1. ch2[q] = ch[q] /\ Latest(st2, n, q, ch[q])
      BY <1>1, <1>2, <1>3, <1>4, <1>5, <2>2
    <3> QED
      BY <1>1, <2>2, <3>1, LatestAbove
  <2> QED
    BY <2>1, <2>2
<1>6. ASSUME NEW k \in 1..Len(st2), st2[k].what # "call", st2[k].saved # None
      PROVE  Latest(st2, k - 1, st2[k].peer, st2[k].saved)
  <2>1. CASE k \in 1..n
    <3>1. k - 1 \in 0..n
      BY <1>1, <2>1
    <3> QED
      BY <1>1, <1>2, <1>4, <1>6, <2>1, <3>1
  <2>2. CASE k = n + 1
    <3>1. k - 1 = n /\ n \in 0..n /\ st2[k] = f
      BY <1>1, <2>2
    <3>2. Latest(st, n, f.peer, f.saved)
      BY <1>2, <1>3, <1>6, <3>1
    <3> QED
      BY <1>4, <3>1, <3>2
  <2> QED
    BY <1>1, <2>1, <2>2
<1> QED
  BY <1>5, <1>6 DEF AddressesIn, st2, ch2

LEMMA AddressesReturning ==
    ASSUME NEW st \in Seq(Frame), NEW ch, st # <<>>, Last(st).what = "call", AddressesIn(st, ch)
    PROVE  AddressesIn(Front(st), ch)
<1> DEFINE n == Len(st) - 1
           st2 == Front(st)
<1>1. /\ n \in Nat /\ Len(st) = n + 1 /\ Len(st2) = n /\ \A k \in 1..n : st2[k] = st[k]
      /\ st[n + 1].what = "call"
  <2>1. /\ Len(st) \in Nat \ {0} /\ Last(st) = st[Len(st)] /\ Len(st2) = n
        /\ \A k \in 1..n : st2[k] = st[k]
    BY EndsOfSeq
  <2>2. n \in Nat /\ Len(st) = n + 1
    BY <2>1
  <2> QED
    BY <2>1, <2>2
<1>2. /\ \A q \in Procs : ch[q] # None => Latest(st, n + 1, q, ch[q])
      /\ \A k \in 1..n + 1 :
            st[k].what # "call" /\ st[k].saved # None => Latest(st, k - 1, st[k].peer, st[k].saved)
  BY <1>1 DEF AddressesIn
<1> HIDE DEF n, st2
<1>3. \A m \in 0..n : \A q, u : Latest(st, m, q, u) => Latest(st2, m, q, u)
  <2> SUFFICES ASSUME NEW m \in 0..n, NEW q, NEW u, Latest(st, m, q, u) PROVE Latest(st2, m, q, u)
    OBVIOUS
  <2>1. m \in Nat /\ \A k \in 1..m : st2[k] = st[k]
    BY <1>1
  <2> QED
    BY <2>1, LatestSame
<1>4. ASSUME NEW q \in Procs, ch[q] # None PROVE Latest(st2, Len(st2), q, ch[q])
  <2>1. Latest(st, n, q, ch[q])
    BY <1>1, <1>2, <1>4, LatestAbove
  <2> QED
    BY <1>1, <1>3, <2>1
<1>5. ASSUME NEW k \in 1..Len(st2), st2[k].what # "call", st2[k].saved # None
      PROVE  Latest(st2, k - 1, st2[k].peer, st2[k].saved)
  <2>1. k \in 1..n /\ k \in 1..n + 1 /\ k - 1 \in 0..n
    BY <1>1
  <2> QED
    BY <1>1, <1>2, <1>3, <1>5, <2>1
<1> QED
  BY <1>4, <1>5 DEF AddressesIn, st2

LEMMA AddressesFinishing ==
    ASSUME NEW st \in Seq(Frame), NEW ch \in [Procs -> Threads \cup {None}], st # <<>>,
           Last(st).what # "call", AddressesIn(st, ch)
    PROVE  AddressesIn(Front(st), [ch EXCEPT ![Last(st).peer] = Last(st).saved])
<1> DEFINE n == Len(st) - 1
           st2 == Front(st)
           f == Last(st)
           ch2 == [ch EXCEPT ![f.peer] = f.saved]
<1>1. /\ n \in Nat /\ Len(st) = n + 1 /\ Len(st2) = n /\ \A k \in 1..n : st2[k] = st[k]
      /\ st[n + 1] = f /\ f \in Frame
  BY EndsOfSeq
<1>2. /\ \A q \in Procs : ch[q] # None => Latest(st, n + 1, q, ch[q])
      /\ \A k \in 1..n + 1 :
            st[k].what # "call" /\ st[k].saved # None => Latest(st, k - 1, st[k].peer, st[k].saved)
  BY <1>1 DEF AddressesIn
<1>3. /\ f.peer \in Procs /\ ch2[f.peer] = f.saved
      /\ \A q \in Procs : q # f.peer => ch2[q] = ch[q]
  BY <1>1 DEF Frame
<1> HIDE DEF n, st2, ch2, f
<1>4. \A m \in 0..n : \A q, u : Latest(st, m, q, u) => Latest(st2, m, q, u)
  <2> SUFFICES ASSUME NEW m \in 0..n, NEW q, NEW u, Latest(st, m, q, u) PROVE Latest(st2, m, q, u)
    OBVIOUS
  <2>1. m \in Nat /\ \A k \in 1..m : st2[k] = st[k]
    BY <1>1
  <2> QED
    BY <2>1, LatestSame
<1>5. ASSUME NEW q \in Procs, ch2[q] # None PROVE Latest(st2, Len(st2), q, ch2[q])
  <2>1. CASE q = f.peer
    <3>1. n + 1 \in 1..n + 1 /\ (n + 1) - 1 = n /\ n \in 0..n /\ st[n + 1].what # "call"
      BY <1>1 DEF f
    <3>2. Latest(st, n, q, ch2[q])
      BY <1>1, <1>2, <1>3, <1>5, <2>1, <3>1
    <3> QED
      BY <1>1, <1>4, <3>1, <3>2
  <2>2. CASE q # f.peer
    <3>1. ch2[q] = ch[q] /\ n \in 0..n
      BY <1>1, <1>3, <2>2
    <3>2. Latest(st, n, q, ch[q])
      BY <1>1, <1>2, <1>5, <2>2, <3>1, LatestAbove
    <3> QED
      BY <1>1, <1>4, <3>1, <3>2
  <2> QED
    BY <2>1, <2>2
<1>6. ASSUME NEW k \in 1..Len(st2), st2[k].what # "call", st2[k].saved # None
      PROVE  Latest(st2, k - 1, st2[k].peer, st2[k].saved)
  <2>1. k \in 1..n /\ k \in 1..n + 1 /\ k - 1 \in 0..n
    BY <1>1
  <2> QED
    BY <1>1, <1>2, <1>4, <1>6, <2>1
<1> QED
  BY <1>5, <1>6 DEF AddressesIn, st2, ch2, f

-----------------------------------------------------------------------------
\* Channels, closed and open.

\* What a step does to the channels of those who run after it: nothing.
ClosesOnlyTheDead ==
    /\ \A e \in due' : e \in due \/ e[2] \notin up'
    /\ \A p, q \in Procs : open'[p][q] # "open" => open[p][q] # "open" \/ q \notin up'

LEMMA HungKept == ASSUME Hung, up' \subseteq up, ClosesOnlyTheDead PROVE Hung'
  BY DEF Hung, ClosesOnlyTheDead

LEMMA ChannelsLeft == ASSUME UNCHANGED <<open, due>> PROVE ClosesOnlyTheDead
  BY DEF ClosesOnlyTheDead

LEMMA SendCloses ==
    ASSUME NEW p, NEW q, NEW m, Send(p, q, m), UNCHANGED <<up, open>>
    PROVE  ClosesOnlyTheDead
  BY DEF ClosesOnlyTheDead, Send

\* Nothing happens to the dead.
LEMMA GoneKept ==
    ASSUME Gone, UNCHANGED up, \A c \in Boxes : Dest(c) \notin up => Box(c)' = Box(c),
           \A t \in Threads : Home[t] \notin up => stack'[t] = stack[t]
    PROVE  Gone'
  BY DEF Gone, Dest

-----------------------------------------------------------------------------
\* What each step does to stacks and boxes.

LEMMA StackMode ==
    ASSUME Nesting
    PROVE  /\ TypeOK /\ stack \in [Threads -> Seq(Frame)]
           /\ mode \in [Threads -> {"run", "look", "wait"}]
           /\ queue \in [Threads -> Seq(Message)] /\ default \in [Procs -> Seq(Message)]
           /\ wire \in [Pairs -> Seq(Message)]
           /\ channel \in [Threads -> [Procs -> Threads \cup {None}]]
           /\ up \subseteq Procs /\ calls \in Nat /\ \A t \in Threads : Home[t] \in Procs
           /\ \A t \in Threads : InCall(t) => stack[t] # <<>> /\ Top(t).what = "call"
           /\ \A t \in Threads : ~InCall(t) /\ stack[t] # <<>> => Top(t).what # "call"
  BY DispatchAssumption DEF Nesting, TypeOK, Alternates

Asking(t, q) == [what |-> "call", peer |-> q, id |-> calls + 1]

LEMMA CallEffects ==
    ASSUME Nesting, NEW t \in Threads, NEW q \in Procs, Call(t, q)
    PROVE  /\ Home[t] \in up /\ ~InCall(t) /\ q # Home[t] /\ calls' = calls + 1
           /\ Asking(t, q) \in Frame /\ Pushes(t, Asking(t, q))
           /\ Request(t, q, "request") \in Message /\ Send(Home[t], q, Request(t, q, "request"))
           /\ Sends(Home[t], q, Request(t, q, "request"))
           /\ InCall(t)' /\ \A u \in Threads : u # t => (InCall(u)' <=> InCall(u))
           /\ calledBack' = (calledBack \/ ServesPostOf(t, q)) /\ ClosesOnlyTheDead
           /\ UNCHANGED <<up, channel, queue, default, strayed>>
<1>1. TypeOK /\ mode \in [Threads -> {"run", "look", "wait"}] /\ calls \in Nat
  BY StackMode
<1>2. /\ Home[t] \in up /\ mode[t] = "run" /\ <<Home[t], q>> \in Knows /\ calls < MaxCalls
      /\ calls' = calls + 1 /\ Send(Home[t], q, Request(t, q, "request"))
      /\ Pushes(t, Asking(t, q)) /\ mode' = [mode EXCEPT ![t] = "look"]
      /\ calledBack' = (calledBack \/ ServesPostOf(t, q))
      /\ UNCHANGED <<up, channel, queue, default, open, strayed>>
  BY DEF Call, Running, Alive, Pushes, Asking
<1>3. q # Home[t]
  BY <1>2, DispatchAssumption
<1>4. Asking(t, q) \in Frame
  BY <1>1, <1>2, DispatchAssumption DEF Asking, Frame
<1>5. Request(t, q, "request") \in Message /\ Home[t] \in Procs
  BY <1>1, <1>2, RequestTyped
<1>6. Sends(Home[t], q, Request(t, q, "request")) /\ ClosesOnlyTheDead
  BY <1>1, <1>2, <1>5, SendBoxes, SendCloses
<1>7. ~InCall(t) /\ InCall(t)' /\ \A u \in Threads : u # t => (InCall(u)' <=> InCall(u))
  BY <1>1, <1>2 DEF InCall
<1> QED
  BY <1>2, <1>3, <1>4, <1>5, <1>6, <1>7

LEMMA PostEffects ==
    ASSUME Nesting, NEW t \in Threads, NEW q \in Procs, Post(t, q)
    PROVE  /\ Home[t] \in up /\ ~InCall(t) /\ q # Home[t] /\ calls' = calls + 1
           /\ Request(t, q, "post") \in Message /\ Send(Home[t], q, Request(t, q, "post"))
           /\ Sends(Home[t], q, Request(t, q, "post"))
           /\ \A u \in Threads : InCall(u)' <=> InCall(u)
           /\ calledBack' = (calledBack \/ ServesPostOf(t, q)) /\ ClosesOnlyTheDead
           /\ UNCHANGED <<up, stack, channel, queue, default, strayed>>
<1>1. TypeOK /\ calls \in Nat
  BY StackMode
<1>2. /\ Home[t] \in up /\ mode[t] = "run" /\ <<Home[t], q>> \in Knows /\ calls < MaxCalls
      /\ calls' = calls + 1 /\ Send(Home[t], q, Request(t, q, "post"))
      /\ calledBack' = (calledBack \/ ServesPostOf(t, q))
      /\ UNCHANGED <<up, stack, mode, channel, queue, default, open, strayed>>
  BY DEF Post, Running, Alive
<1>3. q # Home[t]
  BY <1>2, DispatchAssumption
<1>4. Request(t, q, "post") \in Message /\ Home[t] \in Procs
  BY <1>1, <1>2, RequestTyped
<1>5. Sends(Home[t], q, Request(t, q, "post")) /\ ClosesOnlyTheDead
  BY <1>1, <1>2, <1>4, SendBoxes, SendCloses
<1>6. ~InCall(t) /\ \A u \in Threads : InCall(u)' <=> InCall(u)
  BY <1>2 DEF InCall
<1> QED
  BY <1>2, <1>3, <1>4, <1>5, <1>6

LEMMA GivesUpEffects ==
    ASSUME Nesting, NEW t \in Threads, GivesUp(t)
    PROVE  /\ Home[t] \in up /\ InCall(t) /\ Top(t).what = "call" /\ Top(t).peer \in Procs
           /\ open[Home[t]][Top(t).peer] # "open"
           /\ Pops(t) /\ Keeps /\ ~InCall(t)' /\ ClosesOnlyTheDead
           /\ \A u \in Threads : u # t => (InCall(u)' <=> InCall(u))
           /\ strayed' = (strayed \/ queue[t] # <<>> \/ OnItsWay(Top(t).peer, t))
           /\ UNCHANGED <<up, channel, queue, default, wire, calls, calledBack>>
<1>1. /\ mode \in [Threads -> {"run", "look", "wait"}] /\ TypeOK /\ Home[t] \in Procs
  BY StackMode
<1>2. /\ Home[t] \in up /\ mode[t] = "look" /\ open[Home[t]][Top(t).peer] # "open"
      /\ stack' = [stack EXCEPT ![t] = Pop(t)] /\ mode' = [mode EXCEPT ![t] = "run"]
      /\ open' = [open EXCEPT ![Home[t]][Top(t).peer] = "none"]
      /\ strayed' = (strayed \/ queue[t] # <<>> \/ OnItsWay(Top(t).peer, t))
      /\ UNCHANGED <<up, channel, queue, default, wire, due, calls, calledBack>>
  BY DEF GivesUp, Alive
<1>3. InCall(t) /\ ~InCall(t)' /\ \A u \in Threads : u # t => (InCall(u)' <=> InCall(u))
  BY <1>1, <1>2 DEF InCall
<1>4. Pops(t) /\ Top(t).what = "call" /\ Top(t).peer \in Procs
  BY <1>1, <1>2, <1>3, StackMode, TopIsFrame DEF Pops
<1>5. ClosesOnlyTheDead
  <2>1. open \in [Procs -> [Procs -> {"open", "closed", "none"}]]
    BY <1>1 DEF TypeOK
  <2>2. \A p, q \in Procs : open'[p][q] # "open" => open[p][q] # "open"
    BY <1>1, <1>2, <1>4, <2>1
  <2> QED
    BY <1>2, <2>2 DEF ClosesOnlyTheDead
<1> QED
  BY <1>2, <1>3, <1>4, <1>5, SameBoxes

LEMMA TakesResponseEffects ==
    ASSUME Nesting, NEW t \in Threads, TakesResponse(t)
    PROVE  /\ Home[t] \in up /\ InCall(t) /\ Top(t).what = "call"
           /\ Box(QueueBox(t))[1] \in Message /\ Box(QueueBox(t))[1].type = "response"
           /\ Pops(t) /\ Drops(QueueBox(t)) /\ ~InCall(t)' /\ ClosesOnlyTheDead
           /\ \A u \in Threads : u # t => (InCall(u)' <=> InCall(u))
           /\ UNCHANGED <<up, channel, default, wire, calls, strayed, calledBack>>
<1>1. /\ TypeOK /\ mode \in [Threads -> {"run", "look", "wait"}]
      /\ queue \in [Threads -> Seq(Message)]
  BY StackMode
<1>2. /\ Home[t] \in up /\ mode[t] = "wait" /\ queue[t] # <<>> /\ Head(queue[t]).type = "response"
      /\ queue' = [queue EXCEPT ![t] = Tail(@)]
      /\ stack' = [stack EXCEPT ![t] = Pop(t)] /\ mode' = [mode EXCEPT ![t] = "run"]
      /\ UNCHANGED <<up, channel, default, wire, open, due, calls, strayed, calledBack>>
  BY DEF TakesResponse, Alive
<1>3. InCall(t) /\ ~InCall(t)' /\ \A u \in Threads : u # t => (InCall(u)' <=> InCall(u))
  BY <1>1, <1>2 DEF InCall
<1>4. Pops(t) /\ Top(t).what = "call"
  BY <1>2, <1>3, StackMode DEF Pops
<1>5. Box(QueueBox(t))[1] = Head(queue[t]) /\ Head(queue[t]) \in Message
  <2>1. queue[t] \in Seq(Message)
    BY <1>1
  <2> QED
    BY <1>2, <2>1, TailOfSeq, QueueBoxes
<1>6. Drops(QueueBox(t))
  BY <1>1, <1>2, QueueDrops
<1> QED
  BY <1>2, <1>3, <1>4, <1>5, <1>6, ChannelsLeft

Servicing(t, m) ==
    [what |-> IF m.type = "post" THEN "serveAsync" ELSE "serve",
     peer |-> m.src, thread |-> m.from, id |-> m.id, saved |-> channel[t][m.src]]

\* A thread starts to serve the first message m of the box b.
StartsService(t, b, m) ==
    /\ Home[t] \in up /\ b \in Boxes /\ Dest(b) = Home[t]
    /\ m = Box(b)[1] /\ m \in Message /\ m.type # "response"
    /\ Servicing(t, m) \in Frame /\ Pushes(t, Servicing(t, m)) /\ Drops(b)
    /\ channel' = [channel EXCEPT ![t][m.src] = m.from]
    /\ ~InCall(t)' /\ \A u \in Threads : u # t => (InCall(u)' <=> InCall(u))
    /\ ClosesOnlyTheDead
    /\ UNCHANGED <<up, wire, calls, calledBack>>

LEMMA ServesEffects ==
    ASSUME Nesting, NEW t \in Threads, NEW m \in Message, Serves(t, m), UNCHANGED due
    PROVE  /\ Servicing(t, m) \in Frame /\ Pushes(t, Servicing(t, m))
           /\ channel' = [channel EXCEPT ![t][m.src] = m.from]
           /\ ClosesOnlyTheDead
           /\ ~InCall(t)' /\ \A u \in Threads : u # t => (InCall(u)' <=> InCall(u))
<1>1. /\ mode \in [Threads -> {"run", "look", "wait"}]
      /\ channel \in [Threads -> [Procs -> Threads \cup {None}]]
  BY StackMode
<1>2. /\ Pushes(t, Servicing(t, m)) /\ channel' = [channel EXCEPT ![t][m.src] = m.from]
      /\ mode' = [mode EXCEPT ![t] = "run"]
  BY DEF Serves, Pushes, Servicing
<1>3. m.src \in Procs /\ m.from \in Threads /\ m.id \in 1..MaxCalls
  BY DEF Message
<1>4. channel[t][m.src] \in Threads \cup {None}
  BY <1>1, <1>3
<1>5. Servicing(t, m) \in Frame
  BY <1>3, <1>4 DEF Servicing, Frame
<1>6. ~InCall(t)' /\ \A u \in Threads : u # t => (InCall(u)' <=> InCall(u))
  BY <1>1, <1>2 DEF InCall
<1>7. ClosesOnlyTheDead
  <2>1. open \in [Procs -> [Procs -> {"open", "closed", "none"}]] /\ Home[t] \in Procs
    BY StackMode DEF TypeOK
  <2>2. open' = [open EXCEPT ![Home[t]][m.src] = IF @ = "none" THEN "open" ELSE @]
    BY DEF Serves, Reopened
  <2>3. \A p, q \in Procs : open'[p][q] # "open" => open[p][q] # "open"
    BY <1>3, <2>1, <2>2
  <2> QED
    BY <2>3 DEF ClosesOnlyTheDead
<1> QED
  BY <1>2, <1>5, <1>6, <1>7

LEMMA TakesRequestEffects ==
    ASSUME Nesting, NEW t \in Threads, TakesRequest(t)
    PROVE  /\ StartsService(t, QueueBox(t), Box(QueueBox(t))[1]) /\ InCall(t)
           /\ strayed' = (strayed \/ Box(QueueBox(t))[1].type = "post")
<1>1. TypeOK /\ queue \in [Threads -> Seq(Message)]
  BY StackMode
<1>2. /\ Home[t] \in up /\ mode[t] = "wait" /\ queue[t] # <<>> /\ Head(queue[t]).type # "response"
      /\ queue' = [queue EXCEPT ![t] = Tail(@)] /\ Serves(t, Head(queue[t]))
      /\ strayed' = (strayed \/ Head(queue[t]).type = "post")
      /\ UNCHANGED <<up, default, wire, due, calls, calledBack>>
  BY DEF TakesRequest, Alive
<1>3. Box(QueueBox(t))[1] = Head(queue[t]) /\ Head(queue[t]) \in Message
  <2>1. queue[t] \in Seq(Message)
    BY <1>1
  <2> QED
    BY <1>2, <2>1, TailOfSeq, QueueBoxes
<1>4. Drops(QueueBox(t))
  BY <1>1, <1>2, QueueDrops
<1>5. QueueBox(t) \in Boxes /\ Dest(QueueBox(t)) = Home[t]
  BY QueueBoxes
<1>6. InCall(t)
  BY <1>2 DEF InCall
<1> QED
  BY <1>2, <1>3, <1>4, <1>5, <1>6, ServesEffects DEF StartsService

LEMMA PumpedEffects ==
    ASSUME Nesting, Addressed, NEW t \in Threads, Pumped(t)
    PROVE  /\ StartsService(t, DefaultBox(Home[t]), Box(DefaultBox(Home[t]))[1])
           /\ stack[t] = <<>> /\ (strayed => strayed')
<1> DEFINE p == Home[t]
<1>1. TypeOK /\ default \in [Procs -> Seq(Message)] /\ p \in Procs
  BY StackMode
<1>2. /\ Home[t] \in up /\ stack[t] = <<>> /\ default[p] # <<>>
      /\ default' = [default EXCEPT ![p] = Tail(@)] /\ Serves(t, Head(default[p]))
      /\ (strayed => strayed')
      /\ UNCHANGED <<up, queue, wire, due, calls, calledBack>>
  BY DEF Pumped, Alive
<1>3. Box(DefaultBox(p))[1] = Head(default[p]) /\ Head(default[p]) \in Message
  <2>1. default[p] \in Seq(Message)
    BY <1>1
  <2> QED
    BY <1>1, <1>2, <2>1, TailOfSeq, DefaultBoxes
<1>4. Drops(DefaultBox(p))
  BY <1>1, <1>2, DefaultDrops
<1>5. DefaultBox(p) \in Boxes /\ Dest(DefaultBox(p)) = p
  BY <1>1, DefaultBoxes
<1>6. Head(default[p]).type # "response"
  <2>1. Box(DefaultBox(p)) # <<>> /\ DefaultBox(p)[1] = "default"
    BY <1>1, <1>2, DefaultBoxes
  <2>2. 1 \in 1..Len(Box(DefaultBox(p)))
    BY <1>1, <1>5, <2>1, BoxTyped, EndsOfSeq
  <2>3. Fits(DefaultBox(p), Head(default[p]))
    BY <1>3, <1>5, <2>2 DEF Addressed
  <2> QED
    BY <2>1, <2>3 DEF Fits
<1> QED
  BY <1>2, <1>3, <1>4, <1>5, <1>6, ServesEffects DEF StartsService

Answering(t) ==
    [type |-> "response", src |-> Home[t], from |-> t, to |-> Top(t).thread, id |-> Top(t).id]

LEMMA FinishesEffects ==
    ASSUME Nesting, NEW t \in Threads, Finishes(t)
    PROVE  /\ Home[t] \in up /\ ~InCall(t) /\ Top(t).what # "call" /\ Pops(t)
           /\ Top(t).peer \in Procs /\ Top(t).thread \in Threads
           /\ Answering(t) \in Message
           /\ IF Top(t).what = "serve"
              THEN /\ Send(Home[t], Top(t).peer, Answering(t))
                   /\ Sends(Home[t], Top(t).peer, Answering(t))
              ELSE Keeps /\ UNCHANGED wire
           /\ channel' = [channel EXCEPT ![t][Top(t).peer] = Top(t).saved]
           /\ InCall(t)' <=> Len(stack[t]) > 1
           /\ ClosesOnlyTheDead
           /\ \A u \in Threads : u # t => (InCall(u)' <=> InCall(u))
           /\ UNCHANGED <<up, queue, default, calls, strayed, calledBack>>
<1>1. TypeOK /\ mode \in [Threads -> {"run", "look", "wait"}] /\ Home[t] \in Procs
  BY StackMode
<1>2. /\ Home[t] \in up /\ mode[t] = "run" /\ Pops(t)
      /\ IF Top(t).what = "serve" THEN Send(Home[t], Top(t).peer, Answering(t))
                                  ELSE UNCHANGED <<wire, due>>
      /\ channel' = [channel EXCEPT ![t][Top(t).peer] = Top(t).saved]
      /\ mode' = [mode EXCEPT ![t] = IF Len(stack[t]) > 1 THEN "look" ELSE "run"]
      /\ UNCHANGED <<up, queue, default, open, calls, strayed, calledBack>>
  BY DEF Finishes, Alive, Pops, Answering
<1>3. ~InCall(t) /\ Top(t).what # "call"
  BY <1>2, StackMode DEF InCall, Pops
<1>4. Top(t).peer \in Procs /\ Top(t).thread \in Threads /\ Top(t).id \in 1..MaxCalls
  BY <1>1, <1>2, <1>3, TopIsFrame DEF Pops
<1>5. Answering(t) \in Message
  BY <1>1, <1>4 DEF Answering, Message
<1>6. IF Top(t).what = "serve" THEN Sends(Home[t], Top(t).peer, Answering(t)) ELSE Keeps
  BY <1>1, <1>2, <1>4, SendBoxes, SameBoxes
<1>7. InCall(t)' <=> Len(stack[t]) > 1
  BY <1>1, <1>2 DEF InCall
<1>8. \A u \in Threads : u # t => (InCall(u)' <=> InCall(u))
  BY <1>1, <1>2 DEF InCall
<1>9. ClosesOnlyTheDead
  BY <1>2, SendCloses, ChannelsLeft
<1> QED
  BY <1>2, <1>3, <1>4, <1>5, <1>6, <1>7, <1>8, <1>9

LEMMA SortsEffects ==
    ASSUME Nesting, Addressed, NEW p \in Procs, NEW q \in Procs, Sorts(p, q)
    PROVE  /\ \E b, d \in Boxes : /\ Moves(b, d) /\ Box(b)[1] \in Message /\ Fits(d, Box(b)[1])
                                  /\ b[1] = "wire" /\ d[1] # "wire" /\ 1 \in 1..Len(Box(b))
           /\ ClosesOnlyTheDead
           /\ \A u \in Threads : InCall(u)' <=> InCall(u)
           /\ UNCHANGED <<up, stack, channel, calls, strayed, calledBack>>
<1> DEFINE b == WireBox(q, p)
           m == Head(wire[<<q, p>>])
<1>1. TypeOK /\ wire \in [Pairs -> Seq(Message)]
  BY StackMode
<1>2. /\ wire[<<q, p>>] # <<>>
      /\ UNCHANGED <<up, stack, mode, channel, open, due, calls, strayed, calledBack>>
  BY DEF Sorts
<1>3. /\ b \in Boxes /\ b[1] = "wire" /\ Box(b) = wire[<<q, p>>] /\ Dest(b) = p
  BY WireBoxes
<1>4. m = Box(b)[1] /\ 1 \in 1..Len(Box(b)) /\ m \in Message
  <2>1. Box(b) \in Seq(Message) /\ Box(b) # <<>>
    BY <1>1, <1>2, <1>3, BoxTyped
  <2> QED
    BY <1>2, <1>3, <2>1, TailOfSeq
<1>5. Fits(b, m)
  BY <1>2, <1>3, <1>4 DEF Addressed
<1>6. m.to # None => Home[m.to] = p
  BY <1>3, <1>5 DEF Fits
<1>7. Goal(p, m) \in Boxes /\ Moves(b, Goal(p, m))
  BY <1>1, <1>6, SortMoves
<1>8. m.to \in Threads \cup {None}
  BY <1>4 DEF Message
<1> HIDE DEF b, m
<1>9. Fits(Goal(p, m), m) /\ Goal(p, m)[1] # "wire"
  <2>1. CASE m.to # None
    <3>1. m.to \in Threads /\ Goal(p, m) = QueueBox(m.to)
      BY <1>8, <2>1 DEF Goal
    <3>2. /\ Goal(p, m)[1] = "queue" /\ Goal(p, m)[2] = m.to /\ Dest(Goal(p, m)) = p
      BY <1>6, <2>1, <3>1, QueueBoxes
    <3> QED
      BY <1>3, <1>5, <1>6, <3>2 DEF Fits
  <2>2. CASE m.to = None
    <3>1. Goal(p, m) = DefaultBox(p)
      BY <2>2 DEF Goal
    <3> QED
      BY <1>3, <1>5, <2>2, <3>1, DefaultBoxes DEF Fits
  <2> QED
    BY <2>1, <2>2
<1>10. \A u \in Threads : InCall(u)' <=> InCall(u)
  BY <1>2 DEF InCall
<1> QED
  BY <1>2, <1>3, <1>4, <1>7, <1>9, <1>10, ChannelsLeft

LEMMA ClosesEffects ==
    ASSUME Nesting, Hung, NEW p \in Procs, NEW q \in Procs, Closes(p, q)
    PROVE  /\ Keeps /\ ClosesOnlyTheDead
           /\ \A u \in Threads : InCall(u)' <=> InCall(u)
           /\ UNCHANGED <<up, stack, channel, queue, default, wire, calls, strayed, calledBack>>
<1>1. /\ <<p, q>> \in due /\ due' \subseteq due
      /\ open' = [open EXCEPT ![p][q] = IF @ = "none" THEN "none" ELSE "closed"]
      /\ UNCHANGED <<up, stack, mode, channel, queue, default, wire, calls, strayed, calledBack>>
  BY DEF Closes, Notified
<1>2. open \in [Procs -> [Procs -> {"open", "closed", "none"}]]
  BY StackMode DEF TypeOK
<1>3. q \notin up
  BY <1>1 DEF Hung
<1>4. \A r, s \in Procs : open'[r][s] # "open" => open[r][s] # "open" \/ s \notin up'
  BY <1>1, <1>2, <1>3
<1>5. ClosesOnlyTheDead
  BY <1>1, <1>4 DEF ClosesOnlyTheDead
<1>6. \A u \in Threads : InCall(u)' <=> InCall(u)
  BY <1>1 DEF InCall
<1> QED
  BY <1>1, <1>5, <1>6, SameBoxes

LEMMA DieEffects ==
    ASSUME Nesting, NEW q \in Procs, Die(q)
    PROVE  /\ q \in up /\ up' = up \ {q} /\ Empties(q) /\ ClosesOnlyTheDead
           /\ \A t \in Threads : IF Home[t] = q THEN stack'[t] = <<>> /\ ~InCall(t)'
                                 ELSE stack'[t] = stack[t] /\ (InCall(t)' <=> InCall(t))
           /\ UNCHANGED <<channel, calls, strayed, calledBack>>
<1>1. /\ q \in up /\ up' = up \ {q}
      /\ stack' = [t \in Threads |-> IF Home[t] = q THEN <<>> ELSE stack[t]]
      /\ mode' = [t \in Threads |-> IF Home[t] = q THEN "run" ELSE mode[t]]
      /\ due' = {e \in due : e[1] # q} \cup {<<p, q>> : p \in up'}
      /\ UNCHANGED <<channel, open, calls, strayed, calledBack>>
  BY DEF Die
<1>2. \A t \in Threads : IF Home[t] = q THEN stack'[t] = <<>> /\ ~InCall(t)'
                         ELSE stack'[t] = stack[t] /\ (InCall(t)' <=> InCall(t))
  BY <1>1 DEF InCall
<1>3. Empties(q)
  BY StackMode, DyingEmpties
<1>4. ClosesOnlyTheDead
  BY <1>1 DEF ClosesOnlyTheDead
<1> QED
  BY <1>1, <1>2, <1>3, <1>4

LEMMA IdleEffects ==
    ASSUME Nesting, NEW t \in Threads, GoesToWait(t) \/ IsPulsed(t)
    PROVE  /\ Keeps /\ ClosesOnlyTheDead /\ \A u \in Threads : InCall(u)' <=> InCall(u)
           /\ UNCHANGED <<up, stack, channel, queue, default, wire, calls, strayed, calledBack>>
<1>1. mode \in [Threads -> {"run", "look", "wait"}]
  BY StackMode
<1>2. UNCHANGED <<up, stack, channel, queue, default, wire, open, due, calls, strayed, calledBack>>
  BY DEF GoesToWait, IsPulsed
<1>3. \A u \in Threads : InCall(u)' <=> InCall(u)
  BY <1>1 DEF GoesToWait, IsPulsed, InCall
<1> QED
  BY <1>2, <1>3, SameBoxes, ChannelsLeft

-----------------------------------------------------------------------------
\* Each step keeps Delivery.

LEMMA SendingDelivers ==
    ASSUME TypeOK, Addressed, Once, NEW p \in Procs, NEW q \in Procs, NEW m \in Message,
           Sends(p, q, m), calls' \in Nat, calls <= calls', Fits(WireBox(p, q), m)',
           Sync(m) => ~InBoxes(m.id)
    PROVE  /\ Addressed' /\ Once'
           /\ \A x : InBoxes(x)' => InBoxes(x) \/ (Sync(m) /\ x = m.id)
           /\ \A c \in Boxes : Dest(c) \notin up => Box(c)' = Box(c)
<1>1. WireBox(p, q) \in Boxes /\ Dest(WireBox(p, q)) = q
  BY WireBoxes
<1>2. CASE q \in up
  <2>1. Adds(WireBox(p, q), m)
    BY <1>2 DEF Sends
  <2>2. Addressed'
    BY <1>1, <2>1, AddressedAdding
  <2>3. Once' /\ \A x : InBoxes(x)' => InBoxes(x) \/ (Sync(m) /\ x = m.id)
    BY <1>1, <2>1, OnceAdding
  <2>4. \A c \in Boxes : Dest(c) \notin up => Box(c)' = Box(c)
    BY <1>1, <1>2, <2>1 DEF Adds
  <2> QED
    BY <2>2, <2>3, <2>4
<1>3. CASE q \notin up
  <2>1. Keeps
    BY <1>3 DEF Sends
  <2> QED
    BY <2>1, AddressedKept, ComingKept DEF Keeps
<1> QED
  BY <1>2, <1>3

LEMMA NewIdIsFresh ==
    ASSUME Nesting, Addressed, Framed
    PROVE  /\ ~InBoxes(calls + 1)
           /\ \A t \in Threads : \A k \in 1..Len(stack[t]) : stack[t][k].id # calls + 1
<1>1. TypeOK /\ calls \in Nat
  BY StackMode
<1>2. ASSUME NEW b \in Boxes, NEW i \in 1..Len(Box(b)), Sync(Box(b)[i]) PROVE Box(b)[i].id # calls + 1
  <2>1. Fits(b, Box(b)[i]) /\ Box(b)[i] \in Message
    BY <1>1, <1>2, BoxTyped DEF Addressed, Sync
  <2>2. Box(b)[i].id <= calls /\ Box(b)[i].id \in Nat
    BY <2>1, DispatchAssumption DEF Fits, Message
  <2> QED
    BY <1>1, <2>2
<1>3. ASSUME NEW t \in Threads, NEW k \in 1..Len(stack[t]) PROVE stack[t][k].id # calls + 1
  <2>1. stack[t][k].id <= calls /\ stack[t][k].id \in Nat
    BY <1>1, FrameTyped, DispatchAssumption DEF Framed, FrameFits
  <2> QED
    BY <1>1, <2>1
<1> QED
  BY <1>2, <1>3 DEF InBoxes

LEMMA RequestFits ==
    ASSUME Nesting, Channels, Framed, NEW t \in Threads, NEW q \in Procs,
           NEW type \in {"request", "post"}, Home[t] \in up, q # Home[t], calls' = calls + 1,
           NEW m, m = Request(t, q, type)
    PROVE  /\ Fits(WireBox(Home[t], q), m)'
           /\ channel[t][q] # None =>
                 Latest(stack[t], Len(stack[t]), q, channel[t][q]) /\ Home[channel[t][q]] = q
<1> DEFINE u == channel[t][q]
<1>1. /\ TypeOK /\ Home[t] \in Procs /\ calls \in Nat /\ u \in Threads \cup {None}
  BY StackMode
<1>2. /\ m.id = calls + 1 /\ m.from = t /\ m.src = Home[t] /\ m.to = u /\ m.type = type
  BY DEF Request
<1>3. ASSUME u # None PROVE Latest(stack[t], Len(stack[t]), q, u) /\ Home[u] = q
  <2>1. Latest(stack[t], Len(stack[t]), q, u)
    BY <1>3 DEF Channels, AddressesIn
  <2>2. PICK k \in 1..Len(stack[t]) :
           stack[t][k].what # "call" /\ stack[t][k].peer = q /\ stack[t][k].thread = u
    BY <2>1 DEF Latest
  <2>3. stack[t][k].peer = Home[stack[t][k].thread]
    BY <2>2 DEF Framed, FrameFits
  <2> QED
    BY <2>1, <2>2, <2>3
<1>4. Dest(WireBox(Home[t], q)) = q /\ WireBox(Home[t], q)[1] = "wire" /\ WireBox(Home[t], q)[2] = Home[t]
  BY <1>1, WireBoxes
<1> HIDE DEF u
<1>5. calls' = calls + 1 /\ m.id <= calls'
  BY <1>1, <1>2
<1>6. Fits(WireBox(Home[t], q), m)'
  <2> DEFINE b == WireBox(Home[t], q)
  <2>1. /\ Dest(b) = q /\ b[1] = "wire" /\ b[2] = Home[t] /\ m.type # "response"
        /\ m.src # q /\ Home[m.from] = m.src /\ m.src = b[2] /\ (m.to # None => Home[m.to] = q)
    BY <1>2, <1>3, <1>4
  <2> HIDE DEF b
  <2>2. Fits(b, m)'
    BY <1>5, <2>1 DEF Fits, Dest
  <2> QED
    BY <2>2 DEF b
<1> QED
  BY <1>3, <1>6 DEF u

LEMMA CallDelivers ==
    ASSUME Delivery, Nesting', NEW t \in Threads, NEW q \in Procs, Call(t, q)
    PROVE  Delivery'
<1> PICK f, m : f = Asking(t, q) /\ m = Request(t, q, "request")
  OBVIOUS
<1>1. /\ Nesting /\ Addressed /\ Gone /\ Hung /\ Once /\ Framed /\ FramesOnce /\ Served /\ Channels
      /\ TypeOK /\ Home[t] \in Procs /\ calls \in Nat
      /\ channel \in [Threads -> [Procs -> Threads \cup {None}]]
  BY StackMode DEF Delivery
<1>2. /\ Home[t] \in up /\ ~InCall(t) /\ q # Home[t] /\ calls' = calls + 1
      /\ f \in Frame /\ Pushes(t, f) /\ m \in Message /\ Send(Home[t], q, m) /\ Sends(Home[t], q, m)
      /\ ClosesOnlyTheDead /\ UNCHANGED <<up, channel, queue, default, strayed>>
  BY <1>1, CallEffects
<1>3. /\ f.what = "call" /\ f.peer = q /\ f.id = calls + 1 /\ m.id = calls + 1
  BY DEF Asking, Request
<1>4. Fits(WireBox(Home[t], q), m)'
  BY <1>1, <1>2, RequestFits
<1>5. /\ ~InBoxes(calls + 1)
      /\ \A u \in Threads : \A k \in 1..Len(stack[u]) : stack[u][k].id # calls + 1
  BY <1>1, NewIdIsFresh
<1>6. /\ Addressed' /\ Once'
      /\ \A x : InBoxes(x)' => InBoxes(x) \/ (Sync(m) /\ x = m.id)
      /\ \A c \in Boxes : Dest(c) \notin up => Box(c)' = Box(c)
  <2>1. ~InBoxes(m.id) /\ calls' \in Nat /\ calls <= calls'
    BY <1>1, <1>2, <1>3, <1>5
  <2> QED
    BY <1>1, <1>2, <1>4, <2>1, SendingDelivers
<1>7. Framed' /\ FramesOnce'
  <2>1. FrameFits(t, f)'
    BY <1>1, <1>2, <1>3 DEF FrameFits
  <2>2. calls' \in Nat /\ calls <= calls'
    BY <1>1, <1>2
  <2> QED
    BY <1>1, <1>2, <1>3, <1>5, <2>1, <2>2, FramesPushing
<1>8. Gone'
  <2>1. \A u \in Threads : Home[u] \notin up => stack'[u] = stack[u]
    BY <1>1, <1>2, AfterPushing
  <2> QED
    BY <1>1, <1>2, <1>6, <2>1, GoneKept
<1>9. Hung'
  BY <1>1, <1>2, HungKept
<1>10. Served'
  <2> SUFFICES ASSUME NEW u \in Threads, NEW k \in 1..Len(stack'[u]), NEW x, x = stack'[u][k].id,
                      stack'[u][k].what = "serve", InBoxes(x)'
               PROVE  FALSE
    BY DEF Served, InBoxes, Sync
  <2>1. k \in 1..Len(stack[u]) /\ stack'[u][k] = stack[u][k]
    BY <1>1, <1>2, <1>3, AfterPushing
  <2>2. x # calls + 1 /\ ~InBoxes(x)
    BY <1>1, <1>5, <2>1 DEF Served
  <2> QED
    BY <1>3, <1>6, <2>2
<1>11. Channels'
  <2> SUFFICES ASSUME NEW s \in Threads, Home[s] \in up PROVE AddressesIn(stack'[s], channel[s])
    BY <1>2 DEF Channels
  <2>1. AddressesIn(stack[s], channel[s]) /\ stack[s] \in Seq(Frame) /\ stack \in [Threads -> Seq(Frame)]
    BY <1>1, StackMode DEF Channels
  <2>2. CASE s = t
    <3>1. stack'[s] = Append(stack[s], f)
      BY <1>2, <2>1, <2>2 DEF Pushes
    <3> QED
      BY <1>2, <1>3, <2>1, <3>1, AddressesCalling
  <2>3. CASE s # t
    BY <1>1, <1>2, <2>1, <2>3, AfterPushing
  <2> QED
    BY <2>2, <2>3
<1> QED
  BY <1>6, <1>7, <1>8, <1>9, <1>10, <1>11 DEF Delivery

LEMMA PostDelivers ==
    ASSUME Delivery, Nesting', NEW t \in Threads, NEW q \in Procs, Post(t, q)
    PROVE  Delivery'
<1> PICK m : m = Request(t, q, "post")
  OBVIOUS
<1>1. /\ Nesting /\ Addressed /\ Gone /\ Hung /\ Once /\ Framed /\ FramesOnce /\ Served /\ Channels
      /\ TypeOK /\ Home[t] \in Procs /\ calls \in Nat
  BY StackMode DEF Delivery
<1>2. /\ Home[t] \in up /\ ~InCall(t) /\ q # Home[t] /\ calls' = calls + 1
      /\ m \in Message /\ Send(Home[t], q, m) /\ Sends(Home[t], q, m)
      /\ ClosesOnlyTheDead /\ UNCHANGED <<up, stack, channel, queue, default, strayed>>
  BY <1>1, PostEffects
<1>3. ~Sync(m)
  BY DEF Request, Sync
<1>4. Fits(WireBox(Home[t], q), m)'
  BY <1>1, <1>2, RequestFits
<1>5. calls' \in Nat /\ calls <= calls'
  BY <1>1, <1>2
<1>6. /\ Addressed' /\ Once' /\ \A x : InBoxes(x)' => InBoxes(x)
      /\ \A c \in Boxes : Dest(c) \notin up => Box(c)' = Box(c)
  BY <1>1, <1>2, <1>3, <1>4, <1>5, SendingDelivers
<1>7. Framed' /\ FramesOnce'
  BY <1>1, <1>2, <1>5, FramesLeft
<1>8. Gone'
  BY <1>1, <1>2, <1>6, GoneKept
<1>9. Hung'
  BY <1>1, <1>2, HungKept
<1>10. Served'
  BY <1>1, <1>2, <1>6, ServedLeft
<1>11. Channels'
  BY <1>1, <1>2 DEF Channels
<1> QED
  BY <1>6, <1>7, <1>8, <1>9, <1>10, <1>11 DEF Delivery

\* A call is left, and perhaps a message taken.
LEMMA ReturningDelivers ==
    ASSUME Delivery, Nesting', NEW t \in Threads, Home[t] \in up, Top(t).what = "call", Pops(t),
           Keeps \/ \E b \in Boxes : Drops(b),
           ClosesOnlyTheDead, UNCHANGED <<up, channel, wire, calls>>
    PROVE  Delivery'
<1>1. /\ Nesting /\ Addressed /\ Gone /\ Hung /\ Once /\ Framed /\ FramesOnce /\ Served /\ Channels
      /\ TypeOK /\ calls \in Nat /\ stack \in [Threads -> Seq(Frame)]
  BY StackMode DEF Delivery
<1>2. /\ Addressed' /\ Once' /\ \A x : InBoxes(x)' => InBoxes(x)
      /\ \A c \in Boxes : Dest(c) \notin up => Box(c)' = Box(c)
  <2>1. CASE Keeps
    BY <1>1, <2>1, AddressedKept, ComingKept DEF Keeps
  <2>2. ASSUME NEW b \in Boxes, Drops(b)
        PROVE  /\ Addressed' /\ Once' /\ \A x : InBoxes(x)' => InBoxes(x)
               /\ \A c \in Boxes : Dest(c) \notin up => Box(c)' = Box(c)
    <3>1. Addressed' /\ Once' /\ \A x : InBoxes(x)' => InBoxes(x)
      BY <1>1, <2>2, AddressedDropping, OnceDropping
    <3>2. Dest(b) \in up
      BY <1>1, <2>2 DEF Gone, Drops
    <3> QED
      BY <2>2, <3>1, <3>2 DEF Drops
  <2> QED
    BY <2>1, <2>2
<1>3. /\ \A u \in Threads : u # t => stack'[u] = stack[u]
      /\ \A u \in Threads : \A k \in 1..Len(stack'[u]) :
            k \in 1..Len(stack[u]) /\ stack'[u][k] = stack[u][k]
  BY <1>1, AfterPopping
<1>4. Framed' /\ FramesOnce'
  BY <1>1, <1>3, FramesLeft
<1>5. Gone'
  <2>1. \A u \in Threads : Home[u] \notin up => stack'[u] = stack[u]
    BY <1>3
  <2> QED
    BY <1>1, <1>2, <2>1, GoneKept
<1>6. Hung'
  BY <1>1, HungKept
<1>7. Served'
  BY <1>1, <1>2, <1>3, ServedLeft
<1>8. Channels'
  <2> SUFFICES ASSUME NEW s \in Threads, Home[s] \in up PROVE AddressesIn(stack'[s], channel[s])
    BY DEF Channels
  <2>1. AddressesIn(stack[s], channel[s]) /\ stack[s] \in Seq(Frame)
    BY <1>1 DEF Channels
  <2>2. CASE s = t
    <3>1. stack'[s] = Front(stack[s]) /\ stack[s] # <<>> /\ Last(stack[s]).what = "call"
      BY <1>1, <2>2 DEF Pops, Pop, Top
    <3> QED
      BY <2>1, <3>1, AddressesReturning
  <2>3. CASE s # t
    BY <1>3, <2>1, <2>3
  <2> QED
    BY <2>2, <2>3
<1> QED
  BY <1>2, <1>4, <1>5, <1>6, <1>7, <1>8 DEF Delivery

LEMMA ServiceDelivers ==
    ASSUME Delivery, Nesting', NEW t \in Threads, NEW b, NEW m, StartsService(t, b, m)
    PROVE  Delivery'
<1> PICK f : f = Servicing(t, m)
  OBVIOUS
<1>1. /\ Nesting /\ Addressed /\ Gone /\ Hung /\ Once /\ Framed /\ FramesOnce /\ Served /\ Channels
      /\ TypeOK /\ calls \in Nat /\ stack \in [Threads -> Seq(Frame)]
      /\ channel \in [Threads -> [Procs -> Threads \cup {None}]]
  BY StackMode DEF Delivery
<1>2. /\ Home[t] \in up /\ b \in Boxes /\ Dest(b) = Home[t]
      /\ m = Box(b)[1] /\ m \in Message /\ m.type # "response"
      /\ f \in Frame /\ Pushes(t, f) /\ Drops(b)
      /\ channel' = [channel EXCEPT ![t][m.src] = m.from]
      /\ ClosesOnlyTheDead /\ UNCHANGED <<up, wire, calls>>
  BY DEF StartsService
<1>3. /\ f.what = (IF m.type = "post" THEN "serveAsync" ELSE "serve") /\ f.peer = m.src
      /\ f.thread = m.from /\ f.id = m.id /\ f.saved = channel[t][m.src]
      /\ m.src \in Procs /\ m.from \in Threads
  BY <1>2 DEF Servicing, Message
<1>4. 1 \in 1..Len(Box(b)) /\ Fits(b, m)
  <2>1. 1 \in 1..Len(Box(b))
    BY <1>1, <1>2, BoxTyped, EndsOfSeq DEF Drops
  <2> QED
    BY <1>1, <1>2, <2>1 DEF Addressed
<1>5. /\ Addressed' /\ Once'
      /\ \A x : InBoxes(x)' => InBoxes(x) /\ (Sync(m) => x # m.id)
  BY <1>1, <1>2, AddressedDropping, OnceDropping
<1>6. Sync(m) => InBoxes(m.id)
  BY <1>2, <1>4 DEF InBoxes
<1>7. Sync(m) <=> f.what = "serve"
  BY <1>2, <1>3 DEF Sync
<1>8. Framed' /\ FramesOnce'
  <2>1. FrameFits(t, f)'
    BY <1>2, <1>3, <1>4 DEF Fits, FrameFits
  <2>2. ASSUME NEW u \in Threads, NEW k \in 1..Len(stack[u]), stack[u][k].what = f.what,
               f.what # "serveAsync"
        PROVE  stack[u][k].id # f.id
    BY <1>1, <1>3, <1>6, <1>7, <2>2 DEF Served
  <2>3. calls' \in Nat /\ calls <= calls'
    BY <1>1, <1>2
  <2> QED
    BY <1>1, <1>2, <2>1, <2>2, <2>3, FramesPushing
<1>9. Gone'
  <2>1. \A u \in Threads : Home[u] \notin up => stack'[u] = stack[u]
    BY <1>1, <1>2, AfterPushing
  <2>2. \A c \in Boxes : Dest(c) \notin up => Box(c)' = Box(c)
    BY <1>2 DEF Drops
  <2> QED
    BY <1>1, <1>2, <2>1, <2>2, GoneKept
<1>10. Hung'
  BY <1>1, <1>2, HungKept
<1>11. Served'
  <2> SUFFICES ASSUME NEW u \in Threads, NEW k \in 1..Len(stack'[u]), NEW x, x = stack'[u][k].id,
                      stack'[u][k].what = "serve", InBoxes(x)'
               PROVE  FALSE
    BY DEF Served, InBoxes, Sync
  <2>1. InBoxes(x) /\ (Sync(m) => x # m.id)
    BY <1>5
  <2>2. CASE k \in 1..Len(stack[u]) /\ stack'[u][k] = stack[u][k]
    BY <1>1, <2>1, <2>2 DEF Served
  <2>3. CASE stack'[u][k] = f
    BY <1>3, <1>7, <2>1, <2>3
  <2> QED
    BY <1>1, <1>2, <2>2, <2>3, AfterPushing
<1>12. Channels'
  <2> SUFFICES ASSUME NEW s \in Threads, Home[s] \in up PROVE AddressesIn(stack'[s], channel'[s])
    BY <1>2 DEF Channels
  <2>1. AddressesIn(stack[s], channel[s]) /\ stack[s] \in Seq(Frame)
    BY <1>1 DEF Channels
  <2>2. CASE s = t
    <3>1. stack'[s] = Append(stack[s], f) /\ channel'[s] = [channel[s] EXCEPT ![f.peer] = f.thread]
      BY <1>1, <1>2, <1>3, <2>2 DEF Pushes
    <3>2. channel[s] \in [Procs -> Threads \cup {None}] /\ f.what # "call" /\ f.saved = channel[s][f.peer]
      BY <1>1, <1>3, <2>2
    <3> QED
      BY <1>2, <2>1, <3>1, <3>2, AddressesServing
  <2>3. CASE s # t
    <3>1. channel'[s] = channel[s] /\ stack'[s] = stack[s]
      BY <1>1, <1>2, <2>3, AfterPushing
    <3> QED
      BY <2>1, <3>1
  <2> QED
    BY <2>2, <2>3
<1> QED
  BY <1>5, <1>8, <1>9, <1>10, <1>11, <1>12 DEF Delivery

LEMMA FinishesDelivers ==
    ASSUME Delivery, Nesting', NEW t \in Threads, Finishes(t)
    PROVE  Delivery'
<1> PICK f, m : f = Top(t) /\ m = Answering(t)
  OBVIOUS
<1> DEFINE n == Len(stack[t])
<1>1. /\ Nesting /\ Addressed /\ Gone /\ Hung /\ Once /\ Framed /\ FramesOnce /\ Served /\ Channels
      /\ TypeOK /\ calls \in Nat /\ stack \in [Threads -> Seq(Frame)] /\ Home[t] \in Procs
      /\ channel \in [Threads -> [Procs -> Threads \cup {None}]]
  BY StackMode DEF Delivery
<1>2. /\ Home[t] \in up /\ f.what # "call" /\ Pops(t) /\ f.peer \in Procs /\ f.thread \in Threads
      /\ m \in Message
      /\ IF f.what = "serve" THEN Send(Home[t], f.peer, m) /\ Sends(Home[t], f.peer, m)
                             ELSE Keeps /\ UNCHANGED wire
      /\ channel' = [channel EXCEPT ![t][f.peer] = f.saved]
      /\ ClosesOnlyTheDead /\ UNCHANGED <<up, queue, default, calls>>
  BY <1>1, FinishesEffects
<1>3. /\ n \in 1..n /\ stack[t][n] = f
      /\ \A u \in Threads : u # t => stack'[u] = stack[u]
      /\ \A u \in Threads : \A k \in 1..Len(stack'[u]) :
            /\ k \in 1..Len(stack[u]) /\ stack'[u][k] = stack[u][k]
            /\ u = t => k # n
  BY <1>1, <1>2, AfterPopping
<1>4. f.peer # Home[t] /\ f.id <= calls /\ f.peer = Home[f.thread]
  BY <1>1, <1>2, <1>3 DEF Framed, FrameFits
<1>5. /\ m.type = "response" /\ m.src = Home[t] /\ m.from = t /\ m.to = f.thread /\ m.id = f.id
      /\ Sync(m)
  BY <1>2 DEF Answering, Sync
<1>6. f.what = "serve" => ~InBoxes(m.id)
  BY <1>1, <1>3, <1>5 DEF Served
<1>7. /\ Addressed' /\ Once'
      /\ \A x : InBoxes(x)' => InBoxes(x) \/ (f.what = "serve" /\ x = f.id)
      /\ \A c \in Boxes : Dest(c) \notin up => Box(c)' = Box(c)
  <2>1. CASE f.what = "serve"
    <3> DEFINE b == WireBox(Home[t], f.peer)
    <3>1. Dest(b) = f.peer /\ b[1] = "wire" /\ b[2] = Home[t]
      <4>1. Home[t] \in Procs /\ f.peer \in Procs
        BY <1>1, <1>2
      <4> QED
        BY <4>1, WireBoxes
    <3>2. m.to # None /\ Home[m.to] = Dest(b)
      BY <1>2, <1>4, <1>5, <3>1, DispatchAssumption
    <3> HIDE DEF b
    <3>3. Fits(b, m)'
      BY <1>2, <1>4, <1>5, <3>1, <3>2 DEF Fits, Dest
    <3>4. calls' \in Nat /\ calls <= calls' /\ (Sync(m) => ~InBoxes(m.id))
      BY <1>1, <1>2, <1>6, <2>1
    <3>5. /\ Addressed' /\ Once' /\ \A x : InBoxes(x)' => InBoxes(x) \/ (Sync(m) /\ x = m.id)
          /\ \A c \in Boxes : Dest(c) \notin up => Box(c)' = Box(c)
      BY <1>1, <1>2, <2>1, <3>3, <3>4, SendingDelivers DEF b
    <3> QED
      BY <1>5, <2>1, <3>5
  <2>2. CASE f.what # "serve"
    <3>1. Keeps /\ calls' \in Nat /\ calls <= calls'
      BY <1>1, <1>2, <2>2
    <3> QED
      BY <1>1, <3>1, AddressedKept, ComingKept DEF Keeps
  <2> QED
    BY <2>1, <2>2
<1>8. Framed' /\ FramesOnce'
  <2>1. calls' \in Nat /\ calls <= calls'
    BY <1>1, <1>2
  <2> QED
    BY <1>1, <1>3, <2>1, FramesLeft
<1>9. Gone'
  <2>1. \A u \in Threads : Home[u] \notin up => stack'[u] = stack[u]
    BY <1>2, <1>3
  <2> QED
    BY <1>1, <1>2, <1>7, <2>1, GoneKept
<1>10. Hung'
  BY <1>1, <1>2, HungKept
<1>11. Served'
  <2> SUFFICES ASSUME NEW u \in Threads, NEW k \in 1..Len(stack'[u]),
                      stack[u][k].what = "serve", NEW x, x = stack[u][k].id, InBoxes(x)'
               PROVE  InBoxes(x)
    BY <1>1, <1>3, ServedLeft
  <2>1. ~(f.what = "serve" /\ x = f.id)
    <3>1. k \in 1..Len(stack[u]) /\ (u = t => k # n) /\ n \in 1..Len(stack[t])
      BY <1>3
    <3>2. ASSUME f.what = "serve", x = f.id
          PROVE  FALSE
      <4>1. /\ stack[u][k].what = stack[t][n].what /\ stack[u][k].what # "serveAsync"
            /\ stack[u][k].id = stack[t][n].id
        BY <1>3, <3>2
      <4>2. u = t /\ k = n
        BY <1>1, <3>1, <4>1 DEF FramesOnce
      <4> QED
        BY <3>1, <4>2
    <3> QED
      BY <3>2
  <2> QED
    BY <1>7, <2>1
<1>12. Channels'
  <2> SUFFICES ASSUME NEW s \in Threads, Home[s] \in up PROVE AddressesIn(stack'[s], channel'[s])
    BY <1>2 DEF Channels
  <2>1. AddressesIn(stack[s], channel[s]) /\ stack[s] \in Seq(Frame)
    BY <1>1 DEF Channels
  <2>2. CASE s = t
    <3>1. /\ stack'[s] = Front(stack[s]) /\ stack[s] # <<>> /\ Last(stack[s]) = f
          /\ channel'[s] = [channel[s] EXCEPT ![f.peer] = f.saved]
      BY <1>1, <1>2, <2>2 DEF Pops, Pop, Top
    <3>2. channel[s] \in [Procs -> Threads \cup {None}]
      BY <1>1
    <3> QED
      BY <1>2, <2>1, <3>1, <3>2, AddressesFinishing
  <2>3. CASE s # t
    <3>1. channel'[s] = channel[s] /\ stack'[s] = stack[s]
      BY <1>1, <1>2, <1>3, <2>3
    <3> QED
      BY <2>1, <3>1
  <2> QED
    BY <2>2, <2>3
<1> QED
  BY <1>7, <1>8, <1>9, <1>10, <1>11, <1>12 DEF Delivery

LEMMA SortsDelivers ==
    ASSUME Delivery, Nesting', NEW p \in Procs, NEW q \in Procs, Sorts(p, q)
    PROVE  Delivery'
<1>1. /\ Nesting /\ Addressed /\ Gone /\ Hung /\ Once /\ Framed /\ FramesOnce /\ Served /\ Channels
      /\ TypeOK /\ calls \in Nat
  BY StackMode DEF Delivery
<1>2. /\ \E b, d \in Boxes : /\ Moves(b, d) /\ Box(b)[1] \in Message /\ Fits(d, Box(b)[1])
                             /\ b[1] = "wire" /\ d[1] # "wire" /\ 1 \in 1..Len(Box(b))
      /\ ClosesOnlyTheDead /\ UNCHANGED <<up, stack, channel, calls>>
  BY <1>1, SortsEffects
<1>3. PICK b, d \in Boxes : /\ Moves(b, d) /\ Fits(d, Box(b)[1])
  BY <1>2
<1>4. /\ Addressed' /\ Once' /\ \A x : InBoxes(x)' => InBoxes(x)
  BY <1>1, <1>2, <1>3, AddressedMoving, OnceMoving
<1>5. \A c \in Boxes : Dest(c) \notin up => Box(c)' = Box(c)
  <2>1. Dest(b) \in up /\ Dest(d) = Dest(b)
    BY <1>1, <1>3 DEF Gone, Moves
  <2> QED
    BY <1>3, <2>1 DEF Moves
<1>6. Framed' /\ FramesOnce'
  <2>1. calls' \in Nat /\ calls <= calls' /\ UNCHANGED stack
    BY <1>1, <1>2
  <2> QED
    BY <1>1, <2>1, FramesLeft
<1>7. Gone'
  BY <1>1, <1>2, <1>5, GoneKept
<1>8. Hung'
  BY <1>1, <1>2, HungKept
<1>9. Served'
  BY <1>1, <1>2, <1>4, ServedLeft
<1>10. Channels'
  BY <1>1, <1>2 DEF Channels
<1> QED
  BY <1>4, <1>6, <1>7, <1>8, <1>9, <1>10 DEF Delivery

LEMMA DieDelivers ==
    ASSUME Delivery, Nesting', NEW q \in Procs, Die(q)
    PROVE  Delivery'
<1>1. /\ Nesting /\ Addressed /\ Gone /\ Hung /\ Once /\ Framed /\ FramesOnce /\ Served /\ Channels
      /\ TypeOK /\ calls \in Nat /\ stack \in [Threads -> Seq(Frame)]
  BY StackMode DEF Delivery
<1>2. /\ q \in up /\ up' = up \ {q} /\ Empties(q)
      /\ \A t \in Threads : IF Home[t] = q THEN stack'[t] = <<>> ELSE stack'[t] = stack[t]
      /\ ClosesOnlyTheDead /\ UNCHANGED <<channel, calls>>
  BY <1>1, DieEffects
<1>3. /\ Addressed' /\ Once' /\ \A x : InBoxes(x)' => InBoxes(x)
  BY <1>1, <1>2, AddressedEmptying, OnceEmptying
<1>4. \A u \in Threads : \A k \in 1..Len(stack'[u]) :
          k \in 1..Len(stack[u]) /\ stack'[u][k] = stack[u][k]
  <2> SUFFICES ASSUME NEW u \in Threads, NEW k \in 1..Len(stack'[u])
               PROVE  k \in 1..Len(stack[u]) /\ stack'[u][k] = stack[u][k]
    OBVIOUS
  <2>1. Home[u] # q
    <3> SUFFICES ASSUME Home[u] = q PROVE FALSE
      OBVIOUS
    <3>1. stack'[u] = <<>>
      BY <1>2
    <3> QED
      BY <3>1
  <2> QED
    BY <1>2, <2>1
<1>5. Framed' /\ FramesOnce'
  <2>1. calls' \in Nat /\ calls <= calls'
    BY <1>1, <1>2
  <2> QED
    BY <1>1, <1>4, <2>1, FramesLeft
<1>6. Gone'
  <2>1. ASSUME NEW b \in Boxes, Dest(b) \notin up' PROVE Box(b)' = <<>>
    <3>1. CASE Dest(b) = q
      BY <1>2, <3>1 DEF Empties
    <3>2. CASE Dest(b) # q
      <4>1. Box(b) = <<>>
        BY <1>1, <1>2, <2>1, <3>2 DEF Gone
      <4> QED
        BY <1>2, <3>2, <4>1 DEF Empties
    <3> QED
      BY <3>1, <3>2
  <2>2. ASSUME NEW t \in Threads, Home[t] \notin up' PROVE stack'[t] = <<>>
    BY <1>1, <1>2, <2>2 DEF Gone
  <2> QED
    BY <2>1, <2>2 DEF Gone, Dest
<1>7. Hung'
  BY <1>1, <1>2, HungKept
<1>8. Served'
  BY <1>1, <1>3, <1>4, ServedLeft
<1>9. Channels'
  <2> SUFFICES ASSUME NEW s \in Threads, Home[s] \in up' PROVE AddressesIn(stack'[s], channel'[s])
    BY DEF Channels
  <2>1. Home[s] # q /\ Home[s] \in up
    BY <1>2
  <2> QED
    BY <1>1, <1>2, <2>1 DEF Channels
<1> QED
  BY <1>3, <1>5, <1>6, <1>7, <1>8, <1>9 DEF Delivery

\* Steps after which boxes, stacks and channels are as before.
LEMMA IdleDelivers ==
    ASSUME Delivery, Nesting', Keeps, ClosesOnlyTheDead, UNCHANGED <<up, stack, channel, wire, calls>>
    PROVE  Delivery'
<1>1. /\ Nesting /\ Addressed /\ Gone /\ Hung /\ Once /\ Framed /\ FramesOnce /\ Served /\ Channels
      /\ TypeOK /\ calls \in Nat
  BY StackMode DEF Delivery
<1>2. calls' \in Nat /\ calls <= calls' /\ UNCHANGED stack
  BY <1>1
<1>3. Addressed' /\ Once' /\ \A x : InBoxes(x)' => InBoxes(x)
  BY <1>1, <1>2, AddressedKept, ComingKept
<1>4. Framed' /\ FramesOnce'
  BY <1>1, <1>2, FramesLeft
<1>5. Gone' /\ Hung'
  BY <1>1, GoneKept, HungKept DEF Keeps
<1>6. Served'
  BY <1>1, <1>2, <1>3, ServedLeft
<1>7. Channels'
  BY <1>1 DEF Channels
<1> QED
  BY <1>3, <1>4, <1>5, <1>6, <1>7 DEF Delivery

LEMMA DeliveryStep == Delivery /\ [Next]_vars => Delivery'
<1> SUFFICES ASSUME Delivery, [Next]_vars PROVE Delivery'
  OBVIOUS
<1>1. Nesting /\ Addressed /\ Nesting'
  BY NestingStep DEF Delivery
<1>2. ASSUME NEW t \in Threads, NEW q \in Procs, Call(t, q) \/ Post(t, q) PROVE Delivery'
  BY <1>1, <1>2, CallDelivers, PostDelivers
<1>3. ASSUME NEW t \in Threads, GoesToWait(t) \/ IsPulsed(t) PROVE Delivery'
  BY <1>1, <1>3, IdleEffects, IdleDelivers
<1>4. ASSUME NEW t \in Threads, GivesUp(t) PROVE Delivery'
  <2>1. /\ Home[t] \in up /\ Top(t).what = "call" /\ Pops(t) /\ Keeps
        /\ ClosesOnlyTheDead /\ UNCHANGED <<up, channel, wire, calls>>
    BY <1>1, <1>4, GivesUpEffects
  <2> QED
    BY <1>1, <2>1, ReturningDelivers
<1>5. ASSUME NEW t \in Threads, TakesResponse(t) PROVE Delivery'
  <2>1. /\ Home[t] \in up /\ Top(t).what = "call" /\ Pops(t) /\ Drops(QueueBox(t))
        /\ ClosesOnlyTheDead /\ UNCHANGED <<up, channel, wire, calls>> /\ QueueBox(t) \in Boxes
    BY <1>1, <1>5, TakesResponseEffects, QueueBoxes
  <2> QED
    BY <1>1, <2>1, ReturningDelivers
<1>6. ASSUME NEW t \in Threads, TakesRequest(t) \/ Pumped(t) PROVE Delivery'
  <2>1. \E b, m : StartsService(t, b, m)
    BY <1>1, <1>6, TakesRequestEffects, PumpedEffects
  <2> QED
    BY <1>1, <2>1, ServiceDelivers
<1>7. ASSUME NEW t \in Threads, Finishes(t) PROVE Delivery'
  BY <1>1, <1>7, FinishesDelivers
<1>8. ASSUME NEW p \in Procs, NEW q \in Procs, Sorts(p, q) \/ Closes(p, q) PROVE Delivery'
  <2>1. CASE Sorts(p, q)
    BY <1>1, <2>1, SortsDelivers
  <2>2. CASE Closes(p, q)
    <3>1. Hung
      BY DEF Delivery
    <3>2. Keeps /\ ClosesOnlyTheDead /\ UNCHANGED <<up, stack, channel, wire, calls>>
      BY <1>1, <2>2, <3>1, ClosesEffects
    <3> QED
      BY <1>1, <3>2, IdleDelivers
  <2> QED
    BY <1>8, <2>1, <2>2
<1>9. ASSUME NEW q \in Procs, Die(q) PROVE Delivery'
  BY <1>1, <1>9, DieDelivers
<1>10. CASE UNCHANGED vars
  <2>1. UNCHANGED <<wire, queue, default, up, stack, channel, open, due, calls>>
    BY <1>10 DEF vars
  <2>2. Keeps /\ ClosesOnlyTheDead
    BY <2>1, SameBoxes, ChannelsLeft
  <2> QED
    BY <1>1, <2>1, <2>2, IdleDelivers
<1> QED
  BY <1>2, <1>3, <1>4, <1>5, <1>6, <1>7, <1>8, <1>9, <1>10 DEF Next, Handling, ThreadStep

LEMMA EmptyAtFirst ==
    ASSUME Init, NEW b \in Boxes
    PROVE  Box(b) = <<>>
<1>1. /\ \A p, q \in Procs : wire[<<p, q>>] = <<>>
      /\ \A t \in Threads : queue[t] = <<>>
      /\ \A p \in Procs : default[p] = <<>>
  BY DEF Init, Pairs
<1>2. ASSUME NEW p \in Procs, NEW q \in Procs, b = WireBox(p, q) PROVE Box(b) = <<>>
  <2>1. Box(WireBox(p, q)) = wire[<<p, q>>]
    BY WireBoxes
  <2>2. wire[<<p, q>>] = <<>>
    BY <1>1
  <2> QED
    BY <1>2, <2>1, <2>2
<1>3. ASSUME NEW t \in Threads, b = QueueBox(t) PROVE Box(b) = <<>>
  BY <1>1, <1>3, QueueBoxes
<1>4. ASSUME NEW p \in Procs, b = DefaultBox(p) PROVE Box(b) = <<>>
  BY <1>1, <1>4, DefaultBoxes
<1> QED
  BY <1>2, <1>3, <1>4, BoxKinds

LEMMA DeliveryStarts == Init => Delivery
<1> SUFFICES ASSUME Init PROVE Delivery
  OBVIOUS
<1>1. Nesting
  BY NestingStarts
<1>2. \A b \in Boxes : Box(b) = <<>>
  BY EmptyAtFirst
<1>3. \A t \in Threads : stack[t] = <<>>
  BY DEF Init
<1>4. Addressed /\ Once /\ Served /\ Framed /\ FramesOnce
  BY <1>2, <1>3 DEF Addressed, Once, Served, Framed, FramesOnce
<1>5. Gone
  BY <1>2, <1>3 DEF Gone
<1>6. Hung
  BY DEF Init, Hung, Pairs
<1>7. Channels
  <2> SUFFICES ASSUME NEW s \in Threads PROVE AddressesIn(stack[s], channel[s])
    BY DEF Channels
  <2>1. stack[s] = <<>> /\ \A q \in Procs : channel[s][q] = None
    BY DEF Init
  <2> QED
    BY <2>1 DEF AddressesIn
<1> QED
  BY <1>1, <1>4, <1>5, <1>6, <1>7 DEF Delivery

-----------------------------------------------------------------------------
\* Delivery holds in every reachable state.

\* All that the messages of RequestDispatch have in common, whoever dies and
\* whatever is left behind in a queue (UserSession.cpp: the read loop 288-431, the
\* pump 446-485, calls 506-555 and 600-635, services 737-813).
THEOREM MessagesAreDelivered == Spec => []Delivery
<1>1. Init => Delivery
  BY DeliveryStarts
<1>2. Delivery /\ [Next]_vars => Delivery'
  BY DeliveryStep
<1> QED
  BY <1>1, <1>2, PTL DEF Spec

\* Sending, sorting, taking and answering never make two of one: a request or a
\* response is at one place between the threads, is never on its way while it is
\* being served, and no request is served twice or in two threads.
THEOREM NothingIsTwice == Spec => [](Once /\ Served /\ FramesOnce)
<1>1. Delivery => Once /\ Served /\ FramesOnce
  BY DEF Delivery
<1> QED
  BY <1>1, MessagesAreDelivered, PTL

\* What is on a wire comes from its sender; what is in a thread's queue is for that
\* thread, and what is in the queue of the pump for none: responses never get there.
THEOREM MessagesAreAddressed == Spec => []Addressed
<1>1. Delivery => Addressed
  BY DEF Delivery
<1> QED
  BY <1>1, MessagesAreDelivered, PTL

\* A thread addresses its requests to the innermost thread it serves there, when it
\* has served requests of several threads of one application in one another, too.
THEOREM ChannelsNameWhoIsServed == Spec => []Channels
<1>1. Delivery => Channels
  BY DEF Delivery
<1> QED
  BY <1>1, MessagesAreDelivered, PTL

\* A dead application holds nothing and nothing is on its way to it; and only the
\* channels of the dead are ever reported or found closed, so that no thread gives up
\* a call to an application that runs (process_channel_close, wait_for_response).
THEOREM TheDeadHoldNothing == Spec => [](Gone /\ Hung)
<1>1. Delivery => Gone /\ Hung
  BY DEF Delivery
<1> QED
  BY <1>1, MessagesAreDelivered, PTL

-----------------------------------------------------------------------------
(***************************************************************************)
(* Why a call gets its own answer in RequestDispatch, although a response  *)
(* names a thread and no request: for any applications, threads, requests  *)
(* and deaths, as long as no call has been left with messages behind it    *)
(* and nobody has called back the poster of an asynchronous request.       *)
(***************************************************************************)

Good == ~strayed /\ ~calledBack

-----------------------------------------------------------------------------
\* Stacks: frame j of st is the call x to q; a service of the call x of u is below
\* frame l of st, with no other service for the application of u between.
IsCall(st, j, q, x) == st[j].what = "call" /\ st[j].peer = q /\ st[j].id = x

HasCall(st, q, x) == \E j \in 1..Len(st) : IsCall(st, j, q, x)

Within(st, l, u, x) ==
    \E k \in 1..l - 1 : /\ st[k].what = "serve" /\ st[k].id = x /\ st[k].thread = u
                        /\ \A i \in k + 1..l - 1 : st[i].what # "call" => st[i].peer # Home[u]

\* The call y to u's application is made in the course of serving u's call x.
Under(st, u, y, x) == \E l \in 1..Len(st) : IsCall(st, l, Home[u], y) /\ Within(st, l, u, x)

Waits(t, q, x) == InCall(t) /\ Top(t).peer = q /\ Top(t).id = x

-----------------------------------------------------------------------------
\* A request is of the call its sender waits in; if it is for a thread, that thread
\* waits in a call which the sender serves; a response is for the call its
\* addressee waits in.
Paired(q, m) ==
    /\ m.type = "request" /\ m.src \in up => Waits(m.from, q, m.id)
    /\ m.type = "request" /\ m.to # None =>
           /\ InCall(m.to) /\ Top(m.to).peer = m.src
           /\ m.src \in up => Within(stack[m.from], Len(stack[m.from]), m.to, Top(m.to).id)
    /\ m.type = "response" => Waits(m.to, m.src, m.id)

AllPaired == \A q \in Procs : \A m \in Coming(q) : Paired(q, m)

\* Nobody is sent two things at a time.
Single == \A q \in Procs : \A m, n \in Coming(q) : m.to # None /\ m.to = n.to => m = n

\* Who is served is in the call.
Serving ==
    \A s \in Threads : \A k \in 1..Len(stack[s]) :
        stack[s][k].what = "serve" /\ stack[s][k].peer \in up =>
            HasCall(stack[stack[s][k].thread], Home[s], stack[s][k].id)

\* What a thread serves in the course of a call comes from the application called,
\* out of the service of that call.
Nests(u, j) ==
    /\ stack[u][j + 1].what = "serve" /\ stack[u][j + 1].peer = stack[u][j].peer
    /\ stack[u][j].peer \in up =>
           Under(stack[stack[u][j + 1].thread], u, stack[u][j + 1].id, stack[u][j].id)

Nest == \A u \in Threads : \A j \in 1..Len(stack[u]) - 1 :
            stack[u][j].what = "call" => Nests(u, j)

\* The call x of t to q is on its way, or served, or answered.
Going(t, q, x) ==
    \/ \E m \in Coming(q) : m.type = "request" /\ m.id = x /\ m.from = t
    \/ \E m \in Coming(Home[t]) : m.type = "response" /\ m.id = x /\ m.to = t /\ m.src = q
    \/ \E s \in Threads : Home[s] = q /\ \E k \in 1..Len(stack[s]) :
           stack[s][k].what = "serve" /\ stack[s][k].id = x /\ stack[s][k].thread = t

Existence ==
    \A t \in Threads : \A i \in 1..Len(stack[t]) :
        stack[t][i].what = "call" /\ stack[t][i].peer \in up =>
            Going(t, stack[t][i].peer, stack[t][i].id)

Pairing == AllPaired /\ Single /\ Serving /\ Nest /\ Existence

-----------------------------------------------------------------------------
\* Stacks that grow and shrink

LEMMA WithinSame ==
    ASSUME NEW st, NEW st2, NEW l \in Nat, NEW u, NEW x, Within(st, l, u, x),
           \A k \in 1..l - 1 : st2[k] = st[k]
    PROVE  Within(st2, l, u, x)
<1>1. PICK k \in 1..l - 1 :
         /\ st[k].what = "serve" /\ st[k].id = x /\ st[k].thread = u
         /\ \A i \in k + 1..l - 1 : st[i].what # "call" => st[i].peer # Home[u]
  BY DEF Within
<1>2. \A i \in k + 1..l - 1 : i \in 1..l - 1
  OBVIOUS
<1> QED
  BY <1>1, <1>2 DEF Within

LEMMA CallsStay ==
    ASSUME NEW st \in Seq(Frame), NEW f \in Frame
    PROVE  /\ \A q, x : HasCall(st, q, x) => HasCall(Append(st, f), q, x)
           /\ \A u, y, x : Under(st, u, y, x) => Under(Append(st, f), u, y, x)
<1>1. /\ Len(st) \in Nat /\ Len(Append(st, f)) = Len(st) + 1
      /\ \A k \in 1..Len(st) : Append(st, f)[k] = st[k]
  BY AppendToSeq
<1> PICK st2 : st2 = Append(st, f)
  OBVIOUS
<1>2. ASSUME NEW q, NEW x, HasCall(st, q, x) PROVE HasCall(st2, q, x)
  <2>1. PICK j \in 1..Len(st) : IsCall(st, j, q, x)
    BY <1>2 DEF HasCall
  <2>2. j \in 1..Len(st2) /\ IsCall(st2, j, q, x)
    BY <1>1, <2>1 DEF IsCall
  <2> QED
    BY <2>2 DEF HasCall
<1>3. ASSUME NEW u, NEW y, NEW x, Under(st, u, y, x) PROVE Under(st2, u, y, x)
  <2>1. PICK l \in 1..Len(st) : IsCall(st, l, Home[u], y) /\ Within(st, l, u, x)
    BY <1>3 DEF Under
  <2>2. l \in Nat /\ l \in 1..Len(st2) /\ IsCall(st2, l, Home[u], y)
        /\ \A k \in 1..l - 1 : st2[k] = st[k]
    BY <1>1, <2>1 DEF IsCall
  <2>3. Within(st2, l, u, x)
    BY <2>1, <2>2, WithinSame
  <2> QED
    BY <2>2, <2>3 DEF Under
<1> QED
  BY <1>2, <1>3

LEMMA CallsLeft ==
    ASSUME NEW st \in Seq(Frame), st # <<>>, NEW y, Last(st).what = "call" => Last(st).id # y
    PROVE  /\ \A q : HasCall(st, q, y) => HasCall(Front(st), q, y)
           /\ \A u, x : Under(st, u, y, x) => Under(Front(st), u, y, x)
<1>1. /\ Len(st) \in Nat \ {0} /\ Len(Front(st)) = Len(st) - 1 /\ Last(st) = st[Len(st)]
      /\ \A k \in 1..Len(st) - 1 : Front(st)[k] = st[k]
  BY EndsOfSeq
<1> PICK st2 : st2 = Front(st)
  OBVIOUS
<1>2. ASSUME NEW q, NEW j \in 1..Len(st), IsCall(st, j, q, y)
      PROVE  j \in Nat /\ j \in 1..Len(st2) /\ IsCall(st2, j, q, y) /\ \A k \in 1..j - 1 : st2[k] = st[k]
  <2>1. j # Len(st)
    BY <1>1, <1>2 DEF IsCall
  <2>2. j \in Nat /\ j \in 1..Len(st2) /\ j \in 1..Len(st) - 1
    BY <1>1, <2>1
  <2> QED
    BY <1>1, <1>2, <2>2 DEF IsCall
<1>3. ASSUME NEW q, HasCall(st, q, y) PROVE HasCall(st2, q, y)
  BY <1>2, <1>3 DEF HasCall
<1>4. ASSUME NEW u, NEW x, Under(st, u, y, x) PROVE Under(st2, u, y, x)
  <2>1. PICK l \in 1..Len(st) : IsCall(st, l, Home[u], y) /\ Within(st, l, u, x)
    BY <1>4 DEF Under
  <2>2. l \in Nat /\ l \in 1..Len(st2) /\ IsCall(st2, l, Home[u], y) /\ \A k \in 1..l - 1 : st2[k] = st[k]
    BY <1>2, <2>1
  <2>3. Within(st2, l, u, x)
    BY <2>1, <2>2, WithinSame
  <2> QED
    BY <2>2, <2>3 DEF Under
<1> QED
  BY <1>3, <1>4

-----------------------------------------------------------------------------
\* What a step leaves as it was.

Alike(t) == stack'[t] = stack[t] /\ (InCall(t)' <=> InCall(t))

LEMMA PairedKept ==
    ASSUME NEW q, NEW m, Paired(q, m), up' \subseteq up,
           m.type = "request" /\ m.src \in up' => Alike(m.from),
           m.to # None => Alike(m.to),
           m.type = "response" => m.to # None
    PROVE  Paired(q, m)'
  BY DEF Paired, Waits, Top, Alike

\* Services: those there are were there before, and the calls served still are.
LEMMA ServingKept ==
    ASSUME Serving, up' \subseteq up,
           \A s \in Threads : \A k \in 1..Len(stack'[s]) :
               stack'[s][k].what = "serve" /\ stack'[s][k].peer \in up' =>
                   /\ k \in 1..Len(stack[s]) /\ stack'[s][k] = stack[s][k]
                   /\ HasCall(stack[stack[s][k].thread], Home[s], stack[s][k].id) =>
                          HasCall(stack'[stack[s][k].thread], Home[s], stack[s][k].id)
    PROVE  Serving'
  BY DEF Serving

LEMMA NestsKept ==
    ASSUME NEW u, NEW j, Nests(u, j), up' \subseteq up,
           stack'[u][j] = stack[u][j], stack'[u][j + 1] = stack[u][j + 1],
           stack'[u][j].peer \in up' =>
               (Under(stack[stack[u][j + 1].thread], u, stack[u][j + 1].id, stack[u][j].id) =>
                    Under(stack'[stack[u][j + 1].thread], u, stack[u][j + 1].id, stack[u][j].id))
    PROVE  Nests(u, j)'
  BY DEF Nests
-----------------------------------------------------------------------------
\* What is known of a message on its way.

LEMMA ComingFits ==
    ASSUME Delivery, NEW q, NEW m \in Coming(q)
    PROVE  /\ m \in Message /\ m.type \in {"request", "response"} /\ InBoxes(m.id)
           /\ m.from \in Threads /\ m.src \in Procs /\ Home[m.from] = m.src /\ m.src # q
           /\ m.to # None => m.to \in Threads /\ Home[m.to] = q
           /\ m.type = "response" => m.to # None
<1>1. Nesting /\ TypeOK /\ Addressed
  BY StackMode DEF Delivery
<1>2. m \in Message /\ Sync(m) /\ InBoxes(m.id)
  BY ComingInBoxes
<1>3. PICK b \in Boxes : Dest(b) = q /\ \E i \in 1..Len(Box(b)) : Box(b)[i] = m
  BY DEF Coming
<1>4. Fits(b, m)
  BY <1>1, <1>2, <1>3 DEF Addressed
<1>5. /\ m.type \in {"request", "post", "response"} /\ m.from \in Threads /\ m.src \in Procs
      /\ m.to \in Threads \cup {None}
  BY <1>2 DEF Message
<1>6. m.type # "post"
  BY <1>2 DEF Sync
<1> QED
  BY <1>2, <1>3, <1>4, <1>5, <1>6 DEF Fits

\* The top of a stack: a call while its thread waits, a service while it does not.
LEMMA TopOfStack ==
    ASSUME Nesting, NEW t \in Threads, stack[t] # <<>>
    PROVE  /\ Len(stack[t]) \in Nat \ {0} /\ Len(stack[t]) \in 1..Len(stack[t])
           /\ Top(t) = stack[t][Len(stack[t])]
           /\ Top(t).what = "call" <=> InCall(t)
<1>1. stack[t] \in Seq(Frame) /\ (InCall(t) <=> Top(t).what = "call")
  BY StackMode
<1>2. Len(stack[t]) \in Nat \ {0} /\ Top(t) = stack[t][Len(stack[t])]
  BY <1>1, EndsOfSeq DEF Top
<1>3. Len(stack[t]) \in 1..Len(stack[t])
  BY <1>2
<1> QED
  BY <1>1, <1>2, <1>3

\* Whom a thread serves, of those it serves in the application of u the innermost,
\* waits in that very call, and nothing is on its way to it.
LEMMA ServedWaits ==
    ASSUME Delivery, Pairing, NEW s \in Threads, Home[s] \in up, ~InCall(s),
           NEW k \in 1..Len(stack[s]), NEW u, stack[s][k].thread = u,
           stack[s][k].what = "serve", stack[s][k].peer \in up,
           \A i \in k + 1..Len(stack[s]) : stack[s][i].what # "call" => stack[s][i].peer # Home[u]
    PROVE  /\ u \in Threads /\ u # s /\ Waits(u, Home[s], stack[s][k].id)
           /\ \A q \in Procs : \A m \in Coming(q) : m.to # u
<1>1. /\ Nesting /\ TypeOK /\ Framed /\ FramesOnce /\ Served
      /\ AllPaired /\ Serving /\ Nest
  BY StackMode DEF Delivery, Pairing
<1> PICK x : x = stack[s][k].id
  OBVIOUS
<1>2. /\ u \in Threads /\ stack[s][k].peer = Home[u] /\ Home[u] # Home[s]
  BY <1>1, FrameTyped DEF Framed, FrameFits
<1>3. PICK j \in 1..Len(stack[u]) : IsCall(stack[u], j, Home[s], x)
  BY <1>1 DEF Serving, HasCall
<1>4. /\ stack[u] # <<>> /\ Len(stack[u]) \in 1..Len(stack[u]) /\ Top(u) = stack[u][Len(stack[u])]
      /\ Top(u).what = "call" <=> InCall(u)
  BY <1>1, <1>2, <1>3, TopOfStack
<1>5. /\ stack[s] # <<>> /\ Len(stack[s]) \in Nat \ {0}
      /\ stack[s][Len(stack[s])].what # "call"
  BY <1>1, TopOfStack
<1>6. ASSUME NEW w \in Threads, NEW i \in 1..Len(stack[w]),
             stack[w][i].what = "serve", stack[w][i].id = x
      PROVE  w = s /\ i = k
  BY <1>1, <1>6 DEF FramesOnce
<1>7. j = Len(stack[u])
  <2> SUFFICES ASSUME j # Len(stack[u]) PROVE FALSE
    OBVIOUS
  <2>1. j \in 1..Len(stack[u]) - 1 /\ j + 1 \in 1..Len(stack[u])
    BY <1>4
  <2>2. Nests(u, j) /\ stack[u][j].peer = Home[s] /\ stack[u][j].id = x
    BY <1>1, <1>2, <1>3, <2>1 DEF Nest, IsCall
  <2> PICK w, y : w = stack[u][j + 1].thread /\ y = stack[u][j + 1].id
    OBVIOUS
  <2>3. w \in Threads /\ Under(stack[w], u, y, x)
    <3>1. stack[u][j + 1].what # "call" /\ Under(stack[w], u, y, x)
      BY <2>2 DEF Nests
    <3> QED
      BY <1>1, <1>2, <2>1, <3>1, FrameTyped
  <2>4. PICK l \in 1..Len(stack[w]) : IsCall(stack[w], l, Home[u], y) /\ Within(stack[w], l, u, x)
    BY <2>3 DEF Under
  <2>5. PICK i \in 1..l - 1 : stack[w][i].what = "serve" /\ stack[w][i].id = x
    BY <2>4 DEF Within
  <2>6. Len(stack[w]) \in Nat /\ i \in 1..Len(stack[w])
    <3>1. Len(stack[w]) \in Nat
      BY <1>1, <2>3, FrameTyped
    <3>2. l \in Int /\ i \in Int
      BY <2>4, <2>5, <3>1
    <3> QED
      BY <2>4, <2>5, <3>1, <3>2
  <2>7. w = s /\ i = k
    BY <1>6, <2>3, <2>5, <2>6
  <2>8. stack[s][l].what = "call" /\ stack[s][l].peer = Home[u]
    BY <2>4, <2>7 DEF IsCall
  <2>9. l \in 1..Len(stack[s]) - 1 /\ l + 1 \in k + 1..Len(stack[s])
    <3>1. l # Len(stack[s]) /\ l \in 1..Len(stack[s]) /\ k \in 1..l - 1
      BY <1>5, <2>4, <2>5, <2>7, <2>8
    <3> QED
      BY <1>5, <3>1
  <2>10. stack[s][l + 1].what = "serve" /\ stack[s][l + 1].peer = Home[u]
    BY <1>1, <2>8, <2>9 DEF Nest, Nests
  <2> QED
    BY <2>9, <2>10
<1>8. InCall(u) /\ Top(u).peer = Home[s] /\ Top(u).id = x
  BY <1>3, <1>4, <1>7 DEF IsCall
<1>9. ASSUME NEW q \in Procs, NEW m \in Coming(q), m.to = u PROVE FALSE
  <2>1. /\ Paired(q, m) /\ m.type \in {"request", "response"} /\ InBoxes(m.id)
        /\ m.from \in Threads /\ m.to # None
    BY <1>1, <1>2, <1>9, ComingFits, DispatchAssumption DEF AllPaired
  <2>2. CASE m.type = "response"
    <3>1. m.id = x
      BY <1>8, <1>9, <2>1, <2>2 DEF Paired, Waits
    <3> QED
      BY <1>1, <2>1, <3>1 DEF Served
  <2>3. CASE m.type = "request"
    <3>1. m.src = Home[s] /\ Within(stack[m.from], Len(stack[m.from]), u, x) /\ InCall(m.from)
      BY <1>8, <1>9, <2>1, <2>3 DEF Paired, Waits
    <3>2. PICK i \in 1..Len(stack[m.from]) - 1 :
             stack[m.from][i].what = "serve" /\ stack[m.from][i].id = x
      BY <3>1 DEF Within
    <3>3. i \in 1..Len(stack[m.from])
      BY <1>1, <2>1, <3>2, StackMode
    <3>4. m.from = s
      BY <1>6, <2>1, <3>2, <3>3
    <3> QED
      BY <3>1, <3>4
  <2> QED
    BY <2>1, <2>2, <2>3
<1> QED
  BY <1>2, <1>8, <1>9 DEF Waits
\* Whoever a thread addresses, but for those it serves asynchronously, waits for it.
LEMMA AddresseeWaits ==
    ASSUME Delivery, Pairing, NEW t \in Threads, NEW q \in up, Home[t] \in up, ~InCall(t),
           ~ServesPostOf(t, q), NEW u, u = channel[t][q], u # None
    PROVE  /\ Home[u] = q /\ u \in Threads /\ u # t
           /\ \A r \in Procs : \A n \in Coming(r) : n.to # u
           /\ \E k \in 1..Len(stack[t]) :
                 /\ Waits(u, Home[t], stack[t][k].id)
                 /\ stack[t][k].what = "serve" /\ stack[t][k].thread = u
                 /\ \A i \in k + 1..Len(stack[t]) : stack[t][i].what # "call" => stack[t][i].peer # q
<1>1. TypeOK /\ Framed /\ Channels /\ up \subseteq Procs
  BY StackMode DEF Delivery
<1>2. Latest(stack[t], Len(stack[t]), q, u)
  BY <1>1 DEF Channels, AddressesIn
<1>3. PICK k \in 1..Len(stack[t]) :
         /\ stack[t][k].what # "call" /\ stack[t][k].peer = q /\ stack[t][k].thread = u
         /\ \A i \in k + 1..Len(stack[t]) : stack[t][i].what # "call" => stack[t][i].peer # q
  BY <1>2 DEF Latest
<1>4. Home[u] = q
  BY <1>1, <1>3 DEF Framed, FrameFits
<1>5. stack[t][k].what = "serve"
  <2>1. stack[t][k].what \in {"call", "serve", "serveAsync"} /\ k \in DOMAIN stack[t]
    <3>1. DOMAIN stack[t] = 1..Len(stack[t])
      BY <1>1 DEF TypeOK
    <3> QED
      BY <1>1, <1>3, <3>1, FrameTyped
  <2> QED
    BY <1>3, <2>1 DEF ServesPostOf
<1>6. /\ u \in Threads /\ u # t /\ Waits(u, Home[t], stack[t][k].id)
      /\ \A r \in Procs : \A n \in Coming(r) : n.to # u
  BY <1>3, <1>4, <1>5, ServedWaits
<1> QED
  BY <1>3, <1>4, <1>5, <1>6

-----------------------------------------------------------------------------
\* Each step keeps Pairing.

LEMMA SendingComes ==
    ASSUME TypeOK, NEW p \in Procs, NEW q \in Procs, NEW m \in Message, Sends(p, q, m)
    PROVE  \A r : Coming(r)' = IF Sync(m) /\ r = q /\ q \in up THEN Coming(r) \cup {m} ELSE Coming(r)
<1> SUFFICES ASSUME NEW r
             PROVE  Coming(r)' = IF Sync(m) /\ r = q /\ q \in up THEN Coming(r) \cup {m} ELSE Coming(r)
  OBVIOUS
<1>1. CASE q \in up
  <2> PICK b : b = WireBox(p, q)
    OBVIOUS
  <2>1. b \in Boxes /\ Dest(b) = q
    BY WireBoxes
  <2>2. Adds(b, m)
    BY <1>1 DEF Sends
  <2>3. Coming(r)' = IF Sync(m) /\ r = Dest(b) THEN Coming(r) \cup {m} ELSE Coming(r)
    BY <2>1, <2>2, ComingAdding
  <2> QED
    BY <1>1, <2>1, <2>3
<1>2. CASE q \notin up
  BY <1>2, ComingKept DEF Sends
<1> QED
  BY <1>1, <1>2

\* A call that is on its way, served or answered, and still is.
LEMMA GoingKept ==
    ASSUME NEW t, NEW q, NEW x, Going(t, q, x),
           \A m \in Coming(q) : m.type = "request" /\ m.id = x /\ m.from = t => m \in Coming(q)',
           \A m \in Coming(Home[t]) : m.type = "response" /\ m.id = x => m \in Coming(Home[t])',
           \A s \in Threads : \A k \in 1..Len(stack[s]) :
               stack[s][k].what = "serve" /\ stack[s][k].id = x /\ Home[s] = q =>
                   k \in 1..Len(stack'[s]) /\ stack'[s][k] = stack[s][k]
    PROVE  Going(t, q, x)'
<1>1. CASE \E m \in Coming(q) : m.type = "request" /\ m.id = x /\ m.from = t
  <2>1. \E m \in Coming(q)' : m.type = "request" /\ m.id = x /\ m.from = t
    BY <1>1
  <2> QED
    BY <2>1 DEF Going
<1>2. CASE \E m \in Coming(Home[t]) :
              m.type = "response" /\ m.id = x /\ m.to = t /\ m.src = q
  <2>1. \E m \in Coming(Home[t])' : m.type = "response" /\ m.id = x /\ m.to = t /\ m.src = q
    BY <1>2
  <2> QED
    BY <2>1 DEF Going
<1>3. CASE \E s \in Threads : Home[s] = q /\ \E k \in 1..Len(stack[s]) :
              stack[s][k].what = "serve" /\ stack[s][k].id = x /\ stack[s][k].thread = t
  <2>1. PICK s \in Threads : Home[s] = q /\ \E k \in 1..Len(stack[s]) :
              stack[s][k].what = "serve" /\ stack[s][k].id = x /\ stack[s][k].thread = t
    BY <1>3
  <2>2. PICK k \in 1..Len(stack[s]) :
              stack[s][k].what = "serve" /\ stack[s][k].id = x /\ stack[s][k].thread = t
    BY <2>1
  <2>3. k \in 1..Len(stack'[s]) /\ stack'[s][k] = stack[s][k]
    BY <2>1, <2>2
  <2> QED
    BY <2>1, <2>2, <2>3 DEF Going
<1> QED
  BY <1>1, <1>2, <1>3 DEF Going

LEMMA SingleSending ==
    ASSUME Single, NEW q \in Procs, NEW m,
           \A r \in Procs : Coming(r)' \subseteq (IF r = q THEN Coming(r) \cup {m} ELSE Coming(r)),
           (m.to # None /\ \E r \in Procs : m \in Coming(r)' /\ m \notin Coming(r)) =>
               \A n \in Coming(q) : n.to # m.to
    PROVE  Single'
<1> SUFFICES ASSUME NEW r \in Procs, NEW a, NEW n, a \in Coming(r)', n \in Coming(r)',
                    a.to # None, a.to = n.to
             PROVE  a = n
  BY DEF Single, Coming
<1>1. (a \in Coming(r) /\ n \in Coming(r)) => a = n
  BY DEF Single
<1>2. (a \notin Coming(r) => a = m /\ r = q) /\ (n \notin Coming(r) => n = m /\ r = q)
  OBVIOUS
<1> QED
  BY <1>1, <1>2

LEMMA CallPairs ==
    ASSUME Delivery, Pairing, Good', NEW t \in Threads, NEW q \in Procs, Call(t, q)
    PROVE  Pairing'
<1> PICK f, m : f = Asking(t, q) /\ m = Request(t, q, "request")
  OBVIOUS
<1>1. /\ Nesting /\ TypeOK /\ Framed /\ FramesOnce /\ Served /\ Channels
      /\ AllPaired /\ Single /\ Serving /\ Nest /\ Existence
      /\ stack \in [Threads -> Seq(Frame)] /\ Home[t] \in Procs
  BY StackMode DEF Delivery, Pairing
<1>2. /\ Home[t] \in up /\ ~InCall(t) /\ q # Home[t] /\ f \in Frame /\ Pushes(t, f)
      /\ m \in Message /\ Sends(Home[t], q, m) /\ InCall(t)'
      /\ \A u \in Threads : u # t => (InCall(u)' <=> InCall(u))
      /\ ~ServesPostOf(t, q) /\ calls' = calls + 1
      /\ UNCHANGED up
  BY <1>1, CallEffects DEF Good
<1>3. /\ f.what = "call" /\ f.peer = q /\ f.id = calls + 1
      /\ m.type = "request" /\ m.src = Home[t] /\ m.from = t /\ m.to = channel[t][q]
      /\ m.id = calls + 1 /\ Sync(m)
  BY <1>2 DEF Asking, Request, Sync
<1>4. \A r : Coming(r)' = IF r = q /\ q \in up THEN Coming(r) \cup {m} ELSE Coming(r)
  BY <1>1, <1>2, <1>3, SendingComes
<1>5. /\ Len(stack'[t]) = Len(stack[t]) + 1 /\ stack'[t][Len(stack[t]) + 1] = f
      /\ stack'[t] # <<>> /\ Top(t)' = f /\ Len(stack[t]) \in Nat
      /\ stack'[t] = Append(stack[t], f)
      /\ \A u \in Threads : u # t => stack'[u] = stack[u]
      /\ \A u \in Threads : \A k \in 1..Len(stack[u]) :
             k \in 1..Len(stack'[u]) /\ stack'[u][k] = stack[u][k]
      /\ \A u \in Threads : \A k \in 1..Len(stack'[u]) :
             k \in 1..Len(stack[u]) \/ (u = t /\ k = Len(stack[t]) + 1)
  <2>1. stack'[t] = Append(stack[t], f) /\ Len(stack[t]) \in Nat
    BY <1>1, <1>2, StackMode DEF Pushes
  <2>2. Top(t)' = Last(stack'[t])
    BY DEF Top
  <2> QED
    BY <1>1, <1>2, <2>1, <2>2, AfterPushing
<1>6. \A u \in Threads : u # t => Alike(u)
  BY <1>2, <1>5 DEF Alike
<1>7. /\ \A w \in Threads : \A p, x : HasCall(stack[w], p, x) => HasCall(stack'[w], p, x)
      /\ \A w \in Threads : \A u, y, x : Under(stack[w], u, y, x) => Under(stack'[w], u, y, x)
  <2> SUFFICES ASSUME NEW w \in Threads
               PROVE  /\ \A p, x : HasCall(stack[w], p, x) => HasCall(stack'[w], p, x)
                      /\ \A u, y, x : Under(stack[w], u, y, x) => Under(stack'[w], u, y, x)
    OBVIOUS
  <2>1. stack[w] \in Seq(Frame)
    BY <1>1
  <2>2. CASE w = t
    BY <1>2, <1>5, <2>1, <2>2, CallsStay
  <2>3. CASE w # t
    BY <1>5, <2>3
  <2> QED
    BY <2>2, <2>3
\* The request finds its addressee waiting.
<1>8. ASSUME q \in up, m.to # None
      PROVE  /\ m.to \in Threads /\ m.to # t /\ InCall(m.to) /\ Top(m.to).peer = Home[t]
             /\ Within(stack'[t], Len(stack'[t]), m.to, Top(m.to).id)
             /\ \A r \in Procs : \A n \in Coming(r) : n.to # m.to
  <2> PICK u : u = m.to
    OBVIOUS
  <2>1. /\ Home[u] = q /\ u \in Threads /\ u # t
        /\ \A r \in Procs : \A n \in Coming(r) : n.to # u
        /\ \E k \in 1..Len(stack[t]) :
              /\ Waits(u, Home[t], stack[t][k].id)
              /\ stack[t][k].what = "serve" /\ stack[t][k].thread = u
              /\ \A i \in k + 1..Len(stack[t]) : stack[t][i].what # "call" => stack[t][i].peer # q
    BY <1>2, <1>3, <1>8, AddresseeWaits
  <2>2. PICK k \in 1..Len(stack[t]) :
           /\ Waits(u, Home[t], stack[t][k].id)
           /\ stack[t][k].what = "serve" /\ stack[t][k].thread = u
           /\ \A i \in k + 1..Len(stack[t]) : stack[t][i].what # "call" => stack[t][i].peer # q
    BY <2>1
  <2> PICK x : x = stack[t][k].id
    OBVIOUS
  <2>5. Within(stack'[t], Len(stack'[t]), u, x)
    <3>1. k \in 1..Len(stack'[t]) - 1 /\ Len(stack'[t]) - 1 = Len(stack[t])
      BY <1>5
    <3>2. \A i \in 1..Len(stack[t]) : stack'[t][i] = stack[t][i]
      BY <1>5
    <3>3. stack'[t][k].what = "serve" /\ stack'[t][k].id = x /\ stack'[t][k].thread = u
      BY <2>2, <3>2
    <3>4. ASSUME NEW i \in k + 1..Len(stack'[t]) - 1, stack'[t][i].what # "call"
          PROVE  stack'[t][i].peer # Home[u]
      <4>1. i \in k + 1..Len(stack[t]) /\ i \in 1..Len(stack[t])
        BY <1>5, <3>1
      <4> QED
        BY <2>1, <2>2, <3>2, <3>4, <4>1
    <3> QED
      BY <3>1, <3>3, <3>4 DEF Within
  <2> QED
    BY <2>1, <2>2, <2>5 DEF Waits
<1>9. AllPaired'
  <2> SUFFICES ASSUME NEW r \in Procs, NEW n, n \in Coming(r)' PROVE Paired(r, n)'
    BY DEF AllPaired, Coming
  <2>1. CASE n \in Coming(r)
    <3>1. /\ n.from \in Threads /\ Home[n.from] = n.src /\ (n.to # None => n.to \in Threads)
          /\ (n.type = "response" => n.to # None) /\ n.type \in {"request", "response"}
      BY <2>1, ComingFits
    <3>2. Paired(r, n)
      BY <1>1, <2>1 DEF AllPaired
    <3>3. n.to # t
      BY <1>2, <3>1, <3>2, DispatchAssumption DEF Paired, Waits
    <3>4. n.type = "request" /\ n.src \in up => n.from # t
      BY <1>2, <3>2 DEF Paired, Waits
    <3> QED
      BY <1>2, <1>6, <3>1, <3>2, <3>3, <3>4, PairedKept
  <2>2. CASE n \notin Coming(r)
    <3>1. n = m /\ r = q /\ q \in up
      BY <1>4, <2>2
    <3>2. Waits(n.from, q, n.id)'
      BY <1>2, <1>3, <1>5, <3>1 DEF Waits
    <3>3. ASSUME n.to # None
          PROVE  /\ InCall(n.to)' /\ Top(n.to)'.peer = n.src
                 /\ Within(stack'[n.from], Len(stack'[n.from]), n.to, Top(n.to)'.id)
      <4>1. Alike(n.to)
        BY <1>6, <1>8, <3>1, <3>3
      <4> QED
        BY <1>3, <1>8, <3>1, <3>3, <4>1 DEF Alike, Top
    <3> QED
      BY <1>3, <3>1, <3>2, <3>3 DEF Paired
  <2> QED
    BY <2>1, <2>2
<1>10. Single'
  <2>1. \A r \in Procs : Coming(r)' \subseteq (IF r = q THEN Coming(r) \cup {m} ELSE Coming(r))
    BY <1>4
  <2>2. ASSUME m.to # None, NEW r \in Procs, m \in Coming(r)', m \notin Coming(r), NEW n \in Coming(q)
        PROVE  n.to # m.to
    BY <1>4, <1>8, <2>2
  <2> QED
    BY <1>1, <2>1, <2>2, SingleSending
<1>11. Serving'
  <2> SUFFICES ASSUME NEW s \in Threads, NEW k \in 1..Len(stack'[s]), stack'[s][k].what = "serve"
               PROVE  /\ k \in 1..Len(stack[s]) /\ stack'[s][k] = stack[s][k]
                      /\ HasCall(stack[stack[s][k].thread], Home[s], stack[s][k].id) =>
                             HasCall(stack'[stack[s][k].thread], Home[s], stack[s][k].id)
    BY <1>1, <1>2, ServingKept
  <2>1. k \in 1..Len(stack[s]) /\ stack'[s][k] = stack[s][k]
    BY <1>3, <1>5
  <2>2. stack[s][k].thread \in Threads
    BY <1>1, <2>1, FrameTyped
  <2> QED
    BY <1>7, <2>1, <2>2
<1>12. Nest'
  <2> SUFFICES ASSUME NEW u \in Threads, NEW j \in 1..Len(stack'[u]) - 1, stack'[u][j].what = "call"
               PROVE  Nests(u, j)'
    BY DEF Nest
  <2>1. j \in 1..Len(stack[u]) - 1
    <3>1. CASE u # t
      BY <1>5, <3>1
    <3>2. CASE u = t
      <4>1. j \in 1..Len(stack[t]) /\ stack[t][j].what = "call" /\ stack[t] # <<>>
        BY <1>5, <3>2
      <4>2. j # Len(stack[t])
        BY <1>1, <1>2, <4>1, TopOfStack
      <4> QED
        BY <1>5, <3>2, <4>1, <4>2
    <3> QED
      BY <3>1, <3>2
  <2>2. Len(stack[u]) \in Nat /\ j \in 1..Len(stack[u]) /\ j + 1 \in 1..Len(stack[u])
    BY <1>1, <2>1, StackMode
  <2>3. stack'[u][j] = stack[u][j] /\ stack'[u][j + 1] = stack[u][j + 1]
    BY <1>5, <2>2
  <2>4. Nests(u, j) /\ stack[u][j + 1].thread \in Threads
    <3>1. Nests(u, j)
      BY <1>1, <2>1, <2>3 DEF Nest
    <3>2. stack[u][j + 1].what # "call"
      BY <3>1 DEF Nests
    <3> QED
      BY <1>1, <2>2, <3>1, <3>2, FrameTyped
  <2> QED
    BY <1>2, <1>7, <2>3, <2>4, NestsKept
<1>13. Existence'
  <2> SUFFICES ASSUME NEW u \in Threads, NEW i \in 1..Len(stack'[u]), NEW g, g = stack'[u][i],
                      g.what = "call", g.peer \in up, NEW p, NEW x, p = g.peer, x = g.id
               PROVE  Going(u, p, x)'
    BY <1>2 DEF Existence
  <2>1. CASE i \in 1..Len(stack[u])
    <3>1. g = stack[u][i]
      BY <1>5, <2>1
    <3>2. Going(u, p, x)
      BY <1>1, <2>1, <3>1 DEF Existence
    <3>3. \A r : Coming(r) \subseteq Coming(r)'
      BY <1>4
    <3> QED
      BY <1>5, <3>2, <3>3, GoingKept
  <2>2. CASE u = t /\ i = Len(stack[t]) + 1
    <3>1. p = q /\ x = m.id /\ m \in Coming(q)'
      BY <1>3, <1>4, <1>5, <2>2
    <3> QED
      BY <1>3, <2>2, <3>1 DEF Going
  <2> QED
    BY <1>5, <2>1, <2>2
<1> QED
  BY <1>9, <1>10, <1>11, <1>12, <1>13 DEF Pairing

\* A call is left: its answer is taken, or there is none and will be none.
LEMMA ReturnPairs ==
    ASSUME Delivery, Pairing, NEW t \in Threads, InCall(t), Pops(t), ~InCall(t)',
           \A u \in Threads : u # t => (InCall(u)' <=> InCall(u)), UNCHANGED up,
           NEW x, x = Top(t).id,
           \A r : Coming(r)' \subseteq Coming(r),
           \A r \in Procs : \A m \in Coming(r) :
               m \notin Coming(r)' => m.type = "response" /\ m.id = x,
           \A r \in Procs : \A m \in Coming(r)' :
               m.to # t /\ (m.type = "request" => m.from # t),
           \A s \in Threads : \A k \in 1..Len(stack[s]) :
               stack[s][k].what = "serve" /\ stack[s][k].peer \in up => stack[s][k].id # x
    PROVE  Pairing'
<1> DEFINE n == Len(stack[t])
<1>1. /\ Nesting /\ TypeOK /\ Framed /\ FramesOnce /\ Served
      /\ AllPaired /\ Single /\ Serving /\ Nest /\ Existence
      /\ stack \in [Threads -> Seq(Frame)] /\ up \subseteq Procs /\ \A u \in Threads : Home[u] \in Procs
  BY StackMode DEF Delivery, Pairing
<1>2. /\ n \in Nat \ {0} /\ Len(stack'[t]) = n - 1 /\ n \in 1..n
      /\ stack[t][n] = Top(t) /\ Top(t).what = "call" /\ Top(t).id = x /\ stack[t] # <<>>
      /\ \A u \in Threads : u # t => stack'[u] = stack[u]
      /\ \A u \in Threads : \A k \in 1..Len(stack'[u]) :
             /\ k \in 1..Len(stack[u]) /\ stack'[u][k] = stack[u][k]
             /\ u = t => k # n
      /\ \A u \in Threads : \A k \in 1..Len(stack[u]) :
             k \in 1..Len(stack'[u]) \/ (u = t /\ k = n)
  <2>1. stack[t] # <<>>
    BY DEF Pops
  <2>2. n \in Nat \ {0} /\ n \in 1..n /\ Top(t).what = "call"
    BY <1>1, <2>1, TopOfStack
  <2> QED
    BY <1>1, <2>1, <2>2, AfterPopping
<1> HIDE DEF n
<1>3. \A u \in Threads : u # t => Alike(u)
  BY <1>2 DEF Alike
<1>4. \A u \in Threads : \A k \in 1..Len(stack[u]) :
          stack[u][k].what = "call" /\ stack[u][k].id = x => u = t /\ k = n
  <2>1. n \in 1..Len(stack[t])
    BY <1>2 DEF n
  <2> QED
    BY <1>1, <1>2, <2>1 DEF FramesOnce
<1>5. ASSUME NEW w \in Threads, NEW y, y # x
      PROVE  /\ \A p : HasCall(stack[w], p, y) => HasCall(stack'[w], p, y)
             /\ \A u, z : Under(stack[w], u, y, z) => Under(stack'[w], u, y, z)
  <2>1. CASE w = t
    <3>1. /\ stack[t] \in Seq(Frame) /\ stack[t] # <<>> /\ stack'[t] = Front(stack[t])
          /\ Last(stack[t]).id # y
      BY <1>1, <1>2, <1>5 DEF Pops, Pop, Top
    <3> QED
      BY <2>1, <3>1, CallsLeft
  <2>2. CASE w # t
    BY <1>2, <2>2
  <2> QED
    BY <2>1, <2>2
<1>6. AllPaired'
  <2> SUFFICES ASSUME NEW r \in Procs, NEW m, m \in Coming(r)' PROVE Paired(r, m)'
    BY DEF AllPaired, Coming
  <2>1. m \in Coming(r) /\ m.to # t /\ (m.type = "request" => m.from # t)
    OBVIOUS
  <2>2. /\ m.from \in Threads /\ (m.to # None => m.to \in Threads)
        /\ (m.type = "response" => m.to # None)
    BY <2>1, ComingFits
  <2>3. Paired(r, m)
    BY <1>1, <2>1 DEF AllPaired
  <2> QED
    BY <1>3, <2>1, <2>2, <2>3, PairedKept
<1>7. Single'
  BY <1>1 DEF Single
<1>8. Serving'
  <2> SUFFICES ASSUME NEW s \in Threads, NEW k \in 1..Len(stack'[s]),
                      stack'[s][k].what = "serve", stack'[s][k].peer \in up
               PROVE  /\ k \in 1..Len(stack[s]) /\ stack'[s][k] = stack[s][k]
                      /\ HasCall(stack[stack[s][k].thread], Home[s], stack[s][k].id) =>
                             HasCall(stack'[stack[s][k].thread], Home[s], stack[s][k].id)
    BY <1>1, ServingKept
  <2>1. k \in 1..Len(stack[s]) /\ stack'[s][k] = stack[s][k]
    BY <1>2
  <2>2. stack[s][k].thread \in Threads /\ stack[s][k].id # x
    BY <1>1, <2>1, FrameTyped
  <2> QED
    BY <1>5, <2>1, <2>2
<1>9. Nest'
  <2> SUFFICES ASSUME NEW u \in Threads, NEW j \in 1..Len(stack'[u]) - 1, stack'[u][j].what = "call"
               PROVE  Nests(u, j)'
    BY DEF Nest
  <2>1. Len(stack'[u]) \in Nat /\ Len(stack[u]) \in Nat
    <3>1. CASE u = t
      BY <1>2, <3>1 DEF n
    <3>2. CASE u # t
      BY <1>1, <1>2, <3>2
    <3> QED
      BY <3>1, <3>2
  <2>2. j \in 1..Len(stack'[u]) /\ j + 1 \in 1..Len(stack'[u])
    BY <2>1
  <2>3. /\ stack'[u][j] = stack[u][j] /\ stack'[u][j + 1] = stack[u][j + 1]
        /\ j + 1 \in 1..Len(stack[u]) /\ j \in 1..Len(stack[u])
    BY <1>2, <2>2
  <2>4. j \in 1..Len(stack[u]) - 1
    BY <2>1, <2>3
  <2>5. /\ Nests(u, j) /\ stack[u][j + 1].what = "serve" /\ stack[u][j + 1].peer = stack[u][j].peer
        /\ stack[u][j + 1].thread \in Threads
    <3>1. Nests(u, j)
      BY <1>1, <2>3, <2>4 DEF Nest
    <3>2. stack[u][j + 1].what = "serve" /\ stack[u][j + 1].peer = stack[u][j].peer
      BY <3>1 DEF Nests
    <3> QED
      BY <1>1, <2>3, <3>1, <3>2, FrameTyped
  <2>6. stack[u][j].peer \in up => stack[u][j + 1].id # x
    BY <2>3, <2>5
  <2> QED
    BY <1>5, <2>3, <2>5, <2>6, NestsKept
<1>10. Existence'
  <2> SUFFICES ASSUME NEW u \in Threads, NEW i \in 1..Len(stack'[u]), NEW g, g = stack'[u][i],
                      g.what = "call", g.peer \in up, NEW p, NEW y, p = g.peer, y = g.id
               PROVE  Going(u, p, y)'
    BY DEF Existence
  <2>1. i \in 1..Len(stack[u]) /\ g = stack[u][i] /\ y # x
    BY <1>2, <1>4
  <2>2. Going(u, p, y) /\ p \in Procs /\ Home[u] \in Procs
    BY <1>1, <2>1 DEF Existence
  <2>3. \A s \in Threads : \A k \in 1..Len(stack[s]) :
               stack[s][k].what = "serve" => k \in 1..Len(stack'[s]) /\ stack'[s][k] = stack[s][k]
    BY <1>2
  <2> QED
    BY <2>1, <2>2, <2>3, GoingKept
<1> QED
  BY <1>6, <1>7, <1>8, <1>9, <1>10 DEF Pairing

\* A request is taken to be served, in the course of a call or by the pump.
LEMMA ServePairs ==
    ASSUME Delivery, Pairing, NEW t \in Threads, NEW b, NEW m, StartsService(t, b, m),
           m.type = "request", InCall(t) => m.to = t, ~InCall(t) => stack[t] = <<>>
    PROVE  Pairing'
<1> PICK f : f = Servicing(t, m)
  OBVIOUS
<1>1. /\ Nesting /\ TypeOK /\ Framed /\ FramesOnce /\ Served /\ Once /\ Gone
      /\ AllPaired /\ Single /\ Serving /\ Nest /\ Existence
      /\ stack \in [Threads -> Seq(Frame)] /\ up \subseteq Procs /\ \A u \in Threads : Home[u] \in Procs
  BY StackMode DEF Delivery, Pairing
<1>2. /\ Home[t] \in up /\ b \in Boxes /\ Dest(b) = Home[t] /\ m = Box(b)[1] /\ m \in Message
      /\ f \in Frame /\ Pushes(t, f) /\ Drops(b) /\ ~InCall(t)'
      /\ \A u \in Threads : u # t => (InCall(u)' <=> InCall(u))
      /\ UNCHANGED up
  BY DEF StartsService
<1>3. /\ f.what = "serve" /\ f.peer = m.src /\ f.thread = m.from /\ f.id = m.id
  BY DEF Servicing
<1>4. m \in Coming(Home[t]) /\ \A r : Coming(r)' = Coming(r) \ {m}
  <2>1. 1 \in 1..Len(Box(b)) /\ Sync(m)
    BY <1>1, <1>2, BoxTyped, EndsOfSeq DEF Drops, Sync
  <2> QED
    BY <1>1, <1>2, <2>1, BoxesCome, ComingDropping
<1>5. /\ m.from \in Threads /\ Home[m.from] = m.src /\ m.src # Home[t] /\ m.src \in Procs
      /\ InBoxes(m.id) /\ Paired(Home[t], m)
  BY <1>1, <1>4, ComingFits DEF AllPaired
<1>6. /\ Len(stack'[t]) = Len(stack[t]) + 1 /\ stack'[t][Len(stack[t]) + 1] = f
      /\ Len(stack[t]) \in Nat /\ stack'[t] = Append(stack[t], f)
      /\ \A u \in Threads : u # t => stack'[u] = stack[u]
      /\ \A u \in Threads : \A k \in 1..Len(stack[u]) :
             k \in 1..Len(stack'[u]) /\ stack'[u][k] = stack[u][k]
      /\ \A u \in Threads : \A k \in 1..Len(stack'[u]) :
             k \in 1..Len(stack[u]) \/ (u = t /\ k = Len(stack[t]) + 1)
  <2>1. stack'[t] = Append(stack[t], f) /\ Len(stack[t]) \in Nat
    BY <1>1, <1>2, StackMode DEF Pushes
  <2> QED
    BY <1>1, <1>2, <2>1, AfterPushing
<1>7. \A u \in Threads : u # t => Alike(u)
  BY <1>2, <1>6 DEF Alike
<1>8. /\ \A w \in Threads : \A p, x : HasCall(stack[w], p, x) => HasCall(stack'[w], p, x)
      /\ \A w \in Threads : \A u, y, x : Under(stack[w], u, y, x) => Under(stack'[w], u, y, x)
  <2> SUFFICES ASSUME NEW w \in Threads
               PROVE  /\ \A p, x : HasCall(stack[w], p, x) => HasCall(stack'[w], p, x)
                      /\ \A u, y, x : Under(stack[w], u, y, x) => Under(stack'[w], u, y, x)
    OBVIOUS
  <2>1. stack[w] \in Seq(Frame)
    BY <1>1
  <2>2. CASE w = t
    BY <1>2, <1>6, <2>1, <2>2, CallsStay
  <2>3. CASE w # t
    BY <1>6, <2>3
  <2> QED
    BY <2>2, <2>3
\* Who asks waits in the call, and serves the call of t that t serves it in.
<1>9. m.src \in up =>
         /\ m.from # t /\ stack[m.from] # <<>>
         /\ IsCall(stack[m.from], Len(stack[m.from]), Home[t], m.id)
  <2> SUFFICES ASSUME m.src \in up
               PROVE  /\ m.from # t /\ stack[m.from] # <<>>
                      /\ IsCall(stack[m.from], Len(stack[m.from]), Home[t], m.id)
    OBVIOUS
  <2>1. Waits(m.from, Home[t], m.id)
    BY <1>5 DEF Paired
  <2>2. InCall(m.from) /\ stack[m.from] # <<>>
    BY <1>1, <1>5, <2>1, StackMode DEF Waits
  <2>3. /\ Top(m.from) = stack[m.from][Len(stack[m.from])] /\ Top(m.from).what = "call"
    BY <1>1, <1>5, <2>2, TopOfStack
  <2> QED
    BY <1>5, <2>1, <2>2, <2>3 DEF Waits, IsCall
<1>10. InCall(t) => /\ stack[t] # <<>> /\ Top(t).peer = m.src
                    /\ m.src \in up =>
                          Within(stack[m.from], Len(stack[m.from]), t, Top(t).id)
  BY <1>1, <1>2, <1>5, StackMode, DispatchAssumption DEF Paired
<1>11. AllPaired'
  <2> SUFFICES ASSUME NEW r \in Procs, NEW n, n \in Coming(r)' PROVE Paired(r, n)'
    BY DEF AllPaired, Coming
  <2>1. n \in Coming(r) /\ n # m
    BY <1>4
  <2>2. /\ n.from \in Threads /\ n.src = Home[n.from] /\ (n.type = "response" => n.to # None)
        /\ n.to # None => n.to \in Threads /\ Home[n.to] = r
        /\ InBoxes(n.id) /\ n.type \in {"request", "response"}
    BY <2>1, ComingFits
  <2>3. Paired(r, n)
    BY <1>1, <2>1 DEF AllPaired
  <2>4. n.to # t
    <3> SUFFICES ASSUME n.to = t PROVE FALSE
      OBVIOUS
    <3>1. n.to # None /\ InCall(t)
      BY <2>2, <2>3, DispatchAssumption DEF Paired, Waits
    <3>2. m.to = n.to /\ r = Home[t]
      BY <2>2, <3>1
    <3> QED
      BY <1>1, <1>4, <2>1, <3>1, <3>2 DEF Single
  <2>5. n.type = "request" /\ n.src \in up => n.from # t
    <3> SUFFICES ASSUME n.type = "request", n.from = t, n.src \in up PROVE FALSE
      OBVIOUS
    <3>1. InCall(t) /\ Top(t).peer = r /\ Top(t).id = n.id
      BY <2>3 DEF Paired, Waits
    <3>2. m.src = r
      BY <1>10, <3>1
    <3>3. CASE r \in up
      <4>1. Within(stack[m.from], Len(stack[m.from]), t, n.id)
        BY <1>10, <3>1, <3>2, <3>3
      <4>2. PICK k \in 1..Len(stack[m.from]) - 1 :
                stack[m.from][k].what = "serve" /\ stack[m.from][k].id = n.id
        BY <4>1 DEF Within
      <4>3. k \in 1..Len(stack[m.from])
        BY <1>1, <1>5, <4>2, StackMode
      <4> QED
        BY <1>1, <1>5, <2>2, <4>2, <4>3 DEF Served
    <3>4. CASE r \notin up
      BY <1>1, <2>1, <3>4 DEF Coming, Gone
    <3> QED
      BY <3>3, <3>4
  <2> QED
    BY <1>2, <1>7, <2>2, <2>3, <2>4, <2>5, PairedKept
<1>12. Single'
  BY <1>1, <1>4 DEF Single
<1>13. Serving'
  <2> SUFFICES ASSUME NEW s \in Threads, NEW k \in 1..Len(stack'[s]), NEW g, g = stack'[s][k],
                      g.what = "serve", g.peer \in up
               PROVE  HasCall(stack'[g.thread], Home[s], g.id)
    BY <1>2 DEF Serving
  <2>1. CASE k \in 1..Len(stack[s])
    <3>1. g = stack[s][k] /\ g.thread \in Threads
      BY <1>1, <1>6, <2>1, FrameTyped
    <3>2. HasCall(stack[g.thread], Home[s], g.id)
      BY <1>1, <2>1, <3>1 DEF Serving
    <3> QED
      BY <1>8, <3>1, <3>2
  <2>2. CASE s = t /\ k = Len(stack[t]) + 1
    <3>1. g = f
      BY <1>6, <2>2
    <3>2. Len(stack[m.from]) \in 1..Len(stack[m.from])
      BY <1>1, <1>3, <1>5, <1>9, <3>1, TopOfStack
    <3>3. HasCall(stack[m.from], Home[t], m.id)
      BY <1>3, <1>9, <3>1, <3>2 DEF HasCall
    <3> QED
      BY <1>3, <1>5, <1>8, <2>2, <3>1, <3>3
  <2> QED
    BY <1>6, <2>1, <2>2
<1>14. Nest'
  <2> SUFFICES ASSUME NEW u \in Threads, NEW j \in 1..Len(stack'[u]) - 1, stack'[u][j].what = "call"
               PROVE  Nests(u, j)'
    BY DEF Nest
  <2>1. Len(stack[u]) \in Nat
    BY <1>1
  <2>2. CASE j \in 1..Len(stack[u]) - 1
    <3>1. j \in 1..Len(stack[u]) /\ j + 1 \in 1..Len(stack[u])
      BY <2>1, <2>2
    <3>2. stack'[u][j] = stack[u][j] /\ stack'[u][j + 1] = stack[u][j + 1]
      BY <1>6, <3>1
    <3>3. Nests(u, j)
      BY <1>1, <2>2, <3>2 DEF Nest
    <3>4. stack[u][j + 1].what # "call" /\ stack[u][j + 1].thread \in Threads
      BY <1>1, <3>1, <3>3, FrameTyped DEF Nests
    <3> QED
      BY <1>2, <1>8, <3>2, <3>3, <3>4, NestsKept
  <2>3. CASE u = t /\ j = Len(stack[t])
    <3>1. j \in 1..Len(stack[t]) /\ stack[t] # <<>> /\ InCall(t)
      BY <1>6, <2>3
    <3>2. stack'[t][j] = stack[t][j] /\ stack'[t][j + 1] = f /\ Top(t) = stack[t][j]
      BY <1>1, <1>6, <2>3, <3>1, TopOfStack
    <3>3. f.peer = stack[t][j].peer
      BY <1>3, <1>10, <3>1, <3>2
    <3>4. ASSUME m.src \in up
          PROVE  Under(stack'[f.thread], t, f.id, stack[t][j].id)
      <4>1. /\ Within(stack[m.from], Len(stack[m.from]), t, stack[t][j].id)
            /\ IsCall(stack[m.from], Len(stack[m.from]), Home[t], m.id)
            /\ Len(stack[m.from]) \in 1..Len(stack[m.from])
        BY <1>1, <1>5, <1>9, <1>10, <3>1, <3>2, <3>4, TopOfStack
      <4>2. Under(stack[m.from], t, m.id, stack[t][j].id)
        BY <4>1 DEF Under
      <4> QED
        BY <1>3, <1>5, <1>8, <4>2
    <3> QED
      BY <1>2, <1>3, <2>3, <3>2, <3>3, <3>4 DEF Nests
  <2>4. j \in 1..Len(stack[u]) - 1 \/ (u = t /\ j = Len(stack[t]))
    <3>1. CASE u = t
      BY <1>6, <3>1
    <3>2. CASE u # t
      BY <1>6, <3>2
    <3> QED
      BY <3>1, <3>2
  <2> QED
    BY <2>2, <2>3, <2>4
<1>15. Existence'
  <2> SUFFICES ASSUME NEW u \in Threads, NEW i \in 1..Len(stack'[u]), NEW g, g = stack'[u][i],
                      g.what = "call", g.peer \in up, NEW p, NEW y, p = g.peer, y = g.id
               PROVE  Going(u, p, y)'
    BY <1>2 DEF Existence
  <2>1. i \in 1..Len(stack[u]) /\ g = stack[u][i]
    BY <1>3, <1>6
  <2>2. Going(u, p, y) /\ p \in Procs /\ Home[u] \in Procs
    BY <1>1, <2>1 DEF Existence
  <2>3. CASE m \in Coming(p) /\ m.id = y /\ m.from = u
    <3>1. p = Home[t]
      BY <1>1, <1>4, <2>3, ComingOnce
    <3>2. Len(stack[t]) + 1 \in 1..Len(stack'[t])
      BY <1>6
    <3> QED
      BY <1>3, <1>6, <2>3, <3>1, <3>2 DEF Going
  <2>4. CASE ~(m \in Coming(p) /\ m.id = y /\ m.from = u)
    <3>1. \A n \in Coming(p) : n.type = "request" /\ n.id = y /\ n.from = u => n \in Coming(p)'
      BY <1>4, <2>4
    <3>2. \A n \in Coming(Home[u]) : n.type = "response" /\ n.id = y => n \in Coming(Home[u])'
      BY <1>4
    <3> QED
      BY <1>6, <2>2, <3>1, <3>2, GoingKept
  <2> QED
    BY <2>3, <2>4
<1> QED
  BY <1>11, <1>12, <1>13, <1>14, <1>15 DEF Pairing

\* What was served is answered, and its caller waits for the answer.
LEMMA FinishPairs ==
    ASSUME Delivery, Pairing, NEW t \in Threads, Finishes(t)
    PROVE  Pairing'
<1> PICK f, m, n : f = Top(t) /\ m = Answering(t) /\ n = Len(stack[t])
  OBVIOUS
<1> DEFINE Answered(r) == f.what = "serve" /\ r = f.peer /\ r \in up
<1>1. /\ Nesting /\ TypeOK /\ Framed /\ FramesOnce /\ Served /\ Gone
      /\ AllPaired /\ Single /\ Serving /\ Nest /\ Existence
      /\ stack \in [Threads -> Seq(Frame)] /\ up \subseteq Procs /\ \A u \in Threads : Home[u] \in Procs
  BY StackMode DEF Delivery, Pairing
<1>2. /\ Home[t] \in up /\ ~InCall(t) /\ f.what # "call" /\ Pops(t)
      /\ f.peer \in Procs /\ f.thread \in Threads /\ m \in Message
      /\ IF f.what = "serve" THEN Sends(Home[t], f.peer, m) ELSE Keeps
      /\ \A u \in Threads : u # t => (InCall(u)' <=> InCall(u))
      /\ UNCHANGED up
  BY <1>1, FinishesEffects
<1>3. /\ n \in Nat \ {0} /\ Len(stack'[t]) = n - 1 /\ n \in 1..n
      /\ stack[t][n] = f /\ stack[t] # <<>>
      /\ \A u \in Threads : u # t => stack'[u] = stack[u]
      /\ \A u \in Threads : \A k \in 1..Len(stack'[u]) :
             /\ k \in 1..Len(stack[u]) /\ stack'[u][k] = stack[u][k]
             /\ u = t => k # n
      /\ \A u \in Threads : \A k \in 1..Len(stack[u]) :
             k \in 1..Len(stack'[u]) \/ (u = t /\ k = n)
  <2>1. stack[t] # <<>> /\ n \in Nat \ {0} /\ n \in 1..n
    BY <1>1, <1>2, TopOfStack DEF Pops
  <2> QED
    BY <1>1, <1>2, <2>1, AfterPopping
<1>4. /\ m.type = "response" /\ m.src = Home[t] /\ m.from = t /\ m.to = f.thread /\ m.id = f.id
      /\ Sync(m)
  BY <1>2 DEF Answering, Sync
<1>5. \A r : Coming(r)' = IF Answered(r) THEN Coming(r) \cup {m} ELSE Coming(r)
  <2>1. CASE f.what = "serve"
    BY <1>1, <1>2, <1>4, <2>1, SendingComes
  <2>2. CASE f.what # "serve"
    BY <1>2, <2>2, ComingKept
  <2> QED
    BY <2>1, <2>2
<1>6. \A u \in Threads : u # t => Alike(u)
  BY <1>2, <1>3 DEF Alike
<1>7. /\ \A w \in Threads : \A p, x : HasCall(stack[w], p, x) => HasCall(stack'[w], p, x)
      /\ \A w \in Threads : \A u, y, x : Under(stack[w], u, y, x) => Under(stack'[w], u, y, x)
  <2> SUFFICES ASSUME NEW w \in Threads
               PROVE  /\ \A p, x : HasCall(stack[w], p, x) => HasCall(stack'[w], p, x)
                      /\ \A u, y, x : Under(stack[w], u, y, x) => Under(stack'[w], u, y, x)
    OBVIOUS
  <2>1. CASE w = t
    <3>1. /\ stack[t] \in Seq(Frame) /\ stack[t] # <<>> /\ stack'[t] = Front(stack[t])
          /\ Last(stack[t]).what # "call"
      BY <1>1, <1>2, <1>3 DEF Pops, Pop, Top
    <3> QED
      BY <2>1, <3>1, CallsLeft
  <2>2. CASE w # t
    BY <1>3, <2>2
  <2> QED
    BY <2>1, <2>2
\* The response finds the caller in the call it answers.
<1>8. ASSUME f.what = "serve", f.peer \in up
      PROVE  /\ f.thread # t /\ Waits(f.thread, Home[t], f.id)
             /\ \A r \in Procs : \A a \in Coming(r) : a.to # f.thread
  <2>1. /\ n \in 1..Len(stack[t]) /\ stack[t][n].thread = f.thread /\ stack[t][n].what = "serve"
        /\ stack[t][n].peer \in up /\ stack[t][n].id = f.id
        /\ \A i \in n + 1..Len(stack[t]) : FALSE
    BY <1>3, <1>8
  <2> QED
    BY <1>2, <2>1, ServedWaits
<1> HIDE DEF Answered
<1>9. AllPaired'
  <2> SUFFICES ASSUME NEW r \in Procs, NEW a, a \in Coming(r)' PROVE Paired(r, a)'
    BY DEF AllPaired, Coming
  <2>1. CASE a \in Coming(r)
    <3>1. /\ a.from \in Threads /\ Home[a.from] = a.src /\ (a.to # None => a.to \in Threads)
          /\ (a.type = "response" => a.to # None) /\ a.type \in {"request", "response"}
      BY <2>1, ComingFits
    <3>2. Paired(r, a)
      BY <1>1, <2>1 DEF AllPaired
    <3>3. a.to # t
      BY <1>2, <3>1, <3>2, DispatchAssumption DEF Paired, Waits
    <3>4. a.type = "request" /\ a.src \in up => a.from # t
      BY <1>2, <3>2 DEF Paired, Waits
    <3> QED
      BY <1>2, <1>6, <3>1, <3>2, <3>3, <3>4, PairedKept
  <2>2. CASE a \notin Coming(r)
    <3>1. a = m /\ f.what = "serve" /\ f.peer \in up
      BY <1>5, <2>2 DEF Answered
    <3>2. f.thread # t /\ Waits(f.thread, Home[t], f.id) /\ Alike(f.thread)
      BY <1>2, <1>6, <1>8, <3>1
    <3>3. Waits(f.thread, Home[t], f.id)'
      BY <3>2 DEF Waits, Alike, Top
    <3>4. Waits(m.to, m.src, m.id)'
      BY <1>4, <3>3
    <3> QED
      BY <1>4, <3>1, <3>4 DEF Paired
  <2> QED
    BY <2>1, <2>2
<1>10. Single'
  <2>1. \A r \in Procs : Coming(r)' \subseteq (IF r = f.peer THEN Coming(r) \cup {m} ELSE Coming(r))
    BY <1>5 DEF Answered
  <2>2. ASSUME m.to # None, NEW r \in Procs, m \in Coming(r)', m \notin Coming(r), NEW a \in Coming(f.peer)
        PROVE  a.to # m.to
    <3>1. f.what = "serve" /\ f.peer \in up
      BY <1>5, <2>2 DEF Answered
    <3> QED
      BY <1>2, <1>4, <1>8, <3>1
  <2> QED
    BY <1>1, <1>2, <2>1, <2>2, SingleSending
<1>11. Serving'
  <2> SUFFICES ASSUME NEW s \in Threads, NEW k \in 1..Len(stack'[s]), stack'[s][k].what = "serve"
               PROVE  /\ k \in 1..Len(stack[s]) /\ stack'[s][k] = stack[s][k]
                      /\ HasCall(stack[stack[s][k].thread], Home[s], stack[s][k].id) =>
                             HasCall(stack'[stack[s][k].thread], Home[s], stack[s][k].id)
    BY <1>1, <1>2, ServingKept
  <2>1. k \in 1..Len(stack[s]) /\ stack'[s][k] = stack[s][k]
    BY <1>3
  <2>2. stack[s][k].thread \in Threads
    BY <1>1, <2>1, FrameTyped
  <2> QED
    BY <1>7, <2>1, <2>2
<1>12. Nest'
  <2> SUFFICES ASSUME NEW u \in Threads, NEW j \in 1..Len(stack'[u]) - 1, stack'[u][j].what = "call"
               PROVE  Nests(u, j)'
    BY DEF Nest
  <2>1. Len(stack'[u]) \in Nat /\ Len(stack[u]) \in Nat
    <3>1. CASE u = t
      BY <1>3, <3>1
    <3>2. CASE u # t
      BY <1>1, <1>3, <3>2
    <3> QED
      BY <3>1, <3>2
  <2>2. j \in 1..Len(stack'[u]) /\ j + 1 \in 1..Len(stack'[u])
    BY <2>1
  <2>3. /\ stack'[u][j] = stack[u][j] /\ stack'[u][j + 1] = stack[u][j + 1]
        /\ j + 1 \in 1..Len(stack[u]) /\ j \in 1..Len(stack[u])
    BY <1>3, <2>2
  <2>4. j \in 1..Len(stack[u]) - 1
    BY <2>1, <2>3
  <2>5. Nests(u, j) /\ stack[u][j + 1].thread \in Threads
    <3>1. Nests(u, j)
      BY <1>1, <2>3, <2>4 DEF Nest
    <3>2. stack[u][j + 1].what # "call"
      BY <3>1 DEF Nests
    <3> QED
      BY <1>1, <2>3, <3>1, <3>2, FrameTyped
  <2> QED
    BY <1>2, <1>7, <2>3, <2>5, NestsKept
<1>13. Existence'
  <2> SUFFICES ASSUME NEW u \in Threads, NEW i \in 1..Len(stack'[u]), NEW g, g = stack'[u][i],
                      g.what = "call", g.peer \in up, NEW p, NEW y, p = g.peer, y = g.id
               PROVE  Going(u, p, y)'
    BY <1>2 DEF Existence
  <2>1. i \in 1..Len(stack[u]) /\ g = stack[u][i]
    BY <1>3
  <2>2. Going(u, p, y) /\ p \in Procs /\ Home[u] \in Procs
    BY <1>1, <2>1 DEF Existence
  <2>3. CASE f.what = "serve" /\ f.id = y /\ f.thread = u /\ Home[t] = p
    <3>1. stack[u] # <<>> /\ Home[u] \in up
      BY <1>1, <2>1 DEF Gone
    <3>2. f.peer = Home[u]
      BY <1>1, <1>2, <1>3, <2>3 DEF Framed, FrameFits
    <3>3. m \in Coming(Home[u])'
      BY <1>5, <2>3, <3>1, <3>2 DEF Answered
    <3> QED
      BY <1>4, <2>3, <3>3 DEF Going
  <2>4. CASE ~(f.what = "serve" /\ f.id = y /\ f.thread = u /\ Home[t] = p)
    <3>1. /\ \A r : Coming(r) \subseteq Coming(r)'
      BY <1>5
    <3>2. CASE \E s \in Threads : Home[s] = p /\ \E k \in 1..Len(stack[s]) :
                  stack[s][k].what = "serve" /\ stack[s][k].id = y /\ stack[s][k].thread = u
      <4>1. PICK s \in Threads : Home[s] = p /\ \E k \in 1..Len(stack[s]) :
                 stack[s][k].what = "serve" /\ stack[s][k].id = y /\ stack[s][k].thread = u
        BY <3>2
      <4>2. PICK k \in 1..Len(stack[s]) :
                 stack[s][k].what = "serve" /\ stack[s][k].id = y /\ stack[s][k].thread = u
        BY <4>1
      <4>3. k \in 1..Len(stack'[s]) /\ stack'[s][k] = stack[s][k]
        BY <1>3, <2>4, <4>1, <4>2
      <4> QED
        BY <4>1, <4>2, <4>3 DEF Going
    <3>3. CASE \E a \in Coming(p) : a.type = "request" /\ a.id = y /\ a.from = u
      <4>1. \E a \in Coming(p)' : a.type = "request" /\ a.id = y /\ a.from = u
        BY <3>1, <3>3
      <4> QED
        BY <4>1 DEF Going
    <3>4. CASE \E a \in Coming(Home[u]) :
                  a.type = "response" /\ a.id = y /\ a.to = u /\ a.src = p
      <4>1. \E a \in Coming(Home[u])' : a.type = "response" /\ a.id = y /\ a.to = u /\ a.src = p
        BY <3>1, <3>4
      <4> QED
        BY <4>1 DEF Going
    <3> QED
      BY <2>2, <3>2, <3>3, <3>4 DEF Going
  <2> QED
    BY <2>3, <2>4
<1> QED
  BY <1>9, <1>10, <1>11, <1>12, <1>13 DEF Pairing

LEMMA DiePairs ==
    ASSUME Delivery, Pairing, NEW q \in Procs, Die(q)
    PROVE  Pairing'
<1>1. /\ Nesting /\ TypeOK /\ Framed /\ Gone
      /\ AllPaired /\ Single /\ Serving /\ Nest /\ Existence
      /\ up \subseteq Procs /\ \A u \in Threads : Home[u] \in Procs
  BY StackMode DEF Delivery, Pairing
<1>2. /\ up' = up \ {q} /\ Empties(q)
      /\ \A t \in Threads : IF Home[t] = q THEN stack'[t] = <<>> ELSE Alike(t)
  BY <1>1, DieEffects DEF Alike
<1>3. \A r : Coming(r)' = IF r = q THEN {} ELSE Coming(r)
  BY <1>1, <1>2, ComingEmptying
<1>4. \A t \in Threads : \A k \in 1..Len(stack'[t]) :
          Home[t] # q /\ stack'[t] = stack[t] /\ k \in 1..Len(stack[t])
  <2> SUFFICES ASSUME NEW t \in Threads, NEW k \in 1..Len(stack'[t])
               PROVE  Home[t] # q /\ stack'[t] = stack[t] /\ k \in 1..Len(stack[t])
    OBVIOUS
  <2>1. Home[t] # q
    <3> SUFFICES ASSUME Home[t] = q PROVE FALSE
      OBVIOUS
    <3>1. stack'[t] = <<>>
      BY <1>2
    <3> QED
      BY <3>1
  <2> QED
    BY <1>2, <2>1 DEF Alike
<1>5. AllPaired'
  <2> SUFFICES ASSUME NEW r \in Procs, NEW m, m \in Coming(r)' PROVE Paired(r, m)'
    BY DEF AllPaired, Coming
  <2>1. r # q /\ m \in Coming(r)
    BY <1>3
  <2>2. /\ m.from \in Threads /\ Home[m.from] = m.src
        /\ m.to # None => m.to \in Threads /\ Home[m.to] = r
        /\ m.type = "response" => m.to # None
    BY <2>1, ComingFits
  <2>3. Paired(r, m)
    BY <1>1, <2>1 DEF AllPaired
  <2>4. (m.src \in up' => Alike(m.from)) /\ (m.to # None => Alike(m.to))
    BY <1>2, <2>1, <2>2
  <2> QED
    BY <1>2, <2>2, <2>3, <2>4, PairedKept
<1>6. Single'
  BY <1>1, <1>3 DEF Single
<1>7. Serving'
  <2> SUFFICES ASSUME NEW s \in Threads, NEW k \in 1..Len(stack'[s]),
                      stack'[s][k].what = "serve", stack'[s][k].peer \in up'
               PROVE  /\ k \in 1..Len(stack[s]) /\ stack'[s][k] = stack[s][k]
                      /\ HasCall(stack[stack[s][k].thread], Home[s], stack[s][k].id) =>
                             HasCall(stack'[stack[s][k].thread], Home[s], stack[s][k].id)
    BY <1>1, <1>2, ServingKept
  <2>1. k \in 1..Len(stack[s]) /\ stack'[s][k] = stack[s][k]
    BY <1>4
  <2>2. stack[s][k].thread \in Threads /\ stack[s][k].peer = Home[stack[s][k].thread]
    BY <1>1, <2>1, FrameTyped DEF Framed, FrameFits
  <2>3. Alike(stack[s][k].thread)
    BY <1>2, <2>1, <2>2
  <2> QED
    BY <2>1, <2>3 DEF Alike
<1>8. Nest'
  <2> SUFFICES ASSUME NEW u \in Threads, NEW j \in 1..Len(stack'[u]) - 1, stack'[u][j].what = "call"
               PROVE  Nests(u, j)'
    BY DEF Nest
  <2>0. Len(stack'[u]) \in Nat
    BY NestingStep, <1>1 DEF Next, Nesting, TypeOK
  <2>1. /\ stack'[u] = stack[u] /\ j \in 1..Len(stack[u]) - 1 /\ j + 1 \in 1..Len(stack[u])
        /\ j \in 1..Len(stack[u])
    BY <1>4, <2>0
  <2>2. Nests(u, j) /\ stack[u][j + 1].what # "call" /\ stack[u][j + 1].peer = stack[u][j].peer
    BY <1>1, <2>1 DEF Nest, Nests
  <2>3. stack[u][j + 1].thread \in Threads /\ stack[u][j + 1].peer = Home[stack[u][j + 1].thread]
    BY <1>1, <2>1, <2>2, FrameTyped DEF Framed, FrameFits
  <2>4. stack'[u][j].peer \in up' => Alike(stack[u][j + 1].thread)
    BY <1>2, <2>1, <2>2, <2>3
  <2>5. stack'[u][j].peer \in up' =>
            (Under(stack[stack[u][j + 1].thread], u, stack[u][j + 1].id, stack[u][j].id) =>
                    Under(stack'[stack[u][j + 1].thread], u, stack[u][j + 1].id, stack[u][j].id))
    BY <2>4 DEF Alike
  <2> QED
    BY <1>2, <2>1, <2>2, <2>5, NestsKept
<1>9. Existence'
  <2> SUFFICES ASSUME NEW u \in Threads, NEW i \in 1..Len(stack'[u]), NEW g, g = stack'[u][i],
                      g.what = "call", g.peer \in up', NEW p, NEW y, p = g.peer, y = g.id
               PROVE  Going(u, p, y)'
    BY DEF Existence
  <2>1. i \in 1..Len(stack[u]) /\ g = stack[u][i] /\ Home[u] # q /\ p # q
    BY <1>2, <1>4
  <2>2. Going(u, p, y)
    BY <1>1, <1>2, <2>1 DEF Existence
  <2>3. Coming(p)' = Coming(p) /\ Coming(Home[u])' = Coming(Home[u])
    BY <1>3, <2>1
  <2>4. \A s \in Threads : Home[s] = p => stack'[s] = stack[s]
    BY <1>2, <2>1 DEF Alike
  <2> QED
    BY <2>2, <2>3, <2>4, GoingKept
<1> QED
  BY <1>5, <1>6, <1>7, <1>8, <1>9 DEF Pairing

\* Steps that take no call, no service and no message that is waited for.
LEMMA StillPairs ==
    ASSUME Pairing, UNCHANGED <<up, stack>>, \A u \in Threads : InCall(u)' <=> InCall(u),
           \A r : Coming(r)' = Coming(r), Delivery
    PROVE  Pairing'
<1>1. AllPaired /\ Single /\ Serving /\ Nest /\ Existence
  BY DEF Pairing
<1>2. AllPaired'
  <2> SUFFICES ASSUME NEW r \in Procs, NEW m, m \in Coming(r)' PROVE Paired(r, m)'
    BY DEF AllPaired, Coming
  <2>1. m \in Coming(r) /\ Paired(r, m)
    BY <1>1 DEF AllPaired
  <2>2. /\ m.from \in Threads /\ (m.to # None => m.to \in Threads)
        /\ (m.type = "response" => m.to # None)
    BY <2>1, ComingFits
  <2>3. Alike(m.from) /\ (m.to # None => Alike(m.to)) /\ up' \subseteq up
    BY <2>2 DEF Alike
  <2> QED
    BY <2>1, <2>2, <2>3, PairedKept
<1>3. Single'
  BY <1>1 DEF Single
<1>4. Serving'
  BY <1>1 DEF Serving
<1>5. Nest'
  BY <1>1 DEF Nest, Nests
<1>6. Existence'
  BY <1>1 DEF Existence, Going
<1> QED
  BY <1>2, <1>3, <1>4, <1>5, <1>6 DEF Pairing

\* The pump takes an asynchronous request.
LEMMA PostServedPairs ==
    ASSUME Delivery, Pairing, NEW t \in Threads, stack[t] = <<>>, ~InCall(t)',
           \A u \in Threads : u # t => (InCall(u)' <=> InCall(u)),
           NEW f \in Frame, f.what = "serveAsync", Pushes(t, f), UNCHANGED up,
           \A r : Coming(r)' = Coming(r)
    PROVE  Pairing'
<1>1. /\ Nesting /\ TypeOK /\ Framed
      /\ AllPaired /\ Single /\ Serving /\ Nest /\ Existence
      /\ stack \in [Threads -> Seq(Frame)]
  BY StackMode DEF Delivery, Pairing
<1>2. /\ ~InCall(t) /\ Len(stack[t]) = 0 /\ Len(stack'[t]) = 1
      /\ \A u \in Threads : u # t => Alike(u)
      /\ \A u \in Threads : \A k \in 1..Len(stack'[u]) :
             stack'[u][k].what # "serveAsync" => u # t /\ k \in 1..Len(stack[u])
  <2>1. ~InCall(t) /\ Len(stack[t]) = 0
    BY <1>1, StackMode
  <2>2. /\ Len(stack'[t]) = Len(stack[t]) + 1 /\ stack'[t][Len(stack[t]) + 1] = f
        /\ \A u \in Threads : u # t => stack'[u] = stack[u]
        /\ \A u \in Threads : \A k \in 1..Len(stack'[u]) :
               k \in 1..Len(stack[u]) \/ (u = t /\ k = Len(stack[t]) + 1)
    BY <1>1, AfterPushing
  <2> QED
    BY <2>1, <2>2 DEF Alike
<1>3. \A w \in Threads : \A p, x : HasCall(stack[w], p, x) => w # t
  BY <1>2 DEF HasCall
<1>4. \A w \in Threads : \A u, y, x : Under(stack[w], u, y, x) => w # t
  BY <1>2 DEF Under
<1>5. AllPaired'
  <2> SUFFICES ASSUME NEW r \in Procs, NEW m, m \in Coming(r)' PROVE Paired(r, m)'
    BY DEF AllPaired, Coming
  <2>1. m \in Coming(r) /\ Paired(r, m)
    BY <1>1 DEF AllPaired
  <2>2. /\ m.from \in Threads /\ (m.to # None => m.to \in Threads)
        /\ (m.type = "response" => m.to # None) /\ m.type \in {"request", "response"}
    BY <2>1, ComingFits
  <2>3. (m.to # None => m.to # t) /\ (m.type = "request" /\ m.src \in up => m.from # t)
    BY <1>2, <2>1, <2>2 DEF Paired, Waits
  <2> QED
    BY <1>2, <2>1, <2>2, <2>3, PairedKept
<1>6. Single'
  BY <1>1 DEF Single
<1>7. Serving'
  <2> SUFFICES ASSUME NEW s \in Threads, NEW k \in 1..Len(stack'[s]), stack'[s][k].what = "serve",
                      stack'[s][k].peer \in up
               PROVE  /\ k \in 1..Len(stack[s]) /\ stack'[s][k] = stack[s][k]
                      /\ HasCall(stack[stack[s][k].thread], Home[s], stack[s][k].id) =>
                             HasCall(stack'[stack[s][k].thread], Home[s], stack[s][k].id)
    BY <1>1, ServingKept
  <2>1. k \in 1..Len(stack[s]) /\ stack'[s] = stack[s]
    BY <1>2 DEF Alike
  <2>2. stack[s][k].thread \in Threads
    BY <1>1, <2>1, FrameTyped
  <2> QED
    BY <1>2, <1>3, <2>1, <2>2 DEF Alike
<1>8. Nest'
  <2> SUFFICES ASSUME NEW u \in Threads, NEW j \in 1..Len(stack'[u]) - 1, stack'[u][j].what = "call"
               PROVE  Nests(u, j)'
    BY DEF Nest
  <2>1. u # t
    BY <1>2
  <2>2. stack'[u] = stack[u] /\ Len(stack[u]) \in Nat
    BY <1>1, <1>2, <2>1 DEF Alike
  <2>3. Nests(u, j) /\ j + 1 \in 1..Len(stack[u])
    BY <1>1, <2>2 DEF Nest
  <2>4. stack[u][j + 1].thread \in Threads
    BY <1>1, <2>3, FrameTyped DEF Nests
  <2>5. Under(stack[stack[u][j + 1].thread], u, stack[u][j + 1].id, stack[u][j].id) =>
            Under(stack'[stack[u][j + 1].thread], u, stack[u][j + 1].id, stack[u][j].id)
    BY <1>2, <1>4, <2>4 DEF Alike
  <2> QED
    BY <2>2, <2>3, <2>5, NestsKept
<1>9. Existence'
  <2> SUFFICES ASSUME NEW u \in Threads, NEW i \in 1..Len(stack'[u]), NEW g, g = stack'[u][i],
                      g.what = "call", g.peer \in up, NEW p, NEW y, p = g.peer, y = g.id
               PROVE  Going(u, p, y)'
    BY DEF Existence
  <2>1. i \in 1..Len(stack[u]) /\ g = stack[u][i]
    BY <1>2 DEF Alike
  <2>2. Going(u, p, y)
    BY <1>1, <2>1 DEF Existence
  <2>3. \A s \in Threads : \A k \in 1..Len(stack[s]) : stack'[s] = stack[s]
    BY <1>2 DEF Alike
  <2> QED
    BY <2>2, <2>3, GoingKept
<1> QED
  BY <1>5, <1>6, <1>7, <1>8, <1>9 DEF Pairing

\* Nothing on a wire is for a thread that has nothing on its way.
LEMMA NothingOnItsWay ==
    ASSUME TypeOK, NEW q \in Procs, NEW t \in Threads, Home[t] \in Procs, ~OnItsWay(q, t)
    PROVE  \A i \in 1..Len(wire[<<q, Home[t]>>]) : wire[<<q, Home[t]>>][i].to # t
<1>1. wire[<<q, Home[t]>>] \in Seq(Message)
  BY DEF TypeOK, Pairs
<1>2. DOMAIN wire[<<q, Home[t]>>] = 1..Len(wire[<<q, Home[t]>>])
  BY <1>1
<1> QED
  BY <1>2 DEF OnItsWay

\* A call is given up when the channel to the dead is closed; whoever has nothing in
\* its queue or on its way then will have no answer.
LEMMA GivesUpPairs ==
    ASSUME Delivery, Pairing, Good', NEW t \in Threads, GivesUp(t)
    PROVE  Pairing'
<1> PICK q, x, n : q = Top(t).peer /\ x = Top(t).id /\ n = Len(stack[t])
  OBVIOUS
<1>1. /\ Nesting /\ TypeOK /\ Framed /\ FramesOnce /\ Gone /\ Hung /\ Addressed
      /\ AllPaired /\ Serving /\ up \subseteq Procs /\ \A u \in Threads : Home[u] \in Procs
  BY StackMode DEF Delivery, Pairing
<1>2. /\ Home[t] \in up /\ InCall(t) /\ Top(t).what = "call" /\ open[Home[t]][q] # "open"
      /\ Pops(t) /\ Keeps /\ ~InCall(t)' /\ queue[t] = <<>> /\ ~OnItsWay(q, t)
      /\ \A u \in Threads : u # t => (InCall(u)' <=> InCall(u))
      /\ UNCHANGED up
  BY <1>1, GivesUpEffects DEF Good
<1>3. n \in 1..Len(stack[t]) /\ Top(t) = stack[t][n] /\ q \in Procs /\ q # Home[t]
  <2>1. n \in 1..Len(stack[t]) /\ Top(t) = stack[t][n]
    BY <1>1, <1>2, TopOfStack DEF Pops
  <2> QED
    BY <1>1, <2>1, FrameTyped DEF Framed, FrameFits
<1>4. q \notin up
  BY <1>1, <1>2, <1>3 DEF Hung
<1>5. \A r : Coming(r)' = Coming(r)
  BY <1>2, ComingKept
<1>6. ASSUME NEW r \in Procs, NEW m \in Coming(r)
      PROVE  m.to # t /\ (m.type = "request" => m.from # t)
  <2>1. /\ Paired(r, m) /\ m \in Message /\ m.type \in {"request", "response"} /\ m.src = Home[m.from]
        /\ m.to # None => Home[m.to] = r
    BY <1>1, ComingFits DEF AllPaired
  <2>2. m.type = "request" => m.from # t
    <3> SUFFICES ASSUME m.type = "request", m.from = t PROVE FALSE
      OBVIOUS
    <3>1. r = q
      BY <1>2, <2>1 DEF Paired, Waits
    <3> QED
      BY <1>1, <1>4, <3>1 DEF Coming, Gone
  <2>3. m.to # t
    <3> SUFFICES ASSUME m.to = t PROVE FALSE
      OBVIOUS
    <3>1. r = Home[t] /\ m.src = q /\ m.to # None
      BY <2>1, DispatchAssumption DEF Paired, Waits
    <3>2. PICK b \in Boxes : Dest(b) = Home[t] /\ \E i \in 1..Len(Box(b)) : Box(b)[i] = m
      BY <3>1 DEF Coming
    <3>3. Fits(b, m)
      BY <1>1, <2>1, <3>2 DEF Addressed
    <3>4. Box(b) # <<>>
      BY <3>2
    <3>5. ASSUME NEW p \in Procs, NEW p2 \in Procs, b = WireBox(p, p2) PROVE FALSE
      <4>1. b[1] = "wire" /\ b[2] = p /\ Dest(b) = p2 /\ Box(b) = wire[<<p, p2>>]
        BY <3>5, WireBoxes
      <4>2. p = q /\ p2 = Home[t]
        BY <3>1, <3>2, <3>3, <4>1 DEF Fits
      <4>3. \E i \in 1..Len(wire[<<q, Home[t]>>]) : wire[<<q, Home[t]>>][i].to = t
        BY <3>2, <4>1, <4>2
      <4> QED
        BY <1>1, <1>2, <1>3, <4>3, NothingOnItsWay
    <3>6. ASSUME NEW u \in Threads, b = QueueBox(u) PROVE FALSE
      <4>1. b[1] = "queue" /\ b[2] = u /\ Box(b) = queue[u]
        BY <3>6, QueueBoxes
      <4>2. u = t
        BY <3>3, <4>1 DEF Fits
      <4> QED
        BY <1>2, <3>4, <4>1, <4>2
    <3>7. ASSUME NEW p \in Procs, b = DefaultBox(p) PROVE FALSE
      <4>1. b[1] = "default"
        BY <3>7, DefaultBoxes
      <4> QED
        BY <3>1, <3>3, <4>1 DEF Fits
    <3> QED
      BY <3>5, <3>6, <3>7, BoxKinds
  <2> QED
    BY <2>2, <2>3
<1>7. ASSUME NEW s \in Threads, NEW k \in 1..Len(stack[s]),
             stack[s][k].what = "serve", stack[s][k].peer \in up, stack[s][k].id = x
      PROVE  FALSE
  <2> PICK w : w = stack[s][k].thread
    OBVIOUS
  <2>1. HasCall(stack[w], Home[s], x) /\ w \in Threads
    BY <1>1, <1>7, FrameTyped DEF Serving
  <2>2. PICK j \in 1..Len(stack[w]) : IsCall(stack[w], j, Home[s], x)
    BY <2>1 DEF HasCall
  <2>3. stack[w][j].what = stack[t][n].what /\ stack[w][j].what # "serveAsync"
        /\ stack[w][j].id = stack[t][n].id
    BY <1>2, <1>3, <2>2 DEF IsCall
  <2>4. w = t /\ j = n
    <3>1. FramesOnce /\ t \in Threads /\ n \in 1..Len(stack[t]) /\ w \in Threads
      BY <1>1, <1>3, <2>1
    <3> QED
      BY <2>3, <3>1, SMTT(30) DEF FramesOnce
  <2>5. Home[s] = q
    BY <1>3, <2>2, <2>4 DEF IsCall
  <2>6. stack[s] = <<>>
    BY <1>1, <1>4, <2>5 DEF Gone
  <2> QED
    BY <2>6
<1> QED
  BY <1>2, <1>5, <1>6, <1>7, ReturnPairs

LEMMA TakesResponsePairs ==
    ASSUME Delivery, Pairing, NEW t \in Threads, TakesResponse(t)
    PROVE  Pairing'
<1> PICK b, m, x : b = QueueBox(t) /\ m = Box(QueueBox(t))[1] /\ x = Top(t).id
  OBVIOUS
<1>1. /\ Nesting /\ TypeOK /\ Once /\ Served /\ Addressed
      /\ AllPaired /\ Single /\ \A u \in Threads : Home[u] \in Procs
  BY StackMode DEF Delivery, Pairing
<1>2. /\ Home[t] \in up /\ InCall(t) /\ m \in Message /\ m.type = "response"
      /\ Pops(t) /\ Drops(b) /\ ~InCall(t)'
      /\ \A u \in Threads : u # t => (InCall(u)' <=> InCall(u))
      /\ UNCHANGED up
  BY <1>1, TakesResponseEffects
<1>3. b \in Boxes /\ Dest(b) = Home[t] /\ b[1] = "queue" /\ b[2] = t /\ m = Box(b)[1]
  BY QueueBoxes
<1>4. 1 \in 1..Len(Box(b)) /\ Sync(m)
  BY <1>1, <1>2, <1>3, BoxTyped, EndsOfSeq DEF Drops, Sync
<1>5. m \in Coming(Home[t]) /\ \A r : Coming(r)' = Coming(r) \ {m}
  BY <1>1, <1>2, <1>3, <1>4, BoxesCome, ComingDropping
<1>6. m.to = t /\ m.id = x /\ InBoxes(x)
  <2>1. Fits(b, m)
    BY <1>1, <1>2, <1>3, <1>4 DEF Addressed
  <2>2. m.to = t
    BY <1>3, <2>1 DEF Fits
  <2>3. Paired(Home[t], m) /\ InBoxes(m.id)
    BY <1>1, <1>5, ComingInBoxes DEF AllPaired
  <2> QED
    BY <1>2, <2>2, <2>3 DEF Paired, Waits
<1>7. ASSUME NEW r \in Procs, NEW a \in Coming(r)'
      PROVE  a.to # t /\ (a.type = "request" => a.from # t)
  <2>1. a \in Coming(r) /\ a # m
    BY <1>5
  <2>2. Paired(r, a) /\ a.src = Home[a.from] /\ (a.to # None => Home[a.to] = r)
    BY <1>1, <2>1, ComingFits DEF AllPaired
  <2>3. a.to # t
    <3> SUFFICES ASSUME a.to = t PROVE FALSE
      OBVIOUS
    <3>1. r = Home[t] /\ a.to # None
      BY <2>2, DispatchAssumption
    <3> QED
      BY <1>1, <1>5, <1>6, <2>1, <3>1 DEF Single
  <2>4. a.type = "request" => a.from # t
    <3> SUFFICES ASSUME a.type = "request", a.from = t PROVE FALSE
      OBVIOUS
    <3>1. a.id = m.id
      BY <1>2, <1>6, <2>2 DEF Paired, Waits
    <3> QED
      BY <1>1, <1>5, <2>1, <3>1, ComingOnce
  <2> QED
    BY <2>3, <2>4
<1>8. ASSUME NEW s \in Threads, NEW k \in 1..Len(stack[s]), stack[s][k].what = "serve"
      PROVE  stack[s][k].id # x
  BY <1>1, <1>6, <1>8 DEF Served
<1>9. /\ \A r : Coming(r)' \subseteq Coming(r)
      /\ \A r \in Procs : \A a \in Coming(r) :
             a \notin Coming(r)' => a.type = "response" /\ a.id = x
  BY <1>2, <1>5, <1>6
<1> QED
  BY <1>2, <1>7, <1>8, <1>9, ReturnPairs

LEMMA GoodBefore == Nesting /\ [Next]_vars /\ Good' => Good
<1> SUFFICES ASSUME Nesting, [Next]_vars, Good' PROVE Good
  OBVIOUS
<1>1. CASE UNCHANGED vars
  BY <1>1 DEF vars, Good
<1>2. ASSUME NEW t \in Threads, NEW q \in Procs, Call(t, q) \/ Post(t, q) PROVE Good
  <2>1. CASE Call(t, q)
    BY <2>1 DEF Good, Call
  <2>2. CASE Post(t, q)
    BY <2>2 DEF Good, Post
  <2> QED
    BY <1>2, <2>1, <2>2
<1>3. ASSUME NEW t \in Threads, ThreadStep(t) PROVE Good
  <2>1. CASE GoesToWait(t) \/ IsPulsed(t)
    BY <2>1 DEF Good, GoesToWait, IsPulsed
  <2>2. CASE GivesUp(t)
    BY <2>2 DEF Good, GivesUp
  <2>3. CASE TakesResponse(t)
    BY <2>3 DEF Good, TakesResponse
  <2>4. CASE TakesRequest(t)
    BY <2>4 DEF Good, TakesRequest
  <2>5. CASE Pumped(t)
    BY <2>5 DEF Good, Pumped
  <2>6. CASE Finishes(t)
    BY <2>6 DEF Good, Finishes
  <2> QED
    BY <1>3, <2>1, <2>2, <2>3, <2>4, <2>5, <2>6 DEF ThreadStep
<1>4. ASSUME NEW p \in Procs, NEW q \in Procs, Sorts(p, q) \/ Closes(p, q) PROVE Good
  BY <1>4 DEF Good, Sorts, Closes
<1>5. ASSUME NEW q \in Procs, Die(q) PROVE Good
  BY <1>5 DEF Good, Die
<1> QED
  BY <1>1, <1>2, <1>3, <1>4, <1>5 DEF Next, Handling

LEMMA PairingStep == Delivery /\ Pairing /\ [Next]_vars /\ Good' => Pairing'
<1> SUFFICES ASSUME Delivery, Pairing, [Next]_vars, Good' PROVE Pairing'
  OBVIOUS
<1>1. Nesting /\ Addressed /\ TypeOK /\ Once /\ Hung
  BY StackMode DEF Delivery
<1>2. ASSUME NEW t \in Threads, NEW q \in Procs, Call(t, q) PROVE Pairing'
  BY <1>2, CallPairs
<1>3. ASSUME NEW t \in Threads, NEW q \in Procs, Post(t, q) PROVE Pairing'
  <2> PICK m : m = Request(t, q, "post")
    OBVIOUS
  <2>1. /\ Home[t] \in Procs /\ m \in Message /\ Sends(Home[t], q, m)
        /\ \A u \in Threads : InCall(u)' <=> InCall(u)
        /\ UNCHANGED <<up, stack>>
    BY <1>1, <1>3, PostEffects, StackMode
  <2>2. ~Sync(m)
    BY DEF Sync, Request
  <2>3. \A r : Coming(r)' = Coming(r)
    BY <1>1, <2>1, <2>2, SendingComes
  <2> QED
    BY <2>1, <2>3, StillPairs
<1>4. ASSUME NEW t \in Threads, GoesToWait(t) \/ IsPulsed(t) PROVE Pairing'
  <2>1. Keeps /\ UNCHANGED <<up, stack>> /\ \A u \in Threads : InCall(u)' <=> InCall(u)
    BY <1>1, <1>4, IdleEffects
  <2>2. \A r : Coming(r)' = Coming(r)
    BY <2>1, ComingKept
  <2> QED
    BY <2>1, <2>2, StillPairs
<1>5. ASSUME NEW t \in Threads, GivesUp(t) PROVE Pairing'
  BY <1>5, GivesUpPairs
<1>6. ASSUME NEW t \in Threads, TakesResponse(t) PROVE Pairing'
  BY <1>6, TakesResponsePairs
<1>7. ASSUME NEW t \in Threads, TakesRequest(t) PROVE Pairing'
  <2> PICK b, m : b = QueueBox(t) /\ m = Box(QueueBox(t))[1]
    OBVIOUS
  <2>1. StartsService(t, b, m) /\ InCall(t) /\ m.type # "post" /\ m.type # "response" /\ m \in Message
    BY <1>1, <1>7, TakesRequestEffects DEF Good, StartsService
  <2>2. b \in Boxes /\ b[1] = "queue" /\ b[2] = t /\ m = Box(b)[1]
    BY QueueBoxes
  <2>3. 1 \in 1..Len(Box(b))
    BY <1>1, <2>1, <2>2, BoxTyped, EndsOfSeq DEF StartsService, Drops
  <2>4. Fits(b, m)
    BY <1>1, <2>1, <2>2, <2>3 DEF Addressed
  <2>5. m.to = t /\ m.type = "request"
    BY <2>1, <2>2, <2>4 DEF Fits, Message
  <2> QED
    BY <2>1, <2>5, ServePairs
<1>8. ASSUME NEW t \in Threads, Pumped(t) PROVE Pairing'
  <2> PICK b, m : b = DefaultBox(Home[t]) /\ m = Box(DefaultBox(Home[t]))[1]
    OBVIOUS
  <2>1. StartsService(t, b, m) /\ stack[t] = <<>>
    BY <1>1, <1>8, PumpedEffects
  <2>2. ~InCall(t) /\ m \in Message /\ m.type # "response"
    BY <1>1, <2>1, StackMode DEF StartsService
  <2>3. CASE m.type = "request"
    BY <2>1, <2>2, <2>3, ServePairs
  <2>4. CASE m.type = "post"
    <3> PICK f : f = Servicing(t, m)
      OBVIOUS
    <3>1. /\ b \in Boxes /\ f \in Frame /\ Pushes(t, f) /\ Drops(b) /\ ~InCall(t)' /\ m = Box(b)[1]
          /\ \A u \in Threads : u # t => (InCall(u)' <=> InCall(u))
          /\ UNCHANGED up
      BY <2>1 DEF StartsService
    <3>2. f.what = "serveAsync"
      BY <2>4 DEF Servicing
    <3>3. ~Sync(m)
      BY <2>4 DEF Sync
    <3>4. \A r : m \notin Coming(r)
      BY <3>3, ComingInBoxes
    <3>5. \A r : Coming(r)' = Coming(r)
      BY <1>1, <3>1, <3>4, ComingDropping
    <3> QED
      BY <2>1, <3>1, <3>2, <3>5, PostServedPairs
  <2> QED
    BY <2>2, <2>3, <2>4 DEF Message
<1>9. ASSUME NEW t \in Threads, Finishes(t) PROVE Pairing'
  BY <1>9, FinishPairs
<1>10. ASSUME NEW p \in Procs, NEW q \in Procs, Sorts(p, q) PROVE Pairing'
  <2>1. /\ \E b, d \in Boxes : Moves(b, d)
        /\ \A u \in Threads : InCall(u)' <=> InCall(u)
        /\ UNCHANGED <<up, stack>>
    BY <1>1, <1>10, SortsEffects
  <2>2. \A r : Coming(r)' = Coming(r)
    BY <1>1, <2>1, ComingMoving
  <2> QED
    BY <2>1, <2>2, StillPairs
<1>11. ASSUME NEW p \in Procs, NEW q \in Procs, Closes(p, q) PROVE Pairing'
  <2>1. Keeps /\ UNCHANGED <<up, stack>> /\ \A u \in Threads : InCall(u)' <=> InCall(u)
    BY <1>1, <1>11, ClosesEffects
  <2>2. \A r : Coming(r)' = Coming(r)
    BY <2>1, ComingKept
  <2> QED
    BY <2>1, <2>2, StillPairs
<1>12. ASSUME NEW q \in Procs, Die(q) PROVE Pairing'
  BY <1>12, DiePairs
<1>13. CASE UNCHANGED vars
  <2>1. UNCHANGED <<wire, queue, default>> /\ UNCHANGED <<up, stack>> /\ UNCHANGED mode
    BY <1>13 DEF vars
  <2>2. Keeps
    BY <2>1, SameBoxes
  <2>3. \A r : Coming(r)' = Coming(r)
    BY <2>2, ComingKept
  <2>4. \A u \in Threads : InCall(u)' <=> InCall(u)
    BY <2>1 DEF InCall
  <2> QED
    BY <2>1, <2>3, <2>4, StillPairs
<1> QED
  BY <1>2, <1>3, <1>4, <1>5, <1>6, <1>7, <1>8, <1>9, <1>10, <1>11, <1>12, <1>13
     DEF Next, Handling, ThreadStep

LEMMA PairingStarts == Init => Pairing
<1> SUFFICES ASSUME Init PROVE Pairing
  OBVIOUS
<1>1. \A q : Coming(q) = {}
  <2> SUFFICES ASSUME NEW q, NEW m \in Coming(q) PROVE FALSE
    OBVIOUS
  <2>1. PICK b \in Boxes : \E i \in 1..Len(Box(b)) : Box(b)[i] = m
    BY DEF Coming
  <2>2. Box(b) = <<>>
    BY EmptyAtFirst
  <2> QED
    BY <2>1, <2>2
<1>2. \A t \in Threads : stack[t] = <<>>
  BY DEF Init
<1>3. AllPaired /\ Single
  BY <1>1 DEF AllPaired, Single
<1>4. Serving /\ Nest /\ Existence
  BY <1>2 DEF Serving, Nest, Existence
<1> QED
  BY <1>3, <1>4 DEF Pairing

-----------------------------------------------------------------------------
\* The theorems of this module.

Dispatched == Delivery /\ (Good => Pairing)

LEMMA PairedAlways == Spec => []Dispatched
<1>1. Init => Dispatched
  BY DeliveryStarts, PairingStarts DEF Dispatched
<1>2. Dispatched /\ [Next]_vars => Dispatched'
  <2> SUFFICES ASSUME Dispatched, [Next]_vars PROVE Dispatched'
    OBVIOUS
  <2>1. Delivery /\ Nesting /\ (Good => Pairing)
    BY DEF Dispatched, Delivery
  <2>2. Delivery'
    BY <2>1, DeliveryStep
  <2>3. ASSUME Good' PROVE Pairing'
    BY <2>1, <2>3, GoodBefore, PairingStep
  <2> QED
    BY <2>2, <2>3 DEF Dispatched
<1> QED
  BY <1>1, <1>2, PTL DEF Spec

\* What is in a thread's queue is on its way to the thread's application, and for it.
LEMMA QueuedComes ==
    ASSUME Delivery, NEW t \in Threads, NEW i \in 1..Len(queue[t]), queue[t][i].type # "post"
    PROVE  queue[t][i] \in Coming(Home[t]) /\ queue[t][i].to = t
<1> PICK m : m = queue[t][i]
  OBVIOUS
<1>1. Nesting /\ TypeOK /\ Addressed /\ queue[t] \in Seq(Message)
  BY StackMode DEF Delivery
<1>2. m \in Message /\ Sync(m)
  BY <1>1 DEF Sync
<1> PICK b : b = QueueBox(t)
  OBVIOUS
<1>3. b \in Boxes /\ Dest(b) = Home[t] /\ b[1] = "queue" /\ b[2] = t /\ Box(b) = queue[t]
  BY QueueBoxes
<1>4. m \in Coming(Home[t])
  BY <1>1, <1>2, <1>3, BoxesCome
<1>5. Fits(b, m)
  BY <1>1, <1>2, <1>3 DEF Addressed
<1> QED
  BY <1>3, <1>4, <1>5 DEF Fits

\* Nested and crossing calls, callbacks, asynchronous requests and deaths never make
\* a thread take one call's answer for another's, as long as nobody has left a call
\* with messages behind it or called back the poster of an asynchronous request: all
\* there is to tell answers apart by is the order of calls (send_request), and it is
\* enough until then.
THEOREM EachCallGetsItsAnswer == Spec => []AnswersMatch
<1>1. Dispatched => AnswersMatch
  <2> SUFFICES ASSUME Dispatched, Good, NEW t \in Threads, NEW i \in 1..Len(queue[t]),
                      queue[t][i].type = "response"
               PROVE  queue[t][i].id = Top(t).id
    <3>1. TypeOK => \A t \in Threads : DOMAIN queue[t] = 1..Len(queue[t])
      BY DEF TypeOK
    <3>2. Dispatched => TypeOK
      BY StackMode DEF Dispatched, Delivery
    <3> QED
      BY <3>1, <3>2 DEF AnswersMatch, OwnAnswer, FirstResponse, Good
  <2>1. Delivery /\ AllPaired /\ Home[t] \in Procs
    BY StackMode DEF Dispatched, Pairing, Delivery
  <2> PICK m : m = queue[t][i]
    OBVIOUS
  <2>2. m \in Coming(Home[t]) /\ m.to = t
    BY <2>1, QueuedComes
  <2>3. Waits(t, m.src, m.id)
    BY <2>1, <2>2 DEF AllPaired, Paired
  <2> QED
    BY <2>3 DEF Waits
<1> QED
  BY <1>1, PairedAlways, PTL

\* A message on its way to q is on a wire, in a thread's queue or in the pump's.
LEMMA ComingCarried ==
    ASSUME Delivery, NEW q \in Procs, NEW m \in Coming(q), NEW y, y = m.type, NEW x, x = m.id
    PROVE  \/ Carries(wire[<<m.src, q>>], y, x)
           \/ m.to = None /\ Carries(default[q], y, x)
           \/ m.to \in ThreadsOf(q) /\ Carries(queue[m.to], y, x)
<1>1. Nesting /\ TypeOK /\ Addressed
  BY StackMode DEF Delivery
<1>2. m \in Message
  BY ComingInBoxes
<1>3. PICK b \in Boxes : Dest(b) = q /\ \E i \in 1..Len(Box(b)) : Box(b)[i] = m
  BY DEF Coming
<1>4. Fits(b, m)
  BY <1>1, <1>2, <1>3 DEF Addressed
<1>5. Carries(Box(b), y, x)
  <2>1. DOMAIN Box(b) = 1..Len(Box(b))
    <3>1. Box(b) \in Seq(Message)
      BY <1>1, BoxTyped
    <3> QED
      BY <3>1
  <2> QED
    BY <1>2, <1>3, <2>1 DEF Carries
<1>6. ASSUME NEW p \in Procs, NEW r \in Procs, b = WireBox(p, r)
      PROVE  Carries(wire[<<m.src, q>>], y, x)
  <2>1. b[1] = "wire" /\ b[2] = p /\ Dest(b) = r /\ Box(b) = wire[<<p, r>>]
    BY <1>6, WireBoxes
  <2>2. p = m.src /\ r = q
    BY <1>3, <1>4, <2>1 DEF Fits
  <2> QED
    BY <1>5, <2>1, <2>2
<1>7. ASSUME NEW u \in Threads, b = QueueBox(u)
      PROVE  m.to \in ThreadsOf(q) /\ Carries(queue[m.to], y, x)
  <2>1. b[1] = "queue" /\ b[2] = u /\ Dest(b) = Home[u] /\ Box(b) = queue[u]
    BY <1>7, QueueBoxes
  <2>2. m.to = u
    BY <1>4, <2>1 DEF Fits
  <2> QED
    BY <1>3, <1>5, <2>1, <2>2 DEF ThreadsOf
<1>8. ASSUME NEW p \in Procs, b = DefaultBox(p)
      PROVE  m.to = None /\ Carries(default[q], y, x)
  <2>1. b[1] = "default" /\ Dest(b) = p /\ Box(b) = default[p]
    BY <1>8, DefaultBoxes
  <2> QED
    BY <1>3, <1>4, <1>5, <2>1 DEF Fits
<1> QED
  BY <1>6, <1>7, <1>8, BoxKinds

\* A call is never lost, under the same conditions: while a thread is in it, and the
\* application called runs, its request is on the way or in the queue it belongs in, or
\* served, or its answer is on the way back or in the caller's queue.
THEOREM NoCallIsLost == Spec => []CallNotLost
<1>1. Dispatched => CallNotLost
  <2> SUFFICES ASSUME Dispatched, Good, NEW t \in Threads, NEW i \in 1..Len(stack[t]),
                      NEW f, f = stack[t][i], f.what = "call", f.peer \in up
               PROVE  Underway(t, f)
    <3>1. Dispatched => TypeOK
      BY StackMode DEF Dispatched, Delivery
    <3>2. Dispatched => \A t \in Threads : DOMAIN stack[t] = 1..Len(stack[t])
      BY <3>1 DEF TypeOK
    <3> QED
      BY <3>2 DEF CallNotLost, Underway, Good
  <2> PICK p, x : p = f.peer /\ x = f.id
    OBVIOUS
  <2>1. Delivery /\ Existence /\ TypeOK /\ Home[t] \in Procs /\ up \subseteq Procs
    BY StackMode DEF Dispatched, Pairing, Delivery
  <2>2. Going(t, p, x) /\ p \in Procs
    BY <2>1 DEF Existence
  <2>3. ASSUME NEW m \in Coming(p), m.type = "request", m.id = x, m.from = t PROVE Underway(t, f)
    <3>1. m.src = Home[t]
      BY <2>1, <2>3, ComingFits
    <3>2. \/ Carries(wire[<<m.src, p>>], "request", x)
          \/ Carries(default[p], "request", x)
          \/ m.to \in ThreadsOf(p) /\ Carries(queue[m.to], "request", x)
      BY <2>1, <2>2, <2>3, ComingCarried
    <3> QED
      BY <3>1, <3>2 DEF Underway
  <2>4. ASSUME NEW m \in Coming(Home[t]), m.type = "response", m.id = x, m.to = t, m.src = p
        PROVE  Underway(t, f)
    <3>1. m.to # None
      BY <2>4, DispatchAssumption
    <3>2. \/ Carries(wire[<<m.src, Home[t]>>], "response", x)
          \/ Carries(queue[m.to], "response", x)
      BY <2>1, <2>4, <3>1, ComingCarried
    <3> QED
      BY <2>4, <3>2 DEF Underway
  <2>5. ASSUME NEW s \in Threads, Home[s] = p, NEW k \in 1..Len(stack[s]),
               stack[s][k].what = "serve", stack[s][k].id = x
        PROVE  Underway(t, f)
    <3>1. s \in ThreadsOf(f.peer) /\ k \in DOMAIN stack[s]
      BY <2>1, <2>5, StackMode DEF ThreadsOf, Delivery
    <3> QED
      BY <2>5, <3>1 DEF Underway
  <2> QED
    BY <2>2, <2>3, <2>4, <2>5 DEF Going
<1> QED
  BY <1>1, PairedAlways, PTL

-----------------------------------------------------------------------------
\* Asynchronous requests: one that is for a thread finds it in a call to the poster's
\* application, and comes before whatever ends that call.

IsPost(n) == n.type = "post" /\ n.to # None

PostsUnderway ==
    {n \in Message : IsPost(n) /\ \E b \in Boxes : \E i \in 1..Len(Box(b)) : Box(b)[i] = n}

Expecting == \A n \in PostsUnderway : InCall(n.to) /\ Top(n.to).peer = n.src

\* Place i of box b is read before place j of box c.
Ahead(b, i, c, j) == (b = c /\ i < j) \/ (b[1] = "queue" /\ c[1] = "wire")

Ordered ==
    \A b, c \in Boxes : \A i \in 1..Len(Box(b)), j \in 1..Len(Box(c)) :
        IsPost(Box(b)[i]) /\ Sync(Box(c)[j]) /\ Box(b)[i].to = Box(c)[j].to => Ahead(b, i, c, j)

Awaited == Expecting /\ Ordered

LEMMA PostUnderway ==
    ASSUME TypeOK, NEW b \in Boxes, NEW i \in 1..Len(Box(b)), IsPost(Box(b)[i])
    PROVE  Box(b)[i] \in PostsUnderway
<1>1. Box(b)[i] \in Message
  BY BoxTyped
<1> QED
  BY <1>1 DEF PostsUnderway

LEMMA PostsAdding ==
    ASSUME TypeOK, NEW b \in Boxes, NEW m \in Message, Adds(b, m)
    PROVE  PostsUnderway' \subseteq PostsUnderway \cup (IF IsPost(m) THEN {m} ELSE {})
<1> SUFFICES ASSUME NEW n, n \in PostsUnderway', n \notin PostsUnderway PROVE n = m /\ IsPost(m)
  OBVIOUS
<1>1. IsPost(n) /\ n \in Message
  BY DEF PostsUnderway, IsPost, Boxes, WireBox, QueueBox, DefaultBox, Pairs
<1>2. PICK c \in Boxes : \E i \in 1..Len(Box(c)') : Box(c)'[i] = n
  BY DEF PostsUnderway, Boxes, WireBox, QueueBox, DefaultBox, Pairs
<1>3. PICK i \in 1..Len(Box(c)') : Box(c)'[i] = n
  BY <1>2
<1>4. CASE i \in 1..Len(Box(c)) /\ Box(c)'[i] = Box(c)[i]
  BY <1>1, <1>3, <1>4 DEF PostsUnderway
<1>5. CASE Box(c)'[i] = m
  BY <1>1, <1>3, <1>5
<1> QED
  BY <1>3, <1>4, <1>5, AfterAdding

LEMMA PostsLeft ==
    ASSUME TypeOK, NEW X, X = PostsUnderway,
           \A c \in Boxes : \A i \in 1..Len(Box(c)') :
               \E b \in Boxes : \E j \in 1..Len(Box(b)) : Box(c)'[i] = Box(b)[j]
    PROVE  PostsUnderway' \subseteq X
<1> SUFFICES ASSUME NEW n, n \in PostsUnderway' PROVE n \in PostsUnderway
  OBVIOUS
<1>1. IsPost(n) /\ n \in Message
  BY DEF PostsUnderway, IsPost
<1>2. PICK c \in Boxes : \E i \in 1..Len(Box(c)') : Box(c)'[i] = n
  BY DEF PostsUnderway
<1>3. PICK i \in 1..Len(Box(c)') : Box(c)'[i] = n
  BY <1>2
<1>4. \E b \in Boxes : \E j \in 1..Len(Box(b)) : n = Box(b)[j]
  BY <1>1, <1>3
<1> QED
  BY <1>1, <1>4 DEF PostsUnderway

LEMMA OrderedKept ==
    ASSUME Ordered, Keeps
    PROVE  Ordered'
  BY DEF Ordered, Keeps, IsPost, Sync, Ahead

LEMMA OrderedDropping ==
    ASSUME TypeOK, Ordered, NEW d \in Boxes, Drops(d)
    PROVE  Ordered'
<1> SUFFICES ASSUME NEW b \in Boxes, NEW c \in Boxes,
                    NEW i \in 1..Len(Box(b)'), NEW j \in 1..Len(Box(c)'), NEW n, NEW m,
                    n = Box(b)'[i], m = Box(c)'[j], IsPost(n), Sync(m), n.to = m.to
             PROVE  Ahead(b, i, c, j)
  BY DEF Ordered, IsPost, Sync, Ahead
<1>1. \/ b # d /\ i \in 1..Len(Box(b)) /\ n = Box(b)[i]
      \/ b = d /\ i + 1 \in 2..Len(Box(b)) /\ n = Box(b)[i + 1]
  BY AfterDropping
<1>2. \/ c # d /\ j \in 1..Len(Box(c)) /\ m = Box(c)[j]
      \/ c = d /\ j + 1 \in 2..Len(Box(c)) /\ m = Box(c)[j + 1]
  BY AfterDropping
<1>3. Len(Box(b)) \in Nat /\ Len(Box(c)) \in Nat /\ i \in Int /\ j \in Int
  BY BoxTyped, <1>1, <1>2
<1>4. (i + 1 \in 2..Len(Box(b)) => i + 1 \in 1..Len(Box(b)))
      /\ (j + 1 \in 2..Len(Box(c)) => j + 1 \in 1..Len(Box(c)))
  BY <1>3
<1>5. CASE b # d /\ c # d
  BY <1>1, <1>2, <1>5 DEF Ordered
<1>6. CASE b = d /\ c = d
  <2>1. Ahead(b, i + 1, c, j + 1)
    BY <1>1, <1>2, <1>4, <1>6 DEF Ordered
  <2> QED
    BY <1>3, <2>1 DEF Ahead
<1>7. CASE b = d /\ c # d
  <2>1. Ahead(b, i + 1, c, j)
    BY <1>1, <1>2, <1>4, <1>7 DEF Ordered
  <2> QED
    BY <1>7, <2>1 DEF Ahead
<1>8. CASE b # d /\ c = d
  <2>1. Ahead(b, i, c, j + 1)
    BY <1>1, <1>2, <1>4, <1>8 DEF Ordered
  <2> QED
    BY <1>8, <2>1 DEF Ahead
<1> QED
  BY <1>5, <1>6, <1>7, <1>8

LEMMA OrderedAdding ==
    ASSUME TypeOK, Ordered, NEW d \in Boxes, NEW a \in Message, Adds(d, a),
           IsPost(a) => \A c \in Boxes : \A j \in 1..Len(Box(c)) :
                            Sync(Box(c)[j]) => Box(c)[j].to # a.to,
           Sync(a) => \A b \in Boxes : \A i \in 1..Len(Box(b)) :
                          IsPost(Box(b)[i]) /\ Box(b)[i].to = a.to =>
                              b = d \/ (b[1] = "queue" /\ d[1] = "wire")
    PROVE  Ordered'
<1> SUFFICES ASSUME NEW b \in Boxes, NEW c \in Boxes,
                    NEW i \in 1..Len(Box(b)'), NEW j \in 1..Len(Box(c)'), NEW n, NEW m,
                    n = Box(b)'[i], m = Box(c)'[j], IsPost(n), Sync(m), n.to = m.to
             PROVE  Ahead(b, i, c, j)
  BY DEF Ordered, IsPost, Sync, Ahead
<1>1. \/ i \in 1..Len(Box(b)) /\ n = Box(b)[i]
      \/ b = d /\ i = Len(Box(b)) + 1 /\ n = a
  BY AfterAdding
<1>2. \/ j \in 1..Len(Box(c)) /\ m = Box(c)[j]
      \/ c = d /\ j = Len(Box(c)) + 1 /\ m = a
  BY AfterAdding
<1>3. Len(Box(b)) \in Nat /\ Len(Box(c)) \in Nat
  BY BoxTyped
<1>4. CASE i \in 1..Len(Box(b)) /\ n = Box(b)[i] /\ j \in 1..Len(Box(c)) /\ m = Box(c)[j]
  BY <1>4 DEF Ordered
<1>5. CASE n = a
  <2>1. m # a
    BY <1>5 DEF IsPost, Sync
  <2> QED
    BY <1>2, <1>5, <2>1
<1>6. CASE i \in 1..Len(Box(b)) /\ n = Box(b)[i] /\ c = d /\ j = Len(Box(c)) + 1 /\ m = a
  <2>1. b = c \/ (b[1] = "queue" /\ c[1] = "wire")
    BY <1>6
  <2>2. b = c => i < j
    BY <1>3, <1>6
  <2> QED
    BY <2>1, <2>2 DEF Ahead
<1> QED
  BY <1>1, <1>2, <1>4, <1>5, <1>6

LEMMA OrderedMoving ==
    ASSUME TypeOK, Addressed, Ordered, NEW x \in Boxes, NEW d \in Boxes, Moves(x, d),
           Box(x)[1] \in Message, Fits(d, Box(x)[1]), x[1] = "wire", d[1] # "wire",
           1 \in 1..Len(Box(x))
    PROVE  Ordered'
<1> PICK a : a = Box(x)[1]
  OBVIOUS
<1> SUFFICES ASSUME NEW b \in Boxes, NEW c \in Boxes,
                    NEW i \in 1..Len(Box(b)'), NEW j \in 1..Len(Box(c)'), NEW n, NEW m,
                    n = Box(b)'[i], m = Box(c)'[j], IsPost(n), Sync(m), n.to = m.to
             PROVE  Ahead(b, i, c, j)
  BY DEF Ordered, IsPost, Sync, Ahead
<1>1. \/ b # x /\ i \in 1..Len(Box(b)) /\ n = Box(b)[i]
      \/ b = x /\ i + 1 \in 2..Len(Box(b)) /\ n = Box(b)[i + 1]
      \/ b = d /\ b # x /\ i = Len(Box(b)) + 1 /\ n = a
  BY AfterMoving
<1>2. \/ c # x /\ j \in 1..Len(Box(c)) /\ m = Box(c)[j]
      \/ c = x /\ j + 1 \in 2..Len(Box(c)) /\ m = Box(c)[j + 1]
      \/ c = d /\ c # x /\ j = Len(Box(c)) + 1 /\ m = a
  BY AfterMoving
<1>3. Len(Box(b)) \in Nat /\ Len(Box(c)) \in Nat /\ i \in Int /\ j \in Int
      /\ i >= 1 /\ j >= 1
  BY BoxTyped, <1>1, <1>2
<1>4. (i + 1 \in 2..Len(Box(b)) => i + 1 \in 1..Len(Box(b)))
      /\ (j + 1 \in 2..Len(Box(c)) => j + 1 \in 1..Len(Box(c)))
  BY <1>3
<1>5. /\ d # x /\ Fits(d, a) /\ x[1] # "queue"
      /\ (b \in Boxes /\ b[1] # "wire" => b[1] \in {"queue", "default"})
      /\ d[1] \in {"queue", "default"}
  BY BoxKinds DEF Moves, WireBox, QueueBox, DefaultBox
<1>6. CASE n = a /\ b = d
  <2>1. m # a
    BY <1>6 DEF IsPost, Sync
  <2>2. d[1] = "queue"
    BY <1>5, <1>6 DEF Fits, IsPost
  <2>3. CASE c # x /\ j \in 1..Len(Box(c)) /\ m = Box(c)[j]
    <3>1. Ahead(x, 1, c, j)
      BY <1>6, <2>3 DEF Ordered
    <3> QED
      BY <1>5, <2>3, <3>1 DEF Ahead
  <2>4. CASE c = x
    BY <1>6, <2>2, <2>4 DEF Ahead
  <2> QED
    BY <1>2, <2>1, <2>3, <2>4
<1>7. CASE m = a /\ c = d /\ j = Len(Box(c)) + 1
  <2>1. n # a
    BY <1>7 DEF IsPost, Sync
  <2>2. CASE b # x /\ i \in 1..Len(Box(b)) /\ n = Box(b)[i]
    <3>1. Ahead(b, i, x, 1)
      BY <1>7, <2>2 DEF Ordered
    <3>2. b[1] = "queue"
      BY <2>2, <3>1 DEF Ahead
    <3>3. Fits(b, n)
      BY <2>2 DEF Addressed, IsPost
    <3>4. b[2] = n.to /\ d[1] = "queue" /\ d[2] = a.to
      BY <1>5, <1>7, <3>2, <3>3 DEF Fits, IsPost
    <3>5. b = d
      BY <1>7, <3>2, <3>4, BoxKinds DEF WireBox, QueueBox, DefaultBox
    <3> QED
      BY <1>3, <1>7, <2>2, <3>5 DEF Ahead
  <2>3. CASE b = x /\ i + 1 \in 2..Len(Box(b)) /\ n = Box(b)[i + 1]
    <3>1. Ahead(x, i + 1, x, 1)
      BY <1>4, <1>7, <2>3 DEF Ordered
    <3> QED
      BY <1>3, <1>5, <3>1 DEF Ahead
  <2> QED
    BY <1>1, <2>1, <2>2, <2>3
<1>8. ASSUME \/ b # x /\ i \in 1..Len(Box(b)) /\ n = Box(b)[i]
             \/ b = x /\ i + 1 \in 2..Len(Box(b)) /\ n = Box(b)[i + 1],
             \/ c # x /\ j \in 1..Len(Box(c)) /\ m = Box(c)[j]
             \/ c = x /\ j + 1 \in 2..Len(Box(c)) /\ m = Box(c)[j + 1]
      PROVE  Ahead(b, i, c, j)
  <2>1. CASE b # x /\ c # x
    BY <1>8, <2>1 DEF Ordered
  <2>2. CASE b = x /\ c = x
    <3>1. Ahead(b, i + 1, c, j + 1)
      BY <1>4, <1>8, <2>2 DEF Ordered
    <3> QED
      BY <1>3, <3>1 DEF Ahead
  <2>3. CASE b = x /\ c # x
    <3>1. Ahead(b, i + 1, c, j)
      BY <1>4, <1>8, <2>3 DEF Ordered
    <3> QED
      BY <2>3, <3>1 DEF Ahead
  <2>4. CASE b # x /\ c = x
    <3>1. Ahead(b, i, c, j + 1)
      BY <1>4, <1>8, <2>4 DEF Ordered
    <3> QED
      BY <2>4, <3>1 DEF Ahead
  <2> QED
    BY <2>1, <2>2, <2>3, <2>4
<1> QED
  BY <1>1, <1>2, <1>6, <1>7, <1>8

LEMMA OrderedEmptying ==
    ASSUME TypeOK, Ordered, NEW q \in Procs, Empties(q)
    PROVE  Ordered'
<1> SUFFICES ASSUME NEW b \in Boxes, NEW c \in Boxes,
                    NEW i \in 1..Len(Box(b)'), NEW j \in 1..Len(Box(c)'), NEW n, NEW m,
                    n = Box(b)'[i], m = Box(c)'[j], IsPost(n), Sync(m), n.to = m.to
             PROVE  Ahead(b, i, c, j)
  BY DEF Ordered, IsPost, Sync, Ahead
<1>1. i \in 1..Len(Box(b)) /\ n = Box(b)[i]
  BY AfterEmptying DEF IsPost
<1>2. j \in 1..Len(Box(c)) /\ m = Box(c)[j]
  BY AfterEmptying DEF Sync
<1> QED
  BY <1>1, <1>2 DEF Ordered

LEMMA PostFits ==
    ASSUME Delivery, NEW n \in PostsUnderway
    PROVE  /\ n \in Message /\ n.to \in Threads /\ n.src \in Procs
           /\ \E b \in Boxes : /\ Fits(b, n) /\ b[1] # "default"
                               /\ \E i \in 1..Len(Box(b)) : Box(b)[i] = n
<1>1. Addressed /\ n \in Message /\ IsPost(n)
  BY DEF Delivery, PostsUnderway
<1>2. PICK b \in Boxes : \E i \in 1..Len(Box(b)) : Box(b)[i] = n
  BY DEF PostsUnderway
<1>3. Fits(b, n)
  BY <1>1, <1>2 DEF Addressed, IsPost
<1>4. b[1] # "default"
  BY <1>1, <1>3 DEF Fits, IsPost
<1>5. n.to \in Threads /\ n.src \in Procs
  BY <1>1 DEF IsPost, Message
<1> QED
  BY <1>1, <1>2, <1>3, <1>4, <1>5

\* Who takes something that was waited for has no asynchronous request on its way.
LEMMA NonePosted ==
    ASSUME Delivery, Awaited, NEW t \in Threads, NEW m, queue[t] # <<>>, m = queue[t][1],
           Sync(m)
    PROVE  \A n \in PostsUnderway : n.to # t
<1>1. Nesting /\ TypeOK /\ Addressed /\ Ordered /\ queue[t] \in Seq(Message)
  BY StackMode DEF Delivery, Awaited
<1>2. 1 \in 1..Len(queue[t])
  BY <1>1
<1> PICK c : c = QueueBox(t)
  OBVIOUS
<1>3. c \in Boxes /\ c[1] = "queue" /\ c[2] = t /\ Box(c) = queue[t]
  BY QueueBoxes
<1>4. m.to = t
  <2>1. Fits(c, m)
    BY <1>1, <1>2, <1>3 DEF Addressed, Sync
  <2> QED
    BY <1>3, <2>1 DEF Fits
<1> SUFFICES ASSUME NEW n \in PostsUnderway, n.to = t PROVE FALSE
  OBVIOUS
<1>5. IsPost(n)
  BY DEF PostsUnderway
<1>6. PICK b \in Boxes : \E i \in 1..Len(Box(b)) : Box(b)[i] = n
  BY DEF PostsUnderway
<1>7. PICK i \in 1..Len(Box(b)) : Box(b)[i] = n
  BY <1>6
<1>8. Ahead(b, i, c, 1)
  BY <1>1, <1>2, <1>3, <1>4, <1>5, <1>7 DEF Ordered
<1> QED
  BY <1>3, <1>8 DEF Ahead

\* Nor has who gives up a call with nothing in its queue and nothing on its way.
LEMMA NonePostedByTheDead ==
    ASSUME Delivery, Awaited, NEW t \in Threads, queue[t] = <<>>,
           NEW q \in Procs, q = Top(t).peer, ~OnItsWay(q, t)
    PROVE  \A n \in PostsUnderway : n.to # t
<1> SUFFICES ASSUME NEW n \in PostsUnderway, n.to = t PROVE FALSE
  OBVIOUS
<1>0. TypeOK /\ Home[t] \in Procs
  BY StackMode DEF Delivery
<1>1. n.src = q /\ IsPost(n)
  BY DEF Awaited, Expecting, PostsUnderway
<1>2. PICK b \in Boxes : /\ Fits(b, n) /\ b[1] # "default"
                         /\ \E i \in 1..Len(Box(b)) : Box(b)[i] = n
  BY PostFits
<1>3. Box(b) # <<>>
  BY <1>2
<1>4. ASSUME NEW p \in Procs, NEW r \in Procs, b = WireBox(p, r) PROVE FALSE
  <2>1. b[1] = "wire" /\ b[2] = p /\ Dest(b) = r /\ Box(b) = wire[<<p, r>>]
    BY <1>4, WireBoxes
  <2>2. p = q /\ r = Home[t]
    BY <1>1, <1>2, <2>1 DEF Fits, IsPost
  <2>3. \E i \in 1..Len(wire[<<q, Home[t]>>]) : wire[<<q, Home[t]>>][i].to = t
    BY <1>2, <2>1, <2>2
  <2> QED
    BY <1>0, <2>3, NothingOnItsWay
<1>5. ASSUME NEW u \in Threads, b = QueueBox(u) PROVE FALSE
  <2>1. b[1] = "queue" /\ b[2] = u /\ Box(b) = queue[u]
    BY <1>5, QueueBoxes
  <2>2. u = t
    BY <1>2, <2>1 DEF Fits
  <2> QED
    BY <1>3, <2>1, <2>2
<1>6. ASSUME NEW p \in Procs, b = DefaultBox(p) PROVE FALSE
  BY <1>2, <1>6, DefaultBoxes
<1> QED
  BY <1>4, <1>5, <1>6, BoxKinds

LEMMA ExpectingKept ==
    ASSUME Delivery, Expecting, NEW t, PostsUnderway' \subseteq PostsUnderway,
           \A n \in PostsUnderway : n.to # t, \A u \in Threads : u # t => Alike(u)
    PROVE  Expecting'
<1> SUFFICES ASSUME NEW n, n \in PostsUnderway' PROVE InCall(n.to)' /\ Top(n.to)'.peer = n.src
  BY DEF Expecting, PostsUnderway, IsPost
<1>1. n \in PostsUnderway /\ n.to # t /\ n.to \in Threads
  BY PostFits
<1>2. Alike(n.to) /\ InCall(n.to) /\ Top(n.to).peer = n.src
  BY <1>1 DEF Expecting
<1> QED
  BY <1>2 DEF Alike, Top

\* What a step sends to a thread that waits in a call comes after what was posted to it.
LEMMA SyncBehind ==
    ASSUME Delivery, Expecting, NEW p \in Procs, NEW m \in Message, m.to # None,
           InCall(m.to), Top(m.to).peer = p
    PROVE  \A b \in Boxes : \A i \in 1..Len(Box(b)) :
               IsPost(Box(b)[i]) /\ Box(b)[i].to = m.to =>
                   b = WireBox(p, Home[m.to]) \/ b[1] = "queue"
<1> SUFFICES ASSUME NEW b \in Boxes, NEW i \in 1..Len(Box(b)), NEW n, n = Box(b)[i],
                    IsPost(n), n.to = m.to
             PROVE  b = WireBox(p, Home[m.to]) \/ b[1] = "queue"
  OBVIOUS
<1>1. Nesting /\ TypeOK /\ Addressed
  BY StackMode DEF Delivery
<1>2. n \in PostsUnderway
  BY <1>1, PostUnderway
<1>3. n.src = p
  BY <1>2 DEF Expecting
<1>4. Fits(b, n)
  BY <1>1 DEF Addressed, IsPost
<1>5. ASSUME NEW r \in Procs, NEW s \in Procs, b = WireBox(r, s) PROVE b = WireBox(p, Home[m.to])
  <2>1. b[1] = "wire" /\ b[2] = r /\ Dest(b) = s
    BY <1>5, WireBoxes
  <2>2. r = p /\ s = Home[m.to]
    BY <1>3, <1>4, <2>1 DEF Fits
  <2> QED
    BY <1>5, <2>2
<1>6. ASSUME NEW u \in Threads, b = QueueBox(u) PROVE b[1] = "queue"
  BY <1>6, QueueBoxes
<1>7. ASSUME NEW r \in Procs, b = DefaultBox(r) PROVE FALSE
  <2>1. b[1] = "default"
    BY <1>7, DefaultBoxes
  <2> QED
    BY <1>4, <2>1 DEF Fits, IsPost
<1> QED
  BY <1>5, <1>6, <1>7, BoxKinds

\* How each shape of step changes what is posted.

LEMMA KeepingAwaits ==
    ASSUME TypeOK, Ordered, Keeps
    PROVE  Ordered' /\ PostsUnderway' \subseteq PostsUnderway
<1>1. \A c \in Boxes : Box(c)' = Box(c)
  BY DEF Keeps
<1>2. PostsUnderway' \subseteq PostsUnderway
  BY <1>1, PostsLeft
<1> QED
  BY <1>2, OrderedKept

LEMMA DroppingAwaits ==
    ASSUME TypeOK, Ordered, NEW b \in Boxes, Drops(b)
    PROVE  Ordered' /\ PostsUnderway' \subseteq PostsUnderway
<1>1. ASSUME NEW c \in Boxes, NEW i \in 1..Len(Box(c)')
      PROVE  \E d \in Boxes : \E j \in 1..Len(Box(d)) : Box(c)'[i] = Box(d)[j]
  <2>1. CASE i \in 1..Len(Box(c)) /\ Box(c)'[i] = Box(c)[i]
    BY <2>1
  <2>2. CASE i + 1 \in 2..Len(Box(c)) /\ Box(c)'[i] = Box(c)[i + 1]
    <3>1. i + 1 \in 1..Len(Box(c))
      BY <2>2, BoxTyped
    <3> QED
      BY <2>2, <3>1
  <2> QED
    BY <2>1, <2>2, AfterDropping
<1>2. PostsUnderway' \subseteq PostsUnderway
  BY <1>1, PostsLeft
<1> QED
  BY <1>2, OrderedDropping

LEMMA MovingAwaits ==
    ASSUME TypeOK, Addressed, Ordered, NEW x \in Boxes, NEW d \in Boxes, Moves(x, d),
           Box(x)[1] \in Message, Fits(d, Box(x)[1]), x[1] = "wire", d[1] # "wire",
           1 \in 1..Len(Box(x))
    PROVE  Ordered' /\ PostsUnderway' \subseteq PostsUnderway
<1>1. ASSUME NEW c \in Boxes, NEW i \in 1..Len(Box(c)')
      PROVE  \E e \in Boxes : \E j \in 1..Len(Box(e)) : Box(c)'[i] = Box(e)[j]
  <2>1. CASE i \in 1..Len(Box(c)) /\ Box(c)'[i] = Box(c)[i]
    BY <2>1
  <2>2. CASE i + 1 \in 2..Len(Box(c)) /\ Box(c)'[i] = Box(c)[i + 1]
    <3>1. i + 1 \in 1..Len(Box(c))
      BY <2>2, BoxTyped
    <3> QED
      BY <2>2, <3>1
  <2>3. CASE Box(c)'[i] = Box(x)[1]
    BY <2>3
  <2> QED
    BY <2>1, <2>2, <2>3, AfterMoving
<1>2. PostsUnderway' \subseteq PostsUnderway
  BY <1>1, PostsLeft
<1> QED
  BY <1>2, OrderedMoving

LEMMA EmptyingAwaits ==
    ASSUME TypeOK, Ordered, NEW q \in Procs, Empties(q)
    PROVE  Ordered' /\ PostsUnderway' \subseteq PostsUnderway
<1>1. ASSUME NEW c \in Boxes, NEW i \in 1..Len(Box(c)')
      PROVE  \E e \in Boxes : \E j \in 1..Len(Box(e)) : Box(c)'[i] = Box(e)[j]
  BY <1>1, AfterEmptying
<1>2. PostsUnderway' \subseteq PostsUnderway
  BY <1>1, PostsLeft
<1> QED
  BY <1>2, OrderedEmptying

LEMMA SendingAwaits ==
    ASSUME Delivery, Awaited, NEW p \in Procs, NEW q \in Procs, NEW a \in Message, Sync(a),
           Sends(p, q, a),
           a.to # None /\ q \in up => InCall(a.to) /\ Top(a.to).peer = p /\ Home[a.to] = q
    PROVE  Ordered' /\ PostsUnderway' \subseteq PostsUnderway
<1>1. TypeOK /\ Ordered /\ Expecting
  BY StackMode DEF Delivery, Awaited
<1>2. CASE q \notin up
  BY <1>1, <1>2, KeepingAwaits DEF Sends
<1>3. CASE q \in up
  <2> PICK d : d = WireBox(p, q)
    OBVIOUS
  <2>1. d \in Boxes /\ d[1] = "wire" /\ Adds(d, a) /\ ~IsPost(a)
    BY <1>3, WireBoxes DEF Sends, IsPost, Sync
  <2>2. ASSUME NEW b \in Boxes, NEW i \in 1..Len(Box(b)), IsPost(Box(b)[i]), Box(b)[i].to = a.to
        PROVE  b = d \/ (b[1] = "queue" /\ d[1] = "wire")
    <3>1. a.to # None /\ InCall(a.to) /\ Top(a.to).peer = p /\ Home[a.to] = q
      BY <1>3, <2>2 DEF IsPost
    <3> QED
      BY <1>1, <2>1, <2>2, <3>1, SyncBehind
  <2>3. Ordered'
    BY <1>1, <2>1, <2>2, OrderedAdding
  <2>4. PostsUnderway' \subseteq PostsUnderway
    BY <1>1, <2>1, PostsAdding
  <2> QED
    BY <2>3, <2>4
<1> QED
  BY <1>2, <1>3

LEMMA PostingAwaits ==
    ASSUME Delivery, Awaited, NEW p \in Procs, NEW q \in Procs, NEW a \in Message, ~Sync(a),
           Sends(p, q, a),
           IsPost(a) /\ q \in up => \A r \in Procs : \A n \in Coming(r) : n.to # a.to
    PROVE  /\ Ordered'
           /\ \A n \in PostsUnderway' : n \in PostsUnderway \/ (n = a /\ IsPost(a) /\ q \in up)
<1>1. TypeOK /\ Ordered
  BY StackMode DEF Delivery, Awaited
<1>2. CASE q \notin up
  BY <1>1, <1>2, KeepingAwaits DEF Sends
<1>3. CASE q \in up
  <2> PICK d : d = WireBox(p, q)
    OBVIOUS
  <2>1. d \in Boxes /\ Adds(d, a)
    BY <1>3, WireBoxes DEF Sends
  <2>2. ASSUME IsPost(a), NEW c \in Boxes, NEW j \in 1..Len(Box(c)), Sync(Box(c)[j])
        PROVE  Box(c)[j].to # a.to
    <3>1. Box(c)[j] \in Coming(Dest(c)) /\ Dest(c) \in Procs
      BY <1>1, <2>2, BoxesCome, BoxTyped
    <3> QED
      BY <1>3, <2>2, <3>1
  <2>3. Ordered'
    BY <1>1, <2>1, <2>2, OrderedAdding
  <2>4. \A n \in PostsUnderway' : n \in PostsUnderway \/ (n = a /\ IsPost(a))
    <3>1. PostsUnderway' \subseteq PostsUnderway \cup (IF IsPost(a) THEN {a} ELSE {})
      BY <1>1, <2>1, PostsAdding
    <3> QED
      BY <3>1
  <2> QED
    BY <1>3, <2>3, <2>4
<1> QED
  BY <1>2, <1>3

LEMMA StillAwaits ==
    ASSUME Delivery, Expecting, Ordered', PostsUnderway' \subseteq PostsUnderway, UNCHANGED stack,
           \A u \in Threads : InCall(u)' <=> InCall(u)
    PROVE  Awaited'
<1>1. Expecting'
  <2> SUFFICES ASSUME NEW n, n \in PostsUnderway' PROVE InCall(n.to)' /\ Top(n.to)'.peer = n.src
    BY DEF Expecting, PostsUnderway, IsPost
  <2>1. n \in PostsUnderway /\ n.to \in Threads
    BY PostFits
  <2> QED
    BY <2>1 DEF Expecting, Top
<1> QED
  BY <1>1 DEF Awaited

\* Nothing is posted to the dead.
LEMMA PostedElsewhere ==
    ASSUME Delivery, NEW q \in Procs, Die(q)
    PROVE  \A n : n \in PostsUnderway' => Home[n.to] # q
<1>1. Nesting /\ TypeOK /\ Addressed
  BY StackMode DEF Delivery
<1>2. Empties(q)
  BY <1>1, DieEffects
<1> SUFFICES ASSUME NEW n, n \in PostsUnderway' PROVE Home[n.to] # q
  OBVIOUS
<1>3. IsPost(n)
  BY DEF PostsUnderway, IsPost
<1>4. PICK c \in Boxes : \E i \in 1..Len(Box(c)') : Box(c)'[i] = n
  BY DEF PostsUnderway
<1>5. PICK i \in 1..Len(Box(c)') : Box(c)'[i] = n
  BY <1>4
<1>6. Dest(c) # q /\ i \in 1..Len(Box(c)) /\ Box(c)[i] = n
  BY <1>1, <1>2, <1>3, <1>5, AfterEmptying
<1>7. Fits(c, n)
  BY <1>1, <1>3, <1>6 DEF Addressed
<1> QED
  BY <1>3, <1>6, <1>7 DEF Fits, IsPost

LEMMA AwaitedStep == Delivery /\ Pairing /\ Awaited /\ [Next]_vars /\ Good' => Awaited'
<1> SUFFICES ASSUME Delivery, Pairing, Awaited, [Next]_vars, Good' PROVE Awaited'
  OBVIOUS
<1>1. /\ Nesting /\ Addressed /\ TypeOK /\ Expecting /\ Ordered /\ Hung /\ Framed
      /\ AllPaired /\ up \subseteq Procs /\ \A t \in Threads : Home[t] \in Procs
  BY StackMode DEF Delivery, Awaited, Pairing
<1>2. ASSUME NEW t \in Threads, NEW q \in Procs, Call(t, q) PROVE Awaited'
  <2> PICK m : m = Request(t, q, "request")
    OBVIOUS
  <2>1. /\ Home[t] \in up /\ ~InCall(t) /\ m \in Message /\ Sends(Home[t], q, m)
        /\ Pushes(t, Asking(t, q)) /\ Asking(t, q) \in Frame
        /\ \A u \in Threads : u # t => (InCall(u)' <=> InCall(u))
        /\ ~ServesPostOf(t, q)
    BY <1>1, <1>2, CallEffects DEF Good
  <2>2. m.type = "request" /\ m.src = Home[t] /\ m.to = channel[t][q] /\ Sync(m)
    BY <2>1 DEF Request, Sync
  <2>3. m.to # None /\ q \in up => InCall(m.to) /\ Top(m.to).peer = Home[t] /\ Home[m.to] = q
    BY <2>1, <2>2, AddresseeWaits DEF Waits
  <2>4. Ordered' /\ PostsUnderway' \subseteq PostsUnderway
    BY <1>1, <2>1, <2>2, <2>3, SendingAwaits
  <2>5. \A u \in Threads : u # t => Alike(u)
    BY <1>1, <2>1, AfterPushing DEF Alike
  <2>6. \A n \in PostsUnderway : n.to # t
    BY <1>1, <2>1 DEF Expecting
  <2> QED
    BY <1>1, <2>4, <2>5, <2>6, ExpectingKept DEF Awaited
<1>3. ASSUME NEW t \in Threads, NEW q \in Procs, Post(t, q) PROVE Awaited'
  <2> PICK m : m = Request(t, q, "post")
    OBVIOUS
  <2>1. /\ Home[t] \in up /\ ~InCall(t) /\ m \in Message /\ Sends(Home[t], q, m)
        /\ \A u \in Threads : InCall(u)' <=> InCall(u)
        /\ ~ServesPostOf(t, q) /\ UNCHANGED stack
    BY <1>1, <1>3, PostEffects DEF Good
  <2>2. m.src = Home[t] /\ m.to = channel[t][q] /\ ~Sync(m)
    BY DEF Request, Sync
  <2>3. IsPost(m) /\ q \in up =>
            /\ InCall(m.to) /\ Top(m.to).peer = Home[t]
            /\ \A r \in Procs : \A n \in Coming(r) : n.to # m.to
    BY <2>1, <2>2, AddresseeWaits DEF Waits, IsPost
  <2>4. /\ Ordered'
        /\ \A n \in PostsUnderway' : n \in PostsUnderway \/ (n = m /\ IsPost(m) /\ q \in up)
    BY <1>1, <2>1, <2>2, <2>3, PostingAwaits
  <2>5. Expecting'
    <3> SUFFICES ASSUME NEW n, n \in PostsUnderway' PROVE InCall(n.to)' /\ Top(n.to)'.peer = n.src
      BY DEF Expecting, PostsUnderway, IsPost
    <3>1. InCall(n.to) /\ Top(n.to).peer = n.src /\ n.to \in Threads
      <4>1. CASE n \in PostsUnderway
        BY <1>1, <4>1, PostFits DEF Expecting
      <4>2. CASE n = m /\ IsPost(m) /\ q \in up
        <5>1. m.to \in Threads
          BY <2>1, <4>2 DEF IsPost, Message
        <5> QED
          BY <2>2, <2>3, <4>2, <5>1
      <4> QED
        BY <2>4, <4>1, <4>2
    <3> QED
      BY <2>1, <3>1 DEF Top
  <2> QED
    BY <2>4, <2>5 DEF Awaited
<1>4. ASSUME NEW t \in Threads, GoesToWait(t) \/ IsPulsed(t) PROVE Awaited'
  <2>1. Keeps /\ UNCHANGED stack /\ \A u \in Threads : InCall(u)' <=> InCall(u)
    BY <1>1, <1>4, IdleEffects
  <2> QED
    BY <1>1, <2>1, StillAwaits, KeepingAwaits
<1>5. ASSUME NEW t \in Threads, GivesUp(t) PROVE Awaited'
  <2> PICK q : q = Top(t).peer
    OBVIOUS
  <2>1. /\ InCall(t) /\ q \in Procs /\ Pops(t) /\ Keeps /\ queue[t] = <<>> /\ ~OnItsWay(q, t)
        /\ \A u \in Threads : u # t => (InCall(u)' <=> InCall(u))
    BY <1>1, <1>5, GivesUpEffects DEF Good
  <2>2. \A n \in PostsUnderway : n.to # t
    BY <2>1, NonePostedByTheDead
  <2>3. \A u \in Threads : u # t => Alike(u)
    BY <1>1, <2>1, AfterPopping DEF Alike
  <2>4. Ordered' /\ PostsUnderway' \subseteq PostsUnderway
    BY <1>1, <2>1, KeepingAwaits
  <2> QED
    BY <1>1, <2>2, <2>3, <2>4, ExpectingKept DEF Awaited
<1>6. ASSUME NEW t \in Threads, TakesResponse(t) PROVE Awaited'
  <2> PICK b, m : b = QueueBox(t) /\ m = Box(QueueBox(t))[1]
    OBVIOUS
  <2>1. /\ m \in Message /\ m.type = "response" /\ Pops(t) /\ Drops(b) /\ b \in Boxes
        /\ \A u \in Threads : u # t => (InCall(u)' <=> InCall(u))
    BY <1>1, <1>6, TakesResponseEffects, QueueBoxes
  <2>2. queue[t] # <<>> /\ m = queue[t][1] /\ Sync(m)
    BY <2>1, QueueBoxes DEF Sync, Drops
  <2>3. \A n \in PostsUnderway : n.to # t
    BY <2>2, NonePosted
  <2>4. \A u \in Threads : u # t => Alike(u)
    BY <1>1, <2>1, AfterPopping DEF Alike
  <2>5. Ordered' /\ PostsUnderway' \subseteq PostsUnderway
    BY <1>1, <2>1, DroppingAwaits
  <2> QED
    BY <1>1, <2>3, <2>4, <2>5, ExpectingKept DEF Awaited
<1>7. ASSUME NEW t \in Threads, NEW b, NEW m, StartsService(t, b, m),
             \A n \in PostsUnderway : n.to # t
      PROVE  Awaited'
  <2> PICK f : f = Servicing(t, m)
    OBVIOUS
  <2>1. /\ b \in Boxes /\ f \in Frame /\ Pushes(t, f) /\ Drops(b)
        /\ \A u \in Threads : u # t => (InCall(u)' <=> InCall(u))
    BY <1>7 DEF StartsService
  <2>2. \A u \in Threads : u # t => Alike(u)
    BY <1>1, <2>1, AfterPushing DEF Alike
  <2>3. Ordered' /\ PostsUnderway' \subseteq PostsUnderway
    BY <1>1, <2>1, DroppingAwaits
  <2> QED
    BY <1>1, <1>7, <2>2, <2>3, ExpectingKept DEF Awaited
<1>8. ASSUME NEW t \in Threads, TakesRequest(t) PROVE Awaited'
  <2> PICK b, m : b = QueueBox(t) /\ m = Box(QueueBox(t))[1]
    OBVIOUS
  <2>1. StartsService(t, b, m) /\ m.type # "post"
    BY <1>1, <1>8, TakesRequestEffects DEF Good
  <2>2. queue[t] # <<>> /\ m = queue[t][1] /\ Sync(m)
    BY <2>1, QueueBoxes DEF Sync, Drops, StartsService
  <2> QED
    BY <1>7, <2>1, <2>2, NonePosted
<1>9. ASSUME NEW t \in Threads, Pumped(t) PROVE Awaited'
  <2>1. \E b, m : StartsService(t, b, m)
    BY <1>1, <1>9, PumpedEffects
  <2>2. ~InCall(t)
    BY <1>1, <1>9, PumpedEffects, StackMode
  <2>3. \A n \in PostsUnderway : n.to # t
    BY <1>1, <2>2 DEF Expecting
  <2> QED
    BY <1>7, <2>1, <2>3
<1>10. ASSUME NEW t \in Threads, Finishes(t) PROVE Awaited'
  <2> PICK f, m : f = Top(t) /\ m = Answering(t)
    OBVIOUS
  <2>1. /\ Home[t] \in up /\ ~InCall(t) /\ f.what # "call" /\ Pops(t)
        /\ f.peer \in Procs /\ f.thread \in Threads /\ m \in Message
        /\ IF f.what = "serve" THEN Sends(Home[t], f.peer, m) ELSE Keeps
        /\ \A u \in Threads : u # t => (InCall(u)' <=> InCall(u))
    BY <1>1, <1>10, FinishesEffects
  <2>2. m.type = "response" /\ m.to = f.thread /\ Sync(m)
    BY <2>1 DEF Answering, Sync
  <2>3. Ordered' /\ PostsUnderway' \subseteq PostsUnderway
    <3>1. CASE f.what = "serve"
      <4> PICK n : n = Len(stack[t])
        OBVIOUS
      <4>1. n \in 1..Len(stack[t]) /\ stack[t][n] = f
        BY <1>1, <2>1, TopOfStack DEF Pops
      <4>2. f.peer = Home[f.thread]
        BY <1>1, <2>1, <4>1 DEF Framed, FrameFits
      <4>3. ASSUME f.peer \in up PROVE InCall(f.thread) /\ Top(f.thread).peer = Home[t]
        <5>1. /\ stack[t][n].thread = f.thread /\ stack[t][n].what = "serve"
              /\ stack[t][n].peer \in up /\ \A i \in n + 1..Len(stack[t]) : FALSE
          BY <3>1, <4>1, <4>3
        <5> QED
          BY <2>1, <4>1, <5>1, ServedWaits DEF Waits
      <4> QED
        BY <1>1, <2>1, <2>2, <3>1, <4>2, <4>3, SendingAwaits
    <3>2. CASE f.what # "serve"
      BY <1>1, <2>1, <3>2, KeepingAwaits
    <3> QED
      BY <3>1, <3>2
  <2>4. \A u \in Threads : u # t => Alike(u)
    BY <1>1, <2>1, AfterPopping DEF Alike
  <2>5. \A n \in PostsUnderway : n.to # t
    BY <1>1, <2>1 DEF Expecting
  <2> QED
    BY <1>1, <2>3, <2>4, <2>5, ExpectingKept DEF Awaited
<1>11. ASSUME NEW p \in Procs, NEW q \in Procs, Sorts(p, q) PROVE Awaited'
  <2>1. /\ \E b, d \in Boxes : /\ Moves(b, d) /\ Box(b)[1] \in Message /\ Fits(d, Box(b)[1])
                               /\ b[1] = "wire" /\ d[1] # "wire" /\ 1 \in 1..Len(Box(b))
        /\ \A u \in Threads : InCall(u)' <=> InCall(u)
        /\ UNCHANGED stack
    BY <1>1, <1>11, SortsEffects
  <2>2. Ordered' /\ PostsUnderway' \subseteq PostsUnderway
    BY <1>1, <2>1, MovingAwaits
  <2> QED
    BY <1>1, <2>1, <2>2, StillAwaits
<1>12. ASSUME NEW p \in Procs, NEW q \in Procs, Closes(p, q) PROVE Awaited'
  <2>1. Keeps /\ UNCHANGED stack /\ \A u \in Threads : InCall(u)' <=> InCall(u)
    BY <1>1, <1>12, ClosesEffects
  <2>2. Ordered' /\ PostsUnderway' \subseteq PostsUnderway
    BY <1>1, <2>1, KeepingAwaits
  <2> QED
    BY <1>1, <2>1, <2>2, StillAwaits
<1>13. ASSUME NEW q \in Procs, Die(q) PROVE Awaited'
  <2>1. /\ Empties(q)
        /\ \A t \in Threads : Home[t] # q => Alike(t)
    BY <1>1, <1>13, DieEffects DEF Alike
  <2>2. Ordered' /\ PostsUnderway' \subseteq PostsUnderway
    BY <1>1, <2>1, EmptyingAwaits
  <2>3. \A n : n \in PostsUnderway' => Home[n.to] # q
    BY <1>1, <1>13, PostedElsewhere
  <2>4. Expecting'
    <3> SUFFICES ASSUME NEW n, n \in PostsUnderway' PROVE InCall(n.to)' /\ Top(n.to)'.peer = n.src
      BY DEF Expecting, PostsUnderway, IsPost
    <3>1. n \in PostsUnderway /\ Home[n.to] # q /\ n.to \in Threads
      BY <2>2, <2>3, PostFits
    <3>2. Alike(n.to) /\ InCall(n.to) /\ Top(n.to).peer = n.src
      BY <1>1, <2>1, <3>1 DEF Expecting
    <3> QED
      BY <3>2 DEF Alike, Top
  <2> QED
    BY <2>2, <2>4 DEF Awaited
<1>14. CASE UNCHANGED vars
  <2>1. UNCHANGED <<wire, queue, default>> /\ UNCHANGED stack /\ UNCHANGED mode
    BY <1>14 DEF vars
  <2>2. Keeps /\ \A u \in Threads : InCall(u)' <=> InCall(u)
    BY <2>1, SameBoxes DEF InCall
  <2> QED
    BY <1>1, <2>1, <2>2, StillAwaits, KeepingAwaits
<1> QED
  BY <1>2, <1>3, <1>4, <1>5, <1>6, <1>8, <1>9, <1>10, <1>11, <1>12, <1>13, <1>14
     DEF Next, Handling, ThreadStep

LEMMA AwaitedStarts == Init => Awaited
<1> SUFFICES ASSUME Init PROVE Awaited
  OBVIOUS
<1>1. \A b \in Boxes : Box(b) = <<>>
  BY EmptyAtFirst
<1>2. \A b \in Boxes : 1..Len(Box(b)) = {}
  BY <1>1
<1>3. Expecting
  BY <1>2 DEF Expecting, PostsUnderway
<1>4. Ordered
  BY <1>2 DEF Ordered
<1> QED
  BY <1>3, <1>4 DEF Awaited

LEMMA AwaitedAlways == Spec => [](Dispatched /\ (Good => Awaited))
<1>1. Init => Dispatched /\ (Good => Awaited)
  BY DeliveryStarts, PairingStarts, AwaitedStarts DEF Dispatched
<1>2. Dispatched /\ (Good => Awaited) /\ [Next]_vars => Dispatched' /\ (Good' => Awaited')
  <2> SUFFICES ASSUME Dispatched, Good => Awaited, [Next]_vars
               PROVE  Dispatched' /\ (Good' => Awaited')
    OBVIOUS
  <2>1. Delivery /\ Nesting /\ (Good => Pairing)
    BY DEF Dispatched, Delivery
  <2>2. Delivery'
    BY <2>1, DeliveryStep
  <2>3. ASSUME Good' PROVE Pairing' /\ Awaited'
    BY <2>1, <2>3, GoodBefore, PairingStep, AwaitedStep
  <2> QED
    BY <2>2, <2>3 DEF Dispatched
<1> QED
  BY <1>1, <1>2, PTL DEF Spec

\* Whatever the calls, callbacks, asynchronous requests and deaths, a request that is
\* put in a thread's queue finds the thread in a call to the application it comes from,
\* the one place where it is taken up (wait_for_response): until somebody calls back the
\* poster of an asynchronous request, or leaves a call with messages behind it.
THEOREM CallbacksFindTheCaller == Spec => []CallbacksMeetCaller
<1>1. Dispatched /\ (Good => Awaited) => CallbacksMeetCaller
  <2> SUFFICES ASSUME Dispatched, Good, Awaited, NEW t \in Threads, NEW i \in 1..Len(queue[t]),
                      queue[t][i].type # "response", queue[t][i].src \in up
               PROVE  InCall(t) /\ Top(t).peer = queue[t][i].src
    <3>1. TypeOK => \A u \in Threads : DOMAIN queue[u] = 1..Len(queue[u])
      BY DEF TypeOK
    <3>2. Dispatched => TypeOK
      BY StackMode DEF Dispatched, Delivery
    <3> QED
      BY <3>1, <3>2 DEF CallbacksMeetCaller, Expected, Good
  <2>1. /\ Delivery /\ AllPaired /\ Nesting /\ TypeOK /\ Addressed /\ Home[t] \in Procs
        /\ Expecting /\ queue[t] \in Seq(Message) /\ t # None
    BY StackMode, DispatchAssumption DEF Dispatched, Pairing, Delivery, Awaited
  <2> PICK m : m = queue[t][i]
    OBVIOUS
  <2>2. m \in Message
    BY <2>1
  <2>3. CASE m.type = "post"
    <3> PICK b : b = QueueBox(t)
      OBVIOUS
    <3>1. b \in Boxes /\ b[1] = "queue" /\ b[2] = t /\ Box(b) = queue[t]
      BY QueueBoxes
    <3>2. i \in 1..Len(Box(b)) /\ Box(b)[i] = m
      BY <3>1
    <3>3. m.to = t
      BY <2>1, <2>2, <3>1, <3>2 DEF Addressed, Fits
    <3>4. m \in PostsUnderway
      <4>1. IsPost(Box(b)[i])
        BY <2>1, <2>2, <2>3, <3>2, <3>3 DEF IsPost
      <4> QED
        BY <2>1, <3>1, <3>2, <4>1, PostUnderway
    <3> QED
      BY <2>1, <3>3, <3>4 DEF Expecting
  <2>4. CASE m.type = "request"
    <3>1. m \in Coming(Home[t]) /\ m.to = t
      BY <2>1, <2>4, QueuedComes
    <3> QED
      BY <2>1, <2>4, <3>1 DEF AllPaired, Paired
  <2>5. m.type \in {"request", "response", "post"}
    BY <2>2 DEF Message
  <2> QED
    BY <2>3, <2>4, <2>5
<1> QED
  BY <1>1, AwaitedAlways, PTL

=============================================================================
