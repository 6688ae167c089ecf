----------------------------- MODULE Marshalling -----------------------------
(***************************************************************************)
(* One call of a method on an object in another process: the proxy writes  *)
(* its parameters to a message, the stub reads them, calls the object, and *)
(* writes what it left in them and returned, which the proxy reads (the    *)
(* wire types of wire.h, the methods that export.h makes of an interface's *)
(* declaration, StdObjectManager's marshalling, and CDRMessage).           *)
(*                                                                         *)
(* A CDRMessage knows neither names nor structures: a message is the       *)
(* sequence of what is still to be read from it. Every parameter, and the  *)
(* variable it is read into, is a sequence of numbers: one number for a    *)
(* value, one for an interface, any for an array or a collection, and a    *)
(* key and what it has for each of a map's pairs.                          *)
(***************************************************************************)
EXTENDS Integers, Sequences, SequencesExt

CONSTANTS
    MaxParams,   \* bound: parameters, the returned one among them
    MaxValue     \* bound: values are 0 to this, and so are sizes

\* Interface pointers: NULL, an object of the caller's, one of the callee's, the
\* exception, and an object that is marshalled by value (as an IMessage is).
Null == 0
Mine == 1
Theirs == 2
Thrown == 3
Copied == 4
Stubbed == {Mine, Theirs, Thrown}

Values == 0..MaxValue
Metas == {"in", "out", "in_out"}
Returned == [meta : {"ret"}, type : {"value", "iface"}]

\* The methods. Of an array the first parameter is the size, and is passed in.
Methods ==
    {s \in UNION {[1..n -> [meta : Metas, type : {"value", "iface", "array", "list", "map"}]]
                  : n \in 1..MaxParams} :
        \A j \in DOMAIN s : s[j].type = "array" =>
            j > 1 /\ s[1].type = "value" /\ s[1].meta # "out"}
Sigs == Methods \cup {Append(s, r) : s \in {t \in Methods : Len(t) < MaxParams}, r \in Returned}

VARIABLES
    sig,      \* the parameters of the method, what it returns last
    passed,   \* the caller's variables when it made the call
    vals,     \* the caller's variables
    impl,     \* the callee's
    request,  \* the message out, from its read pointer on,
    reply,    \* and the message back
    at,       \* where the call is,
    i,        \* and at which parameter
    late,     \* how the caller gave up on a call that was delivered, if it did
    prior,    \* objects that are referred to from the other side already
    sent,     \* references marshalled to each object,
    freed,    \* those undone by ReleaseMarshalData,
    taken     \* and those that the other side has unmarshalled

vars == <<sig, passed, vals, impl, request, reply, at, i, late, prior, sent, freed, taken>>

Lists == {<<>>, <<MaxValue>>}
Maps == {<<>>, <<0, MaxValue>>}

\* What a caller passes: a value other than the first, which may be a size, is
\* MaxValue. A variable for an interface to come holds NULL.
Passes(s) ==
    {x \in [DOMAIN s -> Lists \cup Maps \cup [1..1 -> 0..Copied] \cup [1..2 -> {0, 1}]] :
        \A j \in DOMAIN s :
            CASE s[j].type = "value" -> Len(x[j]) = 1 /\ x[j][1] \in (IF j = 1 THEN Values ELSE {MaxValue})
              [] s[j].type = "iface" /\ s[j].meta \in {"in", "in_out"} ->
                    Len(x[j]) = 1 /\ x[j][1] \in {Null, Mine, Copied}
              [] s[j].type = "iface" -> x[j] = <<Null>>
              [] s[j].type = "array" -> Len(x[j]) = x[1][1] /\ \A k \in DOMAIN x[j] : x[j][k] \in {0, 1}
              [] s[j].type = "list" -> x[j] \in Lists
              [] s[j].type = "map" -> x[j] \in Maps}

-----------------------------------------------------------------------------
\* What is written: values with their type, and counts without one.

Num(n) == [k |-> "num", n |-> n]
Guid == [k |-> "guid", n |-> 0]
Raw(n) == [k |-> "raw", n |-> n]
header == <<Num(1), Guid, Num(3)>>   \* $stub_id, $iid, $method_id

\* StdObjectManager::MarshalInterface: $marshal_type, and Stub's id and iid, or
\* the factory's $oid and CDRMessage's length and data.
Iface(o) ==
    CASE o = Null -> <<Num(0)>>
      [] o = Copied -> <<Num(2), Guid, Num(1), Raw(1)>>
      [] OTHER -> <<Num(1), Num(o), Guid>>

\* wire_type::write. A map's pairs are counted, not its numbers.
WrittenArray(x) == <<Raw(Len(x))>> \o [j \in DOMAIN x |-> Num(x[j])]
WrittenColl(x) == <<Raw(Len(x))>> \o [j \in DOMAIN x |-> Num(x[j])]
WrittenMap(x) == <<Raw(Len(x) \div 2)>> \o [j \in DOMAIN x |-> Num(x[j])]
Written(type, x) ==
    CASE type = "value" -> <<Num(x[1])>>
      [] type = "iface" -> Iface(x[1])
      [] type = "array" -> WrittenArray(x)
      [] type = "list" -> WrittenColl(x)
      [] type = "map" -> WrittenMap(x)

Readable(m, n) == Len(m) >= n /\ \A j \in 1..n : m[j].k # "raw"
Numbers(m, n) == Len(m) >= n /\ \A j \in 1..n : m[j].k = "num"
Drop(m, n) == SubSeq(m, n + 1, Len(m))
Least(a, b) == IF a < b THEN a ELSE b

Elements(m, n) == [j \in 1..n |-> m[j].n]
Threw(x, m) == [ok |-> FALSE, x |-> x, m |-> m]
Became(x, m) == [ok |-> TRUE, x |-> x, m |-> m]

\* wire_type::read into a variable that holds x. UnmarshalInterface: no object, a
\* proxy of a stub, or one that its own factory makes. An array that is in the
\* caller's memory takes size elements, however many were sent; the stub's array
\* is as long as what was sent. A collection is added to, and a map keeps what it
\* has for a key.
ReadValue(m, x) == IF Numbers(m, 1) THEN Became(<<m[1].n>>, Tail(m)) ELSE Threw(x, m)

UnmarshalInterface(m, x) ==
    CASE Numbers(m, 1) /\ m[1].n = 0 -> Became(<<Null>>, Tail(m))
      [] Numbers(m, 2) /\ Readable(m, 3) /\ m[1].n = 1 -> Became(<<m[2].n>>, Drop(m, 3))
      [] Len(m) >= 4 /\ m[1].k = "num" /\ m[1].n = 2 /\ m[3].k = "num" /\ m[4].k = "raw" ->
             Became(<<Copied>>, Drop(m, 4))
      [] OTHER -> Threw(x, m)

ReadArray(m, x, size) ==
    LET n == IF size < 0 THEN m[1].n ELSE size IN
    IF ~Numbers(Tail(m), n) THEN Threw(x, m)
    ELSE Became(Elements(Tail(m), n) \o Drop(x, n), Drop(m, n + 1))

ReadColl(m, x) ==
    IF ~Numbers(Tail(m), m[1].n) THEN Threw(x, m)
    ELSE Became(x \o Elements(Tail(m), m[1].n), Drop(m, m[1].n + 1))

\* The places of a map's keys.
Keys(x) == {j \in DOMAIN x : j % 2 = 1}
Has(x, k) == \E j \in Keys(x) : x[j] = k
ReadMap(m, x) ==
    LET n == 2 * m[1].n
        new == Elements(Tail(m), n)
        insert(y, j) == IF Has(y, new[2 * j - 1]) THEN y ELSE y \o <<new[2 * j - 1], new[2 * j]>>
    IN  IF ~Numbers(Tail(m), n) THEN Threw(x, m)
        ELSE Became(FoldLeft(insert, x, [j \in 1..m[1].n |-> j]), Drop(m, n + 1))

Read(type, m, x, size) ==
    CASE type = "value" -> ReadValue(m, x)
      [] type = "iface" -> UnmarshalInterface(m, x)
      [] type = "array" -> ReadArray(m, x, size)
      [] type = "list" -> ReadColl(m, x)
      [] type = "map" -> ReadMap(m, x)

-----------------------------------------------------------------------------
\* Taking back what was written to a message that is not sent.

HasStub(o) == o \in Stubbed /\ (IF o \in prior THEN 1 ELSE 0) + sent[o] - freed[o] > 0

Skipped(m, n) == IF Readable(m, n) THEN [ok |-> TRUE, m |-> Drop(m, n), free |-> Null]
                 ELSE [ok |-> FALSE, m |-> m, free |-> Null]

\* StdObjectManager::ReleaseMarshalData reads the id, and Stub::ReleaseMarshalData
\* gives the reference up and reads the id, again, and the iid. It is the object
\* in the variable that is given up, whatever the message says.
UnpackIface(o, m) ==
    IF ~Numbers(m, 1) THEN [ok |-> FALSE, m |-> m, free |-> Null]
    ELSE CASE m[1].n = 0 -> Skipped(m, 1)
           [] m[1].n = 1 /\ (o = Null \/ ~Readable(m, 2)) -> Skipped(m, 2)
           [] m[1].n = 1 /\ o # Null /\ Readable(m, 2) ->
                  IF HasStub(o) THEN [Skipped(m, 4) EXCEPT !.free = o]
                  ELSE [ok |-> FALSE, m |-> m, free |-> Null]
           [] m[1].n = 2 ->
                  [ok |-> /\ Len(m) >= 4 /\ o = Copied /\ Readable(m, 3)
                          /\ m[3].k = "num" /\ m[4].k = "raw" /\ m[4].n <= m[3].n,
                   m |-> Drop(m, Least(4, Len(m))), free |-> Null]
           [] OTHER -> [ok |-> FALSE, m |-> m, free |-> Null]

\* wire_type::unpack: no more elements than the variable has are passed over.
Counted(x, m, each) ==
    IF m = <<>> \/ m[1].k # "raw" THEN [ok |-> FALSE, m |-> m, free |-> Null]
    ELSE Skipped(Tail(m), Least(each * m[1].n, Len(x)))
UnpackArray(x, m) == Counted(x, m, 1)
UnpackColl(x, m) == Counted(x, m, 1)
UnpackMap(x, m) == Counted(x, m, 2)
Unpack(type, x, m) ==
    CASE type = "value" -> Skipped(m, 1)
      [] type = "iface" -> UnpackIface(x[1], m)
      [] type = "array" -> UnpackArray(x, m)
      [] type = "list" -> UnpackColl(x, m)
      [] type = "map" -> UnpackMap(x, m)

\* Mutant: all that the variables hold is given up, written or not.
UnpackedAll(x, m, n) ==
    [ok |-> TRUE, m |-> m,
     free |-> SelectSeq([j \in 1..n |-> x[j][1]], LAMBDA o : o \in Stubbed)]

\* The catch of a method, after n parameters were written: in parameters are
\* passed over, and the others unpacked, until that throws too.
Unpacked(x, m, n) ==
    LET f[j \in 0..n] ==
            IF j = 0 THEN [ok |-> TRUE, m |-> m, free |-> <<>>]
            ELSE IF ~f[j - 1].ok \/ sig[j].meta \in {"in", "ret"} THEN f[j - 1]
            ELSE LET u == Unpack(sig[j].type, x[j], f[j - 1].m)
                 IN  [ok |-> u.ok, m |-> u.m,
                      free |-> IF u.free = Null THEN f[j - 1].free
                               ELSE Append(f[j - 1].free, u.free)]
    IN  f[n]

Count(s, o) == Len(SelectSeq(s, LAMBDA p : p = o))
Frees(s) == freed' = [o \in Stubbed |-> freed[o] + Count(s, o)]
Plus(f, type, x) ==
    IF type = "iface" /\ x[1] \in Stubbed THEN [f EXCEPT ![x[1]] = @ + 1] ELSE f

-----------------------------------------------------------------------------

Init ==
    /\ sig \in Sigs
    /\ passed \in Passes(sig) /\ vals = passed
    /\ impl = [j \in DOMAIN sig |-> <<>>]
    /\ request = header /\ reply = <<>>
    /\ at = "write" /\ i = 1 /\ late = "no"
    /\ prior \in {{}, {Mine, Theirs}}
    /\ sent = [o \in Stubbed |-> 0] /\ freed = sent /\ taken = sent

p == sig[i]
HasMore == i <= Len(sig)
fixed == <<sig, passed, prior>>

\* The proxy's method writes its parameters ...
WriteParam ==
    /\ at = "write" /\ HasMore
    /\ IF p.meta \in {"in", "in_out"}
       THEN /\ request' = request \o Written(p.type, vals[i])
            /\ sent' = Plus(sent, p.type, vals[i])
       ELSE UNCHANGED <<request, sent>>
    /\ i' = i + 1
    /\ UNCHANGED <<fixed, vals, impl, reply, at, late, freed, taken>>

\* UnpackHeader and OMEGA_UNPACK_PARAMS_WIRE_PROXY.
GiveUp(m, n) ==
    LET h == Skipped(m, Len(header)) IN Frees(IF h.ok THEN Unpacked(vals, h.m, n).free ELSE <<>>)

\* ... an interface cannot be marshalled: if it is by its own IMarshal, then
\* CustomMarshalInterface reads $marshal_type and $oid again, where it thinks they
\* are ...
WriteFails ==
    /\ at = "write" /\ HasMore
    /\ p.type = "iface" /\ p.meta \in {"in", "in_out"}
    /\ GiveUp(IF vals[i][1] = Copied THEN Drop(request \o <<Num(2), Guid>>, 2) ELSE request, i - 1)
    /\ at' = "failed"
    /\ UNCHANGED <<fixed, vals, impl, request, reply, i, late, sent, taken>>

\* ... and sends the request. If the channel closes while the caller waits,
\* OOCore's channel returns the failure and nothing is given up, whether the
\* request was read or not. SendAndReceive throws when the request could not be
\* sent; a user process's channel does so also of one that was sent, as it closes.
Send ==
    /\ at = "write" /\ ~HasMore
    /\ \/ late' = "no" /\ at' = "stub" /\ UNCHANGED freed
       \/ late' = "closed" /\ at' \in {"stub", "failed"} /\ UNCHANGED freed
       \/ late' = "thrown" /\ at' = "stub" /\ GiveUp(request, Len(sig))
       \/ late' = "no" /\ at' = "failed" /\ GiveUp(request, Len(sig))
    /\ request' = Drop(request, Len(header)) /\ i' = 1
    /\ UNCHANGED <<fixed, vals, impl, reply, sent, taken>>

\* StdObjectManager::Invoke drops the reply and starts another.
Answers ==
    /\ reply' = <<Num(1)>> \o Iface(Thrown)
    /\ sent' = [sent EXCEPT ![Thrown] = @ + 1]
    /\ at' = "thrown"

\* The stub has gone, or has no such interface.
Refuse ==
    /\ at = "stub" /\ i = 1
    /\ Answers
    /\ UNCHANGED <<fixed, vals, impl, request, i, late, freed, taken>>

\* The stub's method declares a variable for each parameter and reads it; one for
\* an out parameter is initialised, an array to the size that was read before.
StubReads ==
    /\ at = "stub" /\ HasMore
    /\ IF p.meta \in {"in", "in_out"}
       THEN LET r == Read(p.type, request, <<>>, -1)
            IN  /\ impl' = [impl EXCEPT ![i] = r.x] /\ request' = r.m
                /\ taken' = Plus(taken, p.type, r.x)
       ELSE /\ impl' = [impl EXCEPT ![i] =
                    IF p.type \in {"list", "map"} THEN <<>>
                    ELSE IF p.type = "array" THEN [j \in 1..impl[1][1] |-> 0] ELSE <<0>>]
            /\ UNCHANGED <<request, taken>>
    /\ i' = i + 1
    /\ UNCHANGED <<fixed, vals, reply, at, late, sent, freed>>

\* The object is unmarshalled, and has no such interface.
StubReadFails ==
    /\ at = "stub" /\ HasMore
    /\ p.type = "iface" /\ p.meta \in {"in", "in_out"} /\ vals[i][1] # Null
    /\ taken' = Plus(taken, p.type, vals[i])
    /\ Answers
    /\ UNCHANGED <<fixed, vals, impl, request, i, late, freed>>

\* What the object may leave in its variables. It knows the arrays' length, and
\* may leave another size beside it.
Leaves(j) ==
    IF sig[j].meta = "in" THEN {impl[j]}
    ELSE CASE sig[j].type = "value" -> {<<v>> : v \in Values}
           [] sig[j].type = "iface" -> {<<Null>>, <<Theirs>>, <<Copied>>}
           [] sig[j].type = "array" -> {impl[j], [k \in DOMAIN impl[j] |-> 1]}
           [] sig[j].type = "list" -> {impl[j], <<0, 1>>}
           [] sig[j].type = "map" -> {impl[j], <<0, 0, 1, 1>>}

Implement ==
    /\ at = "stub" /\ ~HasMore
    /\ impl' \in {x \in [DOMAIN sig -> UNION {Leaves(j) : j \in DOMAIN sig}] :
                    \A j \in DOMAIN sig : x[j] \in Leaves(j)}
    /\ reply' = <<Num(0)>> /\ at' = "reply" /\ i' = 1
    /\ UNCHANGED <<fixed, vals, request, late, sent, freed, taken>>

ImplementThrows ==
    /\ at = "stub" /\ ~HasMore
    /\ Answers
    /\ UNCHANGED <<fixed, vals, impl, request, i, late, freed, taken>>

\* No more of an array is written than was allocated for it.
StubWrites ==
    /\ at = "reply" /\ HasMore
    /\ IF p.meta = "in" THEN UNCHANGED <<reply, sent>>
       ELSE LET x == IF p.type = "array" THEN SubSeq(impl[i], 1, Least(impl[1][1], Len(impl[i])))
                     ELSE impl[i]
            IN  /\ reply' = reply \o Written(p.type, x)
                /\ sent' = Plus(sent, p.type, x)
    /\ i' = i + 1
    /\ UNCHANGED <<fixed, vals, impl, request, at, late, freed, taken>>

\* The stub's catch unpacks from the start of the reply, where $throw still is.
StubWriteFails ==
    /\ at = "reply" /\ HasMore
    /\ p.type = "iface" /\ p.meta # "in"
    /\ Frees(Unpacked(impl, IF impl[i][1] = Copied THEN Drop(reply \o <<Num(2), Guid>>, 2)
                            ELSE reply, i - 1).free)
    /\ Answers
    /\ UNCHANGED <<fixed, vals, impl, request, i, late, taken>>

\* The channel hands the reply to the caller, if it waits still, and its
\* SendAndReceive reads $throw.
Deliver ==
    /\ at = "reply" /\ ~HasMore
    /\ at' = IF late = "no" THEN "read" ELSE "failed"
    /\ reply' = Tail(reply) /\ i' = 1
    /\ UNCHANGED <<fixed, vals, impl, request, late, sent, freed, taken>>

Rethrow ==
    /\ at = "thrown"
    /\ at' = "failed"
    /\ taken' = IF late = "no" THEN [taken EXCEPT ![Thrown] = @ + 1] ELSE taken
    /\ UNCHANGED <<fixed, vals, impl, request, reply, i, late, sent, freed>>

ProxyReads ==
    /\ at = "read" /\ HasMore
    /\ IF p.meta = "in" THEN UNCHANGED <<vals, reply, taken, at>>
       ELSE LET r == Read(p.type, reply, vals[i], IF p.type = "array" THEN vals[1][1] ELSE -1)
            IN  /\ vals' = [vals EXCEPT ![i] = r.x] /\ reply' = r.m
                /\ at' = IF r.ok THEN at ELSE "failed"
                /\ taken' = IF r.ok THEN Plus(taken, p.type, r.x) ELSE taken
    /\ i' = i + 1
    /\ UNCHANGED <<fixed, impl, request, late, sent, freed>>

Return ==
    /\ at = "read" /\ ~HasMore
    /\ at' = "done"
    /\ UNCHANGED <<fixed, vals, impl, request, reply, i, late, sent, freed, taken>>

Next ==
    \/ WriteParam \/ WriteFails \/ Send
    \/ Refuse \/ StubReads \/ StubReadFails \/ Implement \/ ImplementThrows
    \/ StubWrites \/ StubWriteFails
    \/ Deliver \/ Rethrow \/ ProxyReads \/ Return

Spec == Init /\ [][Next]_vars

-----------------------------------------------------------------------------

TypeOK ==
    /\ \A j \in DOMAIN sig : /\ sig[j].meta \in Metas \cup {"ret"}
                             /\ sig[j].meta = "ret" => j = Len(sig) /\ sig[j] \in Returned
    /\ DOMAIN vals = DOMAIN sig /\ DOMAIN impl = DOMAIN sig
    /\ at \in {"write", "stub", "reply", "thrown", "read", "done", "failed"}
    /\ i \in 1..Len(sig) + 1
    /\ late \in {"no", "closed", "thrown"}
    /\ {sent, freed, taken} \subseteq [Stubbed -> Nat]

\* The object is called with what the caller passed (the in and in_out parameters
\* of a method, OMEGA_READ_PARAMS_WIRE_STUB).
CalledWithWhatIsPassed ==
    at = "stub" /\ ~HasMore =>
        \A j \in DOMAIN sig : sig[j].meta \in {"in", "in_out"} => impl[j] = passed[j]

\* A call that returns gives the caller what the object left: of an array as much
\* as the size says; a collection after what was in the caller's variable, so that
\* an in_out one comes back with what it had twice (wire.h 633-643); and a map's
\* pairs, but for the keys that are in the caller's map: those stay as they were.
ReturnsWhatIsLeft ==
    at = "done" =>
        \A j \in DOMAIN sig :
            CASE sig[j].meta = "in" -> vals[j] = passed[j]
              [] sig[j].meta # "in" /\ sig[j].type = "list" -> vals[j] = passed[j] \o impl[j]
              [] sig[j].meta # "in" /\ sig[j].type = "map" ->
                    /\ SubSeq(vals[j], 1, Len(passed[j])) = passed[j]
                    /\ \A k \in Keys(impl[j]) : Has(vals[j], impl[j][k])
                    /\ \A k \in Keys(vals[j]) : Has(passed[j], vals[j][k]) \/
                           \E l \in Keys(impl[j]) : impl[j][l] = vals[j][k] /\ impl[j][l + 1] = vals[j][k + 1]
              [] sig[j].meta # "in" /\ sig[j].type = "array" ->
                    /\ vals[1][1] <= Len(impl[j])
                    /\ SubSeq(vals[j], 1, vals[1][1]) = SubSeq(impl[j], 1, vals[1][1])
              [] OTHER -> vals[j] = impl[j]

\* The request was not sent: its parameters could not be written, or it could not.
Unsent == at = "failed" /\ reply = <<>> /\ late = "no"

\* When a call returns, each reference it carried has been received once. One that
\* fails never gives up more than it carried, unless it was thrown as the channel
\* closed behind the request (UserChannel.cpp 113-130). Of what was not sent, an
\* object in an in_out parameter that is the first is given up; one in an in
\* parameter is not, which the code never gives up, what comes after an in
\* parameter is looked for in the wrong place (export.h 602-611), and so is all of
\* it when an object's own IMarshal fails (CustomMarshalInterface).
GivenUpOnce ==
    /\ at = "done" => taken = sent /\ \A o \in Stubbed : freed[o] = 0
    /\ late # "thrown" => \A o \in Stubbed : freed[o] + taken[o] <= sent[o]
    /\ Unsent /\ sig[1] = [meta |-> "in_out", type |-> "iface"] /\ passed[1] = <<Mine>> =>
          (sent[Mine] > 0 /\ (i > Len(sig) \/ passed[i] # <<Copied>>) => freed[Mine] > 0)

\* All three: a call passes what its caller and its object mean to pass.
CallsCarryWhatTheyName == CalledWithWhatIsPassed /\ ReturnsWhatIsLeft /\ GivenUpOnce

===============================================================================
