# Omega Online core: specifications

TLA+ modules of Omega Online (`oocore`): how its processes are connected and live,
how calls travel between them and between modules of a process, how objects are
found and applications, services and user processes started, the registry they
read, and the values they pass. TLC checks the modules on small instances; TLAPS
proves the safety of most of them, and of two refinements, for every instance.

Line numbers are those of `src/src/...` unless another path is given.

## The system

Every program that uses Omega is a *leaf* of a tree of processes. The root is
`ooserverd` (`Root::Manager`), below it is one `ooserver` per user
(`User::Manager`), one of them for the sandbox user, and the applications connect
to the `ooserver` of their user. A channel id is the place of a process in that
tree, so a message is routed by cutting bits out of an id.

| component | state it keeps | operations | talks to |
|---|---|---|---|
| `MessageHandler`, `MessageConnection` (OOServer) | table of channels, a queue per pool thread, the default queue, the count of waiting threads | `parse_message`, `send_request`, `wait_for_response`, `register_channel`, `channel_closed`, `process_channel_close`, pool threads | its neighbours in the tree, over streams |
| `Root::Manager` | user processes, their sandbox flag, services | `can_route`, accepting and spawning user processes, registry and service requests | user processes |
| `User::Manager` | its channel id, acceptor, running services | `on_accept`, `do_channel_closed`, `bootstrap`, `do_quit` | root, applications |
| `UserSession` (OOCore) | `m_init_state`, `m_init_count`, stream and reader, queue per thread, compartments | `init`, `term`, `start`, `stop`, `send_request`, `wait_for_response`, `pump_request`, `process_request`, `run_read_loop` | its user process |
| `Compartment`, `Channel` | channels a process holds open | `create_channel`, `process_channel_close`, `shutdown` | the session |
| `LocalROT`, `User::RunningObjectTable` | objects by oid, cookies, notifiers | `RegisterObject`, `RevokeObject`, `GetObject`, `OnRegisterObject` | each other, upwards |
| `InterProcessService`, activation | `m_mapInProgress`, loaded libraries | `LaunchObjectApp`, `GetObject`, unloading | ROT, registry, operating system |
| object manager, proxies, stubs | reference and marshal counts, safe holders | marshalling, `RemoteRelease`, invocation | channels, other modules |
| services | dependencies, running services | start, stop, rendezvous | root, sandbox, hosts |
| registry | hives of keys and values, masks, links | open, create, delete, list, overlay | root, user processes |
| values | shared nodes of strings, `any_t` | editing, casts, formatting, parsing | everything |

What is hard, and what the properties are for (`hazards` in `PROJECT.json` has
every case with its line):

* *Threads meet on one condition variable*: `start()` and `stop()` run with the mutex
  released and can fail half way.
* *Responses carry no request id*: a call is paired with its answer by the order
  in which a thread's queue is filled, while requests nest, cross, are
  asynchronous, and processes die.
* *News of a death travels as messages*: a caller is released only when a close
  notice reaches it, and a wrong notice kills a live channel.
* *Routing is a permission*: users must not reach each other except by way of the
  sandbox, with three places that ask `can_route` and one that does not.
* *A connection closes twice*, once by its read and once by its write, while ids
  come from a small space and are used again.
* *Tables in several processes* describe the same object, service or process; any of
  them may fail or end in between, and waits have a time limit.
* *Counts are shared*: one stub is released by one thread while another marshals it;
  a library is unloaded while another thread finds it; a shim is found in a table
  after it has been let go.
* *Errors come half way*: a call fails after some of its parameters have been passed.
* *Values at their limits*: widths, signs, precision, pictures, nodes of a string that
  two handles share.

## Modules

Each module's heading says what it abstracts; `map` in `PROJECT.json` names the lines
of every definition. A definition whose comment begins "Mutant of", or whose name says
what it gets wrong next to the one it varies, is a plausible bug of the definition
below it, kept to show that the properties notice; no specification uses it.

**Sessions and servers** (`MCSession`)

| module | of | state and actions |
|---|---|---|
| `SessionLifecycle` | `UserSession.cpp` 48-242, 434-441, 908-961, `Launch.cpp` 164-238 | `pc[t]` is the place of a thread in `Initialize` or `Uninitialize`; each region under `m_cond_mutex` is one action. `Broadcast` moves every waiter, `Signal` any one. `TermStops` is the `switch` as it is written: `break` leaves it for the loop, so one call takes the whole count. |
| `Compartments` | `Compartment.cpp`, `Channel.cpp`, `UserSession.cpp` | Threads that make channels (look, unlock, insert), the reader that sweeps the compartments for a closed end, `shutdown`, and the lock each of them holds. |
| `Singletons` | `Threading.cpp`, `threading.inl` | `once()` with its check outside the lock, the two destructor entries of each, `CloseSingletons` and the unloading of a module. |
| `ServerLife` | `RootManager.cpp`, `UserManager.cpp` | The main thread of the root and of the sandbox, step by step from `load_config` to the end; requests, signals, a crash of the sandbox. |

**Messages** (`MCMessageConnection`, `MCMessageRouting`, `MCRequestDispatch`)

| module | of | state and actions |
|---|---|---|
| `CallService` | | What a synchronous call promises, whatever carries it: the abstract specification. |
| `MessageRouting` | `MessageConnection.cpp`, `RootManager.cpp` 405-412, `UserManager.cpp` 439-620, parts of OOCore | A process stands for its channel id; `Hop` and `Within` are the tests on the masks. A stream is a sequence that ends in `Eof`. A message is handled in one step, with the notices it sends. `CanRoute` is the virtual function, overridden in the root. |
| `Connections` | `MessageConnection.cpp` 69-237, 429-492, 556-595, 741-753, `on_accept` | Each connection's accept, id, read, write and two closes; the shutdown walks the table while others change it, and does not keep them from adding to it. `age` is a history: how far the counter of ids has gone since each was given its own. |
| `RequestPool` | `MessageConnection.cpp` 263-277, 381-427, 660-723, 755-788 | Threads are alike and are counted by what they do. Who queues a request reads `m_waiting_threads` first and acts on it later. A thread leaves when it is not needed, when the queue is closed, or for an error of the queue or of what it serves (`failed`). |
| `RequestDispatch` | `UserSession.cpp` 288-630, 737-813, `Compartment.cpp` 106-197 | Stacks of calls and services, a queue per thread, the default queue, the thread each channel is for and whether it is open. A notice of a close is not bound to come after the last messages of the dead, nor to come once: a write that fails sends it while they are unread (`MessageConnection.cpp:230`), and so does each message that finds no route. Messages carry an `id` that the code has not; only properties look at it. |

**Objects** (`MCActivation`, `MCObjectLaunch`, and in part `MCLibrary`)

| module | of | state and actions |
|---|---|---|
| `ObjectLaunch` | `UserROT.cpp`, `UserIPS.cpp` 33-62, 164-278, OOCore `RunningObjectTable.cpp`, `OTL.inl` 50-106, `Activation.cpp` 185-203 | Both tables, the progress of each registration, launches in progress, the place of each thread: a region between two lock operations or remote calls is an action. |
| `ObjectTables` | `UserROT.cpp`, OOCore `RunningObjectTable.cpp` | Three levels of tables: several objects of one oid, scopes, single use, the sweep of the dead, notifiers of both kinds. |
| `Activation` | `Activation.cpp` | Names, aliases, flags, the order of the places an object is looked for in; libraries that are found, loaded, used and unloaded. |
| `Overlay` | `UserRegistry.cpp` 200-560 | Every question to two keys as two requests, with changes between them. |
| `RemoteRefs`, `ProxyStub` | `StdObjectManager.cpp`, `WireProxy.cpp`, `WireStub.cpp` | The abstract specification, and marshal counts, proxies, releases in flight and the end of a channel. |
| `Marshalling` | `wire.h`, `export.h`, `StdObjectManager.cpp` | One call through the wire for each kind and direction of parameters, with a failure anywhere. |
| `SafeTypes`, `SafeShims` | `safe.h`, `safe.inl`, `safe_ps.h`, `Safe.cpp` | A call between modules, with its temporaries and write-backs; the holders that pair objects with shims. |

**The root's own data** (`MCRootServer`)

| module | of | state and actions |
|---|---|---|
| `Registry` | `libdb/RegistryHive.cpp`, `RootRegistry.cpp`, `UserRegistry.cpp` | Three hives, masks, links; an operation is a step. |
| `ServiceControl` | `RootServices.cpp`, `UserServices.cpp`, `HostService.cpp`, `RootProcessUnix.cpp` 420-540 | A start by its number, in the root, the sandbox and the host; stops; deaths. |
| `UserProcesses` | `RootManager.cpp` 560-660, `RootProcessUnix.cpp` | One thread per client; finding, spawning, copying a hive, inserting or dropping a duplicate. |

**Values** (in `MCLibrary`)

| module | of | what is compared |
|---|---|---|
| `Strings` | `Types.cpp`, `types.inl` | what handles hold, with the nodes they share, against values; search against its definition |
| `AnyCast` | `any.inl`, `Formatting.cpp` scanners | chains of casts against the number they began with |
| `Formatter` | `Formatting.cpp` 1620-1892 | the parsed places against the pieces the format was made of |
| `NumberFormat` | `Formatting.cpp` 60-1440 | digits and groups against the number |

`...Proofs` modules hold the proofs of the module they are named after; those of
`Connections` are in `MessageConnectionProofs`, those of `UserProcesses`,
`ServiceControl` and `Registry` in `RootServerProofs`, those of `SessionLifecycle`,
`Compartments`, `Singletons` and `ServerLife` in `SessionProofs`, and those of `ProxyStub`
in `LibraryProofs`, which also puts `SafeShimsProofs` to use for `MCLibrary`. The `MC`
modules of a whole area are sums: their parts share no state, so a behaviour is one of
one part while the others rest, and each property of the area is that of its part. It
makes one run of them with one set of constants. `MCLibrary`, `MCSession` and
`MCRootServer` extend one part and instantiate the others, of which theorems speak by
that instance (`Svc!...`, `Reg!...`).

How the parts rely on each other: `MessageRouting` takes the table of a handler to be
what `Connections` keeps, and requests to be served, which is `RequestPool`'s subject;
`RequestDispatch` is the inside of the applications `MessageRouting` sees from outside;
`SessionLifecycle` sees of the shutdown of `Compartments` that it may return or not; `ObjectLaunch` is
the launch that `Activation` sees succeed or fail, and the user's table that is one of
`ObjectTables`; `ServerLife` starts and stops services as wholes, `ServiceControl` has
their steps; `Marshalling` is what happens in a call of `ProxyStub`.

## Runs

| run | what it asks | result |
|---|---|---|
| `session_lifecycle` | Sessions: `StartStopExclusive`, `SessionIsOwned`, and `TransitionsEnd` (start and stop end). `CompartmentsEnd`: a connected channel is in its table, and when the last compartment has been shut down only what was made meanwhile is connected. `TakenDownWhole`: a singleton that was not made twice is destroyed once; a service that runs is listed, being told to stop or was told too early, and the root is answered accordingly. | holds |
| `session_wakeup` | nobody waits for a change that has happened | violated, a finding |
| `session_refcount` | the session stops with the last `Uninitialize` | violated, a finding |
| `routing` | `OnlySandboxAcrossRoot`, `CloseIsTrue`, and `MessageRouting` implements `CallService` (`ImplementsCallService`, with its liveness). `Attended`: a connection in the table has somebody to close it. `ClosingsAreOwn`: closing takes a connection's own id off the table, until the ids have gone round. `PoolServes`: a request waits only while no thread is free, and the pool ends, unless a channel is accepted after the shutdown. | holds |
| `routing_user_death` | a call ends when the callee's user process dies | violated, a finding |
| `dispatch` | `AnswersMatch`, `CallbacksMeetCaller`, `CallNotLost`, `CallsReturn` | holds |
| `dispatch_strayed` | an answer is that of the call, whatever was served in between | violated, a finding |
| `dispatch_posted` | a request finds the thread that waits for it, asynchronous ones included | violated, a finding |
| `launch` | `TablesAgree`, `WaitersAreTold`, `InProgressIsTrue`, `ActivationEnds`; `ActivatesAsAsked`: the flags are obeyed and a library in use stays loaded; `AnswersWereSo`: what an overlay or a table answers was so at some time since it was asked | holds |
| `launch_kills` | a process is killed only if it has not got up | violated, a finding |
| `root_server` | `TreeIsWhole` and `ChangesWhatItNames` (registry), `ServicesAreListed` and `StartsEnd` (services), `LoginHasOneProcess` and `TheDeadLeave` (processes) | holds |
| `library` | `ReferencesAreKept`, `RemoteRefsSpec` (ProxyStub implements RemoteRefs) and `Reclaimed`; `CallsCarryWhatTheyName`, `PassedWhole`, `ShimsAreOne`, `ValuesAreExact` | holds |

A property that holds is qualified where the code breaks the unqualified form. Either
the violated run beside it shows that form (`AnswersMatch` and `CallbacksMeetCaller`
speak of the time before a thread strays or calls back a poster, `InProgressIsTrue` of
launches no exception has left), or a history variable of the module records that the
known flaw has happened (`raced`, `misused`, `broken`, `late`), and the section below
says which flaw that is. The histories are narrow: each is set by one event.

### Findings

1. `UserSession.cpp:105`: a failed `start()` uses `signal()`; with two threads
   waiting, the one that is woken leaves without waking the other, which waits for
   ever.
2. `UserSession.cpp:134`: `break` in `term()` leaves the `switch` only: the first
   `Uninitialize` stops the session that other threads are using.
3. `MessageConnection.cpp:779`: when a user process dies, only its own channel is
   reported closed; a caller of another user that waits for one of its applications
   is not released.
4. `UserSession.cpp:541`: the first response in the queue is taken, whichever
   request it answers.
5. `UserSession.cpp:763`: an asynchronous request makes its poster the channel's
   thread, so that a request back goes to a queue nobody reads.
6. `UserIPS.cpp:244`: a launch registers its notifier after it has started the
   process; if the object is registered by then, it waits 30 s and kills the
   process. The same end is reached when another launch takes a single-use object
   first, and for a public object, which only the sandbox's table announces
   (`UserROT.cpp:121`).

### Other behaviour the models have

These were met in translation. The models behave so, and properties exclude or
tolerate them; no run is about them.

*Sessions and dispatch.* A call given up because its callee has died leaves that
callee's callbacks in the queue; the thread's next call serves them, and what it calls
from there may take the answer of the call around it. What the dead have sent may come
after the notice of their death, too: an answer that is late is taken for that of the
thread's next call, a callback is served by it, and an asynchronous request opens the
channel of the dead again (`Compartment.cpp:166`), with no notice to follow, so that
whoever calls them then waits for ever. `strayed` is where the properties stop at these. A singleton that two threads ask
for first is made twice (`Threading.cpp:32`), and the second termination of a session
dereferences what is gone. The reader holds the session's lock while it closes a
channel in each compartment (`UserSession.cpp:495`), and `Compartment::shutdown`
(`Compartment.cpp:62`) the other way round: each may wait for the other for ever. The
list of what to shut down is taken once (`UserSession.cpp:225`), and a compartment that
a thread makes after that is never shut down. A `Channel::shutdown` that throws leaves
the rest of the compartment as it is.

*Connections.* A write that fails before `set_channel_id` finds id 0 and closes nothing
(`MessageConnection.cpp` 98-108, 485). `on_accept` whose receive fails leaves an entry
nobody reads (`UserManager.cpp:504`). Once the counter of ids has gone round, an id that was given
again can be removed by the late close of its former owner (`:458`): `ClosesItsOwn` says
that this is the only way. `register_channel` does not ask whether the handler is being
shut down, so a connection accepted during `shutdown_channels` or after it stays
(`UserManager.cpp:449`). A failing synchronous send to the destination closes
the *sender's* connection (`:377`). In a burst the pool starts too few threads, as
`m_waiting_threads` is read before the request is queued; the requests wait for a
thread that ends what it does. A call has no time limit, and may wait for a request that
lies in the queue of its own pool while every thread is in such a call
(`MessageConnection.cpp:769`). A pool thread leaves for good when an asynchronous
function throws or its tables cannot grow (`:403`, `:417`), so fewer than two may stay.
A thread that enters the pool after the contexts' queues have been closed can wait on a
channel that was accepted after the shutdown, and is not joined then.

*Servers.* `UserManager.cpp:181` stops the services after their channels have been shut
down, so they are only dropped. `stop_all_services` tells a service with the lock
released (`UserServices.cpp:153`): when `run()` and the root's request are both at it, the
root is answered while one service has not been told, and a service may be told before
`start_service` makes it run (`:115`), and then goes on. `User_NotifyStarted` may come before
`m_sandbox_channel` is set, and then services never start. The sandbox is not spawned
again. A process's destructor waits 5 s under `m_lock` and then kills.

*Processes, services, registry.* The channel of a duplicate process stays registered
(`RootManager.cpp` 604-622), a hive may be opened while it is copied
(`RootProcessUnix.cpp:551`). A start that fails late removes the first entry of its name
(`UserServices.cpp:127`), a stop may come before `Run` (`:105`), and an overtaken start
leaves the root waiting. "Ordered by dependency" (`RootServices.cpp:455`) services are not:
each is queued before those it depends on (`:71`), and so started first. `create_key` below a deleted key makes a key without a parent
(`RegistryHive.cpp:339`), a delete through a link uses the key number of the other hive
(`RootRegistry.cpp:243`), listing remembers one access check for all (`:585`), and
deleting a tree stops half way (`:479`). An overlay's `GetValue` returns `IsValue` when
only the lower key has the value (`UserRegistry.cpp:466`).

*Activation.* Public objects registered through a user's table do not notify that
table's waiters (`UserROT.cpp:121`); two callers may get the same single-use object
(`:168`); a failing `SetUpstreamROT` leaves its pointer set. Aliases that form a cycle
loop (`Activation.cpp:111`), a library without the oid launches surrogates without end
(163-171), a library may be unloaded between its lookup and its use (340, 370).

*Calls.* The references in `in` parameters are never given up when a request is not sent,
as a proxy unpacks those with `no_op` (`export.h:606`), nor are those in a response that is
not sent (`StdObjectManager.cpp` 205-217): the stub then stays until its channel closes. A stub's `catch` unpacks
from the start; `ReleaseMarshalData` of a stub reads `id` again; an array's read clamps
one count and loops to the other; collections passed in and out are appended to; a send
that reports a failure of what has gone out, as a user channel that closes may, releases
references the callee has received. A proxy that is found while it ends is released a
second time, and deleted under whoever found it (`WireProxy.cpp:36`). A stub that is made
by a marshalling after `Shutdown` stays. A holder adds its reference
to a shim after it has released its lock. `Pin` balances only with exactly two
references. A collection of interfaces is written with shims that are already released.

*Values.* `fmt_round_trip` runs once; `mon_decimal_point` is tested the wrong way round;
`"{0:N}"` of -123 is `-,123.00`; pictures that begin with `#` drop the sign;
`"{{"` drops both; a failed place leaves its index uninitialised; the second half of
`string_t::Find` is wrong after a first character that matches alone; a self-append that
moves the buffer reads what was freed; casts of zero or negatives to a smaller float
report an overflow; numerals beyond 64 bits saturate; `guid_t` parsing has `&&` for `||`
at character 24.

### Bounds

Every unbounded activity has a bound that is a constant, named in the module.

* *Sessions*: three threads are what `signal()` needs to wake the wrong one, and two
  waiters besides the one that is inside; four calls let a thread come back to a
  session that has ended once. Two compartments and two channels make each order of
  making, closing and shutting down; three objects made of two singletons make one
  twice.
* *Routing*: two calls give a call and a callback, two calls crossing, or a call in
  the middle of the handling of another one's failure; the tree has every kind of edge
  and one illegal pair; an application that connects late has the table grow while
  messages are in flight. Two connections share three ids (`Mask` 3), and before
  the second comes others may have come and gone until the counter has come to the end of
  its round (`LastGiven`), so an id is given again while its first owner is still closing.
  A pool of four threads, two of them at first, has the threads leave and start; one of
  them may leave for an error (`MaxFailed`).
* *Dispatch*: four requests, as two flaws of the design need four: an asynchronous
  request, its callback, and two calls; or a callback of the dead, and three calls.
  Each application has a thread that pumps. One of the two that are called may die:
  they are alike but for the threads they have, and with both mortal the run holds too,
  with 836,000 states, but takes longer than is of use.
* *Activation*: two activations start up to two processes of the same application, share
  one, or have one exit and be replaced; two objects make a registration that is half
  done. Two names, two libraries and two surrogates make every alias and miss. Two
  changes fall before, between and after the two requests of an overlay.
* *Root*: three changes in three hives make a tree, a link into it and a deletion
  through the link; two starts overtake each other; three clients make two processes of
  one login and one who comes when they have died.
* *Library*: three marshals of one object by two threads, against two that unmarshal
  and three places for a proxy, make a release in flight when the object is sent again;
  a call of two parameters has one that has been passed when the other fails; eight calls
  of two threads hand an object over, pin and drop it, with two stubs and three proxies,
  so that one ends while another thread has found it, and its number is wanted again; formats
  of three pieces, pictures of four places, casts of three steps.

The mutants are found under the same bounds.

### Fairness

`SessionLifecycle` assumes weak fairness of each thread that is inside
`Initialize` or `Uninitialize` (the connect has a limit of 15 s, the join of 5 s) and
of the reader once its stream is closed, but not where a thread waits without a limit
(`Awaits`): for the user process to answer `GetRemoteInstance` over an open stream
(`UserSession.cpp:529`), and in a stop for compartments, other processes and singletons,
where the two locks above may be crossed. Nobody is assumed to call anything, and
the user process promises nothing: that a stop ends once it closes the stream rests on
the time limit alone, and `TransitionsEnd` says no more of a session that stays in
either of the two. In `ServerLife` the host of a service may hang in a call, which has
no time limit (`Hangs`), and then the root may wait for ever for the answer of
`stop_services`; `TransitionsEnd` names that as the only way in which it does not end.
`MessageRouting`, `RequestDispatch` and `ObjectLaunch` assume that *something* that can
be handled is handled: streams are read by a proactor or reader thread each, and pool
threads and applications run; as calls are finitely many, that is enough for every
message to be handled in the end, and it is weaker than fairness of each step. In
`RequestPool` threads that can go on do; the 15 s of a wait are only over when nothing
else wakes it. That a call a thread is in ends is *not* assumed, unless the thread's own
queue has been closed: `Served` counts a thread in a call as gone. `ServiceControl` and `UserProcesses` assume that their threads run and
that the time limits of the code expire; hosts and user processes may hang or die.
`HandlerFairness` asks of each part what its module asks, while that part runs.
`ProxyStub` assumes that messages are delivered unless the channel closes, and that
threads end what they have begun. No process has to call, connect, exit or die. In
`ObjectLaunch`, `TimesOut` is the 30 s limit: processes that start are taken to be
faster, so it needs no process on its way. This leaves out applications that are
merely slow; it makes `launch_kills` stronger, since a kill cannot be blamed on
slowness.

## Proofs

| theorem | says |
|---|---|
| `SessionProofs!Invariance` | the strengthened invariant of a session |
| `LifecycleTypes`, `StartAndStopAreExclusive`, `CountIsTheState`, `SessionAlwaysOwned` | the invariants of `SessionLifecycle`, for any threads and number of calls |
| `CompartmentInvariance`, `CompartmentsEndWell` | the strengthened invariant of the compartments, and `CompartmentsEnd`, for any threads, peers and numbers of compartments and channels |
| `SingletonInvariance`, `ServerInvariance`, `AllIsTakenDown` | the strengthened invariants of the singletons and of the servers, and `TakenDownWhole`, for any threads, singletons, services and number of instances |
| `SessionTypes` | `SessionTypeOK` |
| `ObjectLaunchProofs!LaunchInvariance` | the strengthened invariant of launching |
| `LaunchTypes`, `TablesAlwaysAgree`, `WaitersAreAlwaysTold`, `InProgressAlwaysTrue` | the four invariants of `ObjectLaunch`, for any threads, object maps, executables and number of activations |
| `LoadInvariance`, `ActivationsDoAsAsked` | the strengthened invariant of the loading of libraries, and `ActivatesAsAsked`, for any threads, names, libraries and registries |
| `OverlaysAnswerSo` | `AnswersWereSo` but for its part on the tables of objects: any number of changes below an overlay |
| `MessageConnectionProofs!InductiveInvariant` | every message on a wire is legal there |
| `TypesHold`, `OnlyTheSandboxCrosses`, `ClosesAreTrue` | the invariants of `MessageRouting`, for any tree of users and applications, any calls and deaths |
| `CallsBehave` | the safety of the refinement: every step of `MessageRouting` is one of `CallService` or none of its |
| `ConnectionsAreAttended` | the invariant `Attended` of the connections, as parts of the whole handler, for any connections and number of ids |
| `HandlerTypes` | `HandlerTypeOK`: routing, connections and the pool are of their types, `m_waiting_threads` is exact and two threads stay until the queue is closed, but for those an error has taken (`SomeStay`), for any number of threads, senders and requests |
| `HandlerRoutes` | `OnlySandboxAcrossRoot` and `CloseIsTrue` of `HandlerSpec`, where connections and the pool run beside the routing |
| `ClosingsTakeTheirOwn` | `Connections!ClosesItsOwn`, the safety half of `ClosingsAreOwn`, for any number of connections and of ids |
| `RootServerProofs!InductiveInvariant` | every process of a user that lives is accounted for once |
| `TypesHold`, `LoginsHaveOneProcess`, `OneThreadSetsUp` | the invariants of `UserProcesses`, for any clients, logins and number of processes |
| `RootInvariant`, `RootTypesHold` | the strengthened invariants of the services and of the registry beside it, and `RootTypeOK` |
| `ServicesListed` | `ServicesAreListed`, for any services, graphs of dependencies and number of starts and stops |
| `TreesAreWhole` | `TreeIsWhole`, for any callers, file modes, paths, masks and number of keys and changes |
| `SubtreesGoTogether` | `Registry!GoesWithItsSubtree`, the first part of `ChangesWhatItNames` |
| `RequestDispatchProofs!CallsAndServicesAlternate`, `DispatchTypes` | the stacks and types of `RequestDispatch`, for any applications, threads, requests and deaths |
| `MessagesAreDelivered` | the strengthened invariant of what is on its way, queued and served |
| `NothingIsTwice`, `MessagesAreAddressed`, `ChannelsNameWhoIsServed`, `TheDeadHoldNothing` | its parts that are worth knowing by themselves |
| `EachCallGetsItsAnswer`, `NoCallIsLost`, `CallbacksFindTheCaller` | the invariants `AnswersMatch`, `CallNotLost` and `CallbacksMeetCaller` |
| `LibraryProofs!AccountsAreKept` | the strengthened invariant of the object managers: the account of each stub is exact |
| `ManagersKeepTypes`, `ReferencesAreAlwaysKept` | the invariants of `ProxyStub`, for any objects, threads and proxies |
| `ManagersImplementRemoteRefs` | `ProxyStub` implements `RemoteRefs` (which states no fairness: all of it) |
| `SafeShimsProofs!ShimsAreCounted` | the strengthened invariant of the shims: every reference to the object, a stub or a proxy, and every pin, is somebody's |
| `ShimTypesHold`, `ObjectsAndShimsAreOne` | the invariants of `SafeShims`, for any threads, modules, stubs, proxies and number of calls |
| `LibraryProofs!LibraryShims`, `LibraryReferences` | `ShimsAreOne`, `ReferencesAreKept` and `RemoteRefsSpec` of `MCLibrary`, where shims and managers run beside the other parts |

The assumptions are those of the modules (`LifecycleAssumption`, `SessionAssumption`,
`LaunchAssumption`, `ActivationAssumption`, `RoutingAssumption`, `HandlerAssumption`, `ProcessesAssumption`,
`DispatchAssumption`, `ProxyAssumption`, `ShimAssumption`, `RootAssumption`): object maps are sequences of oids, an oid belongs
to exactly one executable, handlers are no applications, nobody calls itself, `None` and
`Nobody` are none of the others, other processes have ids above 0, a singleton has one of
its two lifetimes, who may write a hive's file may read it, ids suffice for the keys of a
new installation, dependencies are of services, what is registered has the types of the registry's keys, a value set is
no truth value, a pool has at least the two threads it starts with, the object's module is one of the modules, stubs and proxies of shims are told apart by numbers above 0, bounds and masks are natural numbers; the threads that load or marshal and
the proxies are finitely many, as they are counted. TLC evaluates them in the runs.

*Session.* The conjunction of the four invariants is inductive. A thread in `start()`
or `stop()` publishes a state that keeps all others out; all actions that change the
count or the state do both; a thread that leaves hands the session to one in `"in"` or
`"term"`. What waking does to other threads' places is two lemmas, `BroadcastEffect`
and `SignalEffect`.

*Compartments.* That what is connected is found when its compartment is shut down has to
be known of every table before: an entry is of a channel that has its end (`Entered`), what
is connected and does not leak has an entry (`Found`), and where the shutdown has been, the
entries that are left are of channels that leak or are connected no more (`SweptClean`).
The last is what the shutdown's end needs, and what a thread that inserts late breaks but
for the history `leaked`. Compartments leave the list from the latest to the first
(`InTurns`); those that are made meanwhile stay in the session's table. Nearly all
steps only take entries out and disconnect channels (`Fewer`), and one lemma, `Shrinks`,
says what they keep.

*Singletons.* An instance has two entries, is at a thread that makes or destroys it, or is
gone. `SingletonsAreOne` says that one that is not gone can be destroyed; that it can only
be once needs to know of each instance whether it has an entry in either stack or a thread
that has popped that entry (`EntriesFit`), and that an instance not gone is what its
singleton's pointer is to (`Whole`). Threads that make singletons and threads that close
them exclude each other by the lock (`PlacesFit`); a module is unloaded by one thread when
nobody makes any (`OneUnloads`), and where one closes as the module is unloaded the proof,
like the property, stops. `Undone` is what destroying by either entry does, also if the
instance was freed before.

*Servers.* `ServersEndWhole` takes the order in which services are asked for, launched and
listed: `Known` says that there are any only after the root has taken the sandbox's notice,
`StartedOnce` that each is in one place of that chain, `Boots` that a sandbox closes its
doors for a root that is past asking, and `Settled` that, once the root has asked for all to
stop, only what it had already begun is in the chain. `ListsThem` is the property's own part,
for what runs and for what is about to be made to run (`Accounted`): listed, in the hands of
one of the two that tell services to stop, one at a time each (`OneTold`), or told too early.

*Launching.* The four invariants are not inductive together. They need three more:
entries of the user's table are of processes that were started
(`EntriesAreStarted`), what a process has in its own table it has registered
(`LocalMeansIn`), and the process of a launch, and of an entry of
`m_mapInProgress`, runs the executable it is about (`OwnExecutable`), so that a launch
that removes "its" entry by name removes no other application's. The proof has one
lemma for each kind of step.

*Loading.* That a library in use stays loaded is not inductive, as a thread that unloads
has asked before it erases. `InTheMap` says that what is used at all, by a count, a
SmartPtr or a thread in its code, is in the map unless it raced; `UnusedGoes` that what is
about to be erased is used by nobody; `Counted` that a library's count is that of the
threads with an object of it, which is why a release leaves no count below zero. Both need
to know where the lock of the map is and which library a thread is about (`Searching`).
What the flags allow is `Keeps`, which adds where a thread may be. A step at the libraries
leaves the other threads as they were (`OthersStay`), a step of the search leaves the
libraries (`Looking`).

*Overlays.* `Heard` says of each place in a question that what it was told so far was so
in that layer at one of the question's moments, which only become more (`MoreMoments`),
and that what there is now is one of them (`NowIsAMoment`). The questions are asked one
request at a time, so that each answer is of its own moment; what `GetValue` answers for a
value that only the lower key has is whether it is there, and that is what is said of it. An answer is then right by what
was heard and what is there now. That an overlay's `OpenKey` can fail only if the layers
changed meanwhile takes two moments that differ (`TwoMoments`).

*Routing.* `OnlySandboxAcrossRoot` is not inductive: user processes pass on what they
are told, and the root asks `can_route` of a message's source and not of its sender.
The invariant says of each message that it is `Legal` on the wire it is on: it is on its
way to where it is for and on the branch of its source (`Travels`), news that cross the
root are of a channel on the side they come from (`NewsTravel`), and they are true
(`IsTrue`). A wire is a sequence over the legal messages, so that a step needs to be
shown legal only for what it writes; that what lies there stays legal (`LegalStays`) is
proved once, from lives that do not come back and tables that only lose links.
`CallsBehave` maps each handler's step to at most one call's end.

*Connections.* A table of ids and a record per connection are changed under two locks,
and closings are on their way between them. The invariant says that an entry's
connection was given that id (`Placed`), that it knows the id once it has been told, and
reads only when it is up (`Named`), and that what the shutdown took out stays out
(`Taken`); with these `Attended` is inductive. Two lemmas carry the steps: `GoingOn` for
a connection that goes on while the table stays, `EntryLeaves` and `Leaving` for an entry that
goes. That a free id is found is arithmetic: `register_channel` keeps ids back, so one is
free (`FreeId`), and from any id all others come within one round (`Around`).
`ClosesItsOwn` is about ids that are given again: once the counter has gone round, a
closing that is late may name an id that is another's. Until then it follows from three
more facts: a closing on its way names the id its connection was given (`Owned`); the
counter is where that id and the connection's `age` put it (`InStep`); and if the table
has somebody else under that id, the connection is at least a round old (`Former`). The
last is kept when the id is given to the next, for the counter is then at that id, and
after less than a round it is at none it has been at before (`GoesRound`).

*The pool.* `RequestPool` counts threads by what they do, and asks for sums of them, which
fold over a set of states in an order nobody knows. `InIs` shows by induction over the size
of the set that such a sum is that of its members, whichever is picked first; from then on
all is linear arithmetic (`Moves`: a thread that goes on takes one from a sum and adds one to
another). `ThreadInv` adds to `SomeStay` that no thread is lost, and that before the queue is
closed a thread on its way out at once has been counted as failed: `Lasting` counts the
others with all that have failed. A thread that was not needed leaves only when, itself
left out, more than two are counted as waiting, so at least three are left of `Lasting`
before it goes, whatever those others are about to decide. That the queue
stays within its bound counts the senders that have read the count and not yet pushed
(`SenderInv`).

*User processes.* A login's process is in the table, or being set up by one thread, or
on its way out; the inductive invariant counts it in one place, and that the thread that
finds a duplicate drops its own process follows.

*Services.* `ServicesAreListed` has two halves that share no state. While names are
enumerated, every name that is queued has its dependencies queued or on a level that is
still looked at, and every service is queued or on the first level (`Enumerates`); so when
nothing is left to look at, all are queued. Circles need nothing else, as a name is queued
before its dependencies are looked at. For the list, `StartOK` ties the three sides of a
start together, root, sandbox and host; `EntryOK` says that an entry without a service has
a start that is creating, and one with a service the name of its start; and `ListOK` adds
that a service that is alive in its host has an entry, or is being stopped, has been, or
lost its entry to another start (`Away`). A start that moves on (`OneStart`), an entry more (`Added`), fewer (`Fewer`, `Without`) and
one that is filled (`Filled`) are the kinds of change. That
`list_services` keeps what is alive is an induction over the list's length.

*Registry.* `HiveOK` says what makes an operation keep a hive a tree: ids are given in
order, so a key's is above its parent's, and none is given again, also to what was deleted;
`RegInv` adds that a key object names an id its hive has given (it may be gone by now). The
two recursions, along a path (`find_key`) and up the parents (`Subtree`), are recursive
functions: that each exists is an induction over its length (`WalkExists`, `AboveExists`),
and what it yields another (`FindKeyTyped`, `SubtreeClosed`). `Subtree` is closed under
children because ids descend along parents. `Creates`, `Deletes` and `Revalues` are
what the three kinds of change do to one hive, and `HiveChanges` puts it back among the
others. That enumeration lists what opens (`EnumsMatch`) needs one walk of one name
(`OneNameWalks`) and that a caller who may read what is checked first may read all of it
(`ReadersRead`), which is where the file modes of `RootAssumption` come in.

*Dispatch.* A response names a thread and no request, so that `AnswersMatch` is far
from inductive: that the first response is the right one follows from where everything
else is. The proof has four layers.
First, a thread's stack alternates between calls and services, with the call on top
exactly while it is in `wait_for_response` (`Nesting`). Without it `Finishes` could not be
typed: it takes a thread to answer to and one to put back from the frame on top, which a
call does not have.
Second, `Delivery` says where messages are. Wires and queues are one family of boxes, and
each step adds to one box, drops the head of one, moves a head to another or empties those
of the dead. A request, and so a response, is in one place (`Once`), is not on its way
while it is served (`Served`), and has one frame as a call and one as a service
(`FramesOnce`); it is addressed to where it is (`Addressed`); a channel's thread is the
innermost that is served there, also after what is served now has ended (`Channels`); the
dead hold nothing (`Gone`), and only their channels are reported or found closed (`Hung`).
It holds whatever is left behind in a queue.
Third, `Pairing` says what belongs to what, as long as no thread has left a call with
messages behind it or on their way and nobody has called back a poster. Each message that is coming is
paired with the call its sender or addressee waits in (`AllPaired`), nobody is sent two
things at a time (`Single`), who is served is in the call (`Serving`), what a thread
serves in the course of a call comes out of the service of that call (`Nest`), and each
call is on its way, served or answered (`Existence`). `Nest` is what makes the order of
the stacks of two threads match: a callback returns before the call it came from can.
Last, `Awaited` is about asynchronous requests, which are paired with nothing: one for a
thread finds it in a call to the poster's application (`Expecting`) because it is read
before whatever ends that call (`Ordered`).

*Object managers.* A stub's count says how many references others hold to it: threads
that have counted and not yet sent, messages, releases on their way, proxies. That the
count is what is due (`CountIsAccounted`) is not inductive, as a thread that has counted
it down to nothing removes the stub later, with its lock released. The invariant adds that
nothing is owed to a stub that a thread is about to remove (`Removing`), that ids are
given out in turn and nothing names one that has not been given (`Numbered`), that a proxy
that is made has one thread at it, and one that ends at least one (`ProxiesFit`), and that a proxy's entry
stays until it has ended (`Listed`). `Due` is what is `Owed`, releases that are to come, and
the references that are never given up (`kept`); the count is the first, the promise of
`RemoteRefs` is about the second, which only lets a stub live longer than it must. Each step moves what is owed from one place to
another: `OwnerOwes` and `HolderOwes` say what a thread's going on to another task changes
in the sum, from the cardinalities of sets that differ in one element.
The refinement is proved from the invariant, id by id. `Fate` is what has become of a stub
and `Referred` whether anything is owed to it; for each of them a step changes one id or,
when a marshalling races a removal, those it loses (`Exports`, `Withdraws`, `RefersOrNot`,
`Forgets`). That a stub is withdrawn only when nobody refers to it is `Removing` again.

*Shims.* A call between modules is a list of what is left of it, and another thread may
come in between any two operations. `Sums` says of each count whose it is: of the object's
references, one is its maker's, one is of every thread that holds it or is about to release
it, one of each stub that is referred to, and one more of each that is pinned as well; of a
stub's, one is of each proxy with references, of a thread that has it in hand, and of a
`Release` to come; and so on for proxies and pins. `Destruct_...` is in a list exactly when
all of them are zero. For a step to keep the sums, it must be known what else is in the
thread's list: `Shapes` lists the forms a list can have, read from its end, as calls push
in front. `Links` and `Maps` relate what is in hand to the holders' maps: one stub of the
object is listed and each proxy there is that stub's, which is what makes identities one.
`Pins` and `Kept` are about a controller's shim, which is in no map: while a wire stub pins
its proxy, or is about to unpin it, nobody else has a reference to either, which is why
`Pin` and `Unpin` balance (with exactly the two references there are). All of it holds until
a thread takes a reference to what has ended (`late`); from then on the module says nothing.
What an operation does to the sums is how many more or fewer wait for each operation
(`Moves`), from what leaves the head of one list and what is put there; that a list
keeps one of its forms is shown once for all operations that leave something behind
(`RestShape`) and once for those that only release (`ReleasedShape`).
The proof found a fault of the model. A new stub could be given the number of one
that had ended and that a thread had found in a map and not yet referred to, and was then
taken for it. `late` is there to tell this race, and did not see it. The invariant failed to
be inductive at `AddRef_found`, and with calls enough TLC reached that state too; so
`new_stub` and `NewProxy` choose no number that is still being looked at (`Sought`), the
thread finds that what it sought has ended, and the race is seen.

Only checked by TLC, not proved: liveness (`TransitionsEnd`, `CallsReturn`,
`ActivationEnds`, `PoolServes`, `StartsEnd`, `TheDeadLeave`, `Reclaimed`, the fairness
part of `ImplementsCallService`), which needs ENABLED of the fair actions; the values (`ValuesAreExact`),
whose definitions recurse over texts and digits; `GoneLeave`, the other half of `ClosingsAreOwn`; `DeletesWhatItNames` and
`CreatesWhatItNames`, the other parts of `ChangesWhatItNames`, which walk a path in two
states and across two hives; `TablesAreTrue`, the part
of `AnswersWereSo` on the tables of objects, and so `ActivationTypeOK`, as calls there are
flattened from sequences of sequences; and the invariants of the modules without a
`...Proofs` module.

## What is left out

* *OOBase* (streams, threads, locks, `BoundedQueue`, `Future`) and *sqlite* are not in
  the tree, or are vendored. They are modelled by the way the code uses them: a closed
  queue stays closed, a pulse is remembered until the queue is waited on, a pulse and a
  message that are both there may be seen in either order, a stream keeps order and ends
  once, a transaction is atomic. Whether `parse_message`, which takes its read lock a
  second time and for a first message its write lock too (`MessageConnection.cpp` 364-372),
  blocks depends on `OOBase::RWMutex`: a hazard without a property.
* *One lock region is one step*, unless it makes remote calls. Data races
  (`MessageConnection.cpp:866`) are not modelled.
* *Remote channels* (`UserNet.cpp`, `UserChannel.cpp`): nothing in the tree connects a
  remote endpoint, ids are given out from 1 and looked up under the mask `0xFFF00000`,
  entries never leave the tables, and a comment says that this seems broken. A model
  would have to guess what it is to do.
* *Windows*: tokens, jobs, named pipes, the service manager.
* *Byte formats*: CDR, the message header, TypeInfo's tables, dynamic proxies; floating
  digits as `printf` gives them, dates, locales but for their separators.
* *Tools, tests, installers*: no state of the system is theirs. `OORegEdit` is written
  against an older string interface.

The rest is in the notes of `components` in `PROJECT.json`.
