# ZppAdapter: specifications, model checking and proofs

ZppAdapter (namespace `z`) is a C++ layer over the zsi base library, ZeroMQ,
libevent, nng, RapidJSON, protobuf, sqlite and MySQL. Its own logic is in a few
concurrent templates (`zpp/base`), in the routing, messages and request patterns it puts
on ZeroMQ (`zpp/zmq.hpp`), in small servers on libevent and nng (`zpp/event2`,
`zpp/nng`), in counted objects, and in the conversion between protobuf and JSON.
This directory models those parts in TLA+, checks them with TLC on small
instances, and proves their safety properties with TLAPS for every size; what is
only model-checked is named under *Proofs*.

Paths below are relative to `src/`.

## The system

| Component | State | Operations | Interaction |
|---|---|---|---|
| `MsgQueue` (`zpp/base/msg_queue.hpp`) | two `std::queue`, a semaphore, two spin locks | `Push`, `Pop` | any number of producer and consumer threads |
| `MsgPoolRing`, `MsgPoolBase` (same file) | ring of objects, `pos`, `size`, a spin lock | `PreAlloc`, `Alloc`, `Free` | threads share the ring, the heap behind it |
| `SyncTimer` (`zpp/base/timer.hpp`) | map key -> `out_t` on the waiter's stack, a spin lock | `Push`, `Wait`, `Pop` | request threads wait, callback threads hand over replies |
| `AsyncTimer` (same file) | ordered set of (deadline, key), a spin lock | `Push`, `Pop`, `Timer` | requesters, reply callbacks, a timer thread that runs a user callback under the lock |
| `RoutePath`, `MsgStack`, `Message` (`zpp/zmq.hpp`) | three lists of frames (source, body, destinations) | `CalcRoute`, `RotateRoute`, `Rotate`, `Send`, `Recv`, `CloseMsg`, ... | packets travel through routers that each rewrite them |
| `Socket` (`zpp/zmq.hpp`, `zpp/src/zmq.cpp`) | a ZeroMQ socket, the list `conns` | `Connect`, `Disconnect`, `Send`, `Recv`, `LazyPiratReq`, `Reconnect`, ... | requests to services that may be down, late or lost |
| `RestServer`, `RestClient`, `Request` (`zpp/event2/rest.h`, `zpp/src/rest.cpp`) | `is_run`, the thread; the connection, the request with its result | `Run`, `Stop`, `Proc`, `Connect`, `Disconnect`, `DispatchJson`, `IsResource` | libevent callbacks; a server thread and a control thread |
| nng `Reply` (`zpp/nng/reply.h`, `zpp/src/reply.cpp`) | tasks with a `state`, an aio and a message | `Listen`, `ReplyOnEvent`, `do_request`, `Response` | nng's completions, a thread pool, the thread that answers |
| `Object`, `Obj` (`zpp/obj.hpp`, `zpp/object.hpp`), map functions (`zpp/base/map.hpp`) | a count, a wrapped pointer, a map of wrappers | `Clone`, `Release`, `Uniform`, `MapFind`, `MapInsertDelOld`, `MapDel` | threads share objects and the map |
| `RJson` (`zpp/json_rapid.hpp`) | the members of a JSON object | the keyed `Set..`, `Get..`, `AddMember`, `DelMember`, `Load`; `ForEach` | `ForEach` drives the conversion below |
| Protobuf to JSON (`zpp/src/pb2json.cpp`) | a stack of open messages | `Pb2json`, `Json2pb` | reflection of protobuf, callbacks of `ForEach` |
| `Sqlite`, `SqliteStmt` (`zpp/sqlite3.h`) | a connection; a statement and the connection it was made with | `Open`, `Close`, `Prepare`, `Bind`, `Step`, `Reset` | objects that end in any order |
| event2 wrappers, MySQL, scoped locks, context | see *Not modelled* | | |

What is hard in it:

* threads that hold *different* locks on shared queues, and code between two
  critical sections (`MsgQueue`, `PreAlloc`, `SyncTimer::Wait`);
* timeouts that race with the answer they gave up waiting for (`SyncTimer`,
  `AsyncTimer`, `LazyPiratReq`, `DispatchJson`);
* pointers into a stack frame that another thread writes through (`SyncTimer`);
* packets rewritten in place by every hop, whose route back must be exact;
* connections that are closed and reopened under requests still in flight;
* frames copied bit by bit into lists whose owners must close each once, with
  sends that fail half way;
* counts that reach 0 in one thread while another looks the object up;
* one completion function for two operations, told apart by a variable that
  another thread writes;
* documents from elsewhere that do not fit the message they are read into;
* loops with two moving bounds, rings that wrap.

## Modules

| Module | Models | State and actions |
|---|---|---|
| `FifoChannel` | what `MsgQueue` promises | `chan`, `got`; `Put`, `Get` |
| `MsgQueue` | `MsgQueue` | `que`, `in` are the two queues and which one `que_in` points to. `Push` is load, enqueue, size, post (`PushBegin` .. `PushPost`); `Pop` is `PopBegin` .. `PopReturn` with the exchange as `PopSwap`, which may come at any time; the history `crossed` says in whose `Push` it did |
| `ObjectPool` | what `MsgPoolRing` promises | `stock`, `held`; `Fill`, `Take`, `Give` |
| `MsgPoolRing` | the ring | `buf`, `pos`, `size` as in the code, `heap` and `held` for who has which object; `Alloc` and `Free` one critical section each, `PreAlloc` a turn of its loop at a time |
| `SyncTimer` | `SyncTimer` | `sem_map`, `spin`, semaphores, `*out`; the waiter's `WaitOk`/`WaitTimeout`, `WaitErase`, `WaitFini` and the worker's `PopStore`, `PopPost` are separate since the other side runs in between |
| `AsyncTimer` | `AsyncTimer` | `ts_set`, the wall clock (which `SetBack` may set back), the pass of the timer thread call by call |
| `RoutePath` | frames, wire format, `CalcRoute`, `RotateRoute` as operators | none |
| `RouteNet` | clients and routers that use them | packets in flight and the record of requests; `SendRequest`, `Forward`, `Answer`, `Refuse`, `Deliver`, `LosePacket` |
| `RotateLoop` | the loops of `RotateRoute` and `MsgStack::Rotate` | the list, `i` and `hops`; `Drop`, `Swap`, `Return` |
| `LazyPirate` | `Socket` as a request client | the socket (`gen`, `type`, `owed`, `linked`), `conns`, the call; every statement of `LazyPiratReq` that ZeroMQ can interleave with |
| `Rest` | `RestServer`, `RestClient` | the server thread, the control thread in `Stop`, each client's connection and event loop |
| `RestResource` | `Request::IsResource` | the index and the result |
| `RingCapacity` | the constructor of `MsgPoolRing` | the loop that leaves the highest bit of twice the size, on ints of `Width` bits |
| `FrameOwner` | who closes each `zmq_msg_t`: `Message`, `MsgStack`, `RoutePath`, `Socket` | the lists with their `need_close` and `status`, a frame in the caller's hand, the Messages nothing has initialised, the references not given back and, of these, those forgotten; one action for each method that makes, moves, copies, sends or closes frames |
| `Reply` | nng `Reply` | each task's state, aio and message, the pool's queue, the handlers that have not answered, the tasks that are destroyed; `ReplyOnEvent` as `EventReceived` and `EventSent`, `Response` as `SetSend` and `SendAio`, since nng's callback may run in between; `Breaks` where a missing message or task is used |
| `ObjRef` | `Object`, `Obj`, `map.hpp` | counts, the references of threads and wrappers, the map; `ReleaseImp` as the count and the delete, called for a reference or through a wrapper |
| `MemberMap` | what `RJson` promises | a function from keys to values and the latest call |
| `RJson` | the keyed calls | the array of members, in which rapidjson finds the first of a name, and the latest call with its result |
| `JsonPb` | `Pb2json`, `Json2pb`, `ForEach` | `walk`, the containers whose loops `ForEach` is in and where each loop is, for the C++ stack; the callbacks one by one, on the stack `pbMsgs`. `Pb2json` is a function of the message |
| `Sqlite` | `Sqlite`, `SqliteStmt` | the handles in the wrappers, and for SQLite which connections and statements it keeps |
| `MsgQueue_proofs`, `LazyPirate_proofs` | theorems on the module they are named after | |
| `Timers_proofs` | theorems on `SyncTimer` and `AsyncTimer` | |
| `Containers_proofs` | theorems on `MsgPoolRing`, `RingCapacity`, `ObjRef` and `RJson` | |
| `Frames_proofs` | theorems on `FrameOwner`, `RotateLoop`, `RestResource` and `Sqlite` | |
| `Servers_proofs` | theorems on `Rest`, `Reply` and `JsonPb` | |
| `Routes_proofs` | theorems on `RouteNet` and the operators of `RoutePath` | |
| `NatSets` | lemmas: induction over the naturals, for a set | |
| `MC*` | instances for TLC | |

`RouteNet` composes `RoutePath` (by EXTENDS) into a network. `RotateLoop` also
extends `RoutePath`: the loop is shown to compute the operator that `RouteNet`
uses, so that the network's behaviour rests on the code's loop. `MsgQueue` and
`MsgPoolRing` instantiate their abstract module with a refinement mapping, and
so does `RJson`, whose array of members is shown to be a function from keys.

`MCMessages`, `MCTimers`, `MCContainers`, `MCServers` and `MCFrames` put several
modules that do not interact in one run: a variable `turn` (in `MCServers` the
initial state) says which of them moves, and the others stay where they are. The
number of states is the sum, not the product.

The definitions named `Mut...` are slips one could make in the operation they
are named after. Nothing but the `mutants` list of `PROJECT.json` uses them:
with `Mut...` in place of the operation, the property named there fails.

ZeroMQ, libevent, the semaphore and the clock are external. They are modelled
from how the code uses them: a REQ socket sends only when no reply is owed to
it, and blocks without a connection; `zmq_msg_send` takes the content of the
message; closing a socket drops what it has not received; ROUTER puts the sender
in front of a packet and takes the first frame as receiver;
`evhttp_make_request` writes at once on a connection that is up; a wait on a
semaphore times out only while the semaphore is 0; an nng aio completes once per
operation, an aio that has sent holds no message and one that failed keeps its
own, and `nng_aio_free` ends what the aio does with an error;
`sqlite3_close_v2` leaves a connection that has statements to the last of them;
rapidjson takes the first member of a name and moves the last one into the
place of a removed one.

## Runs

Bounds are the constants of the `.cfg` files.

| Run | Shows | Bounds |
|---|---|---|
| `MsgQueue` | on the code's own schedules, up to the first exchange inside a `Push`: no lost wakeup, no `Pop` from an empty queue, FIFO refinement | 2 producers, 2 consumers, 2 messages, 3 in flight, semaphore up to 2 |
| `Messages` | `MsgQueue` for request and answer, on the code's own schedules: no data race, delivery | the same with 1 in flight |
| | `LazyPirate`: only the reply to the latest try is returned, `conns` is what is connected, the socket is ready after a call, a call returns | 2 endpoints, 2 calls or sends of up to 3 tries, failing connects, four kinds of `sock_type` |
| | `RouteNet`: the back trace in both directions, the answer fits its request and comes from its target, empty frames refused, every request answered or lost | 3 routers, paths of 1 to 4 hops, one through a router twice, 2 clients, 2 requests |
| `Timers` | `SyncTimer`: no write to a waiter that left, `ZEOK` only with a reply, one owner per reply, every `Wait` returns; the inductive invariant, with the registration by key | 3 requests, two sharing a key, 4 replies of which two answer one request, 2 workers |
| | `AsyncTimer`: every entry resolved exactly once and in the end, what fires is registered | 2 keys, time up to 2, timeouts 0 to 2, 2 entries per key, one set-back |
| `Servers` | HTTP: a client reads its own response only, one answer per request, no forgotten thread, `DispatchJson` returns. nng: no request is with two tasks, answered or freed twice, whatever receives fail and tasks are destroyed, and each task receives again | 1 client, 3 requests, 2 runs of the server; 2 tasks, 3 requests |
| `Containers` | pool: one owner per object, at most one object lost, refinement of `ObjectPool`. Objects: exact counts, what was found is alive. JSON: refinement of `MemberMap`; a message comes back as it was; a well typed document neither crashes nor leaks more than its root | ring of 2, 5 objects, 2 clients, `pos` modulo 8; 3 threads, 2 objects, 2 wrappers, 2 keys; 3 keys, 4 kinds, 3 members; the samples and documents of `MCContainers` |
| `Frames` | each frame closed at most once and none lost, but by filling a Message again; `RotateRoute`, `Rotate` and `IsResource` compute what they should; the ring's capacity is a power of two that holds what was asked for; nothing of SQLite's is lost | 1 path, 1 stack, 2 messages, 3 references, lists of 2; lists of up to 5 of 3 frames, strings of up to 3 of 3 characters; ints of 8 bits; 2 connections and 2 statements in wrappers, 3 of each in SQLite |
| `MsgQueue_race`, `SyncTimer_leak`, `LazyPirate_retry`, `Rest_body`, `Rest_resource`, `Reply_fail` | deviations, below | |

The type invariants of `MsgPoolRing`, `AsyncTimer`, `RouteNet`, `LazyPirate` and
`Rest` are the first conjunct of one of their properties (`NoAlias`,
`FiringRegistered`, `BackTrace`, `ConnsLinked`, `ResponseOwn`), and
`ResponseOwn` and `AnswerFits` also have the single answer and the server that
gave it (`AnsweredOnce`, `ServedByTarget`); `EmptyRefused` is part of
`AnswerFits`.

Why the bounds are enough. Two producers and two consumers are all that can meet
in the queue, as each lock lets one in; the third is a waiter like the second.
Three messages in flight give both queues a nonempty state across an exchange;
a semaphore of 2 is one more than it ever needs, and is reached only after an
exchange inside a `Push`.
A shared key, a repeated answer and two workers are the cases in which
`SyncTimer` could mix requests up. The ring of 2 with 5 objects fills,
overflows, runs empty and wraps, and its two clients hold objects beyond it;
`pos` modulo four times the capacity is `pos` as far as `& mask` can tell. The
routes have every parity, and one visits a node twice, so that mixing up hops
shows. Two calls of three tries leave replies of an earlier call and of earlier
tries behind, over two reconnects in one call. Three requests of a client are one given up, one answered on the
connection kept alive, and one after. Three threads are one that deletes, one
that finds and one that has a reference of its own. Three references and lists of
two are a path with a frame in more than one list and one in a stack, a Message
or the hand. With one path, `MoveUserData` between two is left to the proof. The
documents have every field with every kind of value, `@type` missing, unknown,
last or twice, and another name that begins with `@`; the two types nest, repeat
and are packed in an `Any`. Three connections of SQLite are one in use, one closed with
statements left and one to open. A larger instance was not needed for any
mutant.

Runs that set `CHECK_DEADLOCK FALSE` have one-shot or bounded requests and end
when they are used up; `MsgQueue`, `Messages`, `Timers` and `Servers` also have
the states of the code that do stop: `front()` of an empty queue, a `Send`
without a connection, a callback that calls its timer, a message used that is
not there. Their liveness properties name these states as the only exceptions.

### The hypotheses on schedules

`MsgQueue` is the code on its own schedules: `Pop` exchanges the queues holding
only `spin_out`, wherever a `Push` is. What the class then gives its callers is
said in two ways. Up to the first exchange that falls inside a `Push` (between
its load of `que_in` and its reading of the size) the queue is a FIFO channel
with its wakeups, whatever the callers do: the properties named `..UnlessCrossed`.
And a caller that starts a `Push` only when nothing is queued
(`MaxInFlight = 1`, a request/answer use) never sees such an exchange, so that
there are no data race and no lost message at all. The size is read from `que_in`
again or from the address loaded, as the build may do.

`MsgPoolRing` has `PreShared`: FALSE means that `PreAlloc`, if it is called,
returns before other threads use the pool. `Rest` has one control thread, and
handlers that reply or fail, not both, as those of the repository do.

`ObjRef` has `Guarded`: FALSE is the classes and the map as they are, TRUE means
that callers hold one lock over `MapFind` and the `Clone` of what it found and
over every change of the map. `CountExact` needs no lock, `FoundAlive` does.
`Sqlite` has `Careful`: TRUE means one `Prepare` for each `SqliteStmt` that has a
statement, and `Bind` only then.

`FrameOwner` names what the classes leave to the caller: a Message is not used
or ended before it is filled (`Begun`; the constructor leaves `msg` as the memory
was, and `~Message` closes it), and not filled again after it was sent
(`Unsent`); a stack that gave its frames away (`Owner`) and a path that was sent
(`Ready`) are not used as if they still had them; what is copied is still open
(`Readable`); and the frame given to `Init(zmq_msg_t*)`, which aliases it, is
given away. No call is made without them. Filling a Message that *holds* a frame
is a call like any other: `Init`, `At`, `Recv` and `PopDest` overwrite the
`zmq_msg_t`, and the model says that its frame is `forgotten`.

`TypedSafe` is about documents whose objects begin with a member `@...` naming
their type, and in which no other member `@...` names one: `SetMessage` looks at
the `@` only (`zpp/src/pb2json.cpp:144`), and any such member makes a new message
in place of the open one.

The proofs name these hypotheses `MaxInFlight = 1`, `PreFirst` (`~PreShared`),
`AnswersOnce` (no handler both replies and fails), `Guarded` and `Careful`. Two
more are about data: `KeysOnce`, that a document that is loaded has no name
twice, which a map needs; and `ShortRoutes`, that a path has at most 256 routers,
since `CalcRoute` counts hops in a byte, which one more would take back to 0.

### Fairness

* `MsgQueue`: a `Push` that has begun goes on, and some consumer keeps calling
  `Pop` (the consumer loops of the usage). No fairness between consumers, none
  for starting a `Push`. Used by `Messages`.
* `SyncTimer`: a thread inside `Wait` or `Pop` goes on. The lock is contended by
  finitely many calls, so weak fairness suffices.
* `AsyncTimer`: the clock advances, `Timer` is called again and again as the
  class's comment has it (`timer(){ Check(); }`), and the callback returns.
  Nothing of `Push` and `Pop`.
* `RouteNet`: routers and clients keep receiving. Nothing of `LosePacket`.
* `LazyPirate`: a call that has begun goes on, as `zmq_poll` has a timeout.
  Nothing of the services.
* `Rest`: the server thread runs, a client's loop processes its events, of which
  libevent's timeout of 5 seconds (set in `Connect`) is one.
* `Reply`: nng's callbacks, the threads of the pool and a handler that has a
  request go on, and a send that was begun completes, if only with an error.
  Nothing of the clients, so a task may wait for a request for ever, and nothing
  of the failure of a receive or the end of a task.

## Proofs

| Module | Theorems | Assumes |
|---|---|---|
| `MsgQueue_proofs` | `TypeCorrect`, `InvUnlessCrossed`, `WakeupKept`, `FifoRefinement`, `DataRaceFree` | `MQAssumption`; the last `MaxInFlight = 1` |
| `Timers_proofs`, `SyncTimer` | `Inductive`, `NoDangling`, `KeyedRegistration`, `OkImpliesReply`, `SingleOwner` | `STAssumption` |
| `Timers_proofs`, `AsyncTimer` | `ATInductive`, `ResolvedOnce`, `FiringKept` | `ATAssumption` |
| `LazyPirate_proofs` | `LPInductive`, `ReplyIsFresh`; `LinksInductive`, `ConnectionsListed`, `SocketReady` | `LPAssumption` |
| `Routes_proofs` | `RouteInductive`, `BackTraced`, `AnswersFit` | `RPAssumption`, `ShortRoutes` |
| `Frames_proofs`, `FrameOwner` | `FramesInductive`, `FramesClosedOnce`, `FramesNoneLost` | `FrameAssumption` |
| `Frames_proofs`, `RotateLoop` | `Inductive`, `RotateCorrect`, `OperatorIsLoop` | `RLAssumption` |
| `Frames_proofs`, `RestResource` | `ResInductive`, `ResourceCompared` | `RRAssumption` |
| `Frames_proofs`, `Sqlite` | `SqliteInductive`, `HandlesAreKept` | `SqliteAssumption`, `Careful` |
| `Containers_proofs`, `MsgPoolRing` | `PoolNoAlias`, `PoolLossBound`, `PoolRefinement` | `PoolAssumption`, `PreFirst` |
| `Containers_proofs`, `RingCapacity` | `RingCapacityFits` | `WidthAssumption` |
| `Containers_proofs`, `ObjRef` | `ObjInductive`, `CountsExact`, `FoundIsAlive` | `ObjRefAssumption`; the last `Guarded` |
| `Containers_proofs`, `RJson` | `JsonRefinement` | `RJsonAssumption`, `KeysOnce` |
| `Servers_proofs`, `Rest` | `RestThreadKept`, `RestResponseOwn` | `RestAssumption`; the second `AnswersOnce` |
| `Servers_proofs`, `Reply` | `ReplyRequestOnce` | `ReplyAssumption` |
| `Servers_proofs`, `JsonPb` | `PbTypedSafe`, `PbRoundTrip` | `DataAssumption`, `JsonAssumption` |

The assumptions say that the special values (`Free`, `NoMsg`, `None`, ...) are
none of the others, and what the sets are; they put no bound on the sizes.
`RPAssumption` says of the frames that an identity and a control frame are never
empty, and that "none" is no router.

`DataAssumption` and `JsonAssumption` say what C++ and the libraries say by
their types: the fields of a message type have different names, none of which
begins with `@`; a message has values of its fields' types only, and a repeated field
that is set is not empty; messages nest finitely (`Height`); and what is in a
JSON value is a JSON value. One is a choice of ours: no array is directly in an
array, which `Pb2json` never writes and `Json2pb` does not expect. `Message` and
`JsonValue` are any sets that have what is in their members, finite or not.

**MsgQueue.** None of the properties is inductive: that a consumer takes from a
nonempty queue depends on what the semaphore stands for. `IInv` says where the
wakeup of a nonempty `que_in` is: with the `Push` that will post it, in the
semaphore, or with the consumer that took it, in exactly one of the three
(`TokenInv`); that a lock is held by the thread inside its call (`LockInv`);
that the queue a `Push` loaded is still `que_in` (`PtrInv`); and what `Pop`
knows of `que_out` (`OutInv`). `PtrInv` is what an exchange inside a `Push`
ends, so `IInv` is kept by every step after which `crossed` is still empty
(`StepPreserves`); an exchange that leaves it empty finds every `Push` before its
load or after its size. `WakeupKept` and `FifoRefinement` follow: `chan` is
`QueOut \o QueIn`, `PushEnq` is `Put`, `PopTake` is `Get`, all other steps
stutter; the exchange does so because `que_out` is empty then, which is `OutInv`.
For `DataRaceFree`, `LimitInv` carries the bound on what is queued:
with one message outstanding a consumer cannot be about to exchange while a
`Push` is at work, so `crossed` stays empty (`OneNotCrossed`).

**SyncTimer.** `IInv` relates the lock, the map and the reply: a worker between
its store and its post holds the lock (`SpinInv`), so the entry it found cannot
be erased; a registered waiter is found under its own key (`Registered`,
`KeyInv`); its semaphore lives until it has erased itself (`LiveInv`); a token
implies a stored reply (`TokenInv`), and a stored reply is not released
(`OwnerInv`). Each property follows from two or three of these.

**AsyncTimer.** `ATIInv` is the two invariants and that the set is finite; they
need each other: `TimerErase` changes no count only if the entry it erases is
still registered, and was taken off the unresolved ones when its callback began.
Each of `Push`, `PopOk` and `TimerCall` moves one entry between two terms of the
sum.

**LazyPirate.** A REQ socket that owes no reply has nothing on its way
(`OneOnItsWay`), so what a try sends is alone (`SentAlone`) and what a waiting
call receives is that (`WaitsForLast`); packets of a closed socket carry another
number (`OfASocket`). `Reconnect` without a connection keeps the socket and its
late reply, which `Drain` throws away or which makes the next `Send` fail.
All this is said while the socket is a REQ socket: `Reconnect` may open one of
any type, as `sock_type` is not initialised, and a DEALER socket would let a
second request follow the first. A new socket has nothing on its way, so it does
not matter what was open before. The links do not depend on the type.
`LinksIInv` keeps `conns` a list without repetition of what the socket is linked
to. The case with content is `Reconnect`, whose loop from the last endpoint to
the first is a recursive function: `Relisted` is shown to list what connects,
each once. `ReadyAfterCall` needs that a call that waits has a connection
(`Waiting`), so that giving it up opens a new socket, which owes nothing.

**RouteNet.** `BackTrace` says what a packet holds when it arrives; the invariant
has to say it of the packet as it travels. `Travels(p, k, kind, h)` does: between
the nodes `h + 1` and `h + 2` of the trail of request `k`, or of its answer, the
packet is the control frame with `h`, the payload, and as destinations the nodes
before, in order, and those still to come. The lemmas about `RecvPath` show that the
separators stand where they are looked for (no identity is empty, so there are
three, or the body is empty and the packet is refused); those about `CalcRoute`
that the exchange at `h` turns `Travels(.., h)` into `Travels(.., h + 1)`; those
about `RotateRoute` that at the end of a request the list turned round is the
start of the answer's trail. `BackTrace` and `AnswerFits` follow.

**FrameOwner.** `Held` gives for each list, stack, message and for the hand what
it will close; a stack that does not close holds nothing. The invariant is that
the live references, those forgotten apart, are divided among the holders, each
in one place of one holder (`Partition`), and that what was sent is empty
(`SentEmpty`). Both
properties follow. `ClosedOnce` alone is not inductive: a frame that two lists
share is still open, and closed twice only later. The lemmas say what one slot,
one list, one path, or a move from one holder to another does to a partition;
the actions cite them.

**RotateLoop.** The loop invariant `SwapInv` says that after `i` exchanges the
outer `i` entries on both sides are turned round, the middle is untouched and
`hops = hops0 - i`. At the exit `2 * i` is the length turned, or one less, and
the entry in the middle of an odd list is its own mirror image. `OperatorIsLoop`
carries this over to `RoutePath!RotateRoute`.

**RestResource.** `ResInv` says that the characters before the index agree.

**MsgPoolRing.** `NoAlias` counts: the window has as many slots, and as many
objects, as `size` says. The proof works with the positions instead:
`PoolStock`, the slots of the window hold different objects of the heap;
`PoolHeld`, what clients hold is neither there nor with another. `PoolLoss`
names the one object that can be lost, and `PoolPre` says how far the loop of
`PreAlloc` has come. `ModShift` and the lemmas on residues behind it make
`pos & mask` one to one over the window whatever `pos` is, across its wrap
too. The refinement maps the window from `pos` on to `stock`.

**RingCapacity.** `RingIInv` says that twice the size has a highest bit and that
the loop leaves it for the last. `LowestBit` is chosen; `OddPart` shows that
there is one to choose, and `ClearKeeps` that taking it away goes below the
highest bit only when nothing else is left, since a higher bit is an even
multiple of a lower one (`BitSplits`) and the number an odd one.

**RJson.** rapidjson has an array; that it is a map needs that no name is in it
twice (`Named`), which every operation keeps: `AddMember` looks for the name
first, and a removal that moves the last member into the gap only permutes. For
such an array the first member of a name is the only one, and its value is what
`AsMap` gives.

**JsonPb.** Both properties speak of the end of a conversion; the invariants, of
every point of the walk. `WalkInv` is the walk itself: each container is what the
one before is at. `TypedInv` is for a well typed document: the stack has an entry
for each container; an array's has no message and the name of its field, an
object's has no message before its first member and one of its type after it.
So no callback meets a NULL message, every object that ends finds its parent and
a field that can take it, and one entry is left. `RoundInv` is for a document
that was written: there is a list `s` of the messages that the containers were
written from (`Origin`), no callback has failed, and each open message is its
origin restricted to the members before the one its loop is at, with the first
elements of a repeated field whose array is open (`Partial`). Every scalar and
every object that ends adds the next piece (`WrittenDone`), in the class of
numbers that the field reads (`WrittenGives`), and after the last member nothing
is missing (`DoneAll`). An `Any` is packed again as what it was (`ContentWritten`).

`Pb2json`, `Convertible` and `WellTyped` are recursive over the data. That
functions as they are written exist is proved, not assumed: `Hereditary` gives
the predicates without any order, as the union of the closed sets, and
`Pb2jsonDef` gives `Pb2json` level by level, from the heights of messages.
`MessageInduction` is the induction over messages, and `WrittenWellTyped` uses
it for what connects the two properties: what `Pb2json` writes of a message that
can be converted is well typed.

**Rest.** `ThreadKept` is inductive. For `ResponseOwn`, `Asked` says that a
request not answered yet is in one place, queued or on the wire, and `Current`
that on a connection that is up there is the client's latest request, or its
response, or nothing; what a client gave up belongs to a connection that is
closed, since `Fail` closes it.

**Reply.** `PhaseOf` ties a task's state, aio and message: in which of them a
request is live; none is after a receive that failed, whatever message the aio
still has. `Working` says that a task that is queued or served has a request in
the state in which `ReplyOnEvent` put it there, and `Owners` that a request is
live with one task, and neither received again nor freed while it is. A receive
that fails and a task that is stopped change which operation is pending, and no
request's owner (`FailKeeps`).

**ObjRef.** `CountExact` is nearly inductive. What it needs is `WrapHeld`: a
wrapper that is stored or about to be stored has an object, and one place, so
that deleting it takes one reference away and leaves no second path to it; and a
thread that will clone what it found has no reference to overwrite. `FoundStored`
says that under the lock what was found is still in the map. The lemmas
`PointingGain`, `PointingSame` and `PointingChange` say how the number of
places that point to an object changes with one place; `ExactDrop`,
`ExactClone` and `ExactMove` say once how a step with a given effect on the
counts keeps `CountExact`, and the actions cite them.

**Sqlite.** `OneWrapper` (no two wrappers hold one handle) and `ConnHeld` (a
statement's connection is not freed and is the one its wrapper looks at) make
`HandlesKept` inductive. The case with content is the end of the last statement
of a closed connection, in `EndPreserves`.

**NatSets.** The library's induction takes an operator. `NatSetInduction` is
stated for a set of numbers, from the well-foundedness of `<`, and
`PrimitiveRecursion` gives the function that a recursive definition over `0..n`
names; with them `Relisted` and `Bit` can be reasoned about, for every length.

Only model-checked: the liveness properties (out of the prover's reach), and the
six deviations below, which are traces. Every invariant and every refinement
that a passing run checks is also a theorem.

## Deviations between the code and what it says

Shown by a run that ends in a violation (`findings` in `PROJECT.json`):

* `MsgQueue_race`: `Pop` (`zpp/base/msg_queue.hpp:83`) exchanges the queues
  under a running `Push`; two threads then work on one `std::queue`. The class
  is documented as thread-safe (`:30`).
* `SyncTimer_leak`: a reply that comes between the timeout and the erase of the
  key is accepted by `Pop` and abandoned by `Wait`
  (`zpp/base/timer.hpp:110`); with the usage in the comment nobody releases it.
* `LazyPirate_retry`: every try after the first sends an empty message
  (`zpp/src/zmq.cpp:194`).
* `Rest_body`: on a connection that is up the request is written before its
  headers and body are added (`zpp/src/rest.cpp:355`).
* `Rest_resource`: `IsResource` gives 0, "equal", for `/api/v1/testing` against
  `/api/v1/test`; the comment says -1 of what is not equal
  (`zpp/event2/rest.h:110-113`, `:139`). `Compares` leaves this case open.
* `Reply_fail`: a failed receive calls `onError` and then goes on with the
  message that the aio holds, NULL or a reply that was freed
  (`zpp/src/reply.cpp:21-25`). Every pending receive fails when its task is
  destroyed (`:58-60`, `:77-79`), and `onRequest` may also come to a task that
  is not there any more. `reply.h` marks the class as discarded, in favour of
  another.

Seen while modelling, without a run of their own:

* an exchange between the push and the size test of a `Push`
  (`zpp/base/msg_queue.hpp:71`) leaves a nonempty queue without a wakeup; every
  later `Pop` times out, and no later `Push` sees a size of 1. `NoLostWakeup` as
  an invariant of `MsgQueue_race.cfg` fails;
* `sock_type`, "for Reconnect" (`zpp/zmq.hpp:1173`), is never set: `Reconnect`
  opens a socket of any type or none (`zpp/src/zmq.cpp:221`), and one that is no
  REQ socket may give a late reply;
* `PreAlloc` takes no lock (`zpp/base/msg_queue.hpp:142-153`): with
  `PreShared = TRUE` an object gets two owners. Its `size = i` forgets the last
  object it made, which `LossBound` counts;
* a request that timed out on every try returns `ZEOK`: `ret` is what the last
  `Send` left (`zpp/src/zmq.cpp:194`, `:203`);
* `RestServer::Stop` asks port 8989, whatever the server's port is, and joins a
  thread that nothing ends (`zpp/src/rest.cpp:254-264`);
* `errcode` and `reason` stay as they were for a response without a body, and a
  body read in parts ends as its last part (`zpp/src/rest.cpp:86-91`).

In the messages of `zpp/zmq.hpp`, outside what `FrameOwner`'s callers do:

* `PushDest(MsgStack)` (`:471`) sets `status = 1`, which also clears the other
  bits of the stack's status;
* a Message that holds a frame loses it when it is filled again: `Init` in each
  form, `At` (`:325`, by `zmq_msg_init` at `:107`), `Recv` (`:940`) and `PopDest`
  overwrite the `zmq_msg_t` without closing it. The drain of `LazyPiratReq` uses a
  new Message each time. After a `Send` `need_close` stays false, and a
  message used again is not closed;
* the constructor of `Message` does not initialise `msg`, which `~Message`
  closes (`:58-65`);
* `Init(zmq_msg_t*)` (`:114`) aliases a frame, so that the caller's copy and
  `~Message` both close it unless the caller gives it away;
* `Erase` (`:305`) does not close what it erases;
* only the first frame of the source list is sent; others are neither sent nor
  closed when the path does not close;
* `MoveUserData` (`:574`) and `Release` return no value, `MonitorEvent` loses a
  frame on its early returns.

In the counted objects (`zpp/object.hpp`, `zpp/base/map.hpp`):

* with `Guarded = FALSE`, `FoundAlive` fails: the classes give no way to clone
  what was found before another thread deletes it;
* `CloneImp` returns `ZEFAIL` from the first clone on, although it has counted;
* a wrapper inserted again under its own key is deleted and stored;
* `tests/tst_object.cpp:76` wraps an object that lives on the stack; `~Obj` of a
  wrapper whose `Init` was not called uses a NULL pointer.

In the conversion (`zpp/src/pb2json.cpp`):

* an enum is written as a number, which the way back refuses; bytes are not
  written; a string ends at its first NUL; a number of another class is skipped
  with `ZOK`;
* `@type` missing, unknown or not first leaves a NULL message, which
  `MergeMessage` uses; an `@type` that is no string does so too, and `{}` gives
  `ZOK` without a message;
* an object under an unknown name is dropped without an error, an empty `Any`
  inside a message crashes on the way back, and an `Any` as root or inside an
  `Any` comes back as what it wraps;
* on failure the root is leaked, as is what `Json2pb(Message&)` swaps out;
* any member that begins with `@` and whose string names a type makes a new
  message (`:137`, `:144`): the open one, if there was one, is lost;
* nested arrays, and scalars or arrays as document, are not expected.

In `RJson` (`zpp/json_rapid.hpp`):

* the `Get..` functions other than `GetInt` look for the member NULL when the
  key is NULL, where the comment (`:65`) says the value itself is meant;
* `RJson()` is a null value, and keyed calls before `SetObject` or `Load` run
  into rapidjson's assertion; `Load` replaces the document even if it fails;
* the kind of a member is that of its value: `SetUint` of 2^31 or more makes a
  later `SetInt` of that key fail; a document with a name twice is no map;
* the `RJson` that `GetMember` fills has no allocator.

In the databases:

* a second `Prepare` on a `SqliteStmt` loses the first statement, and with it
  its connection: `HandlesKept` fails with `Careful = FALSE`. So does it through
  `Bind` on an object without a statement (a text of comments only gives `ZEOK`
  and none; `db` is uninitialised before the first `Prepare`), which reads a
  connection that may be freed;
* a failed `Open` keeps a connection, and the next says `ZE_EXIST` until
  `Close`; `Close` returns no value;
* a `MsgPoolRing` of size 0 has an uninitialised `capacity`, one of 2^30 and
  more a doubled size that overflows: `CapacityFits` says nothing of them
  (`Representable`);
* `MySql` does not initialise `result` and does not free it at its end, and
  compares `mysql_query` with -1.

## Not modelled

* event2 wrappers (`core.h`, `extra.h`, `event2_core.cpp`): each method is one
  libevent call on a handle whose owner the caller sets (`need_free`, which
  `EvBuffer` does not initialise); large parts are between `#if 0`. Two calls
  cannot leave state of the wrapper itself inconsistent.
* `mysql.h`, `mysql.cpp`: forwards to the client library.
* The process-wide ZeroMQ context, options of sockets, `Bind`, monitors: calls
  that forward, or write what nothing reads.
* The registry of creators in `base/object.h`: filled by static objects before
  `main`, by one thread; `Serialize` and its like do nothing there.
* The moving pointer that `RJson::GetMember` gives out: what it points to is
  rapidjson's array, which any later `AddMember` may move. Nor the unkeyed array
  calls, `Save` and `ToString`.
* The destructor of `MsgPoolRing`, which deletes what the ring holds.
* A second reply to one request of `SyncTimer`, which overwrites the first
  (`timer.hpp:127`): the model has it, no property speaks of a reply without owner.
* `RotateRoute` with hops beyond the list, and a response that never ends in
  `DispatchJson`.
* A late reply taken for a later request under the same key of `SyncTimer`: the
  class cannot tell them apart, and its callers must not reuse keys.
* Scoped locks (they are the locks of their users), `Statistic`, version output,
  type declarations, build files.

## Plan

Done: the concurrent templates, routing, frames, the request client, REST and
nng servers, counted objects, JSON and its conversion, SQLite, the loops; proofs
of the safety of all of them.

Next, as the code grows: `Save` and `ToString` of `RJson`, and the destructor of
`MsgPoolRing`.

## Running

`tlc -config X.cfg M` for the runs, with `X` and `M` from the `runs` of
`PROJECT.json`; `tlapm M.tla` for the modules `*_proofs`.
