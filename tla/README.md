# coro_actor in TLA+

coro_actor is an actor framework on Asio C++20 coroutines.  A *master* process
forks one *proxy* process and a number of *actor* processes.  Every actor
process loads a library of services; a service may call a service of another
actor process, through the proxy.  The TLA+ modules here model the three kinds
of processes, the byte streams between them, the loader of the configuration
and the life of the server from start to start; TLC checks them on small
instances, and TLAPS proves safety properties of six of them, and three refinements
(without their liveness), for every instance.

Line numbers refer to `src/src/coro_actor.cpp` (C), `src/src/coro_actor_ctx.cpp`
(X), `src/src/coro_actor_session.cpp` (S), `src/src/coro_actor_config.cpp` (K),
`src/include/coro_actor.h` (H) and `src/include/coro_actor_protocol.h` (P).

## 1. The system

| component | state | operations | interacts with |
|---|---|---|---|
| proxy | `actor_info` per actor (`call_id`, `is_waiting`, `msg_queue`, socket), `actor_info_map`, `actor_pid_map`, `actor_call_chain_map` (H 51-69, 179-186) | accept, CONNECT, REQUEST, RESPONSE, `handle_proxy_handle_request` (C 465-705) | one Unix socket per actor process |
| actor context | `msg_queue_`, three timers used as conditions, `call_id_`, `error_msg_`, `is_waiting`, `curr_resp_pack_` | `send`, `push_msg`, `notify_complete`, `set_response_pack`, `handle_message` (X) | readers push, services send and notify |
| pack reader of an actor | the Unix socket | connect and handshake (C 745-847), `handle_actor_internal` (C 849-913) | proxy, context |
| sessions | a TCP socket each | accept (C 915-938), read a frame, push a message, close (S) | remote clients, context |
| master | `proxy`, `actor_processes` (pid, exited), `type`, `terminate` | fork, SIGTERM/SIGINT, SIGCHLD, `waitpid`, respawn (C 355-384, 411-448, 707-743, 940-1012) | signals, children |
| pid file, command line, daemon | a file | create, delete, stop command (C 169-214) | master |
| configuration | `service_map_`, `actor_config_map_` | load a YAML file (K 20-99) | read by all |
| byte streams | socket buffers; per reader the field it is at | `async_write` of a frame, `async_read` field by field (C 490-517, 689-698, 849-882; S 30-84) | every pair of processes |
| log, process title, example services | - | - | - |

What makes each of them hard:

* **proxy** - every connection has a coroutine, and they share the maps.  A
  coroutine that answers a call is suspended up to three times, and each time
  it goes on with what the maps say *then* (C 604-615).  Requests cross; a
  request for a process that waits is queued and dispatched a second time.
  Correct means: a request is executed at most once, the answer goes to whoever
  waits for it, and whoever waits gets one.
* **actor context** - conditions are timers without memory: `cancel_one` is
  lost when nobody waits.  Each of the three (message, service, response) needs
  an argument why it is never lost.  Services must run one after another and
  the answers of a connection come in the order of its requests.
* **master** - SIGCHLDs coalesce, forks share the signal pipe of the master for
  a while, and a fork may fail.  Correct means: no exit is forgotten, nothing
  alive is taken for dead, a stop ends everything, an exited process comes back.
* **pid file** - a file that several processes create, read and remove in
  separate steps, between which a master may start, fail, be stopped or be
  killed.  Correct means: the master that runs can be found and stopped, a
  second one refuses to start, and one that ends does not block the next.
* **byte streams** - a write or a read may be cut anywhere, and a connection may
  end in the midst of a frame.  Correct means: frames come out whole and in
  order, and none is made up.
* **configuration** - two files per node that must agree over all nodes; names
  and services are unique over everything read so far.

## 2. Modules

| module | models | uses |
|---|---|---|
| `Proxy` | the proxy process | - |
| `CallSystem` | the actor processes around the proxy, at the grain of one service call | extends `Proxy` |
| `CallSystemProofs` | lemmas about the operators of `Proxy`; theorems about `CallSystem`: types, the first pack | extends `CallSystem` |
| `PackProofs` | theorems about `CallSystem`: where packs are, how long chains are | extends `CallSystemProofs` |
| `ChainProofs` | theorems about `CallSystem`: what chains and packs say of each other while no request is kept waiting, and the configurations in which none ever is | extends `PackProofs` |
| `Rpc` | abstract: what a call between services promises | - |
| `MCCallSystem` | instances for TLC | extends `CallSystem` |
| `FifoServer` | abstract: what a process promises its connections | - |
| `ActorCtx` | the inside of one actor process, at the grain of one coroutine step | implements `FifoServer` |
| `ActorCtxProofs` | theorems about `ActorCtx`, and that it implements `FifoServer` | extends `ActorCtx` |
| `Supervisor` | the master and the life of its children | - |
| `SupervisorProofs` | theorems about `Supervisor` | extends `Supervisor` |
| `Lifecycle` | several masters from start to end, the pid file, the stop command, bound addresses | - |
| `LifecycleProofs` | theorems about `Lifecycle` | extends `Lifecycle` |
| `ConfigLoad` | the loader of the configuration | - |
| `ConfigProofs` | theorems about `ConfigLoad` | extends `ConfigLoad` |
| `FrameChannel` | abstract: what a connection promises | - |
| `Framing` | one direction of a connection, in bytes | implements `FrameChannel` |
| `FramingProofs` | theorems about `Framing`, and that it implements `FrameChannel` | extends `Framing` |
| `MCFraming` | instances for TLC: the two formats | extends `Framing` |

Definitions whose comment begins with *(Mistake: ...)* are variants of the
definition that follows them, with one plausible error.  They belong to no
specification; each of them breaks the property that guards against it, which
shows that the property can fail.

### Coroutines and the io_context

Every process has one thread and one `io_context`.  An action is what a
coroutine does from a resumption to its next suspension, however many functions
that crosses; `co_await` of a coroutine that does not suspend is no boundary.
`runq` is the queue of completions: only its head is resumed.  In `Proxy`,
`coro[a]` is the frame of a suspended coroutine: where it is, and the locals it
uses afterwards.  In `ActorCtx` a step of the worker that goes round its loop
without suspending is several actions, between which the worker stays at the
head of `runq`, so no other coroutine gets in.  What changes between two of
these actions is only the environment (the other ends of the connections and
the arrival of data), which really is concurrent.

Two abstractions go with it: `runq` is first in, first out, which is what
Asio's scheduler does for completions of one thread; and an `async_write`
completes at once, with its completion at the tail of the queue (the socket
buffers are large enough).  Writes that are cut into pieces are the subject of
`Framing`, which shows when it is right to treat the frames of a connection as
a sequence of messages.

### Proxy

`ReadConnect`, `ReadRequest`, `ReadResponse` are the cases of
`handle_proxy_deal_actor`, up to the first suspension; `ConnackWritten`,
`RequestDone`, `ReplyWritten`, `SelfDone` what follows each suspension.
`HandleRequest` is `handle_proxy_handle_request`, a function from the maps to
the maps and possibly a write, because three actions call it, one of them
twice in one step.  `Dropped` collects its early returns, `LeastLoaded` its
choice of a target, `Forward` the rest.  The erasure of closed sockets
(C 653-656) is left out because it never happens: the proxy never closes its
end of a connection, so `is_open()` is always true.  `ReadEof` is the return of
a coroutine whose peer is gone; it unregisters nothing.

`actor_call_chain_map` is a total function, with the empty sequence for an
absent key; the code tests for the key with `contains` and the two differ only
for a chain that exists and is empty, which `BackDefined` excludes.

### CallSystem

`ctx[a]` is the context of process `a`, `up[a]` and `down[a]` the bytes in
flight.  `Send` is `send()` up to its wait, `ReceiveResponse` the rest of it:
`set_response_pack` resumes a `send()` that waits, and it returns before the
process handles another pack.  A request has the name `<<sender, number>>`,
which stands for its payload; the response to it carries the same name, so a
property can ask *whose* answer a `send()` returned.  The call id is the pair
of pid and `seq_`, which wraps at `SeqSize` (2^32 in the code, X 53-56).
`Crash` is the death of a process at any point.  `ActorConnect` is a step that a
process need not take: one that cannot load its library (C 751, 763) or reach
the proxy (C 780) stops itself, and nobody has heard of it.

`ReceiveRequest` clears `call_id`: C 893 moves the call id out of the pack and
C 897 passes the moved-from string to `set_call_id`.  The standard leaves its
value unspecified; libstdc++ and libc++ leave it empty.

### ActorCtx

`Accept` is `handle_actor_remote`.  `CallService` has two variants: the coroutine that a service function spawns
starts inside the call or from the queue; both must be right.  `SendFails` is
`send()` for a service of the same process, or the outcome of a failed write,
after which a service can only go on to `NotifyComplete`.  `Close` makes the
pending read of that connection fail.  `PeerSends` and `ProxyAnswers` are what
the proxy writes to the process (C 580-609, 693-698).  It need not answer: it
drops a request it cannot forward (C 633-660), and forgets the call when the
provider dies (C 699-704).

### Supervisor

A signal sent to a process is a byte in the pipe of its `signal_set`.  Between
`fork` and `notify_fork(fork_child)` a child still uses the pipe of its parent,
so a signal to it is read by the master (`HandleTerm` marks only running
children).  After a `fork` that fails, the code returns between
`notify_fork(fork_prepare)` and `notify_fork(fork_parent)`: `deaf`.  Both are
behaviours of Asio, modelled from how the code uses them.

### Lifecycle

Every look at the pid file is a step: `LookForFile`, `CreateFile` and
`WriteFile` are `create_pidfile`; `LookToDelete`, `ReadToDelete` and
`RemoveFile` are `delete_pidfile`, which the destructor of `coro_actor` calls
however `run()` ended (refused, not bound, stopped); `StopLooks`, `StopReads`
and `StopKills` are `handle_stop_command`.  A SIGTERM before `signals.add` (or
a `Kill`) ends the process without a destructor; one that comes afterwards is
kept until the loop runs.  `ports` are the addresses that a master's sockets
are bound to, and those of its children, which inherit them and may live on:
a new master's `Bind` fails while they do.  `TakeConfig` may give two nodes the
same address: K 9 forbids such a file and the loader takes it (`same_address.cfg`).
`RunDeaf` is a start whose last fork fails: the master runs, but
`notify_fork(fork_parent)` was not called (C 416-418, 713-715), and no SIGTERM
reaches it; `Run` is one whose last fork succeeds, which makes good for those
that failed before.  `CleanUp` is somebody
who removes a file that no living master has to do with.  Each master is used
once, with a pid of its own.

Two masters whose starts overlap (`Starting`) may both pass `exists()`, and write
over each other's file, or into one that has been removed (`WriteOrphan`).  The
history variable `overlapped` says so, and the passing properties claim nothing
then; what goes wrong `two_masters.cfg` shows.

### ConfigLoad

One action per entry (`BeginNode`), service (`ReadService`), and end of an entry
(`EndNode`), as in the two nested loops; `BadEntry`, `SameName`, `SameService`
are the exceptions.  `entries`, `listed` and `bad` record what the file holds, so
that the result can be compared with it.  A file is thus not a constant but
whatever is read next: every file within the bounds is explored.

### Framing

A frame is a sequence of fields, each of fixed size or as long as the field
before it says; its bytes carry the frame's number, the field and the place, so
that the reader's mistakes would show.  `StartWrite` is `async_write`, whose
first `async_write_some` is tried at once; `GoOnWriting` the further ones when
the socket is ready.  `ReadField` and `Deliver` are the completion of an
`async_read`, `ReadPart` a part of one.  An end may die at any point
(`WriterEnds`, `ReaderEnds`), whereupon the reader meets the end of file in or
between frames (`ReadEnd`).  The formats are those of the packs between the
processes and of the requests of clients.

The coroutines of the proxy that handle different actors may write to the same
socket (C 607 and 697): their writes can overlap when a frame is larger than
what the socket takes at once.  README 13 of the repository holds that the
coroutines exclude concurrent access to resources; a socket is one they do not
exclude.  After an overlap `Framing` lets the reader take anything for a
length, and promises nothing: that is what the premise `~overlapped` of
`FramesWhole` and the state "broken" of `FrameChannel` stand for.
`packs_mixed.cfg` shows what the reader may get.  The actors
and sessions have one writer per connection, so there the premise holds.

## 3. Runs

| run | instance | checks |
|---|---|---|
| `calls_rpc` | calc (calls step_two, then echo), add and step_two (call echo); 2 requests each, 2 clients, call ids wrap after one | `ResponseToRequester`, `ChainHasWork`, `NoRequestWaits`, `ImplementsRpc` |
| `calls_crash` | 2 front, 1 back that calls back; 2 clients, 1 crash | `TypeOK`, `BackDefined`, `AckFirst`, `RequestInOnePlace`, `WaitingMirror`, `ResponderEndsChain`, `HangsOnlyByLossOrCycle` |
| `ctx` | 1 client and the proxy, 2 requests each, both may close | type invariant, the three conditions, one service at a time, order of answers, `RequestsAnswered`, `ImplementsServer` |
| `master_reaps` | 3 actor processes, 2 deaths, 1 failed fork, a stop at any time | `TypeOK`, `NoExitForgotten`, `ExitedIsReaped`, `StopsRunning` |
| `lifecycle` | 2 masters, 2 nodes, 1 address, 2 stop commands | `TypeOK`, `RunningHasFile`, `EndedLeavesNone`, `StopWorks` |
| `config` | 2 names, 3 services (one has a node's name), 2 ports | `TypeOK`, `MapsAgree`, `LoadsRight`, `RefusedRightly` |
| `frames` | 2 writers, 3 frames of either format, buffers smaller than a frame | `TypeOK`, `FramesWhole`, `ImplementsChannel` |

Runs in which the code does not do what the repository says of it:

| run | property | what the code does |
|---|---|---|
| `wrong_result` | `ResultIsOwn` | A request queued for a waiting process is dispatched twice, and the process is in the chain twice.  Its response comes back to itself, and its own `send()` returns it (C 676-682). |
| `call_id_lost` | `CallIdPropagated` | A request that comes in clears the call id of the service that is running (C 893, 897). |
| `early_call_dropped` | `SendReturns` | A call to a node none of whose processes has connected is dropped, and `send()` never returns (C 643-646). |
| `stop_loses_child` | `StopsAll` | SIGTERM to a child that has just been forked is handled by the master: the child lives on (C 967). |
| `no_respawn` | `Respawns` | No process that exits is started again: the guard asks for type WORKER, in the master (C 1000; 437 for the proxy). |

Four more disagreements are stated as properties and have a configuration to
show them, which is run by hand (`tlc -config stop_deaf.cfg Lifecycle.tla`) and
is not one of the runs of `PROJECT.json`:

| configuration | property | what the repository says | what the code does |
|---|---|---|---|
| `stop_deaf.cfg` (`Lifecycle`) | `StopEndsMaster` | SIGTERM to the master ends all processes (`actor_config.yml` 4-5) | The last fork fails, the master runs without reading its signals, and the stop command does not end it (C 416-418, 713-715). |
| `two_masters.cfg` (`Lifecycle`) | `FileOfMaster` | the pid file holds the pid of the main process while it runs (`actor_config.yml` 8) | Two masters start at once and both find no pid file; the second creates it over the first's (C 170-174). |
| `same_address.cfg` (`ConfigLoad`) | `AddressesDiffer` | different nodes must not have the same address (K 9) | A file that gives two nodes one address and port is taken (K 59-70); the master that starts with it fails in `bind` (C 162). |
| `packs_mixed.cfg` (`MCFraming`) | `PacksValid` | `assert(pack_opt.has_value())` (C 523, 563, 583, 887, 905) | Two coroutines of the proxy write to one process at a time, and the reader takes bytes of one pack for the rest of another (C 609, 697). |

### What passes, and what that does not say

`ResponseToRequester`, `ChainHasWork` and `ImplementsRpc` are checked where no
called process is itself waiting when a request for it arrives, so that the
proxy never keeps a request in `msg_queue` (`NoRequestWaits`).  Where one is,
the defect that `wrong_result` shows makes them false, and with them, in the end,
`WaitingMirror` and `ResponderEndsChain`: in the instance of `wrong_result` TLC
finds, some 70 steps from the start, a process that the proxy takes to be
waiting after its `send()` has returned the wrong answer, and a chain that ends
with another process than the responder.  Section 4 has the theorems: under
`NoRequestWaits` all five hold of every instance, and `OneAsker` says of which
configurations `NoRequestWaits` itself holds.  `calls_crash` checks
`WaitingMirror` and `ResponderEndsChain` beyond the theorems, in an instance
whose requests do wait in the proxy but whose crossing calls cannot get as far
as in `wrong_result`.  `TypeOK`, `BackDefined`, `AckFirst` and
`RequestInOnePlace` hold there too, as everywhere: they are proved.
`ReadySpec` lets clients call only when every process is registered; without it
`early_call_dropped` is the counterexample.

`HangsOnlyByLossOrCycle` says what is left for a `send()` that hangs when
anything may happen: a request that somebody waits for has been dropped or was
with a process that is gone (a cycle, an unknown service, a provider that has
not connected, a crash), or processes wait for one another.  The second is
real: the proxy refuses a cycle within one call id, but two calls with ids of
their own, or one whose id `ReceiveRequest` has cleared, can close a cycle it
does not see.  TLC finds it when that disjunct is removed.

`RequestsAnswered` excuses a request whose connection is closed, and a process
in which a `send()` is never answered (`[]Unanswered`): the proxy is gone (C 861
returns and wakes nobody), or it has dropped the request or forgotten the call.
Nothing else keeps a request from its answer.  When the proxy does answer is the
subject of `calls_rpc` and `HangsOnlyByLossOrCycle`.

`StopWorks` speaks of a master whose last fork has succeeded; `stop_deaf.cfg` is
about the others.  `RunningHasFile` and `EndedLeavesNone` hold of both.

`StopsRunning` speaks of the children that run when the master gets SIGTERM;
`stop_loses_child` is about the others.

`WaitingMirror` holds in one direction only.  The comment at H 64 wants nothing
but a response sent to a process that waits; the proxy learns that a process
waits when it reads its request, and until then may send it another request,
which the process puts into its queue.

### Bounds

* *Clients and requests.*  Two concurrent client requests are the least for
  requests to cross, for a queue of a waiting process to hold something, and
  for one node's two processes to be both busy.  `MaxSends = 2` lets one job
  make two calls in turn under one call id (as `svc_step` does); the third
  client of `wrong_result` is what its counterexample needs.
* *Call ids.*  `SeqSize = 1` makes every call of a process reuse the call id,
  and thus the chain, of the one before; elsewhere two ids are enough for the
  calls made.
* *Processes.*  Four in `calls_rpc`: the longest chain of the shipped services
  (calc, step_two, echo) and another caller of its last one.  Three in
  `calls_crash`: a group of two, and a node that calls back into it.
* *Crashes.*  One in `CallSystem`: all that the proxy does about a dead process
  is local to it.  Two children in `Supervisor`, which is what signals need to
  coalesce, and one failed fork.
* *ActorCtx.*  Two requests per connection make a queue of more than one
  message, and the proxy's connection is the second that shares the worker.
* *Lifecycle.*  Two masters are a running one and one that starts, or two that
  start at once; two nodes at one address is what makes a bind fail within a
  server; a second stop command meets a master that is ending already.
* *Framing.*  Length fields of two bytes can be cut, bodies are empty or one
  byte, buffers and `async_write_some` take three: less than any frame but one
  without a body.  Three frames let a third follow an overlap or a cut.  After
  an overlap no further write is started, since nothing is claimed any more.

Deadlock is not checked: the clients, the crashes and the requests to stop are
bounded, and a system that has served them all stops in earnest, as does a
master that has handled SIGTERM.

### Fairness

`CallSystem` assumes weak fairness of the proxy's steps as a whole, and of each
actor process's that has begun to connect (`ActorRuns`: reading, taking a
message, ending a job): every `io_context` keeps running.  A process need not
connect; only `ConnectingSpec`, of `early_call_dropped`, obliges it to, so that
the run is about a process that comes too late and not about one that never
comes.  A client is never obliged to call, a process never to die, and a service
neither to call `send()` nor to refuse.

In `ActorCtx` services are obliged to call `notify_complete` in the end, which
the README of the repository asks of them ("用户需要显式通知上下文处理完成"): strong fairness,
because a service may go through `send()` any number of times first.  The proxy
and the clients are obliged to nothing.  `Lifecycle` obliges a stop command to
go on, and a master to handle its SIGTERM, if it reads its signals, and to
finish its end; nobody has to start, to kill or to clean up.  `Framing` obliges
the reader to read and a socket that has room to be written to, as the loops of
both processes do.  In `Supervisor` the master and the children handle their
signals; nobody is obliged to die or to stop the server.

## 4. Proofs

All theorems hold for every value of the constants allowed by the `ASSUME`s of
the modules (disjoint names, bounds that are natural numbers, and for `Framing`
formats in which a length precedes what it measures).

**ActorCtx** (`ActorCtxProofs`).  `TypeCorrect` needs one strengthening:
`JobTaken`, that the worker has a message of a connection whenever it is in a
call, since `Reply` writes its number.  The other safety properties rest on
two inductive invariants.  `QueueInv` says what `runq` is: no coroutine is in
it twice (`Distinct`), and for the worker, the service and each reader, being
in the queue is equivalent to being in a state in which nothing else is going
to resume it (`WorkerQueued`, `ServiceQueued`, `ReadersQueued`), with
`ServiceInJob` tying the service to the worker's job.  `Distinct` is needed
because a step removes the head only: a coroutine queued twice would run again
in a state it does not expect.  From it follow `WorkerWakes`,
`CompletionArrives` and `ServicesInTurn`: the lost notifications are those that
find the worker in the queue already.  `AnswerInv` adds that there is one
answer in flight and that a service between its write and its wait stands in
the queue before the reader that has the answer (`SendFirst`), from which
`ResponseIsAwaited` follows.  This last argument is the one that the queue's
order carries: with another suspension between the two, the answer could be
lost.  TLC checked each invariant before it was proved.

`AnswersInOrder` (`AnswersCorrect`) needs to know where the requests of a
connection are.  `OrderInv` says that those its client has asked and the worker
has not taken are exactly the ones with the reader, in the worker's queue or on
the wire; that they stand there in the order of their numbers; and that the job,
if it is this connection's, is the request after the last one answered
(`InLine`, with `Taken` and `Pending`).  It is claimed of open connections only:
a failed service closes one with its requests anywhere, and they may be executed
without an answer.

`ActorServesInTurn` proves `ImplementsServer`, the whole of it, since
`FifoServer` has no fairness.  Only `open` is renamed (to `sock`); what is
hidden is where a request is between its arrival and its answer, and the
coroutines that share one queue.  `CallService` implements `Serve`: that the
number it takes is the next one of its connection, and has been asked for, is
`OrderInv` in the state after the step.  `Reply` on a connection that was closed
meanwhile implements `Drop`, like `FailJob`.  The connection to the proxy is
closed by `Drop` alone: `Proxy` is not among the `Clients` that may be hung up
on, and a reader that ends leaves its socket open unless it is a client's.

**CallSystem** (`CallSystemProofs`, `PackProofs`).  `CallSystemProofs` first
says what `HandleRequest` and the functions it calls may return, as lemmas about
maps and packs without any variable, because three actions and two branches of
one of them call it.  `CallSystemTypes` strengthens `TypeOK` with `FramesRight`:
a suspended coroutine of the proxy has the locals that it goes on with.
`ConnackComesFirst` rests on `AckInv`: whoever the proxy may write to - the
processes it has registered, the members of a call chain, the sender of a
request - is `Acked`, that is, has read its CONNACK or would read it next; and
nothing is under way to a process that is not.

`ChainsReachBack` and `OnePackOfARequest` are two views of one invariant,
`PacksInv`.  Every place a pack may be in is a *line* (the two directions of a
connection, the proxy's queue for a process, its own queue, its job), and
`AllLines` is one function from lines to sequences, so that a step is either a
pack that leaves a line, one that enters a line, or both.  On lines and chains,
`Once` says that no request has two packs, and `Issued` that a request with a
pack has been sent (so a new one has none: without it `Once` is not inductive).
`Fits` compares two things the proxy never compares: a chain is longer by one or
more than the number of the call's requests that are *on the way* (forwarded,
and not answered yet).  A request that is forwarded adds one to both sides, a
response that is read takes one of both; a queued request only lengthens the
chain, and the second dispatch lengthens it again, which is why the comparison
is no equation and why `ChainHasWork` does not follow from it.  A step that would empty a
chain has a response to read, that response is on the way, so the chain has two
members at the least.  `Room` says the same of a pack that has left
its line and is about to enter another.  The last conjunct, `ChainsLeft`, carries
this over the suspensions of `ReplyWritten` and `SelfDone`.  What a crash or a
dropped request takes away leaves `Fits` true.

**CallSystem, whose answers go where** (`ChainProofs`).  `ResponderIsLast`,
`ResponsesArrive`, `ResultsAreOwn` and `WaitingIsReal` are theorems of the form
`Spec /\ []NoRequestWaits => []P`: `wrong_result` shows that they are false
without the premise, which is about the state of the proxy only.  For one step
the premise is used before and after it, so that the branch of C 679-682 is not
taken and the queue that C 676 drains is empty.  The inductive invariant is
`CallsInv`.  Its parts:

* `OneCall`, `Awaited`: a process has one request under way, and it is the one
  its `send()` waits for;
* `PlacesRight`: where in the chain of its call a pack belongs.  A request that
  somebody works on is right behind its sender, a response is that of the last
  process to the one before, a request that the proxy has not read comes from
  the last process of its chain or begins one;
* `ChainsRight`: a chain begins with the process whose call id it is
  (`Starts`), has nobody twice (`NoLoop`), and whoever has another one behind it
  is silent, waits, is in that chain only, and is known to wait (`AwaitsRight`);
* `FramesMatch`: what the suspended coroutines will find when they go on.  A
  coroutine that is to free the last process of a chain stands in `runq` before
  that process's own (`Earlier`), so the process cannot join another chain
  first: the one place where the order of completions matters in the proxy;
* `WaitsRight`: whoever is taken to be waiting is in a chain or about to be
  freed;
* `CallIdRight`: a call id is that of the request being served or the process's
  own, which is all that is left when C 897 has cleared it.

`NoLoop` and `AwaitsRight` except chains that are `Spent`: the last process has
cut its connection and nothing of it is left to read, so nobody will pop the
chain.  Without that exception they are not inductive.  `LineInv` (what a
connection and the coroutine of the proxy at its end know of each other) and
`PacksInv` are part of the induction.

`ChainsHaveWork` adds `Busy`: the process right behind another in a chain has
the request in hand, or its answer is under way.  A cut connection takes the
request away and leaves the chain, hence the further premise `[]NobodyCut`.

**CallSystem, the configurations** (`ChainProofs`).  `OneAsker` is a condition
on the constants alone: a process that others call and that itself calls others
(`Middle`) is called by one process at most, and by no client.  It admits any
number of front processes with clients, of processes that ask nobody, and
chains of any length.  The instance of `calls_rpc` satisfies it; that of
`wrong_result`, where two processes call the one in the middle, does not.  Nor
does `actor_config.yml`, because calc has an `actor_count` of 2 and `step_two`
calls echo; with one calc process it does.
`LevelInv` is inductive then: whoever is right behind another in a chain may be
called by it (`Linked`), processes serve what they provide and ask what their
services may ask (`Provided`), and a process in the middle uses the call id of
the request it serves (`Threaded`).  The argument is that a process that could
find the one it asks waiting would be the only one that asks it, and so waits
itself (`MiddleCaller`).  `NoRequestEverWaits` follows, and
`CallsComeBack`: the theorems above without their premise.  `NobodyFails` (no
crash, and no service asks its own node) makes `Unbroken` an invariant: no
connection is cut and no service has an error.  `NoCallIsLeft` is
`ChainsHaveWork` without premises.

`CallsAreRpc` is the safety part of `ImplementsRpc` for these configurations:
initial states map to initial states, and each step issues, executes, answers or
returns one request or leaves all of them alone.  The refinement mapping looks
through the lines for a response; `Seen` says that this is the same as `Phase`,
which looks at `Answers` and `Gets`, the sets the invariant speaks of.  All
that the proxy does is a stutter (`ProxiesRpc`): a response it reads is in
`Gets` of the caller in the same step.

**Supervisor** (`SupervisorProofs`).  `SupervisorInv` adds to the two
properties that the master's type is always MASTER (so the respawn branches
never run) and that no child exists before the first fork.
`SupervisorTypes`,
`EveryExitIsNoticed` and `LivingNotExited` follow for any number of processes,
deaths and failed forks.

**Lifecycle** (`LifecycleProofs`).  `FileOf` says what each place in a master's
life implies about the file (a master that runs deaf has it too, and nobody
writes into a removed file), and `OneStarts` that at most one master is
between its look and its write.  Both are needed: without the second, the
`CreateFile` of one master would empty the file of another.  Most steps are
covered by one lemma (`QuietStep`): they leave the file alone and bring nobody
to a place that says more about it than is known.

**ConfigLoad** (`ConfigProofs`).  The invariant `Loading` says that the two
check sets are those of what has been listed (`SetsRight`), which nodes are
finished (`NodesRight`), that the nodes are those listed, with their addresses
(`EntriesRight`), and that `service_map_` is the listing (`MapRight`).
From these follow `MapsAgree`, `LoadsRight` and `RefusedRightly`, for any names,
services and files of any length; three lemmas say what `Append` does to the
members and the distinctness of a sequence.

**Framing** (`FramingProofs`).  `StreamInv` says what the parts of the stream
make when they are put together: what the reader has of a frame, then what the
buffers hold, then what the one unfinished writer has still to hand over, are the
frames not yet delivered, in order and whole (`Streams`; when the writers'
process has ended, its part is whatever it did not write).  `Progress` ties the
reader to it: what it has and what it still needs are the frame up to and with
the field it is at.  Neither is inductive without the other: without `Streams`
the reader's cells could be anybody's, and without `Progress` it could cut the
stream at the wrong place.  `CompleteField` is the step where they meet: a read
that is complete ends exactly where the field ends, because two ways to cut a
sequence at one length are one (`SameCut`).  The size that the reader takes from
a length field is then the right one (`SaidRight`), and the frame it recognises
is the one whose turn it is (`NumberedRight`).  The cells of a frame are a
`FlattenSeq`, a recursive function; that it is what its recursion says is proved
from the least place where it would not be (`LeastNumber`, `FlattenFacts`), which
needs no induction theorem with an operator parameter.  `FramesArriveWhole`
follows, and `FramingIsChannel`: each step of `Framing` is a step of
`FrameChannel` or changes nothing there.  The assumption on the formats, that a
sized field follows one of fixed size, is what both formats of the code satisfy;
without it the theorem is false.

Only model-checked: liveness (`RequestsAnswered`, `HangsOnlyByLossOrCycle`,
`StopsRunning`, `StopWorks`, the promises of `ImplementsRpc` and
`ImplementsChannel`), which is out of the prover's reach under fairness; and
`WaitingMirror` and `ResponderEndsChain` of the instance of `calls_crash`, in
which requests do wait in the proxy.

## 5. Not modelled

* Option parsing, `set_daemon` (whose parent exits before the pid file is
  written), failures of the file system, process titles, logging: output, or
  outcomes of the operating system.
* The contents of packs: serialisation (`struct_pack`) is a record.
* Errors of `accept`, after which `handle_actor_remote` (C 931) and
  `handle_proxy_accept` (C 474) return and take no further connections.
* The death of the proxy in `CallSystem` (in `ActorCtx` it may close).
* Reuse of pids, in the tables of the master (C 967) and in the pid file.
* The example services, except for which of them calls which.

## 6. Plan

1. Weaken `OneAsker`: what a request that waits in the proxy leaves true of
   chains that it is not in.
2. The proxy's death in `CallSystem`.
3. `UseThread`: the threads of the example service and its notification.
