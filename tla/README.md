# Specifications of jsonrpc-bidirectional

TLA+ models of the parts of this library whose behaviour depends on the order
of events: the client's WebSocket transport with its reconnection, the client's
result cache, the five kinds of bidirectional link with their routers and
transports, the server's pipeline of plugins, the owners of a pool of worker
processes and of a pool of threads, and the round robin that shares results
between workers. Each model is translated from the code under `src/src` (paths
below are relative to that directory), checked by TLC on small instances, and all of
its safety properties are proved by TLAPS for every value of the constants.

## The system

| Part | State | Operations | Talks to |
|---|---|---|---|
| `Client.js` | next call ID, list of plugins | `rpc()`: wait for the plugins, encode, make the request, decode, settle; timeout of a call | plugins, in order and with an `await` at each |
| `Plugins/Client/WebSocketTransport.js` | `_webSocket`, `_waitReadyPromise`, map from call ID to promise, keep alive counters | `waitReady()` (reconnect), `makeRequest()`, `processResponse()`, `rejectAllPromises()`, `dispose()`, handlers of open, error, close, message | a WebSocket; the user's hook `fnWaitReadyOnConnected`, which itself calls `rpc()` |
| `Plugins/Client/Cache.js` | `mapCache` | `afterJSONEncode()`, `afterJSONDecode()`, `clear()`, `deleteKeys()` | called by `rpc()` before and after the request |
| `NodeClusterBase/MasterEndpoint.js`, `NodeMultiCoreCPUBase/MasterEndpoint.js` | entries of workers, persistent IDs, time stamps of failures, shutdown flag, round robin state | `start()`, the fork and exit handlers, `_addWorker()`, `workerServicesReady()`, `gracefulExit()`, `rpcToRoundRobinWorker()`, `rpcWorker()`, `rpcWorkersBroadcast()` | worker processes, through the router |
| `BidirectionalWorkerRouter.js`, `RouterBase.js` | sessions, promises of readiness | `addWorker()`, `_onRPCConnectToEndpoint()`, `_routeMessage()`, `onConnectionEnded()` | the master, the server, a reverse calls client per session |
| `NodeMultiCoreCPUBase/WorkerEndpoint.js` | started flag, master client | `start()`, `gracefulExit()` | the master |
| `BidirectionalWebsocketRouter.js`, `BidirectionalWebRTCRouter.js`, `BidirectionalWorkerThreadRouter.js`, `BidirectionalElectronIPC.js` | sessions, promises of readiness | add a socket, worker or window; `_routeMessage()`; end of a connection | server and transport on one channel |
| `WorkerTransport.js`, `WorkerThreadTransport.js`, `WebRTCTransport.js`, `ElectronIPCTransport.js` | map from call ID to promise | as the WebSocket transport, without reconnection | their channel |
| `NodeWorkerThreadsBase/MasterEndpoint.js` | as the cluster's, whose class it extends | `_addWorker()` | threads |
| `Server.js`, `IncomingRequest.js`, `Plugins/Server/*` | plugins, endpoints; what is known of each request; number of running calls | `processRequest()`, `addPlugin()`, `removePlugin()`, `dispose()` | endpoints, plugins |

What is hard about it is that every function is cut into pieces by its
`await`s. Between two of them other calls, timers, events of sockets and exits
of processes run, and the code often looks at a field (`_webSocket`,
`mapCache`, `objWorkerIDToState`, a promise in a map) before an `await` and
uses it after. `PROJECT.json` lists the places as hazards, with the properties
that watch them.

What makes each part correct:

* transport: every promise settles, and once; nothing is executed twice; a call
  resolves only if it was executed; at most one connection; nothing is sent
  before the login; answers find their calls;
* cache: what a call resolves with was the server's answer to a call with the
  same key, was not expired when the call was made, and the cache is bounded;
* pool: one worker per persistent ID whatever crashes; an entry marked ready
  can be called; nothing is forked during shutdown; shutdown ends;
* round robin: load is even; a shared result is fresh enough, and never older
  than one the same worker had before;
* link: both ends may call at once and neither is told what the other has
  seen: every call settles once and is executed at most once, a response always
  finds its call, and the loss of the link leaves no call waiting;
* server: a method runs only for a request that was authenticated, authorized
  and not answered by a plugin; every call that runs is counted, and what makes
  the number of them wrong is known.

## Modules

| Module | Models | Notes |
|---|---|---|
| `RpcCalls` | the contract of `Client.rpc()` as its caller sees it | abstract specification |
| `WebSocketTransport` | the transport, and `rpc()` as it drives it | implements `RpcCalls` |
| `CachePlugin` | the cache plugin, and `rpc()` around its callbacks | |
| `WorkerPool` | the master's handlers and the router's readiness handshake | |
| `RoundRobin` | `rpcToRoundRobinWorker()` | the pool reduced to what this function reads |
| `Duplex` | one bidirectional link of each kind: the router and the transport at both of its ends | composes them; implements `RpcCalls`, with the calls of both directions |
| `ThreadPool` | the main thread's handlers, `rpcWorker()`, `rpcWorkersBroadcast()` | |
| `Server` | `processRequest()` and the plugins that keep state | |
| `KeepAlive` | `_setupKeepAlive()` of the transport, with time | the other modules close a socket at any time instead |
| `MC_*` | symmetry sets for TLC | no definition of a model is replaced |
| `WebSocketTransport_proofs`, `CachePlugin_proofs`, `WorkerPool_proofs`, `RoundRobin_proofs`, `Duplex_proofs`, `ThreadPool_proofs`, `Server_proofs`, `KeepAlive_proofs` | theorems | each extends the module it is about |

### WebSocketTransport

A *run* is one execution of the promise executor inside `waitReady()`, named by
the call and the place (`rpc`, `check`, `send`) that started it; `runPc` says
before which of its `await`s it stands (`backoff` is the 2000 ms sleep,
`connecting` the await of open, `hook` that of `fnWaitReadyOnConnected()`,
`failing` the 5000 ms sleep of the catch block). `waitReadyPromise` holds the
run whose promise `this._waitReadyPromise` is. A call goes from `idle` through
the three places that await `waitReady()` to `answer` (in `makeRequest()`, on
the promise in the map) and `settled`. `reqPromise[c] = "pending"` says that
the call has an entry in `_mapCallIDToWebSocketRequestsPromises`. `outcome` is
the promise `rpc()` returned. Sockets have the `readyState` of the standard;
closing one that is still connecting emits "error" at once, closing an open one
emits "close" later.

JavaScript runs the continuations of settled promises (microtasks) before the
next event or timer. Every event is therefore guarded by `~MicrotaskReady`,
which also says that code between an event and the awaits it wakes up is not
interrupted. The server is not part of that program and runs at any time.

`forgotten` is a history variable; no action reads it. It turns true when the
catch block of a failed run sets `this._waitReadyPromise = null` (line 466) while
that field holds the promise of another run, which is still pending. That takes
no more than a connect that fails and a second call during the 5 seconds after
it, which starts a run of its own. From then on two runs may be in progress that
know nothing of each other, and the properties of the order of calls, login and
connections do not hold: `SentAfterLogin` and `AnswersMatch` are stated up to
that event, as is `RejectedWithItsSocket` when there is a hook. One
connection at a time, the contract of `rpc()` and that every call settles do not depend on it.

The keep alive timers close an open socket at any time here (`SocketClosing`), as
does the peer; `KeepAlive` has when they do. Bidirectional mode is off; `Duplex` has
it.

### CachePlugin

A call is encoded (`Encode`: three outcomes, over the limit, miss, hit), is
answered or fails on a miss, and is decoded. The entry a call saw in `Encode`
and the one it finds in `DecodeCached` or `DecodeUncached` are not related by
anything but the key. The identity of the call that fetched a result stands for
that result, so `Genuine` can tell whose answer a call resolves with. It takes
the results the code does make up for what they are: undefined for an error
response that was stored, null for a hit.
`FreezesStored` selects the branch for frozen stored objects.

### WorkerPool

An action is one event of the master's event loop with the continuations and
`nextTick` callbacks it leads to. `proc` is the process; `workerIDToState` and
`persistentIDToWorkerID` are the two maps of the master; `sessions`, `waiting`
and `timers` are the router's. `replacing` holds the exit handlers that sleep,
with the persistent ID they read before. `master` ends in `stopped`
(`process.exit(0)`), `failed` (`process.exit(1)` in a handler) or `crashed`
(exception in a timer callback). Which failures are older than two minutes is
left open, so `failures` may shrink to any value at an exit. The sleep before a
replacement is taken as the code has it: of some length. A rejected promise
that nobody awaits is only a warning, as in the versions of Node.js the library
names.

### RoundRobin

For one method. Worker IDs are consecutive numbers in the order of forking,
which is the order of `Object.values(objWorkerIDToState)`. A promise is named
by the counter it was made at. `pending` are messages of workers that arrived
and wait for the plugins of the master's server, so that a call may be made
after its worker's exit.

### Duplex

`kind` is chosen in `Init`, so that one specification has every kind of link. The
actions that all kinds share (`ReceiveRequest`, `ReceiveAnswer`, `FinishServing`,
`LinkLost`...) are completed in those of a kind (`RouteWorker`, `FinishRTC`...) by
what it does of its own: how its catch block ends the link (`CatchWebSocket`,
`CatchWorker`, ...), what it does with a response nobody waits for
(`UnmatchedOnRTC`, ...), how it replies. `end` is the state of
each end of the channel; for workers, threads and windows the end `"other"` is the
process itself, which is there or not. `joined` says that a router listens,
`session` that it has the link in `_objSessions`, `hasClient` that the session has
its client plugin. `wire` holds the messages in flight to each end, in order;
closing an end loses those that have not arrived, and what arrives before the
router listens is lost too (`ComesTooEarly`), except in a thread, where it waits for
the first listener. An entry of the transports'
maps is a call whose `outcome` is pending: the code makes and deletes both in
the same turn. `faults` bounds the messages that are no JSON-RPC, the exceptions
of server plugins and the `dispose()` of worker transports; `crashed` says that an
exception nobody catches has ended the owner's process. `unheard` is a history
variable: the calls whose request came too early, or was made to a thread whose
"exit" had been heard (`TooLate`), which the transport does not notice. A message that
is not an object is ignored by the routers of workers, threads and windows, and one
that is no JSON-RPC is caught, so `ReceiveMalformed` goes either way there.

The hosted kinds begin with the handshake: the owner calls `addWorker()` and
awaits `ready`, the worker makes its client and calls `rpc.connectToEndpoint`
(the call `Hello`), and the owner makes its reverse client when that has arrived.

### ThreadPool

As `WorkerPool`, for threads: an entry is made only when the thread is online, for
which `_addWorker()` waits 10 seconds (`adding`), and the exit handler is set with
it. A thread that says it is ready when its entry is gone sleeps 10 seconds
(`unknownReady`), and then marks all entries ready: after `gracefulExit()` has deleted
them those are of threads that came online late, which may have no client, and
calling them throws. `main` may also end as `crashed`: a thread's "error" for which
nobody listens, since it is not online yet or came online after `_addWorker()` gave up, is
an exception in the main thread. One broadcast and one `rpcWorker()` run beside the life of the threads;
`part[t]` is the promise of the broadcast for thread `t`, which is `stuck` when the
catch block settles nothing. Threads that exit may be replaced until the IDs of
the model run out.

### Server

A step is one hook of one plugin, or the code between two loops. `next[r]` is the
index of the loop that request `r` is in: the loops iterate the array that
`addPlugin()` and `removePlugin()` change, so that an index may skip a plugin or
end early. The user's plugin may do nothing, answer or throw in any hook.
Decoding, the check of params and the lookup of the method may each fail.

Requests come in the forms the routers give them: with `requestObject` set, as from a
WebSocket or a worker (`Decoded`), or with a body still to be decoded, as over HTTP;
as a notification (`Notifying`), over either; with an endpoint that is not known
(`Unknown`), so that the error is there before the first hook. A body may decode to null, and
`method` may be no name (`Nameless`). The hooks of `PerformanceCounters` check for
these at lines 60 and 103 and not at 76, and throw themselves when there is no object, so that
the model says which of its hooks counts, takes off or throws. `refused`,
`counted` and `uncounted` are history variables.

### KeepAlive

Time passes in ticks and every timer is a countdown: `check` and `retry` are the two
timers the transport has at most one of, `pingIn[s]` is the interval set up for socket
`s`, and `intervalID` says which of them the transport remembers. `pongIn[s]` is the
time in which a peer that is there must have answered. `silence` is the time since
the last frame, for the properties. A `Tick` is possible when no timer has run out.
That at most one socket is open is taken from `WebSocketTransport`, where it is proved.

## What is checked

| Run | Properties | Instance | Result |
|---|---|---|---|
| `ws_reconnect` | `TypeOK`, `OnlyCurrentLive`, `Refines`, `EveryCallSettles`, `SentAfterLogin` | two calls, one of them a notification and one with a timeout, one login call, two sockets, with and without `bAutoReconnect`, with `dispose()`, fairness | 92 thousand states |
| `ws_prompt` | `AnswersMatch`, `RejectedWithItsSocket` | three calls, two sockets, `dispose()`, `PromptClose` | 362 thousand states |
| `cache_entries` | `TypeOK`, `NotExpiredBeforeCall`, `OvershootBounded`, `Genuine` | four calls, two at a time, three keys, one entry, stored objects frozen | 242 thousand states |
| `cache_null` | `HitIsPopulated` | stored objects not frozen | violated |
| `pool_workers` | `TypeOK`, `OneWorkerPerPersistentID`, `ReadyHasClient`, `NoForkAtExit`, `SlotRefilled`, `ExitEnds` | four workers for two persistent IDs, fairness | 406 thousand states |
| `pool_crash` | `MasterSurvives` | | violated |
| `rr_sharing` | `NeverOlder`, `FreshnessReached`, `EvenLoad` | three workers, four calls | 354 thousand states |
| `duplex` | `TypeOK`, `NoneLeftBehind`, `AnswersMatch`, `HeardWhenSent`, `Refines`, `EveryCallSettles` | every kind of link; a call and a notification of one end, a call of the other, one fault, fairness | 397 thousand states |
| `thread_pool` | `TypeOK`, `OneThreadPerPersistentID`, `NoStartAtExit`, `ExitEnds`, `BroadcastThrowsOrResolves`, `RpcWorkerSettles` | two threads and a replacement, one broadcast, one `rpcWorker()`, fairness | 708 thousand states |
| `server` | `TypeOK`, `CalledOnlyIfAuthorized`, `NotAnsweredTwice`, `CountsRunning`, `EveryRequestEnds` | two requests, one decoded and perhaps a notification, one perhaps without a method name or endpoint, four plugins, one change of the list or exception, fairness | 1460 thousand states |
| `keep_alive` | `SilentIsClosed`, `ClosedHasNoTimers`, `HealthyIsKept` | two sockets, timeout of 5 ticks, the default interval, latency 1, `PromptClose` | 100 thousand states |
| `silent_unnoticed` | `SilentIsClosed` | the same without `PromptClose` | violated |

Four invariants have a proof for every instance and no run: `UnknownOnlyAtExit` of
`WorkerPool`, `ReadyHasClient` of `ThreadPool` (until `gracefulExit()` begins), and the types of `RoundRobin` and of
`KeepAlive`.

**Bounds.** Two sockets are enough for a connection and its replacement, and a
closed socket to which nothing refers is used again, so the number of
reconnections is not bounded in the runs. Two ordinary calls overlap in every stage, and a
third (`ws_prompt`) can start a run while one is in progress and one has
failed. A login call can be made once; when it is used the hook returns at
once (`HookReturns`). `Workers` bounds the forks: two persistent IDs and four
workers allow for a replacement of each, or a replacement of a replacement; a
worker exits only while there is one left to replace it, so that the bound
never looks like a lost slot. Three workers and four calls let the counter go
round. A link has a call in each direction at once, both in every stage, beside
a notification and the handshake; a second fault would find the link closed or
its router deaf by the first. Two threads and a replacement let one of them exit
before, during and after a broadcast. Two requests overlap in every pair of
hooks of the server, and the list of plugins can shift by one under both: a
second change does what the first does. Deadlock is not checked: every system
here may stop when the user makes no more calls or the master has exited.

**Symmetry.** Sockets, workers, persistent IDs, and calls and keys of the cache are
symmetric; calls of the
transport are not (they differ in kind). No run with a liveness property uses
symmetry.

**Fairness.** Continuations, timers and the events that end a passing state of
a socket happen: open or error of a connecting one (the handshake and connect
timeouts), close of a closing one (the close timeout of the WebSocket library).
Messages in flight arrive or are lost with their channel; the methods of an
endpoint and the hooks of plugins return, which `processRequest()` takes for granted
as well. A socket closed by one end closes at the other, and a killed worker
dies. Nothing makes the user call, the network fail, or a worker start, connect
or become ready: of the pools only the timers are fair, and the methods of a
thread that serves.

`EveryCallSettles` of `Duplex` names what it excepts: the caller is gone; a router is
*deaf*, with its end open and its session dropped, as the catch blocks of the
worker and Electron routers leave it; or the call's own request was `unheard`. A thread
gets no other exception: a call made to it before its "exit" was heard settles.
`NoneLeftBehind` excepts the unheard calls to threads alone. The
fairness of `Duplex` is that of one action, `Progress`, which has all the steps named
above: with finitely many calls each is taken finitely often, so one condition
gives what one for each would.

**PromptClose.** `AnswersMatch` and `RejectedWithItsSocket` hold if the "close"
event of a replaced socket comes before the 2 or 5 seconds of sleep that precede its
replacement are over. The library's close handshake may take up to 30 seconds.
If it does, the late event rejects the calls of the new socket, whichever
socket they were sent on, and their answers then close it as unmatched. Both
properties are violated without that assumption, and so are those of `KeepAlive`.
With a peer that is gone it is a strong one, as the close handshake is never
answered: it says that nobody calls during those 30 seconds.

### Disagreements of code and text

* `cache_null`: the null made up for a hit is stored and returned when the entry
  goes between the two callbacks, for instance because a call that overlaps
  reaches `nMaxEntries`.
* `pool_crash`: the readiness timeout of a worker that exited before it
  connected uses a promise that was deleted, and the exception ends the master.
* `silent_unnoticed`: the late "close" event of a replaced socket clears the timers of
  its successor, since the transport has only one of each. The successor then
  sends no pings, and nobody notices when its peer is gone; if a pong of it is still
  to come, that sets the check again, which closes a healthy connection. The
  interval of the closed socket is never cleared.

In the models but stated by no run:

* `gracefulExit()` of a worker is a notification; the master deletes the entry as
  soon as it is sent, and exits 3 seconds later although workers may take 30
  seconds to stop their services. "[Master] All workers have exited."
  (`NodeMultiCoreCPUBase/MasterEndpoint.js:554`) is then not so.
* Without `bThrowOnError` the catch block of `rpcWorkersBroadcast()` settles nothing, so
  the broadcast never returns when one of its calls fails; by the comment at line
  641 it returns the errors in its result.
* Nothing increments `_nKeepAliveControlFramesReceived`, so that the loop of retry pings
  does not end when a frame is received, which is what
  `WebSocketTransport.js:130` counts them for.
* A failed run drops the promise of the run that followed it
  (`WebSocketTransport.js:466`, the variable `forgotten`). Then a call may be sent
  before the login although ".waitReady() will not resolve until
  fnWaitReadyOnConnected also resolves" (`WebSocketTransport.js:62`). TLC finds it with four calls
  and two login calls, in a trace of 35 states that no run of this
  project is large enough to reach: a connect fails; a call made in the 5 seconds after
  it puts the socket down and sleeps; the first run drops the promise of that second
  run; a further call connects and logs in; the second run wakes up and calls its
  hook, whose login puts down the socket it finds closing and connects without
  the hook; a call that joins the third run, which has resolved, is sent on that
  connection. Likewise a call whose entry was rejected between its two checks
  can be sent on a later connection, and its answer is then unmatched.
* A run of `waitReady()` takes any socket it finds for a connected one
  (`WebSocketTransport.js:385`), so the hook may be called while the socket is
  connecting or down; the comment at line 64 says it is called after the socket
  becomes connected.
* A worker whose own count of calls is behind the method's counter, because of
  plain calls or of other workers, gets the same shared promise again
  (`NodeMultiCoreCPUBase/MasterEndpoint.js:416`); the comment at line 341 says it
  never does.
* After an exception in `_routeMessage()` a worker process (and either end of
  Electron's IPC) drops its session, logs "Unclean state. Closing worker."
  (`BidirectionalWorkerRouter.js:402`) and leaves the channel open: its own
  calls hang from then on.
* The cache exceeds `nMaxEntries` by overlapping misses (`OvershootBounded` says by
  how many at most), and a late answer of the server is replaced by an expired
  entry.
* A worker that connects after `gracefulExit()` has begun makes the master exit with
  code 1, and round robin sends calls to workers that have exited. A reply to a
  cluster worker that has exited emits "error" on it when nobody listens any
  more.
* `runningCallsCount` is too high for good when a plugin ahead of `PerformanceCounters` throws in
  `result()` or `exceptionCatch()`, or `PerformanceCounters` is removed while a call runs. It is
  too low, for instance 0 while a call runs, when a plugin ahead refuses another call by
  an exception in `afterJSONDecode()`, or in `beforeJSONDecode()` with `requestObject`
  set: `exceptionCatch()` (`Plugins/Server/PerformanceCounters.js:103`) then takes off a
  call that was never counted. So does an answer to a call without a method name
  (line 76). `CountsRunning` bounds the error by the number of such calls.
* A thread that comes online after `gracefulExit()` has begun may be marked ready without a
  client, by another that finds its own entry gone
  (`NodeMultiCoreCPUBase/MasterEndpoint.js:321`).

## What is proved

For every set of calls, sockets, keys and workers and every value of the
parameters, from the assumptions on the constants that the modules state
(`ConstantsOK`, `NoneIsNoRun`, `NumbersOK`, `FiniteOK`, `DistinctOK`,
`PoolConstantsOK`, `BoundsOK`, `DuplexConstantsOK`, `ThreadPoolConstantsOK`,
`ServerConstantsOK`, `KeepAliveConstantsOK`, `TimingOK`: parameters are of their kind, special values are distinct,
calls and keys of the cache and workers are finite sets, and the keep alive timeout
leaves room for an answered ping):

* `WebSocketTransport_proofs!TypeCorrect`: `Spec => []TypeOK`.
* `AtMostOneConnection`: `Spec => []OnlyCurrentLive`. Inductive together with
  the types. The argument is that `this._webSocket` is replaced by null only when
  the socket is down, and by a new socket only when it is null in the same turn.
* `TransportRefinesRpcCalls`: `Spec => Refines`. The invariant `CallInv` is
  needed because a step of the transport must map to a step of `RpcCalls`:
  a call has a promise once it has begun (`BegunHasPromise`), a request in
  flight has not been executed, so executing it is a first execution
  (`NotExecutedYet`), an answer on its way or received is that of an executed
  call (`AnswersAreEarned`), and a call that waits for an answer without an
  entry in the map has been answered or is a notification (`AwaitedHasEntry`).
  Each step of a call, of a run, of a socket and of the server then is
  an abstract step or a stutter.
* `NothingBeforeLogin`, with a hook and login calls that are no notifications:
  `Spec => SentAfterLogin`. As long as `forgotten` is false `RunInv` holds: the run
  that sleeps or connects is the one `waitReadyPromise` names (`BackoffOK`,
  `ConnectingOK`, `ConnectingInCharge`); a run in its hook is that one too, or its
  login call cannot resolve any more (`HookOK`); a call of the hook finds the
  socket open and so never starts a run (`SkipsPass`); and a call past its second
  check has its entry in the map or awaits a run that fails (`SendOK`).
  `LoginInv` adds that an open socket is logged in when the run `waitReadyPromise`
  names has resolved (`ReadyIsLoggedIn`) and when a call stands before `send()`
  with a run that has (`SenderIsLoggedIn`), and that the login call of the run in charge is
  under way on that socket until then (`HookLogsIn`).
* `RejectedOnlyWithItsSocket`: `PromptClose /\ Spec => RejectedWithItsSocket`, by
  `SocketInv`: the sockets that were replaced are closed whenever there is
  another, so that the event which rejects the entries is one of the socket
  they were sent on; and while one is still closing there is a run that others join.
* `AnswersFindTheirCall`: `PromptClose /\ Spec => []AnswersMatch`, by `MatchInv`: a
  request on an open socket keeps its entry until it is answered. It is
  inductive with `RunInv`, whose `SendOK` says that the entry is there when the
  request is sent, and `SocketInv`.
* `CachePlugin_proofs!TypeCorrect`.
* `EntriesOutliveCalls`: `Spec => []NotExpiredBeforeCall`, by the invariant that
  a call looked for its key at a time that is past, so that an entry stored
  since expires later than that.
* `OvershootIsBounded`: `Spec => []OvershootBounded`. Size plus calls under way
  is the measure: `Encode` adds a call only below `MaxConcurrent` and leaves
  the size within the limit, `DecodeUncached` adds an entry and ends a call.

* `CachePlugin_proofs!ResultsAreGenuine`: `Spec => []Genuine`. The invariant says the
  same of every entry of the cache: its value is the result of a response to a
  call with that key, or the undefined or null the code stores for one.
* `Server_proofs!TypeCorrect`, which needs that a list without doubles keeps none
  when a plugin is appended or taken out (`AppendNew`, `RemoveOne`).
* `OnlyAuthorizedAreCalled` and `AnsweredOnce`: `Spec => []CalledOnlyIfAuthorized` and
  `Spec => []NotAnsweredTwice`, by `CallInv`: a request past `Check` is authenticated and
  authorized, and stays so; a request in `method`, or whose method was called, was
  answered by no plugin, as that needs a stage it has left.
* `CountIsOfRunningCalls`: `Spec => []CountsRunning`, by `CountInv`: as long as no plugin
  was removed, the position of `PerformanceCounters` in the list tells for each stage and
  index whether a request may be or must be counted (`Between`), also when plugins are
  appended and when plugins throw; so a request is counted once and taken off once
  (`Tracked`). A request is taken off without having been counted only once, and only if
  it was refused before or has no name; each of these lowers the number by at
  most one below that of the set (`CountBounds`).

* `WorkerPool_proofs`: `TypeCorrect`, `ReadyEntriesHaveClients` (`ReadyHasClient`),
  `NoUnknownWorkerWhileUp` (`UnknownOnlyAtExit`), `SlotsAreKept`
  (`OneWorkerPerPersistentID`), `NoForkOnceExiting` (`NoForkAtExit`). The last three
  have one argument, `SlotsOK`: while the pool is up the worker last forked for a
  persistent ID has the entry that says so, and runs, or has exited and is the
  one its sleeping "exit" handler will replace. `gracefulExit()` deletes every
  entry (`ExitOK`), so that a handler that wakes up later finds none and throws
  before it forks.
* `ThreadPool_proofs`: `TypeCorrect`, `ReadyThreadsHaveClients` (`ReadyHasClient`),
  `NoThreadOnceExiting` (`NoStartAtExit`), `SlotsAreKept`
  (`OneThreadPerPersistentID`). A thread has no entry until it is online, so the
  argument is about who occupies a persistent ID (`Occupies`): at most one
  thread does, and while the pool is up at least one, be it lost to a late
  "online". `ReadyHasClient` is for the time before `gracefulExit()`: until then a thread that
  has connected has its entry, so that `unknownReady` is empty and nobody marks the
  entries of others. `EntriesOK` ties the occupants to their entries; `RoomOK` and
  `StartedInOrder` say that the next thread ID is one that was never used.
* `RoundRobin_proofs`: `TypeCorrect`, `PromisesAreNeverOlder` (`NeverOlder`),
  `PromisesAreFreshEnough` (`FreshnessReached`) and `LoadIsEven` (`EvenLoad`). The promise that is kept is none
  or that of the last count (`PromiseIsLatest`), since a call that fails or is not shared clears
  it; with `CountsOK`, no count ahead of the counter, what a worker is given is in
  order and fresh enough. `InTurn` relates the loads to the counter: of two workers
  the one whose entry is looked at first by the next call has the same load, or
  one less. That a call keeps it is modular arithmetic (`NextRemainder`,
  `TurnsGoRound`): the worker that is called goes from the first turn to the last.
* `Duplex_proofs`: `TypeCorrect`; `DuplexRefinesRpcCalls`: `Spec => Refines`;
  `RequestsAreHeard`: `Spec => []HeardWhenSent`; `NoCallLeftBehind`:
  `Spec => []NoneLeftBehind`; `AnswersFindTheirCall`: `Spec => []AnswersMatch`. `WireOK` is the argument of the refinement: a request on
  the wire is there once, of a call that has begun, and neither executed nor
  being served; a result on the wire is that of an executed call. `ServingOK`
  says the same of what a server works on. `HandshakeOK` orders the handshake of
  the hosted kinds: the worker's router listens as it makes its first call, and
  its owner has a client for it only after that call. For the answers `AnswerInv`
  follows a call of a peer that has the link or is to have it (`Attends`): while
  its request is on the wire or served it is pending (`WaitedFor`); a response is to a
  pending call whose request is gone, and the only one to it (`AnswersOK`); whoever
  made a call has a client (`MadeByClients`). Most steps send
  nothing and settle no call of such a peer, and one lemma has them all
  (`QuietIsTidy`): what is on the wires is what is left of what was there (`Fewer`).

* `KeepAlive_proofs`, if a socket is closed before its successor opens: `TypeCorrect`,
  `SilentSocketsAreClosed`, `TimersEndWithTheirSocket` and
  `HealthyConnectionsAreKept` (`HealthyIsKept`). `Watched` says that silence and the
  time left of the check add up to the timeout, `HeardInTime` that silence is at most
  an interval and the latency while the peer is there; so the check never runs
  out for such a peer. `TimersOfOneUp` gives each timer to the one socket that is up.

Every invariant and action property of a passing run has a theorem. Only
model-checked is liveness (`EveryCallSettles` of the transport and of the link,
`SlotRefilled`, `ExitEnds` of both pools, `BroadcastThrowsOrResolves`,
`RpcWorkerSettles`, `EveryRequestEnds`), which is out of the prover's reach.

The hypotheses of theorems are those under which the runs check the
properties. `PromptClose` and `HasOnConnected` are constants of the model;
`SkipCalls \cap Notifications = {}` says that the hook's login is a call
that waits for its answer, as otherwise nothing tells that it was executed.

## What is not modelled

* Contents of requests and responses, encoding, URLs and signatures (`URLPublic`,
  `SignatureAdd`), logging: data without order.
* HTTP through `fetch()` and the HTTP side of the server; the stdio transport, which
  has one process per call; the `uws` adapter, a wrapper of a library's events.
* Reconnection in bidirectional mode: `WebSocketTransport` has no router and `Duplex`
  no reconnection; their product is too large for a run. Call timeouts are in the
  former only.
* `ping()` of browsers, which have none; timers that run late.
* Web workers of the browser, and several Electron windows, whose messages share
  one event of `ipcMain`.
* The worker's own `gracefulExit()`: to its owner, a worker that exits at some time.
* Durations and averages of `PerformanceCounters`, and its exported methods with the
  authentication it fakes for them (lines 41-55 and 130-158).

## Plan

1. The safety part of `EveryCallSettles`, as invariants with proofs: a pending call of a link has
   its request on the wire or served, or a response on its way, or an end of the link
   that is not open (or one of the exceptions the property names); a call that waits in
   `waitReady()` awaits a run that is in progress or settled.
2. What `forgotten` leaves true of overlapping runs.
3. Reconnection in bidirectional mode, and the keep alive timers of both its ends.
