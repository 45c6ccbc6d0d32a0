# CxxMina in TLA+

CxxMina is a C++ port of Apache MINA: an asynchronous network framework in which
client threads, a few selector threads ("I/O processors", acceptors, connectors)
and optionally a pool of worker threads share sessions, queues and futures. This
directory models its concurrent core and the stateful parts built on it, checks
the models with TLC on small instances, and proves the most important properties
with TLAPS for every instance.

All paths are relative to the repository (`src/` is its root). Every definition
that models code is listed with its file and lines in `PROJECT.json` ("map"), and
every property with a mutation of the model that breaks it ("mutants").

1. Inventory: the system, its parts, and what is hard about each
2. Modules: how the models correspond to the code
3. Runs: what is checked, in which bounds
4. Fairness
5. Proofs: what holds for every value of the constants
6. Findings: where the code and its documentation disagree, and what else the models show
7. What is not modelled
8. Plan

## 1. Inventory

A *service* (acceptor or connector) creates *sessions* and gives each to an *I/O
processor* of its pool. The processor's thread reads and writes the sockets and
sends events up the session's *filter chain* to the user's *handler*; calls of
the user (`write`, `closeNow`, `suspendRead`, ...) go down the same chain, in
whatever thread they are made, and end in queues that the processor's thread
polls. Results come back through *futures*. The service's *listener support*
keeps the set of open sessions.

| Part | State | Hard | Correct means | Model |
|---|---|---|---|---|
| I/O processor (`EAbstractPollingIoProcessor`) | `processorRef`, `newSessions`, `removingSessions`, keys, `nSessions`, disposal flags | clients start a Processor while another leaves; the count may be wrong; closing has many causes | one Processor per selector, no session stranded, events once and in order, `dispose` returns | `PollingIoProcessor`, `SessionLifecycle` |
| Writing and closing (`EAbstractIoSession`, head filter, flush part of the processor) | write queue, `currentWriteRequest`, `scheduledForFlush_`, `OP_WRITE`, suspension, `closing` | lost wakeups, partial writes, errors half-way, stale interest sets | order on the wire, every message written or failed, truthful futures | `SessionWrite` |
| Futures (`EDefaultIoFuture` and subclasses) | value, `ready`, `waiters`, listeners | saved `notifyAll`, listeners told outside the monitor, timeouts | one value, each listener once, nobody sleeps | `IoFuture`, `FuturePromise` |
| Ordered executor (`EOrderedThreadPoolExecutor`, `EExecutorFilter`) | waiting sessions, a task queue per session, workers, idle count | hand-over of a session, idle workers that leave, exit signals, throwing tasks | events of a session in order and one at a time; nobody stranded | `OrderedExecutor`, `OrderedEvents` |
| Polling acceptor (`EAbstractPollingIoAcceptor`, `EAbstractIoAcceptor`, `ENioSocketAcceptor`) | `acceptorRef`, register and cancel queues, bound handles, semaphore | slot with a semaphore, roll-back of half-bound requests | calls return; what is said to be bound is open | `PollingIoAcceptor` |
| Polling connector (`EAbstractPollingIoConnector`, `EAbstractIoConnector`) | `connectorRef`, connect and cancel queues, `nHandles` | deadline against success in one pass, double decrement | a connect future is set once and truly | `PollingIoConnector` |
| Service listeners, processor pool (`EIoServiceListenerSupport`, `ESimpleIoProcessorPool`) | `managedSessions`, `activated`, counters, the pool | activation by the first session of several, unbind beside new sessions | a service says the truth about its sessions | `ServiceSessions` |
| Statistics (`EIoServiceStatistics`) | counters, times, throughputs | interval cut to an int, times out of order | throughputs are those of the counters | `ServiceStatistics` |
| Selector replacement (`ENioProcessor`) | selector, keys, interest | keys moved one by one beside suspend and resume | no session with a key nobody selects on | `SelectorSwitch` |
| Datagram transport (`ENioDatagramAcceptor`) | its own slot, queues and semaphore; sessions and writes | uninitialized members; write in a client thread beside the flush; `send()` that throws; one key for all sessions of an address | calls return; a backlog has somebody to flush it | `DatagramAcceptor`, `DatagramSessions`, `DatagramWrites` |
| Session recycler (`EExpiringMap`, `EExpiringSessionRecycler`) | map with access times, a thread | expiry beside use; start of the thread by several puts | one session per peer, all of them watched | `DatagramSessions`, `ExpirerThread` |
| Filter chain and its builder | linked entries, a map of names | changes during events, callbacks that throw | list and map agree; no event misses a filter | `FilterChain` |
| Handler chain (`EIoHandlerChain`) | linked commands | the same | every command is called | `HandlerChain` |
| Read futures, counters, idle state (`EAbstractIoSession`) | two queues of read futures, counters, times | two readers and one close, bytes of dropped requests | each message to one reader; counters say what is on its way | `SessionReads`, `SessionCounters` |
| Streams (`EIoSessionInputStream`, `EIoSessionOutputStream`, `EStreamIoHandler`) | buffer, flags, last write | flags read without the lock, waiting in the processor's thread | data in order; whom a reader or writer waits for | `SessionStream` |
| Codecs (`EProtocolCodecFilter`, text line, `http/`) | undecoded bytes, decoder state, encoder queue | any cut of the stream, exceptions, two writers | decoding does not depend on the cut | `LineDecoding`, `HttpDecoding`, `EncodedWrites` |
| Buffers (`EIoBuffer`) | position, limit, mark, capacity, content | arithmetic at the limits | contents kept, order of the indices | `IoBuffer` |
| Proxy (`EProxyFilter`, logic handlers, authentication) | handshake state, kept events and writes, challenge | end of the handshake against queued events, responses in pieces | no event lost or doubled; credentials only on demand | `ProxyHandshake`, `ProxyResponse`, `ProxyAuthentication`, `DirectiveParsing` |
| Other filters (black and white list, profiler) | lists of subnets, timers | lists changed under events, bits of the mask | the right peers blocked, right measures | `AddressFilter`, `ProfilerTimer` |
| Configuration (`EAbstractIoSessionConfig`) | read buffer sizes | setters that compare with each other, sizes doubled in an int | a session never reads into an empty buffer, its bounds are in order, one small read does not shrink it | `ReadBufferSize` |
| Transports and events | - | getters, setters, dispatch | - | no |

The hazards, each at its line, are in `PROJECT.json` ("hazards"), with the
properties that would catch them going wrong. Section 6 names others that no
property covers.

## 2. Modules

### PollingIoProcessor (with SessionLifecycle)

Models `EAbstractPollingIoProcessor.cpp` with `ENioProcessor.cpp` from the
addition of a session to its destruction. Processes:

* *client calls*, one each of `add(s)` and `closeNow(s)` for every session and one
  `dispose()`. `callPc` says where a call stands. `BeginAdd` and `EnqueueAdd` are
  `add()`, which looks at the disposal flags without a lock and then queues the
  session; `BeginClose` and `EnqueueRemove` are `closeNow()` up to
  `processor->remove()`; `ReadRef` and `CasRef` are `startupProcessor()`: the read
  of `processorRef` and the `compareAndSet` are two steps, with everybody else in
  between. `BeginDispose`, `LeaveLock`, `EndDispose` are `dispose()`.
* *Processor runnables*. `pc[r]` follows `run()`: `select`, `handleNew` (one
  `AddNow` or `AddNowFails` per session), `process`, `remove` (one `RemoveSession`
  per poll), `check`, then either on to `scan` and back, or out: `GiveUp` clears
  the slot, `CheckNew` and `CheckKeys` look for work, `Reclaim` takes the slot
  back with a `compareAndSet`, `Exit` and `Signal` are the part after the loop. A
  runnable that has finished is idle again and stands for the next object the
  code would allocate.
* *peers and handlers*: `ReadFails`, `ClosedByHandler`, `WriteFails`.

`life` is the `ENioSession` (no key, key valid, destroyed), from which `State`
computes what `getState()` answers; `managed` and `closed` are the listener
support's set and the closeFuture. The abstraction: bytes, filters and traffic
masks are left out, and `wakeup()` is, since `select()` has a timeout of a second.

`SessionLifecycle` is the abstract specification: a session is added, created,
destroyed, each once and in this order, or dropped before it was created.

### SessionWrite

Models one session that is registered throughout, with its writers (one thread
per message), a thread that suspends and resumes, one in `closeNow()`, one in
`closeOnFlush()`, the processor's thread and the kernel's buffer. A message is
`Size` units, and the kernel takes a unit while it has room, so that partial writes
and full buffers happen. The budget `maxWrittenBytes` of `flushNow()` is a choice
after each message: go on, or reschedule the session.

| Code | Actions |
|---|---|
| `EAbstractIoSession::write`, `HeadFilter::filterWrite`, `write`, `flush(session)` of the processor | `BeginWrite`, `LookSuspended`, `Offer`, `LookAgain`, `Flag`, `Enqueue` |
| `suspendWrite` ... `resumeRead`, `updateTrafficControl`, `setInterestedInWrite` | `Toggle`, `Compute`, `Apply` |
| `closeNow` | `CloseNow`, `CloseNowRemove` |
| `closeOnFlush` | `CloseOnFlush`, `CloseOnFlushOffer`, `CloseOnFlushFlag`, `CloseOnFlushEnqueue` |
| `process`, `flush`, `flushNow`, `writeBuffer` | `Process`, `PollFlushing`, `FlushingEmpty`, `Unschedule`, `NothingToWrite`, `PollRequest`, `PollClose`, `WritePart`, `WriteAll`, `WriteThrows`, `SentThrows`, `TakeOffSent`, `WriteFails`, `AfterFlush` |
| `notifyWriteTimeout`, `removeSessions`, `removeNow`, `clearWriteRequestQueue` | `WriteTimeout`, `NoTimeout`, `RemoveSession`, `RemoveEmpty`, `RemoveNow` |

`offered`, `wire` and `caught` are histories that the properties read.
The `catch` of `flushNow()` is reached in three ways, each by messages of a kind of their
own, `Odd` together: one that nobody encoded (`Unencoded`), for which there is no writer; a
file region whose transfer throws (`Regions`); a buffer that is sent whole and whose `reset()`
or `position()` throws then, since its mark is unset or it changes as it is sent (`Altered`).
The future fails, the request stays current, and nothing is scheduled (`WriteThrows`): the
next flush tries it again, and may send it after all (`WriteAll`), or takes off what had been
sent (`TakeOffSent`). What throws behind `messageSent` only ends the loop (`SentThrows`).
`DefaultWriteRequestQueue::poll()` runs `closeNow()` itself when it meets the
`CLOSE_REQUEST`; `PollClose` is that whole call.

### IoFuture (with FuturePromise)

Models `EDefaultIoFuture`. A `SYNCHRONIZED` block that calls nobody is one step.
`addListener()` on a completed future calls the listener inside the block, and is
two steps with the monitor held between (`AddDirect`, `ToldDirect`); the
notification by `setValue()` is outside the block, one step per listener
(`NotifyFirst`, `NotifyOther`, `NotifyEnd`). `Await`, `WaitEnds`, `Interrupt`, `Wake`
and `Throw` are the forms of `await0()`. Each setter passes a value of its own,
which is also how one sees which call has won. `FuturePromise` is the abstract
specification: a value set once; each registered listener told once after that,
unless it was withdrawn before.

### OrderedExecutor (with OrderedEvents)

Models `EOrderedThreadPoolExecutor` behind `EExecutorFilter`. What the code does
under `mainLock` or `tasksQueueLock` is one step, and so is every access to
`waitingSessions`, `idleWorkers` and `shutdown_` outside: `execute()` is `Fire`,
`Accept` or `Refuse`, `OfferSession`, `ReadIdle`, `AddWorkerIfNecessary`; a worker
goes through `Fetch` or `FetchTimeout`, `NoLongerIdle`, then `IdleLeaves` or
`PollTask`, `EndTask`, `NoTaskLeft`, and `Restore`, `Leave`, `Exit`; the pool is
resized (`SetCorePoolSize`, `SetMaximumPoolSize`, `PrestartCoreThread`) or shut down
(`Shutdown` ... `AwaitTermination`). A task may throw, which ends its worker.
`OrderedEvents` is what `EExecutorFilter.hh` promises: the events of a session run
one at a time, in the order in which they were accepted.

### PollingIoAcceptor, DatagramAcceptor, PollingIoConnector

The same kind of slot as the processor's, with other ways in and out.
`PollingIoAcceptor` has `bind()`, `unbind()` and `dispose()` with `bindLock`,
`disposalLock` and the semaphore of `startupAcceptor()`; `registerHandles()` opens
the addresses of a request one at a time, and takes them back when one fails;
`unregisterHandles()`, an accept that throws, and the end of the thread with the
disposal of the selector. `DatagramAcceptor` extends it with what
`ENioDatagramAcceptor` does in its place: no reclaiming semaphore, and an initial
slot that may hold anything, because no constructor sets it. `PollingIoConnector`
has `connect()`, the deadline and `cancel()` of a `ConnectionRequest`,
`registerNew()`, `processConnections()`, `processTimedOutSessions()` and
`cancelKeys()` with their effects on `nHandles`. The thread may find the request of
a key gone (`Forgotten`), as the key holds it weakly.

### The components of MCServices

`ServiceSessions`: the pool chooses a Processor by the session's id; each creates
and destroys its sessions through `fireSessionCreated()` and
`fireSessionDestroyed()`, of which every look at the map and every counter is a
step, while threads unbind the service or the pool is disposed. `disconnectSessions()` does
nothing unless the acceptor closes on deactivation, which may be set at any time; it iterates
weakly consistently, and its wait may be interrupted (`KeepSessions`, `InterruptWait`). `DatagramSessions`: which session a
datagram belongs to, with the recycler's monitor, the expirer beside it and threads
that close. `ExpirerThread`: how that thread is started and stopped.
`DatagramWrites`: writes from inside a handler or from other threads, with the
flush of the acceptor's thread, which shares the current request with them; `send()` may throw
in either (`SendThrows`, `FlushThrows`), and the other sessions of the address switch the
interest of the key they share (`OtherSession`). `muted` is a history: a throw, or an interest
turned off behind the session's back, has left no flush to come.
`FilterChain`: the builder, the chain built from its snapshot, and changes of the
chain link by link while events walk it in both directions. `ServiceStatistics`:
counters and `updateThroughput()`, with an int of `IntRange` values in place of
2^32. `SelectorSwitch`: futile selects, the cancelling of broken keys, and the move
of all keys to a new selector, which may fail half-way, beside `suspendRead()`.

### The components of MCSessions

| Module | Code | Compared with |
|---|---|---|
| `LineDecoding` | `EProtocolCodecFilter::messageReceived`, `ECumulativeProtocolDecoder`, `ETextLineDecoder` | the lines of the whole stream |
| `HttpDecoding` | the two HTTP decoders' states | the messages of the whole stream |
| `ProxyResponse` | `EIoBufferDecoder`, `EAbstractHttpLogicHandler::messageReceived` | the responses that were sent |
| `EncodedWrites` | `filterWrite` and `messageSent` of the codec filter | the order of parts |
| `IoBuffer` | `EIoBuffer` | content as a sequence beside the indices |
| `SessionReads` | `read()`, `offer*ReadFuture()` | the order of messages |
| `SessionCounters` | scheduled bytes and messages, idle state, write timeout | histories of what is on its way |
| `SessionStream` | the streams and their handler | the bytes that arrived |
| `ProxyHandshake` | `EProxyFilter`, `EAbstractProxyLogicHandler`, SOCKS 4, HTTP | the order of events and writes |
| `ProxyAuthentication`, `DirectiveParsing` | `EHttpSmartProxyHandler`, the handlers, `EStringUtilities` | the demand as it was meant |
| `AddressFilter` | black and white list, `ESubnet` | the subnets of the list that is set |
| `HandlerChain` | `EIoHandlerChain` | the commands there all the time |
| `ProfilerTimer` | `EProfilerTimerFilter` | the measured times |
| `ReadBufferSize` | `EAbstractIoSessionConfig`, `increase`/`decreaseReadBufferSize` | - |

Bytes, names and addresses are members of small sets; integers are cut where the
code's width matters (`IoBuffer`, `ESubnet`'s masks, `ServiceStatistics`).

### Faulty variants

Next to an action there may be a variant of it with the comment `Fault:`
(`ReclaimBySet`, `FlagBySet`, `CopyForgotten`, ...). No next-state relation uses
them. Each is a plausible slip in the code (a `set` for a `compareAndSet`, a
forgotten reset, a dropped test), and substituting it for the real action makes the
property named with it in `PROJECT.json` fail: the properties would notice these slips.

## 3. Runs

| Run (cfg) | Properties | Instance |
|---|---|---|
| `processor` (PollingIoProcessor) | SlotOwner, LiveSlot, NothingStranded, LifecycleSpec | 2 sessions and 2 runnables, or with a dispose() 1 session and 3 runnables; early closing, write errors |
| `processor_live` (PollingIoProcessorLive) | CountNotTooHigh, SessionsProgress, IdleProcessorStops | 2 sessions, 2 runnables, no write errors, no dispose |
| `processor_dispose_hangs` (PollingIoProcessorLeak) | DisposeCompletes, violated | 1 session whose connection breaks, dispose |
| `write` (SessionWrite) | FlushedOnce, WireTruthful, FlushBeforeClose | messages of 2 units, kernel buffer of 2, closeOnFlush; in a behaviour 3 messages with one toggle, or 3 with closeNow, errors and timeouts, or 2 of which one or both may make flushNow throw (not encoded, file region, altered buffer), with errors and timeouts unless it is the one not encoded |
| `write_live` (SessionWriteLive) | NoLostFlush, WritesComplete | 2 messages of 2 units, buffer of 3, closeOnFlush |
| `future` (IoFuture) | NobodyForgotten, NobodySleeps, AnswersTruthful, AwaitReturns, PromiseSpec | 2 setters, 3 listeners, 2 waiting threads, one with a timeout |
| `executor` (OrderedExecutor) | OneInCharge, EventsHaveKeeper, NothingStranded, SerialSpec, TerminationSeen | 2 events of 1 session, 2 workers, core size 0 or 1, one resize or a shutdown |
| `acceptor` (PollingIoAcceptor) | AcceptorSlotOwner, BoundTruthfully, SleepsOnlyIdle, CallsReturn | 2 addresses, one bind, unbind and dispose, 2 Acceptors; polling or datagram |
| `connector` (PollingIoConnector) | ConnectorSlotOwner, NotClosedUnderSession, ConnectCompletesWhenCounted | 2 requests, 2 Connectors; a cancel or a dispose |
| `connector_forgets` (PollingIoConnectorForgets) | ConnectCompletes, violated | 2 requests, one cancelled, 1 Connector |
| `services` (Services) | ServiceSound, DisconnectedAll, OneSessionPerPeer, BacklogHasFlush, ChainSound, WalkSeesAll | the seven parts of MCServices |
| `sessions` (Sessions) | CodecsSound, BufferSound, SessionSound, ProxySound, FiltersSound | the fifteen parts of MCSessions |

**Union runs.** `services` and `sessions` check components that share no state.
The variable `part` is chosen at the beginning and never changes; only that part
moves, and a property of the run is the conjunction of those of the parts it
names. The state spaces add up and do not multiply. `acceptor` has the variable
`datagram` to the same end: the kind of acceptor a behaviour is about. `processor`,
`write` and `connector` leave out combinations of rare events by the constraint or
the next-state relation of their MC module, which says which.

What the properties say:

* **SlotOwner**, **AcceptorSlotOwner**, **ConnectorSlotOwner**: a thread in its loop is
  the one in the slot, and one that leaves is not.
* **LiveSlot**: until the selector is closed, the slot never holds a Processor that has
  left; otherwise nobody would ever start another.
* **NothingStranded** (processor): a session that waits or is open always has somebody
  who runs the loop or is bound to start it. It is what the order "clear the slot,
  then look at the queues" is for. (executor): a session that waits has a worker
  that will take it, in a pool that keeps one.
* **LifecycleSpec**, **PromiseSpec**, **SerialSpec**: the refinements of the three
  abstract specifications.
* **CountNotTooHigh**, **IdleProcessorStops**: the local count may fall too low, even
  below zero, which the exit protocol repairs; too high would keep the thread for ever.
* **SessionsProgress**: an added session is taken up; a created one that is closed gets
  its closeFuture.
* **FlushedOnce**: the flag is set exactly while one party has charge of the session.
  **NoLostFlush**, **WritesComplete**: what is to be written has somebody certain to
  write it; every message is written and `closeOnFlush()` closes (where `flushNow()` throws at
  no message; see section 6 for those).
* **WireTruthful**: messages arrive whole and in the order in which they were queued,
  and a write reported as failed is not sent, then or later. Its exceptions are real: the
  fragment of a message whose write timed out while another thread was closing may be
  followed by the next message, and where `flushNow()` caught an exception the request stays
  current and goes out with a next flush, though its future says it failed.
* **FlushBeforeClose**: `closeOnFlush()` does not close before what was queued ahead is
  written (nothing abrupt intervening).
* **NobodyForgotten**, **NobodySleeps**, **AwaitReturns**, **AnswersTruthful**: `setValue()` may
  leave out the `notifyAll` only when nobody waits; no listener is lost; `await()` says
  "completed" only if so, and gives up only with a timeout.
* **OneInCharge**, **EventsHaveKeeper**, **TerminationSeen**: a session is in charge of one
  worker, place or sender; events that wait are in charge of somebody; the end of a
  pool without core threads is noticed.
* **BoundTruthfully**, **SleepsOnlyIdle**, **CallsReturn**: `getLocalAddresses()` is what is
  open; an Acceptor that sleeps has nothing to do; `bind()` and `unbind()` return.
* **NotClosedUnderSession**, **ConnectCompletesWhenCounted**: no deadline or error closes the
  socket of a session; as long as `nHandles` is right every future is completed.
* **ServiceSound**: a connector is active exactly while it manages a session,
  the counters miss none (one Processor); throughputs are those of the counters; keys
  follow the selector; the recycler's thread watches what is in the map.
* **DisconnectedAll**: `disconnectSessions()` overlooks no session it found, beside others that
  come and go, and when it has waited to the end their channels are gone.
* **BacklogHasFlush**: datagrams that wait have a flush to come, or one of two things that
  take it away has just happened: a `flush()` that threw, an interest turned off by another thread
  or session.
* **OneSessionPerPeer**, **ChainSound**, **WalkSeesAll**: see their comments.
* **CodecsSound** (lines, HTTP messages, proxy responses, encoded parts), **BufferSound**,
  **SessionSound** (reads, counters, streams, read buffer), **ProxySound** (handshake,
  authentication, directives), **FiltersSound** (addresses, handlers, profiles).

**Why the bounds are enough.** The protocols have pairwise races: a leaving runnable
against a starting client, two writers for one flag, a setter against a
waiter. Two sessions let the loop be busy with one while the other is added or
removed. Three runnables with a dispose are a leaving one, its successor and
the successor's successor, the most that can overlap, since each exists only after
the previous one gave up the slot. A buffer as large as a message lets it go at
once or in parts; one of a message and a half lets it go at once behind half another. Three listeners
are needed for a first, an other and one behind it. Two workers and two events let one
worker finish as the other event comes. Two addresses are the least that can be
half-bound, two requests the least of which one may be counted for the other.
Three selectors let a move fail and the next repair it; the try limit is 1 in place of 10.
Streams of six letters hold two messages cut anywhere, with bytes kept between three reads.

Named bounds, beside the constants whose names begin with `Max`: `MaxRemoving` (read errors
do not queue a session that is queued already), one call of each kind per session and
message, a listener is not added again once it was told; in `sessions` the constraints
`FewBuffers` (marks and minimum capacities that matter), `FewLists` (no address twice in
a list), `ShortSecond` (the second directive has one form) and `FewMessages` (the second
message is small); in `services` `Bounded` (interchangeable names and peers, short chains,
no third session with two Processors, `setCloseOnDeactivation()` until it was looked at).

`CHECK_DEADLOCK FALSE` stands in the configurations in which the system may rest:
no client has to begin a call, an idle thread has given itself back, and bounds end the
components of the union runs. The two runs of `SessionWrite` keep the deadlock
check: the processor's thread loops for ever.

The type invariants of the modules with proofs are proved and not run again.

## 4. Fairness

Weak fairness only, and of these steps:

* the loop of a selector thread (`LoopStep`, `ProcNext`, `AcceptorStep` or `AcceptorProcess`,
  the Connector's): the executor runs a submitted runnable, and `select()` returns after a
  second at the latest, or when woken;
* a worker of the executor (`WorkerNext`): tasks return, the keep-alive time ends;
* the rest of a call that has begun (`EnqueueAdd`, `EnqueueRemove`, `Startup`, `LeaveLock`,
  `EndDispose`, `WriterNext`, `TogglerNext`, `CloserNext`, `SetterNext`, `ToldDirect`, `WaiterNext`,
  `ExecuteNext`, `CallStep`): a thread that runs keeps running, and nothing in these calls
  blocks except what their guards say;
* `Drain`: the peer reads what it is sent. Without it no write need ever end.

No fairness is assumed for the beginning of a call, for errors, handlers, peers
that close, interrupts, or the timer of `wait()`: `AwaitReturns` holds although the check
every five seconds may never come.

## 5. Proofs

`*Proofs.tla` hold the theorems; they are proved for every value of the constants
that meets the modules' assumptions (`ProcessorAssumption`, `WriteAssumption`,
`FutureAssumption`, `ExecutorAssumption`, `AcceptorAssumption`, `ConnectorAssumption`
and those of the parts of MCServices and MCSessions: nulls are no elements, sets of waiters are
finite, as are the event types of the profiler and the threads that measure for it, counts
are naturals). There is no bound on sessions, runnables, messages, listeners, workers,
addresses, requests or threads; a bound that ends a counter (`MaxCommands`, `MaxCapacity`)
may be any natural number.

Induction over data is done in two ways, since the theorems of the library that
take an operator cannot be used. A set of numbers that is not empty has a least element
(`LeastNat`, from the well-foundedness of `<`), so that a counterexample to what a loop
computes has a shortest one, which leads to a contradiction. And what a fold computes is
described first by a function that has its equations, which exists for every finite set
(`SumExists`), and 2^k is the number of subsets of `1..k` (`PowerIsNat`), so that the
theorems about finite sets count for us.

**PollingIoProcessorProofs.** `TypeCorrect`; `SlotOwnerCorrect`; `LiveSlotCorrect`;
`NothingStrandedCorrect`; `LifecycleCorrect`; `CountCorrect`. The steps of the model are first sorted by what they do to
`pc` and `processorRef` (`ClientRunners`, `PeerRunners`, `LoopMoves`): nearly all leave
both alone or move a runnable that owns the slot to another phase of its loop.
`SlotOwner` is inductive with `TypeOK`. `LiveSlot` needs `SlotOwner`: only the owner can
leave its loop, and it clears the slot on the way. `NothingStranded` needs in
addition that an open session is in `keys` as long as the selector is open
(`OpenInKeys`), which makes the leaving Processor notice a session that its count has missed.
`LifecycleCorrect` maps each step to one of `SessionLifecycle` or to a stutter; its invariant
`LifeInv` says where a session that is waiting, open or gone may be found, so that none is
created twice. `CountCorrect` has the hypothesis `Breakable = {}`: the invariant `CountInv`
relates `nSessions` to the sessions that are open or will be removed, and a write that
fails breaks it, as the run `processor_dispose_hangs` shows.

**SessionWriteProofs.** `TypeCorrect`; `FlushedOnceCorrect`, by induction with `TypeOK`:
for each action, who had charge of the session before and after. `NoLostFlushCorrect` is
proved under the hypotheses `MaxToggles = 0` and `Odd = {}`; both are necessary,
as the findings below show. Its inductive invariant `FlushInv` adds that the session is
never suspended, and that when `flushNow()` reports all flushed no request is current.
`WireTruthfulCorrect` and `FlushBeforeCloseCorrect` share the invariant `WireInv`, which relates the
history `offered` to the wire, the current request and the queue, in this order:
the queue is a tail of `offered` (`QueueInv`); the current request is the one before it and what it
has written is the end of the wire (`CurrentInv`); what is sent completely is what the
wire holds of it (`SentInv`); as long as nothing abrupt happened nothing is missing
(`OpenInv`); and a removal is only on its way when the session is closing (`RemovalInv`). For
the messages at which `flushNow()` throws, `CaughtInv` says that an exception caught at a message
fails its future for good, and that nothing else that failed has been sent whole.

**IoFutureProofs.** `TypeCorrect`, `NobodySleepsCorrect`, `NobodyForgottenCorrect`,
`AnswersTruthfulCorrect`, `PromiseCorrect`. The invariant `IInv` adds to the properties:
`waiters` is the number of threads between raising and lowering it (`CountOK`), so
that the count is positive whenever somebody waits; at most one setter has won, and it
is the one in the notification (`WinnerOK`); no listener is in the lists twice, and those
not yet told have not been told (`ListsOK`). `PromiseCorrect` maps every step to one
of `FuturePromise` or to a stutter: the safety part of `PromiseSpec`.

**OrderedExecutorProofs.** `TypeCorrect`; `OneInChargeCorrect`, by induction with
`TypeOK`: each step moves a session from one party to the next (sender, place in
`waitingSessions`, worker) or leaves all three sets alone, and the sequence of waiting
sessions is treated through lemmas on appending and taking away. `SerialCorrect` is
the refinement of `OrderedEvents`: with one worker in charge of a session at most,
`PollTask` is `Begin`, `EndTask` is `End`, and `Accept` submits at the end of the queue.
`EventsHaveKeeperCorrect` (`KeeperInv`): `processingCompleted` is set only for an empty
queue, and a session without it is in charge of somebody, until an exception or a shutdown. `NothingStrandedCorrect`
(`CalmInv`): without exit signals and exceptions every worker counted serves, and `idleWorkers` is the
number of those that are idle, so that an `execute()` that finds one idle leaves the session to a
worker that has yet to look.

**PollingIoAcceptorProofs**, of `AcceptorSpec`. `AcceptorTypeCorrect`; `AcceptorSlotCorrect`
(`SlotInv`: with the Acceptor that loops, whoever has given the slot up is not in it, and the permit
keeps two calls from filling it). `BoundTruthfullyCorrect`: `HandlesInv` (nHandles is the number of
open addresses, an Acceptor that leaves and an empty slot have none, half-opened requests are being taken
back) and `LockInv` (only the call that holds `bindLock` has a request queued, and what is told
differs from what is open by what that request has changed). `SleepsOnlyIdleCorrect` (`SleepInv`): whoever queued what a sleeping Acceptor has
not seen has still to wake it.

**PollingIoConnectorProofs.** `ConnectorTypeCorrect`; `ConnectorSlotCorrect`;
`NotClosedUnderSessionCorrect`, whose invariant follows a request from the queue to its key
and its future (`RequestInv`): a request with a session is in no queue from which it
would be closed, unless it was cancelled; a future that reports a failure has none (`FailedInv`).

**ServicesProofs**, of the parts of MCServices:

* `DisconnectedAllCorrect` (`UnbindInv`: a session found at the start of an `unbind()` is
  managed until it is destroyed, and one walked over is being closed);
* `ServiceTruthfulCorrect`, with one Processor (`SoleInv`: one session at a time is on its way in or
  out; `CountsInv`: what the counters have counted; `ConnectorInv`: what the thread believed when
  it looked at the map is still so);
* `BacklogHasFlushCorrect` (`BacklogInv`: the flag, the flush, the interest in writing and `muted`
  against the queue, with what each thread that writes has in hand: whoever fills the queue while
  the acceptor's thread is in a handler or a flush goes on to schedule the session; `ClientStep`,
  `HandlerStep`);
* `OneSessionPerPeerCorrect` (`PeerInv`, `CloserInv`: between looking up and putting nobody
  else can put, and who closes a session has taken it out or finds it replaced);
* `SessionsWatchedCorrect` (`WatchInv`), `StatisticsTruthfulCorrect` (`StatisticsInv`);
* `KeysFollowCorrect` (`SwitchInv`: what a move of the keys has done so far and has still to
  do, which tries precede it, what a call of `suspendRead()` under way has written);
* `WalkSeesAllCorrect`. `LinksInv` says what the list is while a change has set one of its
  two links: each linked entry is the one before the next (`Before`), up to the link that is still to
  be set, and the entry of a change hangs on a linked one. `WalkInv` adds a rank of the entries for each
  direction that grows along the links; no link passes over an entry that is firmly in the chain, an
  entry that is linked in gets a rank right after its neighbour's, one that is linked out keeps
  its own, and a walk has passed every entry it is owed up to the rank of where it is.
* `ChainSoundCorrect`. `OrderInv` says that there is a sequence of the entries, without
  repetition and from head to tail, of which `nextEntry` is the successor and, but for the one
  link that a change has still to set, `prevEntry` the predecessor; a change puts an entry
  into it, takes one out, or leaves it. `LeastNat` shows that the walk of `Along` is this
  sequence.
* `ServiceSoundCorrect` and `ServicePartsCorrect`, what the run checks: a step of the run is a step of the part that was chosen, and leaves those of the others alone
  (`StepOfParts`), so that each part behaves as if it were alone (`PartsBehave`).

**SessionsProofs**, of the parts of MCSessions:

* `ReadsInOrderCorrect` (`ReadsInv`: the i-th future is for the i-th message, except that from
  the future `c` of the close on they are one behind; what was handed out, is kept ready
  and waits are the futures in this order, and what is being offered is a future whose value is not set);
* `StreamSoundCorrect` (`StreamInv`: besides the property, a closed session leaves no write
  pending, and the processor is not in the streams before the session is removed);
* `ReadBufferSoundCorrect` (`SizeInv`: both configs have their bounds in order at any point of a
  copy, and a decrease that is not deferred has seen two reads that fill less than half, or
  whose double wraps);
* `CountersTruthfulCorrect` (`ScheduleInv`: a request is in one place at a time - counted by its
  writer, queued, or current - so that the sum over what is outstanding changes by the one that
  moved, or by the whole queue when `closeNow()` drains it, which goes to `drift`; `IdleInv`: the reports of a status, times its idle time, do not pass the time since
  bytes were moved);
* `BufferSoundCorrect` (`BufferInv`, the property with the types of the indices: each of the
  calls keeps the marks in order, extends or cuts the cells, and moves what was put with them, or
  gives up what it overwrote before it threw;
  that expansion reaches a power of two that is large enough is `PowerOfTwoIs`);
* `AddressesCheckedCorrect` (that a masked address agrees with its subnet exactly in the leading bits is
  arithmetic on powers of two; `AddressInv`: as long as the list has said the same of a
  session, what has reached the application is the `Story` of its events);
* `ProfilesTruthfulCorrect` (`ProfilerInv`: a timer differs from the durations recorded for it by
  what the threads that are adding to it have left to add);
* `HandlersCalledCorrect` (`HandlerInv`: the chain is a sequence `s` with a rank that grows along it;
  an entry that was taken out keeps its rank and its link leads to a higher one, so that
  an execution has called what it must call up to the rank of where it is, and nothing twice);
* `SessionSoundCorrect`, `BufferSoundCorrect` and `FiltersSoundCorrect` are what the run checks, of
  the composition (`StepOfParts`).

**Only model-checked.** Liveness (`SessionsProgress`, `IdleProcessorStops`, `WritesComplete`,
`AwaitReturns`, `TerminationSeen`, `CallsReturn`, `ConnectCompletesWhenCounted`), which is beyond
this prover. `CodecsSound` and `ProxySound`, which compare parsers that fold over their
input with the grammar of the input. The invariants of the datagram acceptor, whose slot may hold
anything at the start (the theorems about `PollingIoAcceptor` are about the polling acceptor).
The invariants with an existential quantifier over sequences and ranks (`OrderInv`, `WalkInv`,
`HandlerInv`) were evaluated by TLC on instances smaller than those of the runs.

## 6. Findings

### Refuted by a run

* **`dispose()` may never return** (`processor_dispose_hangs`, `DisposeCompletes`). The
  comment at `EAbstractPollingIoProcessor.cpp:830` says that the loop disconnects all
  sessions at a disposal "so that we exit this loop eventually". After `closeNow()` has set its flag, a write error removes the session with
  `removeNow()`; the later `remove()` finds it destroyed, `scheduleRemove()` refuses it,
  and nobody lowers `nSessions` for it. The loop counts a session for ever.
* **A connect future may never be completed** (`connector_forgets`, `ConnectCompletes`).
  `EIoConnector.hh:87` promises a future "which is completed when the connection attempt
  initiated by this call succeeds or fails". `cancelKeys()` lowers
  `nHandles` for every entry of `cancelQueue`, which may hold a request twice, once from the
  cancel and once from the deadline. The Connector then takes the other request's handle
  for none, leaves, and nobody looks at its deadline any more. As long as no request is
  counted twice, the promise holds (`ConnectCompletesWhenCounted`).

### Met while modelling, without a run of their own

*Sessions and the processor.* A session closed before its registration never gets its
closeFuture completed (`EarlyCloseCompletes` states the contrary). `closeNow()` calls
`setWritten()` on the futures of requests it drops (`WrittenMeansSent`). `suspendRead()`
recomputes the interest in writing from the queue and so stops a message that is half
written and no longer in it; a write beside `resumeWrite()` may stay in the queue
(`ResumeWrites`). `interestOps` is read, changed and written by clients and processor
without a lock. What `flushNow()` catches fails the future but leaves the request current, and
schedules nothing: the message is sent by a next flush, though it was reported as failed, and until
then, or for ever if nobody encoded it, it blocks its session. An exception behind `messageSent`
ends the loop with requests in the queue and no flush to come. A Processor that left
for want of sessions completes `disposalFuture` long before `dispose()`, and one that
lost its slot may close the selector under its successor. `removeNow()` and
`clearWriteRequestQueue()` forget the current request, whose future is never completed
(`FuturesComplete`).

*Selector.* `suspendRead()` beside a move of the keys may act on the old key; a `register`
that fails half-way leaks the new selector with the keys already moved, whose sessions
rest until a later move succeeds; a session whose broken key was cancelled is not
removed; `wakeup()` may use the deleted selector; the queue of `updateTrafficMask()` is
never filled.

*Executor.* A core size of 0 can strand a session; a task that throws leaves
`idleWorkers` too high and loses its session; `shutdownNow()` spins on exit signals left
in the queue; a worker that comes late to a pool with a core never gets one;
`awaitTermination()` begun before a shutdown without workers is never signalled.

*Acceptor.* `dispose()` waits for a thread that wants its `disposalLock`; a `bind()` past
the disposal test waits for ever once the queue is cleared; an exception in `accept()` or
`initSession()` skips `unregisterHandles()`; `registerHandles()` completes the request
before it closes the sockets it opened; an Acceptor that reclaims the slot sleeps with
what was queued meanwhile until its timeout; the activation is announced outside `bindLock`.

*Datagrams.* `acceptor`, `sessionRecycler` and `disposalFuture` are never initialized: a
wild slot starts no thread and `bind()` waits for ever. A client's write takes over
the current request of a flush that stopped, so that its datagram is never sent; a datagram sent over budget
stays current, with an empty buffer. A `send()` that throws in `flush()` leaves the backlog without a
flush to come, in `write()` the request is lost, its future unset. The sessions of an address share one
key, so that a flush of one turns off the interest another waits for. An
expired session's `remove()` takes its successor out of the recycler
(`NoSessionForgotten`). After `stopExpiring()`, `put()` throws and nobody expires
anything; nobody calls `stopExpiring()` and the destructor joins the thread for ever.
`getTimeToLive()` narrows milliseconds to an int before it divides.

*Connector.* `finishSessionInitialization0()` does not override what it means to (its
signature differs), so the cancel listener is never installed: a cancelled connect may
leave its session open or lose its socket. `nHandles` may be negative and the Connector
never stops, or be zero with a handle in flight.

*Service and statistics.* With two processors a connector may be deactivated while it
manages a session, and the largest count be written back smaller; a session created
after the iteration of `disconnectSessions()` is never closed; `unbind()` in a processor's
thread waits for itself, and an interrupt ends its wait with sessions still managed. The interval is narrowed to an int and wraps; `lastReadTime` may
go back.

*Counters and read futures.* A write timeout drops the current request without lowering
the counters, and so does `closeNow()` with all it drains from the queue; empty buffers lower `scheduledWriteMessages` which they never raised, file
regions do the same with the bytes; a request just tried may time out at once after a
pause. `offerClosedReadFuture()` tells one waiting reader only. The read buffer's size
may fall below its minimum, `setAll()` rejects a minimum above the default maximum, and
doubling overflows above 2^30, where also a read that fills the buffer counts as a small one.

*Chains.* `setFilter()` deletes the replaced filter that `replace()` returns; entries are
deleted under events that walk them; `replace(filter)` looks up by `hashCode()`; a handler
chain's `clear()` iterates over the map it erases from.

*Buffers and codecs.* `putShort(index)`, `putInt(index)` and `putLLong(index)` write at
position + index, while the getters read at index; they, `fill()` and `fillAndReset()` store before
the limit is looked at, behind it and, without auto-expansion, beyond the capacity. After an exception the line
decoder's buffer stays in read mode, so that lines are decoded again; the retry
condition at `EProtocolCodecFilter.cpp:135` is inverted; a datagram without delimiter
loops; two writers share one encoder queue and a message may be reported sent before
its parts. HTTP: a request without body followed by other bytes in the same read loops
for ever; a head in pieces loses the rest; chunked bodies never end.

*Streams and proxy.* `close()` drops unread data; `flush()` holds the monitor while it
waits; `sessionClosed()` may wait for ever in the processor's thread. SOCKS 5 throws
`ETODOEXCEPTION`; a SOCKS 4 reply in two pieces is ignored; the HTTP handshake's request
is not flipped, and what follows its answer in one buffer is lost (`position(0)` is taken for
"nothing read"); `setBody()` gets an empty string for a response that is not chunked; a session that closes during the handshake leaves the connect future
unset. Lower-casing makes the digest handler refuse its first value; a challenge
without an algorithm or qop fails; a missing Content-Length is dereferenced.

*Filters and futures.* The profiler's minimum stays 0 and its flag is set before the
worker exists; the setters of the address lists clear before they add; a mask of
zero bits shifts by -1. `await()` with a timeout may last twice its length.

## 7. Not modelled

* Contents: what bytes, traffic masks and filters do in the processor; the hash and
  formatting of the digest; the HTTP and text encoders; dumps and comparisons of buffers.
* Transports, events, session and socket configuration: getters, setters and
  dispatch, without a state that two parties share. Logging filters.
* The successful `replace` of a filter (the replaced one is deleted, which ends the
  defined part of the behaviour) and the builder's `replace`; `EIoBufferWrapper`; the
  attribute map, whose atomicity is the library's.
* The suspension of datagram sessions, for which `updateTrafficControl()` throws; the user's own
  `close()` and `available()` of a session's streams.
* Idle notification of datagram sessions; the datagram connector; the proxy's
  reconnection after a 407 (its initializer lives on the stack of a call that has
  returned) and chunked responses; SOCKS 5, which throws. Constructors and
  `setHandler()` of the services.
* The library beneath (threads, NIO, atomics, collections), which is no part of `src/`: it is
  modelled from its use, with sequentially consistent atomics and weakly consistent
  iterators, and marked external where it has a definition.

The map covers about a fifth of the repository's implementation lines. Half of these lines
are comments, licences, includes and blank; of the others the larger part is
declarations, accessors and formatting, which a model has nothing to say about.

## 8. Plan

Built: every component of the table in section 1 with state of its own; proved: what section 5
lists. What is left:

1. The slot, the handles and the sleep of `DatagramAcceptor`, along the argument of
   `PollingIoAcceptorProofs`.
2. `EncodedInOrder`, `HandshakeSound` and `AuthenticationSound`, the parts of `CodecsSound` and
   `ProxySound` that parse nothing.
3. Models of the idle notification of datagrams and of a failing `initSession()`.
