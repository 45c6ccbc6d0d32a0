---------------------------- MODULE OrderedExecutor ----------------------------
(***************************************************************************)
(* The thread pool that keeps the events of a session in order             *)
(* (EOrderedThreadPoolExecutor) behind the filter that fills it            *)
(* (EExecutorFilter).  An event joins the tasksQueue of its session; the   *)
(* session itself waits in waitingSessions, once, until a worker takes it  *)
(* and runs its events.  processingCompleted says that nobody has charge   *)
(* of the session.  Workers come when nobody is idle and leave when they   *)
(* have been idle for the keep-alive time, or take an EXIT_SIGNAL.         *)
(*                                                                         *)
(* What the code does under mainLock or tasksQueueLock is one step, and so *)
(* is every access to waitingSessions, idleWorkers and shutdown_ outside.  *)
(***************************************************************************)
EXTENDS Integers, FiniteSets, Sequences

CONSTANTS
  Event,         \* the events that are fired
  Session,
  SessionOf,     \* the session of each event
  Submitted,     \* events whose type is in eventTypeSet: run by the pool
  Rejectable,    \* events an eventQueueHandler may refuse to accept
  Throwing,      \* events whose run() may throw an ERuntimeException
  Worker,        \* worker threads; a finished one stands for a new one
  Null,          \* no session (a poll that timed out), no event
  EXIT_SIGNAL,
  PoolSizes,     \* the core sizes the pool may be created with
  MaxSize,       \* the maximum size it is created with, and the largest
  MaxResizes     \* bound on the calls of setCorePoolSize and
                 \* setMaximumPoolSize; a pool that was resized is not shut down

ASSUME ExecutorAssumption ==
  /\ SessionOf \in [Event -> Session]
  /\ Submitted \subseteq Event /\ Rejectable \subseteq Event /\ Throwing \subseteq Event
  /\ Null \notin Session \cup Event \cup {EXIT_SIGNAL} /\ EXIT_SIGNAL \notin Session
  /\ IsFiniteSet(Worker)
  /\ PoolSizes \subseteq 0..MaxSize /\ MaxSize \in Nat \ {0} /\ MaxResizes \in Nat

VARIABLES
  callPc,        \* where each event's sender stands
  tasksQueue, processingCompleted, waitingSessions, idleWorkers, workers,
  pc,            \* where each worker thread stands
  fetched,       \* what its last poll has returned
  running,       \* the event it runs
  corePoolSize, maximumPoolSize, resizes,
  failed,        \* some event has thrown
  shutdown_,
  closer         \* the thread that shuts the pool down and waits for its end

queueVars == <<tasksQueue, processingCompleted>>
workerVars == <<workers, pc, fetched, running>>
sizeVars == <<corePoolSize, maximumPoolSize, resizes>>
closeVars == <<shutdown_, closer>>
vars == <<callPc, failed, queueVars, waitingSessions, idleWorkers, workerVars, sizeVars, closeVars>>

WorkerPc == {"none", "poll", "fetched", "idle", "run", "running", "restore", "thrown", "leave", "exit"}

\* aliveThreadCount
Alive == {w \in Worker : pc[w] # "none"}

-----------------------------------------------------------------------------
(* Submitting an event *)

CallStep(e, from, to) ==
  /\ callPc[e] = from
  /\ callPc' = [callPc EXCEPT ![e] = to]

\* A handler of the filter: the event goes on in this thread, or to execute(),
\* whose look at shutdown_ nothing protects.
Fire(e) ==
  /\ CallStep(e, "ready", IF e \notin Submitted THEN "direct"
                          ELSE IF shutdown_ THEN "refused" ELSE "accept")
  /\ UNCHANGED <<failed, queueVars, waitingSessions, idleWorkers, workerVars, sizeVars, closeVars>>

Refuse(e) ==
  /\ e \in Rejectable
  /\ CallStep(e, "accept", "readIdle")
  /\ UNCHANGED <<failed, queueVars, waitingSessions, idleWorkers, workerVars, sizeVars, closeVars>>

\* Fault: the session is offered whenever its queue was empty.
AcceptIfEmpty(e) ==
  LET s == SessionOf[e] IN
  /\ CallStep(e, "accept", IF tasksQueue[s] = <<>> THEN "offerSession" ELSE "readIdle")
  /\ tasksQueue' = [tasksQueue EXCEPT ![s] = Append(@, e)]
  /\ processingCompleted' = [processingCompleted EXCEPT ![s] = FALSE]
  /\ UNCHANGED <<failed, waitingSessions, idleWorkers, workerVars, sizeVars, closeVars>>

\* Fault: the event goes before those that wait.
AcceptFirst(e) ==
  LET s == SessionOf[e] IN
  /\ CallStep(e, "accept", IF processingCompleted[s] THEN "offerSession" ELSE "readIdle")
  /\ tasksQueue' = [tasksQueue EXCEPT ![s] = <<e>> \o @]
  /\ processingCompleted' = [processingCompleted EXCEPT ![s] = FALSE]
  /\ UNCHANGED <<failed, waitingSessions, idleWorkers, workerVars, sizeVars, closeVars>>

\* execute() under tasksQueueLock: whoever finds the processing completed has
\* to offer the session.
Accept(e) ==
  LET s == SessionOf[e] IN
  /\ CallStep(e, "accept", IF processingCompleted[s] THEN "offerSession" ELSE "readIdle")
  /\ tasksQueue' = [tasksQueue EXCEPT ![s] = Append(@, e)]
  /\ processingCompleted' = [processingCompleted EXCEPT ![s] = FALSE]
  /\ UNCHANGED <<failed, waitingSessions, idleWorkers, workerVars, sizeVars, closeVars>>

OfferSession(e) ==
  /\ CallStep(e, "offerSession", "readIdle")
  /\ waitingSessions' = Append(waitingSessions, SessionOf[e])
  /\ UNCHANGED <<failed, queueVars, idleWorkers, workerVars, sizeVars, closeVars>>

\* addWorkerIfNecessary() looks at idleWorkers without the lock ...
ReadIdle(e) ==
  /\ CallStep(e, "readIdle", IF idleWorkers = 0 THEN "addWorker" ELSE "done")
  /\ UNCHANGED <<failed, queueVars, waitingSessions, idleWorkers, workerVars, sizeVars, closeVars>>

\* addWorker(), under mainLock.
AddWorker ==
  IF Cardinality(workers) >= maximumPoolSize
    THEN UNCHANGED <<idleWorkers, workerVars>>
    ELSE \E w \in Worker \ Alive :
           /\ idleWorkers' = idleWorkers + 1
           /\ workers' = workers \cup {w}
           /\ pc' = [pc EXCEPT ![w] = "poll"]
           /\ UNCHANGED <<fetched, running>>

\* ... and again with it.
AddWorkerIfNecessary(e) ==
  /\ CallStep(e, "addWorker", "done")
  /\ IF workers = {} \/ idleWorkers = 0 THEN AddWorker
                                        ELSE UNCHANGED <<failed, idleWorkers, workerVars>>
  /\ UNCHANGED <<failed, queueVars, waitingSessions, sizeVars, closeVars>>

\* remove(): the event leaves its queue; the session stays where it is.
Remove(e) ==
  LET s == SessionOf[e] IN
  /\ CallStep(e, "done", "removed")
  /\ \E i \in DOMAIN tasksQueue[s] :
       /\ tasksQueue[s][i] = e
       /\ tasksQueue' = [tasksQueue EXCEPT ![s] = SubSeq(@, 1, i - 1) \o SubSeq(@, i + 1, Len(@))]
  /\ UNCHANGED <<failed, processingCompleted, waitingSessions, idleWorkers, workerVars, sizeVars, closeVars>>

-----------------------------------------------------------------------------
(* The size of the pool *)

Signals(n) == [i \in 1..n |-> EXIT_SIGNAL]

\* n calls of removeWorker(): nobody is sent away below the core size.
RemoveWorkers(n) ==
  waitingSessions' = waitingSessions \o
    Signals(IF Cardinality(workers) <= corePoolSize \/ n < 0 THEN 0 ELSE n)

SetMaximumPoolSize(n) ==
  /\ resizes < MaxResizes /\ ~shutdown_ /\ n >= corePoolSize /\ n # maximumPoolSize
  /\ resizes' = resizes + 1
  /\ maximumPoolSize' = n
  /\ RemoveWorkers(Cardinality(workers) - n)
  /\ UNCHANGED <<failed, callPc, queueVars, idleWorkers, workerVars, corePoolSize, closeVars>>

SetCorePoolSize(n) ==
  /\ resizes < MaxResizes /\ ~shutdown_ /\ n <= maximumPoolSize /\ n # corePoolSize
  /\ resizes' = resizes + 1
  /\ corePoolSize' = n
  /\ RemoveWorkers(corePoolSize - n)
  /\ UNCHANGED <<failed, callPc, queueVars, idleWorkers, workerVars, maximumPoolSize, closeVars>>

PrestartCoreThread ==
  /\ Cardinality(workers) < corePoolSize
  /\ AddWorker
  /\ UNCHANGED <<failed, callPc, queueVars, waitingSessions, sizeVars, closeVars>>

-----------------------------------------------------------------------------
(* workerProcess() *)

WorkerStep(w, from, to) ==
  /\ pc[w] = from
  /\ pc' = [pc EXCEPT ![w] = to]

\* fetchSession(): something comes within the keep-alive time ...
Fetch(w) ==
  /\ waitingSessions # <<>>
  /\ WorkerStep(w, "poll", "fetched")
  /\ fetched' = [fetched EXCEPT ![w] = Head(waitingSessions)]
  /\ waitingSessions' = Tail(waitingSessions)
  /\ UNCHANGED <<failed, callPc, queueVars, idleWorkers, workers, running, sizeVars, closeVars>>

\* ... or nothing.
FetchTimeout(w) ==
  /\ waitingSessions = <<>>
  /\ WorkerStep(w, "poll", "fetched")
  /\ fetched' = [fetched EXCEPT ![w] = Null]
  /\ UNCHANGED <<failed, callPc, queueVars, waitingSessions, idleWorkers, workers, running, sizeVars, closeVars>>

NoLongerIdle(w) ==
  /\ WorkerStep(w, "fetched", CASE fetched[w] = Null -> "idle"
                                [] fetched[w] = EXIT_SIGNAL -> "leave"
                                [] OTHER -> "run")
  /\ idleWorkers' = idleWorkers - 1
  /\ fetched' = [fetched EXCEPT ![w] = IF @ = EXIT_SIGNAL THEN Null ELSE @]
  /\ UNCHANGED <<failed, callPc, queueVars, waitingSessions, workers, running, sizeVars, closeVars>>

\* Fault: idle workers leave as if the core size were 0.
IdleLeavesAlways(w) ==
  /\ WorkerStep(w, "idle", "leave")
  /\ workers' = workers \ {w}
  /\ UNCHANGED <<failed, callPc, queueVars, waitingSessions, idleWorkers, fetched, running, sizeVars, closeVars>>

\* A worker too many leaves when it has been idle; the others go on.
IdleLeaves(w) ==
  LET surplus == Cardinality(workers) > corePoolSize IN
  /\ WorkerStep(w, "idle", IF surplus THEN "leave" ELSE "restore")
  /\ workers' = IF surplus THEN workers \ {w} ELSE workers
  /\ UNCHANGED <<failed, callPc, queueVars, waitingSessions, idleWorkers, fetched, running, sizeVars, closeVars>>

\* runTasks(): the next event ...
PollTask(w) ==
  LET s == fetched[w] IN
  /\ WorkerStep(w, "run", "running")
  /\ tasksQueue[s] # <<>>
  /\ running' = [running EXCEPT ![w] = Head(tasksQueue[s])]
  /\ tasksQueue' = [tasksQueue EXCEPT ![s] = Tail(@)]
  /\ UNCHANGED <<failed, callPc, processingCompleted, waitingSessions, idleWorkers, workers, fetched, sizeVars, closeVars>>

\* Fault: the session is not released.
NoTaskLeftForgotten(w) ==
  /\ WorkerStep(w, "run", "restore")
  /\ tasksQueue[fetched[w]] = <<>>
  /\ UNCHANGED <<failed, callPc, queueVars, waitingSessions, idleWorkers, workers, fetched, running, sizeVars, closeVars>>

\* ... or none, and the session is released under the same lock.
NoTaskLeft(w) ==
  /\ WorkerStep(w, "run", "restore")
  /\ tasksQueue[fetched[w]] = <<>>
  /\ processingCompleted' = [processingCompleted EXCEPT ![fetched[w]] = TRUE]
  /\ UNCHANGED <<failed, callPc, tasksQueue, waitingSessions, idleWorkers, workers, fetched, running, sizeVars, closeVars>>

\* runTask() ends; an exception goes up through runTasks() and ends the worker.
EndTask(w) ==
  /\ \/ WorkerStep(w, "running", "run") /\ UNCHANGED failed
     \/ WorkerStep(w, "running", "thrown") /\ running[w] \in Throwing /\ failed' = TRUE
  /\ running' = [running EXCEPT ![w] = Null]
  /\ UNCHANGED <<callPc, queueVars, waitingSessions, idleWorkers, workers, fetched, sizeVars, closeVars>>

\* The inner finally part: a worker that goes on is idle again, and one that
\* leaves by an exception is counted too.
Restore(w) ==
  /\ WorkerStep(w, "restore", "poll") \/ WorkerStep(w, "thrown", "leave")
  /\ idleWorkers' = idleWorkers + 1
  /\ fetched' = [fetched EXCEPT ![w] = Null]
  /\ UNCHANGED <<failed, callPc, queueVars, waitingSessions, workers, running, sizeVars, closeVars>>

\* The outer finally part.
Leave(w) ==
  /\ WorkerStep(w, "leave", "exit")
  /\ workers' = workers \ {w}
  /\ UNCHANGED <<failed, callPc, queueVars, waitingSessions, idleWorkers, fetched, running, sizeVars, closeVars>>

\* Fault: the thread waiting for the end is not told.
ExitSilently(w) ==
  /\ WorkerStep(w, "exit", "none")
  /\ UNCHANGED <<failed, callPc, queueVars, waitingSessions, idleWorkers, workers, fetched, running, sizeVars, closeVars>>

\* The exit callback of the thread: the last one tells who waits for the end.
Exit(w) ==
  /\ WorkerStep(w, "exit", "none")
  /\ closer' = IF shutdown_ /\ workers = {} /\ Alive = {w} /\ closer = "waiting" THEN "await" ELSE closer
  /\ UNCHANGED <<failed, callPc, queueVars, waitingSessions, idleWorkers, workers, fetched, running, sizeVars, shutdown_>>

-----------------------------------------------------------------------------
(* shutdown() or shutdownNow(), and then awaitTermination() *)

CloserStep(from, to) == closer = from /\ closer' = to

Shutdown ==
  /\ resizes = 0
  /\ CloserStep("ready", "signal")
  /\ shutdown_' = TRUE
  /\ UNCHANGED <<failed, callPc, queueVars, waitingSessions, idleWorkers, workerVars, sizeVars>>

SignalWorkers ==
  /\ CloserStep("signal", "drain") \/ CloserStep("signal", "await")
  /\ waitingSessions' = waitingSessions \o Signals(Cardinality(workers))
  /\ UNCHANGED <<failed, callPc, queueVars, idleWorkers, workerVars, sizeVars, shutdown_>>

\* shutdownNow(): exit signals go back to the end of the queue ...
PollExitSignal ==
  /\ waitingSessions # <<>> /\ Head(waitingSessions) = EXIT_SIGNAL
  /\ CloserStep("drain", "putBack")
  /\ waitingSessions' = Tail(waitingSessions)
  /\ UNCHANGED <<failed, callPc, queueVars, idleWorkers, workerVars, sizeVars, shutdown_>>

PutBack ==
  /\ CloserStep("putBack", "drain")
  /\ waitingSessions' = Append(waitingSessions, EXIT_SIGNAL)
  /\ UNCHANGED <<failed, callPc, queueVars, idleWorkers, workerVars, sizeVars, shutdown_>>

\* ... and a session loses its events, but is not released.
DrainSession ==
  /\ waitingSessions # <<>> /\ Head(waitingSessions) # EXIT_SIGNAL
  /\ CloserStep("drain", "drain")
  /\ waitingSessions' = Tail(waitingSessions)
  /\ tasksQueue' = [tasksQueue EXCEPT ![Head(waitingSessions)] = <<>>]
  /\ UNCHANGED <<failed, callPc, processingCompleted, idleWorkers, workerVars, sizeVars, shutdown_>>

Drained ==
  /\ waitingSessions = <<>>
  /\ CloserStep("drain", "await")
  /\ UNCHANGED <<failed, callPc, queueVars, waitingSessions, idleWorkers, workerVars, sizeVars, shutdown_>>

AwaitTermination ==
  /\ CloserStep("await", IF workers = {} THEN "done" ELSE "waiting")
  /\ UNCHANGED <<failed, callPc, queueVars, waitingSessions, idleWorkers, workerVars, sizeVars, shutdown_>>

-----------------------------------------------------------------------------
Init ==
  /\ callPc = [e \in Event |-> "ready"]
  /\ tasksQueue = [s \in Session |-> <<>>]
  /\ processingCompleted = [s \in Session |-> TRUE]
  /\ waitingSessions = <<>>
  /\ idleWorkers = 0
  /\ workers = {}
  /\ pc = [w \in Worker |-> "none"]
  /\ fetched = [w \in Worker |-> Null]
  /\ running = [w \in Worker |-> Null]
  /\ corePoolSize \in PoolSizes
  /\ maximumPoolSize = MaxSize
  /\ resizes = 0
  /\ failed = FALSE
  /\ shutdown_ = FALSE
  /\ closer = "ready"

ExecuteNext(e) ==
  Refuse(e) \/ Accept(e) \/ OfferSession(e) \/ ReadIdle(e) \/ AddWorkerIfNecessary(e)

WorkerNext(w) ==
  \/ Fetch(w) \/ FetchTimeout(w) \/ NoLongerIdle(w) \/ IdleLeaves(w)
  \/ PollTask(w) \/ NoTaskLeft(w) \/ EndTask(w) \/ Restore(w) \/ Leave(w) \/ Exit(w)

CloserNext ==
  SignalWorkers \/ PollExitSignal \/ PutBack \/ DrainSession \/ Drained \/ AwaitTermination

ResizeNext ==
  \/ \E n \in 1..MaxSize : SetMaximumPoolSize(n)
  \/ \E n \in 0..MaxSize : SetCorePoolSize(n)
  \/ PrestartCoreThread

Next ==
  \/ \E e \in Event : Fire(e) \/ ExecuteNext(e) \/ Remove(e)
  \/ \E w \in Worker : WorkerNext(w)
  \/ ResizeNext \/ Shutdown \/ CloserNext

Spec == Init /\ [][Next]_vars

\* A thread that runs keeps running, and the keep-alive time ends.
Fairness ==
  /\ \A e \in Event : WF_vars(ExecuteNext(e))
  /\ \A w \in Worker : WF_vars(WorkerNext(w))
  /\ WF_vars(CloserNext)

FairSpec == Spec /\ Fairness

-----------------------------------------------------------------------------
(* Properties *)

\* The variables have their types; a worker that serves a session has one.
TypeOK ==
  /\ callPc \in [Event -> {"ready", "direct", "refused", "accept", "offerSession", "readIdle",
                           "addWorker", "done", "removed"}]
  /\ tasksQueue \in [Session -> Seq(Event)]
  /\ processingCompleted \in [Session -> BOOLEAN]
  /\ waitingSessions \in Seq(Session \cup {EXIT_SIGNAL})
  /\ idleWorkers \in Int
  /\ workers \subseteq Worker
  /\ pc \in [Worker -> WorkerPc]
  /\ fetched \in [Worker -> Session \cup {EXIT_SIGNAL, Null}]
  /\ running \in [Worker -> Event \cup {Null}]
  /\ corePoolSize \in Nat /\ maximumPoolSize \in Nat /\ resizes \in 0..MaxResizes
  /\ failed \in BOOLEAN /\ shutdown_ \in BOOLEAN
  /\ closer \in {"ready", "signal", "drain", "putBack", "await", "waiting", "done"}
  /\ \A w \in Worker : pc[w] \in {"run", "running"} => fetched[w] \in Session
  /\ \A w \in Worker : (running[w] # Null) <=> (pc[w] = "running")

\* Who has charge of session s: senders that have to offer it, its places in
\* waitingSessions, workers that have fetched it.
Senders(s) == {e \in Event : callPc[e] = "offerSession" /\ SessionOf[e] = s}
Places(s) == {i \in DOMAIN waitingSessions : waitingSessions[i] = s}
Servers(s) == {w \in Worker : pc[w] \in {"fetched", "run", "running"} /\ fetched[w] = s}

AtMostOne(S) == \A x, y \in S : x = y

\* Whatever senders, workers, exceptions and shutdownNow() do, a session is
\* never in charge of two parties, and of nobody once its processing is
\* completed: the handshake of processingCompleted in execute() and runTasks().
OneInCharge ==
  \A s \in Session :
    /\ AtMostOne(Senders(s)) /\ AtMostOne(Places(s)) /\ AtMostOne(Servers(s))
    /\ Senders(s) = {} \/ Places(s) = {}
    /\ Senders(s) = {} \/ Servers(s) = {}
    /\ Places(s) = {} \/ Servers(s) = {}
    /\ processingCompleted[s] => Senders(s) = {} /\ Places(s) = {} /\ Servers(s) = {}

\* The events of session s that workers run.
InProgress(s) == {running[w] : w \in {v \in Worker : running[v] # Null /\ fetched[v] = s}}

\* Events of a session run one at a time and in the order of execute(), as
\* EExecutorFilter.hh:41-46 promises: the pool implements OrderedEvents.
Serial == INSTANCE OrderedEvents WITH
  pending <- tasksQueue, inProgress <- [s \in Session |-> InProgress(s)]
SerialSpec == Serial!Spec

\* Events that wait to be run are in charge of somebody, as long as no event has
\* thrown and no shutdownNow() takes events away: an event offered while a
\* worker finds its queue empty is seen by one of the two.
EventsHaveKeeper ==
  ~failed /\ closer \notin {"drain", "putBack", "await", "waiting", "done"} =>
    \A s \in Session : tasksQueue[s] # <<>> => Senders(s) \cup Places(s) \cup Servers(s) # {}

\* The pool keeps a worker for what comes, nobody has resized it or shut it
\* down, and no event has thrown.
Calm ==
  corePoolSize > 0 /\ resizes = 0 /\ ~shutdown_ /\ ~failed

\* Parties that take a waiting session, or are bound to start one that does.
Takers ==
  {w \in Worker : pc[w] \in WorkerPc \ {"none", "leave", "exit"}} \cup
  {e \in Event : callPc[e] = "addWorker" \/ (callPc[e] = "readIdle" /\ idleWorkers = 0)}

\* execute() starts a worker only if it finds none idle, and idle workers leave
\* when their poll times out: with a core size of at least one a session that
\* waits is nevertheless never left without a worker.
NothingStranded ==
  Calm /\ (\E s \in Session : Places(s) # {}) => Takers # {}

\* A pool without core threads ends after its shutdown whatever comes late
\* (events, exceptions, exit signals nobody takes), and awaitTermination()
\* learns of it: the count of live threads in the exit callback.
TerminationSeen ==
  closer \in {"await", "waiting"} ~> (closer = "done" \/ corePoolSize > 0)

-----------------------------------------------------------------------------
\* For TLC: every event belongs to the one session there is.
OneSession == [e \in Event |-> CHOOSE s \in Session : TRUE]
===============================================================================
