-------------------------- MODULE PollingIoProcessor --------------------------
(***************************************************************************)
(* The I/O processor (EAbstractPollingIoProcessor with ENioProcessor):     *)
(* client threads add and close sessions and dispose of the processor,     *)
(* while at most one Processor runnable at a time (processorRef) registers *)
(* new sessions, polls the selector and removes closed sessions.  The      *)
(* runnable gives its slot up when it counts no session any more, and      *)
(* takes it back when it finds that it gave up too early; clients start a  *)
(* new one when they find the slot empty.  Every access to processorRef,   *)
(* to the queues and to the disposal flags is a step of its own.           *)
(*                                                                         *)
(* wakeup() is left out: select() has a timeout of one second, so a lost   *)
(* wake-up delays the loop and never stops it.  Writing is SessionWrite's. *)
(***************************************************************************)
EXTENDS Integers, FiniteSets

CONSTANTS
  Session,        \* the sessions that are created for this processor
  Runner,         \* Processor runnables; a finished one stands for a new one
  NoRunner,       \* the null of processorRef
  NoSession,      \* the session argument of dispose()
  EarlyClosable,  \* sessions an IoSessionInitializer hands to the user
                  \* before they are added to the processor
  Breakable,      \* sessions whose connection may break during a write
  Disposes,       \* TRUE iff some thread calls dispose()
  MaxRemoving     \* bound: read errors are not added to a removingSessions
                  \* queue that already holds a session that often

ASSUME ProcessorAssumption ==
  /\ NoRunner \notin Runner
  /\ NoSession \notin Session
  /\ EarlyClosable \subseteq Session
  /\ Breakable \subseteq Session
  /\ Disposes \in BOOLEAN
  /\ MaxRemoving \in Nat

\* One client call each: add(s), closeNow(s) and dispose().
Call == ({"add", "close"} \X Session) \cup {<<"dispose", NoSession>>}
DisposeCall == <<"dispose", NoSession>>

VARIABLES
  callPc,          \* where each client call stands
  pc,              \* where each Processor::run() stands
  nSessions,       \* the local session count of each Processor::run()
  processorRef,    \* the slot
  newSessions,     \* added sessions not yet registered
  removingSessions,\* how often each session is queued for removal
  keys,            \* selector->keys(): registered, or cancelled since the
                   \* last select()
  life,            \* the ENioSession: no key yet, key valid, or destroyed
  closing,         \* EAbstractIoSession::closing
  managed,         \* the listener support's managedSessions
  closed,          \* closeFuture is set (sessionClosed has been fired)
  disposing, disposed, disposalLock, disposalFuture, selectorClosed

clientVars == <<callPc>>
loopVars == <<pc, nSessions>>
queueVars == <<newSessions, removingSessions>>
sessionVars == <<keys, life, closing, managed, closed>>
disposalVars == <<disposing, disposed, disposalLock, disposalFuture, selectorClosed>>
vars == <<callPc, pc, nSessions, processorRef, queueVars, sessionVars, disposalVars>>

CallPc == {"ready", "enqueue", "readRef", "cas", "returned", "await", "done", "refused"}

\* In these phases a runnable may touch the selector and the queues.
OwnerPhase == {"submitted", "select", "handleNew", "process", "remove", "check", "scan"}
ExitPhase == {"checkNew", "checkKeys", "reclaim", "exit", "signal"}
RunnerPc == {"idle"} \cup OwnerPhase \cup ExitPhase

-----------------------------------------------------------------------------
(* Sessions, as getState(), isDestroyed(), destroy() and removeNow() see them *)

\* getState(): a destroyed session and one whose key was cancelled with the
\* selector are CLOSING, one without a key is OPENING.
State(s) ==
  CASE life[s] = "init" -> "OPENING"
    [] life[s] = "opened" /\ ~selectorClosed -> "OPENED"
    [] OTHER -> "CLOSING"

IsActive(s) == State(s) = "OPENED"

\* Fault: a session that is being closed already is not queued.
ScheduleRemoveOnlyOnce(S) ==
  removingSessions' = [s \in Session |->
    IF s \in S /\ life[s] # "destroyed" /\ ~closing[s] THEN removingSessions[s] + 1
                                                      ELSE removingSessions[s]]

\* scheduleRemove() of every session in S: queued again even if it is queued
\* already, but not once it is destroyed.
ScheduleRemove(S) ==
  removingSessions' = [s \in Session |->
    IF s \in S /\ life[s] # "destroyed" THEN removingSessions[s] + 1
                                        ELSE removingSessions[s]]

\* Fault: sessionDestroyed is fired without looking into managedSessions.
RemoveNowUnmanaged(s) ==
  /\ life' = [life EXCEPT ![s] = "destroyed"]
  /\ managed' = managed \ {s}
  /\ closed' = closed \cup {s}

\* removeNow(): destroy the session and fire sessionDestroyed, which sets the
\* closeFuture only if the session is (still) managed.
RemoveNow(s) ==
  /\ life' = [life EXCEPT ![s] = "destroyed"]
  /\ managed' = managed \ {s}
  /\ closed' = IF s \in managed THEN closed \cup {s} ELSE closed

-----------------------------------------------------------------------------
(* Client calls *)

CallStep(c, from, to) ==
  /\ callPc[c] = from
  /\ callPc' = [callPc EXCEPT ![c] = to]

\* add(): an unsynchronised look at the disposal flags ...
BeginAdd(s) ==
  /\ CallStep(<<"add", s>>, "ready", IF disposed \/ disposing THEN "refused" ELSE "enqueue")
  /\ UNCHANGED <<loopVars, processorRef, queueVars, sessionVars, disposalVars>>

\* ... then newSessions.add().
EnqueueAdd(s) ==
  /\ CallStep(<<"add", s>>, "enqueue", "readRef")
  /\ newSessions' = newSessions \cup {s}
  /\ UNCHANGED <<loopVars, processorRef, removingSessions, sessionVars, disposalVars>>

\* closeNow() by a client that has the session: after sessionCreated, or
\* from an IoSessionInitializer on.
BeginClose(s) ==
  /\ s \in managed \cup closed \cup EarlyClosable
  /\ CallStep(<<"close", s>>, "ready", IF closing[s] \/ s \in closed THEN "done" ELSE "enqueue")
  /\ closing' = IF s \in closed THEN closing ELSE [closing EXCEPT ![s] = TRUE]
  /\ UNCHANGED <<loopVars, processorRef, queueVars, keys, life, managed, closed, disposalVars>>

\* The end of its fireFilterClose(): processor->remove().
EnqueueRemove(s) ==
  /\ CallStep(<<"close", s>>, "enqueue", "readRef")
  /\ ScheduleRemove({s})
  /\ UNCHANGED <<loopVars, processorRef, newSessions, sessionVars, disposalVars>>

\* dispose(): the flag is set, and the runnable started, under disposalLock.
BeginDispose ==
  /\ Disposes
  /\ ~disposalLock
  /\ CallStep(DisposeCall, "ready", "readRef")
  /\ disposalLock' = TRUE
  /\ disposing' = TRUE
  /\ UNCHANGED <<loopVars, processorRef, queueVars, sessionVars, disposed, disposalFuture, selectorClosed>>

\* startupProcessor(): read the slot ...
ReadRef(c) ==
  /\ CallStep(c, "readRef", IF processorRef = NoRunner THEN "cas" ELSE "returned")
  /\ UNCHANGED <<loopVars, processorRef, queueVars, sessionVars, disposalVars>>

\* ... and, if it was empty, race to put a new Processor into it.  The winner
\* hands its Processor to the executor, the loser deletes it.
CasRef(c) ==
  /\ CallStep(c, "cas", "returned")
  /\ IF processorRef = NoRunner
       THEN \E r \in Runner :
              /\ pc[r] = "idle"
              /\ processorRef' = r
              /\ pc' = [pc EXCEPT ![r] = "submitted"]
       ELSE UNCHANGED <<processorRef, pc>>
  /\ UNCHANGED <<nSessions, queueVars, sessionVars, disposalVars>>

\* dispose() leaves the lock and waits for the disposalFuture ...
LeaveLock ==
  /\ CallStep(DisposeCall, "returned", "await")
  /\ disposalLock' = FALSE
  /\ UNCHANGED <<loopVars, processorRef, queueVars, sessionVars, disposing, disposed, disposalFuture, selectorClosed>>

\* ... and returns once it is set.
EndDispose ==
  /\ disposalFuture
  /\ CallStep(DisposeCall, "await", "done")
  /\ disposed' = TRUE
  /\ UNCHANGED <<loopVars, processorRef, queueVars, sessionVars, disposing, disposalLock, disposalFuture, selectorClosed>>

-----------------------------------------------------------------------------
(* Processor::run() *)

RunStep(r, from, to) ==
  /\ pc[r] = from
  /\ pc' = [pc EXCEPT ![r] = to]

\* The executor starts the runnable.
Start(r) ==
  /\ RunStep(r, "submitted", "select")
  /\ nSessions' = [nSessions EXCEPT ![r] = 0]
  /\ UNCHANGED <<clientVars, processorRef, queueVars, sessionVars, disposalVars>>

\* select(): cancelled keys leave the key set.
Select(r) ==
  /\ ~selectorClosed
  /\ RunStep(r, "select", "handleNew")
  /\ keys' = {s \in keys : life[s] # "destroyed"}
  /\ UNCHANGED <<clientVars, nSessions, processorRef, queueVars, life, closing, managed, closed, disposalVars>>

\* select() on a closed selector throws, and run() breaks out of its loop
\* without giving the slot back.
SelectClosed(r) ==
  /\ selectorClosed
  /\ RunStep(r, "select", "exit")
  /\ UNCHANGED <<clientVars, nSessions, processorRef, queueVars, sessionVars, disposalVars>>

\* addNow(): the channel is registered, the session created and opened.
AddNow(r, s) ==
  /\ pc[r] = "handleNew" /\ s \in newSessions
  /\ life[s] = "init" /\ ~selectorClosed
  /\ newSessions' = newSessions \ {s}
  /\ life' = [life EXCEPT ![s] = "opened"]
  /\ keys' = keys \cup {s}
  /\ managed' = managed \cup {s}
  /\ nSessions' = [nSessions EXCEPT ![r] = @ + 1]
  /\ UNCHANGED <<clientVars, pc, processorRef, removingSessions, closing, closed, disposalVars>>

\* Fault: a failed registration is counted.
AddNowFailsCounted(r, s) ==
  /\ pc[r] = "handleNew" /\ s \in newSessions
  /\ newSessions' = newSessions \ {s}
  /\ life' = [life EXCEPT ![s] = "destroyed"]
  /\ nSessions' = [nSessions EXCEPT ![r] = @ + 1]
  /\ UNCHANGED <<clientVars, pc, processorRef, removingSessions, keys, closing, managed, closed, disposalVars>>

\* addNow() fails: registration (always, on a channel closed before or on a
\* closed selector) or the filter chain builder throws.  The session is only
\* destroyed: it is not counted, and nobody sets its closeFuture.
AddNowFails(r, s) ==
  /\ pc[r] = "handleNew" /\ s \in newSessions
  /\ newSessions' = newSessions \ {s}
  /\ life' = [life EXCEPT ![s] = "destroyed"]
  /\ \/ UNCHANGED keys
     \/ life[s] = "init" /\ ~selectorClosed /\ keys' = keys \cup {s}
  /\ UNCHANGED <<clientVars, pc, nSessions, processorRef, removingSessions, closing, managed, closed, disposalVars>>

EndHandleNew(r) ==
  /\ newSessions = {}
  /\ RunStep(r, "handleNew", "process")
  /\ UNCHANGED <<clientVars, nSessions, processorRef, queueVars, sessionVars, disposalVars>>

\* read() of a selected session fails: scheduleRemove().
ReadFails(r, s) ==
  /\ pc[r] = "process" /\ IsActive(s)
  /\ removingSessions[s] < MaxRemoving
  /\ ScheduleRemove({s})
  /\ UNCHANGED <<clientVars, loopVars, processorRef, newSessions, sessionVars, disposalVars>>

\* closeNow() from the processor's own thread (end of input, idleness, a
\* handler, an exception): startupProcessor() finds the slot taken.
ClosedByHandler(r, s) ==
  /\ pc[r] = "process" /\ IsActive(s)
  /\ ~closing[s] /\ s \notin closed
  /\ closing' = [closing EXCEPT ![s] = TRUE]
  /\ ScheduleRemove({s})
  /\ UNCHANGED <<clientVars, loopVars, processorRef, newSessions, keys, life, managed, closed, disposalVars>>

\* writeBuffer() gets an I/O error: closeNow(), which does nothing if a client
\* has begun to close the session, and then removeNow().  The session stays in
\* nSessions until its place in removingSessions is polled.
WriteFails(r, s) ==
  /\ pc[r] = "process" /\ IsActive(s) /\ s \in Breakable
  /\ \/ closing[s] /\ UNCHANGED <<closing, removingSessions>>
     \/ /\ ~closing[s]
        /\ closing' = [closing EXCEPT ![s] = TRUE]
        /\ ScheduleRemove({s})
  /\ RemoveNow(s)
  /\ UNCHANGED <<clientVars, loopVars, processorRef, newSessions, keys, disposalVars>>

EndProcess(r) ==
  /\ RunStep(r, "process", "remove")
  /\ UNCHANGED <<clientVars, nSessions, processorRef, queueVars, sessionVars, disposalVars>>

\* removeSessions(): whatever its state, each session polled is counted as
\* removed; one that has not been registered yet leaves newSessions as well.
RemoveSession(r, s) ==
  /\ pc[r] = "remove" /\ removingSessions[s] > 0
  /\ removingSessions' = [removingSessions EXCEPT ![s] = @ - 1]
  /\ nSessions' = [nSessions EXCEPT ![r] = @ - 1]
  /\ IF State(s) = "CLOSING"
       THEN UNCHANGED <<newSessions, life, managed, closed>>
       ELSE /\ newSessions' = IF State(s) = "OPENING" THEN newSessions \ {s} ELSE newSessions
            /\ RemoveNow(s)
  /\ UNCHANGED <<clientVars, pc, processorRef, keys, closing, disposalVars>>

EndRemove(r) ==
  /\ \A s \in Session : removingSessions[s] = 0
  /\ RunStep(r, "remove", "check")
  /\ UNCHANGED <<clientVars, nSessions, processorRef, queueVars, sessionVars, disposalVars>>

\* Fault: the slot keeps the runnable that leaves.
GiveUpKeepingSlot(r) ==
  /\ nSessions[r] <= 0
  /\ RunStep(r, "check", "checkNew")
  /\ UNCHANGED <<clientVars, nSessions, processorRef, queueVars, sessionVars, disposalVars>>

\* Fault: the test that the code has commented out.
GiveUpAtZero(r) ==
  /\ nSessions[r] = 0
  /\ RunStep(r, "check", "checkNew")
  /\ processorRef' = NoRunner
  /\ UNCHANGED <<clientVars, nSessions, queueVars, sessionVars, disposalVars>>

\* No session counted: give the slot up ...
GiveUp(r) ==
  /\ nSessions[r] <= 0
  /\ RunStep(r, "check", "checkNew")
  /\ processorRef' = NoRunner
  /\ UNCHANGED <<clientVars, nSessions, queueVars, sessionVars, disposalVars>>

GoOn(r) ==
  /\ nSessions[r] > 0
  /\ RunStep(r, "check", "scan")
  /\ UNCHANGED <<clientVars, nSessions, processorRef, queueVars, sessionVars, disposalVars>>

\* Fault: sessions added meanwhile are not looked for.
CheckNewSkipped(r) ==
  /\ RunStep(r, "checkNew", "checkKeys")
  /\ UNCHANGED <<clientVars, nSessions, processorRef, queueVars, sessionVars, disposalVars>>

\* ... look for sessions added meanwhile ...
CheckNew(r) ==
  /\ RunStep(r, "checkNew", IF newSessions = {} THEN "checkKeys" ELSE "reclaim")
  /\ UNCHANGED <<clientVars, nSessions, processorRef, queueVars, sessionVars, disposalVars>>

\* ... and for sessions that the count has missed ...
CheckKeys(r) ==
  /\ RunStep(r, "checkKeys", IF keys = {} THEN "exit" ELSE "reclaim")
  /\ UNCHANGED <<clientVars, nSessions, processorRef, queueVars, sessionVars, disposalVars>>

\* Fault: set() instead of compareAndSet().
ReclaimBySet(r) ==
  /\ RunStep(r, "reclaim", "scan")
  /\ processorRef' = r
  /\ UNCHANGED <<clientVars, nSessions, queueVars, sessionVars, disposalVars>>

\* ... and, if there are any, take the slot back unless somebody else has it.
Reclaim(r) ==
  /\ RunStep(r, "reclaim", IF processorRef = NoRunner THEN "scan" ELSE "exit")
  /\ processorRef' = IF processorRef = NoRunner THEN r ELSE processorRef
  /\ UNCHANGED <<clientVars, nSessions, queueVars, sessionVars, disposalVars>>

\* Under disposal every active session is scheduled for removal.
Scan(r) ==
  /\ RunStep(r, "scan", "select")
  /\ IF disposing THEN ScheduleRemove({s \in keys : IsActive(s)})
                  ELSE UNCHANGED removingSessions
  /\ UNCHANGED <<clientVars, nSessions, processorRef, newSessions, sessionVars, disposalVars>>

\* The finally part: whoever leaves the loop while disposing closes the selector ...
Exit(r) ==
  /\ ~disposalLock
  /\ RunStep(r, "exit", "signal")
  /\ selectorClosed' = (selectorClosed \/ disposing)
  /\ keys' = IF disposing THEN {} ELSE keys
  /\ UNCHANGED <<clientVars, nSessions, processorRef, queueVars, life, closing, managed, closed, disposing, disposed, disposalLock, disposalFuture>>

\* ... and every exit sets the disposalFuture.
Signal(r) ==
  /\ RunStep(r, "signal", "idle")
  /\ disposalFuture' = TRUE
  /\ UNCHANGED <<clientVars, nSessions, processorRef, queueVars, sessionVars, disposing, disposed, disposalLock, selectorClosed>>

-----------------------------------------------------------------------------
Init ==
  /\ callPc = [c \in Call |-> "ready"]
  /\ pc = [r \in Runner |-> "idle"]
  /\ nSessions = [r \in Runner |-> 0]
  /\ processorRef = NoRunner
  /\ newSessions = {}
  /\ removingSessions = [s \in Session |-> 0]
  /\ keys = {}
  /\ life = [s \in Session |-> "init"]
  /\ closing = [s \in Session |-> FALSE]
  /\ managed = {}
  /\ closed = {}
  /\ disposing = FALSE
  /\ disposed = FALSE
  /\ disposalLock = FALSE
  /\ disposalFuture = FALSE
  /\ selectorClosed = FALSE

Startup(c) == ReadRef(c) \/ CasRef(c)

ClientStep ==
  \/ \E s \in Session : BeginAdd(s) \/ EnqueueAdd(s) \/ BeginClose(s) \/ EnqueueRemove(s)
  \/ BeginDispose \/ LeaveLock \/ EndDispose
  \/ \E c \in Call : Startup(c)

\* What the loop does of itself, and what the peers and the handlers make it do.
LoopStep(r) ==
  \/ Start(r) \/ Select(r) \/ SelectClosed(r)
  \/ \E s \in Session : AddNow(r, s) \/ AddNowFails(r, s) \/ RemoveSession(r, s)
  \/ EndHandleNew(r) \/ EndProcess(r) \/ EndRemove(r)
  \/ GiveUp(r) \/ GoOn(r) \/ CheckNew(r) \/ CheckKeys(r) \/ Reclaim(r) \/ Scan(r)
  \/ Exit(r) \/ Signal(r)
PeerStep(r) == \E s \in Session : ReadFails(r, s) \/ ClosedByHandler(r, s) \/ WriteFails(r, s)

Next == ClientStep \/ \E r \in Runner : LoopStep(r) \/ PeerStep(r)

Spec == Init /\ [][Next]_vars

\* Threads that run keep running: the executor's thread in Processor::run(),
\* and a client inside a call (no client has to begin one).
Fairness ==
  /\ \A r \in Runner : WF_vars(LoopStep(r))
  /\ \A s \in Session : WF_vars(EnqueueAdd(s)) /\ WF_vars(EnqueueRemove(s))
  /\ \A c \in Call : WF_vars(Startup(c))
  /\ WF_vars(LeaveLock) /\ WF_vars(EndDispose)

FairSpec == Spec /\ Fairness

-----------------------------------------------------------------------------
(* Properties *)

\* Every variable stays in its range.
TypeOK ==
  /\ callPc \in [Call -> CallPc]
  /\ pc \in [Runner -> RunnerPc]
  /\ nSessions \in [Runner -> Int]
  /\ processorRef \in Runner \cup {NoRunner}
  /\ newSessions \subseteq Session
  /\ removingSessions \in [Session -> Nat]
  /\ keys \subseteq Session
  /\ life \in [Session -> {"init", "opened", "destroyed"}]
  /\ closing \in [Session -> BOOLEAN]
  /\ managed \subseteq Session
  /\ closed \subseteq Session
  /\ disposing \in BOOLEAN
  /\ disposed \in BOOLEAN
  /\ disposalLock \in BOOLEAN
  /\ disposalFuture \in BOOLEAN
  /\ selectorClosed \in BOOLEAN

\* A runnable that may touch the selector and the queues is the one in
\* processorRef, and one on its way out is not: the five ES_ASSERTs of run().
\* With it, two Processors never work on the same selector, whatever clients
\* start new ones while an old one is leaving.
SlotOwner ==
  /\ \A r \in Runner : pc[r] \in OwnerPhase => processorRef = r
  /\ \A r \in Runner : pc[r] \in ExitPhase \ {"exit", "signal"} => processorRef # r

\* The slot never holds a Processor that has left its loop, as long as the
\* selector is open: else startupProcessor() would never start another one.
LiveSlot ==
  ~selectorClosed /\ processorRef # NoRunner => pc[processorRef] \in OwnerPhase

\* Somebody is certain to (re)start or keep running the loop.
RunnerComes ==
  \/ \E r \in Runner :
       \/ pc[r] \in OwnerPhase \cup {"reclaim"}
       \/ pc[r] = "checkNew" /\ (newSessions # {} \/ keys # {})
       \/ pc[r] = "checkKeys" /\ keys # {}
  \/ \E c \in Call : callPc[c] \in {"readRef", "cas"}

\* No session is left behind by a Processor that exits: as long as one is
\* waiting to be registered or is registered, a Processor is running, about
\* to take its slot back, or about to be started.
NothingStranded ==
  /\ ~selectorClosed
  /\ newSessions # {} \/ \E s \in Session : life[s] = "opened"
  => RunnerComes

\* The owner never believes it has more sessions than it has: else it could
\* never leave its loop.  (Too few is harmless: GiveUp takes the slot back.)
CountNotTooHigh ==
  \A r \in Runner : pc[r] \in OwnerPhase \ {"submitted"} =>
    nSessions[r] <= Cardinality({s \in Session :
                      life[s] = "opened" \/ (life[s] = "destroyed" /\ removingSessions[s] > 0)})

\* The phase a session is in, for its listeners.
Phase(s) ==
  CASE s \in closed -> "destroyed"
    [] s \notin closed /\ s \in managed -> "open"
    [] s \notin closed /\ s \notin managed /\ life[s] = "destroyed" -> "dropped"
    [] s \in newSessions /\ s \notin managed /\ life[s] = "init" -> "added"
    [] OTHER -> "fresh"

Lifecycle == INSTANCE SessionLifecycle WITH phase <- [s \in Session |-> Phase(s)]

\* sessionCreated and sessionDestroyed are fired at most once each, in this
\* order, whatever closes the session and however often: the processor
\* implements SessionLifecycle.
LifecycleSpec == Lifecycle!Spec

\* An added session is eventually taken up (opened, or destroyed on failure),
\* and one whose sessionCreated was fired and that is closed by anybody has its
\* closeFuture set eventually, when the processor is not disposed of.
SessionsProgress ==
  \A s \in Session :
    /\ (s \in newSessions) ~> (s \notin newSessions)
    /\ (closing[s] /\ s \in managed) ~> (s \in closed)

\* A processor without sessions gives its thread back to the executor: unless
\* sessions come again and again, there comes a time when no runnable is left.
IdleProcessorStops ==
  []<>(\/ newSessions # {}
       \/ \E s \in Session : life[s] = "opened"
       \/ \A r \in Runner : pc[r] = "idle")

\* dispose() returns.
DisposeCompletes == disposing ~> disposed

\* A closed session's closeFuture is set eventually, also when it was closed
\* before the processor created it.
EarlyCloseCompletes == \A s \in Session : closing[s] ~> (s \in closed)
===============================================================================
