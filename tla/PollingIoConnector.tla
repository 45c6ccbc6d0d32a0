------------------------- MODULE PollingIoConnector -------------------------
(***************************************************************************)
(* EAbstractPollingIoConnector.hh with EAbstractIoConnector.cpp and        *)
(* ENioSocketConnector.cpp: connect() queues a request whose socket is     *)
(* connecting; a Connector polls the sockets, makes sessions of those that *)
(* are connected and gives up those past their deadline.  cancel() of the  *)
(* future may come at any time.  select() times out after a second at the  *)
(* latest, so that wakeup() is left out.                                   *)
(***************************************************************************)
EXTENDS Integers, FiniteSets

CONSTANTS
  Requests,     \* calls of connect(), each with its ConnectionRequest
  Cancellable,  \* those whose future somebody may cancel
  Forgotten,    \* those whose future the caller does not keep
  Disposers,    \* those whose thread may call dispose() as well
  Connectors,   \* Connector runnables; one that has ended stands for the next
  NoConnector

ASSUME ConnectorAssumption ==
  /\ IsFiniteSet(Requests) /\ Cancellable \subseteq Requests /\ Forgotten \subseteq Requests /\ Disposers \subseteq Requests
  /\ NoConnector \notin Connectors

Callers == Requests \X {"connect", "cancel", "dispose"}

VARIABLES
  startPc,      \* where the callers of startupWorker() stand
  value,        \* of each future
  handle,       \* the socket of each request
  session,      \* the session made of it
  overdue,      \* the requests whose deadline has passed
  connectQueue, 
  cancelRequests,  \* how often each request is in the cancelQueue
  connectorRef,
  connectorPc, registered, \* registered[k] is the Connector's nHandles
  selected,     \* the handles that select() found and nobody has looked at
  connecting,   \* connector is selectable, isDisposing() and the selector is open
  serviceDisposing, connectorSelector

futureVars == <<value, handle, session, overdue>>
connectQueues == <<connectQueue, cancelRequests>>
loopVars == <<connectorRef, connectorPc, registered, selected>>
disposalVars == <<connecting, serviceDisposing, connectorSelector>>
connectorVars == <<startPc, futureVars, connectQueues, loopVars, disposalVars>>

ConnectorInit ==
  /\ startPc = [c \in Callers |-> "idle"]
  /\ value = [q \in Requests |-> "none"] /\ handle = [q \in Requests |-> "none"]
  /\ session = [q \in Requests |-> "none"] /\ overdue = {}
  /\ connectQueue = {} /\ cancelRequests = [q \in Requests |-> 0]
  /\ connectorRef = NoConnector
  /\ connectorPc = [k \in Connectors |-> "idle"] /\ registered = [k \in Connectors |-> 0]
  /\ selected = {}
  /\ connecting = TRUE /\ serviceDisposing = FALSE /\ connectorSelector = TRUE

(* EDefaultConnectFuture keeps its first value. *)
SetValue(q, v) == value' = [value EXCEPT ![q] = IF @ = "none" THEN v ELSE @]

(* getConnectionRequest(): the key holds a weak pointer, which is empty     *)
(* when neither the caller nor a queue keeps the request.                   *)
Known(q) == handle[q] = "registered" /\ (q \notin Forgotten \/ q \in connectQueue \/ cancelRequests[q] > 0)

----------------------------------------------------------------------------
(* connect(), cancel() and dispose0(). *)

StartTo(c, label) == startPc' = [startPc EXCEPT ![c] = label]

(* connect0(): the socket is connecting, is connected at once, or fails.    *)
Connect(q) ==
  /\ startPc[<<q, "connect">>] = "idle" /\ ~serviceDisposing
  /\ handle' = [handle EXCEPT ![q] = "open"]
  /\ connectQueue' = connectQueue \cup {q}
  /\ StartTo(<<q, "connect">>, "read")
  /\ UNCHANGED <<value, session, overdue, cancelRequests, loopVars, disposalVars>>

ConnectAtOnce(q) ==
  /\ startPc[<<q, "connect">>] = "idle" /\ ~serviceDisposing
  /\ handle' = [handle EXCEPT ![q] = "finished"]
  /\ session' = [session EXCEPT ![q] = "added"]
  /\ StartTo(<<q, "connect">>, "atOnce")
  /\ UNCHANGED <<value, overdue, connectQueues, loopVars, disposalVars>>

ConnectFails(q) ==
  /\ startPc[<<q, "connect">>] = "idle" /\ ~serviceDisposing
  /\ handle' = [handle EXCEPT ![q] = "closed"]
  /\ SetValue(q, "failed")
  /\ StartTo(<<q, "connect">>, "done")
  /\ UNCHANGED <<session, overdue, connectQueues, loopVars, disposalVars>>

(* cancel() sets the value first and queues the request then. The future of *)
(* a connect() that succeeded at once has no request and no queue.          *)
Cancel(q) ==
  /\ q \in Cancellable \ Forgotten
  /\ startPc[<<q, "connect">>] \in {"done", "atOnce"} /\ startPc[<<q, "cancel">>] = "idle"
  /\ value[q] = "none"
  /\ SetValue(q, "canceled")
  /\ StartTo(<<q, "cancel">>, IF startPc[<<q, "connect">>] = "done" THEN "queue" ELSE "done")
  /\ UNCHANGED <<handle, session, overdue, connectQueues, loopVars, disposalVars>>

QueueCancelled(q) ==
  /\ startPc[<<q, "cancel">>] = "queue"
  /\ cancelRequests' = [cancelRequests EXCEPT ![q] = @ + 1]
  /\ StartTo(<<q, "cancel">>, "read")
  /\ UNCHANGED <<futureVars, connectQueue, loopVars, disposalVars>>

BeginDispose(q) ==
  /\ q \in Disposers /\ ~serviceDisposing
  /\ serviceDisposing' = TRUE
  /\ StartTo(<<q, "dispose">>, "read")
  /\ UNCHANGED <<futureVars, connectQueues, loopVars, connecting, connectorSelector>>

(* startupWorker() *)
ReadConnectorRef(c) ==
  /\ startPc[c] = "read"
  /\ connectQueue' = IF connecting THEN connectQueue ELSE {}
  /\ cancelRequests' = IF connecting THEN cancelRequests ELSE [q \in Requests |-> 0]
  /\ StartTo(c, IF connectorRef = NoConnector THEN "cas" ELSE "done")
  /\ UNCHANGED <<futureVars, loopVars, disposalVars>>

FillConnectorSlot(c) ==
  /\ startPc[c] = "cas" /\ connectorRef = NoConnector
  /\ \E k \in Connectors :
       /\ connectorPc[k] = "idle"
       /\ connectorRef' = k
       /\ connectorPc' = [connectorPc EXCEPT ![k] = "top"]
       /\ registered' = [registered EXCEPT ![k] = 0]
  /\ StartTo(c, "done")
  /\ UNCHANGED <<futureVars, connectQueues, selected, disposalVars>>

ConnectorSlotFilled(c) ==
  /\ startPc[c] = "cas" /\ connectorRef # NoConnector
  /\ StartTo(c, "done")
  /\ UNCHANGED <<futureVars, connectQueues, loopVars, disposalVars>>

StartWorker(c) == ReadConnectorRef(c) \/ FillConnectorSlot(c) \/ ConnectorSlotFilled(c)

----------------------------------------------------------------------------
(* The Connector. *)

Moves(k, label) == connectorPc' = [connectorPc EXCEPT ![k] = label]

(* select() returns with any of the registered sockets; an exception in it  *)
(* only begins the loop anew.                                               *)
SelectConnected(k) ==
  /\ connectorPc[k] = "top" /\ connecting /\ connectorSelector
  /\ \E handles \in SUBSET {q \in Requests : handle[q] = "registered"} : selected' = handles
  /\ Moves(k, "register")
  /\ UNCHANGED <<startPc, futureVars, connectQueues, connectorRef, registered, disposalVars>>

LoopEnds(k) ==
  /\ connectorPc[k] = "top" /\ ~(connecting /\ connectorSelector)
  /\ Moves(k, "ended")
  /\ UNCHANGED <<startPc, futureVars, connectQueues, connectorRef, registered, selected, disposalVars>>

RegisterNew(k) ==
  /\ connectorPc[k] = "register"
  /\ \E q \in connectQueue :
       /\ handle[q] = "open"
       /\ connectQueue' = connectQueue \ {q}
       /\ handle' = [handle EXCEPT ![q] = "registered"]
  /\ registered' = [registered EXCEPT ![k] = @ + 1]
  /\ UNCHANGED <<startPc, value, session, overdue, cancelRequests, connectorRef, connectorPc, selected, disposalVars>>

RegisterNewFails(k) ==
  /\ connectorPc[k] = "register"
  /\ \E q \in connectQueue :
       /\ connectQueue' = connectQueue \ {q}
       /\ handle' = [handle EXCEPT ![q] = "closed"]
       /\ SetValue(q, "failed")
  /\ UNCHANGED <<startPc, session, overdue, cancelRequests, loopVars, disposalVars>>

EndRegisterNew(k) ==
  /\ connectorPc[k] = "register" /\ connectQueue = {}
  /\ Moves(k, IF registered[k] = 0 THEN "giveUp" ELSE "process")
  /\ UNCHANGED <<startPc, futureVars, connectQueues, connectorRef, registered, selected, disposalVars>>

GiveConnectorSlotUp(k) ==
  /\ connectorPc[k] = "giveUp"
  /\ connectorRef' = NoConnector
  /\ Moves(k, "look")
  /\ UNCHANGED <<startPc, futureVars, connectQueues, registered, selected, disposalVars>>

(* Fault: the queue is not looked at again. *)
LookConnectQueueSkipped(k) ==
  /\ connectorPc[k] = "look"
  /\ Moves(k, "ended")
  /\ UNCHANGED <<startPc, futureVars, connectQueues, connectorRef, registered, selected, disposalVars>>

LookConnectQueue(k) ==
  /\ connectorPc[k] = "look"
  /\ Moves(k, IF connectQueue = {} THEN "ended" ELSE "reclaim")
  /\ UNCHANGED <<startPc, futureVars, connectQueues, connectorRef, registered, selected, disposalVars>>

(* Fault: the slot is set without a comparison. *)
ReclaimConnectorSlotBySet(k) ==
  /\ connectorPc[k] = "reclaim"
  /\ connectorRef' = k
  /\ Moves(k, "process")
  /\ UNCHANGED <<startPc, futureVars, connectQueues, registered, selected, disposalVars>>

ReclaimConnectorSlot(k) ==
  /\ connectorPc[k] = "reclaim"
  /\ connectorRef' = IF connectorRef = NoConnector THEN k ELSE connectorRef
  /\ Moves(k, IF connectorRef = NoConnector THEN "process" ELSE "ended")
  /\ UNCHANGED <<startPc, futureVars, connectQueues, registered, selected, disposalVars>>

(* finishConnect() is true: the key is cancelled, the session goes to its   *)
(* processor.                                                               *)
FinishConnect(k) ==
  /\ connectorPc[k] = "process"
  /\ \E q \in selected :
       /\ Known(q)
       /\ selected' = selected \ {q}
       /\ handle' = [handle EXCEPT ![q] = "finished"]
       /\ session' = [session EXCEPT ![q] = "added"]
  /\ registered' = [registered EXCEPT ![k] = @ - 1]
  /\ UNCHANGED <<startPc, value, overdue, connectQueues, connectorRef, connectorPc, disposalVars>>

(* finishConnect() throws, or with the key cancelled what follows it.       *)
FinishFails(k) ==
  /\ connectorPc[k] = "process"
  /\ \E q \in selected, h \in {"registered", "finished"} :
       /\ Known(q)
       /\ selected' = selected \ {q}
       /\ handle' = [handle EXCEPT ![q] = h]
       /\ SetValue(q, "failed")
       /\ cancelRequests' = [cancelRequests EXCEPT ![q] = @ + 1]
  /\ UNCHANGED <<startPc, session, overdue, connectQueue, connectorRef, connectorPc, registered, disposalVars>>

(* finishConnect() is false, or the request is gone. *)
NotConnected(k) ==
  /\ connectorPc[k] = "process"
  /\ \E q \in selected : selected' = selected \ {q}
  /\ UNCHANGED <<startPc, futureVars, connectQueues, connectorRef, connectorPc, registered, disposalVars>>

EndProcessConnections(k) ==
  /\ connectorPc[k] = "process" /\ selected = {}
  /\ Moves(k, "timeouts")
  /\ UNCHANGED <<startPc, futureVars, connectQueues, connectorRef, registered, selected, disposalVars>>

(* Fault: the key is not looked at. *)
TimedOutUnchecked(q) == q \in overdue

TimedOut(q) == q \in overdue /\ Known(q)

ProcessTimedOutSessions(k) ==
  /\ connectorPc[k] = "timeouts"
  /\ value' = [q \in Requests |-> IF TimedOut(q) /\ value[q] = "none" THEN "failed" ELSE value[q]]
  /\ cancelRequests' = [q \in Requests |-> IF TimedOut(q) THEN cancelRequests[q] + 1 ELSE cancelRequests[q]]
  /\ Moves(k, "cancel")
  /\ UNCHANGED <<startPc, handle, session, overdue, connectQueue, connectorRef, registered, selected, disposalVars>>

CancelKey(k) ==
  /\ connectorPc[k] = "cancel"
  /\ \E q \in Requests :
       /\ cancelRequests[q] > 0
       /\ cancelRequests' = [cancelRequests EXCEPT ![q] = @ - 1]
       /\ handle' = [handle EXCEPT ![q] = "closed"]
  /\ registered' = [registered EXCEPT ![k] = @ - 1]
  /\ UNCHANGED <<startPc, value, session, overdue, connectQueue, connectorRef, connectorPc, selected, disposalVars>>

EndCancelKeys(k) ==
  /\ connectorPc[k] = "cancel" /\ \A q \in Requests : cancelRequests[q] = 0
  /\ Moves(k, "top")
  /\ UNCHANGED <<startPc, futureVars, connectQueues, connectorRef, registered, selected, disposalVars>>

(* After the loop: the selector of a service that disposes is closed.       *)
ConnectorEnds(k) ==
  /\ connectorPc[k] = "ended"
  /\ connecting' = (connecting /\ ~serviceDisposing)
  /\ Moves(k, IF connecting /\ serviceDisposing THEN "destroy" ELSE "idle")
  /\ UNCHANGED <<startPc, futureVars, connectQueues, connectorRef, registered, selected, serviceDisposing, connectorSelector>>

DestroyConnector(k) ==
  /\ connectorPc[k] = "destroy"
  /\ \A q \in Requests : startPc[<<q, "dispose">>] \in {"idle", "done"}
  /\ connectorSelector' = FALSE
  /\ Moves(k, "idle")
  /\ UNCHANGED <<startPc, futureVars, connectQueues, connectorRef, registered, selected, connecting, serviceDisposing>>

ConnectorStep(k) ==
  \/ SelectConnected(k) \/ LoopEnds(k)
  \/ RegisterNew(k) \/ RegisterNewFails(k) \/ EndRegisterNew(k)
  \/ GiveConnectorSlotUp(k) \/ LookConnectQueue(k) \/ ReclaimConnectorSlot(k)
  \/ FinishConnect(k) \/ FinishFails(k) \/ NotConnected(k) \/ EndProcessConnections(k)
  \/ ProcessTimedOutSessions(k) \/ CancelKey(k) \/ EndCancelKeys(k)
  \/ ConnectorEnds(k) \/ DestroyConnector(k)

----------------------------------------------------------------------------
(* The processor takes a session up, in a thread of its own: sessionCreated *)
(* sets the future, a failure sets its exception.                           *)
SessionCreated(q) ==
  /\ session[q] = "added"
  /\ \/ handle[q] = "finished" /\ session' = [session EXCEPT ![q] = "open"] /\ SetValue(q, "session")
     \/ session' = [session EXCEPT ![q] = "dead"] /\ SetValue(q, "failed")
  /\ UNCHANGED <<startPc, handle, overdue, connectQueues, loopVars, disposalVars>>

DeadlinePasses(q) ==
  /\ q \notin overdue /\ handle[q] = "registered"
  /\ overdue' = overdue \cup {q}
  /\ UNCHANGED <<startPc, value, handle, session, connectQueues, loopVars, disposalVars>>

Cancellation == \E q \in Requests : Cancel(q)
Disposal == \E q \in Requests : BeginDispose(q)
Connecting ==
  \/ \E q \in Requests : Connect(q) \/ ConnectAtOnce(q) \/ ConnectFails(q) \/ QueueCancelled(q) \/ SessionCreated(q) \/ DeadlinePasses(q)
  \/ \E c \in Callers : StartWorker(c)
  \/ \E k \in Connectors : ConnectorStep(k)

ConnectorNext == Cancellation \/ Disposal \/ Connecting

ConnectorFairness ==
  /\ \A k \in Connectors : WF_connectorVars(ConnectorStep(k))
  /\ \A c \in Callers : WF_connectorVars(StartWorker(c))
  /\ \A q \in Requests : WF_connectorVars(QueueCancelled(q)) /\ WF_connectorVars(SessionCreated(q)) /\ WF_connectorVars(DeadlinePasses(q))

ConnectorSpec == ConnectorInit /\ [][ConnectorNext]_connectorVars /\ ConnectorFairness

----------------------------------------------------------------------------
(* Properties. *)

ConnectorTypeOK ==
  /\ startPc \in [Callers -> {"idle", "queue", "read", "cas", "done", "atOnce"}]
  /\ value \in [Requests -> {"none", "session", "failed", "canceled"}]
  /\ handle \in [Requests -> {"none", "open", "registered", "finished", "closed"}]
  /\ session \in [Requests -> {"none", "added", "open", "dead"}]
  /\ overdue \subseteq Requests /\ connectQueue \subseteq Requests /\ selected \subseteq Requests
  /\ cancelRequests \in [Requests -> Nat]
  /\ connectorRef \in Connectors \cup {NoConnector}
  /\ connectorPc \in [Connectors -> {"idle", "top", "register", "giveUp", "look", "reclaim", "process", "timeouts", "cancel", "ended", "destroy"}]
  /\ registered \in [Connectors -> Int]
  /\ connecting \in BOOLEAN /\ serviceDisposing \in BOOLEAN /\ connectorSelector \in BOOLEAN

Loops(k) == connectorPc[k] \in {"top", "register", "giveUp", "process", "timeouts", "cancel"}

(* The ES_ASSERTs of Connector::run(): who loops is in connectorRef, and    *)
(* who has given the slot up is not.                                        *)
ConnectorSlotOwner == \A k \in Connectors :
  /\ Loops(k) => connectorRef = k
  /\ connectorPc[k] \in {"look", "reclaim"} => connectorRef # k

(* A deadline, an error or a cancellation never closes the socket of a      *)
(* session, except that of a session whose connect() was cancelled; and a   *)
(* future that reports a failure has no session.                            *)
NotClosedUnderSession == \A q \in Requests :
  /\ session[q] \in {"added", "open"} /\ value[q] # "canceled" => handle[q] = "finished"
  /\ value[q] = "failed" => session[q] \in {"none", "dead"}
  /\ value[q] = "session" => session[q] = "open"

Handles == {q \in Requests : handle[q] = "registered"}

(* nHandles is wrong: a request was taken from cancelRequests twice, or     *)
(* had not been counted.                                                    *)
Miscounted == \E k \in Connectors : Loops(k) /\ registered[k] # Cardinality(Handles)

(* "the ConnectFuture instance which is completed when the connection       *)
(* attempt initiated by this call succeeds or fails" (EIoConnector.hh).     *)
ConnectCompletes == \A q \in Requests :
  startPc[<<q, "connect">>] # "idle" ~> value[q] # "none"

(* It is, by the deadline of the request at the latest and whoever holds or *)
(* leaves the slot meanwhile, as long as nHandles is right and nobody calls *)
(* dispose().                                                               *)
ConnectCompletesWhenCounted == <>(Miscounted \/ serviceDisposing) \/ ConnectCompletes
=============================================================================
