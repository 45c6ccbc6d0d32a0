---------------------- MODULE PollingIoConnectorProofs ---------------------
(***************************************************************************)
(* Theorems about PollingIoConnector, for any sets of requests and         *)
(* runnables, and with cancel() and dispose() in any order: type           *)
(* correctness, exclusive use of connectorRef, and that no socket is       *)
(* closed under a session.                                                 *)
(***************************************************************************)
EXTENDS PollingIoConnector, TLAPS

StartPcs == {"idle", "queue", "read", "cas", "done", "atOnce"}
Values == {"none", "session", "failed", "canceled"}
ConnectorPcs == {"idle", "top", "register", "giveUp", "look", "reclaim", "process",
  "timeouts", "cancel", "ended", "destroy"}

RequestTypes ==
  /\ startPc \in [Callers -> StartPcs] /\ value \in [Requests -> Values]
  /\ handle \in [Requests -> {"none", "open", "registered", "finished", "closed"}]
  /\ session \in [Requests -> {"none", "added", "open", "dead"}]
  /\ overdue \subseteq Requests
  /\ connectQueue \subseteq Requests /\ cancelRequests \in [Requests -> Nat]
LoopTypes ==
  /\ connectorRef \in Connectors \cup {NoConnector}
  /\ connectorPc \in [Connectors -> ConnectorPcs] /\ registered \in [Connectors -> Int]
  /\ selected \subseteq Requests
  /\ connecting \in BOOLEAN /\ serviceDisposing \in BOOLEAN /\ connectorSelector \in BOOLEAN

LEMMA TypeParts == ConnectorTypeOK <=> RequestTypes /\ LoopTypes
<1>1. ConnectorTypeOK => RequestTypes /\ LoopTypes
  BY DEF ConnectorTypeOK, RequestTypes, LoopTypes, StartPcs, Values, ConnectorPcs
<1>2. RequestTypes /\ LoopTypes => ConnectorTypeOK
  BY DEF ConnectorTypeOK, RequestTypes, LoopTypes, StartPcs, Values, ConnectorPcs
<1> QED
  BY <1>1, <1>2

LEMMA TypePartsNext == RequestTypes' /\ LoopTypes' => ConnectorTypeOK'
BY DEF ConnectorTypeOK, RequestTypes, LoopTypes, StartPcs, Values, ConnectorPcs

LEMMA TypeInit == ConnectorInit => ConnectorTypeOK
<1> SUFFICES ASSUME ConnectorInit PROVE RequestTypes /\ LoopTypes
  BY TypeParts
<1>1. RequestTypes
  BY DEF ConnectorInit, RequestTypes, StartPcs, Values
<1>2. connectorPc \in [Connectors -> ConnectorPcs] /\ registered \in [Connectors -> Int]
  BY DEF ConnectorInit, ConnectorPcs
<1>3. LoopTypes
  BY <1>2 DEF ConnectorInit, LoopTypes
<1> QED
  BY <1>1, <1>3

\* The calls, the callers of startupWorker(), the processor and the clock
\* keep every variable in its range,
LEMMA CallerTypeStep ==
  ASSUME ConnectorTypeOK,
         \/ \E q \in Requests :
              \/ Connect(q) \/ ConnectAtOnce(q) \/ ConnectFails(q) \/ Cancel(q) \/ QueueCancelled(q)
              \/ BeginDispose(q) \/ SessionCreated(q) \/ DeadlinePasses(q)
         \/ \E c \in Callers : StartWorker(c)
  PROVE  ConnectorTypeOK'
<1> SUFFICES RequestTypes' /\ LoopTypes'
  BY TypePartsNext
<1>0. RequestTypes /\ LoopTypes
  BY TypeParts
<1> USE <1>0 DEF RequestTypes, LoopTypes, StartPcs, Values, SetValue, StartTo,
                 futureVars, connectQueues, loopVars, disposalVars
<1>1. ASSUME NEW q \in Requests, Connect(q) \/ ConnectAtOnce(q) \/ ConnectFails(q) \/ Cancel(q)
      PROVE  RequestTypes' /\ LoopTypes'
  BY <1>1 DEF Connect, ConnectAtOnce, ConnectFails, Cancel
<1>2. ASSUME NEW q \in Requests, QueueCancelled(q)
      PROVE  RequestTypes' /\ LoopTypes'
  <2>1. cancelRequests' \in [Requests -> Nat]
    BY <1>2 DEF QueueCancelled
  <2>2. startPc' \in [Callers -> StartPcs]
    BY <1>2 DEF QueueCancelled
  <2> QED
    BY <1>2, <2>1, <2>2 DEF QueueCancelled
<1>6. ASSUME NEW q \in Requests, BeginDispose(q)
      PROVE  RequestTypes' /\ LoopTypes'
  BY <1>6 DEF BeginDispose
<1>3. ASSUME NEW q \in Requests, SessionCreated(q) \/ DeadlinePasses(q)
      PROVE  RequestTypes' /\ LoopTypes'
  BY <1>3 DEF SessionCreated, DeadlinePasses
<1>4. ASSUME NEW c \in Callers, ReadConnectorRef(c)
      PROVE  RequestTypes' /\ LoopTypes'
  BY <1>4 DEF ReadConnectorRef
<1>5. ASSUME NEW c \in Callers, FillConnectorSlot(c) \/ ConnectorSlotFilled(c)
      PROVE  RequestTypes' /\ LoopTypes'
  BY <1>5 DEF FillConnectorSlot, ConnectorSlotFilled, ConnectorPcs
<1> QED
  BY <1>1, <1>2, <1>3, <1>4, <1>5, <1>6 DEF StartWorker

\* and so does every step of a Connector.
LEMMA ConnectorTypeStep ==
  ASSUME ConnectorTypeOK, NEW k \in Connectors, ConnectorStep(k)
  PROVE  ConnectorTypeOK'
<1> SUFFICES RequestTypes' /\ LoopTypes'
  BY TypePartsNext
<1>0. RequestTypes /\ LoopTypes
  BY TypeParts
<1> USE <1>0 DEF RequestTypes, LoopTypes, ConnectorPcs, Values, SetValue, Moves,
                 futureVars, connectQueues, loopVars, disposalVars
<1>1. CASE SelectConnected(k) \/ LoopEnds(k) \/ EndRegisterNew(k)
  BY <1>1 DEF SelectConnected, LoopEnds, EndRegisterNew
<1>2. CASE RegisterNew(k) \/ RegisterNewFails(k)
  BY <1>2 DEF RegisterNew, RegisterNewFails
<1>3. CASE GiveConnectorSlotUp(k) \/ LookConnectQueue(k) \/ ReclaimConnectorSlot(k)
  BY <1>3 DEF GiveConnectorSlotUp, LookConnectQueue, ReclaimConnectorSlot
<1>4. CASE FinishConnect(k) \/ FinishFails(k)
  BY <1>4 DEF FinishConnect, FinishFails
<1>5. CASE NotConnected(k) \/ EndProcessConnections(k)
  BY <1>5 DEF NotConnected, EndProcessConnections
<1>6. CASE ProcessTimedOutSessions(k)
  BY <1>6 DEF ProcessTimedOutSessions
<1>7. CASE CancelKey(k) \/ EndCancelKeys(k)
  BY <1>7 DEF CancelKey, EndCancelKeys
<1>8. CASE ConnectorEnds(k) \/ DestroyConnector(k)
  BY <1>8 DEF ConnectorEnds, DestroyConnector
<1> QED
  BY <1>1, <1>2, <1>3, <1>4, <1>5, <1>6, <1>7, <1>8 DEF ConnectorStep

LEMMA TypeStep == ASSUME ConnectorTypeOK, [ConnectorNext]_connectorVars PROVE ConnectorTypeOK'
<1>1. ASSUME UNCHANGED connectorVars PROVE ConnectorTypeOK'
  BY <1>1 DEF ConnectorTypeOK, connectorVars, futureVars, connectQueues, loopVars, disposalVars
<1> QED
  BY <1>1, CallerTypeStep, ConnectorTypeStep DEF ConnectorNext, Cancellation, Disposal, Connecting

\* In every reachable state every variable has a value of its type; in
\* particular no request leaves the cancelQueue that is not there.
THEOREM ConnectorTypeCorrect == ConnectorSpec => []ConnectorTypeOK
BY TypeInit, TypeStep, PTL DEF ConnectorSpec

-----------------------------------------------------------------------------
(* The slot. *)

\* Of the callers only a compareAndSet of the empty slot moves a Connector.
LEMMA CallerMoves ==
  ASSUME ConnectorTypeOK,
         \/ \E q \in Requests :
              \/ Connect(q) \/ ConnectAtOnce(q) \/ ConnectFails(q) \/ Cancel(q) \/ QueueCancelled(q)
              \/ BeginDispose(q) \/ SessionCreated(q) \/ DeadlinePasses(q)
         \/ \E c \in Callers : StartWorker(c)
  PROVE  \/ UNCHANGED <<connectorRef, connectorPc, selected, connecting>>
         \/ /\ connectorRef = NoConnector /\ UNCHANGED <<futureVars, connectQueues, selected, connecting>>
            /\ \E k \in Connectors :
                 /\ connectorPc[k] = "idle" /\ connectorRef' = k
                 /\ connectorPc' = [connectorPc EXCEPT ![k] = "top"]
<1> USE DEF loopVars, disposalVars
<1>1. ASSUME NEW q \in Requests, Connect(q) \/ ConnectAtOnce(q) \/ ConnectFails(q) \/ Cancel(q)
      PROVE  UNCHANGED <<connectorRef, connectorPc, selected, connecting>>
  BY <1>1 DEF Connect, ConnectAtOnce, ConnectFails, Cancel
<1>2. ASSUME NEW q \in Requests, QueueCancelled(q) \/ BeginDispose(q) \/ SessionCreated(q) \/ DeadlinePasses(q)
      PROVE  UNCHANGED <<connectorRef, connectorPc, selected, connecting>>
  BY <1>2 DEF QueueCancelled, BeginDispose, SessionCreated, DeadlinePasses
<1>3. ASSUME NEW c \in Callers, ReadConnectorRef(c) \/ ConnectorSlotFilled(c)
      PROVE  UNCHANGED <<connectorRef, connectorPc, selected, connecting>>
  BY <1>3 DEF ReadConnectorRef, ConnectorSlotFilled
<1>4. ASSUME NEW c \in Callers, FillConnectorSlot(c)
      PROVE  /\ connectorRef = NoConnector /\ UNCHANGED <<futureVars, connectQueues, selected, connecting>>
             /\ \E k \in Connectors :
                  /\ connectorPc[k] = "idle" /\ connectorRef' = k
                  /\ connectorPc' = [connectorPc EXCEPT ![k] = "top"]
  BY <1>4 DEF FillConnectorSlot
<1> QED
  BY <1>1, <1>2, <1>3, <1>4 DEF StartWorker

\* A Connector in the slot that goes on in its loop, or ends with it.
GoesOn(k) ==
  /\ connectorRef' = connectorRef /\ Loops(k)
  /\ Loops(k)' \/ connectorPc'[k] = "ended"

LEMMA ConnectorMoves ==
  ASSUME ConnectorTypeOK, NEW k \in Connectors, ConnectorStep(k)
  PROVE  /\ \A j \in Connectors \ {k} : connectorPc'[j] = connectorPc[j]
         /\ \/ GoesOn(k) \/ GiveConnectorSlotUp(k) \/ LookConnectQueue(k) \/ ReclaimConnectorSlot(k)
            \/ ConnectorEnds(k) \/ DestroyConnector(k)
<1> USE DEF ConnectorTypeOK, GoesOn, Loops, Moves, loopVars
<1>1. CASE SelectConnected(k) \/ LoopEnds(k) \/ EndRegisterNew(k)
  BY <1>1 DEF SelectConnected, LoopEnds, EndRegisterNew
<1>2. CASE RegisterNew(k) \/ RegisterNewFails(k)
  BY <1>2 DEF RegisterNew, RegisterNewFails
<1>3. CASE GiveConnectorSlotUp(k) \/ LookConnectQueue(k) \/ ReclaimConnectorSlot(k)
  BY <1>3 DEF GiveConnectorSlotUp, LookConnectQueue, ReclaimConnectorSlot
<1>4. CASE FinishConnect(k) \/ FinishFails(k)
  BY <1>4 DEF FinishConnect, FinishFails
<1>5. CASE NotConnected(k) \/ EndProcessConnections(k) \/ ProcessTimedOutSessions(k)
  BY <1>5 DEF NotConnected, EndProcessConnections, ProcessTimedOutSessions
<1>6. CASE CancelKey(k) \/ EndCancelKeys(k)
  BY <1>6 DEF CancelKey, EndCancelKeys
<1>7. CASE ConnectorEnds(k) \/ DestroyConnector(k)
  BY <1>7 DEF ConnectorEnds, DestroyConnector
<1> QED
  BY <1>1, <1>2, <1>3, <1>4, <1>5, <1>6, <1>7 DEF ConnectorStep

LEMMA SlotStep ==
  ASSUME ConnectorTypeOK, ConnectorSlotOwner, [ConnectorNext]_connectorVars
  PROVE  ConnectorSlotOwner'
<1> USE ConnectorAssumption DEF ConnectorSlotOwner, Loops
<1>1. CASE UNCHANGED connectorVars
  BY <1>1 DEF connectorVars, loopVars
<1>2. CASE UNCHANGED <<connectorRef, connectorPc>>
  BY <1>2
<1>3. ASSUME connectorRef = NoConnector,
             NEW k \in Connectors, connectorPc[k] = "idle", connectorRef' = k,
             connectorPc' = [connectorPc EXCEPT ![k] = "top"]
      PROVE  ConnectorSlotOwner'
  BY <1>3 DEF ConnectorTypeOK
<1>4. ASSUME NEW k \in Connectors, ConnectorStep(k) PROVE ConnectorSlotOwner'
  <2>1. \A j \in Connectors \ {k} : connectorPc'[j] = connectorPc[j]
    BY <1>4, ConnectorMoves
  <2>2. CASE GoesOn(k)
    BY <2>1, <2>2 DEF GoesOn
  <2>3. CASE GiveConnectorSlotUp(k)
    BY <2>1, <2>3 DEF GiveConnectorSlotUp, Moves, ConnectorTypeOK
  <2>4. CASE LookConnectQueue(k) \/ ConnectorEnds(k) \/ DestroyConnector(k)
    BY <2>1, <2>4 DEF LookConnectQueue, ConnectorEnds, DestroyConnector, Moves, ConnectorTypeOK
  <2>5. CASE ReclaimConnectorSlot(k)
    BY <2>1, <2>5 DEF ReclaimConnectorSlot, Moves, ConnectorTypeOK
  <2> QED
    BY <1>4, <2>2, <2>3, <2>4, <2>5, ConnectorMoves
<1> QED
  BY <1>1, <1>2, <1>3, <1>4, CallerMoves DEF ConnectorNext, Cancellation, Disposal, Connecting

\* One Connector loops at a time, and it is the one in connectorRef; who has
\* given the slot up does not find itself there.
THEOREM ConnectorSlotCorrect == ConnectorSpec => []ConnectorSlotOwner
<1>1. ConnectorInit => ConnectorSlotOwner
  BY DEF ConnectorInit, ConnectorSlotOwner, Loops
<1>2. ConnectorTypeOK /\ ConnectorSlotOwner /\ [ConnectorNext]_connectorVars => ConnectorSlotOwner'
  BY SlotStep
<1> QED
  BY <1>1, <1>2, ConnectorTypeCorrect, PTL DEF ConnectorSpec

-----------------------------------------------------------------------------
(* The requests. *)

Fresh(q) ==
  /\ value[q] = "none" /\ handle[q] = "none" /\ session[q] = "none"
  /\ q \notin connectQueue /\ cancelRequests[q] = 0

RequestInv(q) ==
  /\ startPc[<<q, "connect">>] = "idle" => Fresh(q)
  /\ startPc[<<q, "cancel">>] = "queue" => value[q] = "canceled"
  /\ handle[q] \in {"none", "open", "registered"} => session[q] = "none"
  /\ handle[q] = "open" => value[q] \in {"none", "canceled"}
  /\ q \in connectQueue => handle[q] \in {"open", "closed"} /\ session[q] = "none"
  /\ cancelRequests[q] > 0 => value[q] \in {"failed", "canceled"}
  /\ session[q] \in {"added", "open"} /\ value[q] # "canceled" => handle[q] = "finished"
  /\ value[q] = "failed" => session[q] \in {"none", "dead"}
  /\ value[q] = "session" => session[q] = "open"

\* A request that has failed while its socket was connecting is cancelled
\* before the next select(), which does not find it, nor does anybody look at
\* it among those that the last one found.
FailedInv ==
  /\ \A q \in Requests : handle[q] = "registered" /\ value[q] = "failed" =>
       /\ q \notin selected
       /\ connecting => /\ cancelRequests[q] > 0
                        /\ \E k \in Connectors : connectorPc[k] \in {"process", "timeouts", "cancel"}
  /\ \A k \in Connectors : connectorPc[k] \in {"timeouts", "cancel"} => selected = {}

Same(p) ==
  /\ value'[p] = value[p] /\ handle'[p] = handle[p] /\ session'[p] = session[p]
  /\ (p \in connectQueue' <=> p \in connectQueue) /\ cancelRequests'[p] = cancelRequests[p]

SameCalls(p) ==
  /\ startPc'[<<p, "connect">>] = startPc[<<p, "connect">>]
  /\ startPc'[<<p, "cancel">>] = startPc[<<p, "cancel">>]

LEMMA SameKeeps ==
  ASSUME NEW p \in Requests, RequestInv(p), Same(p), SameCalls(p) PROVE RequestInv(p)'
BY DEF RequestInv, Fresh, Same, SameCalls

\* Where a call of one request moves, the others stand still.
LEMMA StartsAlone ==
  ASSUME ConnectorTypeOK, NEW q \in Requests, NEW call \in {"connect", "cancel", "dispose"}, NEW label,
         StartTo(<<q, call>>, label)
  PROVE  /\ startPc'[<<q, call>>] = label
         /\ \A p \in Requests, other \in {"connect", "cancel", "dispose"} :
              p # q \/ other # call => startPc'[<<p, other>>] = startPc[<<p, other>>]
<1>1. startPc \in [Callers -> StartPcs]
  BY DEF ConnectorTypeOK, StartPcs
<1>2. \A p \in Requests, other \in {"connect", "cancel", "dispose"} : <<p, other>> \in Callers
  BY DEF Callers
<1> QED
  BY <1>1, <1>2 DEF StartTo

LEMMA CallsMove ==
  ASSUME ConnectorTypeOK, NEW q \in Requests, NEW label
  PROVE  /\ StartTo(<<q, "connect">>, label) =>
              /\ startPc'[<<q, "connect">>] = label /\ startPc'[<<q, "cancel">>] = startPc[<<q, "cancel">>]
              /\ \A p \in Requests \ {q} : SameCalls(p)
         /\ StartTo(<<q, "cancel">>, label) =>
              /\ startPc'[<<q, "cancel">>] = label /\ startPc'[<<q, "connect">>] = startPc[<<q, "connect">>]
              /\ \A p \in Requests \ {q} : SameCalls(p)
         /\ StartTo(<<q, "dispose">>, label) => \A p \in Requests : SameCalls(p)
<1>1. ASSUME StartTo(<<q, "connect">>, label)
      PROVE  /\ startPc'[<<q, "connect">>] = label /\ startPc'[<<q, "cancel">>] = startPc[<<q, "cancel">>]
             /\ \A p \in Requests \ {q} : SameCalls(p)
  BY <1>1, StartsAlone DEF SameCalls
<1>2. ASSUME StartTo(<<q, "cancel">>, label)
      PROVE  /\ startPc'[<<q, "cancel">>] = label /\ startPc'[<<q, "connect">>] = startPc[<<q, "connect">>]
             /\ \A p \in Requests \ {q} : SameCalls(p)
  BY <1>2, StartsAlone DEF SameCalls
<1>3. ASSUME StartTo(<<q, "dispose">>, label) PROVE \A p \in Requests : SameCalls(p)
  BY <1>3, StartsAlone DEF SameCalls
<1> QED
  BY <1>1, <1>2, <1>3

\* connect() and cancel()
LEMMA RequestsOfCalls ==
  ASSUME ConnectorTypeOK, \A p \in Requests : RequestInv(p), NEW q \in Requests,
         Connect(q) \/ ConnectAtOnce(q) \/ ConnectFails(q) \/ Cancel(q) \/ QueueCancelled(q) \/ BeginDispose(q)
  PROVE  \A p \in Requests : RequestInv(p)'
<1>0. RequestInv(q)
  OBVIOUS
<1>7. /\ Connect(q) => StartTo(<<q, "connect">>, "read")
      /\ ConnectAtOnce(q) => StartTo(<<q, "connect">>, "atOnce")
      /\ ConnectFails(q) => StartTo(<<q, "connect">>, "done")
      /\ Cancel(q) => \E label : StartTo(<<q, "cancel">>, label)
      /\ QueueCancelled(q) => StartTo(<<q, "cancel">>, "read")
      /\ BeginDispose(q) => StartTo(<<q, "dispose">>, "read")
  BY DEF Connect, ConnectAtOnce, ConnectFails, Cancel, QueueCancelled, BeginDispose
<1> USE DEF ConnectorTypeOK
<1>1. CASE Connect(q)
  <2>1. /\ startPc'[<<q, "connect">>] = "read" /\ startPc'[<<q, "cancel">>] = startPc[<<q, "cancel">>]
        /\ \A p \in Requests \ {q} : SameCalls(p)
    <3> HIDE DEF ConnectorTypeOK
    <3> QED
      BY <1>1, <1>7, CallsMove
  <2>2. \A p \in Requests \ {q} : Same(p)
    BY <1>1 DEF Connect, Same
  <2>3. RequestInv(q)'
    BY <1>0, <1>1, <2>1 DEF Connect, RequestInv, Fresh
  <2> QED
    BY <2>1, <2>2, <2>3, SameKeeps
<1>2. CASE ConnectAtOnce(q)
  <2>1. /\ startPc'[<<q, "connect">>] = "atOnce" /\ startPc'[<<q, "cancel">>] = startPc[<<q, "cancel">>]
        /\ \A p \in Requests \ {q} : SameCalls(p)
    <3> HIDE DEF ConnectorTypeOK
    <3> QED
      BY <1>2, <1>7, CallsMove
  <2>2. \A p \in Requests \ {q} : Same(p)
    BY <1>2 DEF ConnectAtOnce, Same, connectQueues
  <2>3. RequestInv(q)'
    BY <1>0, <1>2, <2>1 DEF ConnectAtOnce, RequestInv, Fresh, connectQueues
  <2> QED
    BY <2>1, <2>2, <2>3, SameKeeps
<1>3. CASE ConnectFails(q)
  <2>1. /\ startPc'[<<q, "connect">>] = "done" /\ startPc'[<<q, "cancel">>] = startPc[<<q, "cancel">>]
        /\ \A p \in Requests \ {q} : SameCalls(p)
    <3> HIDE DEF ConnectorTypeOK
    <3> QED
      BY <1>3, <1>7, CallsMove
  <2>2. \A p \in Requests \ {q} : Same(p)
    BY <1>3 DEF ConnectFails, SetValue, Same, connectQueues
  <2>3. RequestInv(q)'
    BY <1>0, <1>3, <2>1 DEF ConnectFails, SetValue, RequestInv, Fresh, connectQueues
  <2> QED
    BY <2>1, <2>2, <2>3, SameKeeps
<1>4. CASE Cancel(q)
  <2>1. /\ startPc[<<q, "connect">>] # "idle" /\ startPc'[<<q, "connect">>] = startPc[<<q, "connect">>]
        /\ \A p \in Requests \ {q} : SameCalls(p)
    <3> HIDE DEF ConnectorTypeOK
    <3> QED
      BY <1>4, <1>7, CallsMove DEF Cancel
  <2>2. \A p \in Requests \ {q} : Same(p)
    BY <1>4 DEF Cancel, SetValue, Same, connectQueues
  <2>3. RequestInv(q)'
    BY <1>0, <1>4, <2>1 DEF Cancel, SetValue, RequestInv, Fresh, connectQueues
  <2> QED
    BY <2>1, <2>2, <2>3, SameKeeps
<1>5. CASE QueueCancelled(q)
  <2>1. /\ startPc[<<q, "cancel">>] = "queue" /\ startPc'[<<q, "cancel">>] = "read"
        /\ startPc'[<<q, "connect">>] = startPc[<<q, "connect">>]
        /\ \A p \in Requests \ {q} : SameCalls(p)
    <3> HIDE DEF ConnectorTypeOK
    <3> QED
      BY <1>5, <1>7, CallsMove DEF QueueCancelled
  <2>2. \A p \in Requests \ {q} : Same(p)
    BY <1>5 DEF QueueCancelled, Same, futureVars
  <2>3. RequestInv(q)'
    BY <1>0, <1>5, <2>1 DEF QueueCancelled, RequestInv, Fresh, futureVars
  <2> QED
    BY <2>1, <2>2, <2>3, SameKeeps
<1>6. CASE BeginDispose(q)
  <2>1. \A p \in Requests : SameCalls(p)
    <3> HIDE DEF ConnectorTypeOK
    <3> QED
      BY <1>6, <1>7, CallsMove
  <2>2. \A p \in Requests : Same(p)
    BY <1>6 DEF BeginDispose, Same, futureVars, connectQueues
  <2> QED
    BY <2>1, <2>2, SameKeeps
<1> QED
  BY <1>1, <1>2, <1>3, <1>4, <1>5, <1>6

\* startupWorker() may empty the queues.
LEMMA RequestsOfStart ==
  ASSUME ConnectorTypeOK, \A p \in Requests : RequestInv(p), NEW c \in Callers, StartWorker(c)
  PROVE  \A p \in Requests : RequestInv(p)'
<1>1. UNCHANGED futureVars
  BY DEF StartWorker, ReadConnectorRef, FillConnectorSlot, ConnectorSlotFilled
<1>2. /\ connectQueue' \subseteq connectQueue
      /\ \A p \in Requests : cancelRequests'[p] = cancelRequests[p] \/ cancelRequests'[p] = 0
  BY DEF StartWorker, ReadConnectorRef, FillConnectorSlot, ConnectorSlotFilled, connectQueues, ConnectorTypeOK
<1>3. PICK label \in {"cas", "done"} : StartTo(c, label) /\ startPc[c] \notin {"idle", "queue"}
  BY DEF StartWorker, ReadConnectorRef, FillConnectorSlot, ConnectorSlotFilled
<1>4. \A d \in Callers : startPc'[d] \in {"idle", "queue"} => startPc'[d] = startPc[d]
  BY <1>3 DEF StartTo, ConnectorTypeOK
<1>5. \A p \in Requests :
        /\ startPc'[<<p, "connect">>] = "idle" => startPc[<<p, "connect">>] = "idle"
        /\ startPc'[<<p, "cancel">>] = "queue" => startPc[<<p, "cancel">>] = "queue"
  BY <1>4 DEF Callers
<1> TAKE p \in Requests
<1>6. RequestInv(p) /\ cancelRequests[p] \in Nat
  BY DEF ConnectorTypeOK
<1>7. Fresh(p) => Fresh(p)'
  BY <1>1, <1>2 DEF Fresh, futureVars
<1> QED
  BY <1>1, <1>2, <1>5, <1>6, <1>7 DEF RequestInv, futureVars

\* The processor and the clock
LEMMA RequestsOfPeers ==
  ASSUME ConnectorTypeOK, \A p \in Requests : RequestInv(p), NEW q \in Requests,
         SessionCreated(q) \/ DeadlinePasses(q)
  PROVE  \A p \in Requests : RequestInv(p)'
<1> USE DEF ConnectorTypeOK
<1>0. \A p \in Requests : SameCalls(p)
  BY DEF SessionCreated, DeadlinePasses, SameCalls
<1>1. \A p \in Requests \ {q} : Same(p)
  BY DEF SessionCreated, DeadlinePasses, SetValue, Same, connectQueues
<1>2. RequestInv(q)'
  <2>1. CASE SessionCreated(q)
    BY <1>0, <2>1 DEF SessionCreated, SetValue, RequestInv, Fresh, SameCalls, connectQueues
  <2>2. CASE DeadlinePasses(q)
    BY <1>0, <2>2 DEF DeadlinePasses, RequestInv, Fresh, SameCalls, connectQueues
  <2> QED
    BY <2>1, <2>2
<1> QED
  BY <1>0, <1>1, <1>2, SameKeeps

\* A Connector takes a request from one of its queues or from `selected',
\* which holds none that has failed.
LEMMA RequestsOfConnector ==
  ASSUME ConnectorTypeOK, FailedInv, \A p \in Requests : RequestInv(p), NEW k \in Connectors, ConnectorStep(k)
  PROVE  \A p \in Requests : RequestInv(p)'
<1> USE DEF ConnectorTypeOK
<1>0. \A p \in Requests : SameCalls(p)
  <2>1. startPc' = startPc
    BY DEF ConnectorStep, SelectConnected, LoopEnds, RegisterNew, RegisterNewFails, EndRegisterNew,
           GiveConnectorSlotUp, LookConnectQueue, ReclaimConnectorSlot, FinishConnect, FinishFails, NotConnected,
           EndProcessConnections, ProcessTimedOutSessions, CancelKey, EndCancelKeys, ConnectorEnds, DestroyConnector
  <2> QED
    BY <2>1 DEF SameCalls
<1>1. CASE RegisterNew(k)
  <2> PICK q \in connectQueue :
        handle[q] = "open" /\ connectQueue' = connectQueue \ {q} /\ handle' = [handle EXCEPT ![q] = "registered"]
    BY <1>1 DEF RegisterNew
  <2>1. \A p \in Requests \ {q} : Same(p)
    BY <1>1 DEF RegisterNew, Same
  <2>2. RequestInv(q)'
    BY <1>0, <1>1 DEF RegisterNew, RequestInv, Fresh, SameCalls
  <2> QED
    BY <1>0, <2>1, <2>2, SameKeeps
<1>2. CASE RegisterNewFails(k)
  <2> PICK q \in connectQueue :
        connectQueue' = connectQueue \ {q} /\ handle' = [handle EXCEPT ![q] = "closed"] /\ SetValue(q, "failed")
    BY <1>2 DEF RegisterNewFails
  <2>1. \A p \in Requests \ {q} : Same(p)
    BY <1>2 DEF RegisterNewFails, SetValue, Same
  <2>2. RequestInv(q)'
    BY <1>0, <1>2 DEF RegisterNewFails, SetValue, RequestInv, Fresh, SameCalls
  <2> QED
    BY <1>0, <2>1, <2>2, SameKeeps
<1>3. CASE FinishConnect(k)
  <2> PICK q \in selected :
        Known(q) /\ handle' = [handle EXCEPT ![q] = "finished"] /\ session' = [session EXCEPT ![q] = "added"]
    BY <1>3 DEF FinishConnect
  <2>1. handle[q] = "registered" /\ value[q] # "failed"
    BY DEF Known, FailedInv
  <2>2. \A p \in Requests \ {q} : Same(p)
    BY <1>3 DEF FinishConnect, Same, connectQueues
  <2>3. RequestInv(q)'
    BY <1>0, <1>3, <2>1 DEF FinishConnect, RequestInv, Fresh, SameCalls, connectQueues
  <2> QED
    BY <1>0, <2>2, <2>3, SameKeeps
<1>4. CASE FinishFails(k)
  <2> PICK q \in selected, h \in {"registered", "finished"} :
        /\ Known(q) /\ handle' = [handle EXCEPT ![q] = h] /\ SetValue(q, "failed")
        /\ cancelRequests' = [cancelRequests EXCEPT ![q] = @ + 1]
    BY <1>4 DEF FinishFails
  <2>1. handle[q] = "registered"
    BY DEF Known
  <2>2. \A p \in Requests \ {q} : Same(p)
    BY <1>4 DEF FinishFails, SetValue, Same
  <2>3. RequestInv(q)'
    BY <1>0, <1>4, <2>1 DEF FinishFails, SetValue, RequestInv, Fresh, SameCalls
  <2> QED
    BY <1>0, <2>2, <2>3, SameKeeps
<1>5. CASE ProcessTimedOutSessions(k)
  BY <1>0, <1>5 DEF ProcessTimedOutSessions, TimedOut, Known, RequestInv, Fresh, SameCalls
<1>6. CASE CancelKey(k)
  <2> PICK q \in Requests :
        /\ cancelRequests[q] > 0 /\ cancelRequests' = [cancelRequests EXCEPT ![q] = @ - 1]
        /\ handle' = [handle EXCEPT ![q] = "closed"]
    BY <1>6 DEF CancelKey
  <2>1. \A p \in Requests \ {q} : Same(p)
    BY <1>6 DEF CancelKey, Same
  <2>2. RequestInv(q)'
    BY <1>0, <1>6 DEF CancelKey, RequestInv, Fresh, SameCalls
  <2> QED
    BY <1>0, <2>1, <2>2, SameKeeps
<1>7. CASE UNCHANGED <<futureVars, connectQueues>>
  BY <1>0, <1>7, SameKeeps DEF Same, futureVars, connectQueues
<1>8. \/ RegisterNew(k) \/ RegisterNewFails(k) \/ FinishConnect(k) \/ FinishFails(k)
      \/ ProcessTimedOutSessions(k) \/ CancelKey(k) \/ UNCHANGED <<futureVars, connectQueues>>
  BY DEF ConnectorStep, SelectConnected, LoopEnds, EndRegisterNew,
         GiveConnectorSlotUp, LookConnectQueue, ReclaimConnectorSlot, NotConnected,
         EndProcessConnections, EndCancelKeys, ConnectorEnds, DestroyConnector
<1> QED
  BY <1>1, <1>2, <1>3, <1>4, <1>5, <1>6, <1>7, <1>8

\* None but a Connector makes a connecting request fail.
LEMMA CallersFailNone ==
  ASSUME ConnectorTypeOK, \A p \in Requests : RequestInv(p),
         \/ \E q \in Requests :
              \/ Connect(q) \/ ConnectAtOnce(q) \/ ConnectFails(q) \/ Cancel(q) \/ QueueCancelled(q)
              \/ BeginDispose(q) \/ SessionCreated(q) \/ DeadlinePasses(q)
         \/ \E c \in Callers : StartWorker(c),
         NEW p \in Requests, handle'[p] = "registered", value'[p] = "failed"
  PROVE  /\ handle[p] = "registered" /\ value[p] = "failed"
         /\ connecting => cancelRequests'[p] \in Nat /\ (cancelRequests[p] > 0 => cancelRequests'[p] > 0)
<1> USE DEF ConnectorTypeOK
<1>1. ASSUME NEW q \in Requests, Connect(q) \/ ConnectAtOnce(q) \/ ConnectFails(q) \/ Cancel(q)
      PROVE  handle[p] = "registered" /\ value[p] = "failed" /\ cancelRequests' = cancelRequests
  BY <1>1 DEF Connect, ConnectAtOnce, ConnectFails, Cancel, SetValue, connectQueues
<1>2. ASSUME NEW q \in Requests, QueueCancelled(q) \/ BeginDispose(q) \/ DeadlinePasses(q)
      PROVE  /\ handle[p] = "registered" /\ value[p] = "failed"
             /\ cancelRequests'[p] \in {cancelRequests[p], cancelRequests[p] + 1}
  BY <1>2 DEF QueueCancelled, BeginDispose, DeadlinePasses, futureVars, connectQueues
<1>3. ASSUME NEW q \in Requests, SessionCreated(q)
      PROVE  handle[p] = "registered" /\ value[p] = "failed" /\ cancelRequests' = cancelRequests
  <2>1. handle' = handle /\ cancelRequests' = cancelRequests /\ session[q] = "added"
    BY <1>3 DEF SessionCreated, connectQueues
  <2>2. p # q
    BY <2>1 DEF RequestInv
  <2> QED
    BY <1>3, <2>1, <2>2 DEF SessionCreated, SetValue
<1>4. ASSUME NEW c \in Callers, StartWorker(c)
      PROVE  /\ handle[p] = "registered" /\ value[p] = "failed"
             /\ connecting => cancelRequests' = cancelRequests
  BY <1>4 DEF StartWorker, ReadConnectorRef, FillConnectorSlot, ConnectorSlotFilled, futureVars, connectQueues
<1> QED
  BY <1>1, <1>2, <1>3, <1>4

LEMMA FailedOfCallers ==
  ASSUME ConnectorTypeOK, FailedInv, \A p \in Requests : RequestInv(p),
         \/ \E q \in Requests :
              \/ Connect(q) \/ ConnectAtOnce(q) \/ ConnectFails(q) \/ Cancel(q) \/ QueueCancelled(q)
              \/ BeginDispose(q) \/ SessionCreated(q) \/ DeadlinePasses(q)
         \/ \E c \in Callers : StartWorker(c)
  PROVE  FailedInv'
<1>1. /\ UNCHANGED <<selected, connecting>>
      /\ \A k \in Connectors :
           \/ connectorPc'[k] = connectorPc[k]
           \/ connectorPc[k] = "idle" /\ connectorPc'[k] = "top"
  BY CallerMoves DEF ConnectorTypeOK
<1>2. \A p \in Requests : handle'[p] = "registered" /\ value'[p] = "failed" =>
        /\ handle[p] = "registered" /\ value[p] = "failed"
        /\ connecting => (cancelRequests[p] > 0 => cancelRequests'[p] > 0)
  BY CallersFailNone
<1> QED
  BY <1>1, <1>2 DEF FailedInv

\* What a Connector does that is in the slot concerns no other one.
LEMMA FailedAlone ==
  ASSUME ConnectorTypeOK, ConnectorSlotOwner, NEW k \in Connectors, Loops(k), ConnectorStep(k),
         connectorPc'[k] \in {"timeouts", "cancel"} => selected' = {},
         \A p \in Requests : handle'[p] = "registered" /\ value'[p] = "failed" =>
           /\ p \notin selected'
           /\ connecting' => cancelRequests'[p] > 0 /\ connectorPc'[k] \in {"process", "timeouts", "cancel"}
  PROVE  FailedInv'
<1>1. \A j \in Connectors \ {k} : ~Loops(j)
  BY DEF ConnectorSlotOwner
<1>2. \A j \in Connectors \ {k} : connectorPc'[j] = connectorPc[j]
  BY ConnectorMoves
<1> QED
  BY <1>1, <1>2 DEF FailedInv, Loops

\* While nobody has failed there is no cancellation to wait for.
LEMMA NoneFailed ==
  ASSUME ConnectorSlotOwner, FailedInv, NEW k \in Connectors, Loops(k), connecting,
         connectorPc[k] \notin {"process", "timeouts", "cancel"}
  PROVE  \A p \in Requests : ~(handle[p] = "registered" /\ value[p] = "failed")
BY DEF FailedInv, ConnectorSlotOwner, Loops

LEMMA FailedOfLoop ==
  ASSUME ConnectorTypeOK, ConnectorSlotOwner, FailedInv, \A p \in Requests : RequestInv(p),
         NEW k \in Connectors, Loops(k), ConnectorStep(k)
  PROVE  FailedInv'
<1> USE FailedAlone DEF ConnectorTypeOK, Moves, Loops
<1>1. CASE SelectConnected(k)
  BY <1>1, NoneFailed DEF SelectConnected, futureVars, disposalVars
<1>2. CASE LoopEnds(k) \/ EndRegisterNew(k) \/ GiveConnectorSlotUp(k)
  <2>1. /\ UNCHANGED <<futureVars, connectQueues, selected, connecting>>
        /\ connectorPc[k] \in {"top", "register", "giveUp"} /\ connectorPc'[k] \notin {"timeouts", "cancel"}
    BY <1>2 DEF LoopEnds, EndRegisterNew, GiveConnectorSlotUp, disposalVars
  <2> QED
    BY <2>1, NoneFailed DEF FailedInv, futureVars
<1>3. CASE RegisterNew(k)
  <2> PICK q \in connectQueue : handle[q] = "open" /\ handle' = [handle EXCEPT ![q] = "registered"]
    BY <1>3 DEF RegisterNew
  <2>1. value[q] # "failed"
    BY DEF RequestInv
  <2>2. /\ UNCHANGED <<value, selected, connecting, cancelRequests>>
        /\ connectorPc[k] = "register" /\ connectorPc' = connectorPc
    BY <1>3 DEF RegisterNew, disposalVars
  <2>3. \A p \in Requests : handle'[p] = "registered" /\ value'[p] = "failed" =>
          handle[p] = "registered" /\ value[p] = "failed"
    BY <2>1, <2>2
  <2> QED
    BY <2>2, <2>3, NoneFailed DEF FailedInv
<1>4. CASE RegisterNewFails(k)
  <2> PICK q \in connectQueue : handle' = [handle EXCEPT ![q] = "closed"] /\ SetValue(q, "failed")
    BY <1>4 DEF RegisterNewFails
  <2>1. /\ UNCHANGED <<selected, connecting, cancelRequests>>
        /\ connectorPc[k] = "register" /\ connectorPc' = connectorPc
    BY <1>4 DEF RegisterNewFails, disposalVars, loopVars
  <2>2. \A p \in Requests : handle'[p] = "registered" /\ value'[p] = "failed" =>
          handle[p] = "registered" /\ value[p] = "failed"
    BY DEF SetValue
  <2> QED
    BY <2>1, <2>2, NoneFailed DEF FailedInv
<1>5. CASE FinishConnect(k)
  <2> PICK q \in selected : selected' = selected \ {q} /\ handle' = [handle EXCEPT ![q] = "finished"]
    BY <1>5 DEF FinishConnect
  <2>1. /\ UNCHANGED <<value, connecting, cancelRequests>>
        /\ connectorPc[k] = "process" /\ connectorPc' = connectorPc
    BY <1>5 DEF FinishConnect, connectQueues, disposalVars
  <2> QED
    BY <2>1 DEF FailedInv
<1>6. CASE FinishFails(k)
  <2> PICK q \in selected, h \in {"registered", "finished"} :
        /\ selected' = selected \ {q} /\ handle' = [handle EXCEPT ![q] = h] /\ SetValue(q, "failed")
        /\ cancelRequests' = [cancelRequests EXCEPT ![q] = @ + 1]
    BY <1>6 DEF FinishFails
  <2>1. connecting' = connecting /\ connectorPc[k] = "process" /\ connectorPc' = connectorPc
    BY <1>6 DEF FinishFails, disposalVars
  <2>2. q \notin selected' /\ cancelRequests'[q] > 0
    OBVIOUS
  <2>3. \A p \in Requests \ {q} : handle'[p] = handle[p] /\ value'[p] = value[p] /\ cancelRequests'[p] = cancelRequests[p]
    BY DEF SetValue
  <2> QED
    BY <2>1, <2>2, <2>3 DEF FailedInv
<1>7. CASE NotConnected(k) \/ EndProcessConnections(k)
  <2>1. /\ UNCHANGED <<value, handle, connecting, cancelRequests>> /\ selected' \subseteq selected
        /\ connectorPc[k] = "process" /\ connectorPc'[k] \in {"process", "timeouts"}
        /\ connectorPc'[k] = "timeouts" => selected' = {}
    BY <1>7 DEF NotConnected, EndProcessConnections, futureVars, connectQueues, disposalVars
  <2> QED
    BY <2>1 DEF FailedInv
<1>8. CASE ProcessTimedOutSessions(k)
  <2>1. selected' = {} /\ connectorPc'[k] = "cancel" /\ UNCHANGED <<handle, connecting>>
    BY <1>8 DEF ProcessTimedOutSessions, FailedInv, disposalVars
  <2>2. ASSUME NEW p \in Requests, connecting, handle[p] = "registered", value'[p] = "failed"
        PROVE  cancelRequests'[p] > 0
    <3>1. CASE TimedOut(p)
      BY <1>8, <3>1 DEF ProcessTimedOutSessions
    <3>2. CASE ~TimedOut(p)
      BY <1>8, <2>2, <3>2 DEF ProcessTimedOutSessions, FailedInv
    <3> QED
      BY <3>1, <3>2
  <2> QED
    BY <2>1, <2>2
<1>9. CASE CancelKey(k)
  <2> PICK q \in Requests :
        cancelRequests' = [cancelRequests EXCEPT ![q] = @ - 1] /\ handle' = [handle EXCEPT ![q] = "closed"]
    BY <1>9 DEF CancelKey
  <2>1. /\ UNCHANGED <<value, selected, connecting>>
        /\ connectorPc[k] = "cancel" /\ connectorPc' = connectorPc
    BY <1>9 DEF CancelKey, disposalVars
  <2> QED
    BY <2>1 DEF FailedInv
<1>10. CASE EndCancelKeys(k)
  <2>1. /\ UNCHANGED <<value, handle, selected, connecting, cancelRequests>>
        /\ connectorPc[k] = "cancel" /\ connectorPc'[k] = "top" /\ \A p \in Requests : cancelRequests[p] = 0
    BY <1>10 DEF EndCancelKeys, futureVars, connectQueues, disposalVars
  <2> QED
    BY <2>1 DEF FailedInv
<1> QED
  BY <1>1, <1>2, <1>3, <1>4, <1>5, <1>6, <1>7, <1>8, <1>9, <1>10
  DEF ConnectorStep, LookConnectQueue, ReclaimConnectorSlot, ConnectorEnds, DestroyConnector

\* Outside of the slot no request is looked at.
LEMMA FailedOutside ==
  ASSUME ConnectorTypeOK, FailedInv, NEW k \in Connectors, ~Loops(k), ConnectorStep(k)
  PROVE  FailedInv'
<1>1. LookConnectQueue(k) \/ ReclaimConnectorSlot(k) \/ ConnectorEnds(k) \/ DestroyConnector(k)
  BY ConnectorMoves DEF GoesOn, Loops, GiveConnectorSlotUp
<1>2. /\ UNCHANGED <<futureVars, connectQueues, selected>> /\ (connecting' => connecting)
      /\ connectorPc[k] \notin {"process", "timeouts", "cancel"} /\ connectorPc'[k] \notin {"timeouts", "cancel"}
  BY <1>1 DEF LookConnectQueue, ReclaimConnectorSlot, ConnectorEnds, DestroyConnector, Moves, ConnectorTypeOK, disposalVars
<1>3. \A j \in Connectors \ {k} : connectorPc'[j] = connectorPc[j]
  BY ConnectorMoves
<1> QED
  BY <1>2, <1>3 DEF FailedInv, futureVars, connectQueues

LEMMA RequestStep ==
  ASSUME ConnectorTypeOK, ConnectorSlotOwner, FailedInv, \A p \in Requests : RequestInv(p),
         [ConnectorNext]_connectorVars
  PROVE  FailedInv' /\ \A p \in Requests : RequestInv(p)'
<1>1. CASE UNCHANGED connectorVars
  BY <1>1 DEF FailedInv, RequestInv, Fresh, connectorVars, futureVars, connectQueues, loopVars, disposalVars
<1>2. ASSUME NEW k \in Connectors, ConnectorStep(k)
      PROVE  FailedInv' /\ \A p \in Requests : RequestInv(p)'
  BY <1>2, FailedOfLoop, FailedOutside, RequestsOfConnector
<1>3. ASSUME NEW q \in Requests,
             \/ Connect(q) \/ ConnectAtOnce(q) \/ ConnectFails(q) \/ Cancel(q) \/ QueueCancelled(q)
             \/ BeginDispose(q) \/ SessionCreated(q) \/ DeadlinePasses(q)
      PROVE  FailedInv' /\ \A p \in Requests : RequestInv(p)'
  BY <1>3, FailedOfCallers, RequestsOfCalls, RequestsOfPeers
<1>4. ASSUME NEW c \in Callers, StartWorker(c)
      PROVE  FailedInv' /\ \A p \in Requests : RequestInv(p)'
  BY <1>4, FailedOfCallers, RequestsOfStart
<1> QED
  BY <1>1, <1>2, <1>3, <1>4 DEF ConnectorNext, Cancellation, Disposal, Connecting

\* Deadlines, errors and cancellations close no socket of a session, except
\* that of a session whose connect() was cancelled; and a future that reports
\* a failure has no session.
THEOREM NotClosedUnderSessionCorrect == ConnectorSpec => []NotClosedUnderSession
<1> DEFINE RequestsInv == \A p \in Requests : RequestInv(p)
<1>1. ConnectorInit => ConnectorSlotOwner
  BY DEF ConnectorInit, ConnectorSlotOwner, Loops
<1>2. ConnectorInit => FailedInv /\ RequestsInv
  <2> SUFFICES ASSUME ConnectorInit PROVE FailedInv /\ RequestsInv
    OBVIOUS
  <2>1. FailedInv
    BY DEF ConnectorInit, FailedInv
  <2>2. \A q \in Requests : Fresh(q) /\ startPc[<<q, "cancel">>] = "idle"
    BY DEF ConnectorInit, Fresh, Callers
  <2> QED
    BY <2>1, <2>2 DEF RequestInv, Fresh
<1>3. ConnectorTypeOK /\ ConnectorSlotOwner /\ FailedInv /\ RequestsInv /\ [ConnectorNext]_connectorVars
      => ConnectorSlotOwner' /\ FailedInv' /\ RequestsInv'
  BY SlotStep, RequestStep
<1>4. RequestsInv => NotClosedUnderSession
  BY DEF RequestInv, NotClosedUnderSession
<1> QED
  BY <1>1, <1>2, <1>3, <1>4, ConnectorTypeCorrect, PTL DEF ConnectorSpec

=============================================================================
