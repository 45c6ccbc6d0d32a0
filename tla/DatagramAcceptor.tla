-------------------------- MODULE DatagramAcceptor --------------------------
(***************************************************************************)
(* The thread of an ENioDatagramAcceptor and the calls that start it.      *)
(* bind() and unbind() are EAbstractIoAcceptor's, as they are for the      *)
(* polling acceptor, and hand their requests to the same two queues.  The  *)
(* thread is another one: its slot `acceptor' changes under the semaphore, *)
(* its select() has a timeout and comes before registerHandles(), and it   *)
(* closes its selector without the lock of dispose().                      *)
(* (DatagramSessions and DatagramWrites are what the thread does for the   *)
(* sessions; whatever fails there is caught there.)                        *)
(***************************************************************************)
EXTENDS PollingIoAcceptor

CONSTANT Wild  \* what a member holds that no constructor sets

ASSUME WildAssumption == Wild \notin Acceptors \cup {NoAcceptor}

(* init() opens the selector and makes the map; nobody sets `acceptor'.    *)
DatagramAcceptorInit ==
  \E slot \in {NoAcceptor, Wild} :
    /\ callPc = [c \in Calls |-> "idle"] /\ asked = [c \in Calls |-> {}]
    /\ activates = [c \in Calls |-> FALSE] /\ future = [c \in Calls |-> "none"]
    /\ bindLock = NoCall /\ boundAddresses = {} /\ activated = FALSE
    /\ registerQueue = {} /\ cancelQueue = {}
    /\ acceptorRef = slot /\ permit = TRUE
    /\ acceptorPc = [r \in Acceptors |-> "idle"] /\ nHandles = [r \in Acceptors |-> 0]
    /\ boundHandles = {} /\ newHandles = {} /\ ready = {}
    /\ woken = FALSE /\ skipped = FALSE
    /\ selectable = TRUE /\ selectorOpen = TRUE /\ disposing = FALSE

----------------------------------------------------------------------------
(* The calls: startupAcceptor() looks at the slot under the semaphore, and *)
(* leaves it to the thread it starts to give the permit back.              *)

BeginStartup(c) ==
  /\ callPc[c] = "read"
  /\ registerQueue' = IF selectable THEN registerQueue ELSE {}
  /\ cancelQueue' = IF selectable THEN cancelQueue ELSE {}
  /\ To(c, "acquire")
  /\ UNCHANGED <<asked, activates, bindLock, boundAddresses, activated, disposing, future, slotVars, acceptorSide>>

ExecuteWorker(c) ==
  /\ callPc[c] = "acquire" /\ permit /\ acceptorRef = NoAcceptor
  /\ \E r \in Acceptors :
       /\ acceptorPc[r] = "idle"
       /\ acceptorRef' = r
       /\ acceptorPc' = [acceptorPc EXCEPT ![r] = "submitted"]
       /\ nHandles' = [nHandles EXCEPT ![r] = 0]
  /\ permit' = FALSE
  /\ To(c, "wake")
  /\ UNCHANGED <<asked, activates, bindLock, boundAddresses, activated, disposing, queueVars, handleVars, selectorVars>>

AlreadyStarted(c) ==
  /\ callPc[c] = "acquire" /\ permit /\ acceptorRef # NoAcceptor
  /\ To(c, "wake")
  /\ UNCHANGED <<asked, activates, bindLock, boundAddresses, activated, disposing, queueVars, slotVars, acceptorSide>>

(* bindInternal() from its request to the new addresses, *)
BindInternal(c) == EnterBind(c) \/ (c \in Binds /\ Wakeup(c)) \/ EndBind(c)

(* unbind0(), and dispose0() with an unbind() of everything.               *)
Unbind0(c) == EnterUnbind(c) \/ (c \notin Binds /\ Wakeup(c)) \/ EndUnbind(c)

DatagramCallStep(c) ==
  \/ BindInternal(c) \/ FireActivated(c)
  \/ NothingToUnbind(c) \/ Unbind0(c) \/ FireDeactivated(c)
  \/ BeginStartup(c) \/ ExecuteWorker(c) \/ AlreadyStarted(c)

----------------------------------------------------------------------------
(* acceptorProcess() *)

LoopTop(r) ==
  /\ acceptorPc[r] = "top"
  /\ Goes(r, IF selectable THEN "select" ELSE "cleanup")
  /\ UNCHANGED <<callVars, queueVars, slotVars, nHandles, handleVars, selectorVars>>

(* The timeout of select() may always be over. *)
SelectTimeout(r) ==
  /\ acceptorPc[r] = "select" /\ selectorOpen
  /\ woken' = FALSE
  /\ Goes(r, "register")
  /\ UNCHANGED <<callVars, queueVars, slotVars, nHandles, handleVars, skipped, selectable, selectorOpen>>

(* Fault: the thread that has one left looks, too. *)
AfterRegisteringOne(n) == IF n <= 1 THEN "giveUp" ELSE "unregister"

(* Without a handle the thread looks for its end; with one it goes on to   *)
(* the datagrams, the writes and the requests to unbind.                   *)
AfterRegistering(n) == IF n = 0 THEN "giveUp" ELSE "unregister"

(* registerHandles() opens the addresses of the first request that can be  *)
(* opened, and tells the listeners before it answers the request.          *)
RegisterChannels(r) ==
  /\ acceptorPc[r] = "register" /\ selectorOpen
  /\ \E c \in registerQueue :
       LET bound == nHandles[r] + Cardinality(asked[c]) IN
       /\ asked[c] \cap (boundHandles \cup newHandles) = {}
       /\ registerQueue' = registerQueue \ {c}
       /\ future' = [future EXCEPT ![c] = "done"]
       /\ boundHandles' = boundHandles \cup asked[c]
       /\ activated' = TRUE
       /\ nHandles' = [nHandles EXCEPT ![r] = bound]
       /\ Goes(r, AfterRegistering(bound))
  /\ UNCHANGED <<callPc, asked, activates, bindLock, boundAddresses, disposing, cancelQueue, slotVars, newHandles, ready, selectorVars>>

(* The request fails, and is rolled back, as the polling acceptor's does.  *)
OpenFails(r) == RegisterFails(r)
CloseOpened(r) == RollBack(r)

NoRequest(r) ==
  /\ acceptorPc[r] = "register" /\ registerQueue = {}
  /\ Goes(r, AfterRegistering(nHandles[r]))
  /\ UNCHANGED <<callVars, queueVars, slotVars, nHandles, handleVars, selectorVars>>

(* The slot is given up with the permit in hand, if both queues are empty. *)
LookForRequests(r) ==
  /\ acceptorPc[r] = "giveUp" /\ permit
  /\ permit' = (registerQueue # {})
  /\ Goes(r, IF registerQueue = {} THEN "lookLast" ELSE "unregister")
  /\ UNCHANGED <<callVars, queueVars, acceptorRef, nHandles, handleVars, selectorVars>>

LeaveSlot(r) ==
  /\ acceptorPc[r] = "lookLast"
  /\ permit' = TRUE
  /\ acceptorRef' = IF cancelQueue = {} THEN NoAcceptor ELSE acceptorRef
  /\ Goes(r, IF cancelQueue = {} THEN "cleanup" ELSE "unregister")
  /\ UNCHANGED <<callVars, queueVars, nHandles, handleVars, selectorVars>>

CloseChannels(r) == UnregisterHandles(r)
EndPass(r) == EndUnregister(r)

EndLoop(r) == CleanUp(r)

(* destroy(), by whoever finds the service disposing first. *)
CloseSelector(r) ==
  /\ acceptorPc[r] = "destroy"
  /\ selectorOpen' = FALSE
  /\ Goes(r, "idle")
  /\ UNCHANGED <<callVars, queueVars, slotVars, nHandles, handleVars, woken, skipped, selectable>>

AcceptorProcess(r) ==
  \/ StartAcceptor(r) \/ LoopTop(r)
  \/ SelectTimeout(r) \/ SelectorClosed(r)
  \/ RegisterChannels(r) \/ OpenFails(r) \/ CloseOpened(r) \/ NoRequest(r)
  \/ LookForRequests(r) \/ LeaveSlot(r)
  \/ CloseChannels(r) \/ EndPass(r)
  \/ EndLoop(r) \/ CloseSelector(r)

DatagramAcceptorNext ==
  \/ \E c \in Calls : BeginBind(c) \/ BeginUnbind(c) \/ BeginDisposal(c) \/ DatagramCallStep(c)
  \/ \E r \in Acceptors : AcceptorProcess(r)
=============================================================================
