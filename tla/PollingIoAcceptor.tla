------------------------- MODULE PollingIoAcceptor -------------------------
(***************************************************************************)
(* EAbstractPollingIoAcceptor.hh with EAbstractIoAcceptor.cpp and          *)
(* ENioSocketAcceptor.cpp: threads that bind, unbind and dispose hand      *)
(* requests to an Acceptor, which they start when the slot acceptorRef is  *)
(* empty and which leaves the slot when no address is bound.  Unlike the   *)
(* Processor's, the select() of an Acceptor has no timeout: it returns for *)
(* a wakeup() or a connection.                                             *)
(***************************************************************************)
EXTENDS Integers, FiniteSets

CONSTANTS
  Addresses,       \* local addresses
  Binds, Unbinds,  \* calls of bind(), of unbind()
  Disposals,       \* calls of dispose(), one at most
  Acceptors,       \* Acceptor runnables; one that has ended stands for the next
  NoCall, NoAcceptor

ASSUME AcceptorAssumption ==
  /\ IsFiniteSet(Addresses)
  /\ NoCall \notin Binds \cup Unbinds \cup Disposals
  /\ NoAcceptor \notin Acceptors
  /\ Binds \cap (Unbinds \cup Disposals) = {}

Calls == Binds \cup Unbinds \cup Disposals

VARIABLES
  callPc,         \* where each call stands
  asked,          \* its addresses; {} in the last part of dispose0()
  activates,      \* bind()'s local variable activate
  future,         \* the AcceptorOperationFuture of the call
  bindLock,       \* who holds bindLock, and with it boundAddressesLock
  boundAddresses, \* what getLocalAddresses() answers
  activated,      \* the listener support's flag
  registerQueue, cancelQueue,
  acceptorRef, 
  permit,         \* the semaphore `lock' has its permit
  acceptorPc, nHandles,
  boundHandles,   \* the addresses in the map boundHandles
  newHandles,     \* sockets of a failed request that are still open
  ready,          \* the selected handles, where somebody wants to connect
  woken,          \* wakeup() has been called since the last select()
  skipped,        \* the last pass ended by an exception, before unregisterHandles()
  selectable, selectorOpen, disposing

callVars == <<callPc, asked, activates, bindLock, boundAddresses, activated, disposing>>
queueVars == <<registerQueue, cancelQueue, future>>
slotVars == <<acceptorRef, permit>>
handleVars == <<boundHandles, newHandles, ready>>
selectorVars == <<woken, skipped, selectable, selectorOpen>>
acceptorSide == <<acceptorPc, nHandles, handleVars, selectorVars>>
acceptorVars == <<callVars, queueVars, slotVars, acceptorSide>>

AcceptorInit ==
  /\ callPc = [c \in Calls |-> "idle"] /\ asked = [c \in Calls |-> {}]
  /\ activates = [c \in Calls |-> FALSE] /\ future = [c \in Calls |-> "none"]
  /\ bindLock = NoCall /\ boundAddresses = {} /\ activated = FALSE
  /\ registerQueue = {} /\ cancelQueue = {}
  /\ acceptorRef = NoAcceptor /\ permit = TRUE
  /\ acceptorPc = [r \in Acceptors |-> "idle"] /\ nHandles = [r \in Acceptors |-> 0]
  /\ boundHandles = {} /\ newHandles = {} /\ ready = {}
  /\ woken = FALSE /\ skipped = FALSE
  /\ selectable = TRUE /\ selectorOpen = TRUE /\ disposing = FALSE

----------------------------------------------------------------------------
(* The calls. *)

To(c, label) == callPc' = [callPc EXCEPT ![c] = label]

BeginBind(c) ==
  /\ c \in Binds /\ callPc[c] = "idle" /\ ~disposing
  /\ \E A \in (SUBSET Addresses) \ {{}} : asked' = [asked EXCEPT ![c] = A]
  /\ To(c, "lock")
  /\ UNCHANGED <<activates, bindLock, boundAddresses, activated, disposing, queueVars, slotVars, acceptorSide>>

BeginUnbind(c) ==
  /\ c \in Unbinds /\ callPc[c] = "idle"
  /\ \E A \in (SUBSET Addresses) \ {{}} : asked' = [asked EXCEPT ![c] = A]
  /\ To(c, "lock")
  /\ UNCHANGED <<activates, bindLock, boundAddresses, activated, disposing, queueVars, slotVars, acceptorSide>>

(* dispose() holds disposalLock from here to the end of dispose0(), whose   *)
(* first call is an unbind() of everything.                                 *)
BeginDisposal(c) ==
  /\ c \in Disposals /\ callPc[c] = "idle"
  /\ disposing' = TRUE
  /\ asked' = [asked EXCEPT ![c] = Addresses]
  /\ To(c, "lock")
  /\ UNCHANGED <<activates, bindLock, boundAddresses, activated, queueVars, slotVars, acceptorSide>>

DisposalLocked == \E c \in Disposals : callPc[c] \notin {"idle", "done"}

EnterBind(c) ==
  /\ c \in Binds /\ callPc[c] = "lock" /\ bindLock = NoCall
  /\ bindLock' = c
  /\ activates' = [activates EXCEPT ![c] = boundAddresses = {}]
  /\ registerQueue' = registerQueue \cup {c}
  /\ To(c, "read")
  /\ UNCHANGED <<asked, boundAddresses, activated, disposing, cancelQueue, future, slotVars, acceptorSide>>

(* What follows an unbind(): its caller goes on, and dispose0() starts an   *)
(* Acceptor once more.                                                      *)
AfterUnbind(c) ==
  /\ To(c, IF c \in Disposals THEN "read" ELSE "done")
  /\ asked' = [asked EXCEPT ![c] = {}]

NothingToUnbind(c) ==
  /\ c \in Unbinds \cup Disposals /\ callPc[c] = "lock" /\ bindLock = NoCall
  /\ asked[c] \cap boundAddresses = {}
  /\ AfterUnbind(c)
  /\ UNCHANGED <<activates, bindLock, boundAddresses, activated, disposing, queueVars, slotVars, acceptorSide>>

EnterUnbind(c) ==
  /\ c \in Unbinds \cup Disposals /\ callPc[c] = "lock" /\ bindLock = NoCall
  /\ asked[c] \cap boundAddresses # {}
  /\ bindLock' = c
  /\ asked' = [asked EXCEPT ![c] = @ \cap boundAddresses]
  /\ cancelQueue' = cancelQueue \cup {c}
  /\ To(c, "read")
  /\ UNCHANGED <<activates, boundAddresses, activated, disposing, registerQueue, future, slotVars, acceptorSide>>

(* startupAcceptor() reads the slot, waits for the semaphore and fills the  *)
(* slot by compareAndSet.  The new Acceptor gives the permit back.          *)
ReadAcceptorRef(c) ==
  /\ callPc[c] = "read"
  /\ registerQueue' = IF selectable THEN registerQueue ELSE {}
  /\ cancelQueue' = IF selectable THEN cancelQueue ELSE {}
  /\ To(c, IF acceptorRef = NoAcceptor THEN "acquire" ELSE "wake")
  /\ UNCHANGED <<asked, activates, bindLock, boundAddresses, activated, disposing, future, slotVars, acceptorSide>>

AcquirePermit(c) ==
  /\ callPc[c] = "acquire" /\ permit
  /\ permit' = FALSE
  /\ To(c, "cas")
  /\ UNCHANGED <<asked, activates, bindLock, boundAddresses, activated, disposing, queueVars, acceptorRef, acceptorSide>>

FillSlot(c) ==
  /\ callPc[c] = "cas" /\ acceptorRef = NoAcceptor
  /\ \E r \in Acceptors :
       /\ acceptorPc[r] = "idle"
       /\ acceptorRef' = r
       /\ acceptorPc' = [acceptorPc EXCEPT ![r] = "submitted"]
       /\ nHandles' = [nHandles EXCEPT ![r] = 0]
  /\ To(c, "wake")
  /\ UNCHANGED <<asked, activates, bindLock, boundAddresses, activated, disposing, queueVars, permit, handleVars, selectorVars>>

SlotFilled(c) ==
  /\ callPc[c] = "cas" /\ acceptorRef # NoAcceptor
  /\ permit' = TRUE
  /\ To(c, "wake")
  /\ UNCHANGED <<asked, activates, bindLock, boundAddresses, activated, disposing, queueVars, acceptorRef, acceptorSide>>

(* Fault: wakeup() has no effect outside of select(). *)
WakeupOfSleepers(c) ==
  /\ callPc[c] = "wake" /\ (c \in Binds => permit)
  /\ woken' = (woken \/ \E r \in Acceptors : acceptorPc[r] = "select")
  /\ To(c, IF asked[c] = {} THEN "done" ELSE "await")
  /\ UNCHANGED <<asked, activates, bindLock, boundAddresses, activated, disposing, queueVars, slotVars, acceptorPc, nHandles, handleVars, skipped, selectable, selectorOpen>>

Wakeup(c) ==
  /\ callPc[c] = "wake" /\ (c \in Binds => permit)
  /\ woken' = TRUE
  /\ To(c, IF asked[c] = {} THEN "done" ELSE "await")
  /\ UNCHANGED <<asked, activates, bindLock, boundAddresses, activated, disposing, queueVars, slotVars, acceptorPc, nHandles, handleVars, skipped, selectable, selectorOpen>>

EndBind(c) ==
  /\ c \in Binds /\ callPc[c] = "await" /\ future[c] # "none"
  /\ bindLock' = NoCall
  /\ boundAddresses' = IF future[c] = "done" THEN boundAddresses \cup boundHandles ELSE boundAddresses
  /\ To(c, IF future[c] = "done" /\ activates[c] THEN "fire" ELSE "done")
  /\ UNCHANGED <<asked, activates, activated, disposing, queueVars, slotVars, acceptorSide>>

FireActivated(c) ==
  /\ c \in Binds /\ callPc[c] = "fire"
  /\ activated' = TRUE
  /\ To(c, "done")
  /\ UNCHANGED <<asked, activates, bindLock, boundAddresses, disposing, queueVars, slotVars, acceptorSide>>

EndUnbind(c) ==
  /\ c \notin Binds /\ callPc[c] = "await" /\ future[c] = "done"
  /\ bindLock' = NoCall
  /\ boundAddresses' = boundAddresses \ asked[c]
  /\ IF boundAddresses' = {} THEN To(c, "fire") /\ UNCHANGED asked ELSE AfterUnbind(c)
  /\ UNCHANGED <<activates, activated, disposing, queueVars, slotVars, acceptorSide>>

FireDeactivated(c) ==
  /\ c \notin Binds /\ callPc[c] = "fire"
  /\ activated' = FALSE
  /\ AfterUnbind(c)
  /\ UNCHANGED <<activates, bindLock, boundAddresses, disposing, queueVars, slotVars, acceptorSide>>

CallStep(c) ==
  \/ EnterBind(c) \/ NothingToUnbind(c) \/ EnterUnbind(c)
  \/ ReadAcceptorRef(c) \/ AcquirePermit(c) \/ FillSlot(c) \/ SlotFilled(c) \/ Wakeup(c)
  \/ EndBind(c) \/ FireActivated(c) \/ EndUnbind(c) \/ FireDeactivated(c)

----------------------------------------------------------------------------
(* The Acceptor. *)

Goes(r, label) == acceptorPc' = [acceptorPc EXCEPT ![r] = label]

StartAcceptor(r) ==
  /\ acceptorPc[r] = "submitted"
  /\ permit' = TRUE
  /\ Goes(r, "top")
  /\ UNCHANGED <<callVars, queueVars, acceptorRef, nHandles, handleVars, selectorVars>>

Top(r) ==
  /\ acceptorPc[r] = "top"
  /\ Goes(r, IF selectable THEN "register" ELSE "cleanup")
  /\ UNCHANGED <<callVars, queueVars, slotVars, nHandles, handleVars, selectorVars>>

(* registerHandles() returns after the first request that succeeds. *)
RegisterHandles(r) ==
  /\ acceptorPc[r] = "register" /\ selectorOpen
  /\ \E c \in registerQueue :
       /\ asked[c] \cap (boundHandles \cup newHandles) = {}
       /\ registerQueue' = registerQueue \ {c}
       /\ future' = [future EXCEPT ![c] = "done"]
       /\ boundHandles' = boundHandles \cup asked[c]
       /\ nHandles' = [nHandles EXCEPT ![r] = @ + Cardinality(asked[c])]
  /\ Goes(r, "select")
  /\ UNCHANGED <<callVars, cancelQueue, slotVars, newHandles, ready, selectorVars>>

(* Fault: the exception is caught and forgotten, with the sockets. *)
RegisterFailsSilently(r) ==
  /\ acceptorPc[r] = "register"
  /\ \E c \in registerQueue, S \in SUBSET Addresses :
       /\ S \subseteq asked[c] \ boundHandles /\ S # asked[c]
       /\ registerQueue' = registerQueue \ {c}
       /\ newHandles' = S
  /\ Goes(r, "register")
  /\ UNCHANGED <<callVars, cancelQueue, future, slotVars, nHandles, boundHandles, ready, selectorVars>>

(* open() fails at one of the addresses.  The future is set before the      *)
(* sockets that were opened are closed.                                     *)
RegisterFails(r) ==
  /\ acceptorPc[r] = "register"
  /\ \E c \in registerQueue, S \in SUBSET Addresses :
       /\ S \subseteq asked[c] \ boundHandles /\ S # asked[c]
       /\ selectorOpen \/ S = {}
       /\ registerQueue' = registerQueue \ {c}
       /\ future' = [future EXCEPT ![c] = "failed"]
       /\ newHandles' = S
  /\ Goes(r, "rollBack")
  /\ UNCHANGED <<callVars, cancelQueue, slotVars, nHandles, boundHandles, ready, selectorVars>>

(* Fault: the sockets stay open. *)
RollBackKeeps(r) ==
  /\ acceptorPc[r] = "rollBack"
  /\ woken' = TRUE
  /\ Goes(r, "register")
  /\ UNCHANGED <<callVars, queueVars, slotVars, nHandles, handleVars, skipped, selectable, selectorOpen>>

RollBack(r) ==
  /\ acceptorPc[r] = "rollBack"
  /\ newHandles' = {}
  /\ woken' = TRUE
  /\ Goes(r, "register")
  /\ UNCHANGED <<callVars, queueVars, slotVars, nHandles, boundHandles, ready, skipped, selectable, selectorOpen>>

NothingToRegister(r) ==
  /\ acceptorPc[r] = "register" /\ registerQueue = {}
  /\ Goes(r, "select")
  /\ UNCHANGED <<callVars, queueVars, slotVars, nHandles, handleVars, selectorVars>>

(* select() returns for a wakeup(), with the connections there are, or for  *)
(* a connection alone.                                                      *)
Selected(r, handles) ==
  /\ acceptorPc[r] = "select" /\ selectorOpen
  /\ ready' = handles
  /\ woken' = FALSE
  /\ Goes(r, IF nHandles[r] = 0 THEN "giveUp" ELSE "process")
  /\ UNCHANGED <<callVars, queueVars, slotVars, nHandles, boundHandles, newHandles, skipped, selectable, selectorOpen>>

Select(r) == woken /\ \E handles \in SUBSET boundHandles : Selected(r, handles)

Connects(r) == ~woken /\ \E handles \in (SUBSET boundHandles) \ {{}} : Selected(r, handles)

SelectorClosed(r) ==
  /\ acceptorPc[r] = "select" /\ ~selectorOpen
  /\ Goes(r, "cleanup")
  /\ UNCHANGED <<callVars, queueVars, slotVars, nHandles, handleVars, selectorVars>>

GiveSlotUp(r) ==
  /\ acceptorPc[r] = "giveUp"
  /\ acceptorRef' = NoAcceptor
  /\ Goes(r, "lookRegister")
  /\ UNCHANGED <<callVars, queueVars, permit, nHandles, handleVars, selectorVars>>

LookRegister(r) ==
  /\ acceptorPc[r] = "lookRegister"
  /\ Goes(r, IF registerQueue = {} THEN "lookCancel" ELSE "reclaim")
  /\ UNCHANGED <<callVars, queueVars, slotVars, nHandles, handleVars, selectorVars>>

LookCancel(r) ==
  /\ acceptorPc[r] = "lookCancel"
  /\ Goes(r, IF cancelQueue = {} THEN "cleanup" ELSE "reclaim")
  /\ UNCHANGED <<callVars, queueVars, slotVars, nHandles, handleVars, selectorVars>>

(* Fault: the slot is set without a comparison. *)
ReclaimSlotBySet(r) ==
  /\ acceptorPc[r] = "reclaim"
  /\ acceptorRef' = r
  /\ Goes(r, "process")
  /\ UNCHANGED <<callVars, queueVars, permit, nHandles, handleVars, selectorVars>>

ReclaimSlot(r) ==
  /\ acceptorPc[r] = "reclaim"
  /\ acceptorRef' = IF acceptorRef = NoAcceptor THEN r ELSE acceptorRef
  /\ Goes(r, IF acceptorRef = NoAcceptor THEN "process" ELSE "cleanup")
  /\ UNCHANGED <<callVars, queueVars, permit, nHandles, handleVars, selectorVars>>

AcceptConnection(r) ==
  /\ acceptorPc[r] = "process"
  /\ \E a \in ready : ready' = ready \ {a}
  /\ UNCHANGED <<callVars, queueVars, slotVars, acceptorPc, nHandles, boundHandles, newHandles, selectorVars>>

(* accept() fails, or initSession() or the processor's add(): the rest of   *)
(* the pass is left out.                                                    *)
AcceptFails(r) ==
  /\ acceptorPc[r] = "process" /\ ready # {}
  /\ ready' = {}
  /\ skipped' = TRUE
  /\ Goes(r, "top")
  /\ UNCHANGED <<callVars, queueVars, slotVars, nHandles, boundHandles, newHandles, woken, selectable, selectorOpen>>

EndAccept(r) ==
  /\ acceptorPc[r] = "process" /\ ready = {}
  /\ Goes(r, "unregister")
  /\ UNCHANGED <<callVars, queueVars, slotVars, nHandles, handleVars, selectorVars>>

UnregisterHandles(r) ==
  /\ acceptorPc[r] = "unregister"
  /\ \E c \in cancelQueue : 
       LET closed == asked[c] \cap boundHandles IN
       /\ cancelQueue' = cancelQueue \ {c}
       /\ boundHandles' = boundHandles \ closed
       /\ nHandles' = [nHandles EXCEPT ![r] = @ - Cardinality(closed)]
       /\ woken' = (woken \/ closed # {})
       /\ future' = [future EXCEPT ![c] = "done"]
  /\ UNCHANGED <<callVars, registerQueue, slotVars, acceptorPc, newHandles, ready, skipped, selectable, selectorOpen>>

EndUnregister(r) ==
  /\ acceptorPc[r] = "unregister" /\ cancelQueue = {}
  /\ skipped' = FALSE
  /\ Goes(r, "top")
  /\ UNCHANGED <<callVars, queueVars, slotVars, nHandles, handleVars, woken, selectable, selectorOpen>>

(* After the loop. *)
CleanUp(r) ==
  /\ acceptorPc[r] = "cleanup"
  /\ selectable' = (selectable /\ ~disposing)
  /\ Goes(r, IF selectable /\ disposing THEN "destroy" ELSE "idle")
  /\ UNCHANGED <<callVars, queueVars, slotVars, nHandles, handleVars, woken, skipped, selectorOpen>>

DestroySelector(r) ==
  /\ acceptorPc[r] = "destroy" /\ ~DisposalLocked
  /\ selectorOpen' = FALSE
  /\ Goes(r, "idle")
  /\ UNCHANGED <<callVars, queueVars, slotVars, nHandles, handleVars, woken, skipped, selectable>>

AcceptorStep(r) ==
  \/ StartAcceptor(r) \/ Top(r)
  \/ RegisterHandles(r) \/ RegisterFails(r) \/ RollBack(r) \/ NothingToRegister(r)
  \/ Select(r) \/ SelectorClosed(r)
  \/ GiveSlotUp(r) \/ LookRegister(r) \/ LookCancel(r) \/ ReclaimSlot(r)
  \/ AcceptConnection(r) \/ AcceptFails(r) \/ EndAccept(r)
  \/ UnregisterHandles(r) \/ EndUnregister(r)
  \/ CleanUp(r) \/ DestroySelector(r)

AcceptorNext ==
  \/ \E c \in Calls : BeginBind(c) \/ BeginUnbind(c) \/ BeginDisposal(c) \/ CallStep(c)
  \/ \E r \in Acceptors : AcceptorStep(r) \/ Connects(r)

AcceptorFairness ==
  /\ \A c \in Calls : WF_acceptorVars(CallStep(c))
  /\ \A r \in Acceptors : WF_acceptorVars(AcceptorStep(r))

AcceptorSpec == AcceptorInit /\ [][AcceptorNext]_acceptorVars /\ AcceptorFairness

----------------------------------------------------------------------------
(* Properties. *)

AcceptorTypeOK ==
  /\ callPc \in [Calls -> {"idle", "lock", "read", "acquire", "cas", "wake", "await", "fire", "done"}]
  /\ asked \in [Calls -> SUBSET Addresses]
  /\ activates \in [Calls -> BOOLEAN] /\ future \in [Calls -> {"none", "done", "failed"}]
  /\ bindLock \in Calls \cup {NoCall} /\ boundAddresses \subseteq Addresses
  /\ registerQueue \subseteq Binds /\ cancelQueue \subseteq Calls \ Binds
  /\ acceptorRef \in Acceptors \cup {NoAcceptor}
  /\ acceptorPc \in [Acceptors -> {"idle", "submitted", "top", "register", "rollBack", "select", "giveUp",
       "lookRegister", "lookCancel", "reclaim", "process", "unregister", "cleanup", "destroy"}]
  /\ nHandles \in [Acceptors -> Int]
  /\ boundHandles \subseteq Addresses /\ newHandles \subseteq Addresses /\ ready \subseteq Addresses
  /\ \A x \in {activated, permit, woken, skipped, selectable, selectorOpen, disposing} : x \in BOOLEAN

InLoop(r) == acceptorPc[r] \in
  {"submitted", "top", "register", "rollBack", "select", "giveUp", "process", "unregister"}
SlotGiven(r) == acceptorPc[r] \in {"lookRegister", "lookCancel", "reclaim", "destroy"}

(* The ES_ASSERTs of Acceptor::run(): who loops is in acceptorRef, and who  *)
(* has given the slot up is not, however many calls start Acceptors.        *)
AcceptorSlotOwner == \A r \in Acceptors :
  /\ InLoop(r) => acceptorRef = r
  /\ SlotGiven(r) /\ selectable => acceptorRef # r

(* nHandles, a local variable of each Acceptor, is the number of addresses  *)
(* that are bound: an Acceptor with an address would otherwise leave, and   *)
(* one without never.  Nothing is bound while nobody is in the slot; and    *)
(* between calls what getLocalAddresses() says is what is open: a bind()    *)
(* that fails takes back what it opened, and unbind() closes what it drops. *)
BoundTruthfully ==
  /\ \A r \in Acceptors : InLoop(r) => nHandles[r] = Cardinality(boundHandles)
  /\ acceptorRef = NoAcceptor => boundHandles = {}
  /\ bindLock = NoCall => boundAddresses = boundHandles
  /\ bindLock = NoCall /\ newHandles # {} => \E r \in Acceptors : acceptorPc[r] = "rollBack"

(* An Acceptor that goes to sleep in select() has nothing to do: whoever    *)
(* queued a request has still to call wakeup() or is bound to, except after *)
(* an exception in processHandles(), which leaves the requests of that pass.*)
SleepsOnlyIdle == \A r \in Acceptors :
  acceptorPc[r] = "select" /\ ~woken /\ ~skipped =>
    \A c \in registerQueue \cup cancelQueue : callPc[c] \in {"read", "acquire", "cas", "wake"}

(* bind() and unbind() return.  The exceptions are a dispose() at the same  *)
(* time: a bind() that has passed isDisposing() may find the selector gone; *)
(* a slot that nobody has initialised, a datagram acceptor's; and for       *)
(* unbind() that accepting fails again and again.                           *)
SlotUsable == acceptorRef \in Acceptors \cup {NoAcceptor}
CallsReturn ==
  /\ \A c \in Binds : callPc[c] # "idle" ~> callPc[c] = "done" \/ disposing \/ ~SlotUsable
  /\ \A c \in Unbinds :
       callPc[c] # "idle" ~> callPc[c] = "done" \/ disposing \/ skipped \/ ~SlotUsable

=============================================================================
