---------------------- MODULE PollingIoAcceptorProofs ----------------------
(***************************************************************************)
(* Theorems about PollingIoAcceptor, for any finite set of addresses and   *)
(* any sets of calls and runnables: type correctness, exclusive use of     *)
(* acceptorRef, that nHandles and getLocalAddresses() tell what is open,   *)
(* and that no Acceptor sleeps on a request that waits for it.             *)
(***************************************************************************)
EXTENDS PollingIoAcceptor, FiniteSetTheorems, TLAPS

CallPcs == {"idle", "lock", "read", "acquire", "cas", "wake", "await", "fire", "done"}
AcceptorPcs == {"idle", "submitted", "top", "register", "rollBack", "select", "giveUp",
  "lookRegister", "lookCancel", "reclaim", "process", "unregister", "cleanup", "destroy"}

\* What the calls and the Acceptors leave alone of the types.
CallTypes ==
  /\ callPc \in [Calls -> CallPcs] /\ asked \in [Calls -> SUBSET Addresses]
  /\ activates \in [Calls -> BOOLEAN]
  /\ bindLock \in Calls \cup {NoCall} /\ boundAddresses \subseteq Addresses
  /\ activated \in BOOLEAN /\ disposing \in BOOLEAN
QueueTypes ==
  /\ future \in [Calls -> {"none", "done", "failed"}]
  /\ registerQueue \subseteq Binds /\ cancelQueue \subseteq Calls \ Binds
SlotTypes == acceptorRef \in Acceptors \cup {NoAcceptor} /\ permit \in BOOLEAN
LoopTypes ==
  /\ acceptorPc \in [Acceptors -> AcceptorPcs] /\ nHandles \in [Acceptors -> Int]
  /\ boundHandles \subseteq Addresses /\ newHandles \subseteq Addresses /\ ready \subseteq Addresses
  /\ woken \in BOOLEAN /\ skipped \in BOOLEAN /\ selectable \in BOOLEAN /\ selectorOpen \in BOOLEAN

LEMMA TypeParts == AcceptorTypeOK <=> CallTypes /\ QueueTypes /\ SlotTypes /\ LoopTypes
<1>1. AcceptorTypeOK => CallTypes /\ QueueTypes /\ SlotTypes /\ LoopTypes
  BY DEF AcceptorTypeOK, CallTypes, QueueTypes, SlotTypes, LoopTypes, CallPcs, AcceptorPcs
<1>2. CallTypes /\ QueueTypes /\ SlotTypes /\ LoopTypes => AcceptorTypeOK
  BY DEF AcceptorTypeOK, CallTypes, QueueTypes, SlotTypes, LoopTypes, CallPcs, AcceptorPcs
<1> QED
  BY <1>1, <1>2

LEMMA TypePartsNext == AcceptorTypeOK' <=> CallTypes' /\ QueueTypes' /\ SlotTypes' /\ LoopTypes'
<1>1. AcceptorTypeOK' => CallTypes' /\ QueueTypes' /\ SlotTypes' /\ LoopTypes'
  BY DEF AcceptorTypeOK, CallTypes, QueueTypes, SlotTypes, LoopTypes, CallPcs, AcceptorPcs
<1>2. CallTypes' /\ QueueTypes' /\ SlotTypes' /\ LoopTypes' => AcceptorTypeOK'
  BY DEF AcceptorTypeOK, CallTypes, QueueTypes, SlotTypes, LoopTypes, CallPcs, AcceptorPcs
<1> QED
  BY <1>1, <1>2

LEMMA TypeInit == AcceptorInit => AcceptorTypeOK
<1> SUFFICES ASSUME AcceptorInit PROVE CallTypes /\ QueueTypes /\ SlotTypes /\ LoopTypes
  BY TypeParts
<1>1. CallTypes /\ QueueTypes
  BY DEF AcceptorInit, CallTypes, QueueTypes, CallPcs
<1>2. acceptorPc \in [Acceptors -> AcceptorPcs] /\ nHandles \in [Acceptors -> Int]
  BY DEF AcceptorInit, AcceptorPcs
<1>3. SlotTypes /\ LoopTypes
  BY <1>2 DEF AcceptorInit, SlotTypes, LoopTypes
<1> QED
  BY <1>1, <1>3

\* Every step of a call keeps every variable in its range.
LEMMA CallTypeStep ==
  ASSUME AcceptorTypeOK, NEW c \in Calls,
         BeginBind(c) \/ BeginUnbind(c) \/ BeginDisposal(c) \/ CallStep(c)
  PROVE  AcceptorTypeOK'
<1> SUFFICES CallTypes' /\ QueueTypes' /\ SlotTypes' /\ LoopTypes'
  BY TypePartsNext
<1>0. CallTypes /\ QueueTypes /\ SlotTypes /\ LoopTypes
  BY TypeParts
<1> USE <1>0 DEF CallTypes, QueueTypes, SlotTypes, LoopTypes, CallPcs, To,
                 queueVars, slotVars, acceptorSide, handleVars, selectorVars
<1>1. CASE BeginBind(c) \/ BeginUnbind(c)
  BY <1>1 DEF BeginBind, BeginUnbind
<1>2. CASE BeginDisposal(c)
  BY <1>2 DEF BeginDisposal
<1>8. CASE EnterBind(c)
  <2>1. c \in Binds /\ (boundAddresses = {}) \in BOOLEAN
    BY <1>8 DEF EnterBind
  <2>2. activates' \in [Calls -> BOOLEAN]
    BY <1>8, <2>1 DEF EnterBind
  <2> QED
    BY <1>8, <2>1, <2>2 DEF EnterBind
<1>9. CASE EnterUnbind(c)
  BY <1>9, AcceptorAssumption DEF EnterUnbind
<1>3. CASE NothingToUnbind(c) \/ FireDeactivated(c)
  BY <1>3 DEF NothingToUnbind, FireDeactivated, AfterUnbind
<1>4. CASE ReadAcceptorRef(c) \/ AcquirePermit(c) \/ SlotFilled(c)
  BY <1>4 DEF ReadAcceptorRef, AcquirePermit, SlotFilled
<1>5. CASE FillSlot(c)
  BY <1>5 DEF FillSlot, AcceptorPcs
<1>6. CASE Wakeup(c) \/ EndBind(c) \/ FireActivated(c)
  BY <1>6 DEF Wakeup, EndBind, FireActivated
<1>7. CASE EndUnbind(c)
  BY <1>7 DEF EndUnbind, AfterUnbind
<1> QED
  BY <1>1, <1>2, <1>3, <1>4, <1>5, <1>6, <1>7, <1>8, <1>9 DEF CallStep

\* And so does every step of an Acceptor.
LEMMA AcceptorTypeStep ==
  ASSUME AcceptorTypeOK, NEW r \in Acceptors, AcceptorStep(r) \/ Connects(r)
  PROVE  AcceptorTypeOK'
<1> SUFFICES CallTypes' /\ QueueTypes' /\ SlotTypes' /\ LoopTypes'
  BY TypePartsNext
<1>0. CallTypes /\ QueueTypes /\ SlotTypes /\ LoopTypes
  BY TypeParts
<1> USE <1>0 DEF CallTypes, QueueTypes, SlotTypes, LoopTypes, AcceptorPcs, Goes,
                 callVars, queueVars, slotVars, handleVars, selectorVars
<1>1. CASE StartAcceptor(r) \/ Top(r) \/ RollBack(r) \/ NothingToRegister(r)
  <2>1. CASE StartAcceptor(r) \/ Top(r)
    BY <2>1 DEF StartAcceptor, Top
  <2>2. CASE RollBack(r)
    BY <2>2 DEF RollBack
  <2>3. CASE NothingToRegister(r)
    BY <2>3 DEF NothingToRegister
  <2> QED
    BY <1>1, <2>1, <2>2, <2>3
<1>2. CASE RegisterHandles(r)
  <2> PICK c \in registerQueue :
       /\ registerQueue' = registerQueue \ {c}
       /\ future' = [future EXCEPT ![c] = "done"]
       /\ boundHandles' = boundHandles \cup asked[c]
       /\ nHandles' = [nHandles EXCEPT ![r] = @ + Cardinality(asked[c])]
    BY <1>2 DEF RegisterHandles
  <2>1. c \in Calls /\ IsFiniteSet(asked[c])
    BY FS_Subset, AcceptorAssumption DEF Calls
  <2>2. Cardinality(asked[c]) \in Nat
    BY <2>1, FS_CardinalityType
  <2> QED
    BY <1>2, <2>1, <2>2 DEF RegisterHandles
<1>3. CASE RegisterFails(r)
  BY <1>3 DEF RegisterFails, Calls
<1>4. CASE Select(r) \/ Connects(r) \/ SelectorClosed(r)
  BY <1>4 DEF Select, Connects, Selected, SelectorClosed
<1>5. CASE GiveSlotUp(r) \/ LookRegister(r) \/ LookCancel(r) \/ ReclaimSlot(r)
  BY <1>5 DEF GiveSlotUp, LookRegister, LookCancel, ReclaimSlot
<1>6. CASE AcceptConnection(r) \/ AcceptFails(r) \/ EndAccept(r) \/ EndUnregister(r)
  BY <1>6 DEF AcceptConnection, AcceptFails, EndAccept, EndUnregister
<1>7. CASE UnregisterHandles(r)
  <2> PICK c \in cancelQueue :
       /\ cancelQueue' = cancelQueue \ {c}
       /\ boundHandles' = boundHandles \ (asked[c] \cap boundHandles)
       /\ nHandles' = [nHandles EXCEPT ![r] = @ - Cardinality(asked[c] \cap boundHandles)]
       /\ woken' = (woken \/ asked[c] \cap boundHandles # {})
       /\ future' = [future EXCEPT ![c] = "done"]
    BY <1>7 DEF UnregisterHandles
  <2>1. c \in Calls /\ IsFiniteSet(asked[c] \cap boundHandles)
    BY FS_Subset, AcceptorAssumption
  <2>2. Cardinality(asked[c] \cap boundHandles) \in Nat
    BY <2>1, FS_CardinalityType
  <2> QED
    BY <1>7, <2>1, <2>2 DEF UnregisterHandles
<1>8. CASE CleanUp(r) \/ DestroySelector(r)
  BY <1>8 DEF CleanUp, DestroySelector
<1> QED
  BY <1>1, <1>2, <1>3, <1>4, <1>5, <1>6, <1>7, <1>8 DEF AcceptorStep

LEMMA TypeStep == ASSUME AcceptorTypeOK, [AcceptorNext]_acceptorVars PROVE AcceptorTypeOK'
<1>1. ASSUME UNCHANGED acceptorVars PROVE AcceptorTypeOK'
  BY <1>1 DEF AcceptorTypeOK, acceptorVars, callVars, queueVars, slotVars, handleVars, selectorVars, acceptorSide
<1> QED
  BY <1>1, CallTypeStep, AcceptorTypeStep DEF AcceptorNext

\* In every reachable state every variable has a value of its type.
THEOREM AcceptorTypeCorrect == AcceptorSpec => []AcceptorTypeOK
BY TypeInit, TypeStep, PTL DEF AcceptorSpec

-----------------------------------------------------------------------------
(* The slot. *)

SlotInv ==
  /\ AcceptorSlotOwner
  /\ \A r \in Acceptors : acceptorPc[r] = "destroy" => ~selectable

\* Of the calls only a compareAndSet of the empty slot moves an Acceptor.
LEMMA CallMoves ==
  ASSUME NEW c \in Calls, BeginBind(c) \/ BeginUnbind(c) \/ BeginDisposal(c) \/ CallStep(c)
  PROVE  FillSlot(c) \/ UNCHANGED <<acceptorRef, acceptorPc, nHandles, handleVars, skipped, selectable>>
<1> USE DEF slotVars, selectorVars, acceptorSide
<1>1. CASE BeginBind(c) \/ BeginUnbind(c) \/ BeginDisposal(c)
  BY <1>1 DEF BeginBind, BeginUnbind, BeginDisposal
<1>2. CASE EnterBind(c) \/ EnterUnbind(c) \/ NothingToUnbind(c) \/ ReadAcceptorRef(c)
  BY <1>2 DEF EnterBind, EnterUnbind, NothingToUnbind, ReadAcceptorRef
<1>3. CASE AcquirePermit(c) \/ SlotFilled(c) \/ Wakeup(c)
  BY <1>3 DEF AcquirePermit, SlotFilled, Wakeup
<1>4. CASE EndBind(c) \/ FireActivated(c) \/ EndUnbind(c) \/ FireDeactivated(c)
  BY <1>4 DEF EndBind, FireActivated, EndUnbind, FireDeactivated
<1> QED
  BY <1>1, <1>2, <1>3, <1>4 DEF CallStep

\* FillSlot(c), seen from the Acceptors.
LEMMA Fills ==
  ASSUME AcceptorTypeOK, NEW c \in Calls, FillSlot(c)
  PROVE  /\ acceptorRef = NoAcceptor
         /\ \E r \in Acceptors :
              /\ acceptorPc[r] = "idle" /\ acceptorRef' = r
              /\ acceptorPc'[r] = "submitted" /\ nHandles'[r] = 0
              /\ \A s \in Acceptors \ {r} : acceptorPc'[s] = acceptorPc[s] /\ nHandles'[s] = nHandles[s]
         /\ UNCHANGED <<handleVars, selectorVars>>
BY DEF FillSlot, AcceptorTypeOK

LEMMA SlotOfCalls ==
  ASSUME AcceptorTypeOK, SlotInv, NEW c \in Calls,
         BeginBind(c) \/ BeginUnbind(c) \/ BeginDisposal(c) \/ CallStep(c)
  PROVE  SlotInv'
<1> USE DEF SlotInv, AcceptorSlotOwner, InLoop, SlotGiven
<1>1. CASE FillSlot(c)
  BY <1>1, Fills, AcceptorAssumption DEF selectorVars
<1>2. CASE UNCHANGED <<acceptorRef, acceptorPc, selectable>>
  BY <1>2
<1> QED
  BY <1>1, <1>2, CallMoves

\* An Acceptor that moves leaves the others where they are.
LEMMA OthersStay ==
  ASSUME AcceptorTypeOK, NEW r \in Acceptors, AcceptorStep(r) \/ Connects(r)
  PROVE  /\ \A s \in Acceptors \ {r} : acceptorPc'[s] = acceptorPc[s] /\ nHandles'[s] = nHandles[s]
         /\ UNCHANGED callVars
<1> USE DEF AcceptorTypeOK, Goes, callVars
<1>1. CASE StartAcceptor(r) \/ Top(r) \/ RollBack(r) \/ NothingToRegister(r)
  BY <1>1 DEF StartAcceptor, Top, RollBack, NothingToRegister
<1>2. CASE RegisterHandles(r) \/ RegisterFails(r)
  BY <1>2 DEF RegisterHandles, RegisterFails
<1>3. CASE Select(r) \/ Connects(r) \/ SelectorClosed(r)
  BY <1>3 DEF Select, Connects, Selected, SelectorClosed
<1>4. CASE GiveSlotUp(r) \/ LookRegister(r) \/ LookCancel(r) \/ ReclaimSlot(r)
  BY <1>4 DEF GiveSlotUp, LookRegister, LookCancel, ReclaimSlot
<1>5. CASE AcceptConnection(r) \/ AcceptFails(r) \/ EndAccept(r)
  BY <1>5 DEF AcceptConnection, AcceptFails, EndAccept
<1>6. CASE UnregisterHandles(r) \/ EndUnregister(r) \/ CleanUp(r) \/ DestroySelector(r)
  BY <1>6 DEF UnregisterHandles, EndUnregister, CleanUp, DestroySelector
<1> QED
  BY <1>1, <1>2, <1>3, <1>4, <1>5, <1>6 DEF AcceptorStep

\* An Acceptor whose step leaves the slot alone: where it comes from and
\* where it goes to.
Keeps(r) ==
  /\ UNCHANGED <<acceptorRef, selectable>>
  /\ \/ InLoop(r) /\ (InLoop(r)' \/ acceptorPc'[r] = "cleanup")
     \/ acceptorPc[r] \in {"lookRegister", "lookCancel"} /\ acceptorPc'[r] \in {"lookCancel", "reclaim", "cleanup"}
     \/ acceptorPc[r] = "destroy" /\ acceptorPc'[r] = "idle"

LEMMA StepKinds ==
  ASSUME AcceptorTypeOK, NEW r \in Acceptors, AcceptorStep(r) \/ Connects(r)
  PROVE  Keeps(r) \/ GiveSlotUp(r) \/ ReclaimSlot(r) \/ CleanUp(r)
<1> USE DEF AcceptorTypeOK, Goes, Keeps, InLoop, slotVars, selectorVars
<1>1. CASE StartAcceptor(r) \/ Top(r) \/ RollBack(r) \/ NothingToRegister(r)
  BY <1>1 DEF StartAcceptor, Top, RollBack, NothingToRegister
<1>2. CASE RegisterHandles(r) \/ RegisterFails(r)
  BY <1>2 DEF RegisterHandles, RegisterFails
<1>3. CASE Select(r) \/ Connects(r) \/ SelectorClosed(r)
  BY <1>3 DEF Select, Connects, Selected, SelectorClosed
<1>4. CASE LookRegister(r) \/ LookCancel(r)
  BY <1>4 DEF LookRegister, LookCancel
<1>5. CASE AcceptConnection(r) \/ AcceptFails(r) \/ EndAccept(r)
  BY <1>5 DEF AcceptConnection, AcceptFails, EndAccept
<1>6. CASE UnregisterHandles(r) \/ EndUnregister(r) \/ DestroySelector(r)
  BY <1>6 DEF UnregisterHandles, EndUnregister, DestroySelector
<1> QED
  BY <1>1, <1>2, <1>3, <1>4, <1>5, <1>6 DEF AcceptorStep

LEMMA SlotOfAcceptors ==
  ASSUME AcceptorTypeOK, SlotInv, NEW r \in Acceptors, AcceptorStep(r) \/ Connects(r)
  PROVE  SlotInv'
<1> USE OthersStay, AcceptorAssumption DEF SlotInv, AcceptorSlotOwner, InLoop, SlotGiven
<1>1. CASE Keeps(r)
  BY <1>1 DEF Keeps
<1>2. CASE GiveSlotUp(r)
  BY <1>2 DEF GiveSlotUp, Goes, AcceptorTypeOK, selectorVars
<1>3. CASE ReclaimSlot(r)
  BY <1>3 DEF ReclaimSlot, Goes, AcceptorTypeOK, selectorVars
<1>4. CASE CleanUp(r)
  BY <1>4 DEF CleanUp, Goes, AcceptorTypeOK, slotVars
<1> QED
  BY <1>1, <1>2, <1>3, <1>4, StepKinds

LEMMA SlotStep == ASSUME AcceptorTypeOK, SlotInv, [AcceptorNext]_acceptorVars PROVE SlotInv'
<1>1. ASSUME UNCHANGED acceptorVars PROVE SlotInv'
  BY <1>1 DEF SlotInv, AcceptorSlotOwner, InLoop, SlotGiven, acceptorVars, slotVars, selectorVars, acceptorSide
<1> QED
  BY <1>1, SlotOfCalls, SlotOfAcceptors DEF AcceptorNext

\* However many calls start Acceptors, one loops at a time, and it is the one
\* in acceptorRef; who has given the slot up does not find itself there.
THEOREM AcceptorSlotCorrect == AcceptorSpec => []AcceptorSlotOwner
<1>1. AcceptorInit => SlotInv
  BY AcceptorAssumption DEF AcceptorInit, SlotInv, AcceptorSlotOwner, InLoop, SlotGiven
<1>2. AcceptorTypeOK /\ SlotInv /\ [AcceptorNext]_acceptorVars => SlotInv'
  BY SlotStep
<1>3. SlotInv => AcceptorSlotOwner
  BY DEF SlotInv
<1> QED
  BY <1>1, <1>2, <1>3, AcceptorTypeCorrect, PTL DEF AcceptorSpec

-----------------------------------------------------------------------------
(* The addresses that are open. *)

HandlesInv ==
  /\ \A r \in Acceptors :
       /\ InLoop(r) => nHandles[r] = Cardinality(boundHandles)
       /\ acceptorPc[r] \in {"giveUp", "lookRegister", "lookCancel", "reclaim"} => nHandles[r] = 0
  /\ acceptorRef = NoAcceptor => boundHandles = {}
  /\ newHandles # {} => \E r \in Acceptors : acceptorPc[r] = "rollBack"

LEMMA FiniteHandles ==
  ASSUME AcceptorTypeOK
  PROVE  /\ IsFiniteSet(boundHandles) /\ \A c \in Calls : IsFiniteSet(asked[c])
         /\ \A A \in SUBSET Addresses : IsFiniteSet(A) /\ Cardinality(A) \in Nat
<1>1. \A A \in SUBSET Addresses : IsFiniteSet(A) /\ Cardinality(A) \in Nat
  BY FS_Subset, FS_CardinalityType, AcceptorAssumption
<1> QED
  BY <1>1 DEF AcceptorTypeOK

LEMMA HandlesOfCalls ==
  ASSUME AcceptorTypeOK, SlotInv, HandlesInv, NEW c \in Calls,
         BeginBind(c) \/ BeginUnbind(c) \/ BeginDisposal(c) \/ CallStep(c)
  PROVE  HandlesInv'
<1>1. CASE FillSlot(c)
  <2>1. boundHandles = {} /\ \A r \in Acceptors : ~InLoop(r)
    BY <1>1, Fills, AcceptorAssumption DEF HandlesInv, SlotInv, AcceptorSlotOwner
  <2>2. newHandles = {}
    BY <2>1 DEF HandlesInv, InLoop
  <2> QED
    BY <1>1, <2>1, <2>2, Fills, FS_EmptySet, AcceptorAssumption DEF HandlesInv, InLoop, handleVars
<1>2. CASE UNCHANGED <<acceptorRef, acceptorPc, nHandles, handleVars>>
  BY <1>2 DEF HandlesInv, InLoop, handleVars
<1> QED
  BY <1>1, <1>2, CallMoves

\* The Acceptor that loops is alone to: it has to count right only itself.
LEMMA LoopsAlone ==
  ASSUME AcceptorTypeOK, SlotInv, HandlesInv, NEW r \in Acceptors, InLoop(r),
         AcceptorStep(r), UNCHANGED acceptorRef,
         InLoop(r)' => nHandles'[r] = Cardinality(boundHandles'),
         acceptorPc'[r] \in {"giveUp", "lookRegister", "lookCancel", "reclaim"} => nHandles'[r] = 0,
         newHandles' # {} => acceptorPc'[r] = "rollBack" \/ (newHandles' = newHandles /\ acceptorPc[r] # "rollBack")
  PROVE  HandlesInv'
<1>1. acceptorRef = r /\ \A s \in Acceptors \ {r} : ~InLoop(s)
  BY DEF SlotInv, AcceptorSlotOwner
<1>2. \A s \in Acceptors \ {r} : ~InLoop(s)' /\ acceptorPc'[s] = acceptorPc[s] /\ nHandles'[s] = nHandles[s]
  BY <1>1, OthersStay DEF InLoop
<1> QED
  BY <1>1, <1>2, AcceptorAssumption DEF HandlesInv

LEMMA HandlesOfRegister ==
  ASSUME AcceptorTypeOK, SlotInv, HandlesInv, NEW r \in Acceptors, RegisterHandles(r)
  PROVE  HandlesInv'
<1> PICK c \in registerQueue :
     /\ asked[c] \cap boundHandles = {}
     /\ boundHandles' = boundHandles \cup asked[c]
     /\ nHandles' = [nHandles EXCEPT ![r] = @ + Cardinality(asked[c])]
  BY DEF RegisterHandles
<1>1. IsFiniteSet(boundHandles) /\ IsFiniteSet(asked[c]) /\ c \in Calls
  BY FiniteHandles DEF AcceptorTypeOK, Calls
<1>2. Cardinality(boundHandles') = Cardinality(boundHandles) + Cardinality(asked[c]) - Cardinality(boundHandles \cap asked[c])
  BY <1>1, FS_Union
<1>3. Cardinality(boundHandles \cap asked[c]) = 0
  BY FS_EmptySet
<1>4. Cardinality(boundHandles) \in Nat /\ Cardinality(asked[c]) \in Nat
  BY <1>1, FS_CardinalityType
<1>5. acceptorPc[r] = "register" /\ acceptorPc'[r] = "select" /\ UNCHANGED <<acceptorRef, newHandles>>
  BY DEF RegisterHandles, Goes, AcceptorTypeOK, slotVars
<1>6. nHandles'[r] = nHandles[r] + Cardinality(asked[c])
  BY DEF AcceptorTypeOK
<1>7. nHandles'[r] = Cardinality(boundHandles')
  BY <1>2, <1>3, <1>4, <1>5, <1>6 DEF HandlesInv, InLoop
<1> QED
  BY <1>5, <1>7, LoopsAlone DEF AcceptorStep, InLoop

LEMMA HandlesOfUnregister ==
  ASSUME AcceptorTypeOK, SlotInv, HandlesInv, NEW r \in Acceptors, UnregisterHandles(r)
  PROVE  HandlesInv'
<1> PICK c \in cancelQueue :
     /\ boundHandles' = boundHandles \ (asked[c] \cap boundHandles)
     /\ nHandles' = [nHandles EXCEPT ![r] = @ - Cardinality(asked[c] \cap boundHandles)]
  BY DEF UnregisterHandles
<1>1. IsFiniteSet(boundHandles)
  BY FiniteHandles
<1>2. Cardinality(boundHandles') = Cardinality(boundHandles) - Cardinality(boundHandles \cap (asked[c] \cap boundHandles))
  BY <1>1, FS_Difference
<1>3. boundHandles \cap (asked[c] \cap boundHandles) = asked[c] \cap boundHandles
  OBVIOUS
<1>5. acceptorPc[r] = "unregister" /\ acceptorPc'[r] = "unregister" /\ UNCHANGED <<acceptorRef, newHandles>>
  BY DEF UnregisterHandles, slotVars
<1>6. nHandles'[r] = nHandles[r] - Cardinality(asked[c] \cap boundHandles)
  BY DEF AcceptorTypeOK
<1>7. nHandles'[r] = Cardinality(boundHandles')
  BY <1>2, <1>3, <1>5, <1>6 DEF HandlesInv, InLoop
<1> QED
  BY <1>5, <1>7, LoopsAlone DEF AcceptorStep, InLoop

\* The other steps in the loop open and close nothing.
LEMMA HandlesOfLoop ==
  ASSUME AcceptorTypeOK, SlotInv, HandlesInv, NEW r \in Acceptors,
         \/ StartAcceptor(r) \/ Top(r) \/ RegisterFails(r) \/ RollBack(r) \/ NothingToRegister(r)
         \/ SelectorClosed(r)
         \/ AcceptConnection(r) \/ AcceptFails(r) \/ EndAccept(r) \/ EndUnregister(r)
  PROVE  HandlesInv'
<1>1. InLoop(r) /\ UNCHANGED <<acceptorRef, nHandles, boundHandles>> /\ AcceptorStep(r)
  <2> USE DEF InLoop, slotVars, handleVars, AcceptorStep
  <2>1. CASE StartAcceptor(r) \/ Top(r) \/ RegisterFails(r) \/ RollBack(r) \/ NothingToRegister(r)
    BY <2>1 DEF StartAcceptor, Top, RegisterFails, RollBack, NothingToRegister
  <2>2. CASE \/ SelectorClosed(r) \/ AcceptConnection(r)
             \/ AcceptFails(r) \/ EndAccept(r) \/ EndUnregister(r)
    BY <2>2 DEF SelectorClosed, AcceptConnection, AcceptFails, EndAccept, EndUnregister
  <2> QED
    BY <2>1, <2>2
<1>2. acceptorPc'[r] \notin {"giveUp", "lookRegister", "lookCancel", "reclaim"}
  <2> USE DEF Goes, AcceptorTypeOK
  <2>1. CASE StartAcceptor(r) \/ Top(r) \/ RegisterFails(r) \/ RollBack(r) \/ NothingToRegister(r)
    BY <2>1 DEF StartAcceptor, Top, RegisterFails, RollBack, NothingToRegister
  <2>2. CASE \/ SelectorClosed(r) \/ AcceptConnection(r)
             \/ AcceptFails(r) \/ EndAccept(r) \/ EndUnregister(r)
    BY <2>2 DEF SelectorClosed, AcceptConnection, AcceptFails, EndAccept, EndUnregister
  <2> QED
    BY <2>1, <2>2
<1>3. newHandles' # {} => acceptorPc'[r] = "rollBack" \/ (newHandles' = newHandles /\ acceptorPc[r] # "rollBack")
  <2>1. CASE RegisterFails(r) \/ RollBack(r)
    BY <2>1 DEF RegisterFails, RollBack, Goes, AcceptorTypeOK
  <2>2. CASE StartAcceptor(r) \/ Top(r) \/ NothingToRegister(r)
    BY <2>2 DEF StartAcceptor, Top, NothingToRegister, handleVars
  <2>3. CASE \/ SelectorClosed(r) \/ AcceptConnection(r)
             \/ AcceptFails(r) \/ EndAccept(r) \/ EndUnregister(r)
    BY <2>3 DEF SelectorClosed, AcceptConnection, AcceptFails, EndAccept, EndUnregister, handleVars
  <2> QED
    BY <2>1, <2>2, <2>3
<1> QED
  BY <1>1, <1>2, <1>3, LoopsAlone DEF HandlesInv

LEMMA HandlesOfSelect ==
  ASSUME AcceptorTypeOK, SlotInv, HandlesInv, NEW r \in Acceptors, Select(r) \/ Connects(r)
  PROVE  HandlesInv'
<1>1. /\ acceptorPc[r] = "select"
      /\ acceptorPc'[r] = IF nHandles[r] = 0 THEN "giveUp" ELSE "process"
      /\ UNCHANGED <<acceptorRef, nHandles, boundHandles, newHandles>>
  BY DEF Select, Connects, Selected, Goes, AcceptorTypeOK, slotVars
<1>2. \A s \in Acceptors \ {r} : acceptorPc'[s] = acceptorPc[s]
  BY OthersStay DEF AcceptorStep
<1> QED
  BY <1>1, <1>2 DEF HandlesInv, InLoop

\* Who leaves the slot has counted no address, and who finds it empty again
\* neither.
LEMMA HandlesOfSlot ==
  ASSUME AcceptorTypeOK, SlotInv, HandlesInv, NEW r \in Acceptors,
         \/ GiveSlotUp(r) \/ LookRegister(r) \/ LookCancel(r) \/ ReclaimSlot(r)
         \/ CleanUp(r) \/ DestroySelector(r)
  PROVE  HandlesInv'
<1>0. /\ UNCHANGED <<nHandles, boundHandles, newHandles>>
      /\ \A s \in Acceptors \ {r} : acceptorPc'[s] = acceptorPc[s]
  <2>1. UNCHANGED <<nHandles, boundHandles, newHandles>>
    BY DEF GiveSlotUp, LookRegister, LookCancel, ReclaimSlot, CleanUp, DestroySelector, handleVars
  <2> QED
    BY <2>1, OthersStay DEF AcceptorStep
<1>1. CASE GiveSlotUp(r)
  <2>1. acceptorPc[r] = "giveUp" /\ acceptorPc'[r] = "lookRegister"
    BY <1>1 DEF GiveSlotUp, Goes, AcceptorTypeOK
  <2>2. Cardinality(boundHandles) = 0
    BY <2>1 DEF HandlesInv, InLoop
  <2>3. boundHandles = {}
    BY <2>2, FiniteHandles, FS_EmptySet
  <2> QED
    BY <1>0, <2>1, <2>3 DEF HandlesInv, InLoop
<1>2. CASE LookRegister(r) \/ LookCancel(r) \/ CleanUp(r) \/ DestroySelector(r)
  <2>1. /\ acceptorPc[r] \in {"lookRegister", "lookCancel", "cleanup", "destroy"}
        /\ acceptorPc'[r] \in {"lookCancel", "reclaim"} => acceptorPc[r] \in {"lookRegister", "lookCancel"}
        /\ acceptorPc'[r] \in {"lookCancel", "reclaim", "cleanup", "destroy", "idle"}
        /\ acceptorRef' = acceptorRef
    BY <1>2 DEF LookRegister, LookCancel, CleanUp, DestroySelector, Goes, AcceptorTypeOK, slotVars
  <2> QED
    BY <1>0, <2>1 DEF HandlesInv, InLoop
<1>3. CASE ReclaimSlot(r) /\ acceptorRef = NoAcceptor
  <2>1. acceptorPc[r] = "reclaim" /\ acceptorPc'[r] = "process" /\ acceptorRef' = r
    BY <1>3 DEF ReclaimSlot, Goes, AcceptorTypeOK
  <2>2. boundHandles = {} /\ nHandles[r] = 0
    BY <1>3, <2>1 DEF HandlesInv
  <2> QED
    BY <1>0, <2>1, <2>2, FS_EmptySet, AcceptorAssumption DEF HandlesInv, InLoop
<1>4. CASE ReclaimSlot(r) /\ acceptorRef # NoAcceptor
  <2>1. acceptorPc[r] = "reclaim" /\ acceptorPc'[r] = "cleanup" /\ acceptorRef' = acceptorRef
    BY <1>4 DEF ReclaimSlot, Goes, AcceptorTypeOK
  <2> QED
    BY <1>0, <2>1 DEF HandlesInv, InLoop
<1> QED
  BY <1>1, <1>2, <1>3, <1>4

LEMMA HandlesStep ==
  ASSUME AcceptorTypeOK, SlotInv, HandlesInv, [AcceptorNext]_acceptorVars
  PROVE  HandlesInv'
<1>1. ASSUME UNCHANGED acceptorVars PROVE HandlesInv'
  BY <1>1 DEF HandlesInv, InLoop, acceptorVars, slotVars, handleVars, acceptorSide
<1>2. ASSUME NEW r \in Acceptors, AcceptorStep(r) \/ Connects(r) PROVE HandlesInv'
  BY <1>2, HandlesOfRegister, HandlesOfUnregister, HandlesOfLoop, HandlesOfSelect, HandlesOfSlot DEF AcceptorStep
<1> QED
  BY <1>1, <1>2, HandlesOfCalls DEF AcceptorNext

-----------------------------------------------------------------------------
(* The request of whoever holds bindLock. *)

Starts == {"read", "acquire", "cas", "wake"}

\* What is open once the request is answered, and until then.
Changed(c) == boundHandles =
  IF future[c] # "done" THEN boundAddresses
  ELSE IF c \in Binds THEN boundAddresses \cup asked[c]
  ELSE boundAddresses \ asked[c]

CallInv(c) ==
  /\ callPc[c] \in {"idle", "lock"} => future[c] = "none"
  /\ callPc[c] = "lock" /\ c \in Binds => asked[c] # {}
  /\ callPc[c] = "await" => bindLock = c
  /\ callPc[c] \in Starts /\ asked[c] # {} => bindLock = c

HolderInv(c) ==
  /\ callPc[c] \in Starts \cup {"await"} /\ asked[c] # {}
  /\ c \notin Binds => asked[c] \subseteq boundAddresses
  /\ c \in registerQueue \cup cancelQueue => future[c] = "none"
  /\ Changed(c)

LockInv ==
  /\ registerQueue \cup cancelQueue \subseteq {bindLock}
  /\ bindLock = NoCall => boundAddresses = boundHandles
  /\ \A c \in Calls : CallInv(c) /\ (bindLock = c => HolderInv(c))

LEMMA NotACall == NoCall \notin Calls /\ \A c \in Unbinds \cup Disposals : c \notin Binds
BY AcceptorAssumption DEF Calls

\* Before bindLock is taken, and after it is released.
LEMMA LockOutside ==
  ASSUME AcceptorTypeOK, LockInv, NEW c \in Calls,
         \/ BeginBind(c) \/ BeginUnbind(c) \/ BeginDisposal(c) \/ NothingToUnbind(c)
         \/ FireActivated(c) \/ FireDeactivated(c)
  PROVE  LockInv'
<1>1. /\ UNCHANGED <<bindLock, boundAddresses, queueVars, boundHandles>>
      /\ callPc[c] \in {"idle", "lock", "fire"}
      /\ callPc'[c] = "lock" => callPc[c] = "idle" /\ (c \in Binds => asked'[c] # {})
      /\ callPc'[c] \in Starts => asked'[c] = {}
      /\ callPc'[c] \in Starts \cup {"lock", "done"}
      /\ \A d \in Calls \ {c} : callPc'[d] = callPc[d] /\ asked'[d] = asked[d]
  <2> USE DEF AcceptorTypeOK, Starts, To, AfterUnbind, queueVars, acceptorSide, handleVars
  <2>1. CASE BeginBind(c) \/ BeginUnbind(c)
    <3> PICK A \in (SUBSET Addresses) \ {{}} : asked' = [asked EXCEPT ![c] = A]
      BY <2>1 DEF BeginBind, BeginUnbind
    <3>1. DOMAIN asked = Calls
      OBVIOUS
    <3>2. asked'[c] # {} /\ \A d \in Calls \ {c} : asked'[d] = asked[d]
      BY <3>1
    <3> QED
      BY <2>1, <3>2 DEF BeginBind, BeginUnbind
  <2>2. CASE BeginDisposal(c)
    BY <2>2, NotACall DEF BeginDisposal
  <2>3. CASE NothingToUnbind(c) \/ FireDeactivated(c)
    BY <2>3 DEF NothingToUnbind, FireDeactivated
  <2>4. CASE FireActivated(c)
    BY <2>4 DEF FireActivated
  <2> QED
    BY <2>1, <2>2, <2>3, <2>4
<1>2. bindLock # c
  BY <1>1 DEF LockInv, HolderInv, Starts
<1>3. \A d \in Calls : CallInv(d)'
  BY <1>1 DEF LockInv, CallInv, Starts, queueVars
<1>4. \A d \in Calls : bindLock' = d => HolderInv(d)'
  BY <1>1, <1>2 DEF LockInv, HolderInv, Changed, Starts, queueVars
<1> QED
  BY <1>1, <1>3, <1>4 DEF LockInv, queueVars

\* Taking the lock with a request.
LEMMA LockEntered ==
  ASSUME AcceptorTypeOK, LockInv, NEW c \in Calls, EnterBind(c) \/ EnterUnbind(c)
  PROVE  LockInv'
<1>1. /\ bindLock = NoCall /\ bindLock' = c /\ callPc[c] = "lock" /\ callPc'[c] = "read"
      /\ UNCHANGED <<boundAddresses, boundHandles, future>>
      /\ registerQueue' \cup cancelQueue' = registerQueue \cup cancelQueue \cup {c}
      /\ \A d \in Calls \ {c} : callPc'[d] = callPc[d] /\ asked'[d] = asked[d]
      /\ asked'[c] # {} /\ (c \notin Binds => asked'[c] \subseteq boundAddresses)
  <2>1. CASE EnterBind(c)
    BY <2>1 DEF EnterBind, To, AcceptorTypeOK, acceptorSide, handleVars, LockInv, CallInv
  <2>2. CASE EnterUnbind(c)
    BY <2>2, NotACall DEF EnterUnbind, To, AcceptorTypeOK, acceptorSide, handleVars
  <2> QED
    BY <2>1, <2>2
<1>2. registerQueue \cup cancelQueue = {}
  BY <1>1, NotACall DEF LockInv, AcceptorTypeOK, Calls
<1>3. boundAddresses = boundHandles /\ future[c] = "none"
  BY <1>1 DEF LockInv, CallInv
<1>4. \A d \in Calls : CallInv(d)'
  BY <1>1, NotACall DEF LockInv, CallInv, Starts
<1>5. HolderInv(c)'
  BY <1>1, <1>2, <1>3 DEF HolderInv, Changed, Starts
<1> QED
  BY <1>1, <1>2, <1>4, <1>5, NotACall DEF LockInv

\* On the way to the wakeup(), and with it to the wait.
LEMMA LockStarted ==
  ASSUME AcceptorTypeOK, LockInv, NEW c \in Calls,
         ReadAcceptorRef(c) \/ AcquirePermit(c) \/ FillSlot(c) \/ SlotFilled(c) \/ Wakeup(c)
  PROVE  LockInv'
<1>1. /\ UNCHANGED <<bindLock, boundAddresses, boundHandles, future, asked>>
      /\ registerQueue' \subseteq registerQueue /\ cancelQueue' \subseteq cancelQueue
      /\ callPc[c] \in Starts /\ callPc'[c] \in Starts \cup {"await", "done"}
      /\ callPc'[c] = "await" => asked[c] # {}
      /\ callPc'[c] = "done" => asked[c] = {}
      /\ \A d \in Calls \ {c} : callPc'[d] = callPc[d]
  <2> USE DEF AcceptorTypeOK, Starts, To, queueVars, acceptorSide, handleVars
  <2>1. CASE ReadAcceptorRef(c)
    BY <2>1 DEF ReadAcceptorRef
  <2>2. CASE AcquirePermit(c) \/ SlotFilled(c)
    BY <2>2 DEF AcquirePermit, SlotFilled
  <2>3. CASE FillSlot(c)
    BY <2>3 DEF FillSlot
  <2>4. CASE Wakeup(c)
    BY <2>4 DEF Wakeup
  <2> QED
    BY <2>1, <2>2, <2>3, <2>4
<1>2. \A d \in Calls : CallInv(d)'
  BY <1>1 DEF LockInv, CallInv, Starts
<1>3. \A d \in Calls : bindLock' = d => HolderInv(d)'
  BY <1>1 DEF LockInv, HolderInv, Changed, Starts
<1> QED
  BY <1>1, <1>2, <1>3 DEF LockInv

\* Releasing it: the addresses that are told are those that are open.
LEMMA LockLeft ==
  ASSUME AcceptorTypeOK, LockInv, NEW c \in Calls, EndBind(c) \/ EndUnbind(c)
  PROVE  LockInv'
<1>1. /\ callPc[c] = "await" /\ bindLock' = NoCall /\ UNCHANGED <<queueVars, boundHandles>>
      /\ future[c] # "none"
      /\ callPc'[c] \in Starts \cup {"fire", "done"}
      /\ callPc'[c] \in Starts => asked'[c] = {}
      /\ \A d \in Calls \ {c} : callPc'[d] = callPc[d] /\ asked'[d] = asked[d]
  <2> USE DEF AcceptorTypeOK, Starts, To, AfterUnbind, acceptorSide, handleVars
  <2>1. CASE EndBind(c)
    BY <2>1 DEF EndBind
  <2>2. CASE EndUnbind(c)
    BY <2>2 DEF EndUnbind
  <2> QED
    BY <2>1, <2>2
<1>2. bindLock = c /\ HolderInv(c)
  BY <1>1 DEF LockInv, CallInv
<1>3. registerQueue \cup cancelQueue = {}
  BY <1>1, <1>2 DEF LockInv, HolderInv
<1>4. boundAddresses' = boundHandles
  <2>1. CASE EndBind(c)
    BY <1>2, <2>1 DEF EndBind, HolderInv, Changed, AcceptorTypeOK
  <2>2. CASE EndUnbind(c)
    BY <1>2, <2>2 DEF EndUnbind, HolderInv, Changed
  <2> QED
    BY <2>1, <2>2
<1>5. \A d \in Calls : CallInv(d)'
  BY <1>1, <1>2 DEF LockInv, CallInv, Starts, queueVars
<1> QED
  BY <1>1, <1>3, <1>4, <1>5, NotACall DEF LockInv, queueVars

\* An Acceptor answers a request it takes from its queue.
LEMMA LockAnswered ==
  ASSUME AcceptorTypeOK, LockInv, NEW r \in Acceptors,
         RegisterHandles(r) \/ RegisterFails(r) \/ UnregisterHandles(r)
  PROVE  LockInv'
<1>1. PICK c \in registerQueue \cup cancelQueue, answer \in {"done", "failed"} :
        /\ future' = [future EXCEPT ![c] = answer]
        /\ registerQueue' = registerQueue \ {c} /\ cancelQueue' = cancelQueue \ {c}
        /\ boundHandles' = IF answer = "failed" THEN boundHandles
             ELSE IF c \in Binds THEN boundHandles \cup asked[c] ELSE boundHandles \ asked[c]
  <2>1. CASE RegisterFails(r)
    <3> PICK c \in registerQueue :
          registerQueue' = registerQueue \ {c} /\ future' = [future EXCEPT ![c] = "failed"]
      BY <2>1 DEF RegisterFails
    <3>1. boundHandles' = boundHandles /\ cancelQueue' = cancelQueue \ {c}
      BY <2>1 DEF RegisterFails, AcceptorTypeOK
    <3> QED
      BY <3>1
  <2>2. CASE RegisterHandles(r)
    <3> PICK c \in registerQueue :
          /\ registerQueue' = registerQueue \ {c} /\ future' = [future EXCEPT ![c] = "done"]
          /\ boundHandles' = boundHandles \cup asked[c]
      BY <2>2 DEF RegisterHandles
    <3>1. c \in Binds /\ cancelQueue' = cancelQueue \ {c}
      BY <2>2 DEF RegisterHandles, AcceptorTypeOK
    <3> QED
      BY <3>1
  <2>3. CASE UnregisterHandles(r)
    <3> PICK c \in cancelQueue :
          /\ cancelQueue' = cancelQueue \ {c} /\ future' = [future EXCEPT ![c] = "done"]
          /\ boundHandles' = boundHandles \ (asked[c] \cap boundHandles)
      BY <2>3 DEF UnregisterHandles
    <3>1. c \notin Binds /\ registerQueue' = registerQueue \ {c}
      BY <2>3 DEF UnregisterHandles, AcceptorTypeOK
    <3>2. boundHandles' = boundHandles \ asked[c]
      OBVIOUS
    <3> QED
      BY <3>1, <3>2
  <2> QED
    BY <2>1, <2>2, <2>3
<1>2. c \in Calls /\ bindLock = c
  BY DEF LockInv, AcceptorTypeOK, Calls
<1>3. HolderInv(c) /\ future[c] = "none"
  BY <1>2 DEF LockInv, HolderInv
<1>4. UNCHANGED callVars
  BY OthersStay DEF AcceptorStep
<1>5. \A d \in Calls : CallInv(d)'
  BY <1>1, <1>2, <1>3, <1>4 DEF LockInv, CallInv, HolderInv, Starts, callVars, AcceptorTypeOK
<1>6. HolderInv(c)'
  BY <1>1, <1>2, <1>3, <1>4 DEF HolderInv, Changed, callVars, AcceptorTypeOK
<1> QED
  BY <1>1, <1>2, <1>4, <1>5, <1>6, NotACall DEF LockInv, callVars

\* The other steps of the Acceptors are not about requests.
LEMMA AcceptorLeaves ==
  ASSUME NEW r \in Acceptors, AcceptorStep(r) \/ Connects(r)
  PROVE  \/ RegisterHandles(r) \/ RegisterFails(r) \/ UnregisterHandles(r)
         \/ UNCHANGED <<queueVars, boundHandles>>
<1> USE DEF handleVars
<1>1. CASE StartAcceptor(r) \/ Top(r) \/ RollBack(r) \/ NothingToRegister(r)
  BY <1>1 DEF StartAcceptor, Top, RollBack, NothingToRegister
<1>2. CASE Select(r) \/ Connects(r) \/ SelectorClosed(r)
  BY <1>2 DEF Select, Connects, Selected, SelectorClosed
<1>3. CASE GiveSlotUp(r) \/ LookRegister(r) \/ LookCancel(r) \/ ReclaimSlot(r)
  BY <1>3 DEF GiveSlotUp, LookRegister, LookCancel, ReclaimSlot
<1>4. CASE AcceptConnection(r) \/ AcceptFails(r) \/ EndAccept(r) \/ EndUnregister(r)
  BY <1>4 DEF AcceptConnection, AcceptFails, EndAccept, EndUnregister
<1>5. CASE CleanUp(r) \/ DestroySelector(r)
  BY <1>5 DEF CleanUp, DestroySelector
<1> QED
  BY <1>1, <1>2, <1>3, <1>4, <1>5 DEF AcceptorStep

LEMMA LockUndisturbed ==
  ASSUME LockInv, UNCHANGED <<callVars, queueVars, boundHandles>>
  PROVE  LockInv'
BY DEF LockInv, CallInv, HolderInv, Changed, callVars, queueVars

LEMMA LockStep ==
  ASSUME AcceptorTypeOK, LockInv, [AcceptorNext]_acceptorVars
  PROVE  LockInv'
<1>1. ASSUME UNCHANGED acceptorVars PROVE LockInv'
  BY <1>1, LockUndisturbed DEF acceptorVars, acceptorSide, handleVars
<1>2. ASSUME NEW c \in Calls, BeginBind(c) \/ BeginUnbind(c) \/ BeginDisposal(c) \/ CallStep(c) PROVE LockInv'
  BY <1>2, LockOutside, LockEntered, LockStarted, LockLeft DEF CallStep
<1>3. ASSUME NEW r \in Acceptors, AcceptorStep(r) \/ Connects(r) PROVE LockInv'
  BY <1>3, AcceptorLeaves, LockAnswered, LockUndisturbed, OthersStay
<1> QED
  BY <1>1, <1>2, <1>3 DEF AcceptorNext

LEMMA InvInit == AcceptorInit => SlotInv /\ HandlesInv /\ LockInv
<1>1. AcceptorInit => SlotInv
  BY AcceptorAssumption DEF AcceptorInit, SlotInv, AcceptorSlotOwner, InLoop, SlotGiven
<1>2. AcceptorInit => HandlesInv
  BY DEF AcceptorInit, HandlesInv, InLoop
<1>3. AcceptorInit => LockInv
  BY NotACall DEF AcceptorInit, LockInv, CallInv, Starts
<1> QED
  BY <1>1, <1>2, <1>3

\* nHandles is the number of open addresses, an empty slot has none, and
\* between calls the addresses that are told are those that are open: what a
\* bind() that fails has opened is closed, and an unbind() closes what it drops.
THEOREM BoundTruthfullyCorrect == AcceptorSpec => []BoundTruthfully
<1>1. AcceptorInit => SlotInv /\ HandlesInv /\ LockInv
  BY InvInit
<1>4. AcceptorTypeOK /\ SlotInv /\ HandlesInv /\ LockInv /\ [AcceptorNext]_acceptorVars
      => SlotInv' /\ HandlesInv' /\ LockInv'
  BY SlotStep, HandlesStep, LockStep
<1>5. HandlesInv /\ LockInv => BoundTruthfully
  BY DEF HandlesInv, LockInv, BoundTruthfully
<1> QED
  BY <1>1, <1>4, <1>5, AcceptorTypeCorrect, PTL DEF AcceptorSpec

-----------------------------------------------------------------------------
(* Going to sleep. *)

SleepInv == ~woken /\ ~skipped => \A r \in Acceptors :
  /\ acceptorPc[r] \in {"submitted", "top", "register", "rollBack", "select"} =>
       \A c \in cancelQueue : callPc[c] # "await"
  /\ acceptorPc[r] = "select" => \A c \in registerQueue : callPc[c] # "await"

\* Nobody unbinds while the slot is empty: nothing is bound then.
LEMMA NothingToCancel ==
  ASSUME AcceptorTypeOK, HandlesInv, LockInv, acceptorRef = NoAcceptor
  PROVE  cancelQueue = {}
<1> SUFFICES ASSUME NEW c \in cancelQueue PROVE FALSE
  OBVIOUS
<1>1. c \in Calls /\ c \notin Binds /\ bindLock = c
  BY DEF AcceptorTypeOK, LockInv
<1>2. HolderInv(c)
  BY <1>1 DEF LockInv
<1>3. asked[c] # {} /\ asked[c] \subseteq boundHandles
  BY <1>1, <1>2 DEF HolderInv, Changed
<1> QED
  BY <1>3 DEF HandlesInv

LEMMA SleepOfCalls ==
  ASSUME AcceptorTypeOK, SlotInv, HandlesInv, LockInv, SleepInv, NEW c \in Calls,
         BeginBind(c) \/ BeginUnbind(c) \/ BeginDisposal(c) \/ CallStep(c)
  PROVE  SleepInv'
<1>1. CASE Wakeup(c)
  BY <1>1 DEF Wakeup, SleepInv
<1>2. CASE FillSlot(c)
  <2>1. PICK r \in Acceptors :
          /\ acceptorPc'[r] = "submitted"
          /\ \A s \in Acceptors \ {r} : acceptorPc'[s] = acceptorPc[s]
    BY <1>2, Fills
  <2>2. \A s \in Acceptors : ~InLoop(s)
    BY <1>2, Fills, AcceptorAssumption DEF SlotInv, AcceptorSlotOwner
  <2>3. cancelQueue' = {}
    BY <1>2, Fills, NothingToCancel DEF FillSlot, queueVars
  <2> QED
    BY <2>1, <2>2, <2>3 DEF SleepInv, InLoop
<1>3. CASE ~Wakeup(c) /\ ~FillSlot(c)
  <2>1. UNCHANGED <<acceptorPc, skipped>>
    BY <1>3, CallMoves
  <2>2. /\ callPc'[c] # "await" /\ UNCHANGED woken
        /\ \A d \in Calls \ {c} : callPc'[d] = callPc[d]
        /\ registerQueue' \subseteq registerQueue \cup {c} /\ cancelQueue' \subseteq cancelQueue \cup {c}
    <3> USE DEF AcceptorTypeOK, To, AfterUnbind, queueVars, acceptorSide, selectorVars
    <3>1. CASE BeginBind(c) \/ BeginUnbind(c) \/ BeginDisposal(c)
      BY <3>1 DEF BeginBind, BeginUnbind, BeginDisposal
    <3>2. CASE EnterBind(c) \/ EnterUnbind(c) \/ NothingToUnbind(c)
      BY <3>2 DEF EnterBind, EnterUnbind, NothingToUnbind
    <3>3. CASE ReadAcceptorRef(c) \/ AcquirePermit(c) \/ SlotFilled(c)
      BY <3>3 DEF ReadAcceptorRef, AcquirePermit, SlotFilled
    <3>4. CASE EndBind(c) \/ FireActivated(c) \/ EndUnbind(c) \/ FireDeactivated(c)
      BY <3>4 DEF EndBind, FireActivated, EndUnbind, FireDeactivated
    <3> QED
      BY <1>3, <3>1, <3>2, <3>3, <3>4 DEF CallStep
  <2>3. registerQueue \cup cancelQueue \subseteq Calls
    BY DEF AcceptorTypeOK, Calls
  <2> QED
    BY <2>1, <2>2, <2>3 DEF SleepInv
<1> QED
  BY <1>1, <1>2, <1>3

\* The one that loops is alone to go to sleep.
LEMMA SleepsAlone ==
  ASSUME AcceptorTypeOK, SlotInv, NEW r \in Acceptors, InLoop(r), AcceptorStep(r) \/ Connects(r),
         ~woken' /\ ~skipped' =>
           /\ acceptorPc'[r] \in {"submitted", "top", "register", "rollBack", "select"} =>
                \A c \in cancelQueue' : callPc[c] # "await"
           /\ acceptorPc'[r] = "select" => \A c \in registerQueue' : callPc[c] # "await"
  PROVE  SleepInv'
<1>1. \A s \in Acceptors \ {r} : ~InLoop(s)
  BY DEF SlotInv, AcceptorSlotOwner
<1>2. callPc' = callPc /\ \A s \in Acceptors \ {r} : acceptorPc'[s] = acceptorPc[s]
  BY OthersStay DEF callVars
<1> QED
  BY <1>1, <1>2 DEF SleepInv, InLoop

\* A pass ends with an empty cancelQueue, and the requests that are
\* registered before select() leave no other.
LEMMA SleepOfLoop ==
  ASSUME AcceptorTypeOK, SlotInv, LockInv, SleepInv, NEW r \in Acceptors, InLoop(r),
         AcceptorStep(r) \/ Connects(r)
  PROVE  SleepInv'
<1> USE SleepsAlone DEF AcceptorTypeOK, SleepInv, Goes
<1>1. CASE StartAcceptor(r) \/ Top(r)
  BY <1>1 DEF StartAcceptor, Top, queueVars, selectorVars
<1>2. CASE NothingToRegister(r)
  BY <1>2 DEF NothingToRegister, queueVars, selectorVars
<1>3. CASE RegisterHandles(r)
  <2>1. PICK c \in registerQueue : registerQueue' = registerQueue \ {c} /\ cancelQueue' = cancelQueue
    BY <1>3 DEF RegisterHandles
  <2>2. registerQueue' = {} /\ cancelQueue' = {}
    BY <2>1 DEF LockInv
  <2> QED
    BY <2>2
<1>4. CASE RegisterFails(r)
  BY <1>4 DEF RegisterFails, selectorVars
<1>5. CASE RollBack(r) \/ AcceptFails(r)
  BY <1>5 DEF RollBack, AcceptFails
<1>6. CASE Select(r) \/ Connects(r) \/ SelectorClosed(r) \/ GiveSlotUp(r) \/ EndAccept(r)
  <2>1. acceptorPc'[r] \notin {"submitted", "top", "register", "rollBack", "select"}
    BY <1>6 DEF Select, Connects, Selected, SelectorClosed, GiveSlotUp, EndAccept
  <2> QED
    BY <2>1
<1>7. CASE AcceptConnection(r) \/ UnregisterHandles(r)
  <2>1. acceptorPc'[r] \in {"process", "unregister"}
    BY <1>7 DEF AcceptConnection, UnregisterHandles
  <2> QED
    BY <2>1
<1>8. CASE EndUnregister(r)
  BY <1>8 DEF EndUnregister, queueVars
<1> QED
  BY <1>1, <1>2, <1>3, <1>4, <1>5, <1>6, <1>7, <1>8
  DEF AcceptorStep, InLoop, LookRegister, LookCancel, ReclaimSlot, CleanUp, DestroySelector

LEMMA SleepOfLeavers ==
  ASSUME AcceptorTypeOK, SleepInv, NEW r \in Acceptors, ~InLoop(r), AcceptorStep(r) \/ Connects(r)
  PROVE  SleepInv'
<1>1. LookRegister(r) \/ LookCancel(r) \/ ReclaimSlot(r) \/ CleanUp(r) \/ DestroySelector(r)
  BY DEF AcceptorStep, InLoop, StartAcceptor, Top, RegisterHandles, RegisterFails, RollBack, NothingToRegister,
         Select, Connects, Selected, SelectorClosed, GiveSlotUp, AcceptConnection, AcceptFails, EndAccept,
         UnregisterHandles, EndUnregister
<1>2. /\ UNCHANGED <<registerQueue, cancelQueue, woken, skipped>>
      /\ acceptorPc'[r] \notin {"submitted", "top", "register", "rollBack", "select"}
  BY <1>1 DEF LookRegister, LookCancel, ReclaimSlot, CleanUp, DestroySelector, Goes, AcceptorTypeOK,
              queueVars, selectorVars
<1>3. callPc' = callPc /\ \A s \in Acceptors \ {r} : acceptorPc'[s] = acceptorPc[s]
  BY OthersStay DEF callVars
<1> QED
  BY <1>2, <1>3 DEF SleepInv

LEMMA SleepStep ==
  ASSUME AcceptorTypeOK, SlotInv, HandlesInv, LockInv, SleepInv, [AcceptorNext]_acceptorVars
  PROVE  SleepInv'
<1>1. ASSUME UNCHANGED acceptorVars PROVE SleepInv'
  BY <1>1 DEF SleepInv, acceptorVars, callVars, queueVars, selectorVars, acceptorSide
<1> QED
  BY <1>1, SleepOfCalls, SleepOfLoop, SleepOfLeavers DEF AcceptorNext

\* Whoever has queued a request has still to call wakeup() when the Acceptor
\* goes to sleep, unless an exception has cut the pass short.
THEOREM SleepsOnlyIdleCorrect == AcceptorSpec => []SleepsOnlyIdle
<1> DEFINE AllInv == SlotInv /\ HandlesInv /\ LockInv /\ SleepInv
<1>1. AcceptorInit => AllInv
  BY InvInit DEF AcceptorInit, SleepInv
<1>2. AcceptorTypeOK /\ AllInv /\ [AcceptorNext]_acceptorVars => AllInv'
  BY SlotStep, HandlesStep, LockStep, SleepStep
<1>3. AcceptorTypeOK /\ AllInv => SleepsOnlyIdle
  <2> SUFFICES ASSUME AcceptorTypeOK, LockInv, SleepInv,
                      NEW r \in Acceptors, acceptorPc[r] = "select", ~woken, ~skipped,
                      NEW c \in registerQueue \cup cancelQueue
               PROVE  callPc[c] \in Starts
    BY DEF SleepsOnlyIdle, Starts
  <2>1. c \in Calls /\ bindLock = c
    BY DEF AcceptorTypeOK, LockInv, Calls
  <2>2. HolderInv(c)
    BY <2>1 DEF LockInv
  <2>3. callPc[c] # "await"
    BY DEF SleepInv
  <2> QED
    BY <2>2, <2>3 DEF HolderInv
<1> QED
  BY <1>1, <1>2, <1>3, AcceptorTypeCorrect, PTL DEF AcceptorSpec

=============================================================================
