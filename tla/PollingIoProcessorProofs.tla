------------------------ MODULE PollingIoProcessorProofs -----------------------
(***************************************************************************)
(* Theorems about PollingIoProcessor, for any sets of sessions and         *)
(* runnables: type correctness, exclusive use of the processor slot, and   *)
(* that no session is stranded when a Processor gives up its slot.         *)
(***************************************************************************)
EXTENDS PollingIoProcessor, FiniteSetTheorems, TLAPS

-----------------------------------------------------------------------------
LEMMA TypeInit == Init => TypeOK
<1> SUFFICES ASSUME Init PROVE TypeOK
  OBVIOUS
<1>1. callPc \in [Call -> CallPc] /\ pc \in [Runner -> RunnerPc]
  BY DEF Init, CallPc, RunnerPc
<1>2. /\ nSessions \in [Runner -> Int] /\ removingSessions \in [Session -> Nat]
      /\ life \in [Session -> {"init", "opened", "destroyed"}]
      /\ closing \in [Session -> BOOLEAN]
  BY DEF Init
<1> QED
  BY <1>1, <1>2 DEF Init, TypeOK

\* Every step keeps every variable in its range.
LEMMA TypeStep == ASSUME TypeOK, [Next]_vars PROVE TypeOK'
<1> USE DEF TypeOK
<1>1. ASSUME NEW s \in Session, BeginAdd(s) \/ EnqueueAdd(s) PROVE TypeOK'
  BY <1>1 DEF BeginAdd, EnqueueAdd, CallStep, Call, CallPc, loopVars, queueVars, sessionVars, disposalVars
<1>2. ASSUME NEW s \in Session, BeginClose(s) PROVE TypeOK'
  BY <1>2 DEF BeginClose, CallStep, Call, CallPc, loopVars, queueVars, disposalVars
<1>3. ASSUME NEW s \in Session, EnqueueRemove(s) PROVE TypeOK'
  BY <1>3 DEF EnqueueRemove, ScheduleRemove, CallStep, Call, CallPc, loopVars, sessionVars, disposalVars
<1>4. CASE BeginDispose
  BY <1>4 DEF BeginDispose, CallStep, Call, CallPc, DisposeCall, loopVars, queueVars, sessionVars, disposalVars
<1>5. CASE LeaveLock \/ EndDispose
  BY <1>5 DEF LeaveLock, EndDispose, CallStep, Call, CallPc, DisposeCall, loopVars, queueVars, sessionVars
<1>6. ASSUME NEW c \in Call, ReadRef(c) PROVE TypeOK'
  BY <1>6 DEF ReadRef, CallStep, CallPc, loopVars, queueVars, sessionVars, disposalVars
<1>7. ASSUME NEW c \in Call, CasRef(c) PROVE TypeOK'
  BY <1>7 DEF CasRef, CallStep, CallPc, RunnerPc, OwnerPhase, queueVars, sessionVars, disposalVars
<1>8. ASSUME NEW r \in Runner, LoopStep(r) PROVE TypeOK'
  <2> USE DEF RunStep, RunnerPc, OwnerPhase, ExitPhase, clientVars
  <2>1. CASE Start(r)
    BY <2>1 DEF Start, queueVars, sessionVars, disposalVars
  <2>2. CASE Select(r)
    BY <2>2 DEF Select, queueVars, disposalVars
  <2>3. CASE SelectClosed(r) \/ EndHandleNew(r) \/ EndProcess(r) \/ EndRemove(r)
    BY <2>3 DEF SelectClosed, EndHandleNew, EndProcess, EndRemove, queueVars, sessionVars, disposalVars
  <2>4. ASSUME NEW s \in Session, AddNow(r, s) PROVE TypeOK'
    BY <2>4 DEF AddNow, disposalVars
  <2>5. ASSUME NEW s \in Session, AddNowFails(r, s) PROVE TypeOK'
    BY <2>5 DEF AddNowFails, disposalVars
  <2>6. ASSUME NEW s \in Session, RemoveSession(r, s) PROVE TypeOK'
    BY <2>6 DEF RemoveSession, RemoveNow, disposalVars
  <2>7. CASE GiveUp(r) \/ GoOn(r) \/ CheckNew(r) \/ CheckKeys(r)
    BY <2>7 DEF GiveUp, GoOn, CheckNew, CheckKeys, queueVars, sessionVars, disposalVars
  <2>8. CASE Reclaim(r)
    BY <2>8 DEF Reclaim, queueVars, sessionVars, disposalVars
  <2>9. CASE Scan(r)
    BY <2>9 DEF Scan, ScheduleRemove, sessionVars, disposalVars
  <2>10. CASE Exit(r) \/ Signal(r)
    BY <2>10 DEF Exit, Signal, queueVars, sessionVars
  <2> QED
    BY <1>8, <2>1, <2>2, <2>3, <2>4, <2>5, <2>6, <2>7, <2>8, <2>9, <2>10 DEF LoopStep
<1>9. ASSUME NEW r \in Runner, PeerStep(r) PROVE TypeOK'
  <2> USE DEF clientVars, loopVars, disposalVars, ScheduleRemove
  <2>1. ASSUME NEW s \in Session, ReadFails(r, s) PROVE TypeOK'
    BY <2>1 DEF ReadFails, sessionVars
  <2>2. ASSUME NEW s \in Session, ClosedByHandler(r, s) PROVE TypeOK'
    BY <2>2 DEF ClosedByHandler
  <2>3. ASSUME NEW s \in Session, WriteFails(r, s) PROVE TypeOK'
    <3>1. closing' \in [Session -> BOOLEAN] /\ removingSessions' \in [Session -> Nat]
      <4>1. CASE UNCHANGED <<closing, removingSessions>>
        BY <4>1
      <4>2. CASE closing' = [closing EXCEPT ![s] = TRUE] /\ ScheduleRemove({s})
        BY <4>2
      <4> QED
        BY <2>3, <4>1, <4>2 DEF WriteFails
    <3>2. /\ life' \in [Session -> {"init", "opened", "destroyed"}]
          /\ managed' \subseteq Session /\ closed' \subseteq Session
      BY <2>3 DEF WriteFails, RemoveNow
    <3> QED
      BY <2>3, <3>1, <3>2 DEF WriteFails
  <2> QED
    BY <1>9, <2>1, <2>2, <2>3 DEF PeerStep
<1>10. CASE UNCHANGED vars
  BY <1>10 DEF vars, queueVars, sessionVars, disposalVars
<1> QED
  BY <1>1, <1>2, <1>3, <1>4, <1>5, <1>6, <1>7, <1>8, <1>9, <1>10 DEF Next, ClientStep, Startup

\* In every reachable state every variable has a value of its type; in
\* particular removingSessions never counts below zero.
THEOREM TypeCorrect == Spec => []TypeOK
BY TypeInit, TypeStep, PTL DEF Spec

-----------------------------------------------------------------------------
\* Client calls leave the runnables alone, except that a compareAndSet on the
\* empty slot submits one.
LEMMA ClientRunners ==
  ASSUME TypeOK, ClientStep
  PROVE  /\ selectorClosed' = selectorClosed
         /\ \/ UNCHANGED <<pc, processorRef>>
            \/ \E r \in Runner : /\ processorRef = NoRunner /\ pc[r] = "idle"
                               /\ processorRef' = r
                               /\ pc' = [pc EXCEPT ![r] = "submitted"]
<1>1. ASSUME NEW s \in Session,
             BeginAdd(s) \/ EnqueueAdd(s) \/ BeginClose(s) \/ EnqueueRemove(s)
      PROVE  UNCHANGED <<selectorClosed, pc, processorRef>>
  BY <1>1 DEF BeginAdd, EnqueueAdd, BeginClose, EnqueueRemove, loopVars, disposalVars
<1>2. ASSUME BeginDispose \/ LeaveLock \/ EndDispose
      PROVE  UNCHANGED <<selectorClosed, pc, processorRef>>
  BY <1>2 DEF BeginDispose, LeaveLock, EndDispose, loopVars
<1>3. ASSUME NEW c \in Call, ReadRef(c)
      PROVE  UNCHANGED <<selectorClosed, pc, processorRef>>
  BY <1>3 DEF ReadRef, loopVars, disposalVars
<1>4. ASSUME NEW c \in Call, CasRef(c)
      PROVE  /\ selectorClosed' = selectorClosed
             /\ \/ UNCHANGED <<pc, processorRef>>
                \/ \E r \in Runner : /\ processorRef = NoRunner /\ pc[r] = "idle"
                                   /\ processorRef' = r
                                   /\ pc' = [pc EXCEPT ![r] = "submitted"]
  BY <1>4 DEF CasRef, disposalVars
<1> QED
  BY <1>1, <1>2, <1>3, <1>4 DEF ClientStep, Startup

\* What the events of the peers and handlers leave alone.
LEMMA PeerRunners ==
  ASSUME TypeOK, NEW r \in Runner, PeerStep(r)
  PROVE  /\ pc[r] = "process"
         /\ UNCHANGED <<callPc, pc, processorRef, newSessions, keys, selectorClosed>>
         /\ \A s \in Session : life'[s] = "opened" => life[s] = "opened"
<1>1. ASSUME NEW s \in Session, ReadFails(r, s) \/ ClosedByHandler(r, s)
      PROVE  /\ pc[r] = "process"
             /\ UNCHANGED <<callPc, pc, processorRef, newSessions, keys, selectorClosed, life>>
  BY <1>1 DEF ReadFails, ClosedByHandler, clientVars, loopVars, sessionVars, disposalVars
<1>2. ASSUME NEW s \in Session, WriteFails(r, s)
      PROVE  /\ pc[r] = "process"
             /\ UNCHANGED <<callPc, pc, processorRef, newSessions, keys, selectorClosed>>
             /\ \A t \in Session : life'[t] = "opened" => life[t] = "opened"
  BY <1>2 DEF WriteFails, RemoveNow, clientVars, loopVars, disposalVars, TypeOK
<1> QED
  BY <1>1, <1>2 DEF PeerStep

-----------------------------------------------------------------------------
\* How a runnable moves: it gives the slot up, takes it back or finds it
\* taken, checks for work, leaves, is thrown out by a closed selector, or works
\* as the owner, which never loses an open session from the key set.
LoopMove(r) ==
  LET to == pc'[r] IN
  /\ callPc' = callPc
  /\ selectorClosed => selectorClosed'
  /\ pc' = [pc EXCEPT ![r] = to]
  /\ \/ /\ pc[r] = "check" /\ to = "checkNew" /\ processorRef' = NoRunner
        /\ UNCHANGED <<newSessions, keys, life>>
     \/ /\ pc[r] = "reclaim" /\ to = "scan"
        /\ processorRef = NoRunner /\ processorRef' = r
        /\ UNCHANGED <<newSessions, keys, life>>
     \/ /\ pc[r] = "reclaim" /\ to = "exit" /\ processorRef # NoRunner
        /\ UNCHANGED <<processorRef, newSessions, keys, life>>
     \/ /\ pc[r] = "checkNew" /\ to = IF newSessions = {} THEN "checkKeys" ELSE "reclaim"
        /\ UNCHANGED <<processorRef, newSessions, keys, life>>
     \/ /\ pc[r] = "checkKeys" /\ to = IF keys = {} THEN "exit" ELSE "reclaim"
        /\ UNCHANGED <<processorRef, newSessions, keys, life>>
     \/ /\ pc[r] \in {"exit", "signal"} /\ to \in {"signal", "idle"}
        /\ selectorClosed' \/ keys' = keys
        /\ UNCHANGED <<processorRef, newSessions, life>>
     \/ /\ pc[r] = "select" /\ to = "exit" /\ selectorClosed
        /\ UNCHANGED <<processorRef, newSessions, keys, life>>
     \/ /\ pc[r] \in OwnerPhase /\ to \in OwnerPhase
        /\ UNCHANGED processorRef
        /\ \A s \in Session : life'[s] = "opened" => (life[s] = "opened" /\ (s \in keys => s \in keys')) \/ s \in keys'

LEMMA LoopMoves ==
  ASSUME TypeOK, NEW r \in Runner, LoopStep(r)
  PROVE  LoopMove(r)
<1> USE DEF TypeOK, RunStep, RunnerPc, OwnerPhase, clientVars, queueVars, sessionVars, disposalVars, LoopMove
<1>1. CASE Start(r)
  BY <1>1 DEF Start
<1>2. CASE Select(r)
  BY <1>2 DEF Select
<1>3. CASE SelectClosed(r)
  BY <1>3 DEF SelectClosed
<1>4. ASSUME NEW s \in Session, AddNow(r, s) PROVE LoopMove(r)
  BY <1>4 DEF AddNow
<1>5. ASSUME NEW s \in Session, AddNowFails(r, s) PROVE LoopMove(r)
  BY <1>5 DEF AddNowFails
<1>6. ASSUME NEW s \in Session, RemoveSession(r, s) PROVE LoopMove(r)
  BY <1>6 DEF RemoveSession, RemoveNow
<1>7. CASE EndHandleNew(r) \/ EndProcess(r) \/ EndRemove(r) \/ GoOn(r)
  BY <1>7 DEF EndHandleNew, EndProcess, EndRemove, GoOn
<1>8. CASE GiveUp(r)
  BY <1>8 DEF GiveUp
<1>9. CASE CheckNew(r)
  BY <1>9 DEF CheckNew
<1>10. CASE CheckKeys(r)
  BY <1>10 DEF CheckKeys
<1>11. CASE Reclaim(r)
  BY <1>11 DEF Reclaim
<1>12. CASE Scan(r)
  BY <1>12 DEF Scan
<1>13. CASE Exit(r) \/ Signal(r)
  BY <1>13 DEF Exit, Signal
<1> QED
  BY <1>1, <1>2, <1>3, <1>4, <1>5, <1>6, <1>7, <1>8, <1>9, <1>10, <1>11, <1>12, <1>13 DEF LoopStep

-----------------------------------------------------------------------------
(* The slot *)

LEMMA SlotStep == ASSUME TypeOK, SlotOwner, [Next]_vars PROVE SlotOwner'
<1> USE DEF TypeOK, SlotOwner, OwnerPhase, ExitPhase, RunnerPc
<1>1. CASE ClientStep
  BY <1>1, ClientRunners, ProcessorAssumption
<1>2. ASSUME NEW r \in Runner, LoopStep(r) PROVE SlotOwner'
  BY <1>2, LoopMoves, ProcessorAssumption DEF LoopMove
<1>3. ASSUME NEW r \in Runner, PeerStep(r) PROVE SlotOwner'
  BY <1>3, PeerRunners
<1>4. CASE UNCHANGED vars
  BY <1>4 DEF vars
<1> QED
  BY <1>1, <1>2, <1>3, <1>4 DEF Next

\* Only the Processor in processorRef is in its loop, and one that is leaving
\* is not in processorRef: at most one thread works on the selector and polls
\* the queues, and the assertions of Processor::run() never fail.
THEOREM SlotOwnerCorrect == Spec => []SlotOwner
<1>1. Init => SlotOwner
  BY DEF Init, SlotOwner, OwnerPhase, ExitPhase
<1> QED
  BY <1>1, SlotStep, TypeCorrect, PTL DEF Spec

LEMMA LiveSlotStep ==
  ASSUME TypeOK, SlotOwner, LiveSlot, [Next]_vars PROVE LiveSlot'
<1> USE DEF TypeOK, LiveSlot, OwnerPhase, ExitPhase, RunnerPc
<1>1. CASE ClientStep
  BY <1>1, ClientRunners, ProcessorAssumption
<1>2. ASSUME NEW r \in Runner, LoopStep(r) PROVE LiveSlot'
  BY <1>2, LoopMoves, ProcessorAssumption DEF LoopMove, SlotOwner
<1>3. ASSUME NEW r \in Runner, PeerStep(r) PROVE LiveSlot'
  BY <1>3, PeerRunners
<1>4. CASE UNCHANGED vars
  BY <1>4 DEF vars, disposalVars
<1> QED
  BY <1>1, <1>2, <1>3, <1>4 DEF Next

\* While the selector is open, a Processor found in processorRef is running
\* (or submitted to the executor), so startupProcessor() may rely on it.
THEOREM LiveSlotCorrect == Spec => []LiveSlot
<1>1. Init => LiveSlot
  BY DEF Init, LiveSlot
<1> QED
  BY <1>1, LiveSlotStep, SlotOwnerCorrect, TypeCorrect, PTL DEF Spec

-----------------------------------------------------------------------------
(* No session is stranded *)

\* An open session is in the key set until the selector is closed, so the
\* look at the key set in the exit protocol does find it.
OpenInKeys ==
  ~selectorClosed => \A s \in Session : life[s] = "opened" => s \in keys

LEMMA OpenInKeysStep ==
  ASSUME TypeOK, OpenInKeys, [Next]_vars PROVE OpenInKeys'
<1> USE DEF OpenInKeys
<1>1. CASE ClientStep
  <2>1. UNCHANGED <<life, keys>>
    BY <1>1 DEF ClientStep, Startup, BeginAdd, EnqueueAdd, BeginClose, EnqueueRemove, BeginDispose,
                LeaveLock, EndDispose, ReadRef, CasRef, sessionVars
  <2> QED
    BY <1>1, <2>1, ClientRunners
<1>2. ASSUME NEW r \in Runner, LoopStep(r) PROVE OpenInKeys'
  BY <1>2, LoopMoves DEF LoopMove
<1>3. ASSUME NEW r \in Runner, PeerStep(r) PROVE OpenInKeys'
  BY <1>3, PeerRunners
<1>4. CASE UNCHANGED vars
  BY <1>4 DEF vars, sessionVars, disposalVars
<1> QED
  BY <1>1, <1>2, <1>3, <1>4 DEF Next

\* How a client's step bears on who will run the loop.
LEMMA ClientKeepsRunnerComing ==
  ASSUME TypeOK, LiveSlot, ClientStep, ~selectorClosed,
         newSessions' # newSessions \/ RunnerComes
  PROVE  RunnerComes'
<1> USE DEF TypeOK, RunnerComes
<1>1. ASSUME NEW c \in Call, callPc'[c] \in {"readRef", "cas"} PROVE RunnerComes'
  BY <1>1
<1>2. ASSUME NEW r \in Runner, pc'[r] \in OwnerPhase PROVE RunnerComes'
  BY <1>2
<1>3. ASSUME NEW s \in Session, EnqueueAdd(s) PROVE RunnerComes'
  BY <1>3, <1>1 DEF EnqueueAdd, CallStep, Call
<1>4. ASSUME NEW s \in Session, EnqueueRemove(s) PROVE RunnerComes'
  BY <1>4, <1>1 DEF EnqueueRemove, CallStep, Call
<1>5. CASE BeginDispose
  BY <1>5, <1>1 DEF BeginDispose, CallStep, Call, DisposeCall
<1>6. ASSUME NEW s \in Session, BeginAdd(s) \/ BeginClose(s) PROVE RunnerComes'
  BY <1>6 DEF BeginAdd, BeginClose, CallStep, Call, loopVars, queueVars, sessionVars
<1>7. CASE LeaveLock \/ EndDispose
  BY <1>7 DEF LeaveLock, EndDispose, CallStep, Call, DisposeCall, loopVars, queueVars, sessionVars
<1>8. ASSUME NEW c \in Call, ReadRef(c) PROVE RunnerComes'
  <2>1. CASE processorRef = NoRunner
    BY <1>8, <1>1, <2>1 DEF ReadRef, CallStep
  <2>2. CASE processorRef # NoRunner
    BY <1>8, <1>2, <2>2 DEF ReadRef, LiveSlot, loopVars
  <2> QED
    BY <2>1, <2>2
<1>9. ASSUME NEW c \in Call, CasRef(c) PROVE RunnerComes'
  <2>1. CASE processorRef = NoRunner
    BY <1>9, <1>2, <2>1 DEF CasRef, OwnerPhase
  <2>2. CASE processorRef # NoRunner
    BY <1>9, <1>2, <2>2 DEF CasRef, LiveSlot
  <2> QED
    BY <2>1, <2>2
<1> QED
  BY <1>3, <1>4, <1>5, <1>6, <1>7, <1>8, <1>9 DEF ClientStep, Startup

LEMMA NothingStrandedStep ==
  ASSUME TypeOK, SlotOwner, LiveSlot, OpenInKeys, NothingStranded, [Next]_vars
  PROVE  NothingStranded'
<1> USE DEF TypeOK, NothingStranded
<1> DEFINE Work == newSessions # {} \/ \E s \in Session : life[s] = "opened"
<1> SUFFICES ASSUME ~selectorClosed', Work' PROVE RunnerComes'
  OBVIOUS
<1>1. CASE ClientStep
  <2>1. life' = life
    BY <1>1 DEF ClientStep, Startup, BeginAdd, EnqueueAdd, BeginClose, EnqueueRemove, BeginDispose,
                LeaveLock, EndDispose, ReadRef, CasRef, sessionVars
  <2>2. ~selectorClosed
    BY <1>1, ClientRunners
  <2>3. newSessions' # newSessions \/ RunnerComes
    BY <2>1, <2>2
  <2> QED
    BY <1>1, <2>2, <2>3, ClientKeepsRunnerComing
<1>2. ASSUME NEW r \in Runner, LoopStep(r) PROVE RunnerComes'
  <2> USE DEF RunnerComes, OwnerPhase, RunnerPc
  <2>1. LoopMove(r) /\ ~selectorClosed
    BY <1>2, LoopMoves DEF LoopMove
  <2>2. CASE pc'[r] \in OwnerPhase \cup {"reclaim"}
    BY <2>2
  <2>3. CASE pc[r] = "check" /\ pc'[r] = "checkNew" /\ UNCHANGED <<newSessions, keys, life>>
    BY <2>1, <2>3 DEF OpenInKeys
  <2>4. CASE /\ pc[r] = "reclaim" /\ pc'[r] = "exit" /\ processorRef # NoRunner
             /\ pc' = [pc EXCEPT ![r] = "exit"]
    BY <2>1, <2>4 DEF LiveSlot
  <2>5. CASE pc[r] = "checkNew" /\ pc'[r] = "checkKeys" /\ newSessions = {}
             /\ UNCHANGED <<newSessions, keys, life>>
    BY <2>1, <2>5 DEF OpenInKeys
  <2>6. CASE pc[r] = "checkKeys" /\ pc'[r] = "exit" /\ keys = {}
             /\ UNCHANGED <<newSessions, keys, life>> /\ pc' = [pc EXCEPT ![r] = "exit"]
    <3>1. RunnerComes
      BY <2>1, <2>6
    <3> QED
      BY <3>1, <2>6, <2>1 DEF LoopMove
  <2>7. CASE /\ pc[r] \in {"exit", "signal"} /\ pc'[r] \in {"signal", "idle"}
             /\ UNCHANGED <<keys, newSessions, life>>
    <3>1. RunnerComes
      BY <2>1, <2>7
    <3> QED
      BY <3>1, <2>7, <2>1 DEF LoopMove
  <2> QED
    BY <2>1, <2>2, <2>3, <2>4, <2>5, <2>6, <2>7 DEF LoopMove
<1>3. ASSUME NEW r \in Runner, PeerStep(r) PROVE RunnerComes'
  BY <1>3, PeerRunners DEF RunnerComes, OwnerPhase
<1>4. CASE UNCHANGED vars
  BY <1>4 DEF vars, queueVars, sessionVars, disposalVars, RunnerComes
<1> QED
  BY <1>1, <1>2, <1>3, <1>4 DEF Next

\* Whatever clients add, close or dispose while a Processor is giving its slot
\* up, an open or added session always has a Processor that runs or is about
\* to run, as long as the selector is open.
THEOREM NothingStrandedCorrect == Spec => []NothingStranded
<1>1. Init => OpenInKeys /\ NothingStranded
  BY DEF Init, OpenInKeys, NothingStranded
<1> QED
  BY <1>1, OpenInKeysStep, NothingStrandedStep, LiveSlotCorrect, SlotOwnerCorrect, TypeCorrect, PTL DEF Spec

-----------------------------------------------------------------------------
(* The life of a session *)

\* A session is managed exactly while its key is valid, its closeFuture is set
\* only after that, and nobody can register it before add() has queued it or
\* once it was registered.
LifeInv == \A s \in Session :
  /\ s \in managed <=> life[s] = "opened"
  /\ s \in closed => life[s] = "destroyed"
  /\ s \in newSessions => life[s] # "opened"
  /\ callPc[<<"add", s>>] \in {"ready", "enqueue"} => s \notin newSessions /\ life[s] # "opened"

\* The steps that leave sessions and newSessions alone: all but four.
LEMMA LifeKept ==
  ASSUME LifeInv, UNCHANGED <<newSessions, life, managed, closed>>,
         \A s \in Session : callPc'[<<"add", s>>] \in {"ready", "enqueue"}
                              => callPc[<<"add", s>>] \in {"ready", "enqueue"}
  PROVE  LifeInv'
BY DEF LifeInv

\* What the steps of clients, of the loop and of peers do to the sessions.
Quiet == UNCHANGED <<newSessions, life, managed, closed>>

LEMMA ClientLife ==
  ASSUME TypeOK, ClientStep
  PROVE  /\ UNCHANGED <<life, managed, closed>>
         /\ \A s \in Session : callPc'[<<"add", s>>] \in {"ready", "enqueue"}
                                 => callPc[<<"add", s>>] \in {"ready", "enqueue"}
         /\ \/ newSessions' = newSessions
            \/ \E s \in Session : /\ newSessions' = newSessions \cup {s}
                                  /\ callPc[<<"add", s>>] = "enqueue"
                                  /\ callPc'[<<"add", s>>] = "readRef"
<1> USE DEF TypeOK, CallStep, Call, queueVars, sessionVars
<1>1. ASSUME NEW s \in Session, BeginAdd(s) \/ BeginClose(s) \/ EnqueueRemove(s)
      PROVE  /\ Quiet
             /\ \A t \in Session : callPc'[<<"add", t>>] \in {"ready", "enqueue"}
                                     => callPc[<<"add", t>>] \in {"ready", "enqueue"}
  BY <1>1 DEF BeginAdd, BeginClose, EnqueueRemove, Quiet
<1>2. ASSUME NEW s \in Session, EnqueueAdd(s)
      PROVE  /\ UNCHANGED <<life, managed, closed>>
             /\ newSessions' = newSessions \cup {s}
             /\ callPc[<<"add", s>>] = "enqueue" /\ callPc'[<<"add", s>>] = "readRef"
             /\ \A t \in Session : callPc'[<<"add", t>>] \in {"ready", "enqueue"}
                                     => callPc[<<"add", t>>] \in {"ready", "enqueue"}
  BY <1>2 DEF EnqueueAdd
<1>3. ASSUME BeginDispose \/ LeaveLock \/ EndDispose
      PROVE  /\ Quiet
             /\ \A t \in Session : callPc'[<<"add", t>>] \in {"ready", "enqueue"}
                                     => callPc[<<"add", t>>] \in {"ready", "enqueue"}
  BY <1>3 DEF BeginDispose, LeaveLock, EndDispose, DisposeCall, Quiet
<1>4. ASSUME NEW c \in Call, Startup(c)
      PROVE  /\ Quiet
             /\ \A t \in Session : callPc'[<<"add", t>>] \in {"ready", "enqueue"}
                                     => callPc[<<"add", t>>] \in {"ready", "enqueue"}
  BY <1>4 DEF Startup, ReadRef, CasRef, Quiet
<1> QED
  BY <1>1, <1>2, <1>3, <1>4 DEF ClientStep, Quiet

LEMMA LoopLife ==
  ASSUME TypeOK, NEW r \in Runner, LoopStep(r)
  PROVE  /\ callPc' = callPc
         /\ \/ Quiet
            \/ \E s \in Session : AddNow(r, s) \/ AddNowFails(r, s) \/ RemoveSession(r, s)
<1> USE DEF clientVars, queueVars, sessionVars, Quiet
<1>1. CASE \/ Start(r) \/ Select(r) \/ SelectClosed(r)
           \/ EndHandleNew(r) \/ EndProcess(r) \/ EndRemove(r)
  BY <1>1 DEF Start, Select, SelectClosed, EndHandleNew, EndProcess, EndRemove
<1>2. CASE GiveUp(r) \/ GoOn(r) \/ CheckNew(r) \/ CheckKeys(r) \/ Reclaim(r) \/ Scan(r)
  BY <1>2 DEF GiveUp, GoOn, CheckNew, CheckKeys, Reclaim, Scan
<1>3. CASE Exit(r) \/ Signal(r)
  BY <1>3 DEF Exit, Signal
<1>4. ASSUME NEW s \in Session, AddNow(r, s) \/ AddNowFails(r, s) \/ RemoveSession(r, s)
      PROVE  callPc' = callPc
  BY <1>4 DEF AddNow, AddNowFails, RemoveSession
<1> QED
  BY <1>1, <1>2, <1>3, <1>4 DEF LoopStep

LEMMA PeerLife ==
  ASSUME TypeOK, NEW r \in Runner, PeerStep(r)
  PROVE  /\ UNCHANGED <<callPc, newSessions>>
         /\ \/ Quiet
            \/ \E s \in Session : RemoveNow(s) /\ life[s] = "opened"
<1>1. ASSUME NEW s \in Session, ReadFails(r, s) \/ ClosedByHandler(r, s)
      PROVE  callPc' = callPc /\ Quiet
  BY <1>1 DEF ReadFails, ClosedByHandler, clientVars, sessionVars, Quiet
<1>2. ASSUME NEW s \in Session, WriteFails(r, s)
      PROVE  UNCHANGED <<callPc, newSessions>> /\ RemoveNow(s) /\ life[s] = "opened"
  BY <1>2 DEF WriteFails, clientVars, IsActive, State
<1> QED
  BY <1>1, <1>2 DEF PeerStep, Quiet

LEMMA LifeStep == ASSUME TypeOK, LifeInv, [Next]_vars PROVE LifeInv'
<1> USE DEF TypeOK
<1>1. CASE ClientStep
  BY <1>1, ClientLife DEF LifeInv
<1>2. ASSUME NEW r \in Runner, LoopStep(r) PROVE LifeInv'
  <2>1. CASE Quiet
    BY <1>2, <2>1, LoopLife, LifeKept DEF Quiet
  <2>2. ASSUME NEW s \in Session, AddNow(r, s) PROVE LifeInv'
    BY <2>2 DEF AddNow, LifeInv, clientVars
  <2>3. ASSUME NEW s \in Session, AddNowFails(r, s) PROVE LifeInv'
    BY <2>3 DEF AddNowFails, LifeInv, clientVars
  <2>4. ASSUME NEW s \in Session, RemoveSession(r, s) PROVE LifeInv'
    BY <2>4 DEF RemoveSession, RemoveNow, LifeInv, clientVars
  <2> QED
    BY <1>2, <2>1, <2>2, <2>3, <2>4, LoopLife
<1>3. ASSUME NEW r \in Runner, PeerStep(r) PROVE LifeInv'
  <2>1. CASE Quiet
    BY <1>3, <2>1, PeerLife, LifeKept DEF Quiet
  <2>2. ASSUME NEW s \in Session, RemoveNow(s), UNCHANGED <<callPc, newSessions>> PROVE LifeInv'
    BY <2>2 DEF RemoveNow, LifeInv
  <2> QED
    BY <1>3, <2>1, <2>2, PeerLife
<1>4. CASE UNCHANGED vars
  BY <1>4, LifeKept DEF vars, queueVars, sessionVars
<1> QED
  BY <1>1, <1>2, <1>3, <1>4 DEF Next

LEMMA LifeInvInvariant == Spec => []LifeInv
<1>1. Init => LifeInv
  BY DEF Init, LifeInv, Call
<1> QED
  BY <1>1, LifeStep, TypeCorrect, PTL DEF Spec

-----------------------------------------------------------------------------
(* The refinement of SessionLifecycle *)

\* What the phases come to under LifeInv.
LEMMA Phases ==
  ASSUME LifeInv, NEW s \in Session
  PROVE  /\ s \in closed => Phase(s) = "destroyed"
         /\ s \notin closed /\ life[s] = "destroyed" => Phase(s) = "dropped"
         /\ life[s] = "opened" => Phase(s) = "open"
         /\ life[s] = "init" /\ s \in newSessions => Phase(s) = "added"
         /\ life[s] = "init" /\ s \notin newSessions => Phase(s) = "fresh"
BY DEF LifeInv, Phase

LEMMA PhasesKept ==
  ASSUME Quiet
  PROVE  UNCHANGED [s \in Session |-> Phase(s)]
BY DEF Quiet, Phase

\* A step that moves one session in the way SessionLifecycle allows.
LEMMA OneMoves ==
  ASSUME NEW s \in Session, \A t \in Session \ {s} : Phase(t)' = Phase(t),
         \/ Phase(s) = "fresh" /\ Phase(s)' = "added"
         \/ Phase(s) = "added" /\ Phase(s)' = "open"
         \/ Phase(s) = "open" /\ Phase(s)' = "destroyed"
         \/ Phase(s) \in {"fresh", "added"} /\ Phase(s)' = "dropped"
         \/ Phase(s)' = Phase(s)
  PROVE  [Lifecycle!Next]_([t \in Session |-> Phase(t)])
<1> DEFINE phase == [t \in Session |-> Phase(t)]
           phase2 == [t \in Session |-> Phase(t)']
<1>1. phase2 = [phase EXCEPT ![s] = Phase(s)']
  OBVIOUS
<1>2. phase[s] = Phase(s)
  OBVIOUS
<1>3. CASE Phase(s)' = Phase(s)
  <2>1. phase2 = phase
    BY <1>1, <1>2, <1>3
  <2> QED
    BY <2>1
<1>4. CASE Phase(s) = "fresh" /\ Phase(s)' = "added"
  <2>1. Lifecycle!Add(s)
    BY <1>1, <1>2, <1>4 DEF Lifecycle!Add, Lifecycle!Move
  <2> QED
    BY <2>1 DEF Lifecycle!Next
<1>5. CASE Phase(s) = "added" /\ Phase(s)' = "open"
  <2>1. Lifecycle!Create(s)
    BY <1>1, <1>2, <1>5 DEF Lifecycle!Create, Lifecycle!Move
  <2> QED
    BY <2>1 DEF Lifecycle!Next
<1>6. CASE Phase(s) = "open" /\ Phase(s)' = "destroyed"
  <2>1. Lifecycle!Destroy(s)
    BY <1>1, <1>2, <1>6 DEF Lifecycle!Destroy, Lifecycle!Move
  <2> QED
    BY <2>1 DEF Lifecycle!Next
<1>7. CASE Phase(s) \in {"fresh", "added"} /\ Phase(s)' = "dropped"
  <2>1. Lifecycle!Drop(s)
    BY <1>1, <1>2, <1>7 DEF Lifecycle!Drop, Lifecycle!Move
  <2> QED
    BY <2>1 DEF Lifecycle!Next
<1> QED
  BY <1>3, <1>4, <1>5, <1>6, <1>7

\* removeNow(): an open session is closed, one not created yet is dropped.
LEMMA RemovalMoves ==
  ASSUME TypeOK, LifeInv, LifeInv', NEW s \in Session, RemoveNow(s), life[s] \in {"init", "opened"},
         \A t \in Session \ {s} : t \in newSessions' <=> t \in newSessions
  PROVE  [Lifecycle!Next]_([t \in Session |-> Phase(t)])
<1>1. \A t \in Session \ {s} : Phase(t)' = Phase(t)
  BY DEF RemoveNow, Phase, TypeOK
<1>2. s \notin closed
  BY DEF LifeInv
<1>3. CASE life[s] = "opened"
  <2>1. s \in closed'
    BY <1>3 DEF RemoveNow, LifeInv
  <2> QED
    BY <1>1, <1>3, <2>1, OneMoves DEF LifeInv, Phase
<1>4. CASE life[s] = "init"
  <2>1. s \notin closed' /\ s \notin managed' /\ life'[s] = "destroyed" /\ s \notin managed
    BY <1>2, <1>4 DEF RemoveNow, LifeInv, TypeOK
  <2>2. Phase(s) \in {"fresh", "added"} /\ Phase(s)' = "dropped"
    BY <1>2, <1>4, <2>1 DEF Phase
  <2> QED
    BY <1>1, <2>2, OneMoves
<1> QED
  BY <1>3, <1>4

LEMMA LifecycleStep ==
  ASSUME TypeOK, LifeInv, LifeInv', [Next]_vars
  PROVE  [Lifecycle!Next]_([s \in Session |-> Phase(s)])
<1> USE DEF TypeOK
<1>1. CASE ClientStep
  <2>1. CASE newSessions' = newSessions
    BY <1>1, <2>1, ClientLife, PhasesKept DEF Quiet
  <2>2. ASSUME NEW s \in Session, newSessions' = newSessions \cup {s}, callPc[<<"add", s>>] = "enqueue"
        PROVE  [Lifecycle!Next]_([t \in Session |-> Phase(t)])
    <3>1. UNCHANGED <<life, managed, closed>>
      BY <1>1, ClientLife
    <3>2. \A t \in Session \ {s} : Phase(t)' = Phase(t)
      BY <2>2, <3>1 DEF Phase
    <3>3. \/ Phase(s)' = Phase(s)
          \/ Phase(s) = "fresh" /\ Phase(s)' = "added"
      BY <2>2, <3>1 DEF Phase, LifeInv
    <3> QED
      BY <3>2, <3>3, OneMoves
  <2> QED
    BY <1>1, <2>1, <2>2, ClientLife
<1>2. ASSUME NEW r \in Runner, LoopStep(r)
      PROVE  [Lifecycle!Next]_([s \in Session |-> Phase(s)])
  <2>1. CASE Quiet
    BY <2>1, PhasesKept
  <2>2. ASSUME NEW s \in Session, AddNow(r, s)
        PROVE  [Lifecycle!Next]_([t \in Session |-> Phase(t)])
    <3>1. \A t \in Session \ {s} : Phase(t)' = Phase(t)
      BY <2>2 DEF AddNow, Phase
    <3>2. Phase(s) = "added" /\ Phase(s)' = "open"
      BY <2>2 DEF AddNow, Phase, LifeInv
    <3> QED
      BY <3>1, <3>2, OneMoves
  <2>3. ASSUME NEW s \in Session, AddNowFails(r, s)
        PROVE  [Lifecycle!Next]_([t \in Session |-> Phase(t)])
    <3>1. \A t \in Session \ {s} : Phase(t)' = Phase(t)
      BY <2>3 DEF AddNowFails, Phase
    <3>2. \/ Phase(s)' = Phase(s)
          \/ Phase(s) = "added" /\ Phase(s)' = "dropped"
      BY <2>3 DEF AddNowFails, Phase, LifeInv
    <3> QED
      BY <3>1, <3>2, OneMoves
  <2>4. ASSUME NEW s \in Session, RemoveSession(r, s), ~Quiet
        PROVE  [Lifecycle!Next]_([t \in Session |-> Phase(t)])
    <3>1. State(s) # "CLOSING"
      BY <2>4 DEF RemoveSession, Quiet
    <3>2. RemoveNow(s) /\ newSessions' \in {newSessions, newSessions \ {s}}
      BY <2>4, <3>1 DEF RemoveSession
    <3>3. life[s] \in {"init", "opened"}
      BY <3>1 DEF State
    <3> QED
      BY <3>2, <3>3, RemovalMoves
  <2> QED
    BY <1>2, <2>1, <2>2, <2>3, <2>4, LoopLife
<1>3. ASSUME NEW r \in Runner, PeerStep(r)
      PROVE  [Lifecycle!Next]_([s \in Session |-> Phase(s)])
  BY <1>3, PeerLife, PhasesKept, RemovalMoves
<1>4. CASE UNCHANGED vars
  BY <1>4, PhasesKept DEF vars, queueVars, sessionVars, Quiet
<1> QED
  BY <1>1, <1>2, <1>3, <1>4 DEF Next

\* The processor implements SessionLifecycle, for any sessions and runnables
\* and whatever closes a session, before, during or after its registration.
THEOREM LifecycleCorrect == Spec => LifecycleSpec
<1>1. Init => Lifecycle!Init
  BY DEF Init, Lifecycle!Init, Phase
<1> QED
  BY <1>1, LifecycleStep, LifeInvInvariant, TypeCorrect, PTL DEF Spec, LifecycleSpec, Lifecycle!Spec

-----------------------------------------------------------------------------
(* The session count *)

\* The sessions that nSessions may stand for.
Countable == {s \in Session : life[s] = "opened" \/ (life[s] = "destroyed" /\ removingSessions[s] > 0)}

\* Whoever looks at its count for the last time counts none; this is what it
\* takes its slot back with.
CountInv ==
  /\ IsFiniteSet(Countable)
  /\ \A r \in Runner :
       /\ pc[r] \in OwnerPhase \ {"submitted"} => nSessions[r] <= Cardinality(Countable)
       /\ pc[r] \in {"checkNew", "checkKeys", "reclaim"} => nSessions[r] <= 0

LEMMA GrowsByOne ==
  ASSUME NEW S, NEW T, NEW x, IsFiniteSet(S), S \ {x} \subseteq T, T \subseteq S \cup {x}
  PROVE  /\ IsFiniteSet(T) /\ Cardinality(S) \in Nat /\ Cardinality(T) \in Nat
         /\ Cardinality(S) <= Cardinality(T) + 1
         /\ S \subseteq T => Cardinality(S) <= Cardinality(T)
         /\ S \subseteq T /\ x \in T /\ x \notin S => Cardinality(T) = Cardinality(S) + 1
<1>1. /\ IsFiniteSet(S \cup {x})
      /\ IsFiniteSet(S \ {x}) /\ Cardinality(S \ {x}) \in Nat
      /\ Cardinality(S \ {x}) = IF x \in S THEN Cardinality(S) - 1 ELSE Cardinality(S)
  BY FS_AddElement, FS_RemoveElement, FS_CardinalityType
<1>2. IsFiniteSet(T) /\ Cardinality(S) \in Nat /\ Cardinality(T) \in Nat
  BY <1>1, FS_Subset, FS_CardinalityType
<1>3. Cardinality(S \ {x}) <= Cardinality(T)
  BY <1>2, FS_Subset
<1>4. S \subseteq T => Cardinality(S) <= Cardinality(T)
  BY <1>2, FS_Subset
<1>5. ASSUME S \subseteq T, x \in T, x \notin S PROVE Cardinality(T) = Cardinality(S) + 1
  <2>1. T = S \cup {x}
    BY <1>5
  <2> QED
    BY <1>5, <2>1, FS_AddElement
<1> QED
  BY <1>1, <1>2, <1>3, <1>4, <1>5

\* Steps beside the loop change neither a count nor what it counts.
LEMMA CountBeside ==
  ASSUME Breakable = {}, TypeOK,
         ClientStep \/ (\E r \in Runner : PeerStep(r)) \/ UNCHANGED vars
  PROVE  Countable' = Countable /\ nSessions' = nSessions
<1> USE DEF TypeOK, Countable
<1>1. ASSUME NEW s \in Session, BeginAdd(s) \/ EnqueueAdd(s) \/ BeginClose(s)
      PROVE  Countable' = Countable /\ nSessions' = nSessions
  BY <1>1 DEF BeginAdd, EnqueueAdd, BeginClose, loopVars, queueVars, sessionVars
<1>2. ASSUME NEW s \in Session, EnqueueRemove(s)
      PROVE  Countable' = Countable /\ nSessions' = nSessions
  BY <1>2 DEF EnqueueRemove, ScheduleRemove, loopVars, sessionVars
<1>3. ASSUME BeginDispose \/ LeaveLock \/ EndDispose \/ \E c \in Call : Startup(c)
      PROVE  Countable' = Countable /\ nSessions' = nSessions
  BY <1>3 DEF BeginDispose, LeaveLock, EndDispose, Startup, ReadRef, CasRef, loopVars, queueVars, sessionVars
<1>4. ASSUME NEW r \in Runner, NEW s \in Session, ReadFails(r, s) \/ ClosedByHandler(r, s)
      PROVE  Countable' = Countable /\ nSessions' = nSessions
  <2>1. /\ UNCHANGED <<life, nSessions>> /\ life[s] = "opened" /\ ScheduleRemove({s})
    BY <1>4 DEF ReadFails, ClosedByHandler, IsActive, State, loopVars, sessionVars
  <2> QED
    BY <2>1 DEF ScheduleRemove
<1>5. ASSUME NEW r \in Runner, NEW s \in Session, WriteFails(r, s) PROVE FALSE
  BY <1>5 DEF WriteFails
<1>6. CASE UNCHANGED vars
  BY <1>6 DEF vars, queueVars, sessionVars, loopVars
<1> QED
  BY <1>1, <1>2, <1>3, <1>4, <1>5, <1>6 DEF ClientStep, PeerStep

\* What the steps of the loop do to both.
LEMMA CountMoves ==
  ASSUME TypeOK, LifeInv, NEW r \in Runner, LoopStep(r)
  PROVE  LET to == pc'[r] IN
         \/ /\ Countable' = Countable /\ nSessions' = nSessions
            /\ \/ pc[r] \in OwnerPhase \ {"submitted"} /\ to \in (OwnerPhase \ {"submitted"}) \cup {"exit"}
               \/ pc[r] = "check" /\ to = "checkNew" /\ nSessions[r] <= 0
               \/ pc[r] \in {"checkNew", "checkKeys"} /\ to \in {"checkKeys", "reclaim", "exit"}
               \/ pc[r] = "reclaim" /\ to \in {"scan", "exit"}
               \/ pc[r] \in {"exit", "signal"} /\ to \in {"signal", "idle"}
         \/ /\ Countable' = Countable /\ nSessions' = [nSessions EXCEPT ![r] = 0]
            /\ pc[r] = "submitted" /\ to = "select"
         \/ /\ pc[r] \in {"handleNew", "remove"} /\ to = pc[r]
            /\ \E s \in Session :
                 /\ Countable \ {s} \subseteq Countable' /\ Countable' \subseteq Countable \cup {s}
                 /\ \/ nSessions' = nSessions /\ Countable \subseteq Countable'
                    \/ nSessions' = [nSessions EXCEPT ![r] = @ - 1]
                    \/ /\ nSessions' = [nSessions EXCEPT ![r] = @ + 1]
                       /\ Countable \subseteq Countable' /\ s \in Countable' /\ s \notin Countable
<1> USE DEF TypeOK, RunStep, OwnerPhase, RunnerPc, Countable
<1>1. CASE Start(r)
  BY <1>1 DEF Start, queueVars, sessionVars
<1>2. CASE Select(r) \/ SelectClosed(r) \/ EndHandleNew(r) \/ EndProcess(r) \/ EndRemove(r) \/ GoOn(r)
  BY <1>2 DEF Select, SelectClosed, EndHandleNew, EndProcess, EndRemove, GoOn, queueVars, sessionVars
<1>3. CASE GiveUp(r)
  BY <1>3 DEF GiveUp, queueVars, sessionVars
<1>4. CASE CheckNew(r) \/ CheckKeys(r) \/ Reclaim(r)
  BY <1>4 DEF CheckNew, CheckKeys, Reclaim, queueVars, sessionVars
<1>5. CASE Scan(r)
  <2>1. Countable' = Countable
    BY <1>5 DEF Scan, ScheduleRemove, sessionVars, IsActive, State
  <2> QED
    BY <1>5, <2>1 DEF Scan
<1>6. CASE Exit(r) \/ Signal(r)
  BY <1>6 DEF Exit, Signal, queueVars, sessionVars
<1>7. ASSUME NEW s \in Session, AddNow(r, s)
      PROVE  /\ pc[r] = "handleNew" /\ pc' = pc
             /\ nSessions' = [nSessions EXCEPT ![r] = @ + 1]
             /\ Countable' = Countable \cup {s} /\ s \notin Countable
  BY <1>7 DEF AddNow
<1>8. ASSUME NEW s \in Session, AddNowFails(r, s)
      PROVE  /\ pc[r] = "handleNew" /\ pc' = pc /\ nSessions' = nSessions
             /\ Countable \subseteq Countable' /\ Countable' \subseteq Countable \cup {s}
  BY <1>8 DEF AddNowFails, LifeInv
<1>9. ASSUME NEW s \in Session, RemoveSession(r, s)
      PROVE  /\ pc[r] = "remove" /\ pc' = pc
             /\ nSessions' = [nSessions EXCEPT ![r] = @ - 1]
             /\ Countable \ {s} \subseteq Countable' /\ Countable' \subseteq Countable \cup {s}
  BY <1>9 DEF RemoveSession, RemoveNow
<1> QED
  BY <1>1, <1>2, <1>3, <1>4, <1>5, <1>6, <1>7, <1>8, <1>9 DEF LoopStep

LEMMA CountStep ==
  ASSUME Breakable = {}, TypeOK, TypeOK', SlotOwner, LifeInv, CountInv, [Next]_vars
  PROVE  CountInv'
<1> USE DEF TypeOK, CountInv
<1>1. CASE ClientStep
  BY <1>1, CountBeside, ClientRunners DEF OwnerPhase
<1>2. ASSUME NEW r \in Runner, LoopStep(r) PROVE CountInv'
  <2>1. pc' = [pc EXCEPT ![r] = pc'[r]] /\ pc'[r] \in RunnerPc
    BY <1>2, LoopMoves DEF LoopMove
  <2>2. Cardinality(Countable) \in Nat
    BY FS_CardinalityType
  <2>3. ASSUME Countable' = Countable, nSessions' = nSessions,
               \/ pc[r] \in OwnerPhase \ {"submitted"} /\ pc'[r] \in (OwnerPhase \ {"submitted"}) \cup {"exit"}
               \/ pc[r] = "check" /\ pc'[r] = "checkNew" /\ nSessions[r] <= 0
               \/ pc[r] \in {"checkNew", "checkKeys"} /\ pc'[r] \in {"checkKeys", "reclaim", "exit"}
               \/ pc[r] = "reclaim" /\ pc'[r] \in {"scan", "exit"}
               \/ pc[r] \in {"exit", "signal"} /\ pc'[r] \in {"signal", "idle"}
        PROVE  CountInv'
    BY <2>1, <2>2, <2>3 DEF OwnerPhase
  <2>4. ASSUME Countable' = Countable, nSessions' = [nSessions EXCEPT ![r] = 0],
               pc[r] = "submitted", pc'[r] = "select"
        PROVE  CountInv'
    BY <2>1, <2>2, <2>4 DEF OwnerPhase
  <2>5. ASSUME pc[r] \in {"handleNew", "remove"}, pc'[r] = pc[r], NEW s \in Session,
               Countable \ {s} \subseteq Countable', Countable' \subseteq Countable \cup {s},
               \/ nSessions' = nSessions /\ Countable \subseteq Countable'
               \/ nSessions' = [nSessions EXCEPT ![r] = @ - 1]
               \/ /\ nSessions' = [nSessions EXCEPT ![r] = @ + 1]
                  /\ Countable \subseteq Countable' /\ s \in Countable' /\ s \notin Countable
        PROVE  CountInv'
    <3>1. /\ IsFiniteSet(Countable') /\ Cardinality(Countable') \in Nat
          /\ Cardinality(Countable) <= Cardinality(Countable') + 1
          /\ Countable \subseteq Countable' => Cardinality(Countable) <= Cardinality(Countable')
          /\ Countable \subseteq Countable' /\ s \in Countable' /\ s \notin Countable
             => Cardinality(Countable') = Cardinality(Countable) + 1
      BY <2>5, GrowsByOne
    <3>2. nSessions'[r] <= Cardinality(Countable')
      BY <2>2, <2>5, <3>1 DEF OwnerPhase
    <3>3. pc' = pc
      BY <2>1, <2>5
    <3>4. ASSUME NEW q \in Runner, q # r
          PROVE  pc[q] \notin OwnerPhase /\ nSessions'[q] = nSessions[q]
      BY <2>5, <3>4, ProcessorAssumption DEF SlotOwner, OwnerPhase
    <3> QED
      BY <2>5, <3>1, <3>2, <3>3, <3>4
  <2> QED
    BY <1>2, <2>3, <2>4, <2>5, CountMoves
<1>3. ASSUME NEW r \in Runner, PeerStep(r) PROVE CountInv'
  <2>1. pc' = pc
    BY <1>3, PeerRunners
  <2> QED
    BY <1>3, <2>1, CountBeside
<1>4. CASE UNCHANGED vars
  <2>1. pc' = pc
    BY <1>4 DEF vars
  <2> QED
    BY <1>4, <2>1, CountBeside
<1> QED
  BY <1>1, <1>2, <1>3, <1>4 DEF Next

\* When no write breaks a connection, a Processor never counts more sessions
\* than it will remove, a dispose() or not: its loop can end.  The hypothesis
\* is needed: a session that a failed write removes may stay counted for ever,
\* as the run processor_dispose_hangs shows.
THEOREM CountCorrect == ASSUME Breakable = {} PROVE Spec => []CountNotTooHigh
<1>1. Init => CountInv
  <2> SUFFICES ASSUME Init PROVE CountInv
    OBVIOUS
  <2>1. Countable = {}
    BY DEF Init, Countable
  <2> QED
    BY <2>1, FS_EmptySet DEF Init, CountInv, OwnerPhase
<1>2. CountInv => CountNotTooHigh
  BY DEF CountInv, CountNotTooHigh, Countable
<1>3. TypeOK /\ TypeOK' /\ SlotOwner /\ LifeInv /\ CountInv /\ [Next]_vars => CountInv'
  BY CountStep
<1> QED
  BY <1>1, <1>2, <1>3, LifeInvInvariant, SlotOwnerCorrect, TypeCorrect, PTL DEF Spec
===============================================================================
