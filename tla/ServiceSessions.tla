-------------------------- MODULE ServiceSessions --------------------------
(***************************************************************************)
(* The sessions a service manages (EIoServiceListenerSupport.cpp) and the  *)
(* pool of Processors that create and destroy them                         *)
(* (ESimpleIoProcessorPool.cpp).  Each Processor handles its sessions one  *)
(* at a time; the Processors of a pool run beside each other and beside    *)
(* the threads that unbind() the service or dispose() its pool.            *)
(***************************************************************************)
EXTENDS Integers, FiniteSets

CONSTANTS
  Sessions,    \* session ids, numbers from 1
  Unbinders,   \* threads that deactivate an acceptor
  PoolSizes    \* numbers of Processors a pool may have

ASSUME ServiceAssumption ==
  /\ Sessions \subseteq Nat \ {0} /\ IsFiniteSet(Sessions)
  /\ PoolSizes \subseteq Nat \ {0}

VARIABLES
  service,      \* is it an acceptor, and how many Processors has it
  stage,        \* how far its Processor is with each session
  edge,         \* firstSession, as the Processor read it
  sized,        \* the local managedSessionCount
  managed, activated, largest, cumulative,
  listenersTold, \* the last event the listeners heard: is the service active
  closing,       \* sessions that somebody closes
  closesSessions, \* isCloseOnDeactivation() of an acceptor
  unbinder, atStart, visited, \* each unbinder's place, the sessions then managed, the ones it closed
  poolState      \* "up", "disposing", "disposed"

serviceVars == <<service, stage, edge, sized, managed, activated, largest, cumulative,
                 listenersTold, closing, closesSessions, unbinder, atStart, visited, poolState>>

ServiceInit ==
  /\ service \in [isAcceptor : BOOLEAN, length : PoolSizes]
  /\ stage = [s \in Sessions |-> "unborn"]
  /\ edge = [s \in Sessions |-> FALSE] /\ sized = [s \in Sessions |-> 0]
  /\ managed = {} /\ largest = 0 /\ cumulative = 0
  /\ activated = service.isAcceptor /\ listenersTold = activated
  /\ closing = {} /\ closesSessions = TRUE
  /\ unbinder = [u \in Unbinders |-> "idle"]
  /\ atStart = [u \in Unbinders |-> {}] /\ visited = [u \in Unbinders |-> {}]
  /\ poolState = "up"

ProcessorOf(s) == s % service.length
Resting == {"unborn", "queued", "open", "gone", "refused"}
Free(s) == \A t \in Sessions : ProcessorOf(t) = ProcessorOf(s) => stage[t] \in Resting
Stage(s, from, to) == stage[s] = from /\ stage' = [stage EXCEPT ![s] = to]

listenerVars == <<activated, listenersTold>>
countVars == <<sized, largest, cumulative>>
unbindVars == <<closesSessions, unbinder, atStart, visited>>

----------------------------------------------------------------------------
(* The pool: the Acceptor or Connector adds a session, whose id selects    *)
(* its Processor for good; a disposing pool refuses it.                    *)

AddSession(s) ==
  /\ poolState = "up" /\ Stage(s, "unborn", "queued")
  /\ UNCHANGED <<service, edge, countVars, managed, listenerVars, closing, unbindVars, poolState>>

RefuseSession(s) ==
  /\ poolState # "up" /\ Stage(s, "unborn", "refused")
  /\ UNCHANGED <<service, edge, countVars, managed, listenerVars, closing, unbindVars, poolState>>

(* Each Processor of a disposing pool closes the sessions it has.          *)
DisposePool ==
  /\ poolState = "up"
  /\ poolState' = "disposing"
  /\ closing' = closing \cup {s \in Sessions : stage[s] \notin {"unborn", "gone"}}
  /\ UNCHANGED <<service, stage, edge, countVars, managed, listenerVars, unbindVars>>

(* awaitTermination() of the executor returns when no Processor runs.      *)
PoolDisposed ==
  /\ poolState = "disposing"
  /\ \A s \in Sessions : stage[s] \in {"unborn", "gone", "refused"}
  /\ poolState' = "disposed"
  /\ UNCHANGED <<service, stage, edge, countVars, managed, listenerVars, closing, unbindVars>>

----------------------------------------------------------------------------
(* fireSessionCreated(), by the session's Processor. *)

LookForFirst(s) ==
  /\ Free(s) /\ Stage(s, "queued", "registering")
  /\ edge' = [edge EXCEPT ![s] = ~service.isAcceptor /\ managed = {}]
  /\ UNCHANGED <<service, countVars, managed, listenerVars, closing, unbindVars, poolState>>

Register(s) ==
  /\ Stage(s, "registering", IF edge[s] THEN "activating" ELSE "creating")
  /\ managed' = managed \cup {s}
  /\ UNCHANGED <<service, edge, countVars, listenerVars, closing, unbindVars, poolState>>

FireServiceActivated(s) ==
  /\ Stage(s, "activating", IF activated THEN "creating" ELSE "telling up")
  /\ activated' = TRUE
  /\ UNCHANGED <<service, edge, countVars, managed, listenersTold, closing, unbindVars, poolState>>

TellActivated(s) ==
  /\ Stage(s, "telling up", "creating")
  /\ listenersTold' = TRUE
  /\ UNCHANGED <<service, edge, countVars, managed, activated, closing, unbindVars, poolState>>

(* sessionCreated and sessionOpened run in the filter chain, then the      *)
(* sessions are counted, without a lock.                                   *)
CountManaged(s) ==
  /\ Stage(s, "creating", "counting")
  /\ sized' = [sized EXCEPT ![s] = Cardinality(managed)]
  /\ UNCHANGED <<service, edge, largest, cumulative, managed, listenerVars, closing, unbindVars,
                poolState>>

CompareCount(s) ==
  /\ Stage(s, "counting", IF sized[s] > largest THEN "raising" ELSE "counted")
  /\ UNCHANGED <<service, edge, countVars, managed, listenerVars, closing, unbindVars, poolState>>

RaiseLargest(s) ==
  /\ Stage(s, "raising", "counted")
  /\ largest' = sized[s]
  /\ UNCHANGED <<service, edge, sized, cumulative, managed, listenerVars, closing, unbindVars,
                poolState>>

CountCumulative(s) ==
  /\ Stage(s, "counted", "open")
  /\ cumulative' = cumulative + 1
  /\ UNCHANGED <<service, edge, sized, largest, managed, listenerVars, closing, unbindVars, poolState>>

----------------------------------------------------------------------------
(* A session is closed by its peer, a handler or disconnectSessions(); its *)
(* Processor destroys the channel and calls fireSessionDestroyed().        *)

CloseSession(s) ==
  /\ stage[s] = "open" /\ s \notin closing
  /\ closing' = closing \cup {s}
  /\ UNCHANGED <<service, stage, edge, countVars, managed, listenerVars, unbindVars, poolState>>

DestroyChannel(s) ==
  /\ s \in closing /\ Free(s) /\ Stage(s, "open", "destroyed")
  /\ UNCHANGED <<service, edge, countVars, managed, listenerVars, closing, unbindVars, poolState>>

Unregister(s) ==
  /\ Stage(s, "destroyed", "closed")
  /\ managed' = managed \ {s}
  /\ UNCHANGED <<service, edge, countVars, listenerVars, closing, unbindVars, poolState>>

(* Fault: the session that asks is counted among the ones that are left. *)
LookForLastOfTwo(s) ==
  /\ Stage(s, "closed", IF ~service.isAcceptor /\ Cardinality(managed) <= 1 THEN "deactivating" ELSE "gone")
  /\ UNCHANGED <<service, edge, countVars, managed, listenerVars, closing, unbindVars, poolState>>

(* sessionClosed and sessionDestroyed have been fired. *)
LookForLast(s) ==
  /\ Stage(s, "closed", IF ~service.isAcceptor /\ managed = {} THEN "deactivating" ELSE "gone")
  /\ UNCHANGED <<service, edge, countVars, managed, listenerVars, closing, unbindVars, poolState>>

FireServiceDeactivated(s) ==
  /\ Stage(s, "deactivating", IF activated THEN "telling down" ELSE "gone")
  /\ activated' = FALSE
  /\ UNCHANGED <<service, edge, countVars, managed, listenersTold, closing, unbindVars, poolState>>

(* disconnectSessions() does nothing for a connector. *)
TellDeactivated(s) ==
  /\ Stage(s, "telling down", "gone")
  /\ listenersTold' = FALSE
  /\ UNCHANGED <<service, edge, countVars, managed, activated, closing, unbindVars, poolState>>

----------------------------------------------------------------------------
(* unbind() of an acceptor: fireServiceDeactivated(), then                 *)
(* disconnectSessions(), which does nothing when the acceptor does not     *)
(* close on deactivation.  Else it closes what the iterator of             *)
(* managedSessions shows and waits until the map is empty, or until it is  *)
(* interrupted.  The iterator is weakly consistent: it may or may not show *)
(* a session that is registered after it started.                          *)

SetCloseOnDeactivation ==
  /\ service.isAcceptor
  /\ closesSessions' = ~closesSessions
  /\ UNCHANGED <<service, stage, edge, countVars, managed, listenerVars, closing, unbinder,
                atStart, visited, poolState>>

BeginUnbinding(u) ==
  /\ service.isAcceptor /\ unbinder[u] = "idle"
  /\ unbinder' = [unbinder EXCEPT ![u] = IF activated THEN "deactivated" ELSE "left"]
  /\ activated' = FALSE
  /\ listenersTold' = FALSE
  /\ UNCHANGED <<service, stage, edge, countVars, managed, closing, closesSessions, atStart,
                visited, poolState>>

(* u goes on in disconnectSessions(), or returns. *)
Returns(u, from, to) ==
  /\ unbinder[u] = from /\ unbinder' = [unbinder EXCEPT ![u] = to]
  /\ UNCHANGED <<service, stage, edge, countVars, managed, listenerVars, closing, closesSessions,
                atStart, visited, poolState>>

KeepSessions(u) == ~closesSessions /\ Returns(u, "deactivated", "kept")

BeginDisconnecting(u) ==
  /\ unbinder[u] = "deactivated" /\ closesSessions
  /\ unbinder' = [unbinder EXCEPT ![u] = "iterating"]
  /\ atStart' = [atStart EXCEPT ![u] = managed]
  /\ UNCHANGED <<service, stage, edge, countVars, managed, listenerVars, closing, closesSessions,
                visited, poolState>>

CloseNext(u) ==
  /\ unbinder[u] = "iterating"
  /\ \E s \in managed \ visited[u] :
       /\ visited' = [visited EXCEPT ![u] = @ \cup {s}]
       /\ closing' = closing \cup {s}
  /\ UNCHANGED <<service, stage, edge, countVars, managed, listenerVars, closesSessions, unbinder,
                atStart, poolState>>

EndIteration(u) ==
  /\ atStart[u] \cap managed \subseteq visited[u]
  /\ Returns(u, "iterating", "waiting")

(* Fault: the loop around wait(500) is an if. *)
WaitOnce(u) == Returns(u, "waiting", "done")

WaitUntilEmpty(u) == managed = {} /\ Returns(u, "waiting", "done")

InterruptWait(u) == managed # {} /\ Returns(u, "waiting", "interrupted")

----------------------------------------------------------------------------
ServiceNext ==
  \/ DisposePool \/ PoolDisposed \/ SetCloseOnDeactivation
  \/ \E s \in Sessions :
       \/ AddSession(s) \/ RefuseSession(s)
       \/ LookForFirst(s) \/ Register(s) \/ FireServiceActivated(s) \/ TellActivated(s)
       \/ CountManaged(s) \/ CompareCount(s) \/ RaiseLargest(s) \/ CountCumulative(s)
       \/ CloseSession(s) \/ DestroyChannel(s) \/ Unregister(s)
       \/ LookForLast(s) \/ FireServiceDeactivated(s) \/ TellDeactivated(s)
  \/ \E u \in Unbinders :
       \/ BeginUnbinding(u) \/ KeepSessions(u) \/ BeginDisconnecting(u) \/ CloseNext(u) \/ EndIteration(u)
       \/ WaitUntilEmpty(u) \/ InterruptWait(u)

ServiceSpec == ServiceInit /\ [][ServiceNext]_serviceVars

----------------------------------------------------------------------------
(* What a service with one Processor says of itself is true whenever the   *)
(* Processor rests: a connector is active, and told its listeners so last, *)
(* exactly while it manages a session; largestManagedSessionCount misses   *)
(* no session that is managed; every session that was opened is counted    *)
(* once.  The looks at the map, the flag and the counters are not atomic,  *)
(* but one thread takes them all.  (With two Processors none of this       *)
(* holds: one may find the map empty, the other register its session, and  *)
(* the service is deactivated under it.)                                   *)
ServiceTruthful ==
  service.length = 1 /\ (\A s \in Sessions : stage[s] \in Resting) =>
    /\ ~service.isAcceptor => activated = (managed # {}) /\ listenersTold = activated
    /\ largest >= Cardinality(managed)
    /\ cumulative = Cardinality({s \in Sessions : stage[s] \in {"open", "gone"}})

(* disconnectSessions() overlooks no session: each one that it found is    *)
(* closed by somebody, or unregistered, once it has walked over them, even *)
(* if the walk ran beside sessions that came and went and its wait is      *)
(* interrupted; and if it has waited until none is managed, the channels   *)
(* of all it found are gone.                                               *)
DisconnectedAll ==
  \A u \in Unbinders :
    /\ unbinder[u] \in {"waiting", "done", "interrupted"} => atStart[u] \cap managed \subseteq closing
    /\ unbinder[u] = "done" => \A s \in atStart[u] : stage[s] \in {"closed", "gone"}
=============================================================================
