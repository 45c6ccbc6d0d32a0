------------------------------- MODULE IoFuture --------------------------------
(***************************************************************************)
(* EDefaultIoFuture, the base of the close, write, read and connect        *)
(* futures: threads that set its value race with threads that wait for it  *)
(* and with threads that add and remove listeners.                         *)
(*                                                                         *)
(* A SYNCHRONIZED block that calls no listener is one step.  addListener() *)
(* on a completed future calls the listener inside the block: it is two    *)
(* steps, between which the monitor is held.  setValue() tells the others  *)
(* outside the block, one step each.  Each listener is added at most once. *)
(***************************************************************************)
EXTENDS Integers, FiniteSets, Sequences, SequencesExt

CONSTANTS
  Setter,   \* threads that call setValue(), each with a value of its own
  Listener,
  Waiter,   \* threads that call await(...) once
  Timed,    \* those of them that pass a timeout
  None      \* null

ASSUME FutureAssumption ==
  /\ None \notin Setter /\ None \notin Listener
  /\ IsFiniteSet(Waiter) /\ Timed \subseteq Waiter

VARIABLES
  ready, result, firstListener, otherListeners, waiters,
  setter,   \* where each setValue() stands; "won" and "refused" have returned
  cursor,   \* the iterator of notifyListeners() over otherListeners
  direct,   \* the listener addListener() is telling, holding the monitor
  waiter,   \* where each await() stands, and how it returned
  added,    \* listeners that were added and not taken out again
  told      \* how often each listener's operationComplete() was called

listVars == <<firstListener, otherListeners, cursor, direct, added, told>>
waitVars == <<waiters, waiter>>
setVars == <<ready, result, setter>>
vars == <<listVars, waitVars, setVars>>

Init ==
  /\ ready = FALSE /\ result = None
  /\ firstListener = None /\ otherListeners = <<>> /\ cursor = 1
  /\ waiters = 0 /\ waiter = [w \in Waiter |-> "new"]
  /\ setter = [s \in Setter |-> "new"]
  /\ direct = None /\ added = {} /\ told = [l \in Listener |-> 0]

\* No thread is inside a SYNCHRONIZED block.
MonitorFree == direct = None

Waiting == {w \in Waiter : waiter[w] = "waiting"}

-----------------------------------------------------------------------------
(* setValue() and notifyListeners() *)

NotifyAll == [w \in Waiter |-> IF w \in Waiting THEN "woken" ELSE waiter[w]]

\* Faults: a second value is taken; one waiter is woken instead of all.
SetAlways(s) ==
  /\ ready' = TRUE /\ result' = s
  /\ setter' = [setter EXCEPT ![s] = "first"]
  /\ waiter' = IF waiters > 0 THEN NotifyAll ELSE waiter
SetNotifyOne(s) ==
  /\ ~ready
  /\ ready' = TRUE /\ result' = s
  /\ setter' = [setter EXCEPT ![s] = "first"]
  /\ \/ Waiting = {} /\ UNCHANGED waiter
     \/ \E w \in Waiting : waiter' = [waiter EXCEPT ![w] = "woken"]

SetFirst(s) ==
  /\ ~ready
  /\ ready' = TRUE /\ result' = s
  /\ setter' = [setter EXCEPT ![s] = "first"]
  /\ waiter' = IF waiters > 0 THEN NotifyAll ELSE waiter

SetAgain(s) ==
  /\ ready
  /\ setter' = [setter EXCEPT ![s] = "refused"]
  /\ UNCHANGED <<ready, result, waiter>>

SetValue(s) ==
  /\ MonitorFree /\ setter[s] = "new"
  /\ SetFirst(s) \/ SetAgain(s)
  /\ UNCHANGED <<waiters, listVars>>

Tell(l) == told' = [told EXCEPT ![l] = @ + 1]

NotifyNobody(s) ==
  /\ setter[s] = "first" /\ firstListener = None
  /\ setter' = [setter EXCEPT ![s] = "won"]
  /\ UNCHANGED <<ready, result, waitVars, listVars>>

NotifyFirst(s) ==
  /\ setter[s] = "first" /\ firstListener # None
  /\ Tell(firstListener)
  /\ firstListener' = None
  /\ setter' = [setter EXCEPT ![s] = "others"]
  /\ UNCHANGED <<ready, result, waitVars, otherListeners, cursor, direct, added>>

NotifyOther(s) ==
  /\ setter[s] = "others" /\ cursor <= Len(otherListeners)
  /\ Tell(otherListeners[cursor])
  /\ cursor' = cursor + 1
  /\ UNCHANGED <<setVars, waitVars, firstListener, otherListeners, direct, added>>

NotifyEnd(s) ==
  /\ setter[s] = "others" /\ cursor > Len(otherListeners)
  /\ otherListeners' = <<>> /\ cursor' = 1
  /\ setter' = [setter EXCEPT ![s] = "won"]
  /\ UNCHANGED <<ready, result, waitVars, firstListener, direct, added, told>>

SetterNext(s) == NotifyNobody(s) \/ NotifyFirst(s) \/ NotifyOther(s) \/ NotifyEnd(s)

-----------------------------------------------------------------------------
(* addListener() and removeListener() *)

AddFirst(l) ==
  /\ ~ready /\ firstListener = None
  /\ firstListener' = l
  /\ UNCHANGED <<otherListeners, direct>>

AddOther(l) ==
  /\ ~ready /\ firstListener # None
  /\ otherListeners' = Append(otherListeners, l)
  /\ UNCHANGED <<firstListener, direct>>

\* The future has completed: the listener is told at once.
AddDirect(l) ==
  /\ ready
  /\ direct' = l
  /\ UNCHANGED <<firstListener, otherListeners>>

AddListener(l) ==
  /\ MonitorFree
  /\ l \notin added /\ told[l] = 0
  /\ AddFirst(l) \/ AddOther(l) \/ AddDirect(l)
  /\ added' = added \cup {l}
  /\ UNCHANGED <<setVars, waitVars, cursor, told>>

\* The listener has been called; addListener() leaves the block.
ToldDirect ==
  /\ direct # None
  /\ Tell(direct)
  /\ direct' = None
  /\ UNCHANGED <<setVars, waitVars, firstListener, otherListeners, cursor, added>>

RemoveOnly(l) ==
  /\ firstListener = l /\ otherListeners = <<>>
  /\ firstListener' = None
  /\ UNCHANGED otherListeners

\* Fault: the next listener does not become the first one.
RemoveLeadingOnly(l) ==
  /\ firstListener = l /\ otherListeners # <<>>
  /\ firstListener' = None
  /\ UNCHANGED otherListeners

RemoveLeading(l) ==
  /\ firstListener = l /\ otherListeners # <<>>
  /\ firstListener' = Head(otherListeners)
  /\ otherListeners' = Tail(otherListeners)

RemoveOther(l) ==
  /\ firstListener # l
  /\ \E i \in DOMAIN otherListeners :
       /\ otherListeners[i] = l
       /\ otherListeners' = RemoveAt(otherListeners, i)
  /\ UNCHANGED firstListener

\* After the completion removeListener() does nothing.
RemoveListener(l) ==
  /\ MonitorFree /\ ~ready
  /\ RemoveOnly(l) \/ RemoveLeading(l) \/ RemoveOther(l)
  /\ added' = added \ {l}
  /\ UNCHANGED <<setVars, waitVars, cursor, direct, told>>

-----------------------------------------------------------------------------
(* await(), await(timeout), awaitUninterruptibly(...) *)

Goes(w, to) == waiter' = [waiter EXCEPT ![w] = to]

Leave(w, how) == waiters' = waiters - 1 /\ Goes(w, how)

AwaitReady(w) == ready /\ Goes(w, "done") /\ UNCHANGED waiters

\* The timeout is 0 or less.
AwaitNotAtAll(w) == ~ready /\ w \in Timed /\ Goes(w, "gaveUp") /\ UNCHANGED waiters

AwaitWaits(w) == ~ready /\ waiters' = waiters + 1 /\ Goes(w, "waiting")

Await(w) ==
  /\ MonitorFree /\ waiter[w] = "new"
  /\ AwaitReady(w) \/ AwaitNotAtAll(w) \/ AwaitWaits(w)
  /\ UNCHANGED <<setVars, listVars>>

\* wait(...) ends by itself: the timeout, or the check every 5 seconds.
WaitEnds(w) ==
  /\ waiter[w] = "waiting"
  /\ Goes(w, "woken")
  /\ UNCHANGED <<waiters, setVars, listVars>>

\* The thread is interrupted in an interruptible wait.  In an uninterruptible
\* one an interrupt is no more than an end of wait(...).
Interrupt(w) ==
  /\ waiter[w] \in {"waiting", "woken"}
  /\ Goes(w, "interrupted")
  /\ UNCHANGED <<waiters, setVars, listVars>>

\* Faults: the waiter does not look whether it was woken by the value; the
\* timeout counts more than the value.
WakeUnchecked(w) ==
  /\ MonitorFree /\ waiter[w] = "woken"
  /\ Leave(w, "done")
  /\ UNCHANGED <<setVars, listVars>>
WakeTimeoutFirst(w) ==
  /\ MonitorFree /\ waiter[w] = "woken"
  /\ \/ ready /\ Leave(w, "done")
     \/ w \in Timed /\ Leave(w, "gaveUp")
     \/ ~ready /\ Goes(w, "waiting") /\ UNCHANGED waiters
  /\ UNCHANGED <<setVars, listVars>>

Wake(w) ==
  /\ MonitorFree /\ waiter[w] = "woken"
  /\ \/ ready /\ Leave(w, "done")
     \/ ~ready /\ w \in Timed /\ Leave(w, "gaveUp")
     \/ ~ready /\ Goes(w, "waiting") /\ UNCHANGED waiters
  /\ UNCHANGED <<setVars, listVars>>

Throw(w) ==
  /\ MonitorFree /\ waiter[w] = "interrupted"
  /\ Leave(w, "threw")
  /\ UNCHANGED <<setVars, listVars>>

WaiterNext(w) == Wake(w) \/ Throw(w)

-----------------------------------------------------------------------------
Next ==
  \/ \E s \in Setter : SetValue(s) \/ SetterNext(s)
  \/ \E l \in Listener : AddListener(l) \/ RemoveListener(l)
  \/ ToldDirect
  \/ \E w \in Waiter : Await(w) \/ WaitEnds(w) \/ Interrupt(w) \/ WaiterNext(w)

Spec == Init /\ [][Next]_vars

\* Calls that have begun run on, as far as the monitor lets them.  Nothing is
\* assumed of the timer: WaitEnds is not fair.
Fairness ==
  /\ \A s \in Setter : WF_vars(SetterNext(s))
  /\ WF_vars(ToldDirect)
  /\ \A w \in Waiter : WF_vars(WaiterNext(w))

FairSpec == Spec /\ Fairness

-----------------------------------------------------------------------------
(* Properties *)

\* Every variable stays in its range.
TypeOK ==
  /\ ready \in BOOLEAN /\ result \in Setter \cup {None}
  /\ firstListener \in Listener \cup {None} /\ otherListeners \in Seq(Listener)
  /\ cursor \in Nat \ {0} /\ direct \in Listener \cup {None}
  /\ setter \in [Setter -> {"new", "first", "others", "won", "refused"}]
  /\ waiters \in Nat
  /\ waiter \in [Waiter -> {"new", "waiting", "woken", "interrupted", "done", "gaveUp", "threw"}]
  /\ added \subseteq Listener /\ told \in [Listener -> Nat]

\* The listener is in firstListener, in otherListeners ahead of the iterator, or
\* being told.
Pending(l) ==
  \/ l = firstListener \/ l = direct
  \/ \E i \in DOMAIN otherListeners : i >= cursor /\ otherListeners[i] = l

\* Whoever adds, removes and completes: a listener that has not been told is
\* still kept for it, and once the future has completed a thread is at the place
\* of notifyListeners() that finds it.  In particular there are no others
\* without a first one, for which notifyListeners() would not look.
NobodyForgotten ==
  /\ \A l \in added : told[l] = 0 => Pending(l)
  /\ ~ready /\ firstListener = None => otherListeners = <<>>
  /\ ready /\ firstListener # None => \E s \in Setter : setter[s] = "first"
  /\ ready /\ firstListener = None /\ otherListeners # <<>>
     => \E s \in Setter : setter[s] = "others"

\* A thread is never left waiting on a completed future: the count that saves
\* setValue() the notifyAll() misses nobody, and nobody needs the 5 s check.
NobodySleeps == ready => Waiting = {}

\* await() returns only when the future has completed; a thread gives up only
\* if it passed a timeout.
AnswersTruthful ==
  \A w \in Waiter : (waiter[w] = "done" => ready) /\ (waiter[w] = "gaveUp" => w \in Timed)

\* Whoever waits for a future that completes returns, without the timer's help.
AwaitReturns ==
  \A w \in Waiter : (ready /\ waiter[w] \in {"waiting", "woken", "interrupted"})
                    ~> (waiter[w] \in {"done", "threw"})

Promise == INSTANCE FuturePromise WITH
  Value <- Setter, value <- result, registered <- added

\* The future implements FuturePromise: one value, and every listener that was
\* added before or after the completion and not removed before it is told
\* exactly once, the others never.
PromiseSpec == Promise!Spec
PromiseSafe == Promise!Safe
===============================================================================
