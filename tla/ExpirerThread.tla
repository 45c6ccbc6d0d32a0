---------------------------- MODULE ExpirerThread ----------------------------
(***************************************************************************)
(* The thread that expires the sessions of an EExpiringSessionRecycler.    *)
(* The first put() starts it (startExpiringIfNotStarted(), which looks     *)
(* with the read lock and again with the write lock), stopExpiring() lets  *)
(* it end; it looks at the flag without any lock.  (ENioDatagramAcceptor   *)
(* calls put() under a monitor; the map takes care of callers without.)    *)
(***************************************************************************)
EXTENDS Integers, FiniteSets

CONSTANTS
  Putters,   \* threads that put() a session, each its own
  MaxStops   \* bound: calls of stopExpiring()

Nobody == "nobody"

ASSUME ExpirerAssumption == MaxStops \in Nat /\ Nobody \notin Putters

VARIABLES
  putter,      \* where each put() stands
  writer,      \* who has stateLock's write lock
  expiring,    \* the flag `running'
  thread,      \* "new", "looking", "searching", "sleeping", "ended"
  sessionMap,  \* putters whose session is in the map
  stops        \* the calls of stopExpiring()

expirerVars == <<putter, writer, expiring, thread, sessionMap, stops>>

ExpirerInit ==
  /\ putter = [p \in Putters |-> "idle"] /\ writer = Nobody
  /\ expiring = FALSE /\ thread = "new" /\ sessionMap = {} /\ stops = 0

PutStep(p, from, to) == putter[p] = from /\ putter' = [putter EXCEPT ![p] = to]

----------------------------------------------------------------------------
(* put() first sees to the thread, then to the map.  Fault: the other way. *)

PutMapFirst(p) ==
  /\ PutStep(p, "idle", "look") /\ sessionMap' = sessionMap \cup {p}
  /\ UNCHANGED <<writer, expiring, thread, stops>>

Put(p) ==
  /\ PutStep(p, "idle", "look")
  /\ UNCHANGED <<writer, expiring, thread, sessionMap, stops>>

(* Fault: the flag is read without the lock. *)
LookWithoutLock(p) ==
  /\ PutStep(p, "look", IF expiring THEN "map" ELSE "start")
  /\ UNCHANGED <<writer, expiring, thread, sessionMap, stops>>

LookIfStarted(p) ==
  /\ writer = Nobody
  /\ PutStep(p, "look", IF expiring THEN "map" ELSE "start")
  /\ UNCHANGED <<writer, expiring, thread, sessionMap, stops>>

(* Fault: the second look is left out. *)
SetRunningAgain(p) ==
  /\ writer = Nobody /\ PutStep(p, "start", "starting")
  /\ writer' = p /\ expiring' = TRUE
  /\ UNCHANGED <<thread, sessionMap, stops>>

SetRunning(p) ==
  /\ writer = Nobody
  /\ \/ ~expiring /\ PutStep(p, "start", "starting") /\ writer' = p
     \/ expiring /\ PutStep(p, "start", "map") /\ UNCHANGED writer
  /\ expiring' = TRUE
  /\ UNCHANGED <<thread, sessionMap, stops>>

(* A thread is started once: a second start() throws, out of put().        *)
StartThread(p) ==
  /\ \/ thread = "new" /\ PutStep(p, "starting", "map") /\ thread' = "looking"
     \/ thread # "new" /\ PutStep(p, "starting", "thrown") /\ UNCHANGED thread
  /\ writer' = Nobody
  /\ UNCHANGED <<expiring, sessionMap, stops>>

PutInMap(p) ==
  /\ PutStep(p, "map", "done") /\ sessionMap' = sessionMap \cup {p}
  /\ UNCHANGED <<writer, expiring, thread, stops>>

StopExpiring ==
  /\ writer = Nobody /\ stops < MaxStops
  /\ expiring' = FALSE /\ stops' = stops + 1
  /\ UNCHANGED <<putter, writer, thread, sessionMap>>

(* run(): processExpires() while the flag is set; a sleep that ends or is  *)
(* interrupted. *)
LookIfRunning ==
  /\ thread = "looking" /\ thread' = IF expiring THEN "searching" ELSE "ended"
  /\ UNCHANGED <<putter, writer, expiring, sessionMap, stops>>

ProcessExpires ==
  /\ thread = "searching" /\ thread' = "sleeping"
  /\ \E old \in SUBSET sessionMap : sessionMap' = sessionMap \ old
  /\ UNCHANGED <<putter, writer, expiring, stops>>

SleepEnds ==
  /\ thread = "sleeping" /\ thread' = "looking"
  /\ UNCHANGED <<putter, writer, expiring, sessionMap, stops>>

----------------------------------------------------------------------------
ExpirerNext ==
  \/ \E p \in Putters : Put(p) \/ LookIfStarted(p) \/ SetRunning(p) \/ StartThread(p) \/ PutInMap(p)
  \/ StopExpiring \/ LookIfRunning \/ ProcessExpires \/ SleepEnds

ExpirerSpec == ExpirerInit /\ [][ExpirerNext]_expirerVars

(* As long as nobody has stopped it, every session in the map is watched   *)
(* by a thread that has been started and not ended, however many put()s    *)
(* come first at once, and none of them fails.  (Once it was stopped the   *)
(* thread is never started again: the flag says it runs, and nobody        *)
(* expires anything.)  A put() can only fail after stopExpiring().         *)
SessionsWatched ==
  stops = 0 =>
    /\ sessionMap # {} => thread \notin {"new", "ended"}
    /\ \A p \in Putters : putter[p] # "thrown"
==============================================================================
