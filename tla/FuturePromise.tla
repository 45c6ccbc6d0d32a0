----------------------------- MODULE FuturePromise -----------------------------
(***************************************************************************)
(* What an IoFuture promises: its value is set once and stays; a listener  *)
(* that is registered is told the value exactly once, never before it is   *)
(* set, unless it was withdrawn before that.                               *)
(***************************************************************************)
CONSTANTS Value, Listener, None

VARIABLES value, registered, told

vars == <<value, registered, told>>

Init == value = None /\ registered = {} /\ told = [l \in Listener |-> 0]

\* setSession(), setWritten(), setClosed(), setException(), cancel() ...
Complete(v) ==
  /\ value = None /\ value' = v
  /\ UNCHANGED <<registered, told>>

\* addListener(), before or after the completion
Register(l) ==
  /\ l \notin registered /\ told[l] = 0
  /\ registered' = registered \cup {l}
  /\ UNCHANGED <<value, told>>

\* removeListener()
Withdraw(l) ==
  /\ value = None
  /\ registered' = registered \ {l}
  /\ UNCHANGED <<value, told>>

\* operationComplete()
Tell(l) ==
  /\ value # None
  /\ l \in registered /\ told[l] = 0
  /\ told' = [told EXCEPT ![l] = 1]
  /\ UNCHANGED <<value, registered>>

Next ==
  \/ \E v \in Value : Complete(v)
  \/ \E l \in Listener : Register(l) \/ Withdraw(l) \/ Tell(l)

Safe == Init /\ [][Next]_vars

Spec == Safe /\ \A l \in Listener : WF_vars(Tell(l))
===============================================================================
