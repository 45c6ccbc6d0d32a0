---------------------------- MODULE SessionLifecycle ---------------------------
(***************************************************************************)
(* What an I/O processor promises about each session given to it: the      *)
(* session is created at most once, destroyed at most once and only after  *)
(* it was created, and a session that was destroyed, or dropped before it  *)
(* could be created, never comes back.  The listener events sessionCreated *)
(* and sessionDestroyed, and the handler's sessionOpened and sessionClosed,*)
(* are the steps Create and Destroy.                                       *)
(***************************************************************************)
CONSTANT Session

VARIABLE phase

Init == phase = [s \in Session |-> "fresh"]

Move(s, from, to) ==
  /\ phase[s] \in from
  /\ phase' = [phase EXCEPT ![s] = to]

\* add()
Add(s) == Move(s, {"fresh"}, "added")
\* sessionCreated, sessionOpened
Create(s) == Move(s, {"added"}, "open")
\* sessionClosed, sessionDestroyed
Destroy(s) == Move(s, {"open"}, "destroyed")
\* destroyed before it was created: no event is fired
Drop(s) == Move(s, {"fresh", "added"}, "dropped")

Next == \E s \in Session : Add(s) \/ Create(s) \/ Destroy(s) \/ Drop(s)

Spec == Init /\ [][Next]_phase
===============================================================================
