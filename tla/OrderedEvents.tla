----------------------------- MODULE OrderedEvents -----------------------------
(***************************************************************************)
(* What EExecutorFilter.hh promises of an ordered pool: the events of a    *)
(* session are run in the order in which they were accepted, and never two *)
(* at a time.  Events may be withdrawn before they are run.                *)
(***************************************************************************)
EXTENDS Integers, Sequences

CONSTANTS Event, Session, SessionOf

VARIABLES pending, inProgress
vars == <<pending, inProgress>>

Init ==
  /\ pending = [s \in Session |-> <<>>]
  /\ inProgress = [s \in Session |-> {}]

Submit(e) ==
  /\ pending' = [pending EXCEPT ![SessionOf[e]] = Append(@, e)]
  /\ UNCHANGED inProgress

Begin(s) ==
  /\ inProgress[s] = {} /\ pending[s] # <<>>
  /\ inProgress' = [inProgress EXCEPT ![s] = {Head(pending[s])}]
  /\ pending' = [pending EXCEPT ![s] = Tail(@)]

End(s) ==
  /\ inProgress[s] # {}
  /\ inProgress' = [inProgress EXCEPT ![s] = {}]
  /\ UNCHANGED pending

\* remove() of one event ...
Withdraw(s, i) ==
  /\ i \in DOMAIN pending[s]
  /\ pending' = [pending EXCEPT ![s] = SubSeq(@, 1, i - 1) \o SubSeq(@, i + 1, Len(@))]
  /\ UNCHANGED inProgress

\* ... or shutdownNow() for all of a session.
WithdrawAll(s) ==
  /\ pending' = [pending EXCEPT ![s] = <<>>]
  /\ UNCHANGED inProgress

Next ==
  \/ \E e \in Event : Submit(e)
  \/ \E s \in Session : Begin(s) \/ End(s) \/ WithdrawAll(s) \/ \E i \in DOMAIN pending[s] : Withdraw(s, i)

Spec == Init /\ [][Next]_vars
===============================================================================
