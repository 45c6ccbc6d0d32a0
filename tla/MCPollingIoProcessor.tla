------------------------- MODULE MCPollingIoProcessor -------------------------
(* PollingIoProcessor for TLC: sessions and runnables are interchangeable    *)
(* when every session, or none, is early-closable and breakable.             *)
EXTENDS PollingIoProcessor, TLC

Symmetry == Permutations(Session) \cup Permutations(Runner)

\* Two sessions and two Processors at a time without a dispose(), one session
\* and three Processors with it.
Bounded ==
  IF disposing'
  THEN Cardinality({s \in Session : callPc'[<<"add", s>>] # "ready" \/ callPc'[<<"close", s>>] # "ready"}) <= 1
  ELSE Cardinality({r \in Runner : pc'[r] # "idle"}) <= 2
===============================================================================
