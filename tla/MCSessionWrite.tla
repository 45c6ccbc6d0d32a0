--------------------------- MODULE MCSessionWrite -----------------------------
(* SessionWrite for TLC. *)
EXTENDS SessionWrite, FiniteSets, TLC

\* Messages are interchangeable, as far as they are of the same kind.
Symmetry == Permutations(Msg \ Odd)

\* A behaviour suspends and resumes the traffic, or it writes one of the
\* messages at which flushNow() may throw and one other, or it meets closeNow();
\* errors and timeouts it meets in either case, save with a message that nobody
\* encoded.
Bounded ==
  /\ abrupt' => toggles' = 0
  /\ toggles' > 0 => \A m \in Odd : writer'[m] = "new"
  /\ abrupt' => \A m \in Unencoded : writer'[m] = "new"
  /\ (\E m \in Odd : writer'[m] # "new") => closer' = "new" /\ Cardinality({m \in Msg : writer'[m] # "new"}) <= 2
===============================================================================
