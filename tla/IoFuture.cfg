SPECIFICATION FairSpec
CONSTANTS
  Setter = {s1, s2}
  Listener = {l1, l2, l3}
  Waiter = {w1, w2}
  Timed = {w1}
  None = None
INVARIANTS
  NobodyForgotten
  NobodySleeps
  AnswersTruthful
PROPERTIES
  AwaitReturns
  PromiseSpec
CHECK_DEADLOCK FALSE
