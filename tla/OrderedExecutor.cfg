SPECIFICATION FairSpec
CONSTANTS
  Event = {e1,e2}
  Session = {a}
  SessionOf <- OneSession
  Submitted = {e1,e2}
  Rejectable = {e2}
  Throwing = {e2}
  Worker = {w1,w2}
  Null = Null
  EXIT_SIGNAL = EXIT_SIGNAL
  PoolSizes = {0, 1}
  MaxSize = 2
  MaxResizes = 1
INVARIANTS OneInCharge EventsHaveKeeper NothingStranded
PROPERTIES SerialSpec TerminationSeen
CHECK_DEADLOCK FALSE
