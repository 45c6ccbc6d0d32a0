SPECIFICATION FairSpec
CONSTANTS
  Session = {s1, s2}
  Runner = {r1, r2}
  NoRunner = NoRunner
  NoSession = NoSession
  EarlyClosable = {}
  Breakable = {}
  Disposes = FALSE
  MaxRemoving = 1
INVARIANTS
  CountNotTooHigh
PROPERTIES
  SessionsProgress
  IdleProcessorStops
CHECK_DEADLOCK FALSE
