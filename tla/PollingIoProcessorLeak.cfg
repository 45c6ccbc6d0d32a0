SPECIFICATION FairSpec
CONSTANTS
  Session = {s1}
  Runner = {r1, r2}
  NoRunner = NoRunner
  NoSession = NoSession
  EarlyClosable = {}
  Breakable = {s1}
  Disposes = TRUE
  MaxRemoving = 1
PROPERTY DisposeCompletes
CHECK_DEADLOCK FALSE
