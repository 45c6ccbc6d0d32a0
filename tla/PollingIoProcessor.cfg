SPECIFICATION Spec
CONSTANTS
  Session = {s1, s2}
  Runner = {r1, r2, r3}
  NoRunner = NoRunner
  NoSession = NoSession
  EarlyClosable = {s1, s2}
  Breakable = {s1, s2}
  Disposes = TRUE
  MaxRemoving = 1
SYMMETRY Symmetry
ACTION_CONSTRAINT Bounded
INVARIANTS
  SlotOwner
  LiveSlot
  NothingStranded
PROPERTY LifecycleSpec
CHECK_DEADLOCK FALSE
