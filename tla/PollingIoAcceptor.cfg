SPECIFICATION Spec
CONSTANTS
  Addresses = {a1, a2}
  Binds = {b1}
  Unbinds = {u1}
  Disposals = {d1}
  Acceptors = {r1, r2}
  NoCall = NoCall
  NoAcceptor = NoAcceptor
  Wild = Wild
INVARIANTS AcceptorSlotOwner BoundTruthfully SleepsOnlyIdle
PROPERTIES CallsReturn
CHECK_DEADLOCK FALSE
