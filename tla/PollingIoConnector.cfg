SPECIFICATION Spec
CONSTANTS
  Requests = {q1, q2}
  Cancellable = {q1}
  Forgotten = {}
  Disposers = {q2}
  Connectors = {k1, k2}
  NoConnector = NoConnector
INVARIANTS ConnectorSlotOwner NotClosedUnderSession
PROPERTIES ConnectCompletesWhenCounted
CHECK_DEADLOCK FALSE
