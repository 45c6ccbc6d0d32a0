SPECIFICATION Spec
CONSTANTS
  Requests = {q1, q2}
  Cancellable = {q1}
  Forgotten = {}
  Disposers = {}
  Connectors = {k1}
  NoConnector = NoConnector
PROPERTIES ConnectCompletes
CHECK_DEADLOCK FALSE
