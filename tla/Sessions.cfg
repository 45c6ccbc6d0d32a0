SPECIFICATION Spec
CONSTANTS
  Letters = {x, bad}
  Bad = bad
  CR = r
  LF = n
  MaxStream = 6
  MaxFragment = 3
  MaxContent = 3
  MaxMessages = 3
  NoLength = nolength
  Bytes = {b}
  FreshByte = fresh
  MaxCapacity = 3
  Readers = {r1, r2}
  Offerers = {io1, c}
  IoOfferer = io1
  Unset = unset
  ClosedValue = closedvalue
  MaxReads = 4
  MaxOffers = 3
  Writers = {w1, w2}
  BothIdleTime = 2
  ReaderIdleTime = 1
  WriterIdleTime = 2
  WriteTimeout = 2
  MaxSize = 2
  MaxWrites = 2
  MaxTime = 3
  StreamReaders = {r1, r2}
  StreamWriters = {u1, u2}
  Processor = io1
  MaxArrivals = 3
  MaxStreamWrites = 3
  ProxyClients = {c1, c2}
  ProxyIo = io1
  MaxProxyWrites = 2
  MaxIdle = 1
  MaxBody = 3
  MaxResponses = 3
  NoContentLength = nolength
  NoBuffer = null
  Encoders = {e1, e2}
  MaxParts = 2
  MaxMessagesOut = 2
  Width = 2
  FilterSessions = {1}
  Listable = {1, 2}
  MaxListed = 2
  MaxIdles = 1
  CommandNames = {n1, n2}
  Executions = {x1}
  MaxCommands = 4
  EventTypes = {received, sent}
  Measurers = {t1, t2}
  MaxDuration = 2
  MaxMeasured = 2
  MaxTimers = 2
  ConfigMax = 7
  DefaultSize = 2
  DefaultMin = 1
  DefaultMax = 4
  SizesSet = {1, 3, 6}
  MaxSettings = 3
  Algorithms = {"md5", "sha"}
  Qops = {"auth", "auth-int"}
  MaxOrder = 2
  MaxValues = 2
  MaxOptions = 2
  Keys = {k1, k2}
  PlainBytes = {x}
  MaxValue = 2
INVARIANTS CodecsSound BufferSound  ProxySound FiltersSound
CHECK_DEADLOCK FALSE
