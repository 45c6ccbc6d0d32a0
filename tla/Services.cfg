SPECIFICATION Spec
CONSTANTS
  Sessions = {1, 2, 3}
  Unbinders = {u1}
  PoolSizes = {1, 2}
  Peers = {p1, p2}
  MaxSessions = 3
  Receivers = {r1, r2}
  Expirer = x
  Closers = {x, c1}
  NoPeerSession = no
  Datagrams = {m1, m2, m3}
  Clients = {c}
  IoThread = io
  NoDatagram = no
  Budget = 1
  MaxBlocked = 2
  Names = {n1, n2}
  MaxEntries = 3
  Walks = {w1}
  HeadEntry = head
  TailEntry = tail
  NoEntry = none
  MaxBuilder = 2
  IoThreads = {t1, t2}
  Counted = {readBytes}
  IntRange = 4
  Pauses = {1, 5}
  MaxCounted = 2
  MaxClock = 7
  Watched = {s1, s2}
  MaxTries = 1
  MaxSelectors = 3
  MaxToggles = 1
  Putters = {r1, r2}
  MaxStops = 2
INVARIANTS ServiceSound DisconnectedAll OneSessionPerPeer BacklogHasFlush ChainSound WalkSeesAll
ACTION_CONSTRAINT Bounded
CHECK_DEADLOCK FALSE
