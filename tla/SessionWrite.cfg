SPECIFICATION Spec
CONSTANTS
  Msg = {m1, m2, m3, m4, m5}
  CloseRequest = CloseRequest
  NoMsg = NoMsg
  Size = 2
  Capacity = 2
  Unencoded = {m3}
  Regions = {m4}
  Altered = {m5}
  ClosesNow = TRUE
  ClosesOnFlush = TRUE
  Breaks = TRUE
  TimesOut = TRUE
  Toggles = {"read", "write"}
  MaxToggles = 1
SYMMETRY Symmetry
ACTION_CONSTRAINT Bounded
INVARIANTS
  FlushedOnce
  WireTruthful
  FlushBeforeClose
