SPECIFICATION FairSpec
CONSTANTS
  Msg = {m1, m2}
  CloseRequest = CloseRequest
  NoMsg = NoMsg
  Size = 2
  Capacity = 3
  Unencoded = {}
  Regions = {}
  Altered = {}
  ClosesNow = FALSE
  ClosesOnFlush = TRUE
  Breaks = FALSE
  TimesOut = FALSE
  Toggles = {}
  MaxToggles = 0
INVARIANTS
  NoLostFlush
PROPERTIES
  WritesComplete
