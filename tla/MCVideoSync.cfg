SPECIFICATION FairSpec
CONSTANTS
  NumSlots = 1
  Gap = 3
  Threshold = 1
  NoSync = 40
  MinDelay = 1
  Poll = 1
  FirstDelay = 3
  Second = 8
  ReadAhead = 14
  DecodeTimes = {1, 2}
  MaxLate = 1
  ClockErrors = {0}
  Landings <- MCLandings
  MaxPause = 2
  MaxPauses = 1
  MaxSeeks = 1
INVARIANTS
  RefreshNear
  SkipsBounded
PROPERTIES
  SyncRestored
