SPECIFICATION Spec
CONSTANTS
  MaxSeeks = 2
  MaxQueue = 1
  MaxFrames = 2
INVARIANTS
  SeekExclusive
  QueuesFresh
  StaleBounded
