SPECIFICATION FairSpec
CONSTANTS
  MaxSeeks = 1
  MaxQueue = 0
  MaxFrames = 1
PROPERTIES
  SeekServed
  SeekShows
  StopTerminates
