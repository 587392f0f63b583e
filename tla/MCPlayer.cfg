SPECIFICATION FairSpec
CONSTANTS
  Kinds = {"av", "music", "mute", "bad"}
  MaxStreams = 2
INVARIANTS
  StateOutlivesThread
  CallbackFindsStream
  NothingLeaks
  VideoClock
PROPERTIES
  CloseEnds
  ExitEnds
