SPECIFICATION FairSpec
CONSTANTS
  OutRate = 7
  InRate = 4
  Phases = 2
  Taps = 3
  Slack = 3
  FrameSizes = {3, 5}
  Length = 4
  HwSize = 8
  BufSize = 15
  Channels = {1, 2, 3}
  MaxPackets = 2
  PacketFrames = 2
  MaxCallbacks = 3
INVARIANTS
  NoDrift
  DriverFilled
  NothingLost
  EarsAligned
  ClockNear
PROPERTIES
  CallbackEnds
