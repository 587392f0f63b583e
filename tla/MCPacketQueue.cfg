SPECIFICATION FairSpec
CONSTANTS
  NumPackets = 4
  PacketSize <- MCPacketSize
  MaxQueueSize = 2
  MaxSeeks = 2
INVARIANTS
  ListIsFifo
  NoUseAfterFree
  HeapAccounted
  QueueBounded
PROPERTIES
  ImplementsFifo
  CloseTerminates
