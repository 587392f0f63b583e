SPECIFICATION FairSpec
CONSTANTS
  NumSlots = 1
  Dims = {small, large, tall}
  Tall = {tall}
  NoDims = NoDims
  MaxPictures = 3
  MaxStreams = 2
INVARIANTS
  NoTearing
  BufferFits
  RequestServed
PROPERTIES
  DisplayOrder
  StopTerminates
  QueuedIsDisplayed
