SPECIFICATION FairSpec
CONSTANTS
  MaxPictures = 3
INVARIANTS
  WholePicture
PROPERTIES
  ScreenForward
  ConversionEnds
