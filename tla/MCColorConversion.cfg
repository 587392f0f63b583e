SPECIFICATION CscSpec
CONSTANTS
  MaxHeight = 40
INVARIANTS
  SplitIsWhole
