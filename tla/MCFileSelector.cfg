SPECIFICATION Spec
CONSTANTS
  ItemNum = 3
  MaxMediaFiles = 5
  MaxEntries = 6
INVARIANTS
  SelectionShown
PROPERTIES
  SkipsToAnother
  ImplementsRing
