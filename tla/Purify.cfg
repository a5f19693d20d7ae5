CONSTANTS
  Word = 2
  Widest = 4
  Header = 2
  RedZone = 3
  Padding = 1
  HeapBytes = 30
  MaxBytes = 1
  MaxWild = 1
SPECIFICATION Spec
INVARIANTS WildIsContained NothingSlips LegalProgramsRun
PROPERTIES AccessEnds
CHECK_DEADLOCK FALSE
