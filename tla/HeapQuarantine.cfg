CONSTANTS
  NUnits = 10
  NALLOC = 5
  NRoots = 2
  Sizes = {1, 2}
  MaxTotal = 3
  Quarantine = TRUE
SPECIFICATION Spec
INVARIANTS
  GcComplete
CHECK_DEADLOCK FALSE
