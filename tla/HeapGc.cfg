CONSTANTS
  NUnits = 10
  NALLOC = 5
  NRoots = 2
  Sizes = {1, 2}
  MaxTotal = 3
  Quarantine = FALSE
SPECIFICATION Spec
INVARIANTS
  HeapAccounted
  GcComplete
  LeaksExact
PROPERTIES
  GcSafe
CHECK_DEADLOCK FALSE
