CONSTANTS
  NNames = 3
  TimerMod = 7
  Timeout = 3
  MaxStep = 1
  MaxPersons = 4
  None = None
SPECIFICATION Spec
INVARIANTS
  SavedIsKept
  OnePersonPerFile
  NotForgotten
PROPERTIES
  NotCutShort
  UsesStore
CHECK_DEADLOCK FALSE
