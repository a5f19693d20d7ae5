CONSTANTS
  NSectors = 2
  Values = {p, q}
  MaxSectors = 2
  MaxTries = 2
  MaxRetries = 2
  MaxFaults = 2
SPECIFICATION Spec
INVARIANTS
  AddressingAgrees
  RetriesAbsorb
  InitAbsorbs
PROPERTIES
  EndsOrPanics
  LateIsCaught
  ImplementsSectorStore
CHECK_DEADLOCK FALSE
