CONSTANTS
  a = a
  b = b
  p = p
  q = q
  None = None
  NEntries = 6
  PerSector = 8
  NSlots = 2
  Names = {a, b}
  Dotless = {}
  Payloads = {p, q}
  MaxLen = 2
  Profiles <- TruncateZeroOnly
SPECIFICATION Spec
INVARIANTS
  NoCrossLinks
CHECK_DEADLOCK FALSE
