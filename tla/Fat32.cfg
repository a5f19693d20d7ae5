CONSTANTS
  a = a
  b = b
  p = p
  q = q
  None = None
  NEntries = 6
  PerSector = 4
  NSlots = 2
  Names = {a, b}
  Dotless = {}
  Payloads = {p, q}
  MaxLen = 2
  Profiles <- CrashOrNot
SPECIFICATION FairSpec
INVARIANTS
  NoDangling
  NoCrossLinks
  Durable
  PanicsJustified
  NoLeak
PROPERTIES
  AtomicOnCard
  
CHECK_DEADLOCK FALSE
