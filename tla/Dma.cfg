CONSTANTS
  Base = 4
  Digits = 3
  DelayBlocks = 1
  Capacity = 45
SPECIFICATION Spec
INVARIANTS SumsRight BlinksCount
PROPERTIES ChainsEnd
CHECK_DEADLOCK FALSE
