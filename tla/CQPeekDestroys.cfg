CONSTANTS
  N = 4
  M = 16
  W = 2
  MaxPush = 4
  Handler = "producer"
SPECIFICATION PeekSpec
INVARIANT PeekIsNonDestructive
CHECK_DEADLOCK FALSE
