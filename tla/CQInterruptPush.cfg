CONSTANTS
  N = 8
  M = 32
  W = 2
  MaxPush = 9
  Handler = "producer"
SPECIFICATION FairSpec
INVARIANTS NothingLost NoPanic
PROPERTIES ImplementsFifo AllDelivered
CHECK_DEADLOCK FALSE
