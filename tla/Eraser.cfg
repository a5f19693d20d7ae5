CONSTANTS
  NWords = 2
  MAXTHREADS = 3
  Locks = {1, 4, 5}
  LsRange = 4
SPECIFICATION Spec
INVARIANTS
  NoFalseAlarm
  ExclusiveToOne
PROPERTIES
  LocksAgree
CHECK_DEADLOCK FALSE
