CONSTANTS
  FifoSize = 2
  FrameSize = 3
  Coords = {0, 2}
  Floating = 3
  Tolerance = 1
  ShowEvery = 2
  MaxFaults = 1
SPECIFICATION Spec
INVARIANTS
  OneMeansMoved
  NoPhantomTouch
PROPERTIES
  FailureIsForEver
  CallsReturn
CHECK_DEADLOCK FALSE
