CONSTANTS
  Writers = {w1, w2}
  Formats <- ProxyFormats
  MaxFrames = 3
  MaxBody = 1
  Capacity = 3
  Transfer = 3
SPECIFICATION Spec
CHECK_DEADLOCK FALSE
INVARIANT PacksValid
