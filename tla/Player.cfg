SPECIFICATION Spec
CONSTANTS
  End = 6
  Fps = 2
  Gop = 3
  MaxQueue = 2
  Seconds = {0, 1, 2}
  MaxSeeks = 3
  MaxToggles = 2
CHECK_DEADLOCK FALSE
INVARIANTS RingInv Spread
PROPERTIES Shown
