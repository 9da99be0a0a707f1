SPECIFICATION SenderSpec
CONSTANTS
  Gop = 3
  Slots = 2
  Targets = {0, 2, 5}
  MaxSeeks = 3
  MaxPts = 8
  MaxTime = 4
  PACKET_SIZE = 2
  Sizes = {1, 4}
INVARIANTS Paced NothingBeforeSeek WaitIsShort Announced
