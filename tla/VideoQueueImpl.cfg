SPECIFICATION Spec
CONSTANTS
  NSlots = 3
  FileLen = 7
  MaxSeeks = 2
  NoPacket = NoPacket
  Torn = Torn
INVARIANTS InOrder FlushComplete SeekNotAhead
PROPERTIES ImplementsChannel Delivery
