SPECIFICATION Spec
CONSTANTS
    NFiles = 2
    Length <- MCLength
    MaxQueue = 2
    MaxOpens = 4
    MaxMoves = 2
INVARIANTS FirstPacketSafe FilterInv
PROPERTIES ExitEnds
