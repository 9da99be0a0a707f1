SPECIFICATION Spec
CONSTANTS
    NFiles = 3
    Length <- MCLength
    Frames = {0, 3, 4}
    MaxSeeks = 2
    MaxSets = 2
    MaxAudio = 2
INVARIANTS BlockInv Landed
PROPERTIES ExitEnds
