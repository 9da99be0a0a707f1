SPECIFICATION Spec
CONSTANTS
    MaxAudio = 3
    MaxPuts = 7
    EnableCalled = TRUE
INVARIANTS InOrder RingInv
PROPERTIES RaceNeedsFullRing
