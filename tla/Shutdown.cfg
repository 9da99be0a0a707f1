SPECIFICATION ProcessSpec
CONSTANTS
    Unrated = {}
    N = 2
    r1 = r1
    Names = {r1}
    NoName = none
    Recorded <- MCRecorded
    Speeds = {}
    Seconds = {}
INVARIANTS EndInv ServesOnLiveManager
PROPERTIES SignalEnds
