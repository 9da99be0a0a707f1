SPECIFICATION Spec
CONSTANTS
    Unrated = {}
    N = 2
    r1 = r1
    r2 = r2
    Names <- MCNames
    NoName = none
    Recorded <- MCRecorded
    Speeds = {}
    Seconds = {}
PROPERTIES DeletesNoOther
