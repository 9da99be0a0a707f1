SPECIFICATION Spec
CONSTANTS
    Unrated = {2}
    N = 2
    r1 = r1
    r2 = r2
    Names <- MCNames
    NoName = none
    Recorded <- MCRecorded
    Speeds = {2}
    Seconds = {1}
INVARIANTS SlotsMatch ChannelsAgree DamageKnown
PROPERTIES EveryCommandEnds
