SPECIFICATION Spec
CONSTANTS
    MaxInt = 15
    MaxLargestInt = 127
    DoubleExact = 63
    Documents <- MCDocuments
    Words <- MCWords
    StackLimit = 4
    OldRoots <- MCOldRoots
    RightMargin = 9
    SignedChar = TRUE
    Directories <- MCDirectories
INVARIANTS ReadsGrammar PointersLive RoundTrip Numbers OwnEntries
CHECK_DEADLOCK FALSE
