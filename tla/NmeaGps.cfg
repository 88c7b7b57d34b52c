\* One thread of the program besides the parser.  Three sentences fill the
\* queues beyond the first depth; the depths are clamped to 1, 2 and 3.
CONSTANTS
    p1 = p1
    p2 = p2
    User = {u1}
    Prn = {p1, p2}
    Gsv <- MCGsv
    Depths = {0, 2, 9}
    MAX_DEPTH = 3
    FIRST_DEPTH = 2
    MaxSentences = 3
SPECIFICATION FairSpec
INVARIANTS TypeOK WithinDepth SatellitesCurrent FixBeforeRaw NoBlankMessage ThreadsInOrder
PROPERTY StopReturns
\* When the device cannot be read the program ends.
CHECK_DEADLOCK FALSE
