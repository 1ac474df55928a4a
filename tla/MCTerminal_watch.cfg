SPECIFICATION FairSpec
CONSTANTS
    Viewer = {v1, v2}
    Length <- MCLength
    Limit = 1
    Capacity = 2
    MaxFaults = 1
INVARIANTS TypeOK MissedOnlyInGap LinesInOrder DoneMeansOver
PROPERTIES ViewersEnd
CHECK_DEADLOCK FALSE
