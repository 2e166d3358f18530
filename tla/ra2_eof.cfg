SPECIFICATION FairSpec
CONSTANTS
    Cap = 2
    Buf = 2
    WireCap = 1
    MaxFrame = 2
    MaxDown = 4
    MaxUp = 3
PROPERTY CloseLearned
CHECK_DEADLOCK FALSE
