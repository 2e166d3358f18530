SPECIFICATION FairSpec
CONSTANTS
    Cap = 2
    Buf = 2
    WireCap = 1
    MaxFrame = 2
    MaxDown = 5
    MaxUp = 4
INVARIANTS TypeOK NoncesInStep NothingLost
PROPERTIES DownArrives UpArrives
CHECK_DEADLOCK FALSE
