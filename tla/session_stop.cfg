SPECIFICATION FairSpec
CONSTANTS
    Sizes <- MCOne
    Colours = {c1}
    Black = black
    MaxInputs = 2
    MaxDraws = 0
    MaxResizes = 0
    MaxNotices = 1
    MaxRects = 2
    Endings = {"user", "server"}
INVARIANTS
    EndAnnounced
    RequestOutstanding
PROPERTIES
    InputsInOrder
    InputArrives
    DisconnectEnds
    CloseLearned
CHECK_DEADLOCK FALSE
