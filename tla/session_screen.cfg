SPECIFICATION FairSpec
CONSTANTS
    Sizes <- MCSizes
    Colours = {c1, c2}
    Black = black
    MaxInputs = 0
    MaxDraws = 1
    MaxResizes = 1
    MaxNotices = 0
    MaxRects = 1
    Endings = {"user"}
INVARIANTS
    TypeOK
    TextureFits
    NoRectSkipped
    DecodeInBounds
    RequestOutstanding
    Inv
    ShownAsSent
PROPERTIES
    ScreenShown
CHECK_DEADLOCK FALSE
