SPECIFICATION Spec
CONSTANTS
    Width = 4
    Height = 3
    TileSide = 3
    RunByte = 2
    HexSide = 2
    MinToCompress = 12
    LenBase = 5
    Encodings <- MCTight
    Rects <- MCRects
    Drawings <- MCDrawings
    Formats <- MCFormats
    Controls <- MCPlain
    PackedSizes <- MCSmall
    MaxRects = 2
INVARIANTS
    RectDecoded
CHECK_DEADLOCK FALSE
