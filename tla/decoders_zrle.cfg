SPECIFICATION Spec
CONSTANTS
    Width = 4
    Height = 3
    TileSide = 3
    RunByte = 2
    HexSide = 2
    MinToCompress = 12
    LenBase = 5
    Encodings <- MCZrle
    Rects <- MCRects
    Drawings <- MCDrawings
    Formats <- MCFormats
    Controls <- MCControls
    PackedSizes <- MCAnySize
    MaxRects = 2
INVARIANTS
    RectDecoded
CHECK_DEADLOCK FALSE
