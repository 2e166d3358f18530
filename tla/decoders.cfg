SPECIFICATION Spec
CONSTANTS
    Width = 4
    Height = 3
    TileSide = 3
    RunByte = 2
    HexSide = 2
    MinToCompress = 12
    LenBase = 5
    Encodings <- MCAll
    Rects <- MCRects
    Drawings <- MCDrawings
    Formats <- MCFormats
    Controls <- MCControls
    PackedSizes <- MCSmall
    MaxRects = 2
INVARIANTS
    TypeOK
    DecodedUnlessDisputed
    StreamsUnlessDisputed
CHECK_DEADLOCK FALSE
