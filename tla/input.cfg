SPECIFICATION Spec
CONSTANTS
    Modifiers = {"ctrl", "alt", "shift"}
    CtrlAlt = {"ctrl", "alt"}
    Keys = {"delete"}
    Delete = "delete"
    Widths = {2, 4}
    Positions <- MCPositions
    Zoom <- MCZoom
    MaxEvents = 2
INVARIANTS TypeOK ModifiersInStep StuckByFocusOnly PointerInside
