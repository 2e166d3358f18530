SPECIFICATION Spec
CONSTANTS
    Windows = {w1, w2}
    Hosts = {h1}
    Ports = {5900, 5901}
    DefaultPort = 5900
    Names = {none}
    NoName = none
    Versions = {}
    Users = {}
    NoUser = nobody
    MaxSessions = 2
    InitLists = {}
    Writable = {TRUE}
    Kills = FALSE
    Overlap = TRUE
    w1 = w1  w2 = w2
    h1 = h1
    none = none
    nobody = nobody
SYMMETRY Symmetry
INVARIANT RememberedStays
CHECK_DEADLOCK FALSE
