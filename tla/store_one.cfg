SPECIFICATION Spec
CONSTANTS
    Windows = {w1, w2}
    Hosts = {h1}
    Ports = {5900, 5901}
    DefaultPort = 5900
    Names = {none}
    NoName = none
    Versions = {1}
    Users = {u1}
    NoUser = nobody
    MaxSessions = 2
    InitLists = {}
    Writable = {TRUE, FALSE}
    Kills = TRUE
    Overlap = FALSE
    w1 = w1  w2 = w2
    h1 = h1
    none = none
    u1 = u1
    nobody = nobody
SYMMETRY Symmetry
INVARIANTS TypeOK PasswordMovedByFormOnly 
CHECK_DEADLOCK FALSE
