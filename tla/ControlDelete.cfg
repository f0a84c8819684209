SPECIFICATION FairControlSpec
CONSTANTS
    c = c
    n1 = n1
    u1 = u1
    u2 = u2
    u3 = u3
    s1 = s1
    s2 = s2
    NoNode = NoNode
    NoUuid = NoUuid
    Procs = {c, n1}
    Nodes = {n1}
    Leader = c
    Uuids = {u1, u2, u3}
    Caps = {1}
    MiB = 2
    Slots = {s1, s2}
    Hazards = {"deletetimeout"}
    MaxFaults = 3
    MaxLog = 12
INVARIANTS
    DeletedIsGone
PROPERTIES
    CreateCompletes
CHECK_DEADLOCK FALSE
