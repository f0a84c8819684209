SPECIFICATION ControlSpec
CONSTANTS
    c = c
    n1 = n1
    u1 = u1
    u2 = u2
    u3 = u3
    s1 = s1
    s2 = s2
    NoNode = NoNode
    NoUuid = NoUuid
    Procs = {c, n1}
    Nodes = {n1}
    Leader = c
    Uuids = {u1, u2, u3}
    Caps = {1}
    MiB = 2
    Slots = {s1, s2}
    Hazards = {"failover"}
    MaxFaults = 1
    MaxLog = 12
SYMMETRY MCSymmetry
INVARIANTS
    DeletedIsGone
CHECK_DEADLOCK FALSE
