SPECIFICATION NodeSpec
CONSTANTS
    c = c
    n1 = n1
    n2 = n2
    u1 = u1
    u2 = u2
    t1 = t1
    t2 = t2
    s1 = s1
    s2 = s2
    NoNode = NoNode
    NoUuid = NoUuid
    Procs <- MCProcs
    Nodes <- MCNodes
    Uuids = {u1}
    Caps <- MCCaps
    Targets = {t1}
    Slots = {s1}
    Hazards = {"takeover", "timeout"}
    MaxPods = 2
    MaxFaults = 1
    MaxLog = 4
VIEW MCView
SYMMETRY MCSymmetry
INVARIANTS
    NodeTypeOK
    PrenodeWasUser
    NodeInfoRight
PROPERTIES
    ImplementsManager
CHECK_DEADLOCK FALSE
