SPECIFICATION NodeSpec
CONSTANTS
    c = c
    n1 = n1
    n2 = n2
    u1 = u1
    u2 = u2
    t1 = t1
    t2 = t2
    s1 = s1
    s2 = s2
    NoNode = NoNode
    NoUuid = NoUuid
    Procs <- MCProcs
    Nodes <- MCNodes
    Uuids = {u1}
    Caps <- MCCaps
    Targets = {t1}
    Slots = {s1}
    Hazards = {"abort", "timeout", "redisconnect", "deleteinuse"}
    MaxPods = 2
    MaxFaults = 1
    MaxLog = 12
VIEW MCViewNoTable
SYMMETRY MCSymmetry
INVARIANTS
    InUseRecorded
    TornDownClean
    OneNodeConnected
CHECK_DEADLOCK FALSE
