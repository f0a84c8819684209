SPECIFICATION FairNodeSpec
CONSTANTS
    c = c
    n1 = n1
    n2 = n2
    u1 = u1
    u2 = u2
    t1 = t1
    t2 = t2
    s1 = s1
    s2 = s2
    NoNode = NoNode
    NoUuid = NoUuid
    Procs = {c, n1}
    Nodes = {n1}
    Uuids = {u1}
    Caps <- MCCaps
    Targets = {t1}
    Slots = {s1}
    Hazards = {}
    MaxPods = 1
    MaxFaults = 1
    MaxLog = 12
PROPERTIES
    TeardownCompletes
CHECK_DEADLOCK FALSE
