SPECIFICATION ControlSpec
CONSTANTS
    c = c
    n1 = n1
    u1 = u1
    u2 = u2
    u3 = u3
    s1 = s1
    s2 = s2
    NoNode = NoNode
    NoUuid = NoUuid
    Procs = {c, n1}
    Nodes = {n1}
    Leader = c
    Uuids = {u1, u2, u3}
    Caps = {0, 1, 3}
    MiB = 2
    Slots = {s1, s2}
    Hazards = {"createtimeout", "failover", "rbdtimeout", "quickdelete", "deleteinuse"}
    MaxFaults = 3
    MaxLog = 12
SYMMETRY MCSymmetry
INVARIANTS
    ControlTypeOK
    AckedDurable
    LiveHasImage
    ImageGoneFirst
PROPERTIES
    ImplementsManager
CHECK_DEADLOCK FALSE
