SPECIFICATION ManagerSpec
CONSTANTS
    p1 = p1
    p2 = p2
    n1 = n1
    u1 = u1
    u2 = u2
    NoNode = NoNode
    NoUuid = NoUuid
    Procs <- MCProcs
    Nodes <- MCNodes
    Uuids <- MCUuids
    Caps <- MCCaps
    MaxLog = 5
    MaxFaults = 1
SYMMETRY MCSymmetry
INVARIANTS
    ManagerTypeOK
    NoRevival
    KnownUuidsSubmitted
    NodeInfoReported
PROPERTY
    ImplementsVolumeRecord
CHECK_DEADLOCK FALSE
