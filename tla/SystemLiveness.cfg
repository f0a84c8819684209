SPECIFICATION FairSystemSpec
CONSTANTS
    c = c
    n1 = n1
    n2 = n2
    u1 = u1
    u2 = u2
    t1 = t1
    s1 = s1
    s2 = s2
    NoNode = NoNode
    NoUuid = NoUuid
    Procs = {c, n1}
    Nodes = {n1}
    Leader = c
    Uuids = {u1}
    Caps = {1}
    MiB = 2
    ControlSlots = {s1}
    NodeSlots = {s1}
    Targets = {t1}
    MaxPods = 1
    NodeHazards = {"silentdetach"}
    ControlHazards = {"deleteinuse", "deletetimeout", "lostanswer"}
    MaxFaults = 2
    MaxLog = 12
INVARIANTS
    SystemTypeOK
    
    DeviceHasImage
PROPERTIES
    PodStarts
    PodStops
    DeleteCompletes
    ReleasedIsRemoved
    UuidLearned
CHECK_DEADLOCK FALSE
