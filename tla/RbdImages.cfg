SPECIFICATION RbdSpec
CONSTANTS
    Classes <- MCClasses
    Secrets <- MCSecrets
    Pools = {"rbd", "ssd"}
    CephKey <- MCCephKey
    PoolChange = FALSE
    MaxFaults = 2
INVARIANTS
    RbdTypeOK
    ParsedAsIntended
    ImageWhereRecorded
CHECK_DEADLOCK FALSE
