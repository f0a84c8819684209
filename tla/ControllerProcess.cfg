SPECIFICATION FairProcessSpec
CONSTANTS
    r1 = r1
    r2 = r2
    Replicas = {r1, r2}
    NoReplica = NoReplica
    Steps = 2
    Foreign = FALSE
    MaxLog = 4
    MaxFaults = 2
INVARIANTS
    ProcessTypeOK
    LeaderAccepts
    QuietIsRight
PROPERTIES
    LabelsConverge
    VolumesCanBeCreated
CHECK_DEADLOCK FALSE
