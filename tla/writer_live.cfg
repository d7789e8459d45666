CONSTANTS
    m1 = m1
    m2 = m2
    p1 = p1
    NoMember = NoMember
    Members <- OneMember
    Partitions <- OnePartition
    LogLength = 2
    Undecodable <- NoneUndecodable
    QueueCapacity = 1
    BatchMaxSize = 2
    MaxShutdowns = 1
    MaxCrashes = 1
    MaxEvictions = 0
    MaxRevocations = 1
SPECIFICATION FairSpecUp
INVARIANTS
    LossOnlyAtDropSites
PROPERTIES
    EverySpanStored
    StopEnds
CHECK_DEADLOCK FALSE
