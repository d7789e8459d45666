CONSTANTS
    m1 = m1
    m2 = m2
    p1 = p1
    NoMember = NoMember
    Members <- TwoMembers
    Partitions <- OnePartition
    LogLength = 3
    Undecodable <- FirstUndecodable
    QueueCapacity = 1
    BatchMaxSize = 2
    MaxShutdowns = 0
    MaxCrashes = 1
    MaxEvictions = 1
    MaxRevocations = 1
SYMMETRY MemberSymmetry
SPECIFICATION Spec
INVARIANTS
    IInv
    CommittedAreStored
    MemoryBounded
PROPERTIES
    PromiseKept
CHECK_DEADLOCK FALSE
