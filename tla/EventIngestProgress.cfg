SPECIFICATION FairSpec
CONSTANTS
    Cpus = {0, 1}
    Shards = {0}
    ShardOrder <- MCShardOrder
    ShardSeq <- MCShardSeq
    StripeLength = 1
    QueueSlots = 1
    MaxBatch = 1
    RingCapacity = 1
    ReservedTypes = {}
    MaxSeq <- TwoFirst
    Supervisor = Supervisor
    Retention = Retention
    Faults <- MCFaults
    FaultBudgets <- ProgressBudgets
PROPERTIES
    StopCompletes
    StartupResolves
    SurvivorRecorded
\* A process that has ended rests; one that is stuck fails StopCompletes.
CHECK_DEADLOCK FALSE
