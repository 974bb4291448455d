SPECIFICATION Spec
CONSTANTS
    Cpus = {0}
    Shards = {0}
    ShardOrder <- MCShardOrder
    ShardSeq <- MCShardSeq
    StripeLength = 1
    QueueSlots = 2
    MaxBatch = 2
    RingCapacity = 2
    ReservedTypes <- ReservedSecond
    MaxSeq <- ThreeEach
    Supervisor = Supervisor
    Retention = Retention
    Faults <- MCFaults
    FaultBudgets <- CrashBudgets
INVARIANTS
    ReservedReceipted
