SPECIFICATION Spec
CONSTANTS
    Cpus = {0}
    Shards = {0, 1}
    ShardOrder <- MCShardOrder
    ShardSeq <- MCShardSeq
    StripeLength = 1
    QueueSlots = 2
    MaxBatch = 2
    RingCapacity = 2
    ReservedTypes = {}
    MaxSeq <- ThreeEach
    Supervisor = Supervisor
    Retention = Retention
    Faults <- MCFaults
    FaultBudgets <- IngestBudgets
INVARIANTS
    Inductive
    Accounted
    ExactlyOnce
    NoRegression
    ReadyMeansRecovered
PROPERTIES
    LedgerSpec
    LossFirst
