SPECIFICATION Spec
CONSTANTS
    Loads <- SmallLoads
    SocketSlots = 1
    DeleteRows = 1
    Cutoff = 4
    LogMaxRows = 1
    MetricMaxRows = 1
    WakeCap = 2
    CacheSize = 1
    Width = 2
    RollupSlots = 1
    Shards <- TwoShards
    Arrivals <- OneArrival
    CurrentBoot = "now"
    Starts <- OneWindow
    MinSamples = 1
INVARIANTS
    CachesCoherent
    RollupExact
PROPERTIES
    RecordsAccounted
    OldestBootFirst
