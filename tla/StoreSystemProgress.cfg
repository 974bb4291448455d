SPECIFICATION Spec
CONSTANTS
    Loads <- ProgressLoads
    SocketSlots = 1
    DeleteRows = 1
    Cutoff = 4
    LogMaxRows = 1
    MetricMaxRows = 1
    WakeCap = 1
    CacheSize = 1
    Width = 2
    RollupSlots = 1
    Shards <- OneShard
    Arrivals <- OneArrival
    CurrentBoot = "now"
    Starts <- OneWindow
    MinSamples = 1
PROPERTIES
    BatchCommits
    StopCompletes
    StoresBounded
