CONSTANTS
    Limit = 5
    MaxRows = 3
    SignedMax <- SignedMaxDef
    RecordScenes <- RecordScenesDef
    TrimAt = 2
    MetricScenes <- MetricScenesDef
    CountMax = 10099
    Directories <- DirectoriesDef
    FileFaults = 2
    Restarts = 2
    Writers = 2
    Reports = 2
    StoreFaults = 2
    Kinds <- AllKinds
    Samples <- SamplesDef
SPECIFICATION Spec
INVARIANTS
    ReconcileExact
    OrderExact
    RecordsExact
    MetricExact
    QuarantineWhole
    
    WaitersAnswered
PROPERTIES
    NothingDestroyed
CHECK_DEADLOCK FALSE
