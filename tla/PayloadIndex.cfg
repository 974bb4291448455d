CONSTANTS
    Limit = 1
    MaxRows = 0
    SignedMax <- SignedMaxDef
    RecordScenes <- ShadowScenes
    TrimAt = 2
    MetricScenes <- MetricScenesDef
    CountMax = 10099
    Directories <- DirectoriesDef
    FileFaults = 0
    Restarts = 0
    Writers = 1
    Reports = 0
    StoreFaults = 0
    Kinds <- RecordsOnly
    Samples <- SamplesDef
SPECIFICATION Spec
INVARIANTS
    IndexOnlyNarrows
CHECK_DEADLOCK FALSE
