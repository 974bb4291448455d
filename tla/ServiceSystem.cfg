SPECIFICATION Spec
CONSTANTS
  Conns <- MCConns
  Readers <- MCReaders
  Shards <- MCShards
  LogStores <- MCLogStores
  Stores <- MCStores
  SourceOf <- MCSourceOf
  Patterns <- MCPatterns
  Candidates <- MCCandidates
  Datagrams <- MCDatagrams
  Writers <- MCWriters
  Contents <- MCContents
  Types = {"deep", "flat"}
  Identifiers = {"deep", "flat", "admin"}
  Admin = "admin"
  Publisher = "metrics"
  Capacity = 1
  Fields = {1, 2, 3}
  Uncounted = {3}
  Unindexed = {}
  QueueCap = 3
  MaxActive = 2
  MaxPerUser = 1
  MaxStreams = 1
  MaxDistinct = 1
  HeldLimit = 2
  Scenes <- MCScenes
INVARIANTS
    SlotsExact
    StreamsExact
    CacheCurrent
    VerdictsCurrent
    ConfigCurrent
    StopFlushed
PROPERTIES
    CacheSpec
CHECK_DEADLOCK FALSE
