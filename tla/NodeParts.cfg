SPECIFICATION PartsSpec
CONSTANTS
  Resources = 2
  Folders = 1
  Chunks = 2
  Last = 3
  Sessions = {1, 2, 3, 4}
  MaxFaults = 2
  Downloads = 2
  MediaFaults = 2
  LiveSessions = {1, 2}
  Asked = {1}
  Retries = 4
  LiveFaults = 1
  RegistryPaths = {1, 2, 3}
  Exports <- TwoExports
  IngestFaults = 2
  WatchedPaths = {1, 2}
  WatchedTemps = {3}
  Windows = TRUE
  MaxEdits = 2
  SyncFaults = 1
INVARIANTS StoreSafe AckedIsDurable MediaSafe RegistryIsWhole
PROPERTIES SignalIsHonest LocalSyncSafe PartsSettle
CHECK_DEADLOCK FALSE
