SPECIFICATION PartsSpec
CONSTANTS
  Requests = {r1, r2}
  AttemptCap = 2
  Files = 3
  Last = 3
  Handles = {1, 2}
  MemoryLeases = {1}
  MaxGen = 3
  Roots = {"a", "b"}
  Requirements <- SomeRequirements
  Marks = 1
  Images = {1, 2, 3}
  Native <- SomeNative
  TaskIds <- SomeTasks
  LastOid = 4
  Tasks = {1, 2, 3}
  MaxRestarts = 2
  MaxPerPoll = 1
  Names = {"m", "n"}
  Values = {"a", "b", "c"}
  Slots = {1, 2, 3}
  Hash <- SomeHash
  Snapshots <- SomeSnapshots
  CounterMax = 3
  Capacity <- SomeCapacity
  LayerBytes <- SomeCapacity
  CountingBytes = 4
  MaxFilters = 2
  MaxBytes = 6
  MaxLayers = 2
  UpdateFaults = 3
  InstallFaults = 1
  MaxEdits = 1
  MaxCrashes = 2
INVARIANTS FiltersSound EndpointIsCurrent NoMotherAfterShutdown BundleSafe LeaseIsStable ProjectIsWhole TasksHaveImages
PROPERTIES SwitchIsAtomic PartsSettle
CHECK_DEADLOCK FALSE
