SPECIFICATION UnbrokenSpec
CONSTANTS
    Families = {"imports"}
    Definition <- MCDefinition
    Unregistered = 9
    StackLimit = 4
    MaxChanges = 2
    MaxRequests = 4
    ListedDefinition = {"a", "b"}
    MaxVersion = 3
    MaxClears = 2
    Item = {"x"}
    MaxWorld = 1
    MaxKeys = 3
    MaxInterrupts = 3
    Row = {1, 2}
    CsvFile <- MCCsvFile
    Resource <- MCResource
    MaxWrites = 2
    MaxRestarts = 1
    MaxPasses = 2
    Identity = {"i", "j"}
    Position <- MCPosition
    MaxEntryChanges = 1
    MaxStateChanges = 1
    Product = {1, 2}
    ChunkLimit = 2
    MaxOperations = 4
    MaxBatches = 5
    ActivityDefinition = {"a"}
    MaxActivityRuns = 2
    MaxSnapshots = 3
    MaxCalls = 3
    MaxForeign = 1
INVARIANT AcceptedNotResubmitted
CHECK_DEADLOCK FALSE
