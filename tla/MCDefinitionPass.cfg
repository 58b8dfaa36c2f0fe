SPECIFICATION MCSpec
CONSTANTS
    r1 = r1
    r2 = r2
    Run <- MCRun
    Definition <- MCDefinition
    Scope <- MCScope
    NoRun = NoRun
    MaxToken = 3
    MaxItem = 3
    WindowSize = 2
    PageSize = 1
    FullDiscovery = TRUE
    Requests <- AllRequests
    MaxLimit = 2
    MaxRuns = 3
    MaxChanges = 2
    GroupSizeOf = 2
    Other = {11}
    OwnReferences = {1}
INVARIANT CursorOnlyPastSettled
INVARIANT CompletionIsEvidence
INVARIANT OutcomesAreOwn
 
 
PROPERTY OrphanCleanupExact
PROPERTY EvidenceKept
PROPERTY TerminalAbsorbing
CHECK_DEADLOCK FALSE
