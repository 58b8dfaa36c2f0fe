\* Four backends, two callers, two runs of which one replaces the other.
CONSTANTS
    r1 = r1
    r2 = r2
    NoRun = NoRun
    Run = {r1, r2}
    Definition = {1, 2}
    Scope <- MCScope
    Item = {"i1"}
    Caller = {"c1", "c2"}
    Holder = "c1"
    Backends = {"sql", "commercetools", "files", "file"}
    MaxCalls = 4
    MaxLost = 1
    MaxTries = 2
    Opener = {"p1", "p2"}
    Target = 3
SPECIFICATION MCSpec
CHECK_DEADLOCK FALSE
INVARIANT RemovedWorkNotComplete
INVARIANT LockOutlivesOthers
 
PROPERTY ObservationKeepsOutcome
INVARIANT LatestShowsRecord
INVARIANT OpenedStoreIsComplete
