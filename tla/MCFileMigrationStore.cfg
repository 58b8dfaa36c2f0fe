SPECIFICATION Spec
CONSTANTS
    r1 = r1
    r2 = r2
    c1 = c1
    c2 = c2
    Run <- MCRun
    Definition <- MCDefinition
    Scope <- MCScope
    Outcomes <- MCOutcomes
    NoRun = NoRun
    Client <- MCClient
    NoClient = NoClient
    ReplayedStarts = FALSE
    MaxCalls = 4
    MaxCrashes = 1
    MaxFaults = 1
INVARIANT NoCircularWait
INVARIANT LatestFollowsRecord
PROPERTY ImplementsStore
SYMMETRY MCSymmetry
CHECK_DEADLOCK FALSE
