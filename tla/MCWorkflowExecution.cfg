SPECIFICATION MCSpec
CONSTANTS
    r1 = r1
    r2 = r2
    Run = {r1, r2}
    Definition = {1, 2}
    Scope <- MCScope
    NoRun = NoRun
    MaxToken = 3
    Plan <- MCPlan
    Kinds <- MCKinds
    Windows = 2
    MaxRetries = 1
    MaxEvents = 2
INVARIANT WorkUnderLock
INVARIANT SummaryCountsEveryWindow
 
PROPERTY WorkflowEnds
CHECK_DEADLOCK FALSE
