SPECIFICATION FairSpec
CONSTANTS
    r1 = r1
    r2 = r2
    Run <- MCRun
    Definition <- MCDefinition
    Scope <- MCScope
    Plan <- MCPlan
    Orphans <- MCOrphans
    NoRun = NoRun
    MaxToken = 3
    Budgets <- MCBudgets
INVARIANT WorkUnderLock
INVARIANT HandleAgreesWithRecord
PROPERTY LocksRemovedByRight
PROPERTY ImplementsStore
PROPERTY StopTakesEffect
CHECK_DEADLOCK FALSE
