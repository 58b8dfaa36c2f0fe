SPECIFICATION Spec
CONSTANTS
    r1 = r1
    r2 = r2
    Run <- MCRun
    Definition <- MCDefinition
    Scope <- MCScope
    Plan <- MCPlan
    Orphans <- MCOrphans
    NoRun = NoRun
    MaxToken = 3
    Budgets <- MCBudgets
INVARIANT CancellingKeepsLocks
CHECK_DEADLOCK FALSE
