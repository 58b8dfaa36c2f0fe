SPECIFICATION Spec
CONSTANTS
    r1 = r1
    r2 = r2
    c1 = c1
    c2 = c2
    Run <- MCRun
    Definition <- MCDefinition
    Scope <- MCScope
    Outcomes <- MCOutcomes
    NoRun = NoRun
    Client <- MCClient
    NoClient = NoClient
    ReplayedStarts = TRUE
    MaxCalls = 4
    MaxCrashes = 0
    MaxFaults = 0
PROPERTY OutcomesSurviveReplays
CHECK_DEADLOCK FALSE
