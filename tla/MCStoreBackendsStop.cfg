\* The Commercetools store: a stop beside the start of its run.
CONSTANTS
    r1 = r1
    r2 = r2
    NoRun = NoRun
    Run = {r1, r2}
    Definition = {1, 2}
    Scope <- MCScope
    Item = {"i1"}
    Caller = {"c1", "c2"}
    Holder = "c1"
    Backends = {"commercetools"}
    MaxCalls = 3
    MaxLost = 0
    MaxTries = 2
    Opener = {"p1", "p2"}
    Target = 3
SPECIFICATION MCSpec
CHECK_DEADLOCK FALSE
INVARIANT StoppedRunCanEnd
