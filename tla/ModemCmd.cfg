SPECIFICATION FairSpec
CONSTANTS
    Callers = {c1, c2}
    NoOne = NoOne
    MaxCalls = 3
    MaxFaults = 1
INVARIANTS
    TableOwned
    OwnAnswer
PROPERTY
    CallReturns
CHECK_DEADLOCK FALSE
