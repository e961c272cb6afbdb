SPECIFICATION Spec
CONSTANTS
    c1 = c1  worker = worker  sweeper = sweeper
    e1 = e1  e2 = e2  r1 = r1  r2 = r2
    Calls = {c1}
    Owners = {worker, sweeper}
    NoOwner = NoOwner
    EventIds = {e1, e2}
    NoEvent = NoEvent
    ProviderStates = {"active", "completed"}
    CompletedReasons = {"hangup"}
    FailedReasons = {"provider_error"}
    Results = {r1, r2}
    NoResult = NoResult
    TicksPerSecond = 2
    LeaseTTL = 2
    MaxLag = 1
    MaxTime = 3
    Horizon = 9
    MaxGeneration = 3
    MaxTurns = 1
SYMMETRY Symmetry
CHECK_DEADLOCK FALSE
PROPERTY TakeoverAfterExpiry
