SPECIFICATION RelayFairSpec
CONSTANTS
    c1 = c1  host = host  worker = worker  sweeper = sweeper  e1 = e1
    Calls = {c1}
    Owners = {host, worker, sweeper}
    NoOwner = NoOwner
    EventIds = {e1}
    NoEvent = NoEvent
    ProviderStates = {}
    CompletedReasons = {"hangup"}
    FailedReasons = {}
    Results = {"result"}
    NoResult = NoResult
    TicksPerSecond = 1
    LeaseTTL = 1
    MaxLag = 0
    MaxTime = 1
    Horizon = 9
    MaxGeneration = 3
    MaxTurns = 3
    Clients = {host, worker}
    Sweeper = sweeper
    Commands <- OwnCall
    NoCommand = NoCommand
    MaxAttempts = 2
    MaxMishaps = 2
CHECK_DEADLOCK FALSE
PROPERTIES
    OnlyLateDuplicatesReorder
    EveryCallReturns
