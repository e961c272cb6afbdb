SPECIFICATION RecoverySpec
CONSTANTS
    c1 = c1  c2 = c2  worker = worker  s1 = s1  s2 = s2  e1 = e1  e2 = e2
    Calls = {c1}
    Owners = {worker, s1, s2}
    NoOwner = NoOwner
    EventIds = {e1}
    NoEvent = NoEvent
    ProviderStates = {"active", "completed", "failed", "unknown"}
    CompletedReasons = {"caller_hangup", "provider_hangup"}
    FailedReasons = {"provider_error", "recovery_unknown"}
    Results = {}
    NoResult = NoResult
    TicksPerSecond = 1
    LeaseTTL = 1
    MaxLag = 0
    MaxTime = 3
    Horizon = 9
    MaxGeneration = 3
    MaxTurns = 0
    Sweepers = {s1}
    CompletedStates = {"completed"}
    FailedStates = {"failed"}
    MaxFaults = 1
    MaxReports = 2
CHECK_DEADLOCK FALSE
INVARIANTS
    LatestReportDecides
