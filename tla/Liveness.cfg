SPECIFICATION LivenessSpec
CONSTANTS
    c1 = c1  host = host  p1 = p1  p2 = p2  e1 = e1  e2 = e2
    Parts = {"outbox", "recovery", "host", "page"}
    MaxIncidents = 0
    DeliveryTime = 2
    Calls = {c1}
    Owners = {host, p1}
    NoOwner = NoOwner
    EventIds = {e1, e2}
    NoEvent = NoEvent
    ProviderStates = {"completed", "failed", "unknown"}
    CompletedReasons = {"provider_hangup"}
    FailedReasons = {"provider_error", "recovery_unknown"}
    Results = {}
    NoResult = NoResult
    TicksPerSecond = 1
    LeaseTTL = 1
    MaxLag = 0
    MaxTime = 2
    Horizon = 2
    MaxGeneration = 3
    MaxTurns = 0
    DeliveryWorkers = {p1}
    ContainerWorkers = {p1}
    RetryDelays <- TwoAttempts
    ClaimLimit = 1
    ClaimTTL = 1
    MaxCrashes = 1
    MaxRedeliveries = 1
    Sweepers = {p1}
    CompletedStates = {"completed"}
    FailedStates = {"failed"}
    MaxFaults = 1
    MaxReports = 1
    HostCalls = {phone, web}
    WebCalls = {web}
    CarrierDecides = {phone}
    NoCall = NoCall
    MaxConcurrent = 1
    MaxAnswers = 1
    MaxReloads = 0
    MaxStoreFaults = 1
    Sessions = {1}
    Runtimes = {"pipecat", "livekit"}
    MaxActive = 1
    MaxRestarts = 1
CHECK_DEADLOCK FALSE
PROPERTIES
    DeliveriesSettle
    RecoveryEndsCalls
    HostedCallsEnd
    TerminalShownBeforeExpiry
