SPECIFICATION DurableSpec
CONSTANTS
    c1 = c1  host = host  p1 = p1  p2 = p2  e1 = e1  e2 = e2
    Parts = {"outbox", "recovery", "both", "host"}
    MaxIncidents = 1
    DeliveryTime = 2
    Calls = {c1}
    Owners = {host, p1, p2}
    NoOwner = NoOwner
    EventIds = {e1, e2}
    NoEvent = NoEvent
    ProviderStates = {"active", "completed", "failed", "unknown"}
    CompletedReasons = {"provider_hangup"}
    FailedReasons = {"provider_error", "recovery_unknown"}
    Results = {}
    NoResult = NoResult
    TicksPerSecond = 1
    LeaseTTL = 1
    MaxLag = 0
    MaxTime = 3
    Horizon = 9
    MaxGeneration = 3
    MaxTurns = 0
    DeliveryWorkers = {p1, p2}
    ContainerWorkers = {p1}
    RetryDelays <- TwoAttempts
    ClaimLimit = 2
    ClaimTTL = 1
    MaxCrashes = 1
    MaxRedeliveries = 1
    Sweepers = {p1, p2}
    CompletedStates = {"completed"}
    FailedStates = {"failed"}
    MaxFaults = 1
    MaxReports = 2
    HostCalls = {phone, web}
    WebCalls = {web}
    CarrierDecides = {phone}
    NoCall = NoCall
    MaxConcurrent = 1
    MaxAnswers = 2
    MaxReloads = 1
    MaxStoreFaults = 1
SYMMETRY Symmetry
CHECK_DEADLOCK FALSE
INVARIANTS
    DurableTypeOK
    DeliveredMeansAcknowledged
    AttemptHasOneSender
    WebhookStatusAgrees
    SuccessIsNeverInvented
    QuietReportDecides
    LiveCallsKeepTheirSlot
    SlotsComeBack
    DrainedMeansQuiet
PROPERTIES
    OnlyTheOperatorReopens
    RenewedSinceListingIsLeftAlone
