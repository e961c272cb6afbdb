SPECIFICATION HostFairSpec
CONSTANTS
    HostCalls = {phone, web}
    WebCalls = {web}
    CarrierDecides = {phone}
    NoCall = NoCall
    MaxConcurrent = 1
    MaxAnswers = 1
    MaxReloads = 0
    MaxStoreFaults = 1
CHECK_DEADLOCK FALSE
PROPERTY EveryStartedCallEnds
