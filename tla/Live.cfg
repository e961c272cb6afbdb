SPECIFICATION LiveSpec
CONSTANTS
    Parts = {"routes", "outbound", "warm", "page"}
    Tokens = {k1, k2}
    Restorers = {r1, r2}
    Original = Original
    Foreign = Foreign
    NoToken = NoToken
    MaxForeign = 1
    Intents = {i1, i2}
    Dialers = {d1, d2}
    Sids = {s1, s2}
    NoSid = NoSid
    MaxCrashes = 1
    Sessions = {1, 2}
    Runtimes = {"pipecat", "livekit"}
    MaxActive = 1
    MaxRestarts = 0
CHECK_DEADLOCK FALSE
INVARIANTS
    LiveTypeOK
    NumberIsRecoverable
    OneCallPerIntent
    CallerMovesOnlyAfterAcceptance
    RecoveredLegsAreOver
    TransferredMeansMoved
    PollFollowsSession
    NoOrphanRoom
    TranscriptIsOfThisRun
PROPERTIES
    DecisionsAreFinal
    ConnectedPartiesAreNeverCut
    SnapshotsAreOfTheSession
