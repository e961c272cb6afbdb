SPECIFICATION PageFairSpec
CONSTANTS
    Sessions = {1}
    Runtimes = {"livekit"}
    MaxActive = 1
    MaxRestarts = 0
CHECK_DEADLOCK FALSE
PROPERTY EndedSessionFreesItsSlot
