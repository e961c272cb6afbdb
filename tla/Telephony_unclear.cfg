SPECIFICATION TelephonySpec
CONSTANTS
    Parts = {"outbound"}
    Tokens = {k1, k2}
    Restorers = {r1, r2}
    Original = Original
    Foreign = Foreign
    NoToken = NoToken
    MaxForeign = 1
    Intents = {i1, i2}
    Dialers = {d1, d2}
    Sids = {s1, s2}
    NoSid = NoSid
    MaxCrashes = 1
CHECK_DEADLOCK FALSE
PROPERTY UnclearMeansUnresolved
