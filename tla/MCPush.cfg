CONSTANTS
    Requests = {r1}
    Devices = {d1}
    Tokens = {t1, t2}
    Slots = {s1, s2}
    MaxAttempts = 2
    LeaseSeconds = 2
    TaskTimeout = 1
    MaxFaults = 2
    MaxClaims = 4
    None = None
    Revoked = Revoked
SPECIFICATION PushFairSpec
CHECK_DEADLOCK FALSE
INVARIANTS
    SendsWithinAttempts
    SendsOverlapOnlyOverrun
PROPERTIES
    FreshTokensSurvive
    EveryPushSettles
