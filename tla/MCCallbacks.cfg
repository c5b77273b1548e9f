CONSTANTS
    r1 = r1
    r2 = r2
    Callbacks <- Answers
    Slots = {s1, s2}
    LeaseSeconds = 2
    MaxShift = 2
    MaxDelay = 3
    BlockedDelay = 2
    MaxFaults = 2
    None = None
SPECIFICATION CallbackFairSpec
INVARIANTS
    RevisionsArriveInOrder
PROPERTIES
    EveryCallbackDelivered

CHECK_DEADLOCK FALSE
