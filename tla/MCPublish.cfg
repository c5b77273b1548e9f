CONSTANTS
    Publishers = {p1, p2}
    MaxEvents = 2
    LeaseSeconds = 1
    MaxShift = 2
    MaxDelay = 2
    MaxFaults = 3
SPECIFICATION PublishFairSpec
INVARIANTS
    PublishedIsStored
PROPERTIES
    EveryEventPublished

CHECK_DEADLOCK FALSE
