CONSTANTS
    s1 = s1
    s2 = s2
    c1 = c1
    Nothing = Nothing
    Servers = {s1, s2}
    Channels = {c1}
    Requests = {1, 2}
    HomeOf <- MCHomeOf
    ChannelOf <- MCChannelOf
    Profiles <- MCProfiles
    Existing = {1}
    Explicit = {2}
    Muted = {}
    HandledLimit = 1
    HubCapacity = 1
    WireCapacity = 1
    MaxEvents = 2

SPECIFICATION Spec

INVARIANTS
    OneServerShown
PROPERTIES
    CopiesNeverGoBack
    FrontEndConverges
CHECK_DEADLOCK FALSE
