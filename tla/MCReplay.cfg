CONSTANTS
    issuer = issuer
    ch1 = ch1
    ch2 = ch2
    Readers = {issuer}
    Channels = {ch1, ch2}
    Visible <- MCVisible
    Limits = {1, 2, 3}
    MaxEvents = 6
SPECIFICATION ReplayFairSpec
INVARIANTS
    ReplayIsExact
PROPERTIES
    ReadersCatchUp
