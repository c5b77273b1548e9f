CONSTANTS
    s1 = s1
    s2 = s2
    c1 = c1
    c2 = c2
    c3 = c3
    None = None
    Servers = {s1, s2}
    Channels = {c1, c2, c3}
    Requests = {1, 2, 3}
    HomeOf <- MCHomeOf
    ChannelOf <- MCChannelOf
    Enrolled = {s1}
    Arriving = {2}
    Choice = {1}
    Text = {2}
    Matching = {1}
    Values = {0, 1}
    DefaultValue = 0
    PageSize = 1
    MaxKeys = 4
    MaxEvents = 1

SPECIFICATION Spec

INVARIANTS
    AnswersFitTheirContent
    HistoryFitsSelection
PROPERTIES
    TerminalConverges
CHECK_DEADLOCK FALSE
