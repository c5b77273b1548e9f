\* Each part stops when its bounds are used up.
CHECK_DEADLOCK FALSE
SPECIFICATION Spec
SYMMETRY Symmetry
CONSTANTS
    Unset = Unset
    Cards <- MCCards
    Content <- MCContent
    Release <- MCRelease
    Signers = {"d1", "d2", "dx"}
    SignerUser <- MCSignerUser
    Incapable = {"dx"}
    OldApps = {"d2"}
    KindOf <- MCKindOf
    Notes = {"blank", "padded"}
    Answers = {1}
    MaxStarts = 2
    MaxPosts = 2
    Shells = {a, b}
    Ids = {"x", "y"}
    OldId <- MCOldId
    Stored = {"old_x"}
    MaxEdits = 2
    MaxKills = 1
    Nobody = Nobody
    c1 = c1
    c2 = c2
    c3 = c3
    Calls = {c1, c2, c3}
    Offers <- MCOffers
    UserOf <- MCUserOf
    Scopes <- MCScopes
    Known = {"d1", "bot"}
    Reqs = {"r"}
    ChannelOf <- MCChannelOf
    PerUser = {"r"}
    Admin = "admin"
    Server = "server"
    NoUser = "nobody"
    RotateAfter = 1
    WaitFor = 2
    MaxTime = 2
    MaxFaults = 1
    MaxDrops = 1
    p1 = p1
    p2 = p2
    Pushes = {p1, p2}
    Targets <- MCTargets
    ServerApp = "app"
    RelayBundles = {"app", "other"}
    RefreshAfter = 2
    ExpireAfter = 3
    UpdateGap = 1
    MaxWall = 4
    MaxRestarts = 1
INVARIANTS
    ViewsCanBeSigned
    HonestReceiptsVerify
    VerifiedMeansSigned
    ConfigurationSurvives
    ProfilesKeepCredentials
    AuditGapsAreVisible
    WaitsMissNoDecision
    VerdictsFollowApple
    ProviderTokensWithinLimits
PROPERTY
    OtherShellsEditsStay
