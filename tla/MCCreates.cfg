CONSTANTS
    k = k
    issuer = issuer
    job = job
    o1 = o1
    Users = {owner0}
    Channels = {default}
    Devices = {}
    NativeDevices = {}
    Codes = {}
    Handlers = {}
    Owner = owner0
    DefaultChannel = default
    SeedUsers = {owner0}
    SeedOwner <- NoDevices
    CodeLifetime = 1
    MaxTime = 2
    None = None
    RequestIds = {r1, r2}
    Issuers = {issuer}
    Admin = admin
    IdemKeys = {k}
    DedupeKeys = {job}
    Options = {}
    Dismiss = dismiss
    Nonces = {}
    Origins = {o1, o2}
    Bodies = {"a", "b"}
    Drafts <- CreateDrafts
    Submissions <- NoSubmissions
    Precision = 1
    Retention = 1
SPECIFICATION Spec
SYMMETRY Symmetry
INVARIANTS
    OnePendingPerDedupeKey
    IdempotentReplies
