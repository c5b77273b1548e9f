CONSTANTS
    k = k
    issuer = issuer
    job = job
    o1 = o1
    Users = {owner0}
    Channels = {default}
    Devices = {}
    NativeDevices = {}
    Codes = {}
    Handlers = {}
    Owner = owner0
    DefaultChannel = default
    SeedUsers = {owner0}
    SeedOwner <- NoDevices
    CodeLifetime = 1
    MaxTime = 1
    None = None
    RequestIds = {r1, r2}
    Issuers = {issuer}
    Admin = admin
    IdemKeys = {k}
    DedupeKeys = {job}
    Options = {yes}
    Dismiss = dismiss
    Nonces = {}
    Origins = {}
    Bodies = {"a", "b"}
    Drafts <- ValueDrafts
    Submissions <- NoSubmissions
    Precision = 2
    Retention = 1
SPECIFICATION Spec
INVARIANT RetryReturnsPending
