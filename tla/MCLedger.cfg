CONSTANTS
    ann = ann
    d1 = d1
    d2 = d2
    yes = yes
    Deadline = 1
    Users = {owner0, ann}
    Channels = {default}
    Devices = {d1, d2}
    NativeDevices = {}
    Codes = {}
    Handlers = {}
    Owner = owner0
    DefaultChannel = default
    SeedUsers = {owner0, ann}
    SeedOwner <- Devices2
    CodeLifetime = 1
    MaxTime = 1
    None = None
    RequestIds = {r1, r2}
    Issuers = {}
    Admin = admin
    IdemKeys = {}
    DedupeKeys = {}
    Options = {yes}
    Dismiss = dismiss
    Nonces = {n1}
    crm = crm
    Origins = {}
    Bodies = {"text"}
    Drafts <- LedgerDrafts
    Submissions <- ValidSubmissions
    Precision = 1
    Retention = 1
SPECIFICATION Spec
SYMMETRY Symmetry
INVARIANT NonceAuthorizesOnce
PROPERTY ImplementsLedger
