CONSTANTS
    ann = ann
    d1 = d1
    d2 = d2
    yes = yes
    Deadline = 3
    Users = {owner0, ann}
    Channels = {default}
    Devices = {d1, d2}
    NativeDevices = {}
    Codes = {}
    Handlers = {}
    Owner = owner0
    DefaultChannel = default
    SeedUsers = {owner0, ann}
    SeedOwner <- Devices2
    CodeLifetime = 1
    MaxTime = 4
    None = None
    RequestIds = {r1}
    Issuers = {}
    Admin = admin
    IdemKeys = {}
    DedupeKeys = {}
    Options = {yes}
    Dismiss = dismiss
    Nonces = {n1, n2}
    crm = crm
    Origins = {crm, erp}
    Bodies = {"text"}
    Drafts <- DecisionDrafts
    Submissions <- SomeSubmissions
    Precision = 2
    Retention = 1
SPECIFICATION FairSpec
INVARIANTS
    JournalMirrorsRequest
    AnswersMatchJournal
    CallbackPerAnswer
    DeadlineSeparates
PROPERTIES
    RecordedFactsStay
    DueRequestsLeavePending
