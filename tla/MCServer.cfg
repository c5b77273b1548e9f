CONSTANTS
    ann = ann
    d1 = d1
    d2 = d2
    yes = yes
    Users = {owner0, ann}
    Channels = {default}
    Devices = {d1, d2}
    NativeDevices = {d1}
    Codes = {c1}
    Handlers = {h1}
    Owner = owner0
    DefaultChannel = default
    SeedUsers = {owner0}
    SeedOwner <- NoSeedDevices
    CodeLifetime = 1
    MaxTime = 1
    None = None
    RequestIds = {r1}
    Issuers = {}
    Admin = admin
    IdemKeys = {}
    DedupeKeys = {}
    Options = {yes}
    Dismiss = dismiss
    Nonces = {n1}
    Origins = {}
    Bodies = {"text"}
    Drafts <- ServerDrafts
    Submissions <- DismissOnly
    Precision = 1
    Retention = 1
SPECIFICATION Spec
INVARIANTS
    DeletedUserHasNoActiveDevice
    CodeEnrollsOnce
    PushesReachRecipients
PROPERTIES
    RevokedStaySilent
