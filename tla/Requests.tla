------------------------------ MODULE Requests ------------------------------
(***************************************************************************)
(* The request tables of a nod server: creation with idempotency and       *)
(* pending dedupe (db/requests/create.rs), decisions                       *)
(* (db/requests/decisions.rs), cancellation, expiry and retention          *)
(* (db/requests/maintenance.rs), channel deletion (db/channels.rs), origin *)
(* registration (api/integration_events.rs), and the lifecycle journal and *)
(* delivery obligations every accepted mutation leaves behind              *)
(* (db/lifecycle.rs).                                                      *)
(*                                                                         *)
(* Each BEGIN IMMEDIATE transaction is one step.  A decision takes two: a  *)
(* device authenticates (auth::require_device), and later the transaction  *)
(* runs with what the handler then knew; anything may commit in between.   *)
(***************************************************************************)
EXTENDS Accounts, Sequences, FiniteSets

CONSTANTS
    RequestIds,     \* request ids (auth::new_id: never reused)
    Issuers,        \* issuer tokens allowed to write to every channel
    Admin,          \* the caller behind scope "admin"
    IdemKeys,       \* idempotency keys
    DedupeKeys,     \* dedupe keys
    Options,        \* option ids
    Dismiss,        \* the implicit option of a request without options
    Nonces,         \* decision signature nonces
    Origins,        \* integration origins
    Bodies,         \* everything a request says besides the fields below
    Drafts,         \* the create bodies callers may send
    Submissions,    \* the decisions devices may send
    Precision,      \* clock units per millisecond, the precision of stored times
    Retention       \* retention_days, in clock units

Callers == Issuers \cup {Admin}

(* CreateDecisionRequest with its metadata.origin. *)
Draft == [channel : Channels, dedupe : DedupeKeys \cup {None}, expires : Nat \cup {None},
          resolution : {"shared", "per_user"}, explicit : BOOLEAN, recipients : SUBSET Users,
          callback : BOOLEAN, value : BOOLEAN, options : SUBSET Options,
          origin : Origins \cup {None}, body : Bodies]

(* A submitted decision; verifies: its value and its signature check out. *)
Call == [request : RequestIds, option : Options \cup {Dismiss}, nonce : Nonces,
         verifies : BOOLEAN]

ASSUME RequestsAssumption ==
    /\ IsFiniteSet(Users)
    /\ Drafts \subseteq Draft
    /\ Submissions \subseteq Call
    /\ Precision \in Nat \ {0}
    /\ Retention \in Nat \ {0}
    /\ None \notin DedupeKeys \cup IdemKeys \cup Origins \cup RequestIds

VARIABLES
    status,         \* requests.status; "absent" before the row, "gone" after it
    form,           \* the columns of a request that never change
    origin,         \* request_origins
    decision,       \* requests.decision_json
    userDecisions,  \* request_user_decisions
    revision,       \* requests.revision
    updatedAt,      \* requests.updated_at, which equals resolved_at where that is set
    idempotency,    \* request_idempotency
    nonces,         \* decision_nonces
    journal,        \* lifecycle_events, per request in seq order
    callbacks,      \* callback_deliveries, by request and revision
    pushes,         \* push_deliveries, by request and device
    call,           \* the authenticated decision a device's handler is about to record
    acked,          \* history: the successful answers to creates with a key
    sent            \* history: the body a request was created from

requestVars == <<status, form, origin, decision, userDecisions, revision, updatedAt,
                 idempotency, nonces, journal, callbacks, pushes, call, acked, sent>>
vars == <<accountVars, requestVars>>

Form == [channel : Channels, dedupe : DedupeKeys \cup {None}, expires : Nat \cup {None},
         resolution : {"shared", "per_user"}, recipients : SUBSET Users,
         callback : BOOLEAN, value : BOOLEAN, options : SUBSET Options,
         body : Bodies, creator : Callers]
Status == {"pending", "resolved", "expired", "cancelled"}

(* A decision as it is stored; checked is history: the clock reading its     *)
(* deadline check compared.                                                  *)
Decision == [option : Options \cup {Dismiss}, user : Users, device : Devices,
             nonce : Nonces, at : 0..MaxTime, checked : 0..MaxTime]
Event == [kind : {"created", "answer", "cancelled", "expired"}, revision : Nat,
          status : Status, decision : Decision \cup {None}]
Slot == Callers \X Channels \X IdemKeys
Binding == [fingerprint : Drafts, request : RequestIds]
Ack == [caller : Callers, key : IdemKeys, draft : Drafts, request : RequestIds]

ASSUME NullIsNoRow == None \notin Form \cup Decision \cup Binding \cup Call

TypeOK ==
    /\ AccountsTypeOK
    /\ status \in [RequestIds -> Status \cup {"absent", "gone"}]
    /\ form \in [RequestIds -> Form \cup {None}]
    /\ origin \in [RequestIds -> Origins \cup {None}]
    /\ decision \in [RequestIds -> Decision \cup {None}]
    /\ userDecisions \in [RequestIds -> [Users -> Decision \cup {None}]]
    /\ revision \in [RequestIds -> Nat]
    /\ updatedAt \in [RequestIds -> 0..MaxTime]
    /\ idempotency \in [Slot -> Binding \cup {None}]
    /\ nonces \subseteq Devices \X Nonces
    /\ journal \in [RequestIds -> Seq(Event)]
    /\ callbacks \subseteq RequestIds \X Nat
    /\ pushes \subseteq RequestIds \X Devices
    /\ call \in [Devices -> Submissions \cup {None}]
    /\ acked \subseteq Ack
    /\ sent \in [RequestIds -> Drafts \cup {None}]

NoAnswers == [u \in Users |-> None]

Init ==
    /\ AccountsInit
    /\ status = [r \in RequestIds |-> "absent"]
    /\ form = [r \in RequestIds |-> None]
    /\ origin = [r \in RequestIds |-> None]
    /\ decision = [r \in RequestIds |-> None]
    /\ userDecisions = [r \in RequestIds |-> NoAnswers]
    /\ revision = [r \in RequestIds |-> 0]
    /\ updatedAt = [r \in RequestIds |-> 0]
    /\ idempotency = [s \in Slot |-> None]
    /\ nonces = {}
    /\ journal = [r \in RequestIds |-> <<>>]
    /\ callbacks = {}
    /\ pushes = {}
    /\ call = [d \in Devices |-> None]
    /\ acked = {}
    /\ sent = [r \in RequestIds |-> None]

-----------------------------------------------------------------------------
(* Some definitions below are preceded by a variant of themselves with a      *)
(* defect that a change to the code could bring in; the properties are        *)
(* checked to notice it.                                                      *)
(* to_rfc3339_opts(Millis): times are cut to milliseconds when stored. *)
Truncate(t) == t - (t % Precision)

(* now_string. *)
NowString == Truncate(now)

Exists(r) == status[r] \in Status
Pending(r) == status[r] = "pending"

ExpiredStrictly(r) == form[r].expires # None /\ form[r].expires < now

(* expires_at <= Utc::now(). *)
Expired(r) == form[r].expires # None /\ form[r].expires <= now

RevisionsUnbumped(R) == revision

(* UPDATE requests SET revision=revision+1. *)
NextRevisions(R) == [r \in RequestIds |-> IF r \in R THEN revision[r] + 1 ELSE revision[r]]

CallbacksForEveryEvent(R, dec) ==
    {<<r, revision[r] + 1>> : r \in {q \in R : form[q] # None /\ form[q].callback}}

(* An accepted decision on a request with a callback URL queues a delivery. *)
CallbacksOwed(R, dec) ==
    IF dec = None THEN {} ELSE {<<r, revision[r] + 1>> : r \in {q \in R : form[q].callback}}

(* append_lifecycle_on for every request of R, each with its kind's event.   *)
AppendLifecycle(R, kind, statusAfter, dec) ==
    /\ revision' = NextRevisions(R)
    /\ journal' = [r \in RequestIds |->
                     IF r \in R
                     THEN Append(journal[r], [kind |-> kind, revision |-> revision[r] + 1,
                                              status |-> statusAfter, decision |-> dec])
                     ELSE journal[r]]
    /\ callbacks' = callbacks \cup CallbacksOwed(R, dec)

-----------------------------------------------------------------------------
(* Creation. *)

(* resolve_request_recipients: explicit users must all exist, implicit ones  *)
(* are the channel's current subscribers.                                    *)
RecipientsResolve(d) ==
    d.explicit => d.recipients # {} /\ \A u \in d.recipients : user[u] = "active"

Recipients(d) ==
    IF d.explicit
    THEN d.recipients
    ELSE {u \in Users : subscription[<<u, d.channel>>] = "on" /\ user[u] = "active"}

Bound(caller, d, key) == key # None /\ idempotency[<<caller, d.channel, key>>] # None

BindOnlyOnInsert(caller, d, key, r) ==
    idempotency' = IF key = None \/ status[r] = "pending"
                   THEN idempotency
                   ELSE [idempotency EXCEPT ![<<caller, d.channel, key>>] =
                           [fingerprint |-> d, request |-> r]]

(* bind_idempotency. *)
Bind(caller, d, key, r) ==
    idempotency' = IF key = None
                   THEN idempotency
                   ELSE [idempotency EXCEPT ![<<caller, d.channel, key>>] =
                           [fingerprint |-> d, request |-> r]]

Acknowledge(caller, key, d, r) ==
    acked' = IF key = None
             THEN acked
             ELSE acked \cup {[caller |-> caller, key |-> key, draft |-> d, request |-> r]}

DedupeMatchesIgnoringExpired(d, r) ==
    /\ d.dedupe # None
    /\ Pending(r)
    /\ ~Expired(r)
    /\ form[r].channel = d.channel
    /\ form[r].dedupe = d.dedupe

(* find_pending_request_by_dedupe_key. *)
DedupeMatches(d, r) ==
    /\ d.dedupe # None
    /\ Pending(r)
    /\ form[r].channel = d.channel
    /\ form[r].dedupe = d.dedupe

(* The content comparison a value request's retry goes through.  It compares *)
(* the caller's expires_at with the stored one.                              *)
SameContent(d, r) ==
    /\ d.value = form[r].value
    /\ d.body = form[r].body
    /\ d.expires = form[r].expires
    /\ d.callback = form[r].callback
    /\ d.options = form[r].options
    /\ Recipients(d) = form[r].recipients
    /\ d.resolution = form[r].resolution
    /\ d.origin = origin[r]

DedupeConflict(d, r) ==
    \/ (d.value \/ form[r].value) /\ ~SameContent(d, r)
    \/ d.origin # None /\ d.origin # origin[r]

(* A create whose idempotency key is bound to the same content returns the   *)
(* bound request, whatever has become of it; other content is a Conflict.    *)
ReplayCreate(caller, key, d) ==
    /\ Bound(caller, d, key)
    /\ idempotency[<<caller, d.channel, key>>].fingerprint = d
    /\ Acknowledge(caller, key, d, idempotency[<<caller, d.channel, key>>].request)
    /\ UNCHANGED <<accountVars, status, form, origin, decision, userDecisions, revision,
                   updatedAt, idempotency, nonces, journal, callbacks, pushes, call, sent>>

(* A create that meets a pending request with its dedupe key binds its       *)
(* idempotency key to that request and returns it.                           *)
DedupeCreate(caller, key, d, r) ==
    /\ ~Bound(caller, d, key)
    /\ d.channel \in channels
    /\ RecipientsResolve(d)
    /\ DedupeMatches(d, r)
    /\ ~DedupeConflict(d, r)
    /\ Bind(caller, d, key, r)
    /\ Acknowledge(caller, key, d, r)
    /\ UNCHANGED <<accountVars, status, form, origin, decision, userDecisions, revision,
                   updatedAt, nonces, journal, callbacks, pushes, call, sent>>

(* The insert: request, recipients, options, push outbox, idempotency key,   *)
(* origin and the created event, in one transaction.                         *)
InsertRequest(caller, key, d, r) ==
    /\ ~Bound(caller, d, key)
    /\ d.channel \in channels
    /\ RecipientsResolve(d)
    /\ \A q \in RequestIds : ~DedupeMatches(d, q)
    /\ status[r] = "absent"
    /\ status' = [status EXCEPT ![r] = "pending"]
    /\ form' = [form EXCEPT ![r] =
                  [channel |-> d.channel, dedupe |-> d.dedupe,
                   expires |-> IF d.expires = None THEN None ELSE Truncate(d.expires),
                   resolution |-> d.resolution, recipients |-> Recipients(d),
                   callback |-> d.callback, value |-> d.value, options |-> d.options,
                   body |-> d.body, creator |-> caller]]
    /\ origin' = [origin EXCEPT ![r] = d.origin]
    /\ updatedAt' = [updatedAt EXCEPT ![r] = NowString]
    /\ pushes' = pushes \cup
         {<<r, e>> : e \in {x \in registered : device[x] = "active" /\ owner[x] \in Recipients(d)}}
    /\ Bind(caller, d, key, r)
    /\ AppendLifecycle({r}, "created", "pending", None)
    /\ Acknowledge(caller, key, d, r)
    /\ sent' = [sent EXCEPT ![r] = d]
    /\ UNCHANGED <<accountVars, decision, userDecisions, nonces, call>>

OriginReplaceable(r) == TRUE

OriginUnbound(r) == origin[r] = None

(* bind_origin: pending requests only, by the creator or the admin; an   *)
(* existing binding is kept.                                                 *)
BindOrigin(caller, r, o) ==
    /\ Pending(r)
    /\ caller \in {Admin, form[r].creator}
    /\ OriginUnbound(r)
    /\ origin' = [origin EXCEPT ![r] = o]
    /\ UNCHANGED <<accountVars, status, form, decision, userDecisions, revision, updatedAt,
                   idempotency, nonces, journal, callbacks, pushes, call, acked, sent>>

-----------------------------------------------------------------------------
(* Decisions. *)

(* The option exists, or is the implicit dismissal of an optionless card. *)
OptionOffered(r, o) ==
    \/ o \in form[r].options
    \/ o = Dismiss /\ form[r].options = {} /\ ~form[r].value

(* submit_option: the device is looked up by its token before anything else. *)
SubmitOption(d, c) ==
    /\ call[d] = None
    /\ device[d] = "active"
    /\ status[c.request] # "absent"
    /\ call' = [call EXCEPT ![d] = c]
    /\ UNCHANGED <<accountVars, status, form, origin, decision, userDecisions, revision,
                   updatedAt, idempotency, nonces, journal, callbacks, pushes, acked, sent>>

RevokedDeviceStillActive(d) == device[d] # "none"
ClosedStillOpen(r) == TRUE
NonceNeverUsed(d) == TRUE
AnswerReplaceable(d) == TRUE

(* The checks of record_decision that look at what others may have committed *)
(* since the device authenticated; the last is the primary key of            *)
(* request_user_decisions.                                                   *)
DeviceStillActive(d) == device[d] = "active"
StillOpen(r) == Pending(r)
NonceUnused(d) == <<d, call[d].nonce>> \notin nonces
NotYetAnswered(d) == userDecisions[call[d].request][owner[d]] = None

(* All checks of record_decision, in the transaction. *)
Accepts(d) ==
    LET c == call[d]
        r == c.request
    IN  /\ c # None
        /\ Exists(r)
        /\ DeviceStillActive(d)
        /\ owner[d] \in form[r].recipients
        /\ ~Expired(r)
        /\ OptionOffered(r, c.option)
        /\ StillOpen(r)
        /\ c.verifies
        /\ NonceUnused(d)
        /\ form[r].resolution = "per_user" => NotYetAnswered(d)

CallDecision(d) ==
    [option |-> call[d].option, user |-> owner[d], device |-> d,
     nonce |-> call[d].nonce, at |-> now', checked |-> now]

(* resolved_at is a second reading of the clock, any time after the one the  *)
(* expiry check looked at: the handler may be preempted between the two.     *)
ClockMayPass == Tick \/ UNCHANGED accountVars

BurnNonce(d) == nonces' = nonces \cup {<<d, call[d].nonce>>}

(* A shared request takes its one decision and is resolved. *)
RecordShared(d) ==
    LET r == call[d].request
    IN  /\ Accepts(d)
        /\ form[r].resolution = "shared"
        /\ ClockMayPass
        /\ decision' = [decision EXCEPT ![r] = CallDecision(d)]
        /\ status' = [status EXCEPT ![r] = "resolved"]
        /\ updatedAt' = [updatedAt EXCEPT ![r] = Truncate(now')]
        /\ BurnNonce(d)
        /\ AppendLifecycle({r}, "answer", "resolved", CallDecision(d))
        /\ call' = [call EXCEPT ![d] = None]
        /\ UNCHANGED <<form, origin, userDecisions, idempotency, pushes, acked, sent>>

Decided(r) == {u \in Users : userDecisions[r][u] # None}

StatusAfterFirst(r, decided) == "resolved"

(* The status after one more per-user decision: the request closes when the  *)
(* number of decisions reaches the number of recipients.                     *)
StatusAfter(r, decided) ==
    IF /\ Cardinality(form[r].recipients) > 0
       /\ Cardinality(decided) >= Cardinality(form[r].recipients)
    THEN "resolved" ELSE "pending"

(* A per-user request takes one decision per recipient. *)
RecordPerUser(d) ==
    LET r == call[d].request
        after == StatusAfter(r, Decided(r) \cup {owner[d]})
    IN  /\ Accepts(d)
        /\ form[r].resolution = "per_user"
        /\ ClockMayPass
        /\ userDecisions' = [userDecisions EXCEPT ![r][owner[d]] = CallDecision(d)]
        /\ status' = [status EXCEPT ![r] = after]
        /\ updatedAt' = [updatedAt EXCEPT ![r] = Truncate(now')]
        /\ BurnNonce(d)
        /\ AppendLifecycle({r}, "answer", after, CallDecision(d))
        /\ call' = [call EXCEPT ![d] = None]
        /\ UNCHANGED <<form, origin, decision, idempotency, pushes, acked, sent>>

(* Every refusal of record_decision rolls its transaction back. *)
RejectDecision(d) ==
    /\ call[d] # None
    /\ ~Accepts(d)
    /\ call' = [call EXCEPT ![d] = None]
    /\ UNCHANGED <<accountVars, status, form, origin, decision, userDecisions, revision,
                   updatedAt, idempotency, nonces, journal, callbacks, pushes, acked, sent>>

-----------------------------------------------------------------------------
(* Cancellation, expiry and removal. *)

(* cancel_request, by the admin or the issuer that created the request. *)
CancelRequest(caller, r) ==
    /\ Pending(r)
    /\ caller \in {Admin, form[r].creator}
    /\ status' = [status EXCEPT ![r] = "cancelled"]
    /\ updatedAt' = [updatedAt EXCEPT ![r] = NowString]
    /\ AppendLifecycle({r}, "cancelled", "cancelled", None)
    /\ UNCHANGED <<accountVars, form, origin, decision, userDecisions, idempotency, nonces,
                   pushes, call, acked, sent>>

DueExactlyNow == {r \in RequestIds : Pending(r) /\ form[r].expires # None /\ form[r].expires = NowString}

(* The pending requests whose expires_at has passed. *)
Due == {r \in RequestIds : Pending(r) /\ form[r].expires # None /\ form[r].expires <= NowString}

(* expire_due_requests: every due request at once. *)
ExpireDueRequests ==
    /\ Due # {}
    /\ status' = [r \in RequestIds |-> IF r \in Due THEN "expired" ELSE status[r]]
    /\ updatedAt' = [r \in RequestIds |-> IF r \in Due THEN NowString ELSE updatedAt[r]]
    /\ AppendLifecycle(Due, "expired", "expired", None)
    /\ UNCHANGED <<accountVars, form, origin, decision, userDecisions, idempotency, nonces,
                   pushes, call, acked, sent>>

(* ON DELETE CASCADE of request_idempotency and of push_deliveries. *)
BindingsWithout(R) ==
    [s \in Slot |-> IF idempotency[s] # None /\ idempotency[s].request \in R
                    THEN None ELSE idempotency[s]]

PushesKept(R) == pushes

PushesWithout(R) == {p \in pushes : p[1] \notin R}

(* DELETE FROM requests and its cascades.  lifecycle_events,                 *)
(* callback_deliveries and decision_nonces deliberately stay.                *)
DeleteRows(R) ==
    /\ status' = [r \in RequestIds |-> IF r \in R THEN "gone" ELSE status[r]]
    /\ form' = [r \in RequestIds |-> IF r \in R THEN None ELSE form[r]]
    /\ origin' = [r \in RequestIds |-> IF r \in R THEN None ELSE origin[r]]
    /\ decision' = [r \in RequestIds |-> IF r \in R THEN None ELSE decision[r]]
    /\ userDecisions' = [r \in RequestIds |-> IF r \in R THEN NoAnswers ELSE userDecisions[r]]
    /\ revision' = [r \in RequestIds |-> IF r \in R THEN 0 ELSE revision[r]]
    /\ updatedAt' = [r \in RequestIds |-> IF r \in R THEN 0 ELSE updatedAt[r]]
    /\ idempotency' = BindingsWithout(R)
    /\ pushes' = PushesWithout(R)
    /\ UNCHANGED <<nonces, journal, callbacks, call, acked, sent>>

Prunable ==
    {r \in RequestIds : Exists(r) /\ ~Pending(r) /\ updatedAt[r] + Retention < NowString}

(* prune_retention. *)
PruneRetention ==
    /\ Prunable # {}
    /\ DeleteRows(Prunable)
    /\ UNCHANGED accountVars

(* delete_channel: its requests go with it, pending ones included, without   *)
(* a lifecycle event.                                                        *)
DeleteChannel(c) ==
    /\ DropChannel(c)
    /\ DeleteRows({r \in RequestIds : Exists(r) /\ form[r].channel = c})

(* A restart of the process also loses the handlers that record decisions. *)
RestartServer ==
    /\ Restart
    /\ call' = [d \in Devices |-> None]
    /\ UNCHANGED <<status, form, origin, decision, userDecisions, revision, updatedAt,
                   idempotency, nonces, journal, callbacks, pushes, acked, sent>>

-----------------------------------------------------------------------------
CreateStep ==
    \E caller \in Callers, key \in IdemKeys \cup {None}, d \in Drafts :
        \/ ReplayCreate(caller, key, d)
        \/ \E r \in RequestIds : DedupeCreate(caller, key, d, r) \/ InsertRequest(caller, key, d, r)

DecisionStep ==
    \E d \in Devices :
        \/ \E c \in Submissions : SubmitOption(d, c)
        \/ RecordShared(d)
        \/ RecordPerUser(d)
        \/ RejectDecision(d)

CallerStep ==
    \E caller \in Callers, r \in RequestIds :
        \/ CancelRequest(caller, r)
        \/ \E o \in Origins : BindOrigin(caller, r, o)

Next ==
    \/ AccountsStep /\ UNCHANGED requestVars
    \/ CreateStep
    \/ DecisionStep
    \/ CallerStep
    \/ ExpireDueRequests
    \/ PruneRetention
    \/ \E c \in Channels : DeleteChannel(c)
    \/ RestartServer

Spec == Init /\ [][Next]_vars

(* The clock runs, and spawn_maintenance sweeps every 30 seconds for as long *)
(* as the process lives; a restart starts it again.                          *)
FairSpec ==
    /\ Spec
    /\ WF_vars(Tick /\ UNCHANGED requestVars)
    /\ WF_vars(ExpireDueRequests)
-----------------------------------------------------------------------------
(* Properties. *)

(* The decisions in a request's journal, by position. *)
AnswerEvents(r) == {i \in DOMAIN journal[r] : journal[r][i].decision # None}
JournalAnswers(r) == {journal[r][i].decision : i \in AnswerEvents(r)}

(* One revision and one lifecycle event per accepted mutation, and none for  *)
(* a refused or deduped call (architecture.md, lifecycle journal): revisions *)
(* count up from the created event without gap, the row's revision and       *)
(* status are those of the last event, and nothing follows a final status.   *)
JournalMirrorsRequest ==
    \A r \in RequestIds :
        /\ status[r] = "absent" <=> journal[r] = <<>>
        /\ Exists(r) => /\ revision[r] = Len(journal[r])
                        /\ status[r] = journal[r][Len(journal[r])].status
        /\ \A i \in DOMAIN journal[r] :
             /\ journal[r][i].revision = i
             /\ journal[r][i].kind = "created" <=> i = 1
             /\ i < Len(journal[r]) => journal[r][i].status = "pending"

(* The journal's individual answers are exactly the stored decisions, so     *)
(* event detail and request agree on who decided what.                       *)
AnswersMatchJournal ==
    \A r \in RequestIds :
        Exists(r) => JournalAnswers(r) =
                       ({decision[r]} \cup {userDecisions[r][u] : u \in Users}) \ {None}

(* Concurrent creates with one dedupe key never leave two pending requests.  *)
OnePendingPerDedupeKey ==
    \A r, q \in RequestIds :
        /\ Pending(r) /\ Pending(q)
        /\ form[r].dedupe # None
        /\ form[r].dedupe = form[q].dedupe
        /\ form[r].channel = form[q].channel
        => r = q

(* A signature nonce is spent exactly when a decision is accepted            *)
(* (decisions.rs: "invalid attempts cannot burn a valid nonce"), and backs   *)
(* one accepted decision over all requests, removed ones included.           *)
NonceAuthorizesOnce ==
    /\ nonces = {<<a.device, a.nonce>> : a \in UNION {JournalAnswers(r) : r \in RequestIds}}
    /\ \A r, q \in RequestIds : \A a \in JournalAnswers(r), b \in JournalAnswers(q) :
         a.device = b.device /\ a.nonce = b.nonce => r = q /\ a = b

(* API.md: an idempotency key "returns the same request even after           *)
(* resolution or cancellation" and its record "survives until the request is *)
(* removed": two successful creates with one key named one request, unless   *)
(* one of the two requests has been removed.                                 *)
IdempotentReplies ==
    \A a, b \in acked :
        /\ a.key = b.key /\ a.caller = b.caller
        /\ a.draft.channel = b.draft.channel
        /\ Exists(a.request) /\ Exists(b.request)
        => a.request = b.request /\ a.draft = b.draft

(* Every accepted answer of a request with a callback URL left one callback  *)
(* obligation, at the answer's revision, and nothing else did; obligations   *)
(* outlive the request.                                                      *)
CallbackPerAnswer ==
    \A r \in RequestIds :
        LET owed == {p[2] : p \in {x \in callbacks : x[1] = r}}
        IN  /\ owed \subseteq AnswerEvents(r)
            /\ Exists(r) => owed = IF form[r].callback THEN AnswerEvents(r) ELSE {}

(* Push rows belong to stored requests and to devices of their recipients.   *)
PushesReachRecipients ==
    \A p \in pushes : Exists(p[1]) /\ owner[p[2]] \in form[p[1]].recipients

(* The deadline check and the sweep never both win.  A decision is stamped   *)
(* with a second reading of the clock (decisions.rs: resolved_at), which may *)
(* lie past the deadline its check was made before; but transactions run one *)
(* after another, so only the last answer of a request can be stamped late,  *)
(* however its recipients race.  No request is expired before its deadline.  *)
DeadlineSeparates ==
    \A r \in RequestIds : Exists(r) /\ form[r].expires # None =>
        /\ \A a \in JournalAnswers(r) : a.checked < form[r].expires
        /\ \A i, j \in AnswerEvents(r) :
             i < j => journal[r][i].decision.at < form[r].expires
        /\ status[r] = "expired" => form[r].expires <= updatedAt[r]

(* Journal and callback obligations only grow; a request's content, origin   *)
(* and decisions stay as first recorded until the whole row is removed.      *)
RecordedFactsStay ==
    [][/\ callbacks \subseteq callbacks'
       /\ nonces \subseteq nonces'
       /\ \A r \in RequestIds :
            /\ Len(journal[r]) <= Len(journal'[r])
            /\ \A i \in DOMAIN journal[r] : journal'[r][i] = journal[r][i]
            /\ Exists(r) /\ status'[r] # "gone" =>
                 /\ form'[r] = form[r]
                 /\ origin[r] # None => origin'[r] = origin[r]
                 /\ decision[r] # None => decision'[r] = decision[r]
                 /\ \A u \in Users : userDecisions[r][u] # None =>
                                       userDecisions'[r][u] = userDecisions[r][u]]_vars

(* Once a device is revoked or its user deleted, no further decision of      *)
(* theirs is recorded, although the handler may have authenticated earlier.  *)
RevokedStaySilent ==
    [][\A r \in RequestIds : \A i \in DOMAIN journal'[r] :
          LET e == journal'[r][i]
          IN  i > Len(journal[r]) /\ e.decision # None =>
                device[e.decision.device] = "active" /\ user[e.decision.user] = "active"]_vars

(* A request with an expiry does not stay pending for ever: it is decided,   *)
(* cancelled or removed, or the maintenance loop expires it.                 *)
DueRequestsLeavePending ==
    \A r \in RequestIds : (Pending(r) /\ form[r].expires # None) ~> ~Pending(r)

(* The decision ledger these tables implement. *)
Ledger == INSTANCE DecisionLedger WITH
    Questions <- RequestIds, People <- Users, Answers <- Decision, NoAnswer <- None,
    phase <- [r \in RequestIds |->
                CASE status[r] = "pending" -> "open"
                  [] status[r] = "resolved" -> "answered"
                  [] status[r] \in {"expired", "cancelled"} -> "withdrawn"
                  [] OTHER -> status[r]],
    mode <- [r \in RequestIds |-> IF Exists(r) THEN form[r].resolution ELSE "shared"],
    asked <- [r \in RequestIds |-> IF Exists(r) THEN form[r].recipients ELSE {}],
    answer <- [r \in RequestIds |-> [u \in Users |->
                IF decision[r] # None /\ decision[r].user = u
                THEN decision[r] ELSE userDecisions[r][u]]]

(* The tables implement the ledger: one answer per person, none after        *)
(* closing, closing exactly with the answer that settles the question.       *)
ImplementsLedger == Ledger!LedgerSpec

(* create.rs: "retried creates must return the pending request".  The body a *)
(* pending request was created from is not refused when it is sent again     *)
(* and neither the recipients nor the origin have changed.                   *)
RetryReturnsPending ==
    \A r \in RequestIds :
        /\ Pending(r)
        /\ form[r].dedupe # None
        /\ Recipients(sent[r]) = form[r].recipients
        /\ sent[r].origin = origin[r]
        => ~DedupeConflict(sent[r], r)

=============================================================================
