# nod in TLA+

nod asks people for decisions. An *issuer* (a program with an API token) creates a *request* on a
*channel*; the server stores it in SQLite, pushes it to the *devices* of its *recipients*, records
their signed *decisions*, and reports every accepted change in a *lifecycle journal*, through
*callbacks* and to a NATS stream. Clients share a core library that keeps a copy of the server's
state in step over a socket and lets people answer. This directory models the server and its
clients, checks them with TLC on small instances, and proves the central parts with TLAPS for every
instance.

`S` below stands for `src/server/nod-server/crates/nod-server/src`, `K` for
`src/client/nod-client-core/src`, `T` for `src/client/nod-tui/src`, `R` for
`src/server/nod-apns-relay/src`.

## 1. Inventory

| Component | State | Operations | Interacts through | Hard behaviour |
|---|---|---|---|---|
| Accounts (`S/db/users.rs`, `channels.rs`, `subscriptions.rs`, `enrollment.rs`, `devices.rs`, `connection.rs`) | users, tombstones, channels, subscriptions, enrollment codes, devices, push tokens | create and delete users, create and delete channels, subscribe, issue and use codes, revoke devices, register push tokens, seeding at start | rows that requests, decisions and pushes read | handlers made of two autocommitted statements; codes used twice; deletion against enrollment |
| Requests (`S/db/requests/*.rs`, `S/api/requests.rs`) | requests, options, recipients, decisions, nonces, idempotency bindings, origins | create, replay, dedupe, decide, cancel, expire, prune, bind an origin, delete with the channel | one `BEGIN IMMEDIATE` transaction each, each ending in the journal append | stale authentication, first answer wins, closing by count, clocks of two precisions, retries after anything |
| Lifecycle journal (`S/db/lifecycle.rs`) | `lifecycle_events`, `requests.revision` | append, replay pages, detail | written in the request's transaction; read by publisher, replay and callbacks | a mutation without its event |
| Push outbox (`S/db/push_deliveries.rs`, `S/services/push_delivery.rs`) | `push_deliveries`, tasks | queue, recover, claim, begin, send, clear a rejected token, record | rows born with the request; devices' tokens; the providers | leases, stale tasks, attempts counted across crashes, token replaced meanwhile |
| Push providers and relay (`S/push.rs`, `S/apns_relay.rs`, `R`) | the registry's route, the cached provider token | route, validate, sign, send, classify the answer | push worker, mTLS, Apple | answers lost at two hops, a cache shared by concurrent sends |
| Callback outbox (`S/db/callback_deliveries.rs`, `S/services/callback_delivery.rs`) | `callback_deliveries`, tasks | queue, claim, post, complete, retry | rows born with an answer's journal event; the receiver | order per request, lost acknowledgements, policy changes |
| Lifecycle publisher (`S/services/lifecycle_publish.rs`) | publish columns of `lifecycle_events` | claim, publish, acknowledge, retry | NATS JetStream | crash between stream acknowledgement and record |
| API calls (`S/api.rs`, `S/api/*.rs`, `S/services/*.rs`, `S/auth.rs`, `S/db/issuer_tokens.rs`) | tokens, calls under way | authenticate, check scope, commit, audit, broadcast, respond, wait for a decision | tables, audit log, sync broadcast | a token revoked during a call, a caller that hangs up, a broadcast missed between read and wait |
| Audit log (`S/audit.rs`) | the file, its size, the sticky error | append, rotate | every handler, after its commit | a failed write followed by good ones |
| Sync socket (`S/sync.rs`, `S/api/sync_socket.rs`) | broadcast channel of 512, one receiver per socket | send after commit, project per user, resync | client core | lagging receivers, missing or reordered broadcasts |
| Client core (`K/state.rs`, `K/runtime/*.rs`) | the reduced state, the sync task, the snapshot lock | apply snapshot and events, reconnect, select a server, open, submit, clear, subscribe, enroll, forget | socket and API; messages to the front end | snapshots against events, a server switch with work in flight |
| Client store (`K/store.rs`) | `client-core.json`, its backup, the keyring | load, recover, merge, save, migrate ids | every shell of the user | two shells, a shell killed during a save |
| Terminal client (`T`) | screens, modals, drafts, history pages, commands in flight | keys, runtime messages, command results | client core through a bridge of two queues | results overtaken by newer states, drafts of changed content |
| Signatures, receipts, verifier (`S/signing.rs`, `src/nod-proto`, `K/signing.rs`, `src/tools/nod-verify`) | salts, digests, receipts | project, digest, sign, verify | decisions | releases that meet |
| Desktop and Apple clients | windows, alerts | - | client core | - |
| Configuration, admin page, device attestation | files, pages | - | - | - |

What makes each correct:

- **Accounts**: a deleted user regains no access, a code enrolls one device and is spent exactly by
  it, only active devices hold push tokens.
- **Requests**: the tables implement a ledger in which a person is asked, replies at most once, and a
  question closes with its first answer or with its last recipient; a nonce backs one decision;
  deadline and answer never both win; a retried create asks nobody twice; nothing recorded changes
  until the row is removed.
- **Journal**: one gapless revision, one event and the owed callback per accepted change.
- **Push outbox**: at most three sends per push, one owner per row, a token registered meanwhile
  survives, every push settles.
- **Push path**: the worker's verdict is what Apple said, or "try again" when nobody heard it;
  provider tokens keep within Apple's limits.
- **Publisher and replay**: published means stored at the recorded position, for good; every event is
  published; a reader that pages through the journal misses nothing and reaches the end.
- **Callback outbox**: answers of a request arrive in order, delivered means acknowledged, every
  owed callback arrives eventually.
- **API calls**: a call that waits reports a decision that was there in time; a gap in the audit log
  stays visible.
- **Sync and client core**: what the front end shows is from the selected server, copies never go
  back, and once things are quiet it shows what the server has.
- **Client store**: no crash loses the configuration, no save undoes another shell's edit.
- **Terminal client**: an answer is only sent with the content it was picked for; history belongs to
  the selection; the screen ends up at the runtime's state.
- **Evidence**: whatever the releases, what a device is shown it can sign, what it honestly signed
  verifies, and what verifies was signed.

## 2. Modules

| Module | Models | Built on |
|---|---|---|
| `Accounts` | the account tables | - |
| `Requests` | the request tables, journal, callback and push obligations; every `Accounts` step interleaved | `Accounts`, refines `DecisionLedger` |
| `Requests_proofs` | theorems about the account tables and the request tables, and that these implement the ledger | `Requests` |
| `DecisionLedger` | the abstract promise: ask, reply once, withdraw, forget | - |
| `PushOutbox` | the push rows and the worker's tasks | (rows are those `Requests!InsertRequest` queues) |
| `PushOutbox_proofs` | theorems about them | `PushOutbox` |
| `PushPath` | one `push_request` call through registry, provider, relay and Apple, and its verdict | (the verdict is what `PushOutbox!PushAnswered` takes) |
| `CallbackOutbox` | the callback rows and the worker's tasks | (rows are those `Requests!CallbacksOwed` queues) |
| `CallbackOutbox_proofs` | theorems about them | `CallbackOutbox` |
| `LifecyclePublish` | the publish columns of the journal, the NATS publisher of each process and the stream it talks to | (events are those `Requests` journals) |
| `LifecyclePublish_proofs` | theorems about them | `LifecyclePublish` |
| `JournalReplay` | the replay endpoint's pages over a growing journal, and a reader that follows API.md | (the same journal) |
| `JournalReplay_proofs` | theorems about them | `JournalReplay` |
| `Access` | API calls step by step, tokens and scopes, the long poll, the audit log | (transactions as `Accounts` and `Requests` give them) |
| `ClientState` | the reducer of the client core, as operators on its state | - |
| `ClientSync` | server broadcasts and socket, the core's sync task, snapshots and commands, the desktop shell's messages | `ClientState` |
| `ClientSync_proofs` | theorems about them | `ClientSync` |
| `TerminalApp` | the terminal client and its command bridge | (the runtime is `ClientSync` seen from outside) |
| `TerminalApp_proofs` | theorems about it | `TerminalApp` |
| `ClientStore` | the configuration file shared by several shells | - |
| `Evidence` | digests, projections, signatures, receipts and the verifier across releases | - |
| `Edges_proofs` | theorems about the push path, the calls, the configuration file and the evidence | `PushPath`, `Access`, `ClientStore`, `Evidence` |
| `MCServer`, `MCDecisions`, `MCCreates`, `MCPush`, `MCCallbacks`, `MCPublish`, `MCReplay`, `MCSync`, `MCTerminal` | instances for TLC | the module they name |
| `MCEdges` | `Evidence`, `ClientStore`, `Access` and `PushPath`, which share no state, in one run | those four |

### Granularity

SQLite serialises writers, so a statement outside a transaction and a `BEGIN IMMEDIATE`
transaction are one step each. Everything between two of them is an interleaving point:

- `create_user`, `create_enrollment_code` and `set_user_subscription` make two statements; a
  *handler* (`Handlers`) carries what it knew from the first to the second.
- `submit_option` authenticates the device, then `record_decision` runs its transaction:
  `SubmitOption` stores the call in `call[d]`; `RecordShared`, `RecordPerUser` or `RejectDecision`
  consumes it later, after anything else has committed.
- `record_decision` reads the clock once for the expiry check and once more for `resolved_at`;
  `ClockMayPass` lets any amount of time fall between the two, since the handler may be preempted
  there. An answer that passed its check in time may therefore be stamped after the deadline.
- A push task (`deliver_inner`) is a sequence of steps: device read, request read, begin, send,
  answer, token clearing, record. A callback task: claim, post, answer, record.
- In `PushPath` a send reads the clock and takes the token cache's lock in two steps; each hop's
  request and answer are steps of their own.
- In `Access` authentication, the scope check, the transaction, the audit entry, the broadcast and
  the response are steps of their own, in the order of each handler (`Aftermath`).
- In `ClientSync` every HTTP call reads or commits on the server at one instant between the steps of
  the task that made it; what a task computes under the reducer's lock and what it then sends are
  two steps.
- In `TerminalApp` one turn of the loop drains messages, then results, then takes a key; each message
  and result is taken in a step of its own, so that others arrive in between, as `try_recv` lets them.
- In `ClientStore` a save takes the lock, merges, copies the backup and renames, and a shell may be
  killed between any two of these.

### State and code

- `Accounts`: `user[u]` is `absent`, `active` or `deleted` (row plus tombstone); `device[d]`,
  `owner[d]` the device row; `registered` the devices with a push token; `codes[c]` an enrollment
  code with its expiry and use; `handler[h]` a two-statement handler between its statements.
- `Requests`: `status[r]` is `requests.status` with `absent` before and `gone` after the row;
  `form[r]` the immutable columns; `journal[r]` the events of a request by `seq`; `idempotency`
  keyed by caller, channel and key; `acked`, `sent` and an answer's `checked` (the reading its
  deadline check used) are history that properties read and no action's guard does. A create body is a member of `Drafts`; its free text is one value,
  `body`, so the fingerprint of a body is the body.
- Times are integers. `Precision` clock units make a millisecond: stored times are cut to it by
  `Truncate` while comparisons of `Utc::now()` are not, as in the code. A tick takes the clock to any
  later time.
- `LifecyclePublish`: an event is its `seq`; a claim's lease token is the attempt count it stored,
  which is fresh for each claim. One process runs one publisher; several processes (`Publishers`) on
  one database are what the lease fence is for. The stream is external: it stores a message unless
  it remembers the id (`recent`), and acknowledges with the stored position.
- `JournalReplay`: `High` and `Scan` are the two reads of one page, two steps apart; sequence numbers
  are gapless because writers are serialised and a rollback takes the number back.
- `PushOutbox`, `CallbackOutbox`, `LifecyclePublish`: time is relative. A lease counts down to 0, a
  task ages, a backoff counts down; this keeps the state space finite without a clock bound.
- `PushPath`: `push[p].at` is where a call is, `apple` what Apple made of it (history), `verdict`
  what the worker is told. Apple is external and may answer anything, except that it refuses an
  expired provider token. The wall clock is not set back.
- `Access`: `active` is the set of tokens whose row is not revoked, `request[r]` what a transaction
  leaves for others to see, `heard` the waiting calls whose receiver holds something.
- `ClientState`/`ClientSync`: `c` is the `StateReducer`, field by field; `task` the sync task, `cmd`
  the command under the runtime's mutex, `out[o]` the messages a task has computed and not sent;
  `forgotten` the servers that a failed save of `forget_server` left in the reducer only;
  `unsent` the envelopes of commits not broadcast yet, `sock` the subscriber queue and the wire. A
  copy of a request is its status, its `updated_at` and its channel.
- `TerminalApp`: `app` is `AppState`, `inbox` and `results` the two queues, `rt` the runtime. A key
  that moves a cursor is folded into the choice of the key after it. `chosen` is history.
- `ClientStore`: a configuration is profiles, credentials and a selection; `shell[p].base` is the
  merge base, `own` the shell's copy. Tokens and signing keys are one map, in the file or the
  keyring. `legacy` says that an older release had left a configuration, whose profiles move to new
  ids when a shell loads it; no guard reads it after `Init`.
- `Evidence`: a digest is its tag and the content hashed, a signature its key and payload: two are
  equal exactly when these are. An absent digest or signing context has the tag `"none"`; `issued` is
  defined for the requests whose create was answered.

Some definitions have a sibling with a defect in its name (`StatusAfterFirst`,
`LapsedIgnoringLease`, `ClaimableOutOfOrder`, ...). No specification uses them; each is what a
plausible mistake in the definition below it would be, and each makes one of the properties fail.

## 3. Runs

| Run | Question | Bounds |
|---|---|---|
| `server` | accounts and requests together, with two-statement handlers and restarts | 1 user created, enrolled on 2 devices, revoked and deleted around 1 request; 1 code, 1 handler |
| `decisions` | two devices race on a shared or a per-user request with a deadline and a callback; does a recorded fact change, an origin included? does a due request leave `pending`? | 1 request, 2 devices of 2 users, 2 nonces, 2 origins, 2 units to the millisecond, deadline at a half millisecond, clock to 4 |
| `ledger` | do the tables implement `DecisionLedger`? can a nonce back two decisions, across requests and removals? | 2 requests, 2 users, 1 nonce per device |
| `creates` | retried creates with and without keys | 2 requests, 2 callers, 1 idempotency and 1 dedupe key, 2 bodies, 2 origins |
| `push` | the push worker with everything that can go wrong; does every push settle? | 1 row, 2 tasks, 2 attempts, 2 tokens, lease 2, timeout 1, 2 faults, 4 claims |
| `callbacks` | order of callbacks; does every one arrive? | 3 answers of 2 requests, 2 tasks, 2 faults, lease 2 |
| `publish` | publishers of two overlapping processes, a stream that loses, delays and repeats; is every event published? | 2 events, 2 publishers, 3 faults, lease 1 |
| `replay` | does paging through a growing journal hide or repeat anything, and does it end? | 1 reader, 2 channels of which it sees 1, 6 events, pages of 1 to 3 |
| `sync` | does the front end end up with the server's state, whatever is lost, reordered or switched? | 2 servers, 1 channel, 2 requests of which 1 exists at first, a broadcast channel and a wire of 1, 2 operations, commands or faults |
| `terminal` | what can a short sequence of keys do while states, outcomes and history pages arrive? | 2 servers, 3 channels, 3 requests, 2 answers, 4 keys, 1 server operation or fault |
| `edges` | signatures and receipts; the configuration file; API calls; the push path | 3 requests of three releases, 3 devices, 2 server starts, 2 submissions; 2 shells on a new installation or an older release's file, 2 profiles, 2 edits, 1 kill; 3 overlapping calls, 4 tokens, 1 dropped call, 1 disk fault; 2 sends, 4 clock units, 1 restart |
| `retry_expiry` | see section 6 | 2 requests |

Why the bounds are enough. Every table is keyed by id and no action relates more than two rows of a
table: two requests exhibit every clash of keys, nonces or bindings; two devices every race on one
request; one device more would repeat what symmetry folds together. A row of an outbox is touched
by the task that owns it and by stale ones: two tasks make a stale one and an owner. One lost task
and a lapse suffice to create the stale one, attempts 2 (push) suffices to be exhausted after a
retry, and three answers of two requests make a fenced delivery and a free one. In `sync` a channel
of one envelope lags at the second event, so two operations make every case of a missed, late and
overtaken broadcast, and a server switch with a snapshot of the old server in flight. In `terminal`
four keys open a form, pick, type and submit, or page the history and move away. A merge of two
shells' saves takes one edit of each. Two sends suffice for one to sign between the other's clock
reading and its lock, and a clock of four units ages a provider token past its refresh twice.
`RefreshAfter`, `ExpireAfter` and `UpdateGap` (2, 3 and 1) keep the order of 50, 60 and 20 minutes.
`MaxTime`, `MaxFaults`, `MaxClaims`, `MaxEvents`, `MaxKeys`, `MaxEdits`, `MaxKills`, `MaxDrops`,
`MaxStarts`, `MaxPosts`, `MaxWall` and `MaxRestarts` bound what the code leaves unbounded; a guard
that names the bound is the only place they occur. The theorems below remove the bounds where that
matters most.

Deadlock is checked in `Requests` and `JournalReplay`, where some operation is always possible. The
other runs switch it off: when every row has settled and faults, keys and events are used up, these
parts have nothing to do, which is the end they work for.

### What each property says

`Accounts`: `DeletedUserHasNoActiveDevice`, `CodeEnrollsOnce`.
`Requests`: `JournalMirrorsRequest` (gapless revisions, row and last event agree),
`AnswersMatchJournal`, `OnePendingPerDedupeKey`, `NonceAuthorizesOnce` (spent exactly by an accepted
decision, for ever), `IdempotentReplies`, `CallbackPerAnswer`, `PushesReachRecipients`,
`DeadlineSeparates` (every answer passed its check before the deadline, only the last one may be
stamped later, no expiry comes early), `RecordedFactsStay`, `RevokedStaySilent`, `DueRequestsLeavePending`,
`ImplementsLedger` (which says that nobody answers twice, that a shared request is answered once and
that a per-user one closes with its last recipient).
`PushOutbox`: `SendsWithinAttempts`, `SendsOverlapOnlyOverrun`, `FreshTokensSurvive`,
`EveryPushSettles`. `PushPath`: `VerdictsFollowApple`, `ProviderTokensWithinLimits`.
`CallbackOutbox`: `RevisionsArriveInOrder`, `EveryCallbackDelivered`.
`LifecyclePublish`: `PublishedIsStored`, `EveryEventPublished`.
`JournalReplay`: `ReplayIsExact`, `ReadersCatchUp`.
`ClientSync`: `OneServerShown`, `CopiesNeverGoBack`, `FrontEndConverges`.
`TerminalApp`: `AnswersFitTheirContent`, `HistoryFitsSelection`, `TerminalConverges`.
`Evidence`: `ViewsCanBeSigned`, `HonestReceiptsVerify`, `VerifiedMeansSigned`.
`ClientStore`: `ConfigurationSurvives`, `ProfilesKeepCredentials`, `OtherShellsEditsStay`.
`Access`: `AuditGapsAreVisible`, `WaitsMissNoDecision`.

Each is stated with its reason above its definition. What a theorem below states and no run repeats
(`OnlyActiveDevicesRegistered`, `OneOwnerPerRow`, `DeliveredIsFinal`, `OneClaimPassesTheFence`,
`PublicationIsFinal`, `CatchUpStaysAdmissible` and the types) was model-checked before it was proved.

## 4. Fairness

- `FairSpec` (requests): the clock ticks and `ExpireDueRequests` is weakly fair, because
  `spawn_maintenance` (`S/state.rs`) runs it every 30 seconds for as long as the process lives and a
  restart starts it again. Nothing is assumed of callers or devices.
- `PushFairSpec`: the worker's loop ticks every second and never returns, so recovery and claiming
  are weakly fair; a task's next step is weakly fair because tokio polls it and every send is cut
  off after 15 seconds. Faults, the surroundings and the users are not fair. `SendsOverlapOnlyOverrun`
  says what `deliver_bounded` arranges: two sends of one push overlap only while a task runs on past
  its 60 seconds, which takes a stalled process and counts as a fault.
- `CallbackFairSpec`: the same, at 250 milliseconds and 10 seconds. Fairness of claiming is per
  delivery: `claim_due` takes the longest due first and a retried one is moved back by its backoff.
  `EveryCallbackDelivered` presumes that the policy finally allows the destination; receivers stop
  failing when the fault bound is used up.
- `PublishFairSpec`: the publisher loops for ever and every publication is cut off after 10 seconds;
  the stream stores what reaches it and time passes. Losses, timeouts, crashes and the end of the
  stream's memory of ids are faults and are never forced.
- `ReplayFairSpec`: a reader keeps asking; among repeated calls some is answered (strong fairness of
  `AnswerPage`), which is all a client that retries can hope for.
- `ClientSync`: spawned tasks keep running, the socket's task and its 15-second authorization timer
  keep going, and every HTTP call ends (the API client has a timeout). Operations, commands and faults are
  never forced; a broadcast may stay away for ever, since the core reconciles by snapshot.
- `TerminalApp`: the loop polls, command tasks run and the periodic resync keeps coming. Nobody has
  to press a key.

## 5. Proofs

TLAPS checks these for every value of the constants.

| Theorem | Says | Argument |
|---|---|---|
| `AccountsTypeCorrect` | the account tables are well typed | inductive as it stands |
| `DeletedUsersLoseAccess` | a deleted user has no active device | `AccountsInv`: adds that a device has an owner exactly when enrolled and an active device's owner is a user |
| `RevokedDevicesHoldNoToken` | only active devices hold a push token | the same invariant |
| `PushTypeCorrect` | rows, tasks and tokens are well typed | adds that only a task at its last step carries "skipped", without which a task could send without a token |
| `PushesAreBounded` | a push is sent at most `MAX_ATTEMPTS` times | `SendsCovered`: sends made plus tasks licensed to send never exceed the attempts stored. Needed because a stale task may still send after its row moved on |
| `RowsHaveOneOwner` | at most one task passes a row's fence | `ClaimsDiffer`: tasks on one row carry different generations, none newer than the row's |
| `AnswersArriveInOrder` | no answer is posted before the earlier ones were acknowledged | `CallbackInv`: rows are queued in order, what a task holds has only delivered predecessors, delivered rows are acknowledged |
| `DeliveriesAreFinal` | delivered means acknowledged, and stays | the same invariant |
| `PublishedEventsAreStored` | a row marked published names a stream position that holds the event | `PublishInv`: acknowledgements under way and taken are true of the stream, which only grows |
| `FenceAdmitsOne` | at most one claim of an event passes the fence | `ClaimsDiffer`: claims of one event carry different tokens, none newer than the row's |
| `PublicationsAreFinal` | a recorded publication is not rewritten | the fence |
| `ReplayHidesNothing` | a reader has exactly the visible events up to its cursor | `ReplayInv`, with `PageIsInterval`: a page is the interval from its cursor to the next |
| `CatchUpNeverRefused` | the next page of a catch-up passes the cursor check | cursor, bound and high water stay ordered |
| `CodesEnrollOnce` | an enrollment code enrolls one device | `CodesInv`: adds that only an enrolled device has a code, so that an enrollment, which takes a fresh device, replaces no earlier one |
| `SendsDoNotOverlap` | two sends of a push overlap only while a task overruns its timeout | `LeaseCoversTask`: a task within its time that holds the newest claim has used no more of the lease than its own age, and a task with an older claim has overrun |
| `FreshTokensKept` | clearing a token removes the rejected one only | `ClearsRejected`: a task about to clear a token carries one that the provider rejected |
| `AccountsInComposition` | every step of the whole server is a step of the account tables or leaves them alone | one case per action of `Requests` |
| `AccountsStaySound` | the accounts theorems hold of the whole server | by that refinement |
| `RequestsTypeCorrect` | requests, answers, journal, bindings and outboxes are well typed | `RequestsInv`, below |
| `JournalsMirrorRequests`, `JournalAnswersAreStored` | row and journal agree: status, revision and every answer | `RequestsInv` |
| `NoncesAuthorizeOnce`, `DedupeKeysAreUnique` | a nonce backs one decision, a dedupe key one pending request | `RequestsInv` |
| `RepliesAreIdempotent` | replies under one key name one request | `RequestsInv`, from `AcksAreBound`: a key that was answered is bound for as long as its request lasts |
| `CallbacksFollowAnswers`, `PushRowsReachRecipients` | the outboxes hold what was owed, to whom it was owed | `RequestsInv` |
| `DeadlinesSeparate` | an answer was checked before the deadline, only the last one may be stamped later, an expiry is not before it | `RequestsInv`, its part `AnswersArePast`: recorded times have passed, so whatever follows an answer stamped late sees the deadline passed, however long the two clock readings are apart |
| `RecordedFactsStayRecorded`, `RevokedDevicesStaySilent` | no step rewrites a recorded fact or records an answer of a revoked device | action properties, from `RequestsInv` |
| `TablesImplementLedger` | the tables implement `DecisionLedger` | `LedgerStart`, `LedgerStep`: each action of `Requests` maps to a ledger step or a stutter in the states of `RequestsInv` |
| `VerdictsAreApples` | the verdict on a push does not contradict Apple | `PathInv`: what `send` returns, what the relay replies and what the worker is told each fit Apple's answer |
| `ProviderTokensAreAccepted` | no send carries an expired token, no two are signed within the gap | `TokenInv`: a send that waits for the lock read the clock at most one unit ago (a unit is ten minutes or more, and calls to relay and Apple are cut off after ten seconds), so the token it takes was fresh at most one unit ago; the cached token is the last one signed |
| `AuditGapsStayVisible` | an answered call is in the audit log or the log shows an error | `AccessInv`, its part `AuditKept`: a handler past its commit still has its audit step before it, or it is covered |
| `WaitsMissNothing` | a long poll that times out missed nothing older than its last interval | `AccessInv`, its part `WaitKept`: whatever was decided was decided after the call last read |
| `AConfigurationRemains` | one readable copy of the configuration remains | `StoreInv`: a save past its merge holds the lock, and copies over the backup only what is readable |
| `SavesKeepOtherEdits` | a save changes on disk only what its shell edited | `StoreInv`: what is about to be written agrees with the disk outside the shell's edits |
| `ProfilesStayWithCredentials` | every profile on disk has its enrollment's credentials | `CredInv`: in every copy that files and shells hold, the credentials are exactly those of the profiles |
| `OneServerShownAlways` | the reducer holds requests of the selected server only | `SyncInv`: everything on its way to the reducer (the queued and wire envelopes of an open socket, the task, a command waiting for the lock, a snapshot being fetched under the lock) is of the selected server |
| `CopiesNeverGoBackAlways` | no late snapshot, event or answer puts an older copy over a newer one | `SyncInv`: every copy in an envelope, a snapshot or a command is one the tables have had (`Past`), and a snapshot that has been read is not older than any copy the reducer holds and has not touched since the fetch began (`SnapshotFits`) |
| `TermInvAlways`, `HistoryFitsSelectionAlways`, `AnswersFitTheirContentAlways` | what the terminal holds is of the server it shows; history on screen is the selection's; an answer goes with the content it was picked on | `TermInv`, below |
| `ViewsStaySignable` | every projection a capable device receives can be signed and is accepted; an app without the value contract can sign no value request | `EvidenceInv`: the copy on screen is a projection under the current salts, which never change once the server has started; projections touch nothing that is hashed |
| `HonestReceiptsAlwaysVerify` | a recorded decision passes nod-verify against the saved create response | `EvidenceInv`: a create response is what its release derives from the row under the same salt, and a decision is what the signed payload says |
| `VerifiedWasSigned` | what the verifier passes was signed on a copy that says the same | `EvidenceInv` and `EncodersDiffer`; `PassedWasSigned` has it for every response and every decision that carries a recorded signature |

**The request tables.** `RequestsInv` is the conjunction of the properties above and of what they need
to be inductive: `RowsMatchStatus` (a row that exists has its columns, one that does not has left no
answer), `AnswersFitMode` (a shared request is answered in its own row and only when it closes, a
per-user one in the rows of its recipients), `BindingsAreLive` and `AcksAreBound` (an idempotency
record goes with its request, and an answered create left one), `PushInv` (pushes are for enrolled
devices of recipients). The parts lean on each other: that a new answer clashes with none rests on
status, journal and answer rows agreeing at once. The theorems about the account tables
supply that an active device has an owner, who is a user.

**The refinement.** `create_request` asks, `record_decision` replies, cancellation and expiry withdraw,
retention and channel deletion forget; every other step leaves the ledger alone. The code closes a
per-user request when the count of answers meets the count of recipients; that this is the moment when
everybody asked has replied follows from `AnswersFitMode` and the cardinalities of finite sets.

**The configuration file.** Profiles and credentials are merged apart. The attempt to prove that they
stay together in every installation failed, and TLC confirmed why on an instance with five edits: after
a profile of an older release has moved to its new id, or was forgotten, its credentials may stay
behind under an id that a later enrollment takes, and a merge may then remove one without the other.
`ProfilesKeepCredentials` is therefore about installations that began with this release, where it is
proved without a bound on edits, shells or kills.

**The terminal.** A draft is filed under the server on screen, the request and its digest, so an answer
fits its content only if what is on screen is of that server. That is not inductive by itself: an answer
to a submission is put into the lists without asking for its server, and the terminal may still show the
server before last. `TermInv` adds what prevents it. Every state in the queue that is of another server
than the runtime's is followed by one that is not (`InboxGood`); messages are drained before results;
and one command is in flight at a time (`OneInFlight`): once the messages
are drained the terminal shows the runtime's server, unless the outcome still to be taken is a state
itself and so no submission's (`Caught`). The two commands of the start do overlap, but neither
is a submission and neither selects a server.

**Evidence.** The encoders are told apart by what they hash: a line snapshot lists recipients, the
structured digest has a commitment in their place, and the value digest also has the answer field
(`EncodersDiffer`). The tags do not tell: `v2` is a tag of both. Equal digests say the same of both
copies (`DigestsSayTheSame`), which is collision resistance in the model's terms.

**Assumptions** are the named `ASSUME`s of the modules; each run evaluates those of its modules.
Besides types and finiteness they say:

- `None`, the models' NULL, is no task, token, code or row (`NullIsNoCode`, `NullIsNoRow`);
- `TimeoutWithinLease`: a task times out before its lease ends, the `debug_assert!` at
  `S/services/push_delivery.rs:52`;
- `PushPathAssumption`: the update gap (20 minutes) is at most the refresh age (50), which is positive
  and at most the expiry (60), the constants of `R/apns/auth.rs`;
- `AccessAssumption`: `WaitFor` is at least one second, which `S/api/requests.rs:234` clamps, and a call
  names what its route names, a request or a token;
- `SyncAssumption`: `Nothing` is no request and no task; a broadcast channel has room for one envelope
  (`S/sync.rs:11` makes it 512);
- `TerminalAssumption`: requests are finitely many numbers, `None` is none of them, and only requests
  have choice fields;
- `EvidenceAssumption`: `Unset` is no device, user, answer or option; a value request is younger than
  the releases that had no signing context;
- `StoreAssumption`: the lock's `Nobody` is no shell; new ids are not old ids.

The invariants were model-checked on the instances of section 3 before they were relied on.

**Only TLC checks**: liveness, that is `DueRequestsLeavePending`, `EveryPushSettles`,
`EveryCallbackDelivered`, `EveryEventPublished`, `ReadersCatchUp`, `FrontEndConverges` and
`TerminalConverges`. Each rests on weak or strong fairness, and so on `ENABLED`, which is out of the
prover's reach. Every other property of a passing run is a theorem. The types that the callback,
publish and replay arguments need are part of their invariants (`Shapes`), proved with them.

## 6. Findings

`retry_expiry`: the retry of a create without an idempotency key, of a *value* request that is still
pending under its dedupe key. The comment at `S/db/requests/create.rs:76` says that "retried creates
must return the pending request"; the caller's `expires_at` is compared in full with the stored one,
which was cut to milliseconds, so repeating the very create is refused with Conflict when it is
finer.

Modelled, and judged intended or tolerated: the same comparison includes the origin, so an
origin-less create is refused once `bind_origin` bound one; deleting a channel removes its pending
requests without a terminal journal event; a per-user request whose remaining recipient was deleted
closes only by expiry or cancellation; a push or callback may be repeated after a crash
(at-least-once); an issuer call that was authenticated before its token was revoked completes; a
caller that hangs up between commit and audit leaves no audit entry; two tasks of the client core
may send their alerts in the other order than they computed them; an answer that was checked just
before the deadline may carry a later `resolved_at`; when the save of `forget_server` fails, the
client is left on a server it has no profile, token or sync task for (`ForgetFails`, `forgotten`),
until an enrollment or a restart. `FrontEndConverges` makes no claim about such a server, as about one
that revoked the device.

## 7. Not modelled

- Cryptography and byte encodings (ideal in `Evidence`), device attestation.
- Management and replay scopes of issuer tokens, hashing and header parsing.
- Text normalisation and size limits of request content, rate and page limits.
- An event the stream refuses for ever: it is retried for ever, and since `claim_due` takes the first
  due event, how far many such events delay later ones depends on the ratio of backoff and reconnect
  times, which the clock units do not express.
- A wall clock that is set back (the provider token's age would be wrong), a failing keyring call,
  two shells that migrate an old profile at the same moment with the keyring in use. Migration itself
  is modelled, but what becomes of a migrated profile's credentials after many edits is not part of
  a property (section 5).
- Parsing of configuration, static pages, listings, the relay's TLS, the wording of notifications.
- The four reads of a snapshot are one instant of the server (`SnapshotReads`). The content check of a
  retried create compares options and recipients as sets, where the code compares ordered lists
  (`SameContent`). An older application signs what an older release showed it; that the server also
  accepts the line digest of a current request with one recipient is left out (`OlderAppSigns`). A host
  that fails to remove its hardware key stops `forget_server` after the disconnect.
- Windows, tray, updater and Swift views of the desktop and Apple clients; the FFI binding.
- Renames, notification preferences and key rotation change no state a property reads; muting is
  part of `ChangeWanted` and of `Muted`.

## 8. Plan

| Step | Module | Content |
|---|---|---|
| done | `Accounts`, `Requests`, `DecisionLedger`, `PushOutbox`, `CallbackOutbox`, `LifecyclePublish`, `JournalReplay` | the server's tables and workers |
| done | `ClientState`, `ClientSync`, `TerminalApp`, `ClientStore` | the clients |
| done | `Access`, `Evidence`, `PushPath` | calls, evidence, the push path |
| done | `Requests_proofs`, `PushOutbox_proofs`, `CallbackOutbox_proofs`, `LifecyclePublish_proofs`, `JournalReplay_proofs` | the tables' and the workers' invariants and action properties, the refinement |
| done | `Edges_proofs` | push path, calls and audit log, configuration file, evidence |
| done | `ClientSync_proofs`, `TerminalApp_proofs` | the client core and the terminal client |
| next | `ClientStore`, `Access` | credentials of migrated profiles over many edits; replay scopes |
