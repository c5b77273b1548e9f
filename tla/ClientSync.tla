------------------------------ MODULE ClientSync ------------------------------
(***************************************************************************)
(* One client and the servers it is enrolled on: the server's post-commit  *)
(* broadcasts and sync socket (sync.rs, api/sync_socket.rs), the client    *)
(* core's sync loop, snapshots and workflows (runtime/*.rs) over the       *)
(* reducer of ClientState, and the desktop shell that consumes the core's  *)
(* messages (runtime_messages.rs, notifier.rs).                            *)
(*                                                                         *)
(* Two tasks share the reducer and the snapshot lock: the sync task and    *)
(* the one command the runtime's mutex admits.  Every HTTP call reads or   *)
(* commits on the server at one instant between the steps of the task that *)
(* made it.  A broadcast leaves some time after its commit, in any order,  *)
(* or never.                                                               *)
(***************************************************************************)
EXTENDS ClientState

CONSTANTS
    Servers, Channels, Requests,
    HomeOf,         \* the server of each channel
    ChannelOf,      \* the channel of each request
    Profiles,       \* the profiles on disk, the selected one first
    Existing,       \* requests that are pending when the client starts
    Explicit,       \* requests with explicit recipients: unsubscribing hides none
    Muted,          \* channels the device or the shell keeps silent
    HubCapacity,    \* broadcast::channel capacity, which tokio wants above 0
    WireCapacity,   \* envelopes a socket holds before WRITE_TIMEOUT
    MaxEvents       \* server operations, commands and faults in all

ASSUME SyncAssumption ==
    /\ HomeOf \in [Channels -> Servers] /\ ChannelOf \in [Requests -> Channels]
    /\ Requests \subseteq Nat /\ IsFiniteSet(Requests)
    /\ Nothing \notin Requests /\ Nothing \notin {"sync", "cmd"}
    /\ Profiles \in Seq(Servers) /\ Profiles # <<>>
    /\ Existing \subseteq Requests /\ Explicit \subseteq Requests /\ Muted \subseteq Channels
    /\ HubCapacity \in Nat \ {0} /\ {WireCapacity, MaxEvents} \subseteq Nat

VARIABLES
    \* the servers, as the client's user sees them
    db,         \* [Requests -> status and updated_at]
    subs,       \* the user's subscription to each channel that exists
    cleared,    \* when the user last cleared each channel, 0 for never
    revoked,    \* servers that revoked the client's device
    now,        \* the servers' clock
    unsent,     \* envelopes of commits not broadcast yet
    sock,       \* the sync socket's subscriber queue and what is on the wire
    \* the client core
    c,          \* the StateReducer
    task,       \* the sync task
    lock,       \* holder of snapshot_lock
    snap,       \* the snapshot each task is fetching
    out,        \* messages each task has computed and not sent
    cmd,        \* the command in progress
    forgotten,  \* servers a failed save dropped from the profiles in memory
    \* the desktop shell
    alerts,     \* notifications on display
    shown,      \* the list and the badge of the last State message
    events      \* operations, commands and faults so far

serverVars == <<db, subs, cleared, revoked, now, unsent>>
coreVars == <<c, task, lock, snap, out, cmd, forgotten>>
shellVars == <<alerts, shown>>
vars == <<serverVars, sock, coreVars, shellVars, events>>

Tasks == {"sync", "cmd"}
ServerOf(r) == HomeOf[ChannelOf[r]]
NoSocket == [server |-> Nothing, queue |-> <<>>, lagged |-> FALSE,
             wire |-> <<>>, closed |-> TRUE]
NoTask == [pc |-> "none", server |-> Nothing]
NoCommand == [op |-> "none", pc |-> "done", r |-> Nothing, server |-> Nothing,
              copy |-> Nothing, connect |-> FALSE]
Silent == [candidates |-> {}, removed |-> {}, state |-> Nothing, fresh |-> FALSE]

Copy(r) == [chan |-> ChannelOf[r], status |-> db[r].status, at |-> db[r].at]
Exists(r) == db[r].status \in {"pending", "done"}

\* request_delivery_eligible.
DeliveryEligible(r) ==
    /\ Exists(r)
    /\ r \in Explicit \/ (ChannelOf[r] \in DOMAIN subs /\ subs[ChannelOf[r]])

\* list_requests_for_device: subscribed or explicit, not cleared, and the
\* newest HandledLimit of the handled ones.
RequestPage(s) ==
    LET visible == {r \in Requests :
                        /\ ServerOf(r) = s /\ DeliveryEligible(r)
                        /\ db[r].status = "pending" \/ db[r].at > cleared[ChannelOf[r]]}
        all == [r \in visible |-> Copy(r)]
    IN  Keep(all, ToSet(VisibleRequests(all)))

ChannelList(s) == Keep(subs, {ch \in Channels : HomeOf[ch] = s})

StateMessage(reducer) == [visible |-> reducer.visible, total |-> PendingTotal(reducer)]

Event == events < MaxEvents /\ events' = events + 1

\* The shell has just started sync on the selected profile.
Init ==
    /\ db = [r \in Requests |-> [status |-> IF r \in Existing THEN "pending" ELSE "absent", at |-> 1]]
    /\ subs = [ch \in Channels |-> TRUE]
    /\ cleared = [ch \in Channels |-> 0]
    /\ revoked = {} /\ now = 1 /\ unsent = {}
    /\ sock = NoSocket
    /\ c = SetSyncPhase(NewReducer(Profiles, Head(Profiles)), "connecting")
    /\ task = [pc |-> "connecting", server |-> Head(Profiles)] /\ lock = Nothing
    /\ snap = [o \in Tasks |-> Nothing] /\ out = [o \in Tasks |-> Silent]
    /\ cmd = NoCommand /\ forgotten = {}
    /\ alerts = {} /\ shown = StateMessage(c)
    /\ events = 0
----------------------------------------------------------------------------
(***************************************************************************)
(* Servers: commits, the broadcasts that follow them, the sync socket.     *)
(***************************************************************************)
Envelope(kind, s, r, copy) == [kind |-> kind, server |-> s, r |-> r, copy |-> copy]

\* One operation of a server, stamped with its clock.
Operation(t) ==
    /\ Event
    /\ t \in {now, now + 1} /\ now' = t
    /\ UNCHANGED <<sock, coreVars, shellVars>>

\* services::requests::create, its broadcast still to come.
CreateRequest(r, t) ==
    /\ Operation(t)
    /\ db[r].status = "absent" /\ ChannelOf[r] \in DOMAIN subs
    /\ db' = [db EXCEPT ![r] = [status |-> "pending", at |-> t]]
    /\ unsent' = unsent \cup {Envelope("created", ServerOf(r), r,
                        [chan |-> ChannelOf[r], status |-> "pending", at |-> t])}
    /\ UNCHANGED <<subs, cleared, revoked>>

Finished(r, t) == [chan |-> ChannelOf[r], status |-> "done", at |-> t]

\* record_decision on another device, cancel, or the expiry sweep.
FinishRequest(r, t) ==
    /\ Operation(t)
    /\ db[r].status = "pending"
    /\ db' = [db EXCEPT ![r] = [status |-> "done", at |-> t]]
    /\ unsent' = unsent \cup {Envelope("resolved", ServerOf(r), r, Finished(r, t))}
    /\ UNCHANGED <<subs, cleared, revoked>>

\* Another recipient of a per-user request decides: only updated_at moves for
\* this user, and the broadcast is targeted at the other one.
OtherUserDecides(r, t) ==
    /\ Operation(t)
    /\ db[r].status = "pending" /\ db[r].at < t
    /\ db' = [db EXCEPT ![r].at = t]
    /\ UNCHANGED <<subs, cleared, revoked, unsent>>

\* Another device of the user clears a channel.
ClearChannelElsewhere(ch, t) ==
    /\ Operation(t)
    /\ ch \in DOMAIN subs
    /\ cleared' = [cleared EXCEPT ![ch] = t]
    /\ unsent' = unsent \cup {Envelope("cleared", HomeOf[ch], Nothing, Nothing)}
    /\ UNCHANGED <<db, subs, revoked>>

\* A subscription changes on another device or in the admin endpoints.
SubscriptionElsewhere(ch) ==
    /\ Operation(now)
    /\ ch \in DOMAIN subs
    /\ subs' = [subs EXCEPT ![ch] = ~@]
    /\ unsent' = unsent \cup {Envelope("subscription_updated", HomeOf[ch], Nothing, Nothing)}
    /\ UNCHANGED <<db, cleared, revoked>>

\* create_channel on an existing channel broadcasts it to everyone with the
\* default subscription.
UpsertChannelElsewhere(ch) ==
    /\ Operation(now)
    /\ ch \in DOMAIN subs
    /\ unsent' = unsent \cup {Envelope("channel_updated", HomeOf[ch], Nothing, ch)}
    /\ UNCHANGED <<db, subs, cleared, revoked>>

\* delete_admin_channel takes the channel's requests with it.
DeleteChannelElsewhere(ch) ==
    /\ Operation(now)
    /\ ch \in DOMAIN subs
    /\ subs' = Keep(subs, DOMAIN subs \ {ch})
    /\ db' = [r \in Requests |-> IF ChannelOf[r] = ch /\ Exists(r)
                                 THEN [db[r] EXCEPT !.status = "gone"] ELSE db[r]]
    /\ unsent' = unsent \cup {Envelope("channel_deleted", HomeOf[ch], Nothing, Nothing)}
    /\ UNCHANGED <<cleared, revoked>>

\* The client's device is revoked by an administrator or another device.
RevokeDeviceElsewhere(s) ==
    /\ Operation(now)
    /\ s \notin revoked
    /\ revoked' = revoked \cup {s}
    /\ unsent' = unsent \cup {Envelope("device_revoked", s, Nothing, Nothing)}
    /\ UNCHANGED <<db, subs, cleared>>

\* SyncSender::send: the subscriber queue drops its oldest when it is full.
Broadcast(e) ==
    /\ e \in unsent /\ unsent' = unsent \ {e}
    /\ sock' = IF sock.server # e.server \/ sock.closed THEN sock
               ELSE LET full == Len(sock.queue) = HubCapacity
                    IN  [sock EXCEPT !.queue = Append(IF full THEN Tail(@) ELSE @, e),
                                     !.lagged = @ \/ full]
    /\ UNCHANGED <<db, subs, cleared, revoked, now, coreVars, shellVars, events>>

\* A server restarts: what it had not broadcast is lost, its sockets close.
ServerRestarts(s) ==
    /\ Event
    /\ unsent' = {e \in unsent : e.server # s}
    /\ sock' = IF sock.server = s THEN [sock EXCEPT !.closed = TRUE, !.queue = <<>>] ELSE sock
    /\ unsent' # unsent \/ sock' # sock
    /\ UNCHANGED <<db, subs, cleared, revoked, now, coreVars, shellVars>>

SocketOpen == ~sock.closed

\* Puts an envelope on the wire, or gives the socket up when the client has
\* not read for WRITE_TIMEOUT.
SendEnvelope(e) ==
    IF sock.server \in revoked \/ Len(sock.wire) = WireCapacity
    THEN [sock EXCEPT !.closed = TRUE, !.queue = <<>>]
    ELSE [sock EXCEPT !.wire = Append(@, e)]

ResyncRequired(s) == Envelope("resync_required", s, Nothing, Nothing)

\* handle_socket, a broadcast received: authorization, then eligibility, both
\* read from the database now.
SocketForwards ==
    /\ SocketOpen /\ ~sock.lagged /\ sock.queue # <<>>
    /\ LET e == Head(sock.queue)
           drop == sock.server \notin revoked /\ e.r # Nothing /\ ~DeliveryEligible(e.r)
           sent == IF drop THEN sock ELSE SendEnvelope(e)
       IN  sock' = IF sent.closed THEN sent ELSE [sent EXCEPT !.queue = Tail(@)]
    /\ UNCHANGED <<serverVars, coreVars, shellVars, events>>

\* RecvError::Lagged.
SocketLagged ==
    /\ SocketOpen /\ sock.lagged
    /\ sock' = [SendEnvelope(ResyncRequired(sock.server)) EXCEPT !.lagged = FALSE]
    /\ UNCHANGED <<serverVars, coreVars, shellVars, events>>

\* authorization_check: every 15 seconds the device is checked and asked to
\* take a snapshot.  The client reads what was sent before within that time.
AuthorizationTick ==
    /\ SocketOpen /\ sock.wire = <<>>
    /\ sock' = SendEnvelope(ResyncRequired(sock.server))
    /\ UNCHANGED <<serverVars, coreVars, shellVars, events>>
----------------------------------------------------------------------------
(***************************************************************************)
(* Snapshots: one holder of the lock fetches channels and requests in any  *)
(* order, then merges them into the reducer.                               *)
(***************************************************************************)
Refreshing(o) == IF o = "sync" THEN task.pc = "refreshing" ELSE cmd.pc = "lock"
SnapshotServer(o) == IF o = "sync" THEN task.server ELSE cmd.server

SnapshotBegins(o) ==
    /\ Refreshing(o) /\ out[o] = Silent /\ snap[o] = Nothing
    /\ lock = Nothing /\ lock' = o
    /\ snap' = [snap EXCEPT ![o] = [revision |-> c.revision, chans |-> Nothing, reqs |-> Nothing]]
    /\ UNCHANGED <<serverVars, forgotten, sock, c, task, out, cmd, shellVars, events>>

Authorized(o) == SnapshotServer(o) \notin revoked

\* The four concurrent reads, as one read of the server at some instant after
\* the revision was noted.
SnapshotReads(o) ==
    /\ lock = o /\ snap[o] # Nothing /\ snap[o].reqs = Nothing /\ Authorized(o)
    /\ snap' = [snap EXCEPT ![o].chans = ChannelList(SnapshotServer(o)),
                            ![o].reqs = RequestPage(SnapshotServer(o))]
    /\ UNCHANGED <<serverVars, forgotten, sock, c, task, lock, out, cmd, shellVars, events>>

\* SnapshotContext::refresh after its four reads; the messages go out later,
\* with the state as it was here.
SnapshotApplies(o) ==
    /\ lock = o /\ snap[o] # Nothing /\ snap[o].reqs # Nothing
    /\ LET next == ApplySnapshot(c, snap[o].chans, snap[o].reqs, snap[o].revision)
       IN  /\ c' = next
           /\ out' = [out EXCEPT ![o] =
                [candidates |-> SnapshotCandidates(c, snap[o].reqs, snap[o].revision),
                 removed |-> DOMAIN c.known \ DOMAIN next.known,
                 state |-> StateMessage(next), fresh |-> FALSE]]
    /\ snap' = [snap EXCEPT ![o] = Nothing]
    /\ task' = IF o = "sync" THEN [task EXCEPT !.pc = "refreshed"] ELSE task
    /\ cmd' = IF o = "cmd" THEN [cmd EXCEPT !.pc = "finish"] ELSE cmd
    /\ UNCHANGED <<serverVars, forgotten, sock, lock, shellVars, events>>

\* A notification is shown unless its channel is silenced, and withdrawn by
\* the id of its request.
ShowAndRemove(batch) ==
    (alerts \cup {r \in batch.candidates : ChannelOf[r] \notin Muted}) \ batch.removed

\* The task sends what it computed; the snapshot lock is held until then.
SendMessages(o) ==
    /\ out[o] # Silent
    /\ alerts' = ShowAndRemove(out[o])
    /\ shown' = IF out[o].fresh THEN StateMessage(c) ELSE out[o].state
    /\ out' = [out EXCEPT ![o] = Silent]
    /\ lock' = IF lock = o /\ snap[o] = Nothing THEN Nothing ELSE lock
    /\ UNCHANGED <<serverVars, forgotten, sock, c, task, snap, cmd, events>>
----------------------------------------------------------------------------
(***************************************************************************)
(* The sync task: run_sync_loop and run_connection.                        *)
(***************************************************************************)
\* Leaves the connection: drops the socket, any snapshot in flight and the
\* lock; SyncPhase::Offline, then the backoff.
GoOffline ==
    /\ task' = [task EXCEPT !.pc = "offline"]
    /\ sock' = NoSocket
    /\ c' = SetSyncPhase(c, "offline")
    /\ shown' = StateMessage(c')
    /\ snap' = [snap EXCEPT !["sync"] = Nothing]
    /\ lock' = IF lock = "sync" THEN Nothing ELSE lock

SyncConnects ==
    /\ task.pc = "connecting" /\ task.server \notin revoked
    /\ sock' = [server |-> task.server, queue |-> <<>>, lagged |-> FALSE, closed |-> FALSE,
                wire |-> <<Envelope("hello", task.server, Nothing, Nothing)>>]
    /\ task' = [task EXCEPT !.pc = "refreshing"]
    /\ c' = SetSyncPhase(c, "reconciling") /\ shown' = StateMessage(c')
    /\ UNCHANGED <<serverVars, forgotten, lock, snap, out, cmd, alerts, events>>

\* Connecting or fetching fails, or LIVENESS_TIMEOUT passes without a message.
SyncFails ==
    /\ Event
    /\ task.pc \in {"connecting", "current"} \/ snap["sync"] # Nothing
    /\ out["sync"] = Silent
    /\ GoOffline
    /\ UNCHANGED <<serverVars, forgotten, out, cmd, alerts>>

\* 401 from the upgrade or from a read: the registration is revoked.
SyncUnauthorized ==
    /\ task.server \in revoked /\ out["sync"] = Silent
    /\ task.pc = "connecting" \/ snap["sync"] # Nothing
    /\ task' = [task EXCEPT !.pc = "ended"]
    /\ sock' = NoSocket
    /\ alerts' = alerts \ DOMAIN c.known
    /\ c' = SetSyncPhase(ClearLoadedData(c), "revoked")
    /\ shown' = StateMessage(c')
    /\ snap' = [snap EXCEPT !["sync"] = Nothing]
    /\ lock' = IF lock = "sync" THEN Nothing ELSE lock
    /\ UNCHANGED <<serverVars, forgotten, out, cmd, events>>

\* The snapshot is in and its messages are out: SyncPhase::Current.
SyncIsCurrent ==
    /\ task.pc = "refreshed" /\ out["sync"] = Silent
    /\ task' = [task EXCEPT !.pc = "current"]
    /\ lock' = IF lock = "sync" THEN Nothing ELSE lock
    /\ c' = SetSyncPhase(c, "current") /\ shown' = StateMessage(c')
    /\ UNCHANGED <<serverVars, forgotten, sock, snap, out, cmd, alerts, events>>

\* Mutant: a client that only trusts the events it receives.
ShouldResyncAfterOwnEvents(kind) == kind \in {"cleared", "subscription_updated"}

\* Device updates ask for a snapshot too, exactly as these kinds do.
ShouldResyncAfter(kind) == kind \in {"cleared", "subscription_updated", "resync_required"}

\* The reducer's apply_sync_envelope.  A revocation of this very device is
\* never on the wire: the server closes the socket instead.
ApplySyncEnvelope(e) ==
    LET connected == [c EXCEPT !.connected = TRUE]
    IN  CASE e.kind = "channel_updated" -> UpsertChannel(connected, e.copy, TRUE)
          [] e.kind # "channel_updated" /\ e.r # Nothing -> ApplyRequestUpdate(connected, e.r, e.copy)
          [] OTHER -> connected

\* One message of the socket: apply, notify, withdraw, and a snapshot after
\* the kinds that ask for one.
SyncReads ==
    /\ task.pc = "current" /\ out["sync"] = Silent /\ sock.wire # <<>>
    /\ LET e == Head(sock.wire)
           isRequest == e.r # Nothing
       IN  /\ c' = ApplySyncEnvelope(e)
           /\ out' = [out EXCEPT !["sync"] =
                [candidates |-> IF e.kind = "created" /\ IsNewPending(c, e.r, e.copy)
                                THEN {e.r} ELSE {},
                 removed |-> IF isRequest /\ e.copy.status # "pending" THEN {e.r} ELSE {},
                 state |-> Nothing, fresh |-> TRUE]]
           /\ task' = [task EXCEPT !.pc = IF ShouldResyncAfter(e.kind)
                                          THEN "reconcile" ELSE "current"]
    /\ sock' = [sock EXCEPT !.wire = Tail(@)]
    /\ UNCHANGED <<serverVars, forgotten, lock, snap, cmd, shellVars, events>>

SyncReconciles ==
    /\ task.pc = "reconcile" /\ out["sync"] = Silent
    /\ task' = [task EXCEPT !.pc = "refreshing"]
    /\ c' = SetSyncPhase(c, "reconciling") /\ shown' = StateMessage(c')
    /\ UNCHANGED <<serverVars, forgotten, sock, lock, snap, out, cmd, alerts, events>>

\* The server closed the socket and everything sent before is read.
SyncSeesClose ==
    /\ task.pc = "current" /\ out["sync"] = Silent
    /\ sock.wire = <<>> /\ sock.closed
    /\ GoOffline
    /\ UNCHANGED <<serverVars, forgotten, out, cmd, alerts, events>>

\* reconnect_delay has passed.
SyncRetries ==
    /\ task.pc = "offline"
    /\ task' = [task EXCEPT !.pc = "connecting"]
    /\ c' = SetSyncPhase(c, "connecting") /\ shown' = StateMessage(c')
    /\ UNCHANGED <<serverVars, forgotten, sock, lock, snap, out, cmd, alerts, events>>
----------------------------------------------------------------------------
(***************************************************************************)
(* Commands: the front end's calls of the runtime, one at a time.          *)
(***************************************************************************)
Idle == cmd.op = "none"

Starts(op, pc, r, s) ==
    /\ Idle /\ Event
    /\ cmd' = [NoCommand EXCEPT !.op = op, !.pc = pc, !.r = r, !.server = s]

\* Mutant: the task is told to stop and not awaited.
DisconnectSyncUnawaited == sock' = NoSocket /\ UNCHANGED <<snap, out, lock>>

\* disconnect_sync: the sync task is aborted and awaited before anything else,
\* so whatever it was fetching or about to send is gone.
DisconnectSync ==
    /\ sock' = NoSocket
    /\ snap' = [snap EXCEPT !["sync"] = Nothing]
    /\ out' = [out EXCEPT !["sync"] = Silent]
    /\ lock' = IF lock = "sync" THEN Nothing ELSE lock

\* connect_sync for a reducer with a selected server: a task for that server.
SpawnedTask(reducer) ==
    IF reducer.server = Nothing THEN NoTask
    ELSE [pc |-> "connecting", server |-> reducer.server]

\* The servers whose profile and token the runtime has.
Known == ToSet(c.servers) \ forgotten

\* Leaves the current server for the one selected in the given reducer.
\* connect_sync finds no token for a server of a half-done forget_server.
SwitchTo(reducer, connect) ==
    LET connects == connect /\ reducer.server \notin forgotten \cup {Nothing}
    IN  /\ DisconnectSync
        /\ task' = IF connects THEN SpawnedTask(reducer) ELSE NoTask
        /\ c' = IF connects THEN SetSyncPhase(reducer, "connecting") ELSE MarkDisconnected(reducer)
        /\ shown' = StateMessage(c')

\* select_server.
SelectServer(s) ==
    /\ s \in Known
    /\ Idle /\ Event
    /\ SwitchTo(SetSelectedServer(c, s), TRUE)
    /\ UNCHANGED <<serverVars, forgotten, cmd, alerts>>

RefreshCommand ==
    /\ c.server \in Known
    /\ Starts("refresh", "lock", Nothing, c.server)
    /\ UNCHANGED <<serverVars, forgotten, sock, c, task, lock, snap, out, shellVars>>

\* clear_channel, then a refresh.
ClearChannelCommand(ch, t) ==
    /\ ch \in DOMAIN subs /\ HomeOf[ch] = c.server /\ c.server \in Known \ revoked
    /\ Starts("clear", "lock", Nothing, c.server)
    /\ now' = t /\ cleared' = [cleared EXCEPT ![ch] = t]
    /\ unsent' = unsent \cup {Envelope("cleared", c.server, Nothing, Nothing)}
    /\ UNCHANGED <<db, subs, revoked, sock, c, task, lock, snap, out, forgotten, shellVars>>

\* set_subscription, then a refresh.
SetSubscriptionCommand(ch) ==
    /\ ch \in DOMAIN subs /\ HomeOf[ch] = c.server /\ c.server \in Known \ revoked
    /\ Starts("subscription", "lock", Nothing, c.server)
    /\ subs' = [subs EXCEPT ![ch] = ~@]
    /\ unsent' = unsent \cup {Envelope("subscription_updated", c.server, Nothing, Nothing)}
    /\ UNCHANGED <<db, cleared, revoked, now, sock, c, task, lock, snap, out, forgotten, shellVars>>

\* select_channel of a subscribed channel, or select_all_channels.
ChooseChannel(ch) ==
    /\ ch # Nothing => ch \in DOMAIN c.chans /\ c.chans[ch]
    /\ Idle /\ Event
    /\ c' = SelectChannel(c, ch) /\ shown' = StateMessage(c')
    /\ UNCHANGED <<serverVars, forgotten, sock, task, lock, snap, out, cmd, alerts>>

\* The command's snapshot fails: an enrollment connects anyway.
CommandSnapshotFails ==
    /\ lock = "cmd" /\ snap["cmd"] # Nothing
    /\ \/ cmd.server \in revoked /\ UNCHANGED events
       \/ Event
    /\ lock' = Nothing /\ snap' = [snap EXCEPT !["cmd"] = Nothing]
    /\ cmd' = [cmd EXCEPT !.pc = "finish"]
    /\ UNCHANGED <<serverVars, forgotten, sock, c, task, out, shellVars>>

\* The command returns.  connect_sync leaves a running task alone.
CommandReturns ==
    /\ cmd.pc = "finish" /\ out["cmd"] = Silent
    /\ cmd' = NoCommand
    /\ lock' = IF lock = "cmd" THEN Nothing ELSE lock
    /\ IF cmd.connect /\ task.pc \in {"none", "ended"}
       THEN /\ task' = SpawnedTask(c)
            /\ c' = SetSyncPhase(c, "connecting") /\ shown' = StateMessage(c')
       ELSE UNCHANGED <<task, c, shown>>
    /\ UNCHANGED <<serverVars, forgotten, sock, snap, out, alerts, events>>

\* open_request reads the request from its own server first.
OpenReads(r) ==
    LET s == ServerOf(r)
    IN  /\ s \in Known \ revoked /\ Exists(r)
        /\ Idle /\ Event
        /\ cmd' = [NoCommand EXCEPT !.op = "open", !.pc = "opened", !.r = r,
                                    !.server = s, !.copy = Copy(r)]
        /\ UNCHANGED <<serverVars, forgotten, sock, c, task, lock, snap, out, shellVars>>

OpenSelects ==
    /\ cmd.pc = "opened" /\ c.server # cmd.server
    /\ SwitchTo(SetSelectedServer(c, cmd.server), TRUE)
    /\ UNCHANGED <<serverVars, forgotten, cmd, alerts, events>>

OpenApplies ==
    /\ cmd.pc = "opened" /\ c.server = cmd.server
    /\ c' = [SelectChannel(ApplyRequestUpdate(c, cmd.r, cmd.copy), cmd.copy.chan)
                EXCEPT !.selReq = cmd.r]
    /\ shown' = StateMessage(c')
    /\ cmd' = NoCommand
    /\ UNCHANGED <<serverVars, forgotten, sock, task, lock, snap, out, alerts, events>>

\* apply_targeted_request: the reducer takes the copy if its server is still
\* the selected one; a handled request's notification is withdrawn.
ApplyTargetedRequest(copy) ==
    /\ c' = IF c.server = cmd'.server THEN ApplyRequestUpdate(c, cmd'.r, copy) ELSE c
    /\ out' = [out EXCEPT !["cmd"] =
                [candidates |-> {}, state |-> Nothing, fresh |-> TRUE,
                 removed |-> IF copy.status = "pending" THEN {} ELSE {cmd'.r}]]

\* submit_request_option on a request the interface shows: the re-read decides
\* only whether the request is still pending.
SubmitReads(r) ==
    /\ r \in ToSet(c.visible) /\ ServerOf(r) \in Known \ revoked /\ Exists(r)
    /\ Starts("submit", IF db[r].status = "pending" THEN "post" ELSE "finish", r, c.server)
    /\ IF db[r].status = "pending" THEN UNCHANGED <<c, out>> ELSE ApplyTargetedRequest(Copy(r))
    /\ UNCHANGED <<serverVars, forgotten, sock, task, lock, snap, shellVars>>

\* The one POST: the server commits the decision if the request is still
\* pending and refuses it otherwise; the answer may be lost after the commit.
SubmitPosts(t, lost) ==
    /\ cmd.pc = "post" /\ t \in {now, now + 1}
    /\ IF db[cmd.r].status = "pending" /\ cmd.server \notin revoked
       THEN /\ db' = [db EXCEPT ![cmd.r] = [status |-> "done", at |-> t]]
            /\ now' = t
            /\ unsent' = unsent \cup {Envelope("resolved", cmd.server, cmd.r, Finished(cmd.r, t))}
            /\ cmd' = [cmd EXCEPT !.pc = IF lost THEN "reread" ELSE "replied",
                                  !.copy = Finished(cmd.r, t)]
            /\ IF lost THEN Event ELSE UNCHANGED events
       ELSE /\ ~lost /\ t = now
            /\ cmd' = [cmd EXCEPT !.pc = "reread"]
            /\ UNCHANGED <<db, now, unsent, events>>
    /\ UNCHANGED <<subs, cleared, revoked, sock, c, task, lock, snap, out, forgotten, shellVars>>

SubmitReplied ==
    /\ cmd.pc = "replied"
    /\ cmd' = [cmd EXCEPT !.pc = "finish"]
    /\ ApplyTargetedRequest(cmd.copy)
    /\ UNCHANGED <<serverVars, forgotten, sock, task, lock, snap, shellVars, events>>

\* After an error the request is read again and never posted again.
SubmitRereads ==
    /\ cmd.pc = "reread"
    /\ cmd' = [cmd EXCEPT !.pc = "finish"]
    /\ \/ /\ Exists(cmd.r) /\ cmd.server \notin revoked
          /\ ApplyTargetedRequest(Copy(cmd.r))
          /\ UNCHANGED events
       \/ /\ ~Exists(cmd.r) \/ cmd.server \in revoked
          /\ UNCHANGED <<c, out, events>>
       \/ /\ Event
          /\ UNCHANGED <<c, out>>
    /\ UNCHANGED <<serverVars, forgotten, sock, task, lock, snap, shellVars>>

\* revoke_device on the device itself: the profile is forgotten next.
RevokeOwnDevice ==
    /\ c.server \in Known \ revoked
    /\ Starts("revoke", "forget", Nothing, c.server)
    /\ revoked' = revoked \cup {c.server}
    /\ unsent' = unsent \cup {Envelope("device_revoked", c.server, Nothing, Nothing)}
    /\ UNCHANGED <<db, subs, cleared, now, sock, c, task, lock, snap, out, forgotten, shellVars>>

ForgetCommand(s) ==
    /\ s \in Known
    /\ Starts("forget", "forget", Nothing, s)
    /\ UNCHANGED <<serverVars, forgotten, sock, c, task, lock, snap, out, shellVars>>

\* forget_server: a selected server is disconnected first, and sync resumes on
\* the next profile if there is one.
ForgetServer ==
    /\ cmd.pc = "forget"
    /\ cmd' = NoCommand
    /\ IF c.server = cmd.server
       THEN SwitchTo(RemoveServer(MarkDisconnected(c), cmd.server), TRUE)
       ELSE /\ c' = RemoveServer(c, cmd.server) /\ shown' = StateMessage(c')
            /\ UNCHANGED <<sock, snap, out, lock, task>>
    /\ UNCHANGED <<serverVars, forgotten, alerts, events>>

\* forget_server when saving the configuration fails: the profile and its
\* token are already gone from memory and sync is disconnected, but the
\* reducer still has the server.  Until an enrollment or a restart the runtime
\* refuses every call for it.
ForgetFails ==
    /\ cmd.pc = "forget" /\ Event
    /\ cmd' = NoCommand
    /\ forgotten' = forgotten \cup {cmd.server}
    /\ IF c.server = cmd.server
       THEN SwitchTo(c, FALSE)
       ELSE UNCHANGED <<sock, c, task, lock, snap, out, shown>>
    /\ UNCHANGED <<serverVars, alerts>>

\* enroll: a new device on the server, its profile selected, its channels
\* loaded; then a refresh, and the shell connects.
EnrollCommand(s) ==
    /\ Idle /\ Event
    /\ revoked' = revoked \ {s} /\ forgotten' = forgotten \ {s}
    /\ SwitchTo([SetSelectedServer(UpsertServer(c, s), s) EXCEPT !.chans = ChannelList(s)], FALSE)
    /\ cmd' = [NoCommand EXCEPT !.op = "enroll", !.pc = "lock", !.server = s, !.connect = TRUE]
    /\ UNCHANGED <<db, subs, cleared, now, unsent, alerts>>

----------------------------------------------------------------------------
ServerOperation ==
    \/ \E r \in Requests, t \in {now, now + 1} :
            CreateRequest(r, t) \/ FinishRequest(r, t) \/ OtherUserDecides(r, t)
    \/ \E ch \in Channels :
            \/ \E t \in {now, now + 1} : ClearChannelElsewhere(ch, t)
            \/ SubscriptionElsewhere(ch) \/ UpsertChannelElsewhere(ch) \/ DeleteChannelElsewhere(ch)
    \/ \E s \in Servers : RevokeDeviceElsewhere(s)

SnapshotStep(o) ==
    \/ SnapshotBegins(o) \/ SnapshotReads(o) \/ SnapshotApplies(o)
    \/ SendMessages(o)

SyncStep ==
    \/ SyncConnects \/ SyncUnauthorized \/ SyncIsCurrent \/ SyncReads
    \/ SyncReconciles \/ SyncSeesClose \/ SyncRetries

CommandStarts ==
    \/ RefreshCommand \/ RevokeOwnDevice
    \/ \E s \in Servers : SelectServer(s) \/ ForgetCommand(s) \/ EnrollCommand(s)
    \/ \E r \in Requests : OpenReads(r) \/ SubmitReads(r)
    \/ \E ch \in Channels :
            \/ \E t \in {now, now + 1} : ClearChannelCommand(ch, t)
            \/ SetSubscriptionCommand(ch)
    \/ \E ch \in Channels \cup {Nothing} : ChooseChannel(ch)

CommandStep ==
    \/ CommandReturns \/ OpenSelects \/ OpenApplies
    \/ \E t \in {now, now + 1} : SubmitPosts(t, FALSE)
    \/ SubmitReplied \/ SubmitRereads \/ ForgetServer

Next ==
    \/ ServerOperation
    \/ \E e \in unsent : Broadcast(e)
    \/ \E s \in Servers : ServerRestarts(s)
    \/ SocketForwards \/ SocketLagged \/ AuthorizationTick
    \/ \E o \in Tasks : SnapshotStep(o)
    \/ SyncStep \/ SyncFails
    \/ CommandStarts \/ CommandStep \/ CommandSnapshotFails
    \/ \E t \in {now, now + 1} : SubmitPosts(t, TRUE)
    \/ ForgetFails

\* When a task's snapshot or message step, and a command's next step, can be
\* taken.
SnapshotReady(o) ==
    \/ out[o] # Silent
    \/ Refreshing(o) /\ snap[o] = Nothing /\ lock = Nothing
    \/ snap[o] # Nothing /\ (snap[o].reqs # Nothing \/ Authorized(o))

CommandReady ==
    \/ cmd.pc \in {"opened", "post", "replied", "reread", "forget"}
    \/ cmd.pc = "finish" /\ out["cmd"] = Silent
    \/ snap["cmd"] # Nothing /\ cmd.server \in revoked

\* Every spawned task keeps running, the 15-second timer keeps firing and
\* every request ends; faults and new work need not happen.  For snapshots and
\* commands this is weak fairness with its enabling condition written out.
Fairness ==
    /\ WF_vars(SocketForwards \/ SocketLagged) /\ WF_vars(AuthorizationTick)
    /\ WF_vars(SyncStep)
    /\ \A o \in Tasks : []<>~SnapshotReady(o) \/ []<><<SnapshotStep(o)>>_vars
    /\ []<>~CommandReady \/ []<><<CommandStep \/ CommandSnapshotFails>>_vars

Spec == Init /\ [][Next]_vars /\ Fairness
----------------------------------------------------------------------------
\* Nothing a task fetched from one server is in the reducer while another one
\* is selected, whatever was in flight when the selection changed.
OneServerShown == \A r \in DOMAIN c.reqs : ServerOf(r) = c.server

\* While the reducer holds a request, its copy never becomes pending again
\* after it was handled and never goes back in time, whether a snapshot, a
\* late event or a command's answer arrives last.
CopiesNeverGoBack ==
    [][\A r \in DOMAIN c.reqs \cap DOMAIN c'.reqs :
            ~RequestIsStale(c'.reqs[r], c.reqs[r])]_c

\* The client is on a server that still accepts its device and that it has
\* not half forgotten.
Synced == c.server \notin {Nothing} \cup revoked \cup forgotten

\* Once the servers are quiet, the front end comes to show what the server
\* would list, however many broadcasts were lost, late, reordered or dropped.
ShowsServerState ==
    LET page == [r \in {q \in DOMAIN RequestPage(c.server) :
                            c.selChan \in {Nothing, ChannelOf[q]}} |-> Copy(r)]
    IN  /\ shown.visible = VisibleRequests(page)
        /\ shown.total = Cardinality(PendingRequests(RequestPage(c.server)))

FrontEndConverges == <>[](Synced => ShowsServerState)

==============================================================================
