-------------------------------- MODULE Access --------------------------------
(***************************************************************************)
(* The server's API calls as they run: a call is authenticated, checked    *)
(* against scopes and recipients, committed, then audited and broadcast,   *)
(* each in a step of its own; other calls run in between, the caller may   *)
(* hang up (which drops the handler where it stands) and the server may    *)
(* restart.  Long polls wait for a decision; the audit log rotates and its *)
(* disk may fail.                                                          *)
(*                                                                         *)
(* What the transactions do to the tables is the subject of Accounts and   *)
(* Requests; here a transaction is what authentication, the audit log and  *)
(* the waiting calls see of it.                                            *)
(***************************************************************************)
EXTENDS Naturals, Sequences, FiniteSets

CONSTANTS
    Calls,
    Offers,         \* what each call may ask for: [op, as, on]
    UserOf,         \* each token's user; NoUser for an issuer token
    Scopes,         \* each issuer token's request scopes, as <<operation, channel>>
    Known,          \* tokens active at first
    Reqs, ChannelOf,
    PerUser,        \* requests resolved per user
    Admin, Server, NoUser,
    RotateAfter,    \* ROTATE_AFTER_BYTES, in entries
    WaitFor,        \* timeout_seconds, in poll intervals of 500 ms
    MaxTime, MaxFaults, MaxDrops

Tokens == DOMAIN UserOf
Users == {UserOf[t] : t \in Tokens} \ {NoUser}
Viewers == Users \cup {NoUser}

\* The calls that name a request; the others are about a token's owner.
RequestOps == {"create", "decide", "cancel", "expire", "wait", "delete_channel"}

ASSUME AccessAssumption ==
    /\ Known \subseteq Tokens /\ ChannelOf \in [Reqs -> {ChannelOf[r] : r \in Reqs}]
    /\ {RotateAfter, WaitFor, MaxTime, MaxFaults, MaxDrops} \subseteq Nat
    /\ WaitFor > 0      \* timeout_seconds is at least one second
    /\ \A c \in Calls : \A o \in Offers[c] :
          /\ o.as \in Tokens \cup {Admin, Server, NoUser}
          /\ o.on \in IF o.op \in RequestOps THEN Reqs ELSE Tokens

VARIABLES
    active,     \* tokens whose row is not revoked
    request,    \* status, creator and the users who answered
    settled,    \* when each viewer's projection left pending; history
    call,
    heard,      \* a waiting call's receiver holds a broadcast, or lagged
    audit,      \* entries, size of the current file, its path, last_error
    now, faults, drops

accessVars == <<active, request, settled, call, heard, audit, now, faults, drops>>

\* The handlers that change state, by the principal they insist on; a device
\* is revoked by the administrator or by a device of the same user.
UserOps == {"create_user", "update_user", "delete_user", "enrollment_code", "user_subscriptions"}
ChannelOps == {"create_channel", "delete_channel", "device_subscription"}
TokenOps == {"issue_token", "revoke_token"}
DeviceOps == {"rename_device", "push_token", "preferences", "notification_preferences",
              "subscription", "clear_channel"}

\* What a handler does after its transaction, in the order of its code: push
\* tokens are broadcast first, a device's own subscription is not audited,
\* and codes, tokens and the sound preference are not broadcast.
Aftermath(op) ==
    CASE op \in {"enrollment_code", "preferences"} \cup TokenOps -> <<"audit">>
      [] op \in {"push_token", "expire"} -> <<"send", "audit">>
      [] op = "subscription" -> <<"send">>
      [] op = "wait" -> <<>>
      [] OTHER -> <<"audit", "send">>

Idle == [pc |-> "off", op |-> "none", as |-> NoUser, on |-> NoUser, rest |-> <<>>,
         until |-> 0, deadline |-> 0, reply |-> "none"]
NoRequest == [status |-> "absent", creator |-> NoUser, answered |-> {}]

AccessInit ==
    /\ active = Known
    /\ request = [r \in Reqs |-> NoRequest]
    /\ settled = [r \in Reqs |-> [v \in Viewers |-> {}]]
    /\ call = [c \in Calls |-> Idle] /\ heard = {}
    /\ audit = [log |-> {}, size |-> 0, gone |-> FALSE, error |-> FALSE]
    /\ now = 0 /\ faults = 0 /\ drops = 0

\* project_request_for_user; issuers and the administrator see the row.
View(row, r, v) ==
    IF v = NoUser \/ r \notin PerUser THEN row.status
    ELSE IF v \in row.answered THEN "resolved"
    ELSE IF row.status = "resolved" THEN "pending" ELSE row.status

Write(r, row) ==
    /\ request' = [request EXCEPT ![r] = row]
    /\ settled' = [settled EXCEPT ![r] =
            [v \in Viewers |-> IF View(row, r, v) \in {"pending", "absent"} THEN {}
                               ELSE IF @[v] = {} THEN {now} ELSE @[v]]]

\* has_request_scope: the right to write includes the right to read.
HasScope(t, operation, channel) ==
    \/ <<operation, channel>> \in Scopes[t]
    \/ operation = "read" /\ <<"write", channel>> \in Scopes[t]

IsIssuer(t) == t \in Tokens /\ UserOf[t] = NoUser
IsDevice(t) == t \in Tokens /\ UserOf[t] # NoUser

\* require_request_write, _read and _cancel.
MayOn(as, operation, r) == as = Admin \/ (IsIssuer(as) /\ HasScope(as, operation, ChannelOf[r]))

Goes(c, pc) == call' = [call EXCEPT ![c].pc = pc]
Replies(c, reply) == call' = [call EXCEPT ![c].pc = "done", ![c].reply = reply, ![c].until = 0]
----------------------------------------------------------------------------
CallArrives(c, o) ==
    /\ call[c].pc = "off"
    /\ call' = [call EXCEPT ![c] = [Idle EXCEPT !.op = o.op, !.as = o.as, !.on = o.on,
                                    !.pc = IF o.op \in {"enroll", "expire"} THEN "commit" ELSE "arrived"]]
    /\ UNCHANGED <<active, request, settled, heard, audit, now, faults, drops>>

\* The principal a handler insists on: authenticate with require_request_write,
\* require_device, or require_admin.
Admits(o) ==
    CASE o.op = "create" -> MayOn(o.as, "write", o.on)
      [] o.op \in {"cancel", "wait"} -> TRUE
      [] o.op \in DeviceOps \cup {"decide"} -> IsDevice(o.as)
      [] o.op = "revoke_device" -> o.as = Admin \/ (IsDevice(o.as) /\ UserOf[o.as] = UserOf[o.on])
      [] OTHER -> o.as = Admin

\* authenticate, require_device and require_admin: one read of the token's row.
Authenticates(c) ==
    /\ call[c].pc = "arrived"
    /\ IF (call[c].as = Admin \/ call[c].as \in active) /\ Admits(call[c])
       THEN Goes(c, IF call[c].op \in {"cancel", "wait"} THEN "check" ELSE "commit")
       ELSE Replies(c, "refused")
    /\ UNCHANGED <<active, request, settled, heard, audit, now, faults, drops>>

\* cancel_request: the row, the scope on its channel, and its creator.
ChecksCancel(c) ==
    LET as == call[c].as
        row == request[call[c].on]
    IN  /\ call[c].pc = "check" /\ call[c].op = "cancel"
        /\ IF /\ row.status # "absent" /\ MayOn(as, "cancel", call[c].on)
              /\ IsIssuer(as) => row.creator = as
           THEN Goes(c, "commit")
           ELSE Replies(c, "refused")
        /\ UNCHANGED <<active, request, settled, heard, audit, now, faults, drops>>

\* wait_for_request_decision: the row, then a device's visibility or the scope;
\* wait_for_decision subscribes before it first reads.
ChecksWait(c) ==
    LET as == call[c].as
    IN  /\ call[c].pc = "check" /\ call[c].op = "wait"
        /\ IF request[call[c].on].status # "absent" /\ (IsDevice(as) \/ MayOn(as, "read", call[c].on))
           THEN call' = [call EXCEPT ![c].pc = "waiting", ![c].until = now, ![c].deadline = now + WaitFor]
           ELSE Replies(c, "refused")
        /\ heard' = heard \ {c}
        /\ UNCHANGED <<active, request, settled, audit, now, faults, drops>>

Done(c, rest) == call' = [call EXCEPT ![c].pc = "after", ![c].rest = rest]

\* create_request; a pending request under the same dedupe key is returned,
\* audited and not broadcast again.
CommitsCreate(c) ==
    LET o == call[c]
    IN  /\ o.pc = "commit" /\ o.op = "create"
        /\ CASE request[o.on].status = "absent" ->
                    /\ Write(o.on, [NoRequest EXCEPT !.status = "pending",
                                    !.creator = IF IsIssuer(o.as) THEN o.as ELSE NoUser])
                    /\ Done(c, Aftermath("create"))
             [] request[o.on].status = "pending" ->
                    Done(c, <<"audit">>) /\ UNCHANGED <<request, settled>>
             [] OTHER -> Replies(c, "refused") /\ UNCHANGED <<request, settled>>
        /\ UNCHANGED <<active, heard, audit, now, faults, drops>>

\* cancel_request and expire_due_requests: only what is still pending.
CommitsClose(c) ==
    LET o == call[c]
    IN  /\ o.pc = "commit" /\ o.op \in {"cancel", "expire"}
        /\ IF request[o.on].status = "pending"
           THEN /\ Write(o.on, [request[o.on] EXCEPT
                                    !.status = IF o.op = "cancel" THEN "cancelled" ELSE "expired"])
                /\ Done(c, Aftermath(o.op))
           ELSE Replies(c, "refused") /\ UNCHANGED <<request, settled>>
        /\ UNCHANGED <<active, heard, audit, now, faults, drops>>

\* record_decision checks the device again, in its transaction.
CommitsDecision(c) ==
    LET o == call[c]
        u == UserOf[o.as]
        row == request[o.on]
        answered == row.answered \cup {u}
    IN  /\ o.pc = "commit" /\ o.op = "decide"
        /\ IF row.status = "pending" /\ o.as \in active /\ u \notin row.answered
           THEN /\ Write(o.on, [row EXCEPT !.answered = answered,
                         !.status = IF o.on \in PerUser /\ answered # Users THEN @ ELSE "resolved"])
                /\ Done(c, Aftermath("decide"))
           ELSE Replies(c, "refused") /\ UNCHANGED <<request, settled>>
        /\ UNCHANGED <<active, heard, audit, now, faults, drops>>

\* Enrollment and issuer tokens make a bearer token known; a revocation ends
\* it, and deleting a user ends the tokens of all the user's devices.
Ended(o) == IF o.op = "delete_user" THEN {t \in Tokens : UserOf[t] = UserOf[o.on]} ELSE {o.on}

CommitsToken(c) ==
    LET o == call[c]
    IN  /\ o.pc = "commit"
        /\ \/ o.op \in {"enroll", "issue_token"} /\ o.on \notin active
              /\ active' = active \cup {o.on} /\ Done(c, Aftermath(o.op))
           \/ o.op \in {"revoke_token", "revoke_device", "delete_user"}
              /\ IF o.on \in active THEN active' = active \ Ended(o) /\ Done(c, Aftermath(o.op))
                 ELSE Replies(c, "refused") /\ UNCHANGED active
        /\ UNCHANGED <<request, settled, heard, audit, now, faults, drops>>

\* A channel's requests go with it; the other handlers write rows that no call
\* here depends on.
CommitsOther(c) ==
    LET o == call[c]
    IN  /\ o.pc = "commit"
        /\ \/ o.op = "delete_channel" /\ Write(o.on, NoRequest)
           \/ o.op \in (UserOps \cup ChannelOps \cup DeviceOps) \ {"delete_user", "delete_channel"}
              /\ UNCHANGED <<request, settled>>
        /\ Done(c, Aftermath(o.op))
        /\ UNCHANGED <<active, heard, audit, now, faults, drops>>
----------------------------------------------------------------------------
\* Mutant: a later success reports the log healthy again.
ErrorAfterHealing(ok) == ~ok

\* last_error is sticky: a later write cannot repair a lost entry.
ErrorAfter(ok) == audit.error \/ ~ok

\* AuditFile::append wants to move a full file aside first.
Rotates == audit.size > 0 /\ audit.size + 1 > RotateAfter

Next1(c) == call' = [call EXCEPT ![c].rest = Tail(@)]
Reaches(c, step) == call[c].pc = "after" /\ call[c].rest # <<>> /\ Head(call[c].rest) = step

\* AuditLogger::record, under the log's mutex.
AuditsEntry(c) ==
    /\ Reaches(c, "audit") /\ ~(Rotates /\ audit.gone)
    /\ audit' = [audit EXCEPT !.log = @ \cup {c}, !.size = IF Rotates THEN 1 ELSE @ + 1,
                              !.error = ErrorAfter(TRUE)]
    /\ Next1(c)
    /\ UNCHANGED <<active, request, settled, heard, now, faults, drops>>

\* The write, the rename or the reopening fails; a rename that took effect
\* without the reopening leaves no file at the path, and no later rotation
\* succeeds.
AuditFails(c) ==
    /\ Reaches(c, "audit")
    /\ \/ Rotates /\ audit.gone /\ UNCHANGED faults
          /\ audit' = [audit EXCEPT !.error = ErrorAfter(FALSE)]
       \/ faults < MaxFaults /\ faults' = faults + 1 /\ ~(Rotates /\ audit.gone)
          /\ \/ audit' = [audit EXCEPT !.size = IF Rotates THEN 0 ELSE @, !.error = ErrorAfter(FALSE)]
             \/ \E gone \in BOOLEAN :
                  Rotates /\ audit' = [audit EXCEPT !.gone = gone, !.error = ErrorAfter(FALSE)]
    /\ Next1(c)
    /\ UNCHANGED <<active, request, settled, heard, now, drops>>

\* SyncSender::send: every subscribed receiver has something to receive, be it
\* the envelope or the news that it lagged.
Sends(c) ==
    /\ Reaches(c, "send")
    /\ heard' = heard \cup {d \in Calls : call[d].pc = "waiting"}
    /\ Next1(c)
    /\ UNCHANGED <<active, request, settled, audit, now, faults, drops>>

Responds(c) ==
    /\ call[c].pc = "after" /\ call[c].rest = <<>>
    /\ Replies(c, "ok")
    /\ UNCHANGED <<active, request, settled, heard, audit, now, faults, drops>>
----------------------------------------------------------------------------
ViewerOf(c) == IF IsDevice(call[c].as) THEN UserOf[call[c].as] ELSE NoUser
Seen(c) == View(request[call[c].on], call[c].on, ViewerOf(c))

\* Mutant: only a broadcast wakes the wait.
WakesOnBroadcast(c) == c \in heard \/ call[c].until = call[c].deadline - WaitFor

\* The select of the poll loop: a broadcast or 500 ms.
Wakes(c) == c \in heard \/ now >= call[c].until

WaitReads(c) ==
    /\ call[c].pc = "waiting" /\ Wakes(c)
    /\ CASE Seen(c) = "absent" -> Replies(c, "refused")
         [] Seen(c) = "pending" -> call' = [call EXCEPT ![c].until = now + 1]
         [] OTHER -> Replies(c, "answered")
    /\ heard' = heard \ {c}
    /\ UNCHANGED <<active, request, settled, audit, now, faults, drops>>

\* The timeout reads once more and says timed_out whatever it read.
WaitTimesOut(c) ==
    /\ call[c].pc = "waiting" /\ now >= call[c].deadline
    /\ Replies(c, IF Seen(c) = "absent" THEN "refused" ELSE "timed_out")
    /\ heard' = heard \ {c}
    /\ UNCHANGED <<active, request, settled, audit, now, faults, drops>>

\* The caller hangs up: the handler is dropped where it awaits, perhaps
\* between the rename and the reopening of the audit file.
CallDropped(c) ==
    /\ call[c].pc \notin {"off", "done", "gone"} /\ call[c].op # "expire"
    /\ drops < MaxDrops /\ drops' = drops + 1
    /\ call' = [call EXCEPT ![c] = [Idle EXCEPT !.pc = "gone"]] /\ heard' = heard \ {c}
    /\ \/ UNCHANGED audit
       \/ Reaches(c, "audit") /\ Rotates /\ audit' = [audit EXCEPT !.gone = TRUE]
    /\ UNCHANGED <<active, request, settled, now, faults>>

\* The process ends and starts again: the log is opened anew.
ServerRestarts ==
    /\ drops < MaxDrops /\ drops' = drops + 1
    /\ call' = [c \in Calls |-> IF call[c].pc = "off" THEN Idle ELSE [Idle EXCEPT !.pc = "gone"]]
    /\ heard' = {}
    /\ audit' = [audit EXCEPT !.error = FALSE, !.gone = FALSE, !.size = IF audit.gone THEN 0 ELSE @]
    /\ UNCHANGED <<active, request, settled, now, faults>>

\* Half a second passes; timers fire when they are due.
TimePasses ==
    /\ now < MaxTime /\ now' = now + 1
    /\ \A c \in Calls : call[c].pc = "waiting" => call[c].deadline > now /\ ~Wakes(c)
    /\ UNCHANGED <<active, request, settled, call, heard, audit, faults, drops>>

AccessNext ==
    \/ \E c \in Calls :
        \/ \E o \in Offers[c] : CallArrives(c, o)
        \/ Authenticates(c) \/ ChecksCancel(c) \/ ChecksWait(c)
        \/ CommitsCreate(c) \/ CommitsClose(c) \/ CommitsDecision(c) \/ CommitsToken(c) \/ CommitsOther(c)
        \/ AuditsEntry(c) \/ AuditFails(c) \/ Sends(c) \/ Responds(c)
        \/ WaitReads(c) \/ WaitTimesOut(c) \/ CallDropped(c)
    \/ ServerRestarts \/ TimePasses

AccessSpec == AccessInit /\ [][AccessNext]_accessVars
----------------------------------------------------------------------------
(***************************************************************************)
(* Properties.                                                             *)
(***************************************************************************)
\* "A failed write or rotation makes admin Activity report unhealthy until
\* restart": every call answered since the start whose handler audits is in
\* the log, current or archived, or the log reports an error, whatever
\* succeeded or was dropped in the middle of a rotation since.
AuditGapsAreVisible ==
    \A c \in Calls :
        /\ call[c].pc = "done" /\ call[c].reply = "ok"
        /\ \E i \in DOMAIN Aftermath(call[c].op) : Aftermath(call[c].op)[i] = "audit"
        => c \in audit.log \/ audit.error

\* "Polling keeps waits correct if a message is missed": a wait that reports
\* timed_out had no decision to report until its last poll interval, though
\* the deciding handler was dropped before its broadcast, and a device waits
\* for its own user's answer.
WaitsMissNoDecision ==
    \A c \in Calls :
        call[c].pc = "done" /\ call[c].reply = "timed_out" =>
            \A t \in settled[call[c].on][ViewerOf(c)] : t + 1 >= call[c].deadline
==============================================================================
