----------------------------- MODULE PushOutbox -----------------------------
(***************************************************************************)
(* The push outbox (db/push_deliveries.rs) and the worker that drains it   *)
(* (services/push_delivery.rs).  A row is born queued with its request     *)
(* (Requests!InsertRequest); tasks claim rows under a lease and a claim    *)
(* generation, and every write of a task is fenced by both.                *)
(*                                                                         *)
(* A task awaits between any two of its database statements, so each is a  *)
(* step; in between its lease may run out, its row may be reclaimed by     *)
(* another task or go with its request, and its device's push token may be *)
(* replaced.  Time is relative: a lease counts down, a task ages.          *)
(***************************************************************************)
EXTENDS Naturals, FiniteSets

CONSTANTS
    Requests,       \* requests that may be created
    Devices,        \* devices of their recipients
    Tokens,         \* push tokens
    Slots,          \* concurrent tasks (PUSH_CONCURRENCY)
    MaxAttempts,    \* MAX_ATTEMPTS
    LeaseSeconds,   \* LEASE_SECONDS, in clock units
    TaskTimeout,    \* TASK_TIMEOUT, in clock units
    MaxFaults,      \* bound: crashes, dropped or overrunning tasks, failing statements
    MaxClaims,      \* bound: claims of one row
    None, Revoked   \* a device without a token, and one that is revoked

Jobs == Requests \X Devices

ASSUME PushAssumption ==
    /\ MaxAttempts \in Nat \ {0}
    /\ LeaseSeconds \in Nat \ {0}
    /\ TaskTimeout \in Nat \ {0}
    /\ MaxFaults \in Nat
    /\ MaxClaims \in Nat
    /\ IsFiniteSet(Slots)
    /\ None \notin Tokens /\ Revoked \notin Tokens /\ None # Revoked

(* debug_assert!(timeout.as_secs() < LEASE_SECONDS) in deliver_bounded. *)
ASSUME TimeoutWithinLease == TaskTimeout < LeaseSeconds

VARIABLES
    status,         \* push_deliveries.status; "absent" before the row, "gone" after it
    attempts,       \* push_deliveries.attempts
    generation,     \* push_deliveries.claim_generation
    lease,          \* what is left of push_deliveries.lease_until; 0 once it has passed
    token,          \* devices.push_token
    wanted,         \* the request is pending for the device's user, who wants alerts
    step,           \* where a task is
    job,            \* PushJob.request_id and device_id
    known,          \* PushJob.attempts, the task's copy
    claim,          \* PushJob.claim_generation
    target,         \* the token the task read with its device
    verdict,        \* what the task is about to record
    age,            \* how long the task has been running
    faults,         \* bound: faults so far
    sends,          \* history: pushes handed to the provider
    rejected        \* history: tokens the provider called invalid

rowVars == <<status, attempts, generation, lease>>
taskVars == <<step, job, known, claim, target, verdict, age>>
vars == <<rowVars, token, wanted, taskVars, faults, sends, rejected>>

Settled == {"accepted", "failed", "skipped"}
Steps == {"idle", "device", "request", "begin", "send", "waiting", "clear", "record"}

PushTypeOK ==
    /\ status \in [Jobs -> {"absent", "queued", "sending", "gone"} \cup Settled]
    /\ attempts \in [Jobs -> 0..MaxAttempts]
    /\ generation \in [Jobs -> Nat]
    /\ lease \in [Jobs -> 0..LeaseSeconds]
    /\ token \in [Devices -> Tokens \cup {None, Revoked}]
    /\ wanted \in [Jobs -> BOOLEAN]
    /\ step \in [Slots -> Steps]
    /\ job \in [Slots -> Jobs \cup {None}]
    /\ known \in [Slots -> 0..MaxAttempts]
    /\ claim \in [Slots -> Nat]
    /\ target \in [Slots -> Tokens \cup {None}]
    /\ verdict \in [Slots -> {"none", "skipped", "accepted", "retryable", "permanent"}]
    /\ age \in [Slots -> 0..(TaskTimeout + 1)]
    /\ faults \in 0..MaxFaults
    /\ sends \in [Jobs -> Nat]
    /\ rejected \subseteq Tokens
    /\ \A s \in Slots : step[s] # "idle" => job[s] \in Jobs
    /\ \A s \in Slots : step[s] \notin {"idle", "device"} /\ verdict[s] # "skipped" => target[s] \in Tokens

PushInit ==
    /\ status = [j \in Jobs |-> "absent"]
    /\ attempts = [j \in Jobs |-> 0]
    /\ generation = [j \in Jobs |-> 0]
    /\ lease = [j \in Jobs |-> 0]
    /\ token \in [Devices -> Tokens]
    /\ wanted = [j \in Jobs |-> FALSE]
    /\ step = [s \in Slots |-> "idle"]
    /\ job = [s \in Slots |-> None]
    /\ known = [s \in Slots |-> 0]
    /\ claim = [s \in Slots |-> 0]
    /\ target = [s \in Slots |-> None]
    /\ verdict = [s \in Slots |-> "none"]
    /\ age = [s \in Slots |-> 0]
    /\ faults = 0
    /\ sends = [j \in Jobs |-> 0]
    /\ rejected = {}

Busy(s) == step[s] # "idle"

(* A fault within the bound. *)
Fault == faults < MaxFaults /\ faults' = faults + 1

-----------------------------------------------------------------------------
(* The surroundings: requests, devices and the clock. *)

(* create_request queues a row for every device with a token. *)
QueuePushes(r) ==
    /\ \A j \in Jobs : j[1] = r => status[j] = "absent"
    /\ LET mine == {j \in Jobs : j[1] = r /\ token[j[2]] \in Tokens}
       IN  /\ mine # {}
           /\ status' = [j \in Jobs |-> IF j \in mine THEN "queued" ELSE status[j]]
           /\ wanted' = [j \in Jobs |-> IF j \in mine THEN TRUE ELSE wanted[j]]
    /\ UNCHANGED <<attempts, generation, lease, token, taskVars, faults, sends, rejected>>

(* The user answers, mutes or snoozes, or hears alerts again. *)
ChangeWanted(j) ==
    /\ status[j] \notin {"absent", "gone"}
    /\ wanted' = [wanted EXCEPT ![j] = ~wanted[j]]
    /\ UNCHANGED <<rowVars, token, taskVars, faults, sends, rejected>>

(* The request is pruned or its channel deleted; its rows cascade. *)
RemoveRequest(r) ==
    /\ \E j \in Jobs : j[1] = r /\ status[j] \notin {"absent", "gone"}
    /\ status' = [j \in Jobs |-> IF j[1] = r THEN "gone" ELSE status[j]]
    /\ wanted' = [j \in Jobs |-> IF j[1] = r THEN FALSE ELSE wanted[j]]
    /\ UNCHANGED <<attempts, generation, lease, token, taskVars, faults, sends, rejected>>

(* update_push_token. *)
RegisterToken(d, t) ==
    /\ token[d] # Revoked
    /\ token' = [token EXCEPT ![d] = t]
    /\ UNCHANGED <<rowVars, wanted, taskVars, faults, sends, rejected>>

(* delete_device and revoke_user_device. *)
RevokeDevice(d) ==
    /\ token[d] # Revoked
    /\ token' = [token EXCEPT ![d] = Revoked]
    /\ UNCHANGED <<rowVars, wanted, taskVars, faults, sends, rejected>>

(* A task that runs although its time is up: deliver_bounded is about to drop *)
(* it, but a stalled process may be late.                                    *)
Overran(s) == age[s] > TaskTimeout

(* A clock unit passes; letting a task overrun its time counts as a fault. *)
PassTime ==
    /\ \/ \E j \in Jobs : lease[j] > 0
       \/ \E s \in Slots : Busy(s)
    /\ IF \E s \in Slots : Busy(s) /\ age[s] = TaskTimeout THEN Fault ELSE UNCHANGED faults
    /\ lease' = [j \in Jobs |-> IF lease[j] > 0 THEN lease[j] - 1 ELSE 0]
    /\ age' = [s \in Slots |-> IF Busy(s) /\ ~Overran(s) THEN age[s] + 1 ELSE age[s]]
    /\ UNCHANGED <<status, attempts, generation, token, wanted, step, job, known, claim,
                   target, verdict, sends, rejected>>

-----------------------------------------------------------------------------
(* The worker loop. *)

(* Definitions named ...Ignoring..., ...Keeping... and the like restate the  *)
(* one that follows them with a defect a change to the code could bring in.  *)
LapsedIgnoringLease(j) == status[j] = "sending"
LapsedExhaustedOnly(j) == status[j] = "queued" /\ attempts[j] >= MaxAttempts

(* The rows recover_pushes resets: an interrupted send, or no attempt left. *)
Lapsed(j) ==
    \/ status[j] = "sending" /\ lease[j] = 0
    \/ status[j] = "queued" /\ attempts[j] >= MaxAttempts

(* recover_pushes, one statement. *)
RecoverPushes ==
    /\ \E j \in Jobs : Lapsed(j)
    /\ status' = [j \in Jobs |->
                    IF ~Lapsed(j) THEN status[j]
                    ELSE IF attempts[j] >= MaxAttempts THEN "failed" ELSE "queued"]
    /\ lease' = [j \in Jobs |-> IF Lapsed(j) THEN 0 ELSE lease[j]]
    /\ UNCHANGED <<attempts, generation, token, wanted, taskVars, faults, sends, rejected>>

GenerationBumped(j) == generation[j] + 1

(* claim_pushes gives as many queued rows as there are free tasks to one     *)
(* task each (the oldest rows; any, here); a statement that claims several   *)
(* rows is several of these steps in a row.                                  *)
ClaimPushes(s, j) ==
    /\ step[s] = "idle"
    /\ status[j] = "queued"
    /\ attempts[j] < MaxAttempts
    /\ generation[j] < MaxClaims
    /\ status' = [status EXCEPT ![j] = "sending"]
    /\ generation' = [generation EXCEPT ![j] = GenerationBumped(j)]
    /\ lease' = [lease EXCEPT ![j] = LeaseSeconds]
    /\ step' = [step EXCEPT ![s] = "device"]
    /\ job' = [job EXCEPT ![s] = j]
    /\ known' = [known EXCEPT ![s] = attempts[j]]
    /\ claim' = [claim EXCEPT ![s] = GenerationBumped(j)]
    /\ target' = [target EXCEPT ![s] = None]
    /\ verdict' = [verdict EXCEPT ![s] = "none"]
    /\ age' = [age EXCEPT ![s] = 0]
    /\ UNCHANGED <<attempts, token, wanted, faults, sends, rejected>>

(* A task ends: step returns to idle and the rest is cleared. *)
EndTasks(S) ==
    /\ step' = [s \in Slots |-> IF s \in S THEN "idle" ELSE step[s]]
    /\ job' = [s \in Slots |-> IF s \in S THEN None ELSE job[s]]
    /\ known' = [s \in Slots |-> IF s \in S THEN 0 ELSE known[s]]
    /\ claim' = [s \in Slots |-> IF s \in S THEN 0 ELSE claim[s]]
    /\ target' = [s \in Slots |-> IF s \in S THEN None ELSE target[s]]
    /\ verdict' = [s \in Slots |-> IF s \in S THEN "none" ELSE verdict[s]]
    /\ age' = [s \in Slots |-> IF s \in S THEN 0 ELSE age[s]]

Goto(s, where) == step' = [step EXCEPT ![s] = where]
Conclude(s, v) == verdict' = [verdict EXCEPT ![s] = v]

-----------------------------------------------------------------------------
(* deliver_inner, one turn of its loop. *)

(* prepare_delivery reads the device first ... *)
ReadDevice(s) ==
    /\ step[s] = "device"
    /\ LET t == token[job[s][2]]
       IN  IF t \in Tokens
           THEN /\ target' = [target EXCEPT ![s] = t]
                /\ Goto(s, "request")
                /\ UNCHANGED verdict
           ELSE /\ Goto(s, "record")
                /\ Conclude(s, "skipped")
                /\ UNCHANGED target
    /\ UNCHANGED <<rowVars, token, wanted, job, known, claim, age, faults, sends, rejected>>

(* ... and then, in other statements, the request. *)
ReadRequest(s) ==
    /\ step[s] = "request"
    /\ IF wanted[job[s]]
       THEN Goto(s, "begin") /\ UNCHANGED verdict
       ELSE Goto(s, "record") /\ Conclude(s, "skipped")
    /\ UNCHANGED <<rowVars, token, wanted, job, known, claim, target, age, faults, sends, rejected>>

(* The fence on every write of a task. *)
Owns(s) ==
    /\ status[job[s]] = "sending"
    /\ generation[job[s]] = claim[s]
    /\ lease[job[s]] > 0
    /\ attempts[job[s]] = known[s]

BeginAttemptSendingAnyway(s) ==
    /\ step[s] = "begin"
    /\ attempts' = IF Owns(s) THEN [attempts EXCEPT ![job[s]] = attempts[job[s]] + 1] ELSE attempts
    /\ known' = [known EXCEPT ![s] = attempts'[job[s]]]
    /\ Goto(s, "send")
    /\ UNCHANGED <<status, generation, lease, token, wanted, job, claim, target, verdict, age,
                   faults, sends, rejected>>

(* begin_attempt: the attempt is stored before anything is sent; a task that *)
(* lost its row sends nothing.                                               *)
BeginAttempt(s) ==
    /\ step[s] = "begin"
    /\ Owns(s)
    /\ attempts[job[s]] < MaxAttempts
    /\ attempts' = [attempts EXCEPT ![job[s]] = attempts[job[s]] + 1]
    /\ known' = [known EXCEPT ![s] = known[s] + 1]
    /\ Goto(s, "send")
    /\ UNCHANGED <<status, generation, lease, token, wanted, job, claim, target, verdict, age,
                   faults, sends, rejected>>

RefuseAttempt(s) ==
    /\ step[s] = "begin"
    /\ ~(Owns(s) /\ attempts[job[s]] < MaxAttempts)
    /\ EndTasks({s})
    /\ UNCHANGED <<rowVars, token, wanted, faults, sends, rejected>>

(* push_request goes out ... *)
SendPush(s) ==
    /\ step[s] = "send"
    /\ sends' = [sends EXCEPT ![job[s]] = sends[job[s]] + 1]
    /\ Goto(s, "waiting")
    /\ UNCHANGED <<rowVars, token, wanted, job, known, claim, target, verdict, age, faults, rejected>>

(* ... and is answered, or its 15 seconds pass, which counts as retryable. *)
PushAnswered(s, v, invalid) ==
    /\ step[s] = "waiting"
    /\ v = "accepted" => ~invalid
    /\ Conclude(s, v)
    /\ Goto(s, IF invalid THEN "clear" ELSE "record")
    /\ rejected' = IF invalid THEN rejected \cup {target[s]} ELSE rejected
    /\ UNCHANGED <<rowVars, token, wanted, job, known, claim, target, age, faults, sends>>

ClearableAnyToken(s) == token[job[s][2]] \in Tokens /\ Owns(s)

(* The WHERE of clear_invalid_push_token. *)
Clearable(s) == token[job[s][2]] = target[s] /\ Owns(s)

ClearInvalidToken(s) ==
    /\ step[s] = "clear"
    /\ token' = IF Clearable(s) THEN [token EXCEPT ![job[s][2]] = None] ELSE token
    /\ Goto(s, "record")
    /\ UNCHANGED <<rowVars, wanted, job, known, claim, target, verdict, age, faults, sends, rejected>>

WillRetry(s) == verdict[s] = "retryable" /\ known[s] < MaxAttempts

StatusRecorded(s) ==
    IF verdict[s] \in {"accepted", "skipped"} THEN verdict[s]
    ELSE IF WillRetry(s) THEN "sending" ELSE "failed"

(* After its result is recorded, or could not be, a task ends or, after its  *)
(* backoff, takes another turn.                                              *)
Proceed(s) ==
    IF WillRetry(s)
    THEN /\ Goto(s, "device")
         /\ target' = [target EXCEPT ![s] = None]
         /\ Conclude(s, "none")
         /\ UNCHANGED <<job, known, claim, age>>
    ELSE EndTasks({s})

(* progress, that is update_push; a lost row is only logged. *)
RecordProgress(s) ==
    /\ step[s] = "record"
    /\ status' = IF Owns(s) THEN [status EXCEPT ![job[s]] = StatusRecorded(s)] ELSE status
    /\ Proceed(s)
    /\ UNCHANGED <<attempts, generation, lease, token, wanted, faults, sends, rejected>>

-----------------------------------------------------------------------------
(* Faults. *)

(* A statement of the preparation, or begin_attempt, fails: the task stops   *)
(* and leaves its lease to recovery.                                         *)
StopTask(s) ==
    /\ step[s] \in {"device", "request", "begin"}
    /\ Fault
    /\ EndTasks({s})
    /\ UNCHANGED <<rowVars, token, wanted, sends, rejected>>

(* clear_invalid_push_token or update_push fails; the task carries on. *)
LoseWrite(s) ==
    /\ Fault
    /\ \/ /\ step[s] = "clear"
          /\ Goto(s, "record")
          /\ UNCHANGED <<job, known, claim, target, verdict, age>>
       \/ step[s] = "record" /\ Proceed(s)
    /\ UNCHANGED <<rowVars, token, wanted, sends, rejected>>

(* TASK_TIMEOUT drops the task wherever it is. *)
DropTask(s) ==
    /\ Busy(s)
    /\ age[s] >= TaskTimeout
    /\ Fault
    /\ EndTasks({s})
    /\ UNCHANGED <<rowVars, token, wanted, sends, rejected>>

(* The process dies with its tasks. *)
Crash ==
    /\ \E s \in Slots : Busy(s)
    /\ Fault
    /\ EndTasks(Slots)
    /\ UNCHANGED <<rowVars, token, wanted, sends, rejected>>

-----------------------------------------------------------------------------
Environment ==
    \/ \E r \in Requests : QueuePushes(r) \/ RemoveRequest(r)
    \/ \E j \in Jobs : ChangeWanted(j)
    \/ \E d \in Devices : RevokeDevice(d) \/ \E t \in Tokens : RegisterToken(d, t)

(* What a task does when nothing goes wrong. *)
TaskStep(s) ==
    \/ ReadDevice(s)
    \/ ReadRequest(s)
    \/ BeginAttempt(s)
    \/ RefuseAttempt(s)
    \/ SendPush(s)
    \/ \E v \in {"accepted", "retryable", "permanent"}, invalid \in BOOLEAN : PushAnswered(s, v, invalid)
    \/ ClearInvalidToken(s)
    \/ RecordProgress(s)

PushNext ==
    \/ Environment
    \/ PassTime
    \/ RecoverPushes
    \/ \E s \in Slots, j \in Jobs : ClaimPushes(s, j)
    \/ \E s \in Slots : TaskStep(s) \/ StopTask(s) \/ LoseWrite(s) \/ DropTask(s)
    \/ Crash

PushSpec == PushInit /\ [][PushNext]_vars

(* The worker's loop never ends (its interval ticks every second), tokio     *)
(* polls every task, each send is answered or times out, and time passes.    *)
PushFairSpec ==
    /\ PushSpec
    /\ WF_vars(PassTime)
    /\ WF_vars(RecoverPushes)
    /\ WF_vars(\E s \in Slots, j \in Jobs : ClaimPushes(s, j))
    /\ \A s \in Slots : WF_vars(TaskStep(s))

-----------------------------------------------------------------------------
(* Properties. *)

(* A push goes to the provider at most MAX_ATTEMPTS times, however often the *)
(* process crashes or a lease lapses: begin_attempt stores the attempt       *)
(* before the send it allows ("must stop the task, not send anyway").        *)
SendsWithinAttempts ==
    \A j \in Jobs : sends[j] <= attempts[j] /\ attempts[j] <= MaxAttempts

(* At most one task may write to a row, even when stale tasks of earlier     *)
(* claims are still running.                                                 *)
OneOwnerPerRow ==
    \A s, t \in Slots : Busy(s) /\ Busy(t) /\ job[s] = job[t] /\ Owns(s) /\ Owns(t) => s = t

(* Two sends of one push are under way together only while a task overruns   *)
(* its time (deliver_bounded: "this future is dropped before its lease can   *)
(* be reclaimed").                                                           *)
SendsOverlapOnlyOverrun ==
    \A s, t \in Slots :
        /\ s # t
        /\ step[s] \in {"send", "waiting"} /\ step[t] \in {"send", "waiting"}
        /\ job[s] = job[t]
        => Overran(s) \/ Overran(t)

(* The worker clears only a token the provider has called invalid: a token   *)
(* the device registered since is kept.                                      *)
FreshTokensSurvive ==
    [][\A d \in Devices : token[d] \in Tokens /\ token'[d] = None => token[d] \in rejected]_vars

(* Every queued push is accepted, failed or skipped, or goes with its        *)
(* request.                                                                  *)
EveryPushSettles ==
    \A j \in Jobs : status[j] = "queued" ~> status[j] \in Settled \cup {"gone"}
=============================================================================
