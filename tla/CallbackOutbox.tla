--------------------------- MODULE CallbackOutbox ---------------------------
(***************************************************************************)
(* The callback outbox (db/callback_deliveries.rs) and the worker that     *)
(* posts it (services/callback_delivery.rs).  Every accepted answer of a   *)
(* request with a callback URL owes one delivery, at the answer's revision *)
(* (Requests!CallbacksOwed); it is retried until the receiver answers 2xx, *)
(* and the deliveries of one request go out in revision order.             *)
(*                                                                         *)
(* Time is relative: leases and backoffs count down.  The lease token of a *)
(* claim is the task that holds it.                                        *)
(***************************************************************************)
EXTENDS Integers, FiniteSets

CONSTANTS
    Callbacks,      \* pairs of a request and the revision of one of its answers
    Slots,          \* concurrent tasks
    LeaseSeconds,   \* 30 seconds, in clock units
    MaxShift,       \* 12, the exponent at which the backoff stops doubling
    MaxDelay,       \* 3600 seconds, in clock units
    BlockedDelay,   \* 300 seconds, in clock units
    MaxFaults,      \* bound: failures, restarts and overlong deliveries
    None

ASSUME CallbackAssumption ==
    /\ \A c \in Callbacks : c[2] \in Nat
    /\ LeaseSeconds \in Nat \ {0}
    /\ MaxShift \in Nat
    /\ MaxDelay \in Nat
    /\ BlockedDelay \in Nat
    /\ MaxFaults \in Nat
    /\ None \notin Slots /\ None \notin Callbacks

VARIABLES
    state,          \* callback_deliveries.state; "absent" before the row
    holder,         \* callback_deliveries.lease_token
    lease,          \* what is left of lease_until
    delay,          \* what is left until next_attempt_at
    attempts,       \* callback_deliveries.attempts, up to MaxShift
    allowed,        \* whether callback_allowed_origins admits the URL
    step,           \* where a task is
    job,            \* the CallbackClaim of a task
    result,         \* what the task is about to record
    faults,         \* bound: faults so far
    sent,           \* history: deliveries that were posted at least once
    acked           \* history: deliveries the receiver answered with 2xx

rowVars == <<state, holder, lease, delay, attempts>>
taskVars == <<step, job, result>>
vars == <<rowVars, allowed, taskVars, faults, sent, acked>>

CallbackInit ==
    /\ state = [c \in Callbacks |-> "absent"]
    /\ holder = [c \in Callbacks |-> None]
    /\ lease = [c \in Callbacks |-> 0]
    /\ delay = [c \in Callbacks |-> 0]
    /\ attempts = [c \in Callbacks |-> 0]
    /\ allowed = TRUE
    /\ step = [s \in Slots |-> "idle"]
    /\ job = [s \in Slots |-> None]
    /\ result = [s \in Slots |-> "none"]
    /\ faults = 0
    /\ sent = {}
    /\ acked = {}

Fault == faults < MaxFaults /\ faults' = faults + 1

(* The deliveries of the same request's earlier answers. *)
Earlier(c) == {e \in Callbacks : e[1] = c[1] /\ e[2] < c[2]}

EndTasks(S) ==
    /\ step' = [s \in Slots |-> IF s \in S THEN "idle" ELSE step[s]]
    /\ job' = [s \in Slots |-> IF s \in S THEN None ELSE job[s]]
    /\ result' = [s \in Slots |-> IF s \in S THEN "none" ELSE result[s]]

-----------------------------------------------------------------------------
(* An answer is accepted and its delivery queued (append_lifecycle_on);      *)
(* revisions only grow.                                                      *)
QueueCallback(c) ==
    /\ state[c] = "absent"
    /\ \A e \in Earlier(c) : state[e] # "absent"
    /\ state' = [state EXCEPT ![c] = "queued"]
    /\ UNCHANGED <<holder, lease, delay, attempts, allowed, taskVars, faults, sent, acked>>

(* The fence of complete and retry. *)
Owns(s) ==
    /\ state[job[s]] = "sending"
    /\ holder[job[s]] = s
    /\ lease[job[s]] > 0

Down(n) == IF n > 0 THEN n - 1 ELSE 0

(* A clock unit passes; that a lease runs out under its running task is      *)
(* possible (a stalled process, a slow database) and counts as a fault.      *)
PassTime ==
    /\ \E c \in Callbacks : lease[c] > 0 \/ delay[c] > 0
    /\ IF \E s \in Slots : step[s] # "idle" /\ Owns(s) /\ lease[job[s]] = 1
       THEN Fault ELSE UNCHANGED faults
    /\ lease' = [c \in Callbacks |-> Down(lease[c])]
    /\ delay' = [c \in Callbacks |-> Down(delay[c])]
    /\ UNCHANGED <<state, holder, attempts, allowed, taskVars, sent, acked>>

ClaimableOutOfOrder(c) ==
    /\ state[c] \notin {"absent", "delivered"}
    /\ delay[c] = 0
    /\ lease[c] = 0

ClaimableQueuedOnly(c) ==
    /\ state[c] \in {"queued", "retrying", "blocked_policy"}
    /\ delay[c] = 0
    /\ \A e \in Earlier(c) : state[e] = "delivered"

(* The WHERE of claim_due: due, not leased, and fenced by earlier            *)
(* undelivered revisions.                                                    *)
Claimable(c) ==
    /\ state[c] \notin {"absent", "delivered"}
    /\ delay[c] = 0
    /\ lease[c] = 0
    /\ \A e \in Earlier(c) : state[e] \in {"absent", "delivered"}

NextAttempts(c) == IF attempts[c] < MaxShift THEN attempts[c] + 1 ELSE MaxShift

(* claim_due reserves the attempt before any I/O. *)
ClaimDue(s, c) ==
    /\ step[s] = "idle"
    /\ Claimable(c)
    /\ state' = [state EXCEPT ![c] = "sending"]
    /\ holder' = [holder EXCEPT ![c] = s]
    /\ lease' = [lease EXCEPT ![c] = LeaseSeconds]
    /\ attempts' = [attempts EXCEPT ![c] = NextAttempts(c)]
    /\ step' = [step EXCEPT ![s] = "claimed"]
    /\ job' = [job EXCEPT ![s] = c]
    /\ UNCHANGED <<delay, allowed, result, faults, sent, acked>>

(* deliver: the destination is validated again, then posted to. *)
Post(s) ==
    /\ step[s] = "claimed"
    /\ allowed
    /\ step' = [step EXCEPT ![s] = "waiting"]
    /\ sent' = sent \cup {job[s]}
    /\ UNCHANGED <<rowVars, allowed, job, result, faults, acked>>

BlockPost(s) ==
    /\ step[s] = "claimed"
    /\ ~allowed
    /\ step' = [step EXCEPT ![s] = "result"]
    /\ result' = [result EXCEPT ![s] = "blocked"]
    /\ UNCHANGED <<rowVars, allowed, job, faults, sent, acked>>

(* send returns a 2xx status ... *)
PostAnswered(s) ==
    /\ step[s] = "waiting"
    /\ step' = [step EXCEPT ![s] = "result"]
    /\ result' = [result EXCEPT ![s] = "ok"]
    /\ acked' = acked \cup {job[s]}
    /\ UNCHANGED <<rowVars, allowed, job, faults, sent>>

(* ... or another one, an error or nothing within 10 seconds, in which case  *)
(* the receiver may have answered all the same.                              *)
PostFailed(s, received) ==
    /\ step[s] = "waiting"
    /\ Fault
    /\ step' = [step EXCEPT ![s] = "result"]
    /\ result' = [result EXCEPT ![s] = "failed"]
    /\ acked' = IF received THEN acked \cup {job[s]} ELSE acked
    /\ UNCHANGED <<rowVars, allowed, job, sent>>

(* complete. *)
Complete(s) ==
    /\ step[s] = "result"
    /\ result[s] = "ok"
    /\ state' = IF Owns(s) THEN [state EXCEPT ![job[s]] = "delivered"] ELSE state
    /\ holder' = IF Owns(s) THEN [holder EXCEPT ![job[s]] = None] ELSE holder
    /\ lease' = IF Owns(s) THEN [lease EXCEPT ![job[s]] = 0] ELSE lease
    /\ EndTasks({s})
    /\ UNCHANGED <<delay, attempts, allowed, faults, sent, acked>>

(* 1 << attempts, at most 3600 seconds. *)
Backoff(n) == IF 2 ^ n < MaxDelay THEN 2 ^ n ELSE MaxDelay

(* retry: no failure is ever final. *)
Retry(s) ==
    LET c == job[s]
    IN  /\ step[s] = "result"
        /\ result[s] \in {"failed", "blocked"}
        /\ state' = IF ~Owns(s) THEN state
                    ELSE [state EXCEPT ![c] = IF result[s] = "blocked" THEN "blocked_policy" ELSE "retrying"]
        /\ holder' = IF Owns(s) THEN [holder EXCEPT ![c] = None] ELSE holder
        /\ lease' = IF Owns(s) THEN [lease EXCEPT ![c] = 0] ELSE lease
        /\ delay' = IF ~Owns(s) THEN delay
                    ELSE [delay EXCEPT ![c] = IF result[s] = "blocked" THEN BlockedDelay
                                              ELSE Backoff(attempts[c])]
        /\ EndTasks({s})
        /\ UNCHANGED <<attempts, allowed, faults, sent, acked>>

(* The statement that records a result fails; the lease runs out. *)
LoseResult(s) ==
    /\ step[s] = "result"
    /\ Fault
    /\ EndTasks({s})
    /\ UNCHANGED <<rowVars, allowed, sent, acked>>

(* The process is restarted, perhaps with another callback policy. *)
RestartWorker(policy) ==
    /\ Fault
    /\ EndTasks(Slots)
    /\ allowed' = policy
    /\ UNCHANGED <<rowVars, sent, acked>>

-----------------------------------------------------------------------------
TaskStep(s) ==
    \/ Post(s)
    \/ BlockPost(s)
    \/ PostAnswered(s)
    \/ Complete(s)
    \/ Retry(s)

CallbackNext ==
    \/ \E c \in Callbacks : QueueCallback(c)
    \/ PassTime
    \/ \E s \in Slots, c \in Callbacks : ClaimDue(s, c)
    \/ \E s \in Slots : TaskStep(s) \/ LoseResult(s) \/ \E received \in BOOLEAN : PostFailed(s, received)
    \/ \E policy \in BOOLEAN : RestartWorker(policy)

CallbackSpec == CallbackInit /\ [][CallbackNext]_vars

(* The worker loops for ever (every 250 ms), every task is polled, a send    *)
(* ends within 10 seconds, and time passes.                                  *)
CallbackFairSpec ==
    /\ CallbackSpec
    /\ WF_vars(PassTime)
    /\ \A c \in Callbacks : WF_vars(\E s \in Slots : ClaimDue(s, c))
    /\ \A s \in Slots : WF_vars(TaskStep(s))

-----------------------------------------------------------------------------
(* Properties. *)

(* "Earlier undelivered revisions fence later callbacks": nothing about a    *)
(* later answer is posted before the receiver has acknowledged every earlier *)
(* one, whatever was lost or repeated.                                       *)
RevisionsArriveInOrder ==
    \A c \in sent : Earlier(c) \subseteq acked

(* A delivery is marked delivered only on a 2xx of its receiver, and that is *)
(* final: no stale task reopens it.                                          *)
DeliveredIsFinal ==
    [][\A c \in Callbacks :
          /\ state[c] = "delivered" => state'[c] = "delivered"
          /\ state'[c] = "delivered" => c \in acked]_vars

(* Every owed callback is delivered once the destination stays allowed and   *)
(* its receiver stops failing.                                               *)
EveryCallbackDelivered ==
    <>[]allowed => \A c \in Callbacks : state[c] = "queued" ~> state[c] = "delivered"
=============================================================================
