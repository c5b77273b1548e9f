--------------------------- MODULE LifecyclePublish ---------------------------
(***************************************************************************)
(* The publication of the lifecycle journal: the publish columns of        *)
(* lifecycle_events (db/lifecycle.rs) and the worker that hands each event *)
(* to a NATS stream and records the stream's acknowledgement               *)
(* (services/lifecycle_publish.rs).                                        *)
(*                                                                         *)
(* An event is its journal sequence number.  Every claim of an event draws *)
(* a fresh lease token and counts one attempt, so the number of attempts   *)
(* at the claim stands for its token.  Time is relative: leases and        *)
(* backoffs count down.                                                    *)
(***************************************************************************)
EXTENDS Integers, Sequences

CONSTANTS
    Publishers,     \* the worker of each server process on the database
    MaxEvents,      \* bound: events in the journal
    LeaseSeconds,   \* 60 seconds, in clock units
    MaxShift,       \* 8, the exponent at which the backoff stops doubling
    MaxDelay,       \* 300 seconds, in clock units
    MaxFaults       \* bound: lost messages, timeouts, crashes, failed statements

ASSUME PublishAssumption ==
    /\ MaxEvents \in Nat
    /\ LeaseSeconds \in Nat \ {0}
    /\ MaxShift \in Nat
    /\ MaxDelay \in Nat \ {0}
    /\ MaxFaults \in Nat

VARIABLES
    high,           \* the last journal sequence number
    streamSeq,      \* lifecycle_events.stream_seq; 0 while published_at is NULL
    attempts,       \* lifecycle_events.attempts
    lease,          \* what is left of lease_until; 0 when NULL or past
    delay,          \* what is left until next_attempt_at
    step,           \* where a publisher is
    job,            \* its PublishClaim: event and lease token
    answer,         \* the stream sequence it was acknowledged, 0 if none
    flight,         \* messages on their way to the stream
    stream,         \* the events in the stream, one entry per stored message
    recent,         \* the events whose message id the stream remembers
    acks,           \* acknowledgements on their way back
    faults          \* bound: faults so far

rowVars == <<high, streamSeq, attempts, lease, delay>>
taskVars == <<step, job, answer>>
busVars == <<flight, stream, recent, acks>>
vars == <<rowVars, taskVars, busVars, faults>>

Events == 1..MaxEvents
Claims == [event : Events, attempt : Nat]
NoClaim == [event |-> 0, attempt |-> 0]

PublishInit ==
    /\ high = 0
    /\ streamSeq = [e \in Events |-> 0]
    /\ attempts = [e \in Events |-> 0]
    /\ lease = [e \in Events |-> 0]
    /\ delay = [e \in Events |-> 0]
    /\ step = [p \in Publishers |-> "down"]
    /\ job = [p \in Publishers |-> NoClaim]
    /\ answer = [p \in Publishers |-> 0]
    /\ flight = {}
    /\ stream = <<>>
    /\ recent = {}
    /\ acks = {}
    /\ faults = 0

Fault == faults < MaxFaults /\ faults' = faults + 1

Published(e) == streamSeq[e] > 0

(* append_lifecycle_on, in the request's transaction: due at once. *)
AppendEvent ==
    /\ high < MaxEvents
    /\ high' = high + 1
    /\ UNCHANGED <<streamSeq, attempts, lease, delay, taskVars, busVars, faults>>

-----------------------------------------------------------------------------
(* The worker. *)

(* The worker is out of its claim and connected, or not. *)
Leave(p, where) ==
    /\ step' = [step EXCEPT ![p] = where]
    /\ job' = [job EXCEPT ![p] = NoClaim]
    /\ answer' = [answer EXCEPT ![p] = 0]

Connect(p) ==
    /\ step[p] = "down"
    /\ step' = [step EXCEPT ![p] = "idle"]
    /\ UNCHANGED <<rowVars, job, answer, busVars, faults>>

(* connection_state is no longer Connected. *)
Disconnect(p) ==
    /\ step[p] = "idle"
    /\ Fault
    /\ step' = [step EXCEPT ![p] = "down"]
    /\ UNCHANGED <<rowVars, job, answer, busVars>>

DueUntried(e) == e <= high /\ attempts[e] = 0

(* The WHERE of claim_due. *)
Due(e) ==
    /\ e <= high
    /\ ~Published(e)
    /\ delay[e] = 0
    /\ lease[e] = 0

(* claim_due takes the first due event; the lease and the attempt are stored *)
(* before anything is sent.                                                  *)
ClaimDue(p) ==
    /\ step[p] = "idle"
    /\ \E e \in Events :
        /\ Due(e)
        /\ \A d \in Events : Due(d) => e <= d
        /\ lease' = [lease EXCEPT ![e] = LeaseSeconds]
        /\ attempts' = [attempts EXCEPT ![e] = attempts[e] + 1]
        /\ job' = [job EXCEPT ![p] = [event |-> e, attempt |-> attempts[e] + 1]]
        /\ step' = [step EXCEPT ![p] = "claimed"]
    /\ UNCHANGED <<high, streamSeq, delay, answer, busVars, faults>>

(* publish: the frozen envelope under the event's id. *)
Send(p) ==
    /\ step[p] = "claimed"
    /\ step' = [step EXCEPT ![p] = "waiting"]
    /\ flight' = flight \cup {job[p]}
    /\ UNCHANGED <<rowVars, job, answer, stream, recent, acks, faults>>

AcknowledgedByAny(p) ==
    /\ step[p] = "waiting"
    /\ \E a \in acks :
        /\ step' = [step EXCEPT ![p] = "result"]
        /\ answer' = [answer EXCEPT ![p] = a[2]]
        /\ acks' = acks \ {a}
    /\ UNCHANGED <<rowVars, job, flight, stream, recent, faults>>

(* The stream's acknowledgement of this very message arrives in time. *)
Acknowledged(p) ==
    /\ step[p] = "waiting"
    /\ \E a \in acks :
        /\ a[1] = job[p]
        /\ step' = [step EXCEPT ![p] = "result"]
        /\ answer' = [answer EXCEPT ![p] = a[2]]
        /\ acks' = acks \ {a}
    /\ UNCHANGED <<rowVars, job, flight, stream, recent, faults>>

(* No acknowledgement within 10 seconds, an error, or one of another stream: *)
(* the message may be on its way, stored, or lost.                           *)
PublishFailed(p) ==
    /\ step[p] = "waiting"
    /\ IF job[p] \in flight \/ \E a \in acks : a[1] = job[p]
       THEN Fault ELSE UNCHANGED faults
    /\ step' = [step EXCEPT ![p] = "result"]
    /\ UNCHANGED <<rowVars, job, answer, busVars>>

(* The fence of published and retry: this claim's lease, still running, of   *)
(* an unpublished event.                                                     *)
Owns(p) ==
    /\ lease[job[p].event] > 0
    /\ attempts[job[p].event] = job[p].attempt
    /\ ~Published(job[p].event)

(* published. *)
RecordPublished(p) ==
    LET e == job[p].event
    IN  /\ step[p] = "result"
        /\ answer[p] > 0
        /\ streamSeq' = IF Owns(p) THEN [streamSeq EXCEPT ![e] = answer[p]] ELSE streamSeq
        /\ lease' = IF Owns(p) THEN [lease EXCEPT ![e] = 0] ELSE lease
        /\ Leave(p, "idle")
        /\ UNCHANGED <<high, attempts, delay, busVars, faults>>

(* 1 << attempts, at most 300 seconds. *)
Backoff(n) ==
    LET doubled == 2 ^ (IF n < MaxShift THEN n ELSE MaxShift)
    IN  IF doubled < MaxDelay THEN doubled ELSE MaxDelay

(* retry: no failure is final; the worker then connects anew. *)
RecordRetry(p) ==
    LET e == job[p].event
    IN  /\ step[p] = "result"
        /\ answer[p] = 0
        /\ delay' = IF Owns(p) THEN [delay EXCEPT ![e] = Backoff(job[p].attempt)] ELSE delay
        /\ lease' = IF Owns(p) THEN [lease EXCEPT ![e] = 0] ELSE lease
        /\ Leave(p, "down")
        /\ UNCHANGED <<high, streamSeq, attempts, busVars, faults>>

(* The recording statement fails: "storage_error", and the lease runs out. *)
LoseResult(p) ==
    /\ step[p] = "result"
    /\ Fault
    /\ Leave(p, IF answer[p] > 0 THEN "idle" ELSE "down")
    /\ UNCHANGED <<rowVars, busVars>>

(* The process ends and is started again. *)
RestartPublisher(p) ==
    /\ Fault
    /\ Leave(p, "down")
    /\ UNCHANGED <<rowVars, busVars>>

Down(n) == IF n > 0 THEN n - 1 ELSE 0

(* A clock unit passes.  A publication is over within 10 of its lease's 60   *)
(* seconds: that a lease runs out under its owner is a fault.                *)
PassTime ==
    /\ \E e \in Events : lease[e] > 0 \/ delay[e] > 0
    /\ IF \E p \in Publishers : job[p] # NoClaim /\ Owns(p) /\ lease[job[p].event] = 1
       THEN Fault ELSE UNCHANGED faults
    /\ lease' = [e \in Events |-> Down(lease[e])]
    /\ delay' = [e \in Events |-> Down(delay[e])]
    /\ UNCHANGED <<high, streamSeq, attempts, taskVars, busVars>>

-----------------------------------------------------------------------------
(* The stream: it stores a message unless it remembers its id, and answers   *)
(* with the position of the stored one.                                      *)
Store(m) ==
    /\ m \in flight
    /\ flight' = flight \ {m}
    /\ IF m.event \in recent
       THEN /\ \E i \in 1..Len(stream) : stream[i] = m.event /\ acks' = acks \cup {<<m, i>>}
            /\ UNCHANGED <<stream, recent>>
       ELSE /\ stream' = Append(stream, m.event)
            /\ recent' = recent \cup {m.event}
            /\ acks' = acks \cup {<<m, Len(stream) + 1>>}
    /\ UNCHANGED <<rowVars, taskVars, faults>>

(* Its memory of ids ends after ten minutes. *)
ForgetId(e) ==
    /\ e \in recent
    /\ Fault
    /\ recent' = recent \ {e}
    /\ UNCHANGED <<rowVars, taskVars, flight, stream, acks>>

(* A message or an acknowledgement is lost. *)
LoseMessage ==
    /\ Fault
    /\ \/ \E m \in flight : flight' = flight \ {m} /\ acks' = acks
       \/ \E a \in acks : acks' = acks \ {a} /\ flight' = flight
    /\ UNCHANGED <<rowVars, taskVars, stream, recent>>

-----------------------------------------------------------------------------
PublisherStep(p) ==
    \/ Connect(p)
    \/ ClaimDue(p)
    \/ Send(p)
    \/ Acknowledged(p)
    \/ RecordPublished(p)
    \/ RecordRetry(p)

PublishNext ==
    \/ AppendEvent
    \/ \E p \in Publishers :
        \/ PublisherStep(p)
        \/ PublishFailed(p)
        \/ Disconnect(p)
        \/ LoseResult(p)
        \/ RestartPublisher(p)
    \/ PassTime
    \/ \E m \in flight : Store(m)
    \/ \E e \in Events : ForgetId(e)
    \/ LoseMessage

PublishSpec == PublishInit /\ [][PublishNext]_vars

(* The worker loops for ever, a publication is cut off after 10 seconds, the *)
(* stream stores what reaches it, and time passes.                           *)
PublishFairSpec ==
    /\ PublishSpec
    /\ WF_vars(PassTime)
    /\ WF_vars(\E m \in flight : Store(m))
    /\ \A p \in Publishers :
        /\ WF_vars(PublisherStep(p))
        /\ WF_vars(PublishFailed(p))

-----------------------------------------------------------------------------
(* Properties. *)

(* A row is marked published only when the stream holds the event at the     *)
(* very sequence the row records, whatever was lost, repeated or late:       *)
(* stream_seq of lifecycle_events is evidence, not a guess.                  *)
PublishedIsStored ==
    \A e \in Events : Published(e) => streamSeq[e] <= Len(stream) /\ stream[streamSeq[e]] = e

(* The fence of published and retry admits one claim at a time, though an    *)
(* old process may still hold a claim that ran out.                          *)
OneClaimPassesTheFence ==
    \A p, q \in Publishers :
        /\ p # q
        /\ job[p] # NoClaim /\ job[q] # NoClaim
        /\ job[p].event = job[q].event
        => ~(Owns(p) /\ Owns(q))

(* "published_at IS NULL": once recorded, the late acknowledgement of another *)
(* attempt changes nothing, though the stream may have stored it elsewhere.   *)
PublicationIsFinal ==
    [][\A e \in Events : Published(e) => streamSeq'[e] = streamSeq[e]]_vars

(* "SQLite remains authoritative while the bus is down": every event of the  *)
(* journal is published once outages end.                                    *)
EveryEventPublished ==
    \A e \in Events : e <= high ~> Published(e)
=============================================================================
