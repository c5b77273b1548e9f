------------------------ MODULE CallbackOutbox_proofs ------------------------
(* Proofs about the callback worker, for every set of answers, tasks and    *)
(* faults and every lease and backoff.                                      *)
EXTENDS CallbackOutbox, TLAPS

USE CallbackAssumption

(* The types the argument needs. *)
Shapes ==
    /\ state \in [Callbacks -> {"absent", "queued", "sending", "retrying", "blocked_policy", "delivered"}]
    /\ step \in [Slots -> {"idle", "claimed", "waiting", "result"}]
    /\ job \in [Slots -> Callbacks \cup {None}]
    /\ result \in [Slots -> {"none", "ok", "failed", "blocked"}]
    /\ \A s \in Slots : step[s] # "idle" => job[s] \in Callbacks

(* An answer's delivery is queued after those of the earlier answers. *)
QueuedInOrder ==
    \A c \in Callbacks : state[c] # "absent" => \A e \in Earlier(c) : state[e] # "absent"

(* While a task holds a delivery, stale or not, the earlier ones are done:   *)
(* they were when it was claimed, and a delivered row never changes.         *)
HeldInOrder ==
    \A s \in Slots : step[s] # "idle" => \A e \in Earlier(job[s]) : state[e] = "delivered"

(* A 2xx seen by a task, and the row it makes "delivered", are backed by the *)
(* receiver.                                                                 *)
SuccessIsReal ==
    /\ \A s \in Slots : step[s] = "result" /\ result[s] = "ok" => job[s] \in acked
    /\ \A c \in Callbacks : state[c] = "delivered" => c \in acked

CallbackInv ==
    /\ Shapes
    /\ QueuedInOrder
    /\ HeldInOrder
    /\ SuccessIsReal
    /\ RevisionsArriveInOrder

(* What one step of the worker or its surroundings may do to a delivery.     *)
DeliveryStep ==
    \A c \in Callbacks :
        /\ state[c] = "delivered" => state'[c] = "delivered"
        /\ state'[c] = "delivered" => c \in acked

-----------------------------------------------------------------------------
(* Queueing an answer. *)
LEMMA QueueKeeps ==
    ASSUME CallbackInv, NEW c \in Callbacks, QueueCallback(c)
    PROVE  CallbackInv' /\ DeliveryStep
BY DEF CallbackInv, Shapes, QueuedInOrder, HeldInOrder, SuccessIsReal, RevisionsArriveInOrder,
       DeliveryStep, QueueCallback, Earlier, taskVars

(* Claiming a delivery: the fence on earlier revisions gives HeldInOrder. *)
LEMMA ClaimKeeps ==
    ASSUME CallbackInv, NEW s \in Slots, NEW c \in Callbacks, ClaimDue(s, c)
    PROVE  CallbackInv' /\ DeliveryStep
<1> USE DEF CallbackInv, Shapes
<1>1. state[c] \notin {"absent", "delivered"} /\ \A e \in Earlier(c) : state[e] = "delivered"
  BY DEF ClaimDue, Claimable, QueuedInOrder, Earlier
<1>2. Shapes'
  BY DEF ClaimDue
<1>3. QueuedInOrder'
  BY <1>1 DEF ClaimDue, QueuedInOrder, Earlier
<1>4. HeldInOrder'
  <2> SUFFICES ASSUME NEW t \in Slots, step'[t] # "idle", NEW e \in Earlier(job'[t])
               PROVE  state'[e] = "delivered"
    BY DEF HeldInOrder, Earlier
  <2>1. CASE t = s
    BY <1>1, <2>1 DEF ClaimDue, Earlier
  <2>2. CASE t # s
    BY <1>1, <2>2 DEF ClaimDue, HeldInOrder, Earlier
  <2> QED
    BY <2>1, <2>2
<1>5. SuccessIsReal' /\ RevisionsArriveInOrder' /\ DeliveryStep
  BY <1>1 DEF ClaimDue, SuccessIsReal, RevisionsArriveInOrder, DeliveryStep, Earlier
<1> QED
  BY <1>2, <1>3, <1>4, <1>5

(* Steps that leave the rows alone and start no task; a post is made for a   *)
(* held delivery only.                                                       *)
LEMMA RowsUntouched ==
    ASSUME CallbackInv, UNCHANGED state, Shapes', acked \subseteq acked',
           \A t \in Slots : step'[t] # "idle" => step[t] # "idle" /\ job'[t] = job[t],
           \A t \in Slots : step'[t] = "result" /\ result'[t] = "ok" => job[t] \in acked',
           \A c \in sent' : c \in sent \/ \E t \in Slots : step[t] # "idle" /\ job[t] = c
    PROVE  CallbackInv' /\ DeliveryStep
<1>1. QueuedInOrder' /\ HeldInOrder' /\ DeliveryStep
  BY DEF CallbackInv, QueuedInOrder, HeldInOrder, Earlier, DeliveryStep, SuccessIsReal
<1>2. SuccessIsReal'
  BY DEF CallbackInv, SuccessIsReal
<1>3. RevisionsArriveInOrder'
  <2> SUFFICES ASSUME NEW c \in sent', NEW e \in Earlier(c) PROVE e \in acked'
    BY DEF RevisionsArriveInOrder, Earlier
  <2> QED
    BY DEF CallbackInv, RevisionsArriveInOrder, HeldInOrder, SuccessIsReal, Earlier
<1> QED
  BY <1>1, <1>2, <1>3 DEF CallbackInv

(* Recording a result: only a row that is "sending" changes. *)
LEMMA RecordKeeps ==
    ASSUME CallbackInv, NEW s \in Slots, Complete(s) \/ Retry(s)
    PROVE  CallbackInv' /\ DeliveryStep
<1> USE DEF CallbackInv, Shapes
<1>1. /\ EndTasks({s})
      /\ step[s] = "result"
      /\ job[s] \in Callbacks
      /\ UNCHANGED <<sent, acked>>
  BY DEF Complete, Retry
<1>2. PICK v \in {"delivered", "retrying", "blocked_policy"} :
        /\ state' = state \/ (state[job[s]] = "sending" /\ state' = [state EXCEPT ![job[s]] = v])
        /\ v = "delivered" => job[s] \in acked
  <2>1. CASE Complete(s)
    BY <2>1 DEF Complete, Owns, SuccessIsReal
  <2>2. CASE Retry(s)
    BY <2>2 DEF Retry, Owns
  <2> QED
    BY <2>1, <2>2
<1>3. Shapes'
  BY <1>1, <1>2 DEF EndTasks
<1>4. QueuedInOrder'
  BY <1>1, <1>2 DEF QueuedInOrder, Earlier
<1>5. HeldInOrder'
  BY <1>1, <1>2 DEF EndTasks, HeldInOrder, Earlier
<1>6. SuccessIsReal' /\ DeliveryStep
  BY <1>1, <1>2 DEF EndTasks, SuccessIsReal, DeliveryStep
<1>7. RevisionsArriveInOrder'
  BY <1>1 DEF RevisionsArriveInOrder, Earlier
<1> QED
  BY <1>3, <1>4, <1>5, <1>6, <1>7

(* Every step of the worker keeps the invariant and reopens no delivery. *)
LEMMA CallbackStep ==
    CallbackInv /\ [CallbackNext]_vars => CallbackInv' /\ DeliveryStep
<1> SUFFICES ASSUME CallbackInv, [CallbackNext]_vars PROVE CallbackInv' /\ DeliveryStep
  OBVIOUS
<1> DEFINE Goal == CallbackInv' /\ DeliveryStep
<1> SUFFICES Goal
  OBVIOUS
<1>0. Shapes /\ SuccessIsReal
  BY DEF CallbackInv
<1>1. CASE UNCHANGED <<state, taskVars, sent, acked>>
  <2>1. Shapes'
    BY <1>0, <1>1 DEF Shapes, taskVars
  <2> QED
    BY <1>0, <1>1, <2>1, RowsUntouched DEF taskVars, SuccessIsReal
<1>2. ASSUME NEW s \in Slots, Post(s) PROVE Goal
  <2>1. Shapes'
    BY <1>0, <1>2 DEF Shapes, Post, rowVars
  <2> QED
    BY <1>0, <1>2, <2>1, RowsUntouched DEF Shapes, Post, rowVars, SuccessIsReal
<1>3. ASSUME NEW s \in Slots, BlockPost(s) PROVE Goal
  <2>1. Shapes'
    BY <1>0, <1>3 DEF Shapes, BlockPost, rowVars
  <2> QED
    BY <1>0, <1>3, <2>1, RowsUntouched DEF Shapes, BlockPost, rowVars, SuccessIsReal
<1>4. ASSUME NEW s \in Slots, PostAnswered(s) PROVE Goal
  <2>1. Shapes'
    BY <1>0, <1>4 DEF Shapes, PostAnswered, rowVars
  <2> QED
    BY <1>0, <1>4, <2>1, RowsUntouched DEF Shapes, PostAnswered, rowVars, SuccessIsReal
<1>5. ASSUME NEW s \in Slots, NEW received \in BOOLEAN, PostFailed(s, received) PROVE Goal
  <2>1. Shapes' /\ acked \subseteq acked'
    BY <1>0, <1>5 DEF Shapes, PostFailed, rowVars
  <2> QED
    BY <1>0, <1>5, <2>1, RowsUntouched DEF Shapes, PostFailed, rowVars, SuccessIsReal
<1>6. ASSUME NEW S \in SUBSET Slots, EndTasks(S), UNCHANGED <<state, sent, acked>> PROVE Goal
  <2>1. Shapes'
    BY <1>0, <1>6 DEF Shapes, EndTasks
  <2> QED
    BY <1>0, <1>6, <2>1, RowsUntouched DEF Shapes, EndTasks, SuccessIsReal
<1>7. ASSUME NEW s \in Slots, LoseResult(s) PROVE Goal
  BY <1>6, <1>7 DEF LoseResult, rowVars
<1>8. ASSUME NEW policy \in BOOLEAN, RestartWorker(policy) PROVE Goal
  BY <1>6, <1>8 DEF RestartWorker, rowVars
<1>9. CASE PassTime \/ UNCHANGED vars
  BY <1>1, <1>9 DEF PassTime, vars, rowVars, taskVars
<1> QED
  BY <1>2, <1>3, <1>4, <1>5, <1>7, <1>8, <1>9, QueueKeeps, ClaimKeeps, RecordKeeps
  DEF CallbackNext, TaskStep

LEMMA CallbackInvHolds == CallbackSpec => []CallbackInv
<1>1. CallbackInit => CallbackInv
  BY DEF CallbackInit, CallbackInv, Shapes, QueuedInOrder, HeldInOrder, SuccessIsReal,
         RevisionsArriveInOrder, Earlier
<1> QED
  BY <1>1, CallbackStep, PTL DEF CallbackSpec

(* Nothing about a later answer is posted before the receiver acknowledged   *)
(* every earlier one.                                                        *)
THEOREM AnswersArriveInOrder == CallbackSpec => []RevisionsArriveInOrder
<1>1. CallbackInv => RevisionsArriveInOrder
  BY DEF CallbackInv
<1> QED
  BY <1>1, CallbackInvHolds, PTL

(* A delivery is marked delivered only on a receiver's 2xx, and stays so. *)
THEOREM DeliveriesAreFinal == CallbackSpec => DeliveredIsFinal
<1>1. CallbackInv /\ [CallbackNext]_vars => DeliveryStep
  BY CallbackStep
<1>2. DeliveryStep => [\A c \in Callbacks :
                        /\ state[c] = "delivered" => state'[c] = "delivered"
                        /\ state'[c] = "delivered" => c \in acked]_vars
  BY DEF DeliveryStep
<1> QED
  BY <1>1, <1>2, CallbackInvHolds, PTL DEF CallbackSpec, DeliveredIsFinal
=============================================================================
