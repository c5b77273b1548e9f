-------------------------- MODULE PushOutbox_proofs --------------------------
(* Proofs about the push worker, for every number of tasks, rows, attempts  *)
(* and faults and every length of lease.                                    *)
EXTENDS PushOutbox, FiniteSetTheorems, TLAPS

USE PushAssumption

(* A task that found nothing to send goes straight to recording it. *)
SkippedTasksRecord == \A s \in Slots : verdict[s] = "skipped" => step[s] = "record"

TypeInv == PushTypeOK /\ SkippedTasksRecord

(* The part of the type invariant that is about tasks. *)
TaskTypes ==
    /\ step \in [Slots -> Steps]
    /\ job \in [Slots -> Jobs \cup {None}]
    /\ known \in [Slots -> 0..MaxAttempts]
    /\ claim \in [Slots -> Nat]
    /\ target \in [Slots -> Tokens \cup {None}]
    /\ verdict \in [Slots -> {"none", "skipped", "accepted", "retryable", "permanent"}]
    /\ age \in [Slots -> 0..(TaskTimeout + 1)]
    /\ \A s \in Slots : step[s] # "idle" => job[s] \in Jobs
    /\ \A s \in Slots : step[s] \notin {"idle", "device"} /\ verdict[s] # "skipped" => target[s] \in Tokens
    /\ SkippedTasksRecord

(* Whether a task ends or takes another turn, the tasks stay well typed. *)
LEMMA ProceedTypes ==
    ASSUME TypeInv, NEW s \in Slots, step[s] = "record", Proceed(s)
    PROVE  TaskTypes'
<1> USE DEF TypeInv, PushTypeOK, SkippedTasksRecord, TaskTypes, Steps
<1>1. CASE WillRetry(s)
  <2>1. /\ step' = [step EXCEPT ![s] = "device"]
        /\ target' = [target EXCEPT ![s] = None]
        /\ verdict' = [verdict EXCEPT ![s] = "none"]
        /\ UNCHANGED <<job, known, claim, age>>
    BY <1>1 DEF Proceed, Goto, Conclude
  <2> QED
    BY <2>1
<1>2. CASE ~WillRetry(s)
  <2>1. EndTasks({s})
    BY <1>2 DEF Proceed
  <2> QED
    BY <2>1 DEF EndTasks
<1> QED
  BY <1>1, <1>2

(* What a task does keeps rows, tasks and tokens well typed. *)
LEMMA TaskTypeStep ==
    ASSUME TypeInv, NEW s \in Slots, TaskStep(s)
    PROVE  TypeInv'
<1> USE DEF TypeInv, PushTypeOK, SkippedTasksRecord, TaskTypes, Jobs, Steps, Settled, rowVars, Goto,
            Conclude
<1>0. ASSUME step[s] # "idle" PROVE job[s] \in Jobs /\ job[s][2] \in Devices
  <2>1. job[s] \in Requests \X Devices
    BY <1>0
  <2> QED
    BY <2>1
<1>1. CASE ReadDevice(s)
  <2>1. CASE token[job[s][2]] \in Tokens
    <3>1. /\ step[s] = "device"
          /\ step' = [step EXCEPT ![s] = "request"]
          /\ target' = [target EXCEPT ![s] = token[job[s][2]]]
          /\ UNCHANGED <<status, attempts, generation, lease, token, wanted, job, known, claim,
                         verdict, age, faults, sends, rejected>>
      BY <1>1, <2>1 DEF ReadDevice
    <3> QED
      BY <1>0, <2>1, <3>1
  <2>2. CASE token[job[s][2]] \notin Tokens
    <3>1. /\ step[s] = "device"
          /\ step' = [step EXCEPT ![s] = "record"]
          /\ verdict' = [verdict EXCEPT ![s] = "skipped"]
          /\ UNCHANGED <<status, attempts, generation, lease, token, wanted, job, known, claim,
                         target, age, faults, sends, rejected>>
      BY <1>1, <2>2 DEF ReadDevice
    <3> QED
      BY <1>0, <3>1
  <2> QED
    BY <2>1, <2>2
<1>2. CASE ReadRequest(s)
  <2>1. CASE wanted[job[s]]
    BY <1>0, <1>2, <2>1 DEF ReadRequest
  <2>2. CASE ~wanted[job[s]]
    <3>1. /\ step[s] = "request"
          /\ step' = [step EXCEPT ![s] = "record"]
          /\ verdict' = [verdict EXCEPT ![s] = "skipped"]
          /\ UNCHANGED <<status, attempts, generation, lease, token, wanted, job, known, claim,
                         target, age, faults, sends, rejected>>
      BY <1>2, <2>2 DEF ReadRequest
    <3> QED
      BY <1>0, <3>1
  <2> QED
    BY <2>1, <2>2
<1>3. CASE BeginAttempt(s)
  BY <1>0, <1>3 DEF BeginAttempt, Owns
<1>4. CASE RefuseAttempt(s)
  BY <1>4 DEF RefuseAttempt, EndTasks
<1>5. CASE SendPush(s)
  BY <1>0, <1>5 DEF SendPush
<1>6. ASSUME NEW v \in {"accepted", "retryable", "permanent"}, NEW invalid \in BOOLEAN,
             PushAnswered(s, v, invalid)
      PROVE  TypeInv'
  BY <1>0, <1>6 DEF PushAnswered
<1>7. CASE ClearInvalidToken(s)
  BY <1>0, <1>7 DEF ClearInvalidToken
<1>8. CASE RecordProgress(s)
  <2>1. job[s] \in Jobs /\ StatusRecorded(s) \in {"sending"} \cup Settled
    BY <1>0, <1>8 DEF RecordProgress, StatusRecorded
  <2>2. status' \in [Jobs -> {"absent", "queued", "sending", "gone"} \cup Settled]
    BY <1>8, <2>1 DEF RecordProgress
  <2> QED
    BY <1>8, <2>2, ProceedTypes DEF RecordProgress
<1> HIDE DEF TypeInv, PushTypeOK, SkippedTasksRecord, TaskTypes, Jobs, Steps, Settled, rowVars, Goto,
             Conclude
<1> QED
  BY <1>1, <1>2, <1>3, <1>4, <1>5, <1>6, <1>7, <1>8 DEF TaskStep

(* Every step of the system keeps rows, tasks and tokens well typed. *)
LEMMA PushTypeStep ==
    TypeInv /\ [PushNext]_vars => TypeInv'
<1> SUFFICES ASSUME TypeInv, [PushNext]_vars PROVE TypeInv'
  OBVIOUS
<1> USE DEF TypeInv, PushTypeOK, SkippedTasksRecord, TaskTypes, Jobs, Steps, Settled, rowVars,
            taskVars
<1>1. ASSUME NEW r \in Requests, QueuePushes(r) PROVE TypeInv'
  BY <1>1 DEF QueuePushes
<1>2. ASSUME NEW r \in Requests, RemoveRequest(r) PROVE TypeInv'
  BY <1>2 DEF RemoveRequest
<1>3. ASSUME NEW j \in Jobs, ChangeWanted(j) PROVE TypeInv'
  BY <1>3 DEF ChangeWanted
<1>4. ASSUME NEW d \in Devices, RevokeDevice(d) PROVE TypeInv'
  BY <1>4 DEF RevokeDevice
<1>5. ASSUME NEW d \in Devices, NEW t \in Tokens, RegisterToken(d, t) PROVE TypeInv'
  BY <1>5 DEF RegisterToken
<1>6. CASE PassTime
  BY <1>6 DEF PassTime, Overran, Fault
<1>7. CASE RecoverPushes
  BY <1>7 DEF RecoverPushes
<1>8. ASSUME NEW s \in Slots, NEW j \in Jobs, ClaimPushes(s, j) PROVE TypeInv'
  BY <1>8 DEF ClaimPushes, GenerationBumped
<1>9. ASSUME NEW s \in Slots, StopTask(s) PROVE TypeInv'
  BY <1>9 DEF StopTask, EndTasks, Fault
<1>10. ASSUME NEW s \in Slots, LoseWrite(s) PROVE TypeInv'
  <2>1. CASE step[s] = "clear"
    <3>1. /\ step' = [step EXCEPT ![s] = "record"]
          /\ UNCHANGED <<job, known, claim, target, verdict, age>>
      BY <1>10, <2>1 DEF LoseWrite, Goto
    <3> QED
      BY <1>10, <2>1, <3>1 DEF LoseWrite, Fault
  <2>2. CASE step[s] = "record"
    <3>1. Proceed(s)
      BY <1>10, <2>2 DEF LoseWrite
    <3> QED
      BY <1>10, <2>2, <3>1, ProceedTypes DEF LoseWrite, Fault
  <2> QED
    BY <1>10, <2>1, <2>2 DEF LoseWrite
<1>11. ASSUME NEW s \in Slots, DropTask(s) PROVE TypeInv'
  BY <1>11 DEF DropTask, EndTasks, Fault
<1>12. CASE Crash
  BY <1>12 DEF Crash, EndTasks, Fault
<1>13. CASE UNCHANGED vars
  BY <1>13 DEF vars
<1> HIDE DEF TypeInv, PushTypeOK, SkippedTasksRecord, TaskTypes, Jobs, Steps, Settled, rowVars,
            taskVars
<1> QED
  BY <1>1, <1>2, <1>3, <1>4, <1>5, <1>6, <1>7, <1>8, <1>9, <1>10, <1>11, <1>12, <1>13, TaskTypeStep
  DEF PushNext, Environment

(* The state of the push worker is always well typed: in particular a row    *)
(* stores at most MAX_ATTEMPTS attempts, and a task that sends has a token.  *)
THEOREM PushTypeCorrect == PushSpec => []PushTypeOK
<1>1. PushInit => TypeInv
  BY DEF PushInit, TypeInv, PushTypeOK, SkippedTasksRecord, Steps
<1>2. TypeInv => PushTypeOK
  BY DEF TypeInv
<1> QED
  BY <1>1, <1>2, PushTypeStep, PTL DEF PushSpec

-----------------------------------------------------------------------------
(* Ownership.  A claim generation is handed out once per row, so tasks that  *)
(* work on one row, stale ones included, carry different generations, none   *)
(* of them newer than the row's.                                             *)
ClaimsDiffer ==
    /\ \A s \in Slots : Busy(s) => claim[s] <= generation[job[s]]
    /\ \A s, t \in Slots : Busy(s) /\ Busy(t) /\ s # t /\ job[s] = job[t] => claim[s] # claim[t]

(* Steps that leave generations and claims alone and start no task. *)
LEMMA ClaimsKept ==
    ASSUME ClaimsDiffer, UNCHANGED generation,
           \A s \in Slots : Busy(s)' => Busy(s) /\ job'[s] = job[s] /\ claim'[s] = claim[s]
    PROVE  ClaimsDiffer'
BY DEF ClaimsDiffer

(* Steps of one task other than its claim. *)
LEMMA TaskKeepsClaims ==
    ASSUME TypeInv, ClaimsDiffer, NEW s \in Slots, TaskStep(s) \/ StopTask(s) \/ LoseWrite(s) \/ DropTask(s)
    PROVE  ClaimsDiffer'
<1> USE DEF TypeInv, PushTypeOK, Busy, rowVars, Goto, Conclude
<1>1. CASE ReadDevice(s)
  <2>1. step' = [step EXCEPT ![s] = "request"] \/ step' = [step EXCEPT ![s] = "record"]
    BY <1>1 DEF ReadDevice
  <2> QED
    BY <1>1, <2>1, ClaimsKept DEF ReadDevice
<1>2. CASE ReadRequest(s)
  <2>1. step' = [step EXCEPT ![s] = "begin"] \/ step' = [step EXCEPT ![s] = "record"]
    BY <1>2 DEF ReadRequest
  <2> QED
    BY <1>2, <2>1, ClaimsKept DEF ReadRequest
<1>3. CASE BeginAttempt(s)
  BY <1>3, ClaimsKept DEF BeginAttempt
<1>4. CASE EndTasks({s}) /\ UNCHANGED rowVars
  BY <1>4, ClaimsKept DEF EndTasks
<1>5. CASE SendPush(s)
  BY <1>5, ClaimsKept DEF SendPush
<1>6. ASSUME NEW v \in {"accepted", "retryable", "permanent"}, NEW invalid \in BOOLEAN,
             PushAnswered(s, v, invalid)
      PROVE  ClaimsDiffer'
  BY <1>6, ClaimsKept DEF PushAnswered
<1>7. CASE ClearInvalidToken(s)
  BY <1>7, ClaimsKept DEF ClearInvalidToken
<1>8. ASSUME step[s] = "record", Proceed(s), UNCHANGED generation PROVE ClaimsDiffer'
  <2>1. CASE WillRetry(s)
    <3>1. step' = [step EXCEPT ![s] = "device"] /\ UNCHANGED <<job, claim>>
      BY <1>8, <2>1 DEF Proceed
    <3> QED
      BY <1>8, <3>1, ClaimsKept
  <2>2. CASE ~WillRetry(s)
    <3>1. EndTasks({s})
      BY <1>8, <2>2 DEF Proceed
    <3> QED
      BY <1>8, <3>1, ClaimsKept DEF EndTasks
  <2> QED
    BY <2>1, <2>2
<1>9. CASE LoseWrite(s)
  <2>1. CASE step[s] = "clear"
    <3>1. step' = [step EXCEPT ![s] = "record"] /\ UNCHANGED <<job, claim, generation>>
      BY <1>9, <2>1 DEF LoseWrite
    <3> QED
      BY <2>1, <3>1, ClaimsKept
  <2>2. CASE step[s] = "record"
    BY <1>8, <1>9, <2>2 DEF LoseWrite
  <2> QED
    BY <1>9, <2>1, <2>2 DEF LoseWrite
<1> QED
  BY <1>1, <1>2, <1>3, <1>4, <1>5, <1>6, <1>7, <1>8, <1>9
  DEF TaskStep, RefuseAttempt, RecordProgress, StopTask, DropTask

(* Every step keeps claims apart. *)
LEMMA ClaimsStep ==
    TypeInv /\ ClaimsDiffer /\ [PushNext]_vars => ClaimsDiffer'
<1> SUFFICES ASSUME TypeInv, ClaimsDiffer, [PushNext]_vars PROVE ClaimsDiffer'
  OBVIOUS
<1>1. CASE UNCHANGED <<generation, step, job, claim>>
  BY <1>1, ClaimsKept DEF Busy
<1>2. ASSUME NEW s \in Slots, NEW j \in Jobs, ClaimPushes(s, j) PROVE ClaimsDiffer'
  <2>1. \A t \in Slots : Busy(t)' /\ t # s => Busy(t) /\ job'[t] = job[t] /\ claim'[t] = claim[t]
    BY <1>2 DEF ClaimPushes, Busy, TypeInv, PushTypeOK
  <2>2. job'[s] = j /\ claim'[s] = generation[j] + 1 /\ generation'[j] = generation[j] + 1
    BY <1>2 DEF ClaimPushes, GenerationBumped, TypeInv, PushTypeOK
  <2>3. \A k \in Jobs : k # j => generation'[k] = generation[k]
    BY <1>2 DEF ClaimPushes, TypeInv, PushTypeOK
  <2>4. \A t \in Slots : Busy(t) => job[t] \in Jobs /\ claim[t] \in Nat
    BY DEF Busy, TypeInv, PushTypeOK
  <2>5. generation \in [Jobs -> Nat]
    BY DEF TypeInv, PushTypeOK
  <2> QED
    BY <2>1, <2>2, <2>3, <2>4, <2>5 DEF ClaimsDiffer
<1>3. CASE Crash
  BY <1>3, ClaimsKept DEF Crash, EndTasks, Busy, rowVars
<1> QED
  BY <1>1, <1>2, <1>3, TaskKeepsClaims
  DEF PushNext, Environment, QueuePushes, RemoveRequest, ChangeWanted, RevokeDevice, RegisterToken,
      PassTime, RecoverPushes, vars, taskVars, rowVars

(* However many stale tasks of lapsed claims are running, at most one task   *)
(* passes the fence of a row.                                                *)
THEOREM RowsHaveOneOwner == PushSpec => []OneOwnerPerRow
<1> DEFINE Inv == TypeInv /\ ClaimsDiffer
<1>1. PushInit => Inv
  BY DEF PushInit, TypeInv, PushTypeOK, SkippedTasksRecord, Steps, ClaimsDiffer, Busy
<1>2. Inv /\ [PushNext]_vars => Inv'
  BY PushTypeStep, ClaimsStep
<1>3. Inv => OneOwnerPerRow
  BY DEF ClaimsDiffer, OneOwnerPerRow, Owns
<1> QED
  BY <1>1, <1>2, <1>3, PTL DEF PushSpec

-----------------------------------------------------------------------------
(* Sends.  A task that has stored its attempt and not yet sent holds a       *)
(* licence; a row's sends and the licences out for it never exceed the       *)
(* attempts stored.                                                          *)
Licensed(j) == {s \in Slots : step[s] = "send" /\ job[s] = j}

SendsCovered == \A j \in Jobs : sends[j] + Cardinality(Licensed(j)) <= attempts[j]

(* The tasks are finitely many, so their licences can be counted. *)
LEMMA LicencesFinite ==
    ASSUME NEW j
    PROVE  IsFiniteSet(Licensed(j)) /\ Cardinality(Licensed(j)) \in Nat
<1>1. Licensed(j) \in SUBSET Slots
  BY DEF Licensed
<1>2. IsFiniteSet(Licensed(j))
  BY <1>1, FS_Subset
<1> QED
  BY <1>2, FS_CardinalityType

(* Steps that store no attempt, send nothing and hand out no licence. *)
LEMMA LicencesKept ==
    ASSUME TypeInv, SendsCovered, UNCHANGED <<sends, attempts>>,
           \A t \in Slots : step'[t] = "send" => step[t] = "send" /\ job'[t] = job[t]
    PROVE  SendsCovered'
<1> SUFFICES ASSUME NEW j \in Jobs PROVE sends'[j] + Cardinality(Licensed(j)') <= attempts'[j]
  BY DEF SendsCovered
<1>1. Licensed(j)' \in SUBSET Licensed(j)
  BY DEF Licensed
<1>2. Cardinality(Licensed(j)') <= Cardinality(Licensed(j)) /\ Cardinality(Licensed(j)') \in Nat
  BY <1>1, LicencesFinite, FS_Subset, FS_CardinalityType
<1>3. sends[j] \in Nat /\ attempts[j] \in Nat /\ sends[j] + Cardinality(Licensed(j)) <= attempts[j]
  BY DEF SendsCovered, TypeInv, PushTypeOK
<1> QED
  BY <1>2, <1>3, LicencesFinite

(* begin_attempt: the licence it hands out is paid for by the attempt it     *)
(* stores.                                                                   *)
LEMMA BeginAttemptCovered ==
    ASSUME TypeInv, SendsCovered, NEW s \in Slots, BeginAttempt(s)
    PROVE  SendsCovered'
<1> SUFFICES ASSUME NEW j \in Jobs PROVE sends'[j] + Cardinality(Licensed(j)') <= attempts'[j]
  BY DEF SendsCovered
<1>1. sends[j] \in Nat /\ attempts[j] \in Nat /\ sends[j] + Cardinality(Licensed(j)) <= attempts[j]
  BY DEF SendsCovered, TypeInv, PushTypeOK
<1>2. sends' = sends /\ step[s] = "begin" /\ job[s] \in Jobs /\ job' = job
  BY DEF TypeInv, PushTypeOK, BeginAttempt
<1>3. step' = [step EXCEPT ![s] = "send"] /\ step \in [Slots -> Steps]
  BY DEF TypeInv, PushTypeOK, Goto, BeginAttempt
<1>4. CASE job[s] = j
  <2>1. Licensed(j)' = Licensed(j) \cup {s}
    BY <1>2, <1>3, <1>4 DEF Licensed
  <2>2. s \notin Licensed(j)
    BY <1>2 DEF Licensed
  <2>3. Cardinality(Licensed(j)') = Cardinality(Licensed(j)) + 1
    BY <2>1, <2>2, LicencesFinite, FS_AddElement
  <2>4. attempts'[j] = attempts[j] + 1
    BY <1>2, <1>4 DEF TypeInv, PushTypeOK, BeginAttempt
  <2> QED
    BY <1>1, <1>2, <2>3, <2>4, LicencesFinite
<1>5. CASE job[s] # j
  <2>1. Licensed(j)' = Licensed(j)
    BY <1>2, <1>3, <1>5 DEF Licensed
  <2>2. attempts'[j] = attempts[j]
    BY <1>2, <1>5 DEF TypeInv, PushTypeOK, BeginAttempt
  <2> QED
    BY <1>1, <1>2, <2>1, <2>2
<1> QED
  BY <1>4, <1>5

(* A send uses up the sender's licence. *)
LEMMA SendPushCovered ==
    ASSUME TypeInv, SendsCovered, NEW s \in Slots, SendPush(s)
    PROVE  SendsCovered'
<1> SUFFICES ASSUME NEW j \in Jobs PROVE sends'[j] + Cardinality(Licensed(j)') <= attempts'[j]
  BY DEF SendsCovered
<1>1. sends[j] \in Nat /\ attempts[j] \in Nat /\ sends[j] + Cardinality(Licensed(j)) <= attempts[j]
  BY DEF SendsCovered, TypeInv, PushTypeOK
<1>2. attempts' = attempts /\ step[s] = "send" /\ job[s] \in Jobs /\ job' = job
  BY DEF TypeInv, PushTypeOK, SendPush, rowVars
<1>3. step' = [step EXCEPT ![s] = "waiting"] /\ step \in [Slots -> Steps]
  BY DEF TypeInv, PushTypeOK, Goto, SendPush
<1>4. CASE job[s] = j
  <2>1. Licensed(j)' = Licensed(j) \ {s}
    BY <1>2, <1>3, <1>4 DEF Licensed
  <2>2. s \in Licensed(j)
    BY <1>2, <1>4 DEF Licensed
  <2>3. Cardinality(Licensed(j)') = Cardinality(Licensed(j)) - 1
    BY <2>1, <2>2, LicencesFinite, FS_RemoveElement
  <2>4. sends'[j] = sends[j] + 1
    BY <1>2, <1>4 DEF TypeInv, PushTypeOK, SendPush
  <2> QED
    BY <1>1, <1>2, <2>3, <2>4, LicencesFinite
<1>5. CASE job[s] # j
  <2>1. Licensed(j)' = Licensed(j)
    BY <1>2, <1>3, <1>5 DEF Licensed
  <2>2. sends'[j] = sends[j]
    BY <1>2, <1>5 DEF TypeInv, PushTypeOK, SendPush
  <2> QED
    BY <1>1, <1>2, <2>1, <2>2
<1> QED
  BY <1>4, <1>5

(* Steps of a task that neither store an attempt nor send. *)
LEMMA TaskKeepsLicences ==
    ASSUME TypeInv, SendsCovered, NEW s \in Slots,
           TaskStep(s) \/ StopTask(s) \/ LoseWrite(s) \/ DropTask(s),
           ~BeginAttempt(s), ~SendPush(s)
    PROVE  SendsCovered'
<1> USE DEF TypeInv, PushTypeOK, rowVars, Goto, Conclude
<1>1. CASE ReadDevice(s)
  <2>1. step' = [step EXCEPT ![s] = "request"] \/ step' = [step EXCEPT ![s] = "record"]
    BY <1>1 DEF ReadDevice
  <2> QED
    BY <1>1, <2>1, LicencesKept DEF ReadDevice
<1>2. CASE ReadRequest(s)
  <2>1. step' = [step EXCEPT ![s] = "begin"] \/ step' = [step EXCEPT ![s] = "record"]
    BY <1>2 DEF ReadRequest
  <2> QED
    BY <1>2, <2>1, LicencesKept DEF ReadRequest
<1>3. CASE EndTasks({s}) /\ UNCHANGED <<rowVars, sends>>
  BY <1>3, LicencesKept DEF EndTasks
<1>4. ASSUME NEW v \in {"accepted", "retryable", "permanent"}, NEW invalid \in BOOLEAN,
             PushAnswered(s, v, invalid)
      PROVE  SendsCovered'
  BY <1>4, LicencesKept DEF PushAnswered
<1>5. CASE ClearInvalidToken(s)
  BY <1>5, LicencesKept DEF ClearInvalidToken
<1>6. ASSUME step[s] = "record", Proceed(s), UNCHANGED <<attempts, sends>> PROVE SendsCovered'
  <2>1. CASE WillRetry(s)
    <3>1. step' = [step EXCEPT ![s] = "device"] /\ UNCHANGED job
      BY <1>6, <2>1 DEF Proceed
    <3> QED
      BY <1>6, <3>1, LicencesKept
  <2>2. CASE ~WillRetry(s)
    <3>1. EndTasks({s})
      BY <1>6, <2>2 DEF Proceed
    <3> QED
      BY <1>6, <3>1, LicencesKept DEF EndTasks
  <2> QED
    BY <2>1, <2>2
<1>7. CASE LoseWrite(s)
  <2>1. CASE step[s] = "clear"
    <3>1. step' = [step EXCEPT ![s] = "record"] /\ UNCHANGED <<job, attempts, sends>>
      BY <1>7, <2>1 DEF LoseWrite
    <3> QED
      BY <2>1, <3>1, LicencesKept
  <2>2. CASE step[s] = "record"
    BY <1>6, <1>7, <2>2 DEF LoseWrite
  <2> QED
    BY <1>7, <2>1, <2>2 DEF LoseWrite
<1> QED
  BY <1>1, <1>2, <1>3, <1>4, <1>5, <1>6, <1>7
  DEF TaskStep, RefuseAttempt, RecordProgress, StopTask, DropTask

(* Every step keeps the sends of a row covered by its stored attempts. *)
LEMMA SendsStep ==
    TypeInv /\ SendsCovered /\ [PushNext]_vars => SendsCovered'
<1> SUFFICES ASSUME TypeInv, SendsCovered, [PushNext]_vars PROVE SendsCovered'
  OBVIOUS
<1>1. CASE UNCHANGED <<attempts, sends, step, job>>
  BY <1>1, LicencesKept
<1>2. ASSUME NEW s \in Slots, NEW j \in Jobs, ClaimPushes(s, j) PROVE SendsCovered'
  BY <1>2, LicencesKept DEF ClaimPushes, TypeInv, PushTypeOK
<1>3. CASE Crash
  BY <1>3, LicencesKept DEF Crash, EndTasks, rowVars
<1> QED
  BY <1>1, <1>2, <1>3, TaskKeepsLicences, BeginAttemptCovered, SendPushCovered
  DEF PushNext, Environment, QueuePushes, RemoveRequest, ChangeWanted, RevokeDevice, RegisterToken,
      PassTime, RecoverPushes, vars, taskVars, rowVars

(* A push is sent at most MAX_ATTEMPTS times, for every number of crashes,   *)
(* lapsed leases and concurrent tasks.                                       *)
THEOREM PushesAreBounded == PushSpec => []SendsWithinAttempts
<1> DEFINE Inv == TypeInv /\ SendsCovered
<1>1. PushInit => Inv
  <2> SUFFICES ASSUME PushInit PROVE Inv
    OBVIOUS
  <2>1. TypeInv
    BY DEF PushInit, TypeInv, PushTypeOK, SkippedTasksRecord, Steps
  <2>2. ASSUME NEW j \in Jobs PROVE sends[j] + Cardinality(Licensed(j)) <= attempts[j]
    <3>1. Licensed(j) = {}
      BY DEF PushInit, Licensed
    <3> QED
      BY <3>1, FS_EmptySet DEF PushInit
  <2> QED
    BY <2>1, <2>2 DEF SendsCovered
<1>2. Inv /\ [PushNext]_vars => Inv'
  BY PushTypeStep, SendsStep
<1>3. Inv => SendsWithinAttempts
  <2> SUFFICES ASSUME Inv, NEW j \in Jobs PROVE sends[j] <= attempts[j] /\ attempts[j] <= MaxAttempts
    BY DEF SendsWithinAttempts
  <2>1. sends[j] \in Nat /\ attempts[j] \in 0..MaxAttempts
    BY DEF TypeInv, PushTypeOK
  <2> QED
    BY <2>1, LicencesFinite DEF SendsCovered
<1> QED
  BY <1>1, <1>2, <1>3, PTL DEF PushSpec

-----------------------------------------------------------------------------
(* Overlap.  A task within its time that holds the row's newest claim has    *)
(* used no more of the lease than its own age, so its row is not reclaimed;  *)
(* a task with an older claim has therefore overrun its time.                *)
LeaseCoversTask ==
    \A s \in Slots : Busy(s) =>
        /\ status[job[s]] # "absent"
        /\ claim[s] # generation[job[s]] => Overran(s)
        /\ claim[s] = generation[job[s]] /\ ~Overran(s) =>
             /\ status[job[s]] # "queued"
             /\ status[job[s]] = "sending" => lease[job[s]] + age[s] >= LeaseSeconds

(* Steps that start no task, let no time pass and reset no row. *)
LEMMA LeaseKept ==
    ASSUME TypeInv, LeaseCoversTask, UNCHANGED <<generation, lease>>,
           \A j \in Jobs : \/ status'[j] = status[j]
                           \/ status'[j] \notin {"absent", "queued", "sending"}
                           \/ status[j] = "absent",
           \A s \in Slots : step'[s] # "idle" =>
             /\ step[s] # "idle" /\ job'[s] = job[s] /\ claim'[s] = claim[s] /\ age'[s] = age[s]
    PROVE  LeaseCoversTask'
<1> SUFFICES ASSUME NEW s \in Slots, step'[s] # "idle"
             PROVE  /\ status'[job'[s]] # "absent"
                    /\ claim'[s] # generation'[job'[s]] => age'[s] > TaskTimeout
                    /\ claim'[s] = generation'[job'[s]] /\ ~(age'[s] > TaskTimeout) =>
                         /\ status'[job'[s]] # "queued"
                         /\ status'[job'[s]] = "sending" => lease'[job'[s]] + age'[s] >= LeaseSeconds
  BY DEF LeaseCoversTask, Busy, Overran
<1>1. step[s] # "idle" /\ job'[s] = job[s] /\ claim'[s] = claim[s] /\ age'[s] = age[s] /\ job[s] \in Jobs
  BY DEF TypeInv, PushTypeOK
<1>2. /\ status[job[s]] # "absent"
      /\ claim[s] # generation[job[s]] => age[s] > TaskTimeout
      /\ claim[s] = generation[job[s]] /\ ~(age[s] > TaskTimeout) =>
           /\ status[job[s]] # "queued"
           /\ status[job[s]] = "sending" => lease[job[s]] + age[s] >= LeaseSeconds
  BY <1>1 DEF LeaseCoversTask, Busy, Overran
<1>3. status'[job[s]] = status[job[s]] \/ status'[job[s]] \notin {"absent", "queued", "sending"}
  BY <1>1, <1>2
<1> QED
  BY <1>1, <1>2, <1>3

(* Steps of one task other than its claim. *)
LEMMA TaskKeepsLease ==
    ASSUME TypeInv, LeaseCoversTask, NEW s \in Slots,
           TaskStep(s) \/ StopTask(s) \/ LoseWrite(s) \/ DropTask(s)
    PROVE  LeaseCoversTask'
<1> USE DEF TypeInv, PushTypeOK, rowVars, Goto, Conclude
<1>1. CASE ReadDevice(s)
  <2>1. step' = [step EXCEPT ![s] = "request"] \/ step' = [step EXCEPT ![s] = "record"]
    BY <1>1 DEF ReadDevice
  <2> QED
    BY <1>1, <2>1, LeaseKept DEF ReadDevice
<1>2. CASE ReadRequest(s)
  <2>1. step' = [step EXCEPT ![s] = "begin"] \/ step' = [step EXCEPT ![s] = "record"]
    BY <1>2 DEF ReadRequest
  <2> QED
    BY <1>2, <2>1, LeaseKept DEF ReadRequest
<1>3. CASE BeginAttempt(s)
  BY <1>3, LeaseKept DEF BeginAttempt
<1>4. CASE EndTasks({s}) /\ UNCHANGED rowVars
  BY <1>4, LeaseKept DEF EndTasks
<1>5. CASE SendPush(s)
  BY <1>5, LeaseKept DEF SendPush
<1>6. ASSUME NEW v \in {"accepted", "retryable", "permanent"}, NEW invalid \in BOOLEAN,
             PushAnswered(s, v, invalid)
      PROVE  LeaseCoversTask'
  BY <1>6, LeaseKept DEF PushAnswered
<1>7. CASE ClearInvalidToken(s)
  BY <1>7, LeaseKept DEF ClearInvalidToken
<1>8. ASSUME step[s] = "record", Proceed(s), UNCHANGED <<generation, lease>>,
             \A j \in Jobs : status'[j] = status[j] \/ status'[j] \notin {"absent", "queued", "sending"}
      PROVE  LeaseCoversTask'
  <2>1. CASE WillRetry(s)
    <3>1. step' = [step EXCEPT ![s] = "device"] /\ UNCHANGED <<job, claim, age>>
      BY <1>8, <2>1 DEF Proceed
    <3> QED
      BY <1>8, <3>1, LeaseKept
  <2>2. CASE ~WillRetry(s)
    <3>1. EndTasks({s})
      BY <1>8, <2>2 DEF Proceed
    <3> QED
      BY <1>8, <3>1, LeaseKept DEF EndTasks
  <2> QED
    BY <2>1, <2>2
<1>9. CASE RecordProgress(s)
  <2>1. step[s] = "record" /\ Proceed(s) /\ UNCHANGED <<generation, lease>>
    BY <1>9 DEF RecordProgress
  <2>2. StatusRecorded(s) \in {"accepted", "skipped", "sending", "failed"}
    BY DEF StatusRecorded
  <2>3. \A j \in Jobs : status'[j] = status[j] \/ status'[j] \notin {"absent", "queued", "sending"}
    <3>1. CASE Owns(s)
      <4>1. status' = [status EXCEPT ![job[s]] = StatusRecorded(s)] /\ status[job[s]] = "sending"
        BY <1>9, <3>1 DEF RecordProgress, Owns
      <4> QED
        BY <2>2, <4>1
    <3>2. CASE ~Owns(s)
      BY <1>9, <3>2 DEF RecordProgress
    <3> QED
      BY <3>1, <3>2
  <2> QED
    BY <1>8, <2>1, <2>3
<1>10. CASE LoseWrite(s)
  <2>1. CASE step[s] = "clear"
    <3>1. step' = [step EXCEPT ![s] = "record"] /\ UNCHANGED <<job, claim, age, generation, lease, status>>
      BY <1>10, <2>1 DEF LoseWrite
    <3> QED
      BY <2>1, <3>1, LeaseKept
  <2>2. CASE step[s] = "record"
    BY <1>8, <1>10, <2>2 DEF LoseWrite
  <2> QED
    BY <1>10, <2>1, <2>2 DEF LoseWrite
<1> QED
  BY <1>1, <1>2, <1>3, <1>4, <1>5, <1>6, <1>7, <1>9, <1>10
  DEF TaskStep, RefuseAttempt, StopTask, DropTask

(* Every step leaves a task within its time the lease of its claim. *)
LEMMA LeaseStep ==
    TypeInv /\ LeaseCoversTask /\ [PushNext]_vars => LeaseCoversTask'
<1> SUFFICES ASSUME TypeInv, LeaseCoversTask, [PushNext]_vars PROVE LeaseCoversTask'
  OBVIOUS
<1>b. ASSUME NEW s \in Slots, step[s] # "idle"
      PROVE  /\ job[s] \in Jobs /\ lease[job[s]] \in Nat /\ age[s] \in Nat /\ claim[s] \in Nat
             /\ generation[job[s]] \in Nat
             /\ status[job[s]] # "absent"
             /\ claim[s] # generation[job[s]] => age[s] > TaskTimeout
             /\ claim[s] = generation[job[s]] /\ ~(age[s] > TaskTimeout) =>
                  /\ status[job[s]] # "queued"
                  /\ status[job[s]] = "sending" => lease[job[s]] + age[s] >= LeaseSeconds
  <2>1. job[s] \in Jobs /\ age[s] \in 0..(TaskTimeout + 1) /\ claim[s] \in Nat
    BY <1>b DEF TypeInv, PushTypeOK
  <2>2. lease[job[s]] \in 0..LeaseSeconds /\ generation[job[s]] \in Nat
    BY <2>1 DEF TypeInv, PushTypeOK
  <2> QED
    BY <1>b, <2>1, <2>2 DEF LeaseCoversTask, Busy, Overran
<1>g. ASSUME \A s \in Slots : step'[s] # "idle" =>
               /\ status'[job'[s]] # "absent"
               /\ claim'[s] # generation'[job'[s]] => age'[s] > TaskTimeout
               /\ claim'[s] = generation'[job'[s]] /\ ~(age'[s] > TaskTimeout) =>
                    /\ status'[job'[s]] # "queued"
                    /\ status'[job'[s]] = "sending" => lease'[job'[s]] + age'[s] >= LeaseSeconds
      PROVE  LeaseCoversTask'
  BY <1>g DEF LeaseCoversTask, Busy, Overran
<1>1. ASSUME UNCHANGED <<status, generation, lease, step, job, claim, age>> PROVE LeaseCoversTask'
  BY <1>1, LeaseKept
<1>2. ASSUME NEW r \in Requests, QueuePushes(r) \/ RemoveRequest(r) PROVE LeaseCoversTask'
  <2>1. UNCHANGED <<generation, lease, step, job, claim, age>>
    BY <1>2 DEF QueuePushes, RemoveRequest, taskVars
  <2>2. \A j \in Jobs : \/ status'[j] = status[j]
                        \/ status'[j] \notin {"absent", "queued", "sending"}
                        \/ status[j] = "absent"
    BY <1>2 DEF QueuePushes, RemoveRequest
  <2> QED
    BY <2>1, <2>2, LeaseKept
<1>3. CASE PassTime
  <2>1. /\ UNCHANGED <<status, generation, step, job, claim>>
        /\ \A j \in Jobs : lease'[j] = IF lease[j] > 0 THEN lease[j] - 1 ELSE 0
        /\ \A s \in Slots : age'[s] = IF step[s] # "idle" /\ ~(age[s] > TaskTimeout) THEN age[s] + 1 ELSE age[s]
    BY <1>3 DEF PassTime, Busy, Overran
  <2>2. ASSUME NEW s \in Slots, step'[s] # "idle"
        PROVE  /\ status'[job'[s]] # "absent"
               /\ claim'[s] # generation'[job'[s]] => age'[s] > TaskTimeout
               /\ claim'[s] = generation'[job'[s]] /\ ~(age'[s] > TaskTimeout) =>
                    /\ status'[job'[s]] # "queued"
                    /\ status'[job'[s]] = "sending" => lease'[job'[s]] + age'[s] >= LeaseSeconds
    <3>1. step[s] # "idle" /\ job'[s] = job[s] /\ job[s] \in Jobs
      BY <1>b, <2>1, <2>2
    <3>2. /\ lease'[job[s]] = IF lease[job[s]] > 0 THEN lease[job[s]] - 1 ELSE 0
          /\ age'[s] = IF ~(age[s] > TaskTimeout) THEN age[s] + 1 ELSE age[s]
      BY <2>1, <3>1
    <3> QED
      BY <1>b, <2>1, <3>1, <3>2
  <2> QED
    BY <1>g, <2>2
<1>4. CASE RecoverPushes
  <2>1. /\ UNCHANGED <<generation, step, job, claim, age>>
        /\ \A j \in Jobs : ~Lapsed(j) => status'[j] = status[j] /\ lease'[j] = lease[j]
        /\ \A j \in Jobs : Lapsed(j) => status'[j] \in {"failed", "queued"}
    BY <1>4 DEF RecoverPushes, taskVars
  <2>2. ASSUME NEW s \in Slots, step[s] # "idle", claim[s] = generation[job[s]], ~(age[s] > TaskTimeout)
        PROVE  ~Lapsed(job[s])
    BY <1>b, <2>2, TimeoutWithinLease DEF Lapsed
  <2> QED
    BY <1>b, <1>g, <2>1, <2>2
<1>5. ASSUME NEW s \in Slots, NEW j \in Jobs, ClaimPushes(s, j) PROVE LeaseCoversTask'
  <2>1. /\ step[s] = "idle" /\ status[j] = "queued"
        /\ job'[s] = j /\ claim'[s] = generation[j] + 1 /\ age'[s] = 0
        /\ generation'[j] = generation[j] + 1 /\ status'[j] = "sending" /\ lease'[j] = LeaseSeconds
        /\ generation[j] \in Nat
    BY <1>5 DEF ClaimPushes, GenerationBumped, TypeInv, PushTypeOK
  <2>2. \A t \in Slots \ {s} :
          step'[t] = step[t] /\ job'[t] = job[t] /\ claim'[t] = claim[t] /\ age'[t] = age[t]
    BY <1>5 DEF ClaimPushes, TypeInv, PushTypeOK
  <2>3. \A k \in Jobs \ {j} : generation'[k] = generation[k] /\ status'[k] = status[k] /\ lease'[k] = lease[k]
    BY <1>5 DEF ClaimPushes, TypeInv, PushTypeOK
  <2>4. ASSUME NEW t \in Slots, step'[t] # "idle"
        PROVE  /\ status'[job'[t]] # "absent"
               /\ claim'[t] # generation'[job'[t]] => age'[t] > TaskTimeout
               /\ claim'[t] = generation'[job'[t]] /\ ~(age'[t] > TaskTimeout) =>
                    /\ status'[job'[t]] # "queued"
                    /\ status'[job'[t]] = "sending" => lease'[job'[t]] + age'[t] >= LeaseSeconds
    <3>1. CASE t = s
      BY <2>1, <3>1
    <3>2. CASE t # s /\ job[t] # j
      BY <1>b, <2>2, <2>3, <2>4, <3>2
    <3>3. CASE t # s /\ job[t] = j
      <4>1. age[t] > TaskTimeout
        BY <1>b, <2>1, <2>2, <2>4, <3>3
      <4> QED
        BY <2>1, <2>2, <2>4, <3>3, <4>1
    <3> QED
      BY <3>1, <3>2, <3>3
  <2> QED
    BY <1>g, <2>4
<1>6. CASE Crash
  BY <1>6, LeaseKept DEF Crash, EndTasks, rowVars
<1> QED
  BY <1>1, <1>2, <1>3, <1>4, <1>5, <1>6, TaskKeepsLease
  DEF PushNext, Environment, ChangeWanted, RevokeDevice, RegisterToken, vars, taskVars, rowVars

(* deliver_bounded: two sends of one push are under way together only while  *)
(* a task runs past TASK_TIMEOUT, for every number of tasks and claims,      *)
(* given TASK_TIMEOUT < LEASE_SECONDS.                                       *)
THEOREM SendsDoNotOverlap == PushSpec => []SendsOverlapOnlyOverrun
<1> DEFINE Inv == TypeInv /\ ClaimsDiffer /\ LeaseCoversTask
<1>1. PushInit => Inv
  BY DEF PushInit, TypeInv, PushTypeOK, SkippedTasksRecord, Steps, ClaimsDiffer, LeaseCoversTask, Busy
<1>2. Inv /\ [PushNext]_vars => Inv'
  BY PushTypeStep, ClaimsStep, LeaseStep
<1>3. Inv => SendsOverlapOnlyOverrun
  BY DEF ClaimsDiffer, LeaseCoversTask, SendsOverlapOnlyOverrun, Busy
<1> QED
  BY <1>1, <1>2, <1>3, PTL DEF PushSpec

-----------------------------------------------------------------------------
(* Tokens.  A task that is about to clear a token carries the token the      *)
(* provider rejected, not the one the device has by then.                    *)
ClearsRejected == \A s \in Slots : step[s] = "clear" => target[s] \in rejected

LEMMA ClearsKept ==
    ASSUME ClearsRejected, rejected \subseteq rejected',
           \A s \in Slots : step'[s] = "clear" => step[s] = "clear" /\ target'[s] = target[s]
    PROVE  ClearsRejected'
BY DEF ClearsRejected

LEMMA ClearsStep ==
    TypeInv /\ ClearsRejected /\ [PushNext]_vars => ClearsRejected'
<1> SUFFICES ASSUME TypeInv, ClearsRejected, [PushNext]_vars PROVE ClearsRejected'
  OBVIOUS
<1> USE DEF TypeInv, PushTypeOK, rowVars, Goto, Conclude
<1>1. CASE UNCHANGED <<step, target, rejected>>
  BY <1>1, ClearsKept
<1>2. ASSUME NEW s \in Slots, NEW j \in Jobs, ClaimPushes(s, j) PROVE ClearsRejected'
  BY <1>2, ClearsKept DEF ClaimPushes
<1>3. ASSUME NEW S \in SUBSET Slots, EndTasks(S), UNCHANGED rejected PROVE ClearsRejected'
  BY <1>3, ClearsKept DEF EndTasks
<1>4. CASE Crash
  BY <1>3, <1>4 DEF Crash
<1>5. ASSUME NEW s \in Slots, step[s] = "record", Proceed(s), UNCHANGED rejected PROVE ClearsRejected'
  <2>1. CASE WillRetry(s)
    <3>1. step' = [step EXCEPT ![s] = "device"] /\ target' = [target EXCEPT ![s] = None]
      BY <1>5, <2>1 DEF Proceed
    <3> QED
      BY <1>5, <3>1, ClearsKept
  <2>2. CASE ~WillRetry(s)
    <3>1. EndTasks({s})
      BY <1>5, <2>2 DEF Proceed
    <3> QED
      BY <1>3, <1>5, <3>1
  <2> QED
    BY <2>1, <2>2
<1>6. ASSUME NEW s \in Slots, ReadDevice(s) PROVE ClearsRejected'
  <2>1. /\ step[s] = "device" /\ UNCHANGED rejected
        /\ step' = [step EXCEPT ![s] = "request"] \/ step' = [step EXCEPT ![s] = "record"]
        /\ UNCHANGED target \/ target' = [target EXCEPT ![s] = token[job[s][2]]]
    BY <1>6 DEF ReadDevice
  <2> QED
    BY <2>1, ClearsKept
<1>7. ASSUME NEW s \in Slots, ReadRequest(s) PROVE ClearsRejected'
  <2>1. /\ UNCHANGED <<rejected, target>>
        /\ step' = [step EXCEPT ![s] = "begin"] \/ step' = [step EXCEPT ![s] = "record"]
    BY <1>7 DEF ReadRequest
  <2> QED
    BY <2>1, ClearsKept
<1>8. ASSUME NEW s \in Slots, BeginAttempt(s) \/ SendPush(s) \/ ClearInvalidToken(s) PROVE ClearsRejected'
  BY <1>8, ClearsKept DEF BeginAttempt, SendPush, ClearInvalidToken
<1>9. ASSUME NEW s \in Slots, NEW v \in {"accepted", "retryable", "permanent"}, NEW invalid \in BOOLEAN,
             PushAnswered(s, v, invalid)
      PROVE  ClearsRejected'
  BY <1>9 DEF PushAnswered, ClearsRejected
<1>10. ASSUME NEW s \in Slots, RefuseAttempt(s) \/ StopTask(s) \/ DropTask(s) PROVE ClearsRejected'
  <2>1. EndTasks({s}) /\ UNCHANGED rejected
    BY <1>10 DEF RefuseAttempt, StopTask, DropTask
  <2> QED
    BY <1>3, <2>1
<1>11. ASSUME NEW s \in Slots, LoseWrite(s) PROVE ClearsRejected'
  <2>1. CASE step[s] = "clear"
    <3>1. step' = [step EXCEPT ![s] = "record"] /\ UNCHANGED <<target, rejected>>
      BY <1>11, <2>1 DEF LoseWrite
    <3> QED
      BY <3>1, ClearsKept
  <2>2. CASE step[s] = "record"
    BY <1>5, <1>11, <2>2 DEF LoseWrite
  <2> QED
    BY <1>11, <2>1, <2>2 DEF LoseWrite
<1>12. ASSUME NEW s \in Slots, RecordProgress(s) PROVE ClearsRejected'
  BY <1>5, <1>12 DEF RecordProgress
<1> HIDE DEF TypeInv, PushTypeOK, rowVars, Goto, Conclude
<1>13. ASSUME NEW s \in Slots, TaskStep(s) PROVE ClearsRejected'
  BY <1>6, <1>7, <1>8, <1>9, <1>10, <1>12, <1>13 DEF TaskStep
<1> QED
  BY <1>1, <1>2, <1>4, <1>10, <1>11, <1>13
  DEF PushNext, Environment, QueuePushes, RemoveRequest, ChangeWanted, RevokeDevice, RegisterToken,
      PassTime, RecoverPushes, vars, taskVars

(* Only clear_invalid_push_token takes a token away, and only the one it was *)
(* asked to clear.                                                           *)
LEMMA TokensCleared ==
    ASSUME TypeInv, [PushNext]_vars, NEW d \in Devices, token[d] \in Tokens, token'[d] = None
    PROVE  \E s \in Slots : step[s] = "clear" /\ target[s] = token[d]
<1>1. CASE UNCHANGED token
  BY <1>1
<1>2. ASSUME NEW e \in Devices, NEW t \in Tokens, RegisterToken(e, t) PROVE FALSE
  BY <1>2 DEF RegisterToken, TypeInv, PushTypeOK
<1>3. ASSUME NEW e \in Devices, RevokeDevice(e) PROVE FALSE
  BY <1>3 DEF RevokeDevice, TypeInv, PushTypeOK
<1>4. ASSUME NEW s \in Slots, ClearInvalidToken(s)
      PROVE  step[s] = "clear" /\ target[s] = token[d]
  <2>1. step[s] = "clear" /\ job[s] \in Jobs
    BY <1>4 DEF ClearInvalidToken, TypeInv, PushTypeOK
  <2>2. token' = [token EXCEPT ![job[s][2]] = None] /\ token[job[s][2]] = target[s]
    BY <1>4 DEF ClearInvalidToken, Clearable
  <2>3. d = job[s][2]
    BY <2>2 DEF TypeInv, PushTypeOK
  <2> QED
    BY <2>1, <2>2, <2>3
<1>5. ASSUME NEW s \in Slots, TaskStep(s) PROVE UNCHANGED token \/ ClearInvalidToken(s)
  BY <1>5 DEF TaskStep, ReadDevice, ReadRequest, BeginAttempt, RefuseAttempt, SendPush, PushAnswered, RecordProgress
<1>6. ASSUME NEW s \in Slots, StopTask(s) \/ LoseWrite(s) \/ DropTask(s) PROVE UNCHANGED token
  BY <1>6 DEF StopTask, LoseWrite, DropTask
<1> QED
  BY <1>1, <1>2, <1>3, <1>4, <1>5, <1>6
  DEF PushNext, Environment, QueuePushes, RemoveRequest, ChangeWanted, PassTime, RecoverPushes,
      ClaimPushes, Crash, vars

(* A token the device registered while a push was under way survives the     *)
(* rejection of the token the push was sent to.                              *)
THEOREM FreshTokensKept == PushSpec => FreshTokensSurvive
<1> DEFINE Inv == TypeInv /\ ClearsRejected
<1>1. PushInit => Inv
  BY DEF PushInit, TypeInv, PushTypeOK, SkippedTasksRecord, Steps, ClearsRejected
<1>2. Inv /\ [PushNext]_vars => Inv'
  BY PushTypeStep, ClearsStep
<1>3. Inv /\ [PushNext]_vars =>
        [\A d \in Devices : token[d] \in Tokens /\ token'[d] = None => token[d] \in rejected]_vars
  BY TokensCleared DEF ClearsRejected
<1> QED
  BY <1>1, <1>2, <1>3, PTL DEF PushSpec, FreshTokensSurvive
=============================================================================
