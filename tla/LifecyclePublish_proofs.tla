------------------------ MODULE LifecyclePublish_proofs ------------------------
(* Proofs about the lifecycle publisher, for every number of processes,       *)
(* events and faults and every lease and backoff.                             *)
EXTENDS LifecyclePublish, TLAPS

USE PublishAssumption

(* The types the argument needs. *)
Shapes ==
    /\ streamSeq \in [Events -> Nat]
    /\ attempts \in [Events -> Nat]
    /\ step \in [Publishers -> {"down", "idle", "claimed", "waiting", "result"}]
    /\ job \in [Publishers -> Claims \cup {NoClaim}]
    /\ answer \in [Publishers -> Nat]
    /\ flight \subseteq Claims
    /\ stream \in Seq(Events)
    /\ acks \subseteq Claims \X Nat
    /\ \A p \in Publishers : step[p] \in {"claimed", "waiting", "result"} => job[p] \in Claims

(* The stream holds event e at position i. *)
Holds(i, e) == i \in 1..Len(stream) /\ stream[i] = e

(* Acknowledgements and what publishers took from them are true of the       *)
(* stream, and stay true: it only grows.                                     *)
AcksAreTrue ==
    /\ \A a \in acks : Holds(a[2], a[1].event)
    /\ \A p \in Publishers : answer[p] > 0 => step[p] = "result" /\ Holds(answer[p], job[p].event)

RowsAreTrue == \A e \in Events : streamSeq[e] > 0 => Holds(streamSeq[e], e)

(* Claims of one event carry different tokens, none newer than the row's.    *)
ClaimsDiffer ==
    /\ \A p \in Publishers : job[p] \in Claims => job[p].attempt <= attempts[job[p].event]
    /\ \A p, q \in Publishers :
        p # q /\ job[p] \in Claims /\ job[q] \in Claims => job[p] # job[q]

PublishInv ==
    /\ Shapes
    /\ AcksAreTrue
    /\ RowsAreTrue
    /\ ClaimsDiffer

(* What a step may do to a published row. *)
FinalStep == \A e \in Events : Published(e) => streamSeq'[e] = streamSeq[e]

-----------------------------------------------------------------------------
(* NoClaim is no claim: sequence numbers start at 1. *)
LEMMA NoClaimIsNone == NoClaim \notin Claims
BY DEF NoClaim, Claims, Events

(* Steps of the surroundings and of the lease clock. *)
LEMMA QuietKeeps ==
    ASSUME PublishInv, UNCHANGED <<streamSeq, attempts, taskVars, flight, stream, acks>>
    PROVE  PublishInv' /\ FinalStep
BY DEF PublishInv, Shapes, Holds, AcksAreTrue, RowsAreTrue, ClaimsDiffer, FinalStep, taskVars

(* A worker connects, disconnects or gives up on an answer. *)
LEMMA MoveKeeps ==
    ASSUME PublishInv, NEW p \in Publishers, NEW where \in {"idle", "down", "result"},
           step' = [step EXCEPT ![p] = where],
           step[p] \in {"down", "idle"} => where \in {"down", "idle"},
           step[p] # "result",
           UNCHANGED <<streamSeq, attempts, job, answer, flight, stream, acks>>
    PROVE  PublishInv' /\ FinalStep
<1> USE DEF PublishInv
<1>1. Shapes'
  BY DEF Shapes
<1>2. AcksAreTrue'
  BY DEF Shapes, AcksAreTrue, Holds
<1>3. RowsAreTrue' /\ ClaimsDiffer' /\ FinalStep
  BY DEF RowsAreTrue, ClaimsDiffer, FinalStep, Holds
<1> QED
  BY <1>1, <1>2, <1>3

(* A worker leaves its claim without touching the rows. *)
LEMMA LeaveKeeps ==
    ASSUME PublishInv, NEW p \in Publishers, NEW where \in {"idle", "down"}, Leave(p, where),
           UNCHANGED <<streamSeq, attempts, flight, stream, acks>>
    PROVE  PublishInv' /\ FinalStep
<1> USE DEF PublishInv, Leave
<1>1. Shapes'
  BY DEF Shapes
<1>2. AcksAreTrue'
  BY DEF Shapes, AcksAreTrue, Holds
<1>3. RowsAreTrue' /\ FinalStep
  BY DEF RowsAreTrue, FinalStep, Holds
<1>4. ClaimsDiffer'
  BY NoClaimIsNone DEF Shapes, ClaimsDiffer
<1> QED
  BY <1>1, <1>2, <1>3, <1>4

(* A claim draws a token newer than all before it. *)
LEMMA ClaimKeeps ==
    ASSUME PublishInv, NEW p \in Publishers, ClaimDue(p)
    PROVE  PublishInv' /\ FinalStep
<1> USE DEF PublishInv
<1>1. PICK e \in Events :
        /\ attempts' = [attempts EXCEPT ![e] = attempts[e] + 1]
        /\ job' = [job EXCEPT ![p] = [event |-> e, attempt |-> attempts[e] + 1]]
        /\ step' = [step EXCEPT ![p] = "claimed"]
  BY DEF ClaimDue
<1>2. step[p] = "idle" /\ UNCHANGED <<streamSeq, answer, flight, stream, acks>>
  BY DEF ClaimDue, busVars
<1> DEFINE c == [event |-> e, attempt |-> attempts[e] + 1]
<1>3. c \in Claims /\ c.event = e /\ c.attempt = attempts[e] + 1
  BY DEF Claims, Shapes
<1>4. Shapes'
  BY <1>1, <1>2, <1>3 DEF Shapes
<1>5. AcksAreTrue'
  BY <1>1, <1>2 DEF Shapes, AcksAreTrue, Holds
<1>6. RowsAreTrue' /\ FinalStep
  BY <1>2 DEF RowsAreTrue, FinalStep, Holds
<1>7. ClaimsDiffer'
  <2>1. ASSUME NEW q \in Publishers, q # p
        PROVE  job'[q] = job[q] /\ job'[p] = c
    BY <1>1, <2>1 DEF Shapes
  <2>2. ASSUME NEW q \in Publishers, job'[q] \in Claims
        PROVE  job'[q].attempt <= attempts'[job'[q].event]
    <3>1. CASE q = p
      BY <1>1, <1>3, <3>1 DEF Shapes
    <3>2. CASE q # p
      <4>1. job[q] \in Claims /\ job[q].attempt <= attempts[job[q].event]
        BY <2>1, <2>2, <3>2 DEF ClaimsDiffer
      <4>2. job[q].event \in Events /\ job[q].attempt \in Nat
        BY <4>1 DEF Claims
      <4> QED
        BY <1>1, <2>1, <3>2, <4>1, <4>2 DEF Shapes
    <3> QED BY <3>1, <3>2
  <2>3. ASSUME NEW q \in Publishers, q # p, job[q] \in Claims
        PROVE  job[q] # c
    <3>1. job[q].attempt <= attempts[job[q].event]
      BY <2>3 DEF ClaimsDiffer
    <3> SUFFICES ASSUME job[q] = c PROVE FALSE
      OBVIOUS
    <3>2. attempts[e] + 1 <= attempts[e] /\ attempts[e] \in Nat
      BY <1>3, <3>1 DEF Shapes
    <3> QED BY <3>2
  <2> HIDE DEF c
  <2>4. ASSUME NEW q \in Publishers, NEW s \in Publishers, q # s,
               job'[q] \in Claims, job'[s] \in Claims
        PROVE  job'[q] # job'[s]
    <3>1. job'[p] = c
      BY <1>1 DEF Shapes, c
    <3>2. CASE q # p /\ s # p
      BY <2>1, <2>4, <3>2 DEF ClaimsDiffer
    <3>3. CASE q = p
      BY <2>1, <2>3, <2>4, <3>1, <3>3
    <3>4. CASE s = p
      BY <2>1, <2>3, <2>4, <3>1, <3>4
    <3> QED BY <3>2, <3>3, <3>4
  <2> QED
    BY <2>2, <2>4 DEF ClaimsDiffer
<1> QED
  BY <1>4, <1>5, <1>6, <1>7

(* A message goes out. *)
LEMMA SendKeeps ==
    ASSUME PublishInv, NEW p \in Publishers, Send(p)
    PROVE  PublishInv' /\ FinalStep
<1> USE DEF PublishInv, Send, rowVars
<1>1. Shapes'
  BY DEF Shapes
<1>2. AcksAreTrue'
  BY DEF Shapes, AcksAreTrue, Holds
<1>3. RowsAreTrue' /\ ClaimsDiffer' /\ FinalStep
  BY DEF RowsAreTrue, ClaimsDiffer, FinalStep, Holds
<1> QED
  BY <1>1, <1>2, <1>3

(* An acknowledgement is taken by the publisher whose message it answers. *)
LEMMA AcknowledgedKeeps ==
    ASSUME PublishInv, NEW p \in Publishers, Acknowledged(p)
    PROVE  PublishInv' /\ FinalStep
<1> USE DEF PublishInv
<1>1. PICK a \in acks :
        /\ a[1] = job[p]
        /\ step' = [step EXCEPT ![p] = "result"]
        /\ answer' = [answer EXCEPT ![p] = a[2]]
        /\ acks' = acks \ {a}
  BY DEF Acknowledged
<1>2. step[p] = "waiting" /\ UNCHANGED <<streamSeq, attempts, job, flight, stream>>
  BY DEF Acknowledged, rowVars
<1>3. a[2] \in Nat /\ Holds(a[2], job[p].event)
  BY <1>1 DEF Shapes, AcksAreTrue
<1>4. Shapes'
  BY <1>1, <1>2, <1>3 DEF Shapes
<1>5. AcksAreTrue'
  BY <1>1, <1>2, <1>3 DEF Shapes, AcksAreTrue, Holds
<1>6. RowsAreTrue' /\ ClaimsDiffer' /\ FinalStep
  BY <1>2 DEF RowsAreTrue, ClaimsDiffer, FinalStep, Holds
<1> QED
  BY <1>4, <1>5, <1>6

(* A publication is recorded, if the claim passes the fence. *)
LEMMA RecordKeeps ==
    ASSUME PublishInv, NEW p \in Publishers, RecordPublished(p)
    PROVE  PublishInv' /\ FinalStep
<1> USE DEF PublishInv
<1>1. /\ step[p] = "result" /\ answer[p] > 0
      /\ Leave(p, "idle")
      /\ UNCHANGED <<attempts, flight, stream, acks>>
      /\ streamSeq' = IF Owns(p) THEN [streamSeq EXCEPT ![job[p].event] = answer[p]] ELSE streamSeq
  BY DEF RecordPublished, busVars
<1>2. job[p] \in Claims /\ job[p].event \in Events /\ Holds(answer[p], job[p].event)
  BY <1>1 DEF Shapes, Claims, AcksAreTrue
<1>3. Shapes'
  BY <1>1, <1>2 DEF Shapes, Leave
<1>4. AcksAreTrue'
  BY <1>1 DEF Shapes, AcksAreTrue, Holds, Leave
<1>5. RowsAreTrue'
  BY <1>1, <1>2 DEF Shapes, RowsAreTrue, Holds
<1>6. ClaimsDiffer'
  BY <1>1, NoClaimIsNone DEF Shapes, ClaimsDiffer, Leave
<1>7. FinalStep
  BY <1>1, <1>2 DEF Shapes, FinalStep, Owns
<1> QED
  BY <1>3, <1>4, <1>5, <1>6, <1>7

(* The stream stores a message or recognises it: either way the answer names *)
(* a position that holds the event.                                          *)
LEMMA StoreKeeps ==
    ASSUME PublishInv, NEW m \in flight, Store(m)
    PROVE  PublishInv' /\ FinalStep
<1> USE DEF PublishInv
<1>1. m \in Claims /\ m.event \in Events /\ Len(stream) \in Nat
  BY DEF Shapes, Claims
<1>2. UNCHANGED <<streamSeq, attempts, step, job, answer>> /\ flight' = flight \ {m}
  BY DEF Store, rowVars, taskVars
<1>3. PICK i \in Nat :
        /\ acks' = acks \cup {<<m, i>>}
        /\ stream' \in Seq(Events)
        /\ Len(stream') \in Nat /\ Len(stream) <= Len(stream')
        /\ \A j \in 1..Len(stream) : stream'[j] = stream[j]
        /\ i \in 1..Len(stream') /\ stream'[i] = m.event
  <2>1. CASE m.event \in recent
    <3>1. PICK i \in 1..Len(stream) : stream[i] = m.event /\ acks' = acks \cup {<<m, i>>}
      BY <2>1 DEF Store
    <3> QED
      BY <1>1, <2>1, <3>1 DEF Store, Shapes
  <2>2. CASE m.event \notin recent
    <3>1. stream' = Append(stream, m.event) /\ acks' = acks \cup {<<m, Len(stream) + 1>>}
      BY <2>2 DEF Store
    <3>2. /\ stream' \in Seq(Events)
          /\ Len(stream') = Len(stream) + 1
          /\ \A j \in 1..Len(stream) : stream'[j] = stream[j]
          /\ stream'[Len(stream) + 1] = m.event
      BY <1>1, <3>1 DEF Shapes
    <3> QED
      BY <1>1, <3>1, <3>2
  <2> QED
    BY <2>1, <2>2
<1>4. ASSUME NEW j, NEW e, Holds(j, e)
      PROVE  Holds(j, e)'
  BY <1>1, <1>3, <1>4 DEF Holds
<1>5. Shapes'
  BY <1>1, <1>2, <1>3 DEF Shapes
<1>6. AcksAreTrue'
  <2>1. \A a \in acks' : Holds(a[2], a[1].event)'
    BY <1>3, <1>4 DEF AcksAreTrue, Holds
  <2>2. \A p \in Publishers : answer[p] > 0 => step[p] = "result" /\ Holds(answer[p], job[p].event)'
    BY <1>2, <1>4 DEF AcksAreTrue
  <2> QED
    BY <1>2, <2>1, <2>2 DEF AcksAreTrue
<1>7. RowsAreTrue'
  BY <1>2, <1>4 DEF RowsAreTrue
<1>8. ClaimsDiffer' /\ FinalStep
  BY <1>2 DEF ClaimsDiffer, FinalStep
<1> QED
  BY <1>5, <1>6, <1>7, <1>8

(* A message or an acknowledgement is lost. *)
LEMMA LossKeeps ==
    ASSUME PublishInv, LoseMessage
    PROVE  PublishInv' /\ FinalStep
BY DEF PublishInv, Shapes, Holds, AcksAreTrue, RowsAreTrue, ClaimsDiffer, FinalStep,
       LoseMessage, rowVars, taskVars

-----------------------------------------------------------------------------
(* Every step keeps the invariant and leaves published rows alone. *)
LEMMA PublishStepKeeps ==
    ASSUME PublishInv, [PublishNext]_vars
    PROVE  PublishInv' /\ FinalStep
<1>1. CASE AppendEvent \/ PassTime \/ (\E e \in Events : ForgetId(e)) \/ UNCHANGED vars
  <2>1. UNCHANGED <<streamSeq, attempts, taskVars, flight, stream, acks>>
    BY <1>1 DEF AppendEvent, PassTime, ForgetId, vars, rowVars, busVars
  <2> QED BY <2>1, QuietKeeps
<1>2. ASSUME NEW p \in Publishers, PublisherStep(p)
      PROVE  PublishInv' /\ FinalStep
  <2>1. CASE Connect(p)
    BY <2>1, MoveKeeps DEF Connect, rowVars, busVars
  <2>2. CASE RecordRetry(p)
    BY <2>2, LeaveKeeps DEF RecordRetry, busVars
  <2> QED
    BY <1>2, <2>1, <2>2, ClaimKeeps, SendKeeps, AcknowledgedKeeps, RecordKeeps DEF PublisherStep
<1>3. ASSUME NEW p \in Publishers,
             PublishFailed(p) \/ Disconnect(p) \/ LoseResult(p) \/ RestartPublisher(p)
      PROVE  PublishInv' /\ FinalStep
  <2>1. CASE PublishFailed(p)
    BY <2>1, MoveKeeps DEF PublishFailed, rowVars, busVars
  <2>2. CASE Disconnect(p)
    BY <2>2, MoveKeeps DEF Disconnect, rowVars, busVars
  <2>3. CASE LoseResult(p)
    BY <2>3, LeaveKeeps DEF LoseResult, rowVars, busVars
  <2>4. CASE RestartPublisher(p)
    BY <2>4, LeaveKeeps DEF RestartPublisher, rowVars, busVars
  <2> QED BY <1>3, <2>1, <2>2, <2>3, <2>4
<1>4. CASE \E m \in flight : Store(m)
  BY <1>4, StoreKeeps
<1>5. CASE LoseMessage
  BY <1>5, LossKeeps
<1> QED
  BY <1>1, <1>2, <1>3, <1>4, <1>5 DEF PublishNext

(* The initial state satisfies the invariant. *)
LEMMA PublishStarts == PublishInit => PublishInv
BY NoClaimIsNone DEF PublishInit, PublishInv, Shapes, AcksAreTrue, RowsAreTrue, ClaimsDiffer

(* Every reachable state satisfies it. *)
LEMMA PublishInvariant == PublishSpec => []PublishInv
<1>1. PublishInv /\ [PublishNext]_vars => PublishInv'
  BY PublishStepKeeps
<1> QED
  BY <1>1, PublishStarts, PTL DEF PublishSpec

(* published_at and stream_seq are never set unless the stream holds the     *)
(* event at that sequence (publish, acknowledged_sequence, published).       *)
THEOREM PublishedEventsAreStored == PublishSpec => []PublishedIsStored
<1>1. PublishInv => PublishedIsStored
  BY DEF PublishInv, Shapes, RowsAreTrue, Holds, PublishedIsStored, Published
<1> QED
  BY <1>1, PublishInvariant, PTL

(* Of the claims of one event, however many processes hold one, at most one  *)
(* passes the lease fence of published and retry.                            *)
THEOREM FenceAdmitsOne == PublishSpec => []OneClaimPassesTheFence
<1>1. PublishInv => OneClaimPassesTheFence
  <2> SUFFICES ASSUME PublishInv, NEW p \in Publishers, NEW q \in Publishers, p # q,
                      job[p] # NoClaim, job[q] # NoClaim,
                      job[p].event = job[q].event, Owns(p), Owns(q)
               PROVE  FALSE
    BY DEF OneClaimPassesTheFence
  <2>1. job[p] \in Claims /\ job[q] \in Claims
    BY DEF PublishInv, Shapes
  <2>2. job[p].attempt = job[q].attempt
    BY DEF Owns
  <2>3. job[p] = job[q]
    BY <2>1, <2>2 DEF Claims
  <2> QED
    BY <2>1, <2>3 DEF PublishInv, ClaimsDiffer
<1> QED
  BY <1>1, PublishInvariant, PTL

(* A recorded publication is never rewritten by a late answer (published).   *)
THEOREM PublicationsAreFinal == PublishSpec => PublicationIsFinal
<1>1. PublishInv /\ [PublishNext]_vars =>
        [\A e \in Events : Published(e) => streamSeq'[e] = streamSeq[e]]_vars
  BY PublishStepKeeps DEF FinalStep
<1> QED
  BY <1>1, PublishInvariant, PTL DEF PublishSpec, PublicationIsFinal
=============================================================================
