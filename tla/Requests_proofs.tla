--------------------------- MODULE Requests_proofs ---------------------------
(* Proofs about the account tables and the request tables, for every set of *)
(* users, devices, codes, requests, keys and create bodies and for every    *)
(* precision of the clock, and that the tables implement the decision       *)
(* ledger.                                                                  *)
EXTENDS Requests, SequenceTheorems, FiniteSetTheorems, TLAPS

-----------------------------------------------------------------------------
(* The account tables.                                                      *)
USE AccountsAssumption

(* The account tables stay well typed under every operation. *)
LEMMA AccountsTypeStep ==
    AccountsTypeOK /\ [AccountsNext]_accountVars => AccountsTypeOK'
<1> SUFFICES ASSUME AccountsTypeOK, [AccountsNext]_accountVars PROVE AccountsTypeOK'
  OBVIOUS
<1> USE DEF AccountsTypeOK, Op, Idle, Code
<1>1. CASE Tick
  BY <1>1 DEF Tick
<1>2. ASSUME NEW h \in Handlers, NEW u \in Users, CreateUser(h, u) PROVE AccountsTypeOK'
  BY <1>2 DEF CreateUser
<1>3. ASSUME NEW h \in Handlers, NEW u \in Users, CheckCodeUser(h, u) PROVE AccountsTypeOK'
  BY <1>3 DEF CheckCodeUser
<1>4. ASSUME NEW h \in Handlers, NEW u \in Users, NEW c \in Channels, NEW v \in {"on", "off"},
             CheckSubscription(h, u, c, v)
      PROVE AccountsTypeOK'
  BY <1>4 DEF CheckSubscription
<1>5. ASSUME NEW h \in Handlers, SubscribeToDefault(h) PROVE AccountsTypeOK'
  BY <1>5 DEF SubscribeToDefault
<1>6. ASSUME NEW h \in Handlers, WriteSubscription(h) PROVE AccountsTypeOK'
  BY <1>6 DEF WriteSubscription
<1>7. ASSUME NEW h \in Handlers, NEW c \in Codes, InsertCode(h, c) PROVE AccountsTypeOK'
  BY <1>7 DEF InsertCode
<1>8. ASSUME NEW u \in Users, DeleteUser(u) PROVE AccountsTypeOK'
  BY <1>8 DEF DeleteUser
<1>9. ASSUME NEW c \in Channels, CreateChannel(c) PROVE AccountsTypeOK'
  BY <1>9 DEF CreateChannel
<1>10. ASSUME NEW c \in Codes, NEW d \in Devices, NEW push \in BOOLEAN, EnrollDevice(c, d, push)
       PROVE AccountsTypeOK'
  BY <1>10 DEF EnrollDevice, CodeUsable
<1>11. ASSUME NEW d \in Devices, RevokeDevice(d) PROVE AccountsTypeOK'
  BY <1>11 DEF RevokeDevice
<1>12. ASSUME NEW d \in Devices, UpdatePushToken(d) PROVE AccountsTypeOK'
  BY <1>12 DEF UpdatePushToken
<1>13. ASSUME NEW c \in Channels, DropChannel(c) PROVE AccountsTypeOK'
  BY <1>13 DEF DropChannel
<1>14. CASE Restart
  BY <1>14 DEF Restart
<1>15. CASE UNCHANGED accountVars
  BY <1>15 DEF accountVars
<1> HIDE DEF AccountsTypeOK, Op, Idle, Code
<1> QED
  BY <1>1, <1>2, <1>3, <1>4, <1>5, <1>6, <1>7, <1>8, <1>9, <1>10, <1>11, <1>12, <1>13,
     <1>14, <1>15
  DEF AccountsNext, AccountsStep

(* The account tables are always well typed. *)
THEOREM AccountsTypeCorrect == AccountsSpec => []AccountsTypeOK
<1>1. AccountsInit => AccountsTypeOK
  BY DEF AccountsInit, AccountsTypeOK, Op, Idle
<1>2. QED
  BY <1>1, AccountsTypeStep, PTL DEF AccountsSpec

-----------------------------------------------------------------------------
(* What makes the safety of the device tables inductive: a device has an    *)
(* owner exactly when it is enrolled, an enrolled device's owner has a user *)
(* row, and only active devices hold a push token.                          *)
DevicesHaveOwners ==
    /\ \A d \in Devices : device[d] = "none" <=> owner[d] = None
    /\ \A d \in Devices : device[d] = "active" => owner[d] \in Users

AccountsInv ==
    /\ AccountsTypeOK
    /\ DevicesHaveOwners
    /\ DeletedUserHasNoActiveDevice
    /\ OnlyActiveDevicesRegistered

(* Every operation keeps a deleted user without active devices and a revoked *)
(* device without push token.                                                *)
LEMMA AccountsInvStep ==
    AccountsInv /\ [AccountsNext]_accountVars => AccountsInv'
<1> SUFFICES ASSUME AccountsInv, [AccountsNext]_accountVars PROVE AccountsInv'
  OBVIOUS
<1>t. AccountsTypeOK'
  BY AccountsTypeStep DEF AccountsInv
<1> DEFINE Rest == DevicesHaveOwners /\ DeletedUserHasNoActiveDevice /\ OnlyActiveDevicesRegistered
<1> SUFFICES Rest'
  BY <1>t DEF AccountsInv
<1> USE DEF AccountsInv, AccountsTypeOK, DevicesHaveOwners, DeletedUserHasNoActiveDevice,
            OnlyActiveDevicesRegistered
<1>1. CASE UNCHANGED <<user, device, owner, registered>>
  BY <1>1
<1>2. ASSUME NEW h \in Handlers, NEW u \in Users, CreateUser(h, u) PROVE Rest'
  BY <1>2 DEF CreateUser
<1>3. ASSUME NEW u \in Users, DeleteUser(u) PROVE Rest'
  BY <1>3 DEF DeleteUser, ActiveDevicesOf
<1>4. ASSUME NEW c \in Codes, NEW d \in Devices, NEW push \in BOOLEAN, EnrollDevice(c, d, push)
      PROVE Rest'
  <2>1. codes[c] \in Code /\ codes[c].user \in Users
    BY <1>4 DEF EnrollDevice, CodeUsable, Code
  <2> QED
    BY <1>4, <2>1 DEF EnrollDevice, CodeUsable
<1>5. ASSUME NEW d \in Devices, RevokeDevice(d) PROVE Rest'
  BY <1>5 DEF RevokeDevice
<1>6. ASSUME NEW d \in Devices, UpdatePushToken(d) PROVE Rest'
  BY <1>6 DEF UpdatePushToken
<1>7. CASE Restart
  BY <1>7 DEF Restart
<1> HIDE DEF Rest, AccountsInv, AccountsTypeOK, DevicesHaveOwners,
             DeletedUserHasNoActiveDevice, OnlyActiveDevicesRegistered
<1> QED
  BY <1>1, <1>2, <1>3, <1>4, <1>5, <1>6, <1>7
  DEF AccountsNext, AccountsStep, accountVars, Tick, CheckCodeUser, CheckSubscription,
      SubscribeToDefault, WriteSubscription, InsertCode, CreateChannel, DropChannel

LEMMA AccountsInvInit == AccountsInit => AccountsInv
<1> SUFFICES ASSUME AccountsInit PROVE AccountsInv
  OBVIOUS
<1> USE DEF AccountsInit
<1>1. AccountsTypeOK
  BY DEF AccountsTypeOK, Op, Idle
<1>2. DevicesHaveOwners /\ DeletedUserHasNoActiveDevice
  BY DEF DevicesHaveOwners, DeletedUserHasNoActiveDevice
<1>3. OnlyActiveDevicesRegistered
  BY DEF OnlyActiveDevicesRegistered
<1> QED
  BY <1>1, <1>2, <1>3 DEF AccountsInv

(* No interleaving of code issue, enrollment and delete_user leaves a        *)
(* deleted user with a device that still authenticates.                      *)
THEOREM DeletedUsersLoseAccess == AccountsSpec => []DeletedUserHasNoActiveDevice
<1>1. AccountsSpec => []AccountsInv
  BY AccountsInvInit, AccountsInvStep, PTL DEF AccountsSpec
<1>2. AccountsInv => DeletedUserHasNoActiveDevice
  BY DEF AccountsInv
<1>3. QED
  BY <1>1, <1>2, PTL

(* A push token never outlives the revocation of its device. *)
THEOREM RevokedDevicesHoldNoToken == AccountsSpec => []OnlyActiveDevicesRegistered
<1>1. AccountsSpec => []AccountsInv
  BY AccountsInvInit, AccountsInvStep, PTL DEF AccountsSpec
<1>2. AccountsInv => OnlyActiveDevicesRegistered
  BY DEF AccountsInv
<1>3. QED
  BY <1>1, <1>2, PTL
-----------------------------------------------------------------------------
(* Codes.  What makes CodeEnrollsOnce inductive: only an enrolled device has *)
(* a code, so enroll_device, which takes a fresh device id, replaces no      *)
(* earlier enrollment.                                                       *)
CodesInv ==
    /\ AccountsTypeOK
    /\ CodeEnrollsOnce
    /\ \A d \in Devices : enrolledBy[d] # None => device[d] # "none"

LEMMA CodesInvStep == CodesInv /\ [AccountsNext]_accountVars => CodesInv'
<1> SUFFICES ASSUME CodesInv, [AccountsNext]_accountVars PROVE CodesInv'
  OBVIOUS
<1>t. AccountsTypeOK'
  BY AccountsTypeStep DEF CodesInv
<1> DEFINE Rest == /\ CodeEnrollsOnce
                   /\ \A d \in Devices : enrolledBy[d] # None => device[d] # "none"
<1>0. Rest' => CodesInv'
  BY <1>t DEF CodesInv
<1> USE DEF CodesInv, CodeEnrollsOnce
<1>1. ASSUME UNCHANGED <<codes, device, enrolledBy>> PROVE Rest'
  BY <1>1
<1>2. ASSUME NEW h \in Handlers, NEW c \in Codes, InsertCode(h, c) PROVE Rest'
  <2>1. codes[c] = None /\ \A d \in Devices : enrolledBy[d] # c
    BY <1>2 DEF InsertCode
  <2>2. ~codes'[c].consumed /\ \A x \in Codes \ {c} : codes'[x] = codes[x]
    BY <1>2 DEF InsertCode, AccountsTypeOK
  <2>3. UNCHANGED <<device, enrolledBy>>
    BY <1>2 DEF InsertCode
  <2> QED
    BY <2>1, <2>2, <2>3
<1>3. ASSUME NEW c \in Codes, NEW d \in Devices, NEW push \in BOOLEAN, EnrollDevice(c, d, push)
      PROVE  Rest'
  <2>1. /\ codes[c] # None /\ ~codes[c].consumed /\ device[d] = "none"
        /\ enrolledBy[d] = None /\ \A e \in Devices : enrolledBy[e] # c
    BY <1>3 DEF EnrollDevice, CodeUsable
  <2>2. /\ codes'[c].consumed /\ \A x \in Codes \ {c} : codes'[x] = codes[x]
        /\ device'[d] = "active" /\ \A e \in Devices \ {d} : device'[e] = device[e]
        /\ enrolledBy'[d] = c /\ \A e \in Devices \ {d} : enrolledBy'[e] = enrolledBy[e]
    BY <1>3 DEF EnrollDevice, AccountsTypeOK
  <2>3. codes'[c] # None
    <3>1. codes[c] \in Code
      BY <2>1 DEF AccountsTypeOK
    <3>2. codes'[c] = [user |-> codes[c].user, expires |-> codes[c].expires, consumed |-> TRUE]
      BY <1>3 DEF EnrollDevice, AccountsTypeOK
    <3>3. codes'[c] \in Code
      BY <3>1, <3>2 DEF Code
    <3> QED
      BY <3>3, NullIsNoCode
  <2>4. ASSUME NEW x \in Codes
        PROVE  (codes'[x] # None /\ codes'[x].consumed) <=> \E e \in Devices : enrolledBy'[e] = x
    <3>1. CASE x = c
      BY <2>2, <2>3, <3>1
    <3>2. CASE x # c
      <4>1. (\E e \in Devices : enrolledBy'[e] = x) <=> \E e \in Devices : enrolledBy[e] = x
        BY <2>1, <2>2, <3>2, AccountsAssumption
      <4> QED
        BY <2>2, <3>2, <4>1
    <3> QED
      BY <3>1, <3>2
  <2> QED
    BY <2>1, <2>2, <2>4
<1>4. ASSUME NEW d \in Devices, RevokeDevice(d) PROVE Rest'
  BY <1>4 DEF RevokeDevice, AccountsTypeOK
<1> HIDE DEF CodesInv, CodeEnrollsOnce
<1>5. CASE UNCHANGED accountVars
  BY <1>0, <1>1, <1>5 DEF accountVars
<1> QED
  BY <1>0, <1>1, <1>2, <1>3, <1>4, <1>5 DEF AccountsNext, AccountsStep, Tick, CreateUser, CheckCodeUser,
     CheckSubscription, SubscribeToDefault, WriteSubscription, DeleteUser, CreateChannel,
     UpdatePushToken, DropChannel, Restart

LEMMA CodesInvInit == AccountsInit => CodesInv
<1> SUFFICES ASSUME AccountsInit PROVE CodesInv
  OBVIOUS
<1>1. AccountsTypeOK
  BY AccountsInvInit DEF AccountsInv
<1>2. /\ \A d \in Devices : enrolledBy[d] = None
      /\ \A c \in Codes : codes[c] = None /\ c # None
  BY AccountsAssumption DEF AccountsInit
<1> QED
  BY <1>1, <1>2 DEF CodesInv, CodeEnrollsOnce

(* enroll_device: a code enrolls at most one device, and exactly the codes   *)
(* that enrolled one are consumed, for any number of handlers that check,    *)
(* issue and redeem codes.                                                   *)
THEOREM CodesEnrollOnce == AccountsSpec => []CodeEnrollsOnce
<1>1. CodesInv => CodeEnrollsOnce
  BY DEF CodesInv
<1> QED
  BY <1>1, CodesInvInit, CodesInvStep, PTL DEF AccountsSpec

HIDE AccountsAssumption

-----------------------------------------------------------------------------
(* Operators of the model. *)

(* Cutting a time to milliseconds never moves it past the clock. *)
LEMMA TruncateType ==
    ASSUME NEW t \in Nat PROVE Truncate(t) \in Nat /\ Truncate(t) <= t
<1>1. Precision \in Nat \ {0}
  BY RequestsAssumption
<1>2. t % Precision \in 0..(Precision - 1) /\ t = Precision * (t \div Precision) + (t % Precision)
  BY <1>1
<1>3. t \div Precision \in Nat
  BY <1>1
<1>4. Precision * (t \div Precision) \in Nat
  BY <1>1, <1>3
<1> QED
  BY <1>2, <1>4 DEF Truncate

(* What append_lifecycle_on leaves of a journal: the events it had, and one  *)
(* more at its end.                                                          *)
LEMMA AppendKeeps ==
    ASSUME NEW s \in Seq(Event), NEW e \in Event
    PROVE  /\ Append(s, e) \in Seq(Event)
           /\ Append(s, e) # <<>>
           /\ Len(Append(s, e)) = Len(s) + 1
           /\ DOMAIN s = 1..Len(s)
           /\ DOMAIN Append(s, e) = 1..(Len(s) + 1)
           /\ \A i \in 1..Len(s) : Append(s, e)[i] = s[i]
           /\ Append(s, e)[Len(s) + 1] = e
<1>1. Len(s) \in Nat
  OBVIOUS
<1> QED
  BY <1>1, AppendProperties

-----------------------------------------------------------------------------
(* The kinds of steps. *)

(* A create leaves accounts, decisions, nonces and handlers alone. *)
LEMMA CreateKeeps ==
    CreateStep => UNCHANGED <<accountVars, decision, userDecisions, nonces, call>>
<1> SUFFICES ASSUME NEW caller \in Callers, NEW key \in IdemKeys \cup {None}, NEW d \in Drafts,
                    \/ ReplayCreate(caller, key, d)
                    \/ \E r \in RequestIds :
                         DedupeCreate(caller, key, d, r) \/ InsertRequest(caller, key, d, r)
             PROVE  UNCHANGED <<accountVars, decision, userDecisions, nonces, call>>
  BY DEF CreateStep
<1>1. CASE ReplayCreate(caller, key, d)
  BY <1>1 DEF ReplayCreate
<1>2. ASSUME NEW r \in RequestIds, DedupeCreate(caller, key, d, r)
      PROVE  UNCHANGED <<accountVars, decision, userDecisions, nonces, call>>
  BY <1>2 DEF DedupeCreate
<1>3. ASSUME NEW r \in RequestIds, InsertRequest(caller, key, d, r)
      PROVE  UNCHANGED <<accountVars, decision, userDecisions, nonces, call>>
  BY <1>3 DEF InsertRequest
<1> QED
  BY <1>1, <1>2, <1>3

(* Every step leaves the account tables alone or is one of their operations. *)
LEMMA AccountsOfStep == [Next]_vars => [AccountsNext]_accountVars
<1> SUFFICES ASSUME [Next]_vars PROVE [AccountsNext]_accountVars
  OBVIOUS
<1>1. CASE AccountsStep
  BY <1>1 DEF AccountsNext
<1>2. CASE CreateStep
  BY <1>2, CreateKeeps
<1>3. CASE DecisionStep
  <2>1. ASSUME Tick PROVE AccountsNext
    BY <2>1 DEF AccountsNext, AccountsStep
  <2> QED
    BY <1>3, <2>1
    DEF DecisionStep, SubmitOption, RecordShared, RecordPerUser, RejectDecision, ClockMayPass
<1>4. CASE CallerStep
  BY <1>4 DEF CallerStep, CancelRequest, BindOrigin
<1>5. CASE ExpireDueRequests
  BY <1>5 DEF ExpireDueRequests
<1>6. CASE PruneRetention
  BY <1>6 DEF PruneRetention
<1>7. ASSUME NEW c \in Channels, DeleteChannel(c) PROVE AccountsNext
  BY <1>7 DEF DeleteChannel, AccountsNext
<1>8. CASE RestartServer
  BY <1>8 DEF RestartServer, AccountsNext
<1>9. CASE UNCHANGED vars
  BY <1>9 DEF vars
<1> QED
  BY <1>1, <1>2, <1>3, <1>4, <1>5, <1>6, <1>7, <1>8, <1>9 DEF Next

(* What is proved of the account tables holds of them with the request       *)
(* tables beside them.                                                       *)
THEOREM AccountsInComposition == Spec => AccountsSpec
<1>1. Init => AccountsInit
  BY DEF Init
<1> QED
  BY <1>1, AccountsOfStep, PTL DEF Spec, AccountsSpec

(* What holds of the account tables on their own holds of them beside the    *)
(* request tables.                                                           *)
THEOREM AccountsStaySound ==
    Spec => [](CodeEnrollsOnce /\ DeletedUserHasNoActiveDevice /\ OnlyActiveDevicesRegistered)
  BY AccountsInComposition, CodesEnrollOnce, DeletedUsersLoseAccess, RevokedDevicesHoldNoToken, PTL

-----------------------------------------------------------------------------
(* No request table changes: an account operation, a restart, a decision     *)
(* that arrives or is refused.                                               *)
Quiet ==
    UNCHANGED <<status, form, origin, decision, userDecisions, revision, updatedAt,
                idempotency, nonces, journal, callbacks, pushes, acked, sent>>

(* cancel_request and expire_due_requests, as one. *)
Closes(R, k) ==
    /\ \A r \in R : Pending(r)
    /\ k = "expired" => \A r \in R : form[r].expires <= NowString
    /\ status' = [r \in RequestIds |-> IF r \in R THEN k ELSE status[r]]
    /\ updatedAt' = [r \in RequestIds |-> IF r \in R THEN NowString ELSE updatedAt[r]]
    /\ AppendLifecycle(R, k, k, None)
    /\ UNCHANGED <<accountVars, form, origin, decision, userDecisions, idempotency, nonces,
                   pushes, acked, sent>>

(* prune_retention and delete_channel, as one. *)
Removes(R) ==
    /\ \A r \in R : Exists(r)
    /\ DeleteRows(R)

(* Every step is of one of these kinds. *)
LEMMA StepKinds ==
    ASSUME TypeOK, [Next]_vars
    PROVE  \/ Quiet
           \/ CreateStep
           \/ \E caller \in Callers, r \in RequestIds, o \in Origins : BindOrigin(caller, r, o)
           \/ \E d \in Devices : RecordShared(d) \/ RecordPerUser(d)
           \/ \E R \in SUBSET RequestIds, k \in {"cancelled", "expired"} : Closes(R, k)
           \/ \E R \in SUBSET RequestIds : Removes(R)
<1>1. CASE AccountsStep /\ UNCHANGED requestVars
  BY <1>1 DEF requestVars, Quiet
<1>2. CASE CreateStep
  BY <1>2
<1>3. CASE DecisionStep
  BY <1>3 DEF DecisionStep, SubmitOption, RejectDecision, Quiet
<1>4. CASE CallerStep
  <2>1. ASSUME NEW caller \in Callers, NEW r \in RequestIds, CancelRequest(caller, r)
        PROVE  Closes({r}, "cancelled")
    BY <2>1 DEF CancelRequest, Closes, TypeOK
  <2> QED
    BY <1>4, <2>1 DEF CallerStep
<1>5. CASE ExpireDueRequests
  <2>1. Closes(Due, "expired")
    BY <1>5 DEF ExpireDueRequests, Closes, Due
  <2> QED
    BY <2>1 DEF Due
<1>6. CASE PruneRetention
  <2>1. Removes(Prunable)
    BY <1>6 DEF PruneRetention, Removes, Prunable
  <2> QED
    BY <2>1 DEF Prunable
<1>7. ASSUME NEW c \in Channels, DeleteChannel(c)
      PROVE  \E R \in SUBSET RequestIds : Removes(R)
  <2> DEFINE R == {r \in RequestIds : Exists(r) /\ form[r].channel = c}
  <2>1. Removes(R)
    BY <1>7 DEF DeleteChannel, Removes
  <2> QED
    BY <2>1
<1>8. CASE RestartServer
  BY <1>8 DEF RestartServer, Quiet
<1>9. CASE UNCHANGED vars
  BY <1>9 DEF vars, requestVars, Quiet
<1> QED
  BY <1>1, <1>2, <1>3, <1>4, <1>5, <1>6, <1>7, <1>8, <1>9 DEF Next
-----------------------------------------------------------------------------
(* Types. *)

(* The journals a step appends to: what it adds and to which requests.       *)
Appends(R, kind, st, dec) ==
    /\ \A r \in R :
         /\ revision'[r] = revision[r] + 1
         /\ journal'[r] # <<>>
         /\ Len(journal[r]) \in Nat
         /\ Len(journal'[r]) = Len(journal[r]) + 1
         /\ DOMAIN journal[r] = 1..Len(journal[r])
         /\ DOMAIN journal'[r] = 1..(Len(journal[r]) + 1)
         /\ \A i \in 1..Len(journal[r]) : journal'[r][i] = journal[r][i]
         /\ journal'[r][Len(journal[r]) + 1] =
              [kind |-> kind, revision |-> revision[r] + 1, status |-> st, decision |-> dec]
    /\ \A r \in RequestIds \ R : journal'[r] = journal[r] /\ revision'[r] = revision[r]

(* append_lifecycle_on appends to the journals of R, and to no other. *)
LEMMA AppendLifecycleEffect ==
    ASSUME TypeOK, NEW R \in SUBSET RequestIds, NEW kind \in {"created", "answer", "cancelled", "expired"},
           NEW st \in Status, NEW dec \in Decision \cup {None}, AppendLifecycle(R, kind, st, dec)
    PROVE  /\ revision' \in [RequestIds -> Nat]
           /\ journal' \in [RequestIds -> Seq(Event)]
           /\ Appends(R, kind, st, dec)
<1> DEFINE e(r) == [kind |-> kind, revision |-> revision[r] + 1, status |-> st, decision |-> dec]
<1>1. ASSUME NEW r \in RequestIds PROVE e(r) \in Event /\ journal[r] \in Seq(Event) /\ revision[r] \in Nat
  <2>1. journal[r] \in Seq(Event) /\ revision[r] \in Nat
    BY DEF TypeOK
  <2>2. revision[r] + 1 \in Nat
    BY <2>1
  <2>3. e(r) \in Event
    BY <2>2 DEF Event
  <2> QED
    BY <2>1, <2>3
<1>2. \A r \in RequestIds : journal'[r] = IF r \in R THEN Append(journal[r], e(r)) ELSE journal[r]
  BY DEF AppendLifecycle
<1>3. \A r \in RequestIds : revision'[r] = IF r \in R THEN revision[r] + 1 ELSE revision[r]
  BY DEF AppendLifecycle, NextRevisions
<1>4. ASSUME NEW r \in RequestIds
      PROVE  /\ Len(journal[r]) \in Nat
             /\ Append(journal[r], e(r)) \in Seq(Event)
             /\ Append(journal[r], e(r)) # <<>>
             /\ Len(Append(journal[r], e(r))) = Len(journal[r]) + 1
             /\ DOMAIN journal[r] = 1..Len(journal[r])
             /\ DOMAIN Append(journal[r], e(r)) = 1..(Len(journal[r]) + 1)
             /\ \A i \in 1..Len(journal[r]) : Append(journal[r], e(r))[i] = journal[r][i]
             /\ Append(journal[r], e(r))[Len(journal[r]) + 1] = e(r)
  <2>1. Len(journal[r]) \in Nat
    BY <1>1
  <2> HIDE DEF e
  <2> QED
    BY <1>1, <2>1, AppendKeeps
<1>5. revision' \in [RequestIds -> Nat]
  <2>1. \A r \in RequestIds : revision[r] \in Nat
    BY DEF TypeOK
  <2> QED
    BY <2>1 DEF AppendLifecycle, NextRevisions
<1>6. journal' \in [RequestIds -> Seq(Event)]
  BY <1>1, <1>4 DEF AppendLifecycle
<1> HIDE DEF e
<1>7. ASSUME NEW r \in R
      PROVE  /\ revision'[r] = revision[r] + 1
             /\ journal'[r] # <<>>
             /\ Len(journal[r]) \in Nat
             /\ Len(journal'[r]) = Len(journal[r]) + 1
             /\ DOMAIN journal[r] = 1..Len(journal[r])
             /\ DOMAIN journal'[r] = 1..(Len(journal[r]) + 1)
             /\ \A i \in 1..Len(journal[r]) : journal'[r][i] = journal[r][i]
             /\ journal'[r][Len(journal[r]) + 1] = e(r)
  <2>1. r \in RequestIds /\ journal'[r] = Append(journal[r], e(r))
    BY <1>2
  <2> QED
    BY <2>1, <1>3, <1>4
<1>8. \A r \in RequestIds \ R : journal'[r] = journal[r] /\ revision'[r] = revision[r]
  BY <1>2, <1>3
<1> QED
  BY <1>5, <1>6, <1>7, <1>8 DEF e, Appends

(* The request and the decision of a submission that record_decision         *)
(* accepts.                                                                  *)
LEMMA AcceptedDecision ==
    ASSUME TypeOK, AccountsInv, NEW d \in Devices, Accepts(d), ClockMayPass
    PROVE  /\ call[d].request \in RequestIds
           /\ Pending(call[d].request)
           /\ call[d].nonce \in Nonces
           /\ owner[d] \in Users
           /\ now \in Nat /\ now' \in 0..MaxTime
           /\ Truncate(now') \in 0..MaxTime
           /\ CallDecision(d) \in Decision
           /\ CallDecision(d) # None
           /\ CallDecision(d).user = owner[d]
           /\ CallDecision(d).device = d
           /\ CallDecision(d).nonce = call[d].nonce
           /\ CallDecision(d).at = now' /\ CallDecision(d).checked = now
           /\ UNCHANGED <<user, device, owner>>
<1>1. call[d] \in Call
  BY RequestsAssumption DEF TypeOK, Accepts
<1>2. /\ call[d].request \in RequestIds /\ call[d].nonce \in Nonces
      /\ call[d].option \in Options \cup {Dismiss}
  BY <1>1 DEF Call
<1>3. owner[d] \in Users
  BY DEF AccountsInv, DevicesHaveOwners, Accepts, DeviceStillActive
<1>4. now \in 0..MaxTime /\ now \in Nat /\ now' \in 0..MaxTime /\ UNCHANGED <<user, device, owner>>
  BY AccountsAssumption DEF TypeOK, AccountsTypeOK, ClockMayPass, Tick, accountVars
<1>5. Truncate(now') \in 0..MaxTime
  <2>1. now' \in Nat
    BY <1>4
  <2>2. Truncate(now') \in Nat /\ Truncate(now') <= now'
    BY <2>1, TruncateType
  <2> QED
    BY <1>4, <2>2, AccountsAssumption
<1>6. CallDecision(d) \in Decision
  BY <1>2, <1>3, <1>4 DEF CallDecision, Decision
<1>7. CallDecision(d) # None
  BY <1>6, NullIsNoRow
<1> QED
  BY <1>2, <1>3, <1>4, <1>5, <1>6, <1>7 DEF Accepts, StillOpen, CallDecision

(* What a recorded decision does to the tables, in either mode. *)
LEMMA RecordEffect ==
    ASSUME NEW d \in Devices, RecordShared(d) \/ RecordPerUser(d)
    PROVE  LET r == call[d].request
           IN  /\ Accepts(d) /\ ClockMayPass
               /\ owner[d] \in form[r].recipients /\ ~Expired(r)
               /\ device[d] = "active"
               /\ \E st \in {"resolved", "pending"} :
                    /\ status' = [status EXCEPT ![r] = st]
                    /\ AppendLifecycle({r}, "answer", st, CallDecision(d))
               /\ updatedAt' = [updatedAt EXCEPT ![r] = Truncate(now')]
               /\ nonces' = nonces \cup {<<d, call[d].nonce>>}
               /\ <<d, call[d].nonce>> \notin nonces
               /\ \/ /\ form[r].resolution = "shared"
                     /\ status'= [status EXCEPT ![r] = "resolved"]
                     /\ decision' = [decision EXCEPT ![r] = CallDecision(d)]
                     /\ UNCHANGED userDecisions
                  \/ /\ form[r].resolution = "per_user"
                     /\ userDecisions[r][owner[d]] = None
                     /\ status' = [status EXCEPT ![r] = StatusAfter(r, Decided(r) \cup {owner[d]})]
                     /\ userDecisions' = [userDecisions EXCEPT ![r][owner[d]] = CallDecision(d)]
                     /\ UNCHANGED decision
               /\ UNCHANGED <<form, origin, idempotency, pushes, acked, sent>>
<1>1. CASE RecordShared(d)
  BY <1>1 DEF RecordShared, Accepts, NonceUnused, BurnNonce, DeviceStillActive
<1>2. CASE RecordPerUser(d)
  BY <1>2 DEF RecordPerUser, Accepts, NonceUnused, BurnNonce, NotYetAnswered, StatusAfter,
              DeviceStillActive
<1> QED
  BY <1>1, <1>2

(* Handlers hold submissions. *)
LEMMA CallTypeStep ==
    ASSUME TypeOK, [Next]_vars PROVE call' \in [Devices -> Submissions \cup {None}]
<1> USE DEF TypeOK
<1>1. CASE UNCHANGED call
  BY <1>1
<1>2. ASSUME NEW d \in Devices, NEW c \in Submissions, SubmitOption(d, c)
      PROVE  call' \in [Devices -> Submissions \cup {None}]
  BY <1>2 DEF SubmitOption
<1>3. ASSUME NEW d \in Devices, RecordShared(d) \/ RecordPerUser(d) \/ RejectDecision(d)
      PROVE  call' \in [Devices -> Submissions \cup {None}]
  BY <1>3 DEF RecordShared, RecordPerUser, RejectDecision
<1>4. CASE RestartServer
  BY <1>4 DEF RestartServer
<1> HIDE DEF TypeOK
<1>5. CASE CreateStep
  BY <1>5, <1>1, CreateKeeps
<1>6. CASE CallerStep
  BY <1>6, <1>1 DEF CallerStep, CancelRequest, BindOrigin
<1>7. CASE PruneRetention \/ ExpireDueRequests \/ \E c \in Channels : DeleteChannel(c)
  BY <1>7, <1>1 DEF PruneRetention, ExpireDueRequests, DeleteChannel, DeleteRows
<1> QED
  BY <1>1, <1>2, <1>3, <1>4, <1>5, <1>6, <1>7 DEF Next, vars, requestVars, DecisionStep

(* The rows InsertRequest writes. *)
LEMMA InsertedRow ==
    ASSUME TypeOK, NEW caller \in Callers, NEW key \in IdemKeys \cup {None}, NEW d \in Drafts,
           NEW r \in RequestIds, InsertRequest(caller, key, d, r)
    PROVE  /\ d \in Draft
           /\ form'[r] \in Form
           /\ form' \in [RequestIds -> Form \cup {None}]
           /\ form'[r].channel = d.channel /\ form'[r].dedupe = d.dedupe
           /\ form'[r].resolution = d.resolution
           /\ form'[r].recipients = Recipients(d) /\ Recipients(d) \in SUBSET Users
           /\ \A q \in RequestIds \ {r} : form'[q] = form[q]
           /\ NowString \in 0..MaxTime
<1>1. d \in Draft
  BY RequestsAssumption
<1>2. Recipients(d) \in SUBSET Users
  BY <1>1 DEF Recipients, Draft
<1>3. NowString \in 0..MaxTime
  <2>1. now \in Nat /\ now <= MaxTime
    BY AccountsAssumption DEF TypeOK, AccountsTypeOK
  <2> QED
    BY <2>1, TruncateType, AccountsAssumption DEF NowString
<1> DEFINE expires == IF d.expires = None THEN None ELSE Truncate(d.expires)
<1>4. expires \in Nat \cup {None}
  <2>1. d.expires \in Nat \cup {None}
    BY <1>1 DEF Draft
  <2> QED
    BY <2>1, TruncateType
<1> HIDE DEF expires
<1> DEFINE new == [channel |-> d.channel, dedupe |-> d.dedupe, expires |-> expires,
                   resolution |-> d.resolution, recipients |-> Recipients(d),
                   callback |-> d.callback, value |-> d.value, options |-> d.options,
                   body |-> d.body, creator |-> caller]
<1>5. new \in Form
  BY <1>1, <1>2, <1>4 DEF Draft, Form
<1>6. form' = [form EXCEPT ![r] = new]
  BY DEF InsertRequest, expires
<1>7. form \in [RequestIds -> Form \cup {None}]
  BY DEF TypeOK
<1>8. form'[r] = new /\ \A q \in RequestIds \ {r} : form'[q] = form[q]
  BY <1>6, <1>7
<1>9. form' \in [RequestIds -> Form \cup {None}]
  BY <1>5, <1>6, <1>7
<1> QED
  BY <1>1, <1>2, <1>3, <1>5, <1>8, <1>9

(* The idempotency record and the answer a create leaves. *)
LEMMA BindType ==
    ASSUME TypeOK, NEW caller \in Callers, NEW key \in IdemKeys \cup {None}, NEW d \in Drafts,
           NEW r \in RequestIds
    PROVE  /\ Bind(caller, d, key, r) => idempotency' \in [Slot -> Binding \cup {None}]
           /\ Acknowledge(caller, key, d, r) => acked' \subseteq Ack
           /\ key # None => key \in IdemKeys /\ <<caller, d.channel, key>> \in Slot
<1>1. d.channel \in Channels
  BY RequestsAssumption DEF Draft
<1>2. key # None => <<caller, d.channel, key>> \in Slot
  BY <1>1 DEF Slot
<1>3. [fingerprint |-> d, request |-> r] \in Binding
  BY DEF Binding
<1>4. Bind(caller, d, key, r) => idempotency' \in [Slot -> Binding \cup {None}]
  BY <1>2, <1>3 DEF Bind, TypeOK
<1>5. key # None => [caller |-> caller, key |-> key, draft |-> d, request |-> r] \in Ack
  BY DEF Ack
<1>6. Acknowledge(caller, key, d, r) => acked' \subseteq Ack
  BY <1>5 DEF Acknowledge, TypeOK
<1> QED
  BY <1>2, <1>4, <1>6

(* Every step keeps the request tables well typed. *)
LEMMA TypeStep ==
    ASSUME TypeOK, AccountsInv, [Next]_vars PROVE TypeOK'
<1>a. AccountsTypeOK'
  BY AccountsOfStep, AccountsTypeStep DEF TypeOK
<1>c. call' \in [Devices -> Submissions \cup {None}]
  BY CallTypeStep
<1>n. NowString \in 0..MaxTime
  <2>1. now \in Nat /\ now <= MaxTime
    BY AccountsAssumption DEF TypeOK, AccountsTypeOK
  <2> QED
    BY <2>1, TruncateType, AccountsAssumption DEF NowString
<1> DEFINE Rest ==
      /\ status \in [RequestIds -> Status \cup {"absent", "gone"}]
      /\ form \in [RequestIds -> Form \cup {None}]
      /\ origin \in [RequestIds -> Origins \cup {None}]
      /\ decision \in [RequestIds -> Decision \cup {None}]
      /\ userDecisions \in [RequestIds -> [Users -> Decision \cup {None}]]
      /\ revision \in [RequestIds -> Nat]
      /\ updatedAt \in [RequestIds -> 0..MaxTime]
      /\ idempotency \in [Slot -> Binding \cup {None}]
      /\ nonces \subseteq Devices \X Nonces
      /\ journal \in [RequestIds -> Seq(Event)]
      /\ callbacks \subseteq RequestIds \X Nat
      /\ pushes \subseteq RequestIds \X Devices
      /\ acked \subseteq Ack
      /\ sent \in [RequestIds -> Drafts \cup {None}]
<1> SUFFICES Rest'
  BY <1>a, <1>c DEF TypeOK
<1>r. Rest
  BY DEF TypeOK
<1>1. CASE Quiet
  BY <1>1, <1>r DEF Quiet
<1>2. CASE CreateStep
  <2> SUFFICES ASSUME NEW caller \in Callers, NEW key \in IdemKeys \cup {None}, NEW d \in Drafts,
                      \/ ReplayCreate(caller, key, d)
                      \/ \E r \in RequestIds :
                           DedupeCreate(caller, key, d, r) \/ InsertRequest(caller, key, d, r)
               PROVE  Rest'
    BY <1>2 DEF CreateStep
  <2>1. CASE ReplayCreate(caller, key, d)
    <3>1. key # None /\ idempotency[<<caller, d.channel, key>>] # None
      BY <2>1 DEF ReplayCreate, Bound
    <3>2. <<caller, d.channel, key>> \in Slot
      BY <3>1, BindType, RequestsAssumption DEF Slot, Draft
    <3>3. idempotency[<<caller, d.channel, key>>].request \in RequestIds
      BY <1>r, <3>1, <3>2 DEF Binding
    <3>4. acked' \subseteq Ack
      BY <2>1, <3>3, BindType DEF ReplayCreate
    <3> QED
      BY <2>1, <1>r, <3>4 DEF ReplayCreate
  <2>2. ASSUME NEW r \in RequestIds, DedupeCreate(caller, key, d, r) PROVE Rest'
    <3>1. idempotency' \in [Slot -> Binding \cup {None}] /\ acked' \subseteq Ack
      BY <2>2, BindType DEF DedupeCreate
    <3> QED
      BY <2>2, <1>r, <3>1 DEF DedupeCreate
  <2>3. ASSUME NEW r \in RequestIds, InsertRequest(caller, key, d, r) PROVE Rest'
    <3>1. idempotency' \in [Slot -> Binding \cup {None}] /\ acked' \subseteq Ack
      BY <2>3, BindType DEF InsertRequest
    <3>2. revision' \in [RequestIds -> Nat] /\ journal' \in [RequestIds -> Seq(Event)]
      <4>1. AppendLifecycle({r}, "created", "pending", None)
        BY <2>3 DEF InsertRequest
      <4>2. "pending" \in Status /\ {r} \in SUBSET RequestIds
        BY DEF Status
      <4> QED
        BY <4>1, <4>2, AppendLifecycleEffect
    <3>3. form' \in [RequestIds -> Form \cup {None}]
      BY <2>3, InsertedRow
    <3>4. callbacks' \subseteq RequestIds \X Nat
      BY <2>3, <1>r DEF InsertRequest, AppendLifecycle, CallbacksOwed
    <3>5. pushes' \subseteq RequestIds \X Devices
      BY <2>3, <1>r DEF InsertRequest, TypeOK, AccountsTypeOK
    <3>6. origin' \in [RequestIds -> Origins \cup {None}]
      <4>1. d.origin \in Origins \cup {None}
        BY RequestsAssumption DEF Draft
      <4>2. origin' = [origin EXCEPT ![r] = d.origin]
        BY <2>3 DEF InsertRequest
      <4> QED
        BY <1>r, <4>1, <4>2
    <3>7. /\ status' \in [RequestIds -> Status \cup {"absent", "gone"}]
          /\ updatedAt' \in [RequestIds -> 0..MaxTime]
          /\ sent' \in [RequestIds -> Drafts \cup {None}]
      BY <2>3, <1>r, <1>n DEF InsertRequest, Status
    <3>8. UNCHANGED <<decision, userDecisions, nonces>>
      BY <2>3 DEF InsertRequest
    <3> QED
      BY <1>r, <3>1, <3>2, <3>3, <3>4, <3>5, <3>6, <3>7, <3>8
  <2> QED
    BY <2>1, <2>2, <2>3
<1>3. ASSUME NEW caller \in Callers, NEW r \in RequestIds, NEW o \in Origins, BindOrigin(caller, r, o)
      PROVE  Rest'
  BY <1>3, <1>r DEF BindOrigin
<1>4. ASSUME NEW d \in Devices, RecordShared(d) \/ RecordPerUser(d) PROVE Rest'
  <2> DEFINE r == call[d].request
  <2>1. Accepts(d) /\ ClockMayPass
    BY <1>4, RecordEffect
  <2>2. /\ r \in RequestIds /\ call[d].nonce \in Nonces /\ owner[d] \in Users
        /\ Truncate(now') \in 0..MaxTime /\ CallDecision(d) \in Decision
    BY <2>1, AcceptedDecision
  <2>3. PICK st \in {"resolved", "pending"} :
          /\ status' = [status EXCEPT ![r] = st]
          /\ AppendLifecycle({r}, "answer", st, CallDecision(d))
    BY <1>4, RecordEffect
  <2>4. revision' \in [RequestIds -> Nat] /\ journal' \in [RequestIds -> Seq(Event)]
    BY <2>2, <2>3, AppendLifecycleEffect DEF Status
  <2>5. callbacks' \subseteq RequestIds \X Nat
    <3>1. revision[r] + 1 \in Nat
      BY <1>r, <2>2
    <3>2. callbacks' \subseteq callbacks \cup {<<r, revision[r] + 1>>}
      BY <2>3 DEF AppendLifecycle, CallbacksOwed
    <3> QED
      BY <1>r, <2>2, <3>1, <3>2
  <2>6. status' \in [RequestIds -> Status \cup {"absent", "gone"}]
    BY <2>2, <2>3, <1>r DEF Status
  <2>7. nonces' \subseteq Devices \X Nonces
    <3>1. nonces' = nonces \cup {<<d, call[d].nonce>>}
      BY <1>4, RecordEffect
    <3> QED
      BY <1>r, <2>2, <3>1
  <2>8. updatedAt' \in [RequestIds -> 0..MaxTime]
    <3>1. updatedAt' = [updatedAt EXCEPT ![r] = Truncate(now')]
      BY <1>4, RecordEffect
    <3> QED
      BY <1>r, <2>2, <3>1
  <2>9. /\ decision' \in [RequestIds -> Decision \cup {None}]
        /\ userDecisions' \in [RequestIds -> [Users -> Decision \cup {None}]]
    <3>1. CASE decision' = [decision EXCEPT ![r] = CallDecision(d)] /\ UNCHANGED userDecisions
      BY <1>r, <2>2, <3>1
    <3>2. CASE userDecisions' = [userDecisions EXCEPT ![r][owner[d]] = CallDecision(d)] /\ UNCHANGED decision
      BY <1>r, <2>2, <3>2
    <3> QED
      BY <1>4, <3>1, <3>2, RecordEffect
  <2>10. UNCHANGED <<form, origin, idempotency, pushes, acked, sent>>
    BY <1>4, RecordEffect
  <2> QED
    BY <1>r, <2>4, <2>5, <2>6, <2>7, <2>8, <2>9, <2>10
<1>5. ASSUME NEW R \in SUBSET RequestIds, NEW k \in {"cancelled", "expired"}, Closes(R, k)
      PROVE  Rest'
  <2>1. revision' \in [RequestIds -> Nat] /\ journal' \in [RequestIds -> Seq(Event)]
    BY <1>5, AppendLifecycleEffect DEF Closes, Status
  <2>2. callbacks' \subseteq RequestIds \X Nat
    BY <1>5, <1>r DEF Closes, AppendLifecycle, CallbacksOwed
  <2>3. /\ status' \in [RequestIds -> Status \cup {"absent", "gone"}]
        /\ updatedAt' \in [RequestIds -> 0..MaxTime]
    BY <1>5, <1>r, <1>n DEF Closes, Status
  <2>4. UNCHANGED <<form, origin, decision, userDecisions, idempotency, nonces, pushes, acked, sent>>
    BY <1>5 DEF Closes
  <2> QED
    BY <1>r, <2>1, <2>2, <2>3, <2>4
<1>6. ASSUME NEW R \in SUBSET RequestIds, Removes(R) PROVE Rest'
  <2>1. UNCHANGED <<nonces, journal, callbacks, acked, sent>>
    BY <1>6 DEF Removes, DeleteRows
  <2>2. idempotency' \in [Slot -> Binding \cup {None}] /\ pushes' \subseteq RequestIds \X Devices
    BY <1>6, <1>r DEF Removes, DeleteRows, BindingsWithout, PushesWithout
  <2>3. /\ status' \in [RequestIds -> Status \cup {"absent", "gone"}]
        /\ form' \in [RequestIds -> Form \cup {None}]
        /\ origin' \in [RequestIds -> Origins \cup {None}]
        /\ decision' \in [RequestIds -> Decision \cup {None}]
    BY <1>6, <1>r DEF Removes, DeleteRows
  <2>4. userDecisions' \in [RequestIds -> [Users -> Decision \cup {None}]]
    BY <1>6, <1>r DEF Removes, DeleteRows, NoAnswers
  <2>5. revision' \in [RequestIds -> Nat] /\ updatedAt' \in [RequestIds -> 0..MaxTime]
    BY <1>6, <1>r, AccountsAssumption DEF Removes, DeleteRows
  <2> QED
    BY <1>r, <2>1, <2>2, <2>3, <2>4, <2>5
<1> HIDE DEF Rest
<1> QED
  BY StepKinds, <1>1, <1>2, <1>3, <1>4, <1>5, <1>6
-----------------------------------------------------------------------------
(* The invariant.  Beside the properties it needs how the tables of one       *)
(* request fit together, and what the idempotency records know.              *)

(* A stored request has its columns; before and after, nothing of it is left *)
(* but the journal.                                                          *)
RowsMatchStatus ==
    \A r \in RequestIds :
        /\ Exists(r) => form[r] # None
        /\ ~Exists(r) => decision[r] = None /\ userDecisions[r] = NoAnswers /\ revision[r] = 0

(* A shared request is answered in its own row and once, a per-user one in   *)
(* the rows of its recipients.                                               *)
AnswersFitMode ==
    \A r \in RequestIds : Exists(r) =>
        /\ form[r].resolution = "shared" =>
             userDecisions[r] = NoAnswers /\ (Pending(r) => decision[r] = None)
        /\ form[r].resolution = "per_user" => decision[r] = None
        /\ \A u \in Users : userDecisions[r][u] # None => u \in form[r].recipients

(* An idempotency record goes with its request. *)
BindingsAreLive ==
    \A s \in Slot : idempotency[s] # None => Exists(idempotency[s].request)

(* A create that was answered left a record, which stays with its request. *)
AcksAreBound ==
    \A a \in acked :
        /\ status[a.request] # "absent"
        /\ Exists(a.request) =>
             idempotency[<<a.caller, a.draft.channel, a.key>>] =
                 [fingerprint |-> a.draft, request |-> a.request]

PushedDevicesEnrolled == \A p \in pushes : device[p[2]] # "none"

LEMMA RowsStep ==
    ASSUME TypeOK, AccountsInv, RowsMatchStatus, [Next]_vars PROVE RowsMatchStatus'
<1>t. TypeOK'
  BY TypeStep
<1> USE DEF RowsMatchStatus, Exists
<1>1. CASE Quiet
  BY <1>1 DEF Quiet
<1>2. ASSUME NEW caller \in Callers, NEW key \in IdemKeys \cup {None}, NEW d \in Drafts,
             ReplayCreate(caller, key, d) \/ \E r \in RequestIds : DedupeCreate(caller, key, d, r)
      PROVE  RowsMatchStatus'
  BY <1>2 DEF ReplayCreate, DedupeCreate
<1>3. ASSUME NEW caller \in Callers, NEW key \in IdemKeys \cup {None}, NEW d \in Drafts,
             NEW r \in RequestIds, InsertRequest(caller, key, d, r)
      PROVE  RowsMatchStatus'
  <2>1. form'[r] \in Form /\ \A q \in RequestIds \ {r} : form'[q] = form[q]
    BY <1>3, InsertedRow
  <2>2. form'[r] # None
    BY <2>1, NullIsNoRow
  <2>3. status' = [status EXCEPT ![r] = "pending"] /\ UNCHANGED <<decision, userDecisions>>
    BY <1>3 DEF InsertRequest
  <2>4. \A q \in RequestIds \ {r} : revision'[q] = revision[q]
    BY <1>3 DEF InsertRequest, AppendLifecycle, NextRevisions
  <2> QED
    BY <2>1, <2>2, <2>3, <2>4 DEF Status, TypeOK, NoAnswers
<1>4. ASSUME NEW caller \in Callers, NEW r \in RequestIds, NEW o \in Origins, BindOrigin(caller, r, o)
      PROVE  RowsMatchStatus'
  BY <1>4 DEF BindOrigin
<1>5. ASSUME NEW d \in Devices, RecordShared(d) \/ RecordPerUser(d) PROVE RowsMatchStatus'
  <2> DEFINE r == call[d].request
  <2>1. r \in RequestIds /\ Pending(r)
    BY <1>5, RecordEffect, AcceptedDecision
  <2>2. PICK st \in {"resolved", "pending"} :
          /\ status' = [status EXCEPT ![r] = st]
          /\ AppendLifecycle({r}, "answer", st, CallDecision(d))
    BY <1>5, RecordEffect
  <2>3. \A q \in RequestIds \ {r} : revision'[q] = revision[q]
    BY <2>2 DEF AppendLifecycle, NextRevisions
  <2>4. UNCHANGED form
    BY <1>5, RecordEffect
  <2>5. \A q \in RequestIds \ {r} : decision'[q] = decision[q] /\ userDecisions'[q] = userDecisions[q]
    <3>1. CASE decision' = [decision EXCEPT ![r] = CallDecision(d)] /\ UNCHANGED userDecisions
      BY <3>1 DEF TypeOK
    <3>2. CASE userDecisions' = [userDecisions EXCEPT ![r][owner[d]] = CallDecision(d)] /\ UNCHANGED decision
      BY <3>2 DEF TypeOK
    <3> QED
      BY <1>5, <3>1, <3>2, RecordEffect
  <2> QED
    BY <2>1, <2>2, <2>3, <2>4, <2>5 DEF Status, TypeOK, Pending, NoAnswers
<1>6. ASSUME NEW R \in SUBSET RequestIds, NEW k \in {"cancelled", "expired"}, Closes(R, k)
      PROVE  RowsMatchStatus'
  <2>1. \A q \in RequestIds \ R : revision'[q] = revision[q]
    BY <1>6 DEF Closes, AppendLifecycle, NextRevisions
  <2> QED
    BY <1>6, <2>1 DEF Closes, Pending, Status, NoAnswers
<1>7. ASSUME NEW R \in SUBSET RequestIds, Removes(R) PROVE RowsMatchStatus'
  BY <1>7 DEF Removes, DeleteRows, Status, NoAnswers
<1> HIDE DEF RowsMatchStatus
<1> QED
  BY StepKinds, <1>1, <1>2, <1>3, <1>4, <1>5, <1>6, <1>7 DEF CreateStep

LEMMA ModeStep ==
    ASSUME TypeOK, AccountsInv, RowsMatchStatus, AnswersFitMode, [Next]_vars PROVE AnswersFitMode'
<1> USE DEF AnswersFitMode, Exists
<1>1. CASE Quiet
  BY <1>1 DEF Quiet, Pending, NoAnswers
<1>2. ASSUME NEW caller \in Callers, NEW key \in IdemKeys \cup {None}, NEW d \in Drafts,
             ReplayCreate(caller, key, d) \/ \E r \in RequestIds : DedupeCreate(caller, key, d, r)
      PROVE  AnswersFitMode'
  BY <1>2 DEF ReplayCreate, DedupeCreate, Pending, NoAnswers
<1>3. ASSUME NEW caller \in Callers, NEW key \in IdemKeys \cup {None}, NEW d \in Drafts,
             NEW r \in RequestIds, InsertRequest(caller, key, d, r)
      PROVE  AnswersFitMode'
  <2>1. \A q \in RequestIds \ {r} : form'[q] = form[q]
    BY <1>3, InsertedRow
  <2>2. status' = [status EXCEPT ![r] = "pending"] /\ UNCHANGED <<decision, userDecisions>>
    BY <1>3 DEF InsertRequest
  <2>3. decision[r] = None /\ userDecisions[r] = NoAnswers
    BY <1>3 DEF InsertRequest, RowsMatchStatus, Status
  <2> QED
    BY <2>1, <2>2, <2>3 DEF TypeOK, Pending, NoAnswers
<1>4. ASSUME NEW caller \in Callers, NEW r \in RequestIds, NEW o \in Origins, BindOrigin(caller, r, o)
      PROVE  AnswersFitMode'
  BY <1>4 DEF BindOrigin, Pending, NoAnswers
<1>5. ASSUME NEW d \in Devices, RecordShared(d) \/ RecordPerUser(d) PROVE AnswersFitMode'
  <2> DEFINE r == call[d].request
  <2>1. r \in RequestIds /\ Pending(r) /\ owner[d] \in Users
    BY <1>5, RecordEffect, AcceptedDecision
  <2>2. UNCHANGED form /\ owner[d] \in form[r].recipients
    BY <1>5, RecordEffect
  <2>3. CASE /\ form[r].resolution = "shared"
             /\ status' = [status EXCEPT ![r] = "resolved"]
             /\ decision' = [decision EXCEPT ![r] = CallDecision(d)]
             /\ UNCHANGED userDecisions
    BY <2>1, <2>2, <2>3 DEF TypeOK, Pending, Status, NoAnswers
  <2>4. CASE /\ form[r].resolution = "per_user"
             /\ status' = [status EXCEPT ![r] = StatusAfter(r, Decided(r) \cup {owner[d]})]
             /\ userDecisions' = [userDecisions EXCEPT ![r][owner[d]] = CallDecision(d)]
             /\ UNCHANGED decision
    BY <2>1, <2>2, <2>4 DEF TypeOK, Pending, Status, NoAnswers
  <2> QED
    BY <1>5, <2>3, <2>4, RecordEffect
<1>6. ASSUME NEW R \in SUBSET RequestIds, NEW k \in {"cancelled", "expired"}, Closes(R, k)
      PROVE  AnswersFitMode'
  BY <1>6 DEF Closes, Pending, Status, NoAnswers
<1>7. ASSUME NEW R \in SUBSET RequestIds, Removes(R) PROVE AnswersFitMode'
  BY <1>7 DEF Removes, DeleteRows, Pending, Status, NoAnswers
<1> HIDE DEF AnswersFitMode
<1> QED
  BY StepKinds, <1>1, <1>2, <1>3, <1>4, <1>5, <1>6, <1>7 DEF CreateStep
-----------------------------------------------------------------------------
(* The journal. *)

(* Appending an event of an open request keeps its journal in order. *)
LEMMA AppendKeepsOrder ==
    ASSUME TypeOK, RowsMatchStatus, JournalMirrorsRequest, NEW R \in SUBSET RequestIds,
           NEW kind \in {"created", "answer", "cancelled", "expired"},
           NEW st \in Status, NEW dec, Appends(R, kind, st, dec),
           \A r \in R : IF kind = "created" THEN status[r] = "absent" ELSE Pending(r),
           status' = [r \in RequestIds |-> IF r \in R THEN st ELSE status[r]]
    PROVE  JournalMirrorsRequest'
<1> SUFFICES ASSUME NEW r \in RequestIds
             PROVE  (/\ status[r] = "absent" <=> journal[r] = <<>>
                     /\ Exists(r) => /\ revision[r] = Len(journal[r])
                                     /\ status[r] = journal[r][Len(journal[r])].status
                     /\ \A i \in DOMAIN journal[r] :
                          /\ journal[r][i].revision = i
                          /\ journal[r][i].kind = "created" <=> i = 1
                          /\ i < Len(journal[r]) => journal[r][i].status = "pending")'
  BY DEF JournalMirrorsRequest
<1>1. /\ status[r] = "absent" <=> journal[r] = <<>>
      /\ Exists(r) => /\ revision[r] = Len(journal[r])
                      /\ status[r] = journal[r][Len(journal[r])].status
      /\ \A i \in DOMAIN journal[r] :
           /\ journal[r][i].revision = i
           /\ journal[r][i].kind = "created" <=> i = 1
           /\ i < Len(journal[r]) => journal[r][i].status = "pending"
  BY DEF JournalMirrorsRequest
<1>2. CASE r \notin R
  BY <1>1, <1>2 DEF Appends, Exists
<1>3. CASE r \in R
  <2> DEFINE n == Len(journal[r])
  <2>1. /\ n \in Nat /\ revision'[r] = revision[r] + 1 /\ journal'[r] # <<>>
        /\ Len(journal'[r]) = n + 1 /\ DOMAIN journal'[r] = 1..(n + 1) /\ DOMAIN journal[r] = 1..n
        /\ \A i \in 1..n : journal'[r][i] = journal[r][i]
        /\ journal'[r][n + 1] =
             [kind |-> kind, revision |-> revision[r] + 1, status |-> st, decision |-> dec]
    BY <1>3 DEF Appends
  <2>2. status'[r] = st /\ st # "absent"
    BY <1>3 DEF Status
  <2>3. revision[r] = n /\ (kind = "created" <=> n = 0)
    <3>1. CASE kind = "created"
      <4>1. status[r] = "absent" /\ journal[r] = <<>>
        BY <1>1, <1>3, <3>1
      <4>2. n = 0
        BY <4>1
      <4>3. revision[r] = 0
        BY <4>1 DEF RowsMatchStatus, Exists, Status
      <4> QED
        BY <3>1, <4>2, <4>3
    <3>2. CASE kind # "created"
      <4>1. Pending(r) /\ Exists(r)
        BY <1>3, <3>2 DEF Pending, Exists, Status
      <4>2. revision[r] = n /\ journal[r] # <<>>
        BY <1>1, <4>1 DEF Pending
      <4>3. n # 0
        BY <4>2, EmptySeq DEF TypeOK
      <4> QED
        BY <3>2, <4>2, <4>3
    <3> QED
      BY <3>1, <3>2
  <2>4. \A i \in 1..n : journal[r][i].status = "pending"
    <3>1. CASE kind = "created"
      BY <2>1, <2>3, <3>1
    <3>2. CASE kind # "created"
      <4>1. status[r] = "pending" /\ Exists(r)
        BY <1>3, <3>2 DEF Pending, Exists, Status
      <4>2. journal[r][n].status = "pending"
        BY <1>1, <4>1
      <4>3. \A i \in 1..n : i < n => journal[r][i].status = "pending"
        BY <1>1, <2>1
      <4> QED
        BY <2>1, <4>2, <4>3
    <3> QED
      BY <3>1, <3>2
  <2>5. ASSUME NEW i \in 1..(n + 1)
        PROVE  /\ journal'[r][i].revision = i
               /\ journal'[r][i].kind = "created" <=> i = 1
               /\ i < n + 1 => journal'[r][i].status = "pending"
    <3>1. CASE i \in 1..n
      BY <1>1, <2>1, <2>4, <3>1
    <3>2. CASE i = n + 1
      BY <2>1, <2>3, <3>2
    <3> QED
      BY <2>1, <3>1, <3>2
  <2>6. journal'[r][Len(journal'[r])].status = st
    BY <2>1
  <2> HIDE DEF n
  <2> QED
    BY <2>1, <2>2, <2>3, <2>5, <2>6 DEF Exists
<1> QED
  BY <1>2, <1>3

(* Every step but a removal appends to journals, or leaves them alone. *)
LEMMA AppendsOfClose ==
    ASSUME TypeOK, NEW R \in SUBSET RequestIds, NEW k \in {"cancelled", "expired"}, Closes(R, k)
    PROVE  Appends(R, k, k, None)
<1>1. AppendLifecycle(R, k, k, None) /\ k \in Status
  BY DEF Closes, Status
<1> QED
  BY <1>1, AppendLifecycleEffect

LEMMA AppendsOfInsert ==
    ASSUME TypeOK, NEW caller, NEW key, NEW d, NEW r \in RequestIds, InsertRequest(caller, key, d, r)
    PROVE  Appends({r}, "created", "pending", None)
<1>1. AppendLifecycle({r}, "created", "pending", None) /\ "pending" \in Status /\ {r} \in SUBSET RequestIds
  BY DEF InsertRequest, Status
<1> QED
  BY <1>1, AppendLifecycleEffect

LEMMA AppendsOfRecord ==
    ASSUME TypeOK, AccountsInv, NEW d \in Devices, RecordShared(d) \/ RecordPerUser(d)
    PROVE  \E st \in {"resolved", "pending"} :
             /\ Appends({call[d].request}, "answer", st, CallDecision(d))
             /\ status' = [status EXCEPT ![call[d].request] = st]
<1>1. PICK st \in {"resolved", "pending"} :
        /\ AppendLifecycle({call[d].request}, "answer", st, CallDecision(d))
        /\ status' = [status EXCEPT ![call[d].request] = st]
  BY RecordEffect
<1>2. call[d].request \in RequestIds /\ CallDecision(d) \in Decision /\ st \in Status
  BY RecordEffect, AcceptedDecision DEF Status
<1>3. Appends({call[d].request}, "answer", st, CallDecision(d))
  BY <1>1, <1>2, AppendLifecycleEffect
<1> QED
  BY <1>1, <1>3

LEMMA JournalStep ==
    ASSUME TypeOK, AccountsInv, RowsMatchStatus, JournalMirrorsRequest, [Next]_vars
    PROVE  JournalMirrorsRequest'
<1>1. CASE Quiet
  BY <1>1 DEF Quiet, JournalMirrorsRequest, Exists
<1>2. ASSUME NEW caller \in Callers, NEW key \in IdemKeys \cup {None}, NEW d \in Drafts,
             ReplayCreate(caller, key, d) \/ \E r \in RequestIds : DedupeCreate(caller, key, d, r)
      PROVE  JournalMirrorsRequest'
  BY <1>2 DEF ReplayCreate, DedupeCreate, JournalMirrorsRequest, Exists
<1>3. ASSUME NEW caller \in Callers, NEW key \in IdemKeys \cup {None}, NEW d \in Drafts,
             NEW r \in RequestIds, InsertRequest(caller, key, d, r)
      PROVE  JournalMirrorsRequest'
  <2>1. Appends({r}, "created", "pending", None) /\ "pending" \in Status
    BY <1>3, AppendsOfInsert DEF Status
  <2>2. status[r] = "absent" /\ status' = [q \in RequestIds |-> IF q \in {r} THEN "pending" ELSE status[q]]
    BY <1>3 DEF InsertRequest, TypeOK
  <2> QED
    BY <2>1, <2>2, AppendKeepsOrder
<1>4. ASSUME NEW caller \in Callers, NEW r \in RequestIds, NEW o \in Origins, BindOrigin(caller, r, o)
      PROVE  JournalMirrorsRequest'
  BY <1>4 DEF BindOrigin, JournalMirrorsRequest, Exists
<1>5. ASSUME NEW d \in Devices, RecordShared(d) \/ RecordPerUser(d) PROVE JournalMirrorsRequest'
  <2> DEFINE r == call[d].request
  <2>1. r \in RequestIds /\ Pending(r)
    BY <1>5, RecordEffect, AcceptedDecision
  <2>2. PICK st \in {"resolved", "pending"} :
          Appends({r}, "answer", st, CallDecision(d)) /\ status' = [status EXCEPT ![r] = st]
    BY <1>5, AppendsOfRecord
  <2>3. st \in Status /\ status' = [q \in RequestIds |-> IF q \in {r} THEN st ELSE status[q]]
    BY <2>2 DEF Status, TypeOK
  <2>4. /\ {r} \in SUBSET RequestIds
        /\ \A q \in {r} : IF "answer" = "created" THEN status[q] = "absent" ELSE Pending(q)
    BY <2>1
  <2> HIDE DEF r
  <2> QED
    BY <2>2, <2>3, <2>4, AppendKeepsOrder
<1>6. ASSUME NEW R \in SUBSET RequestIds, NEW k \in {"cancelled", "expired"}, Closes(R, k)
      PROVE  JournalMirrorsRequest'
  <2>1. Appends(R, k, k, None) /\ k \in Status
    BY <1>6, AppendsOfClose DEF Status
  <2>2. /\ \A r \in R : Pending(r)
        /\ status' = [q \in RequestIds |-> IF q \in R THEN k ELSE status[q]]
    BY <1>6 DEF Closes
  <2> QED
    BY <2>1, <2>2, AppendKeepsOrder
<1>7. ASSUME NEW R \in SUBSET RequestIds, Removes(R) PROVE JournalMirrorsRequest'
  BY <1>7 DEF Removes, DeleteRows, JournalMirrorsRequest, Exists, Status
<1> QED
  BY StepKinds, <1>1, <1>2, <1>3, <1>4, <1>5, <1>6, <1>7 DEF CreateStep
-----------------------------------------------------------------------------
(* Answers. *)

(* The answers of a journal and their positions; a decision's and its       *)
(* request's tables in the same terms.                                       *)
PositionsIn(s) == {i \in DOMAIN s : s[i].decision # None}
AnswersIn(s) == {s[i].decision : i \in PositionsIn(s)}
StoredIn(dec, each) == ({dec} \cup {each[u] : u \in Users}) \ {None}

LEMMA AnswersAsJournals ==
    ASSUME NEW r \in RequestIds
    PROVE  /\ AnswerEvents(r) = PositionsIn(journal[r]) /\ AnswerEvents(r)' = PositionsIn(journal'[r])
           /\ JournalAnswers(r) = AnswersIn(journal[r]) /\ JournalAnswers(r)' = AnswersIn(journal'[r])
BY DEF AnswerEvents, JournalAnswers, PositionsIn, AnswersIn

(* An event adds its decision to a journal's answers, if it has one. *)
LEMMA AnswersOfAppend ==
    ASSUME NEW s \in Seq(Event), NEW e \in Event
    PROVE  /\ e.decision # None =>
                /\ PositionsIn(Append(s, e)) = PositionsIn(s) \cup {Len(s) + 1}
                /\ AnswersIn(Append(s, e)) = AnswersIn(s) \cup {e.decision}
           /\ e.decision = None =>
                /\ PositionsIn(Append(s, e)) = PositionsIn(s)
                /\ AnswersIn(Append(s, e)) = AnswersIn(s)
<1> DEFINE n == Len(s)
           t == Append(s, e)
<1>1. /\ n \in Nat /\ DOMAIN s = 1..n /\ DOMAIN t = 1..(n + 1)
      /\ \A i \in 1..n : t[i] = s[i]
      /\ t[n + 1] = e
  BY AppendKeeps, LenProperties
<1>2. 1..(n + 1) = 1..n \cup {n + 1} /\ n + 1 \notin 1..n
  BY <1>1
<1> HIDE DEF n, t
<1>3. PositionsIn(t) = PositionsIn(s) \cup (IF e.decision # None THEN {n + 1} ELSE {})
  BY <1>1, <1>2 DEF PositionsIn
<1>4. \A i \in PositionsIn(s) : t[i].decision = s[i].decision
  BY <1>1 DEF PositionsIn
<1>5. CASE e.decision = None
  <2>1. PositionsIn(t) = PositionsIn(s)
    BY <1>3, <1>5
  <2>2. AnswersIn(t) = AnswersIn(s)
    BY <1>4, <2>1 DEF AnswersIn
  <2> QED
    BY <1>5, <2>1, <2>2 DEF t
<1>6. CASE e.decision # None
  <2>1. PositionsIn(t) = PositionsIn(s) \cup {n + 1}
    BY <1>3, <1>6
  <2>2. AnswersIn(t) = AnswersIn(s) \cup {e.decision}
    BY <1>1, <1>4, <2>1 DEF AnswersIn
  <2> QED
    BY <1>6, <2>1, <2>2 DEF n, t
<1> QED
  BY <1>5, <1>6

(* What append_lifecycle_on does to the answers in the journals. *)
SameAnswers(r) ==
    /\ PositionsIn(journal'[r]) = PositionsIn(journal[r])
    /\ AnswersIn(journal'[r]) = AnswersIn(journal[r])

AddsAnswer(r, dec) ==
    /\ PositionsIn(journal'[r]) = PositionsIn(journal[r]) \cup {Len(journal[r]) + 1}
    /\ AnswersIn(journal'[r]) = AnswersIn(journal[r]) \cup {dec}

LEMMA AnswersOfLifecycle ==
    ASSUME TypeOK, NEW R \in SUBSET RequestIds,
           NEW kind \in {"created", "answer", "cancelled", "expired"}, NEW st \in Status,
           NEW dec \in Decision \cup {None}, AppendLifecycle(R, kind, st, dec), NEW r \in RequestIds
    PROVE  /\ r \in R /\ dec # None => AddsAnswer(r, dec)
           /\ r \notin R \/ dec = None => SameAnswers(r)
<1> DEFINE e == [kind |-> kind, revision |-> revision[r] + 1, status |-> st, decision |-> dec]
<1>1. journal[r] \in Seq(Event) /\ revision[r] \in Nat
  BY DEF TypeOK
<1>2. e \in Event /\ e.decision = dec
  <2>1. revision[r] + 1 \in Nat
    BY <1>1
  <2> QED
    BY <2>1 DEF Event
<1>3. journal'[r] = IF r \in R THEN Append(journal[r], e) ELSE journal[r]
  BY DEF AppendLifecycle
<1> HIDE DEF e
<1>4. CASE r \in R
  <2>1. journal'[r] = Append(journal[r], e)
    BY <1>3, <1>4
  <2> QED
    BY <1>1, <1>2, <1>4, <2>1, AnswersOfAppend DEF SameAnswers, AddsAnswer
<1>5. CASE r \notin R
  BY <1>3, <1>5 DEF SameAnswers
<1> QED
  BY <1>4, <1>5

LEMMA AnswersTyped ==
    ASSUME TypeOK, NEW r \in RequestIds
    PROVE  /\ AnswersIn(journal[r]) \subseteq Decision
           /\ journal[r] = <<>> => PositionsIn(journal[r]) = {} /\ AnswersIn(journal[r]) = {}
<1>1. journal[r] \in Seq(Event) /\ Len(journal[r]) \in Nat /\ DOMAIN journal[r] = 1..Len(journal[r])
  BY LenProperties DEF TypeOK
<1>2. ASSUME NEW i \in PositionsIn(journal[r]) PROVE journal[r][i].decision \in Decision
  <2>1. journal[r][i] \in Event /\ journal[r][i].decision # None
    BY <1>1, ElementOfSeq DEF PositionsIn
  <2> QED
    BY <2>1 DEF Event
<1>3. AnswersIn(journal[r]) \subseteq Decision
  BY <1>2 DEF AnswersIn
<1>4. ASSUME journal[r] = <<>> PROVE PositionsIn(journal[r]) = {} /\ AnswersIn(journal[r]) = {}
  BY <1>4 DEF PositionsIn, AnswersIn
<1> QED
  BY <1>3, <1>4

(* The steps that record no decision, and those that do. *)
LEMMA NoAnswerStep ==
    ASSUME TypeOK,
           \/ Quiet
           \/ CreateStep
           \/ \E caller \in Callers, r \in RequestIds, o \in Origins : BindOrigin(caller, r, o)
           \/ \E R \in SUBSET RequestIds, k \in {"cancelled", "expired"} : Closes(R, k)
           \/ \E R \in SUBSET RequestIds : Removes(R),
           NEW r \in RequestIds
    PROVE  SameAnswers(r)
<1>1. ASSUME UNCHANGED journal PROVE SameAnswers(r)
  BY <1>1 DEF SameAnswers
<1>2. CASE Quiet
  BY <1>1, <1>2 DEF Quiet
<1>3. ASSUME NEW caller \in Callers, NEW key \in IdemKeys \cup {None}, NEW d \in Drafts,
             ReplayCreate(caller, key, d) \/ \E q \in RequestIds : DedupeCreate(caller, key, d, q)
      PROVE  SameAnswers(r)
  BY <1>1, <1>3 DEF ReplayCreate, DedupeCreate
<1>4. ASSUME NEW caller \in Callers, NEW key \in IdemKeys \cup {None}, NEW d \in Drafts,
             NEW q \in RequestIds, InsertRequest(caller, key, d, q)
      PROVE  SameAnswers(r)
  <2> DEFINE R == {q}
             k == "created"
             st == "pending"
  <2>1. /\ AppendLifecycle(R, k, st, None)
        /\ R \in SUBSET RequestIds /\ st \in Status
        /\ k \in {"created", "answer", "cancelled", "expired"}
    BY <1>4 DEF InsertRequest, Status
  <2> HIDE DEF R, k, st
  <2> QED
    BY <2>1, AnswersOfLifecycle
<1>5. ASSUME NEW caller \in Callers, NEW q \in RequestIds, NEW o \in Origins, BindOrigin(caller, q, o)
      PROVE  SameAnswers(r)
  BY <1>1, <1>5 DEF BindOrigin
<1>6. ASSUME NEW R \in SUBSET RequestIds, NEW k \in {"cancelled", "expired"}, Closes(R, k)
      PROVE  SameAnswers(r)
  <2>1. AppendLifecycle(R, k, k, None) /\ k \in Status
    BY <1>6 DEF Closes, Status
  <2> QED
    BY <2>1, AnswersOfLifecycle
<1>7. ASSUME NEW R \in SUBSET RequestIds, Removes(R) PROVE SameAnswers(r)
  BY <1>1, <1>7 DEF Removes, DeleteRows
<1>8. CASE CreateStep
  BY <1>3, <1>4, <1>8 DEF CreateStep
<1>9. CASE \E caller \in Callers, q \in RequestIds, o \in Origins : BindOrigin(caller, q, o)
  BY <1>5, <1>9
<1>10. CASE \E R \in SUBSET RequestIds, k \in {"cancelled", "expired"} : Closes(R, k)
  BY <1>6, <1>10
<1>11. CASE \E R \in SUBSET RequestIds : Removes(R)
  BY <1>7, <1>11
<1> QED
  BY <1>2, <1>8, <1>9, <1>10, <1>11

LEMMA AnswerStep ==
    ASSUME TypeOK, AccountsInv, NEW d \in Devices, RecordShared(d) \/ RecordPerUser(d)
    PROVE  LET r == call[d].request
           IN  /\ r \in RequestIds
               /\ AddsAnswer(r, CallDecision(d))
               /\ \A q \in RequestIds \ {r} : SameAnswers(q)
<1> DEFINE r == call[d].request
           R == {r}
           k == "answer"
           dec == CallDecision(d)
<1>1. r \in RequestIds /\ dec # None /\ dec \in Decision
  BY RecordEffect, AcceptedDecision
<1>2. PICK st \in {"resolved", "pending"} : AppendLifecycle(R, k, st, dec)
  BY RecordEffect
<1>3. /\ R \in SUBSET RequestIds /\ st \in Status /\ r \in R /\ \A q \in RequestIds \ {r} : q \notin R
      /\ k \in {"created", "answer", "cancelled", "expired"}
  BY <1>1 DEF Status
<1> HIDE DEF r, R, k, dec
<1>4. AddsAnswer(r, dec)
  BY <1>1, <1>2, <1>3, AnswersOfLifecycle
<1>5. ASSUME NEW q \in RequestIds \ {r} PROVE SameAnswers(q)
  BY <1>1, <1>2, <1>3, AnswersOfLifecycle
<1> QED
  BY <1>1, <1>4, <1>5 DEF r, dec

(* What a step without a decision makes of a row: it keeps it, closes it, or  *)
(* it inserts it.                                                             *)
Kept(r) ==
    /\ Exists(r)
    /\ form'[r] = form[r] /\ decision'[r] = decision[r] /\ userDecisions'[r] = userDecisions[r]
    /\ status'[r] = "pending" => status[r] = "pending"
    /\ status'[r] = "expired" =>
         \/ status[r] = "expired" /\ updatedAt'[r] = updatedAt[r]
         \/ form[r].expires <= updatedAt'[r]

Born(r) ==
    status[r] = "absent" /\ status'[r] = "pending" /\ decision'[r] = None /\ userDecisions'[r] = NoAnswers

NoAnswer ==
    /\ nonces' = nonces /\ callbacks' = callbacks
    /\ \A r \in RequestIds : SameAnswers(r) /\ (status'[r] \in Status => Kept(r) \/ Born(r))

LEMMA StepAnswers ==
    ASSUME TypeOK, AccountsInv, RowsMatchStatus, [Next]_vars
    PROVE  NoAnswer \/ \E d \in Devices : RecordShared(d) \/ RecordPerUser(d)
<1> DEFINE Rows == /\ nonces' = nonces /\ callbacks' = callbacks
                   /\ \A r \in RequestIds : status'[r] \in Status => Kept(r) \/ Born(r)
<1>1. ASSUME Quiet PROVE Rows
  BY <1>1 DEF Quiet, Kept, Exists
<1>2. ASSUME NEW caller \in Callers, NEW key \in IdemKeys \cup {None}, NEW d \in Drafts,
             ReplayCreate(caller, key, d) \/ \E r \in RequestIds : DedupeCreate(caller, key, d, r)
      PROVE  Rows
  BY <1>2 DEF ReplayCreate, DedupeCreate, Kept, Exists
<1>3. ASSUME NEW caller \in Callers, NEW key \in IdemKeys \cup {None}, NEW d \in Drafts,
             NEW r \in RequestIds, InsertRequest(caller, key, d, r)
      PROVE  Rows
  <2>1. \A q \in RequestIds \ {r} : form'[q] = form[q]
    BY <1>3, InsertedRow
  <2>2. /\ status' = [status EXCEPT ![r] = "pending"] /\ status[r] = "absent"
        /\ UNCHANGED <<decision, userDecisions, nonces>>
        /\ updatedAt' = [updatedAt EXCEPT ![r] = NowString]
        /\ callbacks' = callbacks \cup {}
    BY <1>3 DEF InsertRequest, AppendLifecycle, CallbacksOwed
  <2>3. decision[r] = None /\ userDecisions[r] = NoAnswers
    BY <2>2 DEF RowsMatchStatus, Status, Exists
  <2>4. ASSUME NEW q \in RequestIds, status'[q] \in Status PROVE Kept(q) \/ Born(q)
    <3>1. CASE q = r
      BY <2>2, <2>3, <3>1 DEF Born, TypeOK
    <3>2. CASE q # r
      BY <2>1, <2>2, <2>4, <3>2 DEF Kept, Exists, TypeOK
    <3> QED
      BY <3>1, <3>2
  <2> QED
    BY <2>2, <2>4
<1>4. ASSUME NEW caller \in Callers, NEW r \in RequestIds, NEW o \in Origins, BindOrigin(caller, r, o)
      PROVE  Rows
  BY <1>4 DEF BindOrigin, Kept, Exists
<1>5. ASSUME NEW R \in SUBSET RequestIds, NEW k \in {"cancelled", "expired"}, Closes(R, k)
      PROVE  Rows
  <2>1. UNCHANGED nonces /\ callbacks' = callbacks \cup {}
    BY <1>5 DEF Closes, AppendLifecycle, CallbacksOwed
  <2>2. ASSUME NEW q \in RequestIds, status'[q] \in Status PROVE Kept(q)
    BY <1>5, <2>2 DEF Closes, Kept, Exists, Pending, Status
  <2> QED
    BY <2>1, <2>2
<1>6. ASSUME NEW R \in SUBSET RequestIds, Removes(R) PROVE Rows
  BY <1>6 DEF Removes, DeleteRows, Kept, Exists, Status
<1> DEFINE Answer == \E d \in Devices : RecordShared(d) \/ RecordPerUser(d)
<1> HIDE DEF Rows, Answer
<1>c. CreateStep => Rows
  BY <1>2, <1>3 DEF CreateStep
<1>o. (\E caller \in Callers, r \in RequestIds, o \in Origins : BindOrigin(caller, r, o)) => Rows
  BY <1>4
<1>k. (\E R \in SUBSET RequestIds, k \in {"cancelled", "expired"} : Closes(R, k)) => Rows
  BY <1>5
<1>d. (\E R \in SUBSET RequestIds : Removes(R)) => Rows
  BY <1>6
<1>7. Rows \/ Answer
  BY StepKinds, <1>1, <1>c, <1>o, <1>k, <1>d DEF Answer
<1>8. (\A r \in RequestIds : SameAnswers(r)) \/ \E d \in Devices : RecordShared(d) \/ RecordPerUser(d)
  BY StepKinds, NoAnswerStep
<1> QED
  BY <1>7, <1>8 DEF Rows, NoAnswer, Answer
-----------------------------------------------------------------------------
(* The journal's answers are the stored ones. *)
LEMMA StoredAfter ==
    ASSUME NEW dec \in Decision, dec # None
    PROVE  /\ StoredIn(None, NoAnswers) = {}
           /\ \A each \in [Users -> Decision \cup {None}] :
                StoredIn(dec, each) = StoredIn(None, each) \cup {dec}
           /\ \A old \in Decision \cup {None}, each \in [Users -> Decision \cup {None}], u \in Users :
                each[u] = None =>
                  StoredIn(old, [each EXCEPT ![u] = dec]) = StoredIn(old, each) \cup {dec}
<1>1. StoredIn(None, NoAnswers) = {}
  BY DEF StoredIn, NoAnswers
<1>2. ASSUME NEW each \in [Users -> Decision \cup {None}]
      PROVE  StoredIn(dec, each) = StoredIn(None, each) \cup {dec}
  BY DEF StoredIn
<1>3. ASSUME NEW old \in Decision \cup {None}, NEW each \in [Users -> Decision \cup {None}], NEW u \in Users,
             each[u] = None
      PROVE  StoredIn(old, [each EXCEPT ![u] = dec]) = StoredIn(old, each) \cup {dec}
  <2> DEFINE f == [each EXCEPT ![u] = dec]
  <2>1. f[u] = dec /\ \A v \in Users \ {u} : f[v] = each[v]
    OBVIOUS
  <2> HIDE DEF f
  <2>2. {f[v] : v \in Users} \ {None} = ({each[v] : v \in Users} \ {None}) \cup {dec}
    BY <1>3, <2>1
  <2> QED
    BY <2>2 DEF StoredIn, f
<1> QED
  BY <1>1, <1>2, <1>3

LEMMA AnswersRestated ==
    /\ AnswersMatchJournal <=>
         \A r \in RequestIds : status[r] \in Status =>
             AnswersIn(journal[r]) = StoredIn(decision[r], userDecisions[r])
    /\ AnswersMatchJournal' <=>
         \A r \in RequestIds : status'[r] \in Status =>
             AnswersIn(journal'[r]) = StoredIn(decision'[r], userDecisions'[r])
BY AnswersAsJournals DEF AnswersMatchJournal, StoredIn, Exists

LEMMA AnswersMatchStep ==
    ASSUME TypeOK, AccountsInv, RowsMatchStatus, AnswersFitMode, JournalMirrorsRequest,
           AnswersMatchJournal, [Next]_vars
    PROVE  AnswersMatchJournal'
<1> SUFFICES ASSUME NEW r \in RequestIds, status'[r] \in Status
             PROVE  AnswersIn(journal'[r]) = StoredIn(decision'[r], userDecisions'[r])
  BY AnswersRestated
<1>0. status[r] \in Status => AnswersIn(journal[r]) = StoredIn(decision[r], userDecisions[r])
  BY AnswersRestated
<1>1. CASE NoAnswer
  <2>1. AnswersIn(journal'[r]) = AnswersIn(journal[r]) /\ (Kept(r) \/ Born(r))
    BY <1>1 DEF NoAnswer, SameAnswers
  <2>2. CASE Kept(r)
    BY <1>0, <2>1, <2>2 DEF Kept, Exists
  <2>3. CASE Born(r)
    <3>1. journal[r] = <<>>
      BY <2>3 DEF Born, JournalMirrorsRequest
    <3>2. AnswersIn(journal[r]) = {}
      BY <3>1, AnswersTyped
    <3>3. StoredIn(None, NoAnswers) = {}
      BY DEF StoredIn, NoAnswers
    <3> QED
      BY <2>1, <2>3, <3>2, <3>3 DEF Born
  <2> QED
    BY <2>1, <2>2, <2>3
<1>2. ASSUME NEW d \in Devices, RecordShared(d) \/ RecordPerUser(d)
      PROVE  AnswersIn(journal'[r]) = StoredIn(decision'[r], userDecisions'[r])
  <2> DEFINE q == call[d].request
             dec == CallDecision(d)
  <2>1. /\ q \in RequestIds /\ Pending(q) /\ owner[d] \in Users
        /\ dec \in Decision /\ dec # None
    BY <1>2, RecordEffect, AcceptedDecision
  <2>2. AddsAnswer(q, dec) /\ \A x \in RequestIds \ {q} : SameAnswers(x)
    BY <1>2, AnswerStep
  <2>3. /\ decision \in [RequestIds -> Decision \cup {None}]
        /\ userDecisions \in [RequestIds -> [Users -> Decision \cup {None}]]
        /\ status \in [RequestIds -> Status \cup {"absent", "gone"}]
    BY DEF TypeOK
  <2>4. \E st \in {"resolved", "pending"} : status' = [status EXCEPT ![q] = st]
    BY <1>2, RecordEffect
  <2>5. CASE /\ form[q].resolution = "shared"
             /\ decision' = [decision EXCEPT ![q] = dec]
             /\ UNCHANGED userDecisions
    <3>1. decision[q] = None
      BY <2>1, <2>5 DEF AnswersFitMode, Exists, Pending, Status
    <3> HIDE DEF q, dec
    <3>2. CASE r = q
      <4>1. decision'[r] = dec /\ userDecisions'[r] = userDecisions[r] /\ userDecisions[r] \in [Users -> Decision \cup {None}]
        BY <2>1, <2>3, <2>5, <3>2
      <4>2. StoredIn(dec, userDecisions[r]) = StoredIn(None, userDecisions[r]) \cup {dec}
        BY <2>1, <4>1, StoredAfter
      <4>3. AnswersIn(journal[r]) = StoredIn(None, userDecisions[r])
        BY <1>0, <2>1, <3>1, <3>2 DEF Pending, Status
      <4> QED
        BY <2>2, <3>2, <4>1, <4>2, <4>3 DEF AddsAnswer
    <3>3. CASE r # q
      BY <1>0, <2>2, <2>3, <2>4, <2>5, <3>3 DEF SameAnswers
    <3> QED
      BY <3>2, <3>3
  <2>6. CASE /\ userDecisions[q][owner[d]] = None
             /\ userDecisions' = [userDecisions EXCEPT ![q][owner[d]] = dec]
             /\ UNCHANGED decision
    <3> HIDE DEF q, dec
    <3>2. CASE r = q
      <4>1. /\ decision'[r] = decision[r] /\ decision[r] \in Decision \cup {None}
            /\ userDecisions[r] \in [Users -> Decision \cup {None}]
            /\ userDecisions'[r] = [userDecisions[r] EXCEPT ![owner[d]] = dec]
        BY <2>1, <2>3, <2>6, <3>2
      <4>2. StoredIn(decision[r], [userDecisions[r] EXCEPT ![owner[d]] = dec])
              = StoredIn(decision[r], userDecisions[r]) \cup {dec}
        BY <2>1, <2>6, <3>2, <4>1, StoredAfter
      <4>3. AnswersIn(journal[r]) = StoredIn(decision[r], userDecisions[r])
        BY <1>0, <2>1, <3>2 DEF Pending, Status
      <4> QED
        BY <2>2, <3>2, <4>1, <4>2, <4>3 DEF AddsAnswer
    <3>3. CASE r # q
      BY <1>0, <2>2, <2>3, <2>4, <2>6, <3>3 DEF SameAnswers
    <3> QED
      BY <3>2, <3>3
  <2> QED
    BY <1>2, <2>5, <2>6, RecordEffect
<1> QED
  BY <1>1, <1>2, StepAnswers
-----------------------------------------------------------------------------
(* A nonce backs one decision. *)
SpentOnce(spent, j) ==
    /\ \A r \in RequestIds : \A a \in AnswersIn(j[r]) : <<a.device, a.nonce>> \in spent
    /\ \A n \in spent : \E r \in RequestIds : \E a \in AnswersIn(j[r]) : n = <<a.device, a.nonce>>
    /\ \A r, q \in RequestIds : \A a \in AnswersIn(j[r]), b \in AnswersIn(j[q]) :
         a.device = b.device /\ a.nonce = b.nonce => r = q /\ a = b

LEMMA NoncesRestated ==
    /\ NonceAuthorizesOnce <=> SpentOnce(nonces, journal)
    /\ NonceAuthorizesOnce' <=> SpentOnce(nonces', journal')
<1>1. /\ UNION {JournalAnswers(r) : r \in RequestIds} = UNION {AnswersIn(journal[r]) : r \in RequestIds}
      /\ (UNION {JournalAnswers(r) : r \in RequestIds})' = UNION {AnswersIn(journal'[r]) : r \in RequestIds}
  BY AnswersAsJournals
<1>2. NonceAuthorizesOnce <=> SpentOnce(nonces, journal)
  <2>1. SpentOnce(nonces, journal) <=>
          /\ nonces = {<<a.device, a.nonce>> : a \in UNION {AnswersIn(journal[r]) : r \in RequestIds}}
          /\ \A r, q \in RequestIds : \A a \in AnswersIn(journal[r]), b \in AnswersIn(journal[q]) :
               a.device = b.device /\ a.nonce = b.nonce => r = q /\ a = b
    BY DEF SpentOnce
  <2> QED
    BY <1>1, <2>1, AnswersAsJournals DEF NonceAuthorizesOnce
<1>3. NonceAuthorizesOnce' <=> SpentOnce(nonces', journal')
  <2>1. SpentOnce(nonces', journal') <=>
          /\ nonces' = {<<a.device, a.nonce>> : a \in UNION {AnswersIn(journal'[r]) : r \in RequestIds}}
          /\ \A r, q \in RequestIds : \A a \in AnswersIn(journal'[r]), b \in AnswersIn(journal'[q]) :
               a.device = b.device /\ a.nonce = b.nonce => r = q /\ a = b
    BY DEF SpentOnce
  <2> QED
    BY <1>1, <2>1, AnswersAsJournals DEF NonceAuthorizesOnce
<1> QED
  BY <1>2, <1>3

LEMMA NonceStep ==
    ASSUME TypeOK, AccountsInv, RowsMatchStatus, NonceAuthorizesOnce, [Next]_vars
    PROVE  NonceAuthorizesOnce'
<1>0. SpentOnce(nonces, journal)
  BY NoncesRestated
<1> SUFFICES SpentOnce(nonces', journal')
  BY NoncesRestated
<1>1. CASE NoAnswer
  BY <1>0, <1>1 DEF NoAnswer, SameAnswers, SpentOnce
<1>2. ASSUME NEW d \in Devices, RecordShared(d) \/ RecordPerUser(d)
      PROVE  SpentOnce(nonces', journal')
  <2> DEFINE q == call[d].request
             dec == CallDecision(d)
             n == <<d, call[d].nonce>>
  <2>1. q \in RequestIds /\ dec.device = d /\ dec.nonce = call[d].nonce
    BY <1>2, RecordEffect, AcceptedDecision
  <2>2. nonces' = nonces \cup {n} /\ n \notin nonces /\ n = <<dec.device, dec.nonce>>
    BY <1>2, <2>1, RecordEffect
  <2>3. /\ AnswersIn(journal'[q]) = AnswersIn(journal[q]) \cup {dec}
        /\ \A x \in RequestIds \ {q} : AnswersIn(journal'[x]) = AnswersIn(journal[x])
    BY <1>2, AnswerStep DEF AddsAnswer, SameAnswers
  <2> HIDE DEF q, dec, n
  <2>4. \A r \in RequestIds : \A a \in AnswersIn(journal[r]) : <<a.device, a.nonce>> # n
    BY <1>0, <2>2 DEF SpentOnce
  <2>5. \A r \in RequestIds : \A a \in AnswersIn(journal'[r]) :
          a \in AnswersIn(journal[r]) \/ (r = q /\ a = dec)
    BY <2>3
  <2>6. \A r \in RequestIds : \A a \in AnswersIn(journal'[r]) : <<a.device, a.nonce>> \in nonces'
    BY <1>0, <2>2, <2>5 DEF SpentOnce
  <2>7. ASSUME NEW x \in nonces'
        PROVE  \E r \in RequestIds : \E a \in AnswersIn(journal'[r]) : x = <<a.device, a.nonce>>
    <3>1. CASE x = n
      BY <2>1, <2>2, <2>3, <3>1
    <3>2. CASE x \in nonces
      <4>1. PICK r \in RequestIds : \E a \in AnswersIn(journal[r]) : x = <<a.device, a.nonce>>
        BY <1>0, <3>2 DEF SpentOnce
      <4>2. AnswersIn(journal[r]) \subseteq AnswersIn(journal'[r])
        BY <2>3
      <4> QED
        BY <4>1, <4>2
    <3> QED
      BY <2>2, <2>7, <3>1, <3>2
  <2>8. ASSUME NEW r \in RequestIds, NEW s \in RequestIds, NEW a \in AnswersIn(journal'[r]),
               NEW b \in AnswersIn(journal'[s]), a.device = b.device, a.nonce = b.nonce
        PROVE  r = s /\ a = b
    <3>1. <<a.device, a.nonce>> = <<b.device, b.nonce>>
      BY <2>8
    <3> QED
      BY <1>0, <2>2, <2>4, <2>5, <2>8, <3>1 DEF SpentOnce
  <2> QED
    BY <2>6, <2>7, <2>8 DEF SpentOnce
<1> QED
  BY <1>1, <1>2, StepAnswers
-----------------------------------------------------------------------------
(* Dedupe keys. *)
LEMMA DedupeStep ==
    ASSUME TypeOK, AccountsInv, RowsMatchStatus, OnePendingPerDedupeKey, [Next]_vars
    PROVE  OnePendingPerDedupeKey'
<1> USE DEF OnePendingPerDedupeKey, Pending
<1>1. CASE \A r \in RequestIds : status'[r] = "pending" => status[r] = "pending" /\ form'[r] = form[r]
  BY <1>1
<1>2. CASE Quiet
  BY <1>1, <1>2 DEF Quiet
<1>3. ASSUME NEW caller \in Callers, NEW key \in IdemKeys \cup {None}, NEW d \in Drafts,
             ReplayCreate(caller, key, d) \/ \E r \in RequestIds : DedupeCreate(caller, key, d, r)
      PROVE  OnePendingPerDedupeKey'
  BY <1>1, <1>3 DEF ReplayCreate, DedupeCreate
<1>4. ASSUME NEW caller \in Callers, NEW key \in IdemKeys \cup {None}, NEW d \in Drafts,
             NEW r \in RequestIds, InsertRequest(caller, key, d, r)
      PROVE  OnePendingPerDedupeKey'
  <2>1. /\ \A q \in RequestIds \ {r} : form'[q] = form[q]
        /\ form'[r].channel = d.channel /\ form'[r].dedupe = d.dedupe
    BY <1>4, InsertedRow
  <2>2. \A q \in RequestIds : ~(/\ d.dedupe # None /\ status[q] = "pending"
                                /\ form[q].channel = d.channel /\ form[q].dedupe = d.dedupe)
    BY <1>4 DEF InsertRequest, DedupeMatches
  <2>3. \A q \in RequestIds \ {r} : status'[q] = status[q]
    BY <1>4 DEF InsertRequest, TypeOK
  <2> QED
    BY <2>1, <2>2, <2>3
<1>5. ASSUME NEW caller \in Callers, NEW r \in RequestIds, NEW o \in Origins, BindOrigin(caller, r, o)
      PROVE  OnePendingPerDedupeKey'
  BY <1>1, <1>5 DEF BindOrigin
<1>6. ASSUME NEW d \in Devices, RecordShared(d) \/ RecordPerUser(d) PROVE OnePendingPerDedupeKey'
  <2>1. UNCHANGED form /\ \E st \in {"resolved", "pending"} : status' = [status EXCEPT ![call[d].request] = st]
    BY <1>6, RecordEffect
  <2>2. Accepts(d) /\ ClockMayPass
    BY <1>6, RecordEffect
  <2>3. call[d].request \in RequestIds /\ status[call[d].request] = "pending"
    BY <2>2, AcceptedDecision
  <2> QED
    BY <1>1, <2>1, <2>3 DEF TypeOK
<1>7. ASSUME NEW R \in SUBSET RequestIds, NEW k \in {"cancelled", "expired"}, Closes(R, k)
      PROVE  OnePendingPerDedupeKey'
  BY <1>1, <1>7 DEF Closes
<1>8. ASSUME NEW R \in SUBSET RequestIds, Removes(R) PROVE OnePendingPerDedupeKey'
  BY <1>1, <1>8 DEF Removes, DeleteRows
<1> HIDE DEF OnePendingPerDedupeKey
<1> QED
  BY StepKinds, <1>2, <1>3, <1>4, <1>5, <1>6, <1>7, <1>8 DEF CreateStep
-----------------------------------------------------------------------------
(* Idempotency records. *)

(* bind_idempotency writes one record, where the create found none. *)
LEMMA BindEffect ==
    ASSUME TypeOK, NEW caller \in Callers, NEW key \in IdemKeys \cup {None}, NEW d \in Drafts,
           NEW r \in RequestIds, Bind(caller, d, key, r), ~Bound(caller, d, key)
    PROVE  /\ key # None =>
                /\ <<caller, d.channel, key>> \in Slot
                /\ idempotency[<<caller, d.channel, key>>] = None
                /\ idempotency'[<<caller, d.channel, key>>] = [fingerprint |-> d, request |-> r]
           /\ \A s \in Slot :
                idempotency'[s] = idempotency[s] \/ (key # None /\ s = <<caller, d.channel, key>>)
<1>1. key # None => <<caller, d.channel, key>> \in Slot
  BY BindType
<1>2. idempotency \in [Slot -> Binding \cup {None}]
  BY DEF TypeOK
<1>3. key # None => idempotency[<<caller, d.channel, key>>] = None
  BY DEF Bound
<1>4. CASE key = None
  <2>1. idempotency' = idempotency
    BY <1>4 DEF Bind
  <2>2. \A s \in Slot : idempotency'[s] = idempotency[s] \/ (key # None /\ s = <<caller, d.channel, key>>)
    BY <2>1
  <2> QED
    BY <1>4, <2>2
<1>5. CASE key # None
  <2> DEFINE s == <<caller, d.channel, key>>
             b == [fingerprint |-> d, request |-> r]
  <2>1. idempotency' = [idempotency EXCEPT ![s] = b] /\ s \in Slot
    BY <1>1, <1>5 DEF Bind
  <2> HIDE DEF s, b
  <2>2. idempotency'[s] = b /\ \A x \in Slot : x = s \/ idempotency'[x] = idempotency[x]
    BY <1>2, <2>1
  <2>3. \A x \in Slot : idempotency'[x] = idempotency[x] \/ (key # None /\ x = <<caller, d.channel, key>>)
    BY <1>5, <2>2 DEF s
  <2>4. key # None =>
                /\ <<caller, d.channel, key>> \in Slot
                /\ idempotency[<<caller, d.channel, key>>] = None
                /\ idempotency'[<<caller, d.channel, key>>] = [fingerprint |-> d, request |-> r]
    BY <1>1, <1>3, <2>2 DEF s, b
  <2> QED
    BY <2>3, <2>4
<1> QED
  BY <1>4, <1>5

LEMMA BindingsStep ==
    ASSUME TypeOK, AccountsInv, BindingsAreLive, [Next]_vars PROVE BindingsAreLive'
<1> USE DEF BindingsAreLive, Exists
<1>1. CASE /\ \A r \in RequestIds : status[r] \in Status => status'[r] \in Status
           /\ UNCHANGED idempotency
  <2>1. \A s \in Slot : idempotency[s] # None => idempotency[s].request \in RequestIds
    BY DEF TypeOK, Binding
  <2> QED
    BY <1>1, <2>1
<1>2. CASE Quiet
  BY <1>1, <1>2 DEF Quiet
<1>3. ASSUME NEW caller \in Callers, NEW key \in IdemKeys \cup {None}, NEW d \in Drafts,
             ReplayCreate(caller, key, d)
      PROVE  BindingsAreLive'
  BY <1>1, <1>3 DEF ReplayCreate
<1>4. ASSUME NEW caller \in Callers, NEW key \in IdemKeys \cup {None}, NEW d \in Drafts,
             NEW r \in RequestIds, DedupeCreate(caller, key, d, r) \/ InsertRequest(caller, key, d, r)
      PROVE  BindingsAreLive'
  <2>1. Bind(caller, d, key, r) /\ ~Bound(caller, d, key)
    BY <1>4 DEF DedupeCreate, InsertRequest
  <2>2. \/ status' = status /\ status[r] = "pending"
        \/ status' = [status EXCEPT ![r] = "pending"]
    BY <1>4 DEF DedupeCreate, InsertRequest, DedupeMatches, Pending
  <2>3. status'[r] \in Status /\ \A q \in RequestIds : status[q] \in Status => status'[q] \in Status
    BY <2>2 DEF TypeOK, Status
  <2>4. ASSUME NEW s \in Slot, idempotency'[s] # None PROVE status'[idempotency'[s].request] \in Status
    <3>1. CASE key # None /\ s = <<caller, d.channel, key>>
      <4>1. idempotency'[s] = [fingerprint |-> d, request |-> r]
        BY <2>1, <3>1, BindEffect
      <4> QED
        BY <2>3, <4>1
    <3>2. CASE idempotency'[s] = idempotency[s]
      <4>1. idempotency[s].request \in RequestIds
        BY <2>4, <3>2 DEF TypeOK, Binding
      <4> QED
        BY <2>3, <2>4, <3>2, <4>1
    <3>3. idempotency'[s] = idempotency[s] \/ (key # None /\ s = <<caller, d.channel, key>>)
      BY <2>1, BindEffect
    <3> QED
      BY <3>1, <3>2, <3>3
  <2> QED
    BY <2>4
<1>5. ASSUME NEW caller \in Callers, NEW r \in RequestIds, NEW o \in Origins, BindOrigin(caller, r, o)
      PROVE  BindingsAreLive'
  BY <1>1, <1>5 DEF BindOrigin
<1>6. ASSUME NEW d \in Devices, RecordShared(d) \/ RecordPerUser(d) PROVE BindingsAreLive'
  <2>1. UNCHANGED idempotency /\ \E st \in {"resolved", "pending"} : status' = [status EXCEPT ![call[d].request] = st]
    BY <1>6, RecordEffect
  <2> QED
    BY <1>1, <2>1 DEF TypeOK, Status
<1>7. ASSUME NEW R \in SUBSET RequestIds, NEW k \in {"cancelled", "expired"}, Closes(R, k)
      PROVE  BindingsAreLive'
  BY <1>1, <1>7 DEF Closes, Status
<1>8. ASSUME NEW R \in SUBSET RequestIds, Removes(R) PROVE BindingsAreLive'
  <2>1. /\ idempotency' = BindingsWithout(R)
        /\ \A r \in RequestIds \ R : status'[r] = status[r]
    BY <1>8 DEF Removes, DeleteRows
  <2>2. \A s \in Slot : idempotency'[s] # None =>
          idempotency'[s] = idempotency[s] /\ idempotency[s].request \notin R
    BY <2>1 DEF BindingsWithout
  <2>3. \A s \in Slot : idempotency[s] # None => idempotency[s].request \in RequestIds
    BY DEF TypeOK, Binding
  <2> QED
    BY <2>1, <2>2, <2>3
<1> HIDE DEF BindingsAreLive
<1> QED
  BY StepKinds, <1>2, <1>3, <1>4, <1>5, <1>6, <1>7, <1>8 DEF CreateStep

LEMMA AcksStep ==
    ASSUME TypeOK, AccountsInv, BindingsAreLive, AcksAreBound, [Next]_vars PROVE AcksAreBound'
<1> DEFINE slot(a) == <<a.caller, a.draft.channel, a.key>>
           bound(a) == [fingerprint |-> a.draft, request |-> a.request]
<1>0. \A a \in acked : a.request \in RequestIds /\ slot(a) \in Slot /\ bound(a) \in Binding /\ bound(a) # None
  <2>1. \A a \in acked : a.caller \in Callers /\ a.key \in IdemKeys /\ a.draft \in Drafts /\ a.request \in RequestIds
    BY DEF TypeOK, Ack
  <2>2. \A a \in acked : a.draft.channel \in Channels
    BY <2>1, RequestsAssumption DEF Draft
  <2>3. \A a \in acked : bound(a) \in Binding
    BY <2>1 DEF Binding
  <2> QED
    BY <2>1, <2>2, <2>3, NullIsNoRow DEF Slot
<1>a. \A a \in acked : /\ status[a.request] # "absent"
                       /\ status[a.request] \in Status => idempotency[slot(a)] = bound(a)
  BY DEF AcksAreBound, Exists
<1>g. ASSUME \A a \in acked' : /\ status'[a.request] # "absent"
                               /\ status'[a.request] \in Status => idempotency'[slot(a)] = bound(a)
      PROVE  AcksAreBound'
  BY <1>g DEF AcksAreBound, Exists
<1> HIDE DEF slot, bound
<1>1. ASSUME UNCHANGED <<acked, idempotency>>,
             \A r \in RequestIds : status[r] # "absent" => status'[r] # "absent",
             \A r \in RequestIds : status'[r] \in Status => status[r] \in Status \cup {"absent"}
      PROVE  AcksAreBound'
  BY <1>0, <1>1, <1>a, <1>g
<1>2. CASE Quiet
  BY <1>1, <1>2 DEF Quiet
<1>3. ASSUME NEW caller \in Callers, NEW key \in IdemKeys \cup {None}, NEW d \in Drafts,
             ReplayCreate(caller, key, d)
      PROVE  AcksAreBound'
  <2> DEFINE b == idempotency[<<caller, d.channel, key>>]
             a == [caller |-> caller, key |-> key, draft |-> d, request |-> b.request]
  <2>1. /\ key # None /\ b # None /\ b.fingerprint = d
        /\ acked' = acked \cup {a}
        /\ UNCHANGED <<status, idempotency>>
    BY <1>3 DEF ReplayCreate, Bound, Acknowledge
  <2>2. <<caller, d.channel, key>> \in Slot
    BY <2>1, RequestsAssumption DEF Draft, Slot
  <2>3. b \in Binding /\ status[b.request] \in Status
    BY <2>1, <2>2 DEF TypeOK, BindingsAreLive, Exists
  <2>4. b = [fingerprint |-> d, request |-> b.request]
    BY <2>1, <2>3 DEF Binding
  <2>5. idempotency[slot(a)] = bound(a) /\ a.request = b.request
    BY <2>4 DEF slot, bound
  <2> HIDE DEF a, b
  <2>6. status[a.request] # "absent"
    BY <2>3, <2>5 DEF Status
  <2> QED
    BY <1>a, <1>g, <2>1, <2>5, <2>6
<1>4. ASSUME NEW caller \in Callers, NEW key \in IdemKeys \cup {None}, NEW d \in Drafts,
             NEW r \in RequestIds, DedupeCreate(caller, key, d, r) \/ InsertRequest(caller, key, d, r)
      PROVE  AcksAreBound'
  <2> DEFINE a == [caller |-> caller, key |-> key, draft |-> d, request |-> r]
             s == <<caller, d.channel, key>>
  <2>1. /\ Bind(caller, d, key, r) /\ ~Bound(caller, d, key)
        /\ acked' = IF key = None THEN acked ELSE acked \cup {a}
    BY <1>4 DEF DedupeCreate, InsertRequest, Acknowledge
  <2>2. \/ status' = status /\ status[r] = "pending"
        \/ status' = [status EXCEPT ![r] = "pending"] /\ status[r] = "absent"
    BY <1>4 DEF DedupeCreate, InsertRequest, DedupeMatches, Pending
  <2>3. status'[r] = "pending" /\ \A q \in RequestIds : status[q] # "absent" => status'[q] = status[q]
    BY <2>2 DEF TypeOK
  <2>4. key # None => idempotency[s] = None /\ idempotency'[s] = [fingerprint |-> d, request |-> r]
    BY <2>1, BindEffect
  <2>5. \A x \in Slot : idempotency'[x] = idempotency[x] \/ (key # None /\ x = s)
    BY <2>1, BindEffect
  <2>6. slot(a) = s /\ bound(a) = [fingerprint |-> d, request |-> r] /\ a.request = r
    BY DEF slot, bound
  <2> HIDE DEF a, s
  <2>7. ASSUME NEW x \in acked'
        PROVE  status'[x.request] # "absent" /\ (status'[x.request] \in Status => idempotency'[slot(x)] = bound(x))
    <3>1. CASE x \in acked
      BY <1>0, <1>a, <2>3, <2>4, <2>5, <3>1
    <3>2. CASE key # None /\ x = a
      BY <2>3, <2>4, <2>6, <3>2
    <3> QED
      BY <2>1, <2>7, <3>1, <3>2
  <2> QED
    BY <1>g, <2>7
<1>5. ASSUME NEW caller \in Callers, NEW r \in RequestIds, NEW o \in Origins, BindOrigin(caller, r, o)
      PROVE  AcksAreBound'
  BY <1>1, <1>5 DEF BindOrigin
<1>6. ASSUME NEW d \in Devices, RecordShared(d) \/ RecordPerUser(d) PROVE AcksAreBound'
  <2>1. UNCHANGED <<idempotency, acked>> /\ \E st \in {"resolved", "pending"} : status' = [status EXCEPT ![call[d].request] = st]
    BY <1>6, RecordEffect
  <2>2. Accepts(d) /\ ClockMayPass
    BY <1>6, RecordEffect
  <2>3. call[d].request \in RequestIds /\ Pending(call[d].request)
    BY <2>2, AcceptedDecision
  <2> QED
    BY <1>1, <2>1, <2>3 DEF TypeOK, Status, Pending
<1>7. ASSUME NEW R \in SUBSET RequestIds, NEW k \in {"cancelled", "expired"}, Closes(R, k)
      PROVE  AcksAreBound'
  BY <1>1, <1>7 DEF Closes, Status, Pending
<1>8. ASSUME NEW R \in SUBSET RequestIds, Removes(R) PROVE AcksAreBound'
  <2>1. /\ idempotency' = BindingsWithout(R) /\ UNCHANGED acked
        /\ \A r \in RequestIds : status'[r] = IF r \in R THEN "gone" ELSE status[r]
    BY <1>8 DEF Removes, DeleteRows
  <2>2. \A s \in Slot : idempotency[s] # None /\ idempotency[s].request \notin R => idempotency'[s] = idempotency[s]
    BY <2>1 DEF BindingsWithout
  <2>3. \A x : bound(x).request = x.request
    BY DEF bound
  <2> QED
    BY <1>0, <1>a, <1>g, <2>1, <2>2, <2>3 DEF Status
<1> QED
  BY StepKinds, <1>2, <1>3, <1>4, <1>5, <1>6, <1>7, <1>8 DEF CreateStep

(* Two successful creates with one key share the key's one record. *)
LEMMA RepliesFromAcks == AcksAreBound => IdempotentReplies
<1> SUFFICES ASSUME AcksAreBound, NEW a \in acked, NEW b \in acked, a.key = b.key, a.caller = b.caller,
                    a.draft.channel = b.draft.channel, Exists(a.request), Exists(b.request)
             PROVE  a.request = b.request /\ a.draft = b.draft
  BY DEF IdempotentReplies
<1>1. [fingerprint |-> a.draft, request |-> a.request] = [fingerprint |-> b.draft, request |-> b.request]
  BY DEF AcksAreBound
<1> QED
  BY <1>1
-----------------------------------------------------------------------------
(* Callback obligations. *)
OwedIn(owed, r) == {p[2] : p \in {x \in owed : x[1] = r}}

LEMMA CallbacksRestated ==
    /\ CallbackPerAnswer <=>
         \A r \in RequestIds :
             /\ OwedIn(callbacks, r) \subseteq PositionsIn(journal[r])
             /\ status[r] \in Status =>
                  OwedIn(callbacks, r) = IF form[r].callback THEN PositionsIn(journal[r]) ELSE {}
    /\ CallbackPerAnswer' <=>
         \A r \in RequestIds :
             /\ OwedIn(callbacks', r) \subseteq PositionsIn(journal'[r])
             /\ status'[r] \in Status =>
                  OwedIn(callbacks', r) = IF form'[r].callback THEN PositionsIn(journal'[r]) ELSE {}
BY AnswersAsJournals DEF CallbackPerAnswer, OwedIn, Exists

LEMMA CallbackStep ==
    ASSUME TypeOK, AccountsInv, RowsMatchStatus, JournalMirrorsRequest, CallbackPerAnswer, [Next]_vars
    PROVE  CallbackPerAnswer'
<1> SUFFICES ASSUME NEW r \in RequestIds
             PROVE  /\ OwedIn(callbacks', r) \subseteq PositionsIn(journal'[r])
                    /\ status'[r] \in Status =>
                         OwedIn(callbacks', r) = IF form'[r].callback THEN PositionsIn(journal'[r]) ELSE {}
  BY CallbacksRestated
<1>0. /\ OwedIn(callbacks, r) \subseteq PositionsIn(journal[r])
      /\ status[r] \in Status =>
           OwedIn(callbacks, r) = IF form[r].callback THEN PositionsIn(journal[r]) ELSE {}
  BY CallbacksRestated
<1>1. CASE NoAnswer
  <2>1. /\ PositionsIn(journal'[r]) = PositionsIn(journal[r]) /\ callbacks' = callbacks
        /\ status'[r] \in Status => Kept(r) \/ Born(r)
    BY <1>1 DEF NoAnswer, SameAnswers
  <2>2. CASE Kept(r)
    BY <1>0, <2>1, <2>2 DEF Kept, Exists
  <2>3. CASE Born(r)
    <3>1. journal[r] = <<>>
      BY <2>3 DEF Born, JournalMirrorsRequest
    <3>2. PositionsIn(journal[r]) = {}
      BY <3>1, AnswersTyped
    <3> QED
      BY <1>0, <2>1, <3>2
  <2> QED
    BY <1>0, <2>1, <2>2, <2>3
<1>2. ASSUME NEW d \in Devices, RecordShared(d) \/ RecordPerUser(d)
      PROVE  /\ OwedIn(callbacks', r) \subseteq PositionsIn(journal'[r])
             /\ status'[r] \in Status =>
                  OwedIn(callbacks', r) = IF form'[r].callback THEN PositionsIn(journal'[r]) ELSE {}
  <2> DEFINE q == call[d].request
             n == Len(journal[q]) + 1
  <2>1. q \in RequestIds /\ Pending(q) /\ CallDecision(d) # None
    BY <1>2, RecordEffect, AcceptedDecision
  <2>2. /\ PositionsIn(journal'[q]) = PositionsIn(journal[q]) \cup {n}
        /\ \A x \in RequestIds \ {q} : PositionsIn(journal'[x]) = PositionsIn(journal[x])
    BY <1>2, AnswerStep DEF AddsAnswer, SameAnswers
  <2>3. /\ UNCHANGED form
        /\ \E st \in {"resolved", "pending"} : status' = [status EXCEPT ![q] = st]
    BY <1>2, RecordEffect
  <2>4. callbacks' = callbacks \cup CallbacksOwed({q}, CallDecision(d))
    BY <1>2, RecordEffect DEF AppendLifecycle
  <2>5. CallbacksOwed({q}, CallDecision(d)) = IF form[q].callback THEN {<<q, revision[q] + 1>>} ELSE {}
    <3>1. {x \in {q} : form[x].callback} = IF form[q].callback THEN {q} ELSE {}
      OBVIOUS
    <3> QED
      BY <2>1, <3>1 DEF CallbacksOwed
  <2>6. revision[q] = Len(journal[q])
    BY <2>1 DEF JournalMirrorsRequest, Exists, Pending, Status
  <2>7. callbacks' = IF form[q].callback THEN callbacks \cup {<<q, n>>} ELSE callbacks
    BY <2>4, <2>5, <2>6
  <2>8. status[q] \in Status /\ \A x \in RequestIds \ {q} : status'[x] = status[x]
    BY <2>1, <2>3 DEF TypeOK, Pending, Status
  <2> HIDE DEF q, n
  <2>9. CASE r = q
    <3>1. OwedIn(callbacks', r) = IF form[q].callback THEN OwedIn(callbacks, r) \cup {n} ELSE OwedIn(callbacks, r)
      <4>1. OwedIn(callbacks \cup {<<q, n>>}, q) = OwedIn(callbacks, q) \cup {n}
        <5>1. <<q, n>>[1] = q /\ <<q, n>>[2] = n
          OBVIOUS
        <5> QED
          BY <5>1 DEF OwedIn
      <4>2. CASE form[q].callback
        BY <2>7, <2>9, <4>1, <4>2
      <4>3. CASE ~form[q].callback
        BY <2>7, <2>9, <4>3
      <4> QED
        BY <4>2, <4>3
    <3> QED
      BY <1>0, <2>2, <2>3, <2>8, <2>9, <3>1
  <2>10. CASE r # q
    <3>1. OwedIn(callbacks', r) = OwedIn(callbacks, r)
      BY <2>7, <2>10 DEF OwedIn
    <3> QED
      BY <1>0, <2>2, <2>3, <2>8, <2>10, <3>1
  <2> QED
    BY <2>9, <2>10
<1> QED
  BY <1>1, <1>2, StepAnswers
-----------------------------------------------------------------------------
(* Push rows. *)

(* A device keeps its owner once enrolled. *)
LEMMA EnrolledStay ==
    ASSUME AccountsTypeOK, [AccountsNext]_accountVars, NEW d \in Devices, device[d] # "none"
    PROVE  device'[d] # "none" /\ owner'[d] = owner[d]
<1>1. CASE UNCHANGED <<device, owner>>
  BY <1>1
<1>2. ASSUME NEW c \in Codes, NEW e \in Devices, NEW push \in BOOLEAN, EnrollDevice(c, e, push)
      PROVE  device'[d] # "none" /\ owner'[d] = owner[d]
  BY <1>2 DEF EnrollDevice, AccountsTypeOK
<1>3. ASSUME NEW e \in Devices, RevokeDevice(e) PROVE device'[d] # "none" /\ owner'[d] = owner[d]
  BY <1>3 DEF RevokeDevice, AccountsTypeOK
<1>4. CASE UNCHANGED accountVars
  BY <1>1, <1>4 DEF accountVars
<1> QED
  BY <1>1, <1>2, <1>3, <1>4 DEF AccountsNext, AccountsStep, Tick, CreateUser, CheckCodeUser,
     CheckSubscription, SubscribeToDefault, WriteSubscription, InsertCode, DeleteUser, CreateChannel,
     UpdatePushToken, DropChannel, Restart

PushInv == PushesReachRecipients /\ PushedDevicesEnrolled

LEMMA PushStep ==
    ASSUME TypeOK, AccountsInv, PushInv, [Next]_vars PROVE PushInv'
<1>e. ASSUME NEW d \in Devices, device[d] # "none" PROVE device'[d] # "none" /\ owner'[d] = owner[d]
  BY <1>e, AccountsOfStep, EnrolledStay DEF AccountsInv
<1>p. \A p \in pushes : /\ p[1] \in RequestIds /\ p[2] \in Devices /\ device[p[2]] # "none"
                        /\ status[p[1]] \in Status /\ owner[p[2]] \in form[p[1]].recipients
  BY DEF TypeOK, PushInv, PushesReachRecipients, PushedDevicesEnrolled, Exists
<1>g. ASSUME \A p \in pushes' : /\ device'[p[2]] # "none"
                                /\ status'[p[1]] \in Status /\ owner'[p[2]] \in form'[p[1]].recipients
      PROVE  PushInv'
  BY <1>g DEF PushInv, PushesReachRecipients, PushedDevicesEnrolled, Exists
<1>1. ASSUME pushes' \subseteq pushes,
             \A p \in pushes' : status'[p[1]] \in Status /\ form'[p[1]] = form[p[1]]
      PROVE  PushInv'
  BY <1>e, <1>p, <1>g, <1>1
<1>2. CASE Quiet
  BY <1>1, <1>2, <1>p DEF Quiet
<1>3. ASSUME NEW caller \in Callers, NEW key \in IdemKeys \cup {None}, NEW d \in Drafts,
             ReplayCreate(caller, key, d) \/ \E r \in RequestIds : DedupeCreate(caller, key, d, r)
      PROVE  PushInv'
  BY <1>1, <1>3, <1>p DEF ReplayCreate, DedupeCreate
<1>4. ASSUME NEW caller \in Callers, NEW key \in IdemKeys \cup {None}, NEW d \in Drafts,
             NEW r \in RequestIds, InsertRequest(caller, key, d, r)
      PROVE  PushInv'
  <2> DEFINE new == {x \in registered : device[x] = "active" /\ owner[x] \in Recipients(d)}
  <2>1. form'[r].recipients = Recipients(d) /\ \A q \in RequestIds \ {r} : form'[q] = form[q]
    BY <1>4, InsertedRow
  <2>2. /\ status' = [status EXCEPT ![r] = "pending"] /\ status[r] = "absent"
        /\ pushes' = pushes \cup {<<r, e>> : e \in new}
        /\ UNCHANGED <<device, owner>>
    BY <1>4 DEF InsertRequest, accountVars
  <2>3. status'[r] \in Status /\ \A q \in RequestIds \ {r} : status'[q] = status[q]
    BY <2>2 DEF TypeOK, Status
  <2>4. \A p \in pushes : p[1] # r
    BY <1>p, <2>2 DEF Status
  <2>5. \A e \in new : device[e] # "none" /\ owner[e] \in Recipients(d)
    OBVIOUS
  <2> HIDE DEF new
  <2>6. ASSUME NEW p \in pushes'
        PROVE  device'[p[2]] # "none" /\ status'[p[1]] \in Status /\ owner'[p[2]] \in form'[p[1]].recipients
    <3>1. CASE p \in pushes
      BY <1>p, <2>1, <2>2, <2>3, <2>4, <3>1
    <3>2. CASE \E e \in new : p = <<r, e>>
      <4>1. PICK e \in new : p = <<r, e>>
        BY <3>2
      <4>2. p[1] = r /\ p[2] = e
        BY <4>1
      <4> QED
        BY <2>1, <2>2, <2>3, <2>5, <4>2
    <3> QED
      BY <2>2, <2>6, <3>1, <3>2
  <2> QED
    BY <1>g, <2>6
<1>5. ASSUME NEW caller \in Callers, NEW r \in RequestIds, NEW o \in Origins, BindOrigin(caller, r, o)
      PROVE  PushInv'
  BY <1>1, <1>5, <1>p DEF BindOrigin
<1>6. ASSUME NEW d \in Devices, RecordShared(d) \/ RecordPerUser(d) PROVE PushInv'
  <2>1. UNCHANGED <<form, pushes>> /\ \E st \in {"resolved", "pending"} : status' = [status EXCEPT ![call[d].request] = st]
    BY <1>6, RecordEffect
  <2> QED
    BY <1>1, <1>p, <2>1 DEF TypeOK, Status
<1>7. ASSUME NEW R \in SUBSET RequestIds, NEW k \in {"cancelled", "expired"}, Closes(R, k)
      PROVE  PushInv'
  BY <1>1, <1>7, <1>p DEF Closes, Status
<1>8. ASSUME NEW R \in SUBSET RequestIds, Removes(R) PROVE PushInv'
  BY <1>1, <1>8, <1>p DEF Removes, DeleteRows, PushesWithout
<1> QED
  BY StepKinds, <1>2, <1>3, <1>4, <1>5, <1>6, <1>7, <1>8 DEF CreateStep
-----------------------------------------------------------------------------
(* Journals only grow. *)
JournalsGrow ==
    \A r \in RequestIds :
        /\ Len(journal[r]) <= Len(journal'[r])
        /\ \A i \in DOMAIN journal[r] : journal'[r][i] = journal[r][i]

LEMMA AppendsGrow ==
    ASSUME TypeOK, NEW R \in SUBSET RequestIds, NEW kind, NEW st, NEW dec, Appends(R, kind, st, dec)
    PROVE  JournalsGrow
<1> SUFFICES ASSUME NEW r \in RequestIds
             PROVE  /\ Len(journal[r]) <= Len(journal'[r])
                    /\ \A i \in DOMAIN journal[r] : journal'[r][i] = journal[r][i]
  BY DEF JournalsGrow
<1>1. Len(journal[r]) \in Nat
  BY LenProperties DEF TypeOK
<1>2. CASE r \in R
  <2>1. /\ Len(journal'[r]) = Len(journal[r]) + 1
        /\ DOMAIN journal[r] = 1..Len(journal[r])
        /\ \A i \in 1..Len(journal[r]) : journal'[r][i] = journal[r][i]
    BY <1>2 DEF Appends
  <2> QED
    BY <1>1, <2>1
<1>3. CASE r \notin R
  <2>1. journal'[r] = journal[r]
    BY <1>3 DEF Appends
  <2> QED
    BY <1>1, <2>1
<1> QED
  BY <1>2, <1>3

LEMMA JournalsGrowStep ==
    ASSUME TypeOK, AccountsInv, [Next]_vars PROVE JournalsGrow
<1>1. ASSUME UNCHANGED journal PROVE JournalsGrow
  <2>1. \A r \in RequestIds : Len(journal[r]) \in Nat
    BY LenProperties DEF TypeOK
  <2> QED
    BY <1>1, <2>1 DEF JournalsGrow
<1>2. CASE Quiet
  BY <1>1, <1>2 DEF Quiet
<1>3. ASSUME NEW caller \in Callers, NEW key \in IdemKeys \cup {None}, NEW d \in Drafts,
             ReplayCreate(caller, key, d) \/ \E r \in RequestIds : DedupeCreate(caller, key, d, r)
      PROVE  JournalsGrow
  BY <1>1, <1>3 DEF ReplayCreate, DedupeCreate
<1>4. ASSUME NEW caller \in Callers, NEW key \in IdemKeys \cup {None}, NEW d \in Drafts,
             NEW r \in RequestIds, InsertRequest(caller, key, d, r)
      PROVE  JournalsGrow
  BY <1>4, AppendsOfInsert, AppendsGrow
<1>5. ASSUME NEW caller \in Callers, NEW q \in RequestIds, NEW o \in Origins, BindOrigin(caller, q, o)
      PROVE  JournalsGrow
  BY <1>1, <1>5 DEF BindOrigin
<1>6. ASSUME NEW d \in Devices, RecordShared(d) \/ RecordPerUser(d) PROVE JournalsGrow
  <2>1. call[d].request \in RequestIds
    BY <1>6, AnswerStep
  <2> QED
    BY <1>6, <2>1, AppendsOfRecord, AppendsGrow
<1>7. ASSUME NEW R \in SUBSET RequestIds, NEW k \in {"cancelled", "expired"}, Closes(R, k)
      PROVE  JournalsGrow
  BY <1>7, AppendsOfClose, AppendsGrow
<1>8. ASSUME NEW R \in SUBSET RequestIds, Removes(R) PROVE JournalsGrow
  BY <1>1, <1>8 DEF Removes, DeleteRows
<1>c. CreateStep => JournalsGrow
  BY <1>3, <1>4 DEF CreateStep
<1>o. (\E caller \in Callers, r \in RequestIds, o \in Origins : BindOrigin(caller, r, o)) => JournalsGrow
  BY <1>5
<1>a. (\E d \in Devices : RecordShared(d) \/ RecordPerUser(d)) => JournalsGrow
  BY <1>6
<1>k. (\E R \in SUBSET RequestIds, k \in {"cancelled", "expired"} : Closes(R, k)) => JournalsGrow
  BY <1>7
<1>d. (\E R \in SUBSET RequestIds : Removes(R)) => JournalsGrow
  BY <1>8
<1> QED
  BY StepKinds, <1>2, <1>c, <1>o, <1>a, <1>k, <1>d

-----------------------------------------------------------------------------
(* Deadlines. *)

(* The clock does not run backwards. *)
LEMMA ClockRuns ==
    ASSUME TypeOK, [Next]_vars PROVE now \in Nat /\ now' \in Nat /\ now <= now'
<1>1. now \in Nat /\ MaxTime \in Nat
  BY AccountsAssumption DEF TypeOK, AccountsTypeOK
<1>2. [AccountsNext]_accountVars
  BY AccountsOfStep
<1>3. CASE Tick
  BY <1>1, <1>3 DEF Tick
<1>4. CASE UNCHANGED now
  BY <1>1, <1>4
<1> QED
  BY <1>2, <1>3, <1>4 DEF accountVars, AccountsNext, AccountsStep, CreateUser, CheckCodeUser,
     CheckSubscription, SubscribeToDefault, WriteSubscription, InsertCode, DeleteUser, CreateChannel,
     EnrollDevice, RevokeDevice, UpdatePushToken, DropChannel, Restart

(* What a journal s says of a deadline x. *)
InTime(s, x) ==
    \A i \in PositionsIn(s) :
        /\ s[i].decision.checked < x
        /\ \A j \in PositionsIn(s) : i < j => s[i].decision.at < x

AnswersArePast == \A r \in RequestIds : \A i \in PositionsIn(journal[r]) : journal[r][i].decision.at <= now

LEMMA DeadlinesRestated ==
    /\ DeadlineSeparates <=>
         \A r \in RequestIds : status[r] \in Status /\ form[r].expires # None =>
             /\ InTime(journal[r], form[r].expires)
             /\ status[r] = "expired" => form[r].expires <= updatedAt[r]
    /\ DeadlineSeparates' <=>
         \A r \in RequestIds : status'[r] \in Status /\ form'[r].expires # None =>
             /\ InTime(journal'[r], form'[r].expires)
             /\ status'[r] = "expired" => form'[r].expires <= updatedAt'[r]
BY AnswersAsJournals DEF DeadlineSeparates, Exists, InTime, AnswersIn

(* The answers a journal had, it still has, at their places. *)
LEMMA OldAnswersStay ==
    ASSUME TypeOK, AccountsInv, [Next]_vars, NEW r \in RequestIds, NEW i \in PositionsIn(journal[r])
    PROVE  journal'[r][i] = journal[r][i]
BY JournalsGrowStep DEF JournalsGrow, PositionsIn

(* A recorded answer goes to the end of its journal. *)
LEMMA AnswerGoesLast ==
    ASSUME TypeOK, AccountsInv, NEW d \in Devices, RecordShared(d) \/ RecordPerUser(d)
    PROVE  LET r == call[d].request
               n == Len(journal[r]) + 1
           IN  /\ n \in Nat /\ \A i \in PositionsIn(journal[r]) : i \in Nat /\ i < n
               /\ PositionsIn(journal'[r]) = PositionsIn(journal[r]) \cup {n}
               /\ journal'[r][n].decision = CallDecision(d)
<1> DEFINE r == call[d].request
<1>1. r \in RequestIds /\ AddsAnswer(r, CallDecision(d))
  BY AnswerStep
<1>2. PICK st \in {"resolved", "pending"} : Appends({r}, "answer", st, CallDecision(d))
  BY AppendsOfRecord
<1> HIDE DEF r
<1>3. Len(journal[r]) \in Nat /\ DOMAIN journal[r] = 1..Len(journal[r])
  BY <1>2 DEF Appends
<1>4. journal'[r][Len(journal[r]) + 1].decision = CallDecision(d)
  BY <1>2 DEF Appends
<1> QED
  BY <1>1, <1>3, <1>4 DEF AddsAnswer, PositionsIn, r

LEMMA AnswersPastStep ==
    ASSUME TypeOK, AccountsInv, RowsMatchStatus, AnswersArePast, [Next]_vars
    PROVE  AnswersArePast'
<1> SUFFICES ASSUME NEW r \in RequestIds, NEW i \in PositionsIn(journal'[r])
             PROVE  journal'[r][i].decision.at <= now'
  BY DEF AnswersArePast, PositionsIn
<1>1. now \in Nat /\ now' \in Nat /\ now <= now'
  BY ClockRuns
<1>2. CASE i \in PositionsIn(journal[r])
  <2>1. journal'[r][i] = journal[r][i]
    BY <1>2, OldAnswersStay
  <2>2. journal[r][i].decision.at \in Nat
    <3>1. journal[r] \in Seq(Event) /\ i \in DOMAIN journal[r] /\ journal[r][i].decision # None
      BY <1>2 DEF TypeOK, PositionsIn
    <3>2. journal[r][i] \in Event
      BY <3>1, ElementOfSeq
    <3>3. journal[r][i].decision \in Decision
      BY <3>1, <3>2 DEF Event
    <3> QED
      BY <3>3 DEF Decision
  <2>3. journal[r][i].decision.at <= now
    BY <1>2 DEF AnswersArePast
  <2> QED
    BY <1>1, <2>1, <2>2, <2>3
<1>3. ASSUME NEW d \in Devices, RecordShared(d) \/ RecordPerUser(d), i \notin PositionsIn(journal[r])
      PROVE  journal'[r][i].decision.at <= now'
  <2>1. r = call[d].request
    BY <1>3, AnswerStep DEF SameAnswers
  <2>2. journal'[r][i].decision = CallDecision(d)
    BY <1>3, <2>1, AnswerGoesLast
  <2> QED
    BY <1>1, <2>2 DEF CallDecision
<1>4. CASE NoAnswer
  BY <1>2, <1>4 DEF NoAnswer, SameAnswers
<1> QED
  BY <1>2, <1>3, <1>4, StepAnswers

LEMMA DeadlineStep ==
    ASSUME TypeOK, AccountsInv, RowsMatchStatus, JournalMirrorsRequest, AnswersArePast,
           DeadlineSeparates, [Next]_vars
    PROVE  DeadlineSeparates'
<1> SUFFICES ASSUME NEW r \in RequestIds, status'[r] \in Status, form'[r].expires # None
             PROVE  /\ InTime(journal'[r], form'[r].expires)
                    /\ status'[r] = "expired" => form'[r].expires <= updatedAt'[r]
  BY DeadlinesRestated
<1>0. status[r] \in Status /\ form[r].expires # None =>
        /\ InTime(journal[r], form[r].expires)
        /\ status[r] = "expired" => form[r].expires <= updatedAt[r]
  BY DeadlinesRestated
<1>a. \A i \in PositionsIn(journal[r]) : journal'[r][i] = journal[r][i]
  BY OldAnswersStay
<1>1. CASE NoAnswer
  <2>1. PositionsIn(journal'[r]) = PositionsIn(journal[r]) /\ (Kept(r) \/ Born(r))
    BY <1>1 DEF NoAnswer, SameAnswers
  <2>2. CASE Kept(r)
    BY <1>0, <1>a, <2>1, <2>2 DEF Kept, Exists, InTime
  <2>3. CASE Born(r)
    <3>1. journal[r] = <<>> /\ status'[r] = "pending"
      BY <2>3 DEF Born, JournalMirrorsRequest
    <3>2. PositionsIn(journal[r]) = {}
      BY <3>1, AnswersTyped
    <3> QED
      BY <2>1, <3>1, <3>2 DEF InTime
  <2> QED
    BY <2>1, <2>2, <2>3
<1>2. ASSUME NEW d \in Devices, RecordShared(d) \/ RecordPerUser(d)
      PROVE  /\ InTime(journal'[r], form'[r].expires)
             /\ status'[r] = "expired" => form'[r].expires <= updatedAt'[r]
  <2> DEFINE q == call[d].request
             dec == CallDecision(d)
             n == Len(journal[q]) + 1
  <2>1. q \in RequestIds /\ Pending(q) /\ dec.checked = now /\ now \in Nat
    BY <1>2, RecordEffect, AcceptedDecision
  <2>2. /\ n \in Nat /\ \A i \in PositionsIn(journal[q]) : i \in Nat /\ i < n
        /\ PositionsIn(journal'[q]) = PositionsIn(journal[q]) \cup {n}
        /\ journal'[q][n].decision = dec
    BY <1>2, AnswerGoesLast
  <2>3. /\ UNCHANGED form /\ ~Expired(q)
        /\ updatedAt' = [updatedAt EXCEPT ![q] = Truncate(now')]
        /\ \E st \in {"resolved", "pending"} : status' = [status EXCEPT ![q] = st]
    BY <1>2, RecordEffect
  <2>4. form[q] \in Form
    BY <2>1 DEF TypeOK, RowsMatchStatus, Exists, Pending, Status
  <2>5. status'[q] # "expired" /\ status[q] = "pending" /\ status[q] \in Status
    BY <2>1, <2>3 DEF TypeOK, Pending, Status
  <2>6. CASE r = q
    <3> DEFINE x == form[r].expires
    <3>1. x \in Nat /\ now < x /\ form'[r] = form[r]
      BY <2>1, <2>3, <2>4, <2>6 DEF Form, Expired
    <3>2. InTime(journal[r], x)
      BY <1>0, <2>3, <2>5, <2>6
    <3>3. ASSUME NEW i \in PositionsIn(journal[r]) PROVE journal[r][i].decision.at < x
      <4>1. journal[r][i].decision.at <= now /\ journal[r][i].decision.at \in Nat
        BY AnswersTyped DEF AnswersArePast, AnswersIn, Decision
      <4> QED
        BY <2>1, <3>1, <4>1
    <3> HIDE DEF q, dec, n, x
    <3>4. InTime(journal'[r], x)
      <4> SUFFICES ASSUME NEW i \in PositionsIn(journal'[r])
                   PROVE  /\ journal'[r][i].decision.checked < x
                          /\ \A j \in PositionsIn(journal'[r]) : i < j => journal'[r][i].decision.at < x
        BY DEF InTime
      <4>1. CASE i \in PositionsIn(journal[r])
        BY <1>a, <3>2, <3>3, <4>1 DEF InTime
      <4>2. CASE i = n
        <5>1. journal'[r][i].decision.checked < x
          BY <2>1, <2>2, <2>6, <3>1, <4>2
        <5>2. \A j \in PositionsIn(journal'[r]) : ~(i < j)
          BY <2>2, <2>6, <4>2
        <5> QED
          BY <5>1, <5>2
      <4> QED
        BY <2>2, <2>6, <4>1, <4>2
    <3> QED
      BY <2>5, <2>6, <3>1, <3>4 DEF x
  <2>7. CASE r # q
    <3>1. PositionsIn(journal'[r]) = PositionsIn(journal[r])
      BY <1>2, <2>7, AnswerStep DEF SameAnswers
    <3> HIDE DEF q, dec, n
    <3>2. status'[r] = status[r] /\ updatedAt'[r] = updatedAt[r]
      BY <2>1, <2>3, <2>7 DEF TypeOK
    <3> QED
      BY <1>0, <1>a, <2>3, <2>7, <3>1, <3>2 DEF InTime
  <2> QED
    BY <2>6, <2>7
<1> QED
  BY <1>1, <1>2, StepAnswers
-----------------------------------------------------------------------------
(* The inductive invariant: the properties, the account tables' own          *)
(* invariant, and what relates a request's columns to its status and mode    *)
(* and the idempotency records to the creates they answered.                 *)
RequestsInv ==
    /\ TypeOK
    /\ AccountsInv
    /\ RowsMatchStatus
    /\ AnswersFitMode
    /\ JournalMirrorsRequest
    /\ AnswersMatchJournal
    /\ NonceAuthorizesOnce
    /\ OnePendingPerDedupeKey
    /\ BindingsAreLive
    /\ AcksAreBound
    /\ CallbackPerAnswer
    /\ PushInv
    /\ AnswersArePast
    /\ DeadlineSeparates

LEMMA RequestsInvInit == Init => RequestsInv
<1> SUFFICES ASSUME Init PROVE RequestsInv
  OBVIOUS
<1>1. AccountsInv /\ AccountsTypeOK
  BY AccountsInvInit DEF Init, AccountsInv
<1>2. TypeOK
  <2>1. MaxTime \in Nat /\ 0 \in 0..MaxTime
    BY AccountsAssumption
  <2>2. <<>> \in Seq(Event)
    OBVIOUS
  <2> QED
    BY <1>1, <2>1, <2>2 DEF Init, TypeOK, NoAnswers
<1>3. \A r \in RequestIds : journal[r] = <<>> /\ status[r] = "absent" /\ ~Exists(r) /\ ~Pending(r)
  BY DEF Init, Exists, Pending, Status
<1>4. \A r \in RequestIds : AnswersIn(journal[r]) = {} /\ PositionsIn(journal[r]) = {}
  BY <1>2, <1>3, AnswersTyped
<1>5. RowsMatchStatus
  BY <1>3 DEF Init, RowsMatchStatus
<1>6. AnswersFitMode /\ AnswersMatchJournal /\ OnePendingPerDedupeKey /\ DeadlineSeparates
  BY <1>3 DEF AnswersFitMode, AnswersMatchJournal, OnePendingPerDedupeKey, DeadlineSeparates
<1>7. JournalMirrorsRequest
  BY <1>3 DEF JournalMirrorsRequest
<1>8. NonceAuthorizesOnce
  <2>1. nonces = {}
    BY DEF Init
  <2>2. SpentOnce(nonces, journal)
    BY <1>4, <2>1 DEF SpentOnce
  <2> QED
    BY <2>2, NoncesRestated
<1>11. AnswersArePast
  BY <1>4 DEF AnswersArePast
<1>9. BindingsAreLive /\ AcksAreBound /\ PushInv
  BY DEF Init, BindingsAreLive, AcksAreBound, PushInv, PushesReachRecipients, PushedDevicesEnrolled
<1>10. CallbackPerAnswer
  <2>1. callbacks = {} /\ \A r \in RequestIds : OwedIn(callbacks, r) = {} /\ status[r] \notin Status
    BY <1>3 DEF Init, OwedIn, Exists
  <2> QED
    BY <2>1, CallbacksRestated
<1> QED
  BY <1>1, <1>2, <1>5, <1>6, <1>7, <1>8, <1>9, <1>10, <1>11 DEF RequestsInv

LEMMA RequestsInvStep == RequestsInv /\ [Next]_vars => RequestsInv'
<1> SUFFICES ASSUME RequestsInv, [Next]_vars PROVE RequestsInv'
  OBVIOUS
<1> USE DEF RequestsInv
<1>1. TypeOK' /\ AccountsInv'
  BY TypeStep, AccountsOfStep, AccountsInvStep
<1>2. RowsMatchStatus' /\ AnswersFitMode' /\ JournalMirrorsRequest'
  BY RowsStep, ModeStep, JournalStep
<1>3. AnswersMatchJournal' /\ NonceAuthorizesOnce' /\ OnePendingPerDedupeKey'
  BY AnswersMatchStep, NonceStep, DedupeStep
<1>4. BindingsAreLive' /\ AcksAreBound'
  BY BindingsStep, AcksStep
<1>5. CallbackPerAnswer' /\ PushInv' /\ AnswersArePast' /\ DeadlineSeparates'
  BY CallbackStep, PushStep, AnswersPastStep, DeadlineStep
<1> QED
  BY <1>1, <1>2, <1>3, <1>4, <1>5

LEMMA RequestsInvariant == Spec => []RequestsInv
  BY RequestsInvInit, RequestsInvStep, PTL DEF Spec

(* The request tables are always well typed. *)
THEOREM RequestsTypeCorrect == Spec => []TypeOK
<1>1. RequestsInv => TypeOK
  BY DEF RequestsInv
<1> QED
  BY <1>1, RequestsInvariant, PTL

(* db/lifecycle.rs: one revision and one event per accepted mutation of a    *)
(* request, in order, and none after a final status, for any number of       *)
(* requests, callers and devices.                                            *)
THEOREM JournalsMirrorRequests == Spec => []JournalMirrorsRequest
<1>1. RequestsInv => JournalMirrorsRequest
  BY DEF RequestsInv
<1> QED
  BY <1>1, RequestsInvariant, PTL

(* The individual answers a journal reports are the decisions stored for the *)
(* request, shared or per user.                                              *)
THEOREM JournalAnswersAreStored == Spec => []AnswersMatchJournal
<1>1. RequestsInv => AnswersMatchJournal
  BY DEF RequestsInv
<1> QED
  BY <1>1, RequestsInvariant, PTL

(* record_decision burns a nonce exactly with an accepted decision, and no   *)
(* nonce ever backs two, over all requests and after their removal.          *)
THEOREM NoncesAuthorizeOnce == Spec => []NonceAuthorizesOnce
<1>1. RequestsInv => NonceAuthorizesOnce
  BY DEF RequestsInv
<1> QED
  BY <1>1, RequestsInvariant, PTL

(* create_request never leaves two pending requests with one dedupe key.     *)
THEOREM DedupeKeysAreUnique == Spec => []OnePendingPerDedupeKey
<1>1. RequestsInv => OnePendingPerDedupeKey
  BY DEF RequestsInv
<1> QED
  BY <1>1, RequestsInvariant, PTL

(* Creates answered for one idempotency key named one request and one body,  *)
(* for as long as the requests exist.                                        *)
THEOREM RepliesAreIdempotent == Spec => []IdempotentReplies
<1>1. RequestsInv => IdempotentReplies
  BY RepliesFromAcks DEF RequestsInv
<1> QED
  BY <1>1, RequestsInvariant, PTL

(* Callback deliveries are owed for exactly the accepted answers of requests *)
(* with a callback URL.                                                      *)
THEOREM CallbacksFollowAnswers == Spec => []CallbackPerAnswer
<1>1. RequestsInv => CallbackPerAnswer
  BY DEF RequestsInv
<1> QED
  BY <1>1, RequestsInvariant, PTL

(* Push rows never outlive their request and stay with devices of its        *)
(* recipients.                                                               *)
THEOREM PushRowsReachRecipients == Spec => []PushesReachRecipients
<1>1. RequestsInv => PushesReachRecipients
  BY DEF RequestsInv, PushInv
<1> QED
  BY <1>1, RequestsInvariant, PTL

(* record_decision and expire_due_requests: every recorded answer passed its *)
(* check before the deadline, at most the last answer of a request is        *)
(* stamped later, and no request expires before its deadline, however long   *)
(* a handler is held up between its two readings of the clock.               *)
THEOREM DeadlinesSeparate == Spec => []DeadlineSeparates
<1>1. RequestsInv => DeadlineSeparates
  BY DEF RequestsInv
<1> QED
  BY <1>1, RequestsInvariant, PTL
-----------------------------------------------------------------------------
(* Action properties. *)
(* What a row says stays until the row goes. *)
RowsStay ==
    \A r \in RequestIds : Exists(r) /\ status'[r] # "gone" =>
        /\ form'[r] = form[r]
        /\ origin[r] # None => origin'[r] = origin[r]
        /\ decision[r] # None => decision'[r] = decision[r]
        /\ \A u \in Users : userDecisions[r][u] # None => userDecisions'[r][u] = userDecisions[r][u]

LEMMA RowsStayStep ==
    ASSUME TypeOK, AccountsInv, AnswersFitMode, [Next]_vars PROVE RowsStay
<1> USE DEF RowsStay
<1>1. CASE Quiet
  BY <1>1 DEF Quiet
<1>2. ASSUME NEW caller \in Callers, NEW key \in IdemKeys \cup {None}, NEW d \in Drafts,
             ReplayCreate(caller, key, d) \/ \E r \in RequestIds : DedupeCreate(caller, key, d, r)
      PROVE  RowsStay
  BY <1>2 DEF ReplayCreate, DedupeCreate
<1>3. ASSUME NEW caller \in Callers, NEW key \in IdemKeys \cup {None}, NEW d \in Drafts,
             NEW r \in RequestIds, InsertRequest(caller, key, d, r)
      PROVE  RowsStay
  <2>1. \A q \in RequestIds \ {r} : form'[q] = form[q]
    BY <1>3, InsertedRow
  <2>2. /\ status[r] = "absent" /\ UNCHANGED <<decision, userDecisions>>
        /\ origin' = [origin EXCEPT ![r] = d.origin]
    BY <1>3 DEF InsertRequest
  <2> QED
    BY <2>1, <2>2 DEF TypeOK, Exists, Status
<1>4. ASSUME NEW caller \in Callers, NEW r \in RequestIds, NEW o \in Origins, BindOrigin(caller, r, o)
      PROVE  RowsStay
  BY <1>4 DEF BindOrigin, OriginUnbound, TypeOK
<1>5. ASSUME NEW d \in Devices, RecordShared(d) \/ RecordPerUser(d) PROVE RowsStay
  <2> DEFINE q == call[d].request
  <2>1. q \in RequestIds /\ Pending(q) /\ owner[d] \in Users
    BY <1>5, RecordEffect, AcceptedDecision
  <2>2. UNCHANGED <<form, origin>>
    BY <1>5, RecordEffect
  <2>3. CASE /\ form[q].resolution = "shared"
             /\ decision' = [decision EXCEPT ![q] = CallDecision(d)]
             /\ UNCHANGED userDecisions
    <3>1. decision[q] = None
      BY <2>1, <2>3 DEF AnswersFitMode, Exists, Pending, Status
    <3> QED
      BY <2>1, <2>2, <2>3, <3>1 DEF TypeOK
  <2>4. CASE /\ userDecisions[q][owner[d]] = None
             /\ userDecisions' = [userDecisions EXCEPT ![q][owner[d]] = CallDecision(d)]
             /\ UNCHANGED decision
    BY <2>1, <2>2, <2>4 DEF TypeOK
  <2> QED
    BY <1>5, <2>3, <2>4, RecordEffect
<1>6. ASSUME NEW R \in SUBSET RequestIds, NEW k \in {"cancelled", "expired"}, Closes(R, k) PROVE RowsStay
  BY <1>6 DEF Closes
<1>7. ASSUME NEW R \in SUBSET RequestIds, Removes(R) PROVE RowsStay
  BY <1>7 DEF Removes, DeleteRows
<1> HIDE DEF RowsStay
<1>c. CreateStep => RowsStay
  BY <1>2, <1>3 DEF CreateStep
<1>o. (\E caller \in Callers, r \in RequestIds, o \in Origins : BindOrigin(caller, r, o)) => RowsStay
  BY <1>4
<1>a. (\E d \in Devices : RecordShared(d) \/ RecordPerUser(d)) => RowsStay
  BY <1>5
<1>k. (\E R \in SUBSET RequestIds, k \in {"cancelled", "expired"} : Closes(R, k)) => RowsStay
  BY <1>6
<1>d. (\E R \in SUBSET RequestIds : Removes(R)) => RowsStay
  BY <1>7
<1> QED
  BY StepKinds, <1>1, <1>c, <1>o, <1>a, <1>k, <1>d

(* Journals, callback obligations and spent nonces only grow; content,       *)
(* origin and decisions of a request stay as first recorded while it exists. *)
THEOREM RecordedFactsStayRecorded == Spec => RecordedFactsStay
<1>1. ASSUME RequestsInv, [Next]_vars PROVE callbacks \subseteq callbacks' /\ nonces \subseteq nonces'
  <2>1. ASSUME NEW d \in Devices, RecordShared(d) \/ RecordPerUser(d)
        PROVE  callbacks \subseteq callbacks' /\ nonces \subseteq nonces'
    <3>1. callbacks' = callbacks \cup CallbacksOwed({call[d].request}, CallDecision(d))
      BY <2>1, RecordEffect DEF AppendLifecycle
    <3>2. nonces' = nonces \cup {<<d, call[d].nonce>>}
      BY <2>1, RecordEffect
    <3> QED
      BY <3>1, <3>2
  <2>2. NoAnswer => callbacks \subseteq callbacks' /\ nonces \subseteq nonces'
    BY DEF NoAnswer
  <2> QED
    BY <1>1, <2>1, <2>2, StepAnswers DEF RequestsInv
<1>2. ASSUME RequestsInv, [Next]_vars PROVE JournalsGrow /\ RowsStay
  BY <1>2, JournalsGrowStep, RowsStayStep DEF RequestsInv
<1>3. ASSUME RequestsInv, [Next]_vars
      PROVE  [/\ callbacks \subseteq callbacks'
              /\ nonces \subseteq nonces'
              /\ \A r \in RequestIds :
                   /\ Len(journal[r]) <= Len(journal'[r])
                   /\ \A i \in DOMAIN journal[r] : journal'[r][i] = journal[r][i]
                   /\ Exists(r) /\ status'[r] # "gone" =>
                        /\ form'[r] = form[r]
                        /\ origin[r] # None => origin'[r] = origin[r]
                        /\ decision[r] # None => decision'[r] = decision[r]
                        /\ \A u \in Users : userDecisions[r][u] # None =>
                                              userDecisions'[r][u] = userDecisions[r][u]]_vars
  BY <1>1, <1>2, <1>3 DEF JournalsGrow, RowsStay
<1> QED
  BY <1>3, RequestsInvariant, PTL DEF Spec, RecordedFactsStay

(* A decision enters a journal only while its device is active and its user  *)
(* not deleted, however long ago the handler authenticated the device.       *)
THEOREM RevokedDevicesStaySilent == Spec => RevokedStaySilent
<1>1. ASSUME RequestsInv, [Next]_vars, NEW r \in RequestIds, NEW i \in DOMAIN journal'[r],
             i > Len(journal[r]), journal'[r][i].decision # None
      PROVE  /\ device[journal'[r][i].decision.device] = "active"
             /\ user[journal'[r][i].decision.user] = "active"
  <2>1. i \in PositionsIn(journal'[r])
    BY <1>1 DEF PositionsIn
  <2>2. Len(journal[r]) \in Nat /\ DOMAIN journal[r] = 1..Len(journal[r])
    BY <1>1, LenProperties DEF RequestsInv, TypeOK
  <2>3. i \notin PositionsIn(journal[r])
    <3>1. SUFFICES ASSUME i \in 1..Len(journal[r]) PROVE FALSE
      BY <2>2 DEF PositionsIn
    <3>2. i \in Nat /\ i <= Len(journal[r])
      BY <2>2, <3>1
    <3> QED
      BY <1>1, <2>2, <3>2
  <2>4. CASE NoAnswer
    BY <2>1, <2>3, <2>4 DEF NoAnswer, SameAnswers
  <2>5. ASSUME NEW d \in Devices, RecordShared(d) \/ RecordPerUser(d)
        PROVE  /\ device[journal'[r][i].decision.device] = "active"
               /\ user[journal'[r][i].decision.user] = "active"
    <3>0. TypeOK /\ AccountsInv
      BY <1>1 DEF RequestsInv
    <3>1. /\ call[d].request \in RequestIds
          /\ AddsAnswer(call[d].request, CallDecision(d))
          /\ \A q \in RequestIds \ {call[d].request} : SameAnswers(q)
      BY <2>5, <3>0, AnswerStep
    <3>2. r = call[d].request /\ i = Len(journal[r]) + 1
      BY <2>1, <2>3, <3>1 DEF AddsAnswer, SameAnswers
    <3>3. journal'[r][i].decision = CallDecision(d)
      <4>1. PICK st \in {"resolved", "pending"} : Appends({call[d].request}, "answer", st, CallDecision(d))
        BY <2>5, <3>0, AppendsOfRecord
      <4>2. journal'[r][Len(journal[r]) + 1] =
              [kind |-> "answer", revision |-> revision[r] + 1, status |-> st, decision |-> CallDecision(d)]
        BY <3>2, <4>1 DEF Appends
      <4> QED
        BY <3>2, <4>2
    <3>4. CallDecision(d).device = d /\ CallDecision(d).user = owner[d] /\ device[d] = "active"
      BY <2>5, <3>0, RecordEffect, AcceptedDecision
    <3>5. user[owner[d]] = "active"
      BY <3>0, <3>4 DEF AccountsInv, DeletedUserHasNoActiveDevice
    <3> QED
      BY <3>3, <3>4, <3>5
  <2> QED
    BY <1>1, <2>4, <2>5, StepAnswers DEF RequestsInv
<1>2. ASSUME RequestsInv, [Next]_vars
      PROVE  [\A r \in RequestIds : \A i \in DOMAIN journal'[r] :
                LET e == journal'[r][i]
                IN  i > Len(journal[r]) /\ e.decision # None =>
                      device[e.decision.device] = "active" /\ user[e.decision.user] = "active"]_vars
  BY <1>1, <1>2
<1> QED
  BY <1>2, RequestsInvariant, PTL DEF Spec, RevokedStaySilent

-----------------------------------------------------------------------------
(***************************************************************************)
(* The request tables implement the decision ledger: create_request asks,  *)
(* record_decision replies, cancellation and expiry withdraw, retention    *)
(* and channel deletion forget, and every other step leaves the ledger as  *)
(* it is.                                                                  *)
(***************************************************************************)
(* The ledger's variables, as the refinement mapping gives them. *)
PhaseOf(s) ==
    CASE s = "pending" -> "open"
      [] s = "resolved" -> "answered"
      [] s \in {"expired", "cancelled"} -> "withdrawn"
      [] OTHER -> s
ModeOf(s, f) == IF s \in Status THEN f.resolution ELSE "shared"
AskedOf(s, f) == IF s \in Status THEN f.recipients ELSE {}
AnswersOf(dec, each) == [u \in Users |-> IF dec # None /\ dec.user = u THEN dec ELSE each[u]]

phases == [r \in RequestIds |-> PhaseOf(status[r])]
modes == [r \in RequestIds |-> ModeOf(status[r], form[r])]
asks == [r \in RequestIds |-> AskedOf(status[r], form[r])]
replies == [r \in RequestIds |-> AnswersOf(decision[r], userDecisions[r])]

(* The ledger's actions in these terms. *)
LEMMA AskUnfolds ==
    ASSUME NEW q \in RequestIds, NEW m \in {"shared", "per_user"}, NEW R \in SUBSET Users,
           phases[q] = "absent",
           phases' = [phases EXCEPT ![q] = "open"],
           modes' = [modes EXCEPT ![q] = m],
           asks' = [asks EXCEPT ![q] = R],
           UNCHANGED replies
    PROVE  Ledger!LedgerNext
<1>1. Ledger!Ask(q, m, R)
  BY Zenon DEF Ledger!Ask, phases, modes, asks, replies, PhaseOf, ModeOf, AskedOf, AnswersOf, Exists
<1> QED
  BY <1>1 DEF Ledger!LedgerNext

LEMMA ReplyUnfolds ==
    ASSUME NEW q \in RequestIds, NEW p \in Users, NEW a \in Decision,
           phases[q] = "open",
           p \in asks[q],
           replies[q][p] = None,
           replies' = [replies EXCEPT ![q][p] = a],
           phases' = IF modes[q] = "shared" \/ \A x \in asks[q] \ {p} : replies[q][x] # None
                     THEN [phases EXCEPT ![q] = "answered"] ELSE phases,
           UNCHANGED <<modes, asks>>
    PROVE  Ledger!LedgerNext
<1>1. Ledger!Reply(q, p, a)
  BY Zenon DEF Ledger!Reply, Ledger!Settled, phases, modes, asks, replies, PhaseOf, ModeOf, AskedOf, AnswersOf, Exists
<1> QED
  BY <1>1 DEF Ledger!LedgerNext

LEMMA WithdrawUnfolds ==
    ASSUME NEW Q \in SUBSET RequestIds,
           \A x \in Q : phases[x] = "open",
           phases' = [x \in RequestIds |-> IF x \in Q THEN "withdrawn" ELSE phases[x]],
           UNCHANGED <<modes, asks, replies>>
    PROVE  Ledger!LedgerNext
<1>1. Ledger!Withdraw(Q)
  BY Zenon DEF Ledger!Withdraw, phases, modes, asks, replies, PhaseOf, ModeOf, AskedOf, AnswersOf, Exists
<1> QED
  BY <1>1 DEF Ledger!LedgerNext

LEMMA ForgetUnfolds ==
    ASSUME NEW Q \in SUBSET RequestIds,
           \A x \in Q : phases[x] # "absent",
           phases' = [x \in RequestIds |-> IF x \in Q THEN "gone" ELSE phases[x]],
           modes' = [x \in RequestIds |-> IF x \in Q THEN "shared" ELSE modes[x]],
           asks' = [x \in RequestIds |-> IF x \in Q THEN {} ELSE asks[x]],
           replies' = [x \in RequestIds |-> IF x \in Q THEN NoAnswers ELSE replies[x]]
    PROVE  Ledger!LedgerNext
<1>1. Ledger!Forget(Q)
  BY Zenon DEF Ledger!Forget, Ledger!Unanswered, NoAnswers, phases, modes, asks, replies, PhaseOf, ModeOf, AskedOf, AnswersOf, Exists
<1> QED
  BY <1>1 DEF Ledger!LedgerNext
-----------------------------------------------------------------------------
LEMMA PhasesOf ==
    /\ PhaseOf("absent") = "absent" /\ PhaseOf("gone") = "gone"
    /\ PhaseOf("pending") = "open" /\ PhaseOf("resolved") = "answered"
    /\ PhaseOf("expired") = "withdrawn" /\ PhaseOf("cancelled") = "withdrawn"
BY DEF PhaseOf

(* Steps on which the ledger stutters. *)
LEMMA LedgerStutters ==
    ASSUME UNCHANGED <<status, form, decision, userDecisions>>
    PROVE  UNCHANGED Ledger!ledgerVars
<1>1. UNCHANGED <<phases, modes, asks, replies>>
  BY DEF phases, modes, asks, replies
<1> QED
  BY <1>1 DEF Ledger!ledgerVars, phases, modes, asks, replies, PhaseOf, ModeOf, AskedOf, AnswersOf, Exists

(* create_request asks. *)
LEMMA InsertAsks ==
    ASSUME TypeOK, RowsMatchStatus, NEW caller \in Callers, NEW key \in IdemKeys \cup {None}, NEW d \in Drafts,
           NEW r \in RequestIds, InsertRequest(caller, key, d, r)
    PROVE  Ledger!LedgerNext
<1>1. /\ form'[r].resolution = d.resolution /\ form'[r].recipients = Recipients(d)
      /\ Recipients(d) \in SUBSET Users
      /\ \A q \in RequestIds \ {r} : form'[q] = form[q]
      /\ d.resolution \in {"shared", "per_user"}
  BY InsertedRow, RequestsAssumption DEF Draft
<1>2. /\ status[r] = "absent" /\ status'[r] = "pending" /\ status'[r] \in Status
      /\ \A q \in RequestIds \ {r} : status'[q] = status[q]
      /\ UNCHANGED <<decision, userDecisions>>
  BY DEF InsertRequest, TypeOK, Status
<1>3. phases[r] = "absent" /\ phases' = [phases EXCEPT ![r] = "open"]
  BY <1>2, PhasesOf DEF phases
<1>4. modes' = [modes EXCEPT ![r] = d.resolution]
  BY <1>1, <1>2 DEF modes, ModeOf
<1>5. asks' = [asks EXCEPT ![r] = Recipients(d)]
  BY <1>1, <1>2 DEF asks, AskedOf
<1>6. UNCHANGED replies
  BY <1>2 DEF replies
<1> DEFINE m == d.resolution
           R == Recipients(d)
<1>7. m \in {"shared", "per_user"} /\ R \in SUBSET Users /\ modes' = [modes EXCEPT ![r] = m] /\ asks' = [asks EXCEPT ![r] = R]
  BY <1>1, <1>4, <1>5
<1> HIDE DEF m, R
<1> QED
  BY <1>3, <1>6, <1>7, AskUnfolds

(* cancel_request and expire_due_requests withdraw. *)
LEMMA CloseWithdraws ==
    ASSUME NEW R \in SUBSET RequestIds, NEW k \in {"cancelled", "expired"}, Closes(R, k)
    PROVE  Ledger!LedgerNext
<1>1. /\ \A r \in R : status[r] = "pending"
      /\ \A r \in RequestIds : status'[r] = IF r \in R THEN k ELSE status[r]
      /\ UNCHANGED <<form, decision, userDecisions>>
  BY DEF Closes, Pending
<1>2. PhaseOf(k) = "withdrawn"
  BY PhasesOf
<1>3. /\ \A x \in R : phases[x] = "open"
      /\ phases' = [x \in RequestIds |-> IF x \in R THEN "withdrawn" ELSE phases[x]]
  BY <1>1, <1>2, PhasesOf DEF phases
<1>4. UNCHANGED <<modes, asks, replies>>
  <2>1. \A r \in RequestIds : status'[r] \in Status <=> status[r] \in Status
    BY <1>1 DEF Status
  <2> QED
    BY <1>1, <2>1 DEF modes, asks, replies, ModeOf, AskedOf
<1> QED
  BY <1>3, <1>4, WithdrawUnfolds

(* prune_retention and delete_channel forget. *)
LEMMA RemoveForgets ==
    ASSUME NEW R \in SUBSET RequestIds, Removes(R) PROVE Ledger!LedgerNext
<1>1. /\ \A r \in R : status[r] \in Status
      /\ \A r \in RequestIds :
           IF r \in R
           THEN status'[r] = "gone" /\ decision'[r] = None /\ userDecisions'[r] = NoAnswers
           ELSE /\ status'[r] = status[r] /\ form'[r] = form[r]
                /\ decision'[r] = decision[r] /\ userDecisions'[r] = userDecisions[r]
  BY DEF Removes, DeleteRows, Exists
<1>2. \A s \in Status : PhaseOf(s) # "absent"
  BY PhasesOf DEF Status
<1>3. /\ \A x \in R : phases[x] # "absent"
      /\ phases' = [x \in RequestIds |-> IF x \in R THEN "gone" ELSE phases[x]]
  BY <1>1, <1>2, PhasesOf DEF phases
<1>4. "gone" \notin Status
  BY DEF Status
<1>5. modes' = [x \in RequestIds |-> IF x \in R THEN "shared" ELSE modes[x]]
  BY <1>1, <1>4 DEF modes, ModeOf
<1>6. asks' = [x \in RequestIds |-> IF x \in R THEN {} ELSE asks[x]]
  BY <1>1, <1>4 DEF asks, AskedOf
<1>7. replies' = [x \in RequestIds |-> IF x \in R THEN NoAnswers ELSE replies[x]]
  <2>1. AnswersOf(None, NoAnswers) = NoAnswers
    BY DEF AnswersOf, NoAnswers
  <2> QED
    BY <1>1, <2>1 DEF replies
<1> QED
  BY <1>3, <1>5, <1>6, <1>7, ForgetUnfolds

(* The count record_decision compares settles the question exactly when      *)
(* every other recipient has decided.                                        *)
LEMMA CountSettles ==
    ASSUME NEW asked \in SUBSET Users, NEW decided \in SUBSET asked, NEW p \in asked
    PROVE  (/\ Cardinality(asked) > 0
            /\ Cardinality(decided \cup {p}) >= Cardinality(asked))
             <=> asked \ {p} \subseteq decided
<1>1. IsFiniteSet(asked) /\ IsFiniteSet(decided \cup {p}) /\ decided \cup {p} \in SUBSET asked
  <2>1. IsFiniteSet(asked)
    BY RequestsAssumption, FS_Subset
  <2> QED
    BY <2>1, FS_Subset
<1>2. /\ Cardinality(asked) \in Nat /\ Cardinality(decided \cup {p}) \in Nat
      /\ Cardinality(decided \cup {p}) <= Cardinality(asked)
      /\ Cardinality(decided \cup {p}) = Cardinality(asked) => decided \cup {p} = asked
  BY <1>1, FS_Subset, FS_CardinalityType
<1>3. Cardinality(asked) # 0
  BY <1>1, FS_EmptySet
<1>4. Cardinality(asked) > 0
  BY <1>2, <1>3
<1>5. Cardinality(decided \cup {p}) >= Cardinality(asked) <=> decided \cup {p} = asked
  BY <1>2
<1>6. decided \cup {p} = asked <=> asked \ {p} \subseteq decided
  OBVIOUS
<1> QED
  BY <1>4, <1>5, <1>6

(* record_decision replies. *)
LEMMA RecordReplies ==
    ASSUME TypeOK, AccountsInv, RowsMatchStatus, AnswersFitMode, NEW d \in Devices,
           RecordShared(d) \/ RecordPerUser(d)
    PROVE  Ledger!LedgerNext
<1> DEFINE r == call[d].request
           p == owner[d]
           a == CallDecision(d)
<1>1. r \in RequestIds /\ status[r] = "pending" /\ status[r] \in Status /\ p \in Users
      /\ a \in Decision /\ a # None /\ a.user = p
  BY RecordEffect, AcceptedDecision DEF Pending, Status
<1>2. UNCHANGED form /\ p \in form[r].recipients /\ form[r] \in Form
  <2>1. form[r] \in Form
    BY <1>1 DEF TypeOK, RowsMatchStatus, Exists
  <2> QED
    BY <2>1, RecordEffect
<1>t. /\ decision \in [RequestIds -> Decision \cup {None}]
      /\ userDecisions \in [RequestIds -> [Users -> Decision \cup {None}]]
      /\ status \in [RequestIds -> Status \cup {"absent", "gone"}]
  BY DEF TypeOK
<1>m. /\ form[r].resolution = "shared" => userDecisions[r] = NoAnswers /\ decision[r] = None
      /\ form[r].resolution = "per_user" => decision[r] = None
      /\ \A u \in Users : userDecisions[r][u] # None => u \in form[r].recipients
  BY <1>1 DEF AnswersFitMode, Exists, Pending
<1>e. \/ /\ form[r].resolution = "shared"
         /\ status' = [status EXCEPT ![r] = "resolved"]
         /\ decision' = [decision EXCEPT ![r] = a]
         /\ UNCHANGED userDecisions
      \/ /\ form[r].resolution = "per_user"
         /\ userDecisions[r][p] = None
         /\ status' = [status EXCEPT ![r] = StatusAfter(r, Decided(r) \cup {p})]
         /\ userDecisions' = [userDecisions EXCEPT ![r][p] = a]
         /\ UNCHANGED decision
  BY RecordEffect
<1>s. StatusAfter(r, Decided(r) \cup {p}) \in {"resolved", "pending"}
  BY DEF StatusAfter
<1>st. \A x \in RequestIds : status'[x] \in Status <=> status[x] \in Status
  BY <1>1, <1>t, <1>e, <1>s DEF Status
<1>p. PhaseOf("pending") = "open" /\ PhaseOf("resolved") = "answered"
  BY PhasesOf
<1>c. asks[r] = form[r].recipients /\ modes[r] = form[r].resolution /\ phases[r] = "open"
  BY <1>1, <1>p DEF asks, modes, phases, AskedOf, ModeOf
<1>u. UNCHANGED <<modes, asks>>
  BY <1>2, <1>st DEF modes, asks, ModeOf, AskedOf
<1>d. decision[r] = None
  BY <1>2, <1>m DEF Form
<1>n. replies[r] = userDecisions[r]
  <2>1. replies[r] = AnswersOf(None, userDecisions[r])
    BY <1>1, <1>d DEF replies
  <2>2. userDecisions[r] \in [Users -> Decision \cup {None}]
    BY <1>1, <1>t
  <2> QED
    BY <2>1, <2>2 DEF AnswersOf
<1>3. replies[r][p] = None
  BY <1>1, <1>m, <1>e, <1>n DEF NoAnswers
<1>4. replies' = [replies EXCEPT ![r][p] = a]
  <2>1. \A x \in RequestIds \ {r} : decision'[x] = decision[x] /\ userDecisions'[x] = userDecisions[x]
    BY <1>1, <1>t, <1>e
  <2>2. AnswersOf(decision'[r], userDecisions'[r]) = [userDecisions[r] EXCEPT ![p] = a]
    <3>1. CASE decision' = [decision EXCEPT ![r] = a] /\ UNCHANGED userDecisions
      <4>1. decision'[r] = a /\ userDecisions'[r] = userDecisions[r] /\ userDecisions[r] \in [Users -> Decision \cup {None}]
        BY <1>1, <1>t, <3>1
      <4> HIDE DEF r, p, a
      <4> QED
        BY <1>1, <4>1 DEF AnswersOf
    <3>2. CASE userDecisions' = [userDecisions EXCEPT ![r][p] = a] /\ UNCHANGED decision
      <4>1. decision'[r] = None /\ userDecisions'[r] = [userDecisions[r] EXCEPT ![p] = a]
            /\ userDecisions[r] \in [Users -> Decision \cup {None}]
        BY <1>1, <1>t, <1>d, <3>2
      <4> HIDE DEF r, p, a
      <4> QED
        BY <1>1, <4>1 DEF AnswersOf
    <3> QED
      BY <1>e, <3>1, <3>2
  <2> HIDE DEF r, p, a
  <2> QED
    BY <1>1, <1>n, <2>1, <2>2 DEF replies
<1>5. phases' = IF modes[r] = "shared" \/ \A x \in asks[r] \ {p} : replies[r][x] # None
                THEN [phases EXCEPT ![r] = "answered"] ELSE phases
  <2>1. CASE form[r].resolution = "shared" /\ status' = [status EXCEPT ![r] = "resolved"]
    BY <1>1, <1>t, <1>c, <1>p, <2>1 DEF phases
  <2>2. CASE form[r].resolution = "per_user" /\ status' = [status EXCEPT ![r] = StatusAfter(r, Decided(r) \cup {p})]
    <3>1. form[r].recipients \in SUBSET Users /\ Decided(r) \in SUBSET form[r].recipients
      BY <1>2, <1>m DEF Form, Decided
    <3>2. StatusAfter(r, Decided(r) \cup {p}) =
            IF form[r].recipients \ {p} \subseteq Decided(r) THEN "resolved" ELSE "pending"
      BY <1>2, <3>1, CountSettles DEF StatusAfter
    <3>3. form[r].recipients \ {p} \subseteq Decided(r) <=> \A x \in asks[r] \ {p} : replies[r][x] # None
      BY <1>c, <1>n, <3>1 DEF Decided
    <3>4. CASE form[r].recipients \ {p} \subseteq Decided(r)
      <4>1. status' = [status EXCEPT ![r] = "resolved"]
        BY <2>2, <3>2, <3>4
      <4>2. phases' = [phases EXCEPT ![r] = "answered"]
        BY <1>1, <1>t, <1>p, <4>1 DEF phases
      <4> QED
        BY <3>3, <3>4, <4>2
    <3>5. CASE ~(form[r].recipients \ {p} \subseteq Decided(r))
      <4>1. status' = status
        BY <1>1, <1>t, <2>2, <3>2, <3>5
      <4>2. phases' = phases
        BY <4>1 DEF phases
      <4> QED
        BY <1>c, <2>2, <3>3, <3>5, <4>2
    <3> QED
      BY <3>4, <3>5
  <2> QED
    BY <1>e, <2>1, <2>2
<1> HIDE DEF r, p, a
<1> QED
  BY <1>1, <1>2, <1>c, <1>u, <1>3, <1>4, <1>5, ReplyUnfolds

LEMMA LedgerStep == RequestsInv /\ [Next]_vars => [Ledger!LedgerNext]_Ledger!ledgerVars
<1> SUFFICES ASSUME RequestsInv, [Next]_vars PROVE Ledger!LedgerNext \/ UNCHANGED Ledger!ledgerVars
  OBVIOUS
<1> DEFINE Goal == Ledger!LedgerNext \/ UNCHANGED Ledger!ledgerVars
<1>0. TypeOK /\ AccountsInv /\ RowsMatchStatus /\ AnswersFitMode
  BY DEF RequestsInv
<1>1. ASSUME UNCHANGED <<status, form, decision, userDecisions>> PROVE Goal
  BY <1>1, LedgerStutters
<1>2. Quiet => Goal
  BY <1>1 DEF Quiet
<1>3. ASSUME NEW caller \in Callers, NEW key \in IdemKeys \cup {None}, NEW d \in Drafts,
             ReplayCreate(caller, key, d) \/ \E r \in RequestIds : DedupeCreate(caller, key, d, r)
      PROVE  Goal
  BY <1>1, <1>3 DEF ReplayCreate, DedupeCreate
<1>4. ASSUME NEW caller \in Callers, NEW key \in IdemKeys \cup {None}, NEW d \in Drafts,
             NEW r \in RequestIds, InsertRequest(caller, key, d, r)
      PROVE  Goal
  BY <1>0, <1>4, InsertAsks
<1>5. ASSUME NEW caller \in Callers, NEW r \in RequestIds, NEW o \in Origins, BindOrigin(caller, r, o)
      PROVE  Goal
  BY <1>1, <1>5 DEF BindOrigin
<1> HIDE DEF Goal
<1>c. CreateStep => Goal
  BY <1>3, <1>4 DEF CreateStep
<1>o. (\E caller \in Callers, r \in RequestIds, o \in Origins : BindOrigin(caller, r, o)) => Goal
  BY <1>5
<1>a. (\E d \in Devices : RecordShared(d) \/ RecordPerUser(d)) => Goal
  BY <1>0, RecordReplies DEF Goal
<1>k. (\E R \in SUBSET RequestIds, k \in {"cancelled", "expired"} : Closes(R, k)) => Goal
  BY CloseWithdraws DEF Goal
<1>d. (\E R \in SUBSET RequestIds : Removes(R)) => Goal
  BY RemoveForgets DEF Goal
<1>6. Goal
  BY StepKinds, <1>0, <1>2, <1>c, <1>o, <1>a, <1>k, <1>d
<1> QED
  BY <1>6 DEF Goal

LEMMA LedgerStart == Init => Ledger!LedgerInit
<1> SUFFICES ASSUME Init PROVE Ledger!LedgerInit
  OBVIOUS
<1>1. \A r \in RequestIds : /\ status[r] = "absent" /\ status[r] \notin Status
                            /\ decision[r] = None /\ userDecisions[r] = NoAnswers
  BY DEF Init, Status
<1>2. phases = [r \in RequestIds |-> "absent"]
  BY <1>1, PhasesOf DEF phases
<1>3. modes = [r \in RequestIds |-> "shared"] /\ asks = [r \in RequestIds |-> {}]
  BY <1>1 DEF modes, asks, ModeOf, AskedOf
<1>4. replies = [r \in RequestIds |-> NoAnswers]
  <2>1. AnswersOf(None, NoAnswers) = NoAnswers
    BY DEF AnswersOf, NoAnswers
  <2> QED
    BY <1>1, <2>1 DEF replies
<1> QED
  BY <1>2, <1>3, <1>4, Zenon
  DEF Ledger!LedgerInit, Ledger!Unanswered, NoAnswers, phases, modes, asks, replies, PhaseOf, ModeOf,
      AskedOf, AnswersOf, Exists

(* The request tables implement the decision ledger: each recipient answers  *)
(* at most once and only while the request is open, and record_decision      *)
(* closes a request exactly with the answer that settles it.                 *)
THEOREM TablesImplementLedger == Spec => ImplementsLedger
  BY LedgerStart, LedgerStep, RequestsInvariant, PTL DEF Spec, ImplementsLedger, Ledger!LedgerSpec
=============================================================================
