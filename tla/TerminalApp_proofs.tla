-------------------------- MODULE TerminalApp_proofs --------------------------
(***************************************************************************)
(* Proofs about the terminal client.  An answer is sent with the content   *)
(* it was picked on, and the history on screen is that of the selection,   *)
(* for any servers, requests, keys and interleavings of the loop with the  *)
(* runtime's messages and results.                                         *)
(***************************************************************************)
EXTENDS TerminalApp, FiniteSetTheorems, SequenceTheorems, WellFoundedInduction, TLAPS

-----------------------------------------------------------------------------
(***************************************************************************)
(* The invariant.  What the terminal holds is of the server it shows; that *)
(* server is the runtime's, or a state message that will make it so is     *)
(* still queued.  Between the drains and the next key it can differ only   *)
(* if the result of the one command in flight is a state, so an answer to  *)
(* a submission always arrives on its own server.                          *)
(***************************************************************************)
AppFields == {"state", "modal", "history", "running", "drafts", "filter", "alert", "muted", "quit"}
StateFields == {"server", "chan", "sel", "servers", "registered", "reqs"}
HistoryFields == {"reqs", "cursor", "sel", "loaded", "of"}

HeldOn(reqs, server) ==
    \A r \in DOMAIN reqs : r \in Requests /\ HomeServer(r) = server

StateGood(state) == DOMAIN state = StateFields /\ HeldOn(state.reqs, state.server)

HistoryGood(history, state) ==
    /\ DOMAIN history = HistoryFields /\ HeldOn(history.reqs, state.server)
    /\ history.loaded => history.of = <<state.server, state.chan>>

(* The value was picked on the content the submission names.                *)
Fits(s, picked) ==
    \/ s.value \in {None, DefaultValue}
    \/ <<HomeServer(s.r), s.r, s.ver, s.value>> \in picked

ModalGood(modal, picked) ==
    /\ modal.kind = "actions" => modal.r \in Requests
    /\ modal.kind = "text" => modal.submission.r \in Requests /\ Fits(modal.submission, picked)
    /\ modal.kind = "confirm" => modal.command.op \in {"clear", "forget", "revoke"}

DraftsGood(drafts, picked) ==
    \A k \in DOMAIN drafts :
        k[1] = HomeServer(k[2]) /\ <<k[1], k[2], k[3], drafts[k]>> \in picked

AppGood(a, picked) ==
    /\ DOMAIN a = AppFields
    /\ StateGood(a.state) /\ HistoryGood(a.history, a.state)
    /\ ModalGood(a.modal, picked) /\ DraftsGood(a.drafts, picked)

IsSeq(q) == q \in Seq({q[i] : i \in DOMAIN q})

IsState(m) == m.kind = "state"

(* A state of another server is followed by one of the runtime's.           *)
InboxGood(q, server) ==
    \A i \in DOMAIN q :
        /\ q[i].kind \in {"state", "auth_revoked", "candidate", "removed"}
        /\ IsState(q[i]) =>
              /\ StateGood(q[i].state)
              /\ q[i].state.server # server =>
                    \E j \in DOMAIN q : j > i /\ IsState(q[j]) /\ q[j].state.server = server

Queued(q, server) == \E i \in DOMAIN q : IsState(q[i]) /\ q[i].state.server = server

OutcomeGood(m, server) ==
    /\ m.kind \in {"state", "request", "device", "history", "none", "error"}
    /\ m.kind = "state" => StateGood(m.state) /\ m.state.server = server
    /\ m.kind = "request" => m.r \in Requests /\ HomeServer(m.r) = server
    /\ m.kind = "history" => HeldOn(m.page.reqs, m.query.server)

OutcomesGood(q, server) == \A i \in DOMAIN q : OutcomeGood(q[i], server)

CommandGood(m, picked) == m.op = "submit" => m.r \in Requests /\ Fits(m, picked)

CommandsGood(set, picked) == \A m \in set : CommandGood(m, picked)

(* One command at a time, but for the two of the start.                     *)
OneInFlight(set, q, n) ==
    /\ IsFiniteSet(set) /\ n = Cardinality(set) + Len(q)
    /\ \/ n <= 1
       \/ /\ \A m \in set : m.op \in {"refresh", "connect"}
          /\ \A i \in DOMAIN q : q[i].kind \in {"state", "none", "error"}

Caught(place, shown, q, server) ==
    place \in {"results", "key"} /\ shown # server => \E i \in DOMAIN q : IsState(q[i])

RuntimeGood(runtime) == DOMAIN runtime = {"servers", "server", "chan", "sel", "task", "loaded"}

TermInv ==
    /\ RuntimeGood(rt) /\ AppGood(app, chosen)
    /\ IsSeq(inbox) /\ InboxGood(inbox, rt.server)
    /\ app.state.server # rt.server => Queued(inbox, rt.server)
    /\ IsSeq(results) /\ OutcomesGood(results, rt.server)
    /\ CommandsGood(commands, chosen) /\ OneInFlight(commands, results, inFlight)
    /\ Caught(pc, app.state.server, results, rt.server)

-----------------------------------------------------------------------------
(***************************************************************************)
(* Sequences.                                                              *)
(***************************************************************************)
LEMMA OwnElements ==
    ASSUME NEW S, NEW q \in Seq(S)
    PROVE  IsSeq(q)
<1> DEFINE T == {q[i] : i \in DOMAIN q}
<1>1. Len(q) \in Nat /\ q \in [1..Len(q) -> S] /\ DOMAIN q = 1..Len(q)
  BY LenProperties
<1>2. \A i \in 1..Len(q) : q[i] \in T
  BY <1>1
<1> HIDE DEF T
<1>3. q \in [1..Len(q) -> T]
  BY <1>1, <1>2
<1>4. q \in Seq(T)
  BY <1>1, <1>3, SeqDef
<1> QED
  BY <1>4 DEF IsSeq, T

LEMMA QueueHasHead ==
    ASSUME NEW q, IsSeq(q), q # <<>>
    PROVE  /\ IsSeq(Tail(q)) /\ Len(q) \in Nat /\ Len(Tail(q)) = Len(q) - 1
           /\ DOMAIN q = 1..Len(q) /\ DOMAIN Tail(q) = 1..(Len(q) - 1)
           /\ 1 \in DOMAIN q /\ Head(q) = q[1]
           /\ \A i \in DOMAIN Tail(q) : i + 1 \in DOMAIN q /\ Tail(q)[i] = q[i + 1]
<1> DEFINE S == {q[i] : i \in DOMAIN q}
<1>1. q \in Seq(S)
  BY DEF IsSeq
<1> HIDE DEF S
<1>2. IsSeq(Tail(q))
  BY <1>1, HeadTailProperties, OwnElements
<1> QED
  BY <1>1, <1>2

LEMMA QueueGrows ==
    ASSUME NEW q, IsSeq(q), NEW m
    PROVE  /\ IsSeq(Append(q, m)) /\ Len(q) \in Nat /\ Len(Append(q, m)) = Len(q) + 1
           /\ DOMAIN q = 1..Len(q) /\ DOMAIN Append(q, m) = 1..(Len(q) + 1)
           /\ Append(q, m)[Len(q) + 1] = m
           /\ \A i \in DOMAIN q : Append(q, m)[i] = q[i]
<1> DEFINE S == {q[i] : i \in DOMAIN q} \cup {m}
<1>1. q \in Seq({q[i] : i \in DOMAIN q})
  BY DEF IsSeq
<1>2. q \in Seq(S) /\ m \in S
  BY <1>1, SeqMonotonic
<1> HIDE DEF S
<1>3. Append(q, m) \in Seq(S)
  BY <1>2
<1>4. IsSeq(Append(q, m))
  BY <1>3, OwnElements
<1> QED
  BY <1>2, <1>4

-----------------------------------------------------------------------------
(***************************************************************************)
(* What is queued, and what the terminal makes of it.                      *)
(***************************************************************************)
LEMMA SnapshotIsGood ==
    ASSUME NEW runtime, NEW requests
    PROVE  StateGood(Snapshot(runtime, requests)) /\ Snapshot(runtime, requests).server = runtime.server
BY DEF StateGood, StateFields, HeldOn, Snapshot, InSelection

(* The runtime's state of now is queued last. *)
LEMMA StateIsQueued ==
    ASSUME NEW q, IsSeq(q), NEW s, InboxGood(q, s), NEW m, NEW t,
           m.kind = "state", StateGood(m.state), m.state.server = t
    PROVE  IsSeq(Append(q, m)) /\ InboxGood(Append(q, m), t) /\ Queued(Append(q, m), t)
<1> DEFINE p == Append(q, m)
<1>1. /\ IsSeq(p) /\ Len(q) \in Nat /\ DOMAIN q = 1..Len(q) /\ DOMAIN p = 1..(Len(q) + 1)
      /\ p[Len(q) + 1] = m /\ \A i \in DOMAIN q : p[i] = q[i]
  BY QueueGrows
<1> HIDE DEF p
<1>2. /\ Len(q) + 1 \in DOMAIN p /\ IsState(p[Len(q) + 1]) /\ p[Len(q) + 1].state.server = t
  BY <1>1 DEF IsState
<1>3. ASSUME NEW i \in DOMAIN p
      PROVE  /\ p[i].kind \in {"state", "auth_revoked", "candidate", "removed"}
             /\ IsState(p[i]) =>
                   /\ StateGood(p[i].state)
                   /\ p[i].state.server # t =>
                         \E j \in DOMAIN p : j > i /\ IsState(p[j]) /\ p[j].state.server = t
  <2>1. CASE i = Len(q) + 1
    BY <1>1, <2>1
  <2>2. CASE i \in DOMAIN q
    BY <1>1, <1>2, <2>2 DEF InboxGood
  <2> QED
    BY <1>1, <2>1, <2>2
<1>4. InboxGood(p, t)
  BY <1>3 DEF InboxGood
<1>5. Queued(p, t)
  BY <1>2 DEF Queued
<1> QED
  BY <1>1, <1>4, <1>5 DEF p

(* A message that is not a state is queued.                                 *)
LEMMA NoticeIsQueued ==
    ASSUME NEW q, IsSeq(q), NEW s, InboxGood(q, s), NEW m,
           m.kind \in {"auth_revoked", "candidate", "removed"}
    PROVE  /\ IsSeq(Append(q, m)) /\ InboxGood(Append(q, m), s)
           /\ Queued(q, s) => Queued(Append(q, m), s)
<1> DEFINE p == Append(q, m)
<1>1. /\ IsSeq(p) /\ Len(q) \in Nat /\ DOMAIN q = 1..Len(q) /\ DOMAIN p = 1..(Len(q) + 1)
      /\ p[Len(q) + 1] = m /\ \A i \in DOMAIN q : p[i] = q[i]
  BY QueueGrows
<1> HIDE DEF p
<1>2. ASSUME NEW i \in DOMAIN p
      PROVE  /\ p[i].kind \in {"state", "auth_revoked", "candidate", "removed"}
             /\ IsState(p[i]) =>
                   /\ StateGood(p[i].state)
                   /\ p[i].state.server # s =>
                         \E j \in DOMAIN p : j > i /\ IsState(p[j]) /\ p[j].state.server = s
  <2>1. CASE i = Len(q) + 1
    BY <1>1, <2>1 DEF IsState
  <2>2. CASE i \in DOMAIN q
    <3>1. /\ p[i] = q[i] /\ q[i].kind \in {"state", "auth_revoked", "candidate", "removed"}
          /\ IsState(q[i]) => StateGood(q[i].state)
      BY <1>1, <2>2 DEF InboxGood
    <3>2. ASSUME IsState(q[i]), q[i].state.server # s
          PROVE  \E j \in DOMAIN p : j > i /\ IsState(p[j]) /\ p[j].state.server = s
      <4>1. PICK j \in DOMAIN q : j > i /\ IsState(q[j]) /\ q[j].state.server = s
        BY <2>2, <3>2 DEF InboxGood
      <4>2. j \in DOMAIN p /\ p[j] = q[j]
        BY <1>1
      <4> QED
        BY <4>1, <4>2
    <3> QED
      BY <3>1, <3>2
  <2> QED
    BY <1>1, <2>1, <2>2
<1>3. InboxGood(p, s)
  BY <1>2 DEF InboxGood
<1>4. Queued(q, s) => Queued(p, s)
  BY <1>1 DEF Queued
<1> QED
  BY <1>1, <1>3, <1>4 DEF p

(* The first message is taken.                                              *)
LEMMA HeadIsTaken ==
    ASSUME NEW q, IsSeq(q), q # <<>>, NEW s, InboxGood(q, s), NEW shown, shown # s => Queued(q, s)
    PROVE  /\ IsSeq(Tail(q)) /\ InboxGood(Tail(q), s)
           /\ Head(q).kind \in {"state", "auth_revoked", "candidate", "removed"}
           /\ Head(q).kind = "state" =>
                 StateGood(Head(q).state) /\ (Head(q).state.server # s => Queued(Tail(q), s))
           /\ Head(q).kind # "state" => (shown # s => Queued(Tail(q), s))
<1> DEFINE p == Tail(q)
<1>1. /\ IsSeq(p) /\ Len(q) \in Nat
      /\ DOMAIN q = 1..Len(q) /\ DOMAIN p = 1..(Len(q) - 1)
      /\ 1 \in DOMAIN q /\ Head(q) = q[1]
      /\ \A i \in DOMAIN p : i + 1 \in DOMAIN q /\ p[i] = q[i + 1]
  BY QueueHasHead
<1> HIDE DEF p
<1>2. ASSUME NEW j \in DOMAIN q, j > 1, IsState(q[j]), q[j].state.server = s
      PROVE  Queued(p, s)
  <2>1. j - 1 \in DOMAIN p /\ p[j - 1] = q[j]
    BY <1>1, <1>2
  <2> QED
    BY <1>2, <2>1 DEF Queued
<1>3. ASSUME NEW i \in DOMAIN p
      PROVE  /\ p[i].kind \in {"state", "auth_revoked", "candidate", "removed"}
             /\ IsState(p[i]) =>
                   /\ StateGood(p[i].state)
                   /\ p[i].state.server # s =>
                         \E j \in DOMAIN p : j > i /\ IsState(p[j]) /\ p[j].state.server = s
  <2>1. i \in Nat /\ i + 1 \in DOMAIN q /\ p[i] = q[i + 1]
    BY <1>1
  <2>2. ASSUME IsState(p[i]), p[i].state.server # s
        PROVE  \E j \in DOMAIN p : j > i /\ IsState(p[j]) /\ p[j].state.server = s
    <3>1. PICK j \in DOMAIN q : j > i + 1 /\ IsState(q[j]) /\ q[j].state.server = s
      BY <2>1, <2>2 DEF InboxGood
    <3>2. j - 1 \in DOMAIN p /\ p[j - 1] = q[j] /\ j - 1 > i
      BY <1>1, <2>1, <3>1
    <3> QED
      BY <3>1, <3>2
  <2> QED
    BY <2>1, <2>2 DEF InboxGood
<1>4. InboxGood(p, s)
  BY <1>3 DEF InboxGood
<1>5. /\ Head(q).kind \in {"state", "auth_revoked", "candidate", "removed"}
      /\ Head(q).kind = "state" => StateGood(Head(q).state)
  BY <1>1 DEF InboxGood, IsState
<1>6. ASSUME Head(q).kind = "state", Head(q).state.server # s PROVE Queued(p, s)
  <2>1. PICK j \in DOMAIN q : j > 1 /\ IsState(q[j]) /\ q[j].state.server = s
    BY <1>1, <1>6 DEF InboxGood, IsState
  <2> QED
    BY <1>2, <2>1
<1>7. ASSUME Head(q).kind # "state", shown # s PROVE Queued(p, s)
  <2>1. PICK j \in DOMAIN q : IsState(q[j]) /\ q[j].state.server = s
    BY <1>7 DEF Queued
  <2>2. j # 1 /\ j > 1
    BY <1>1, <1>7, <2>1 DEF IsState
  <2> QED
    BY <1>2, <2>1, <2>2
<1> QED
  BY <1>1, <1>4, <1>5, <1>6, <1>7 DEF p


LEMMA PlainModals ==
    ASSUME NEW picked PROVE ModalGood(NoModal, picked) /\ ModalGood(EnrollmentForm, picked)
BY DEF ModalGood, NoModal, EnrollmentForm

LEMMA StateIsApplied ==
    ASSUME NEW a, NEW picked, AppGood(a, picked), NEW state, StateGood(state)
    PROVE  AppGood(ApplyState(a, state), picked) /\ ApplyState(a, state).state = state
<1> DEFINE b == ApplyState(a, state)
           moved == a.state.server # state.server \/ a.state.chan # state.chan
<1>1. /\ DOMAIN b = AppFields /\ b.state = state /\ b.drafts = a.drafts
      /\ b.history = (IF moved THEN NoHistory ELSE a.history)
      /\ b.modal = (IF state.registered THEN a.modal ELSE EnrollmentForm)
  BY DEF AppGood, AppFields, ApplyState
<1>2. HistoryGood(NoHistory, state)
  BY DEF HistoryGood, HistoryFields, HeldOn, NoHistory
<1>3. ~moved => HistoryGood(a.history, state)
  BY DEF AppGood, HistoryGood
<1> HIDE DEF moved, b
<1> QED
  BY <1>1, <1>2, <1>3, PlainModals DEF AppGood, b

LEMMA RequestIsApplied ==
    ASSUME NEW a, NEW picked, AppGood(a, picked), NEW r \in Requests, NEW copy,
           HomeServer(r) = a.state.server
    PROVE  /\ AppGood(ApplyRequest(a, r, copy), picked)
           /\ ApplyRequest(a, r, copy).state.server = a.state.server
<1> DEFINE held == Put(a.state.reqs, r, copy)
           kept == IF r \in DOMAIN a.history.reqs THEN [a.history.reqs EXCEPT ![r] = copy]
                   ELSE a.history.reqs
           b == ApplyRequest(a, r, copy)
<1>1. DOMAIN held = DOMAIN a.state.reqs \cup {r} /\ DOMAIN kept = DOMAIN a.history.reqs
  BY DEF Put
<1> HIDE DEF held, kept
<1>2. b = [[a EXCEPT !.state.reqs = held] EXCEPT !.history.reqs = kept]
  BY DEF AppGood, AppFields, ApplyRequest, held, kept
<1> HIDE DEF b
<1>3. /\ DOMAIN b = AppFields /\ b.drafts = a.drafts /\ b.modal = a.modal
      /\ b.state = [a.state EXCEPT !.reqs = held]
      /\ b.history = [a.history EXCEPT !.reqs = kept]
  BY <1>2 DEF AppGood, AppFields
<1>4. StateGood(b.state) /\ b.state.server = a.state.server /\ b.state.chan = a.state.chan
  BY <1>1, <1>3 DEF AppGood, StateGood, StateFields, HeldOn
<1>5. HistoryGood(b.history, b.state)
  BY <1>1, <1>3, <1>4 DEF AppGood, HistoryGood, HistoryFields, HeldOn
<1> QED
  BY <1>3, <1>4, <1>5 DEF AppGood, b

LEMMA ModalIsClosed ==
    ASSUME NEW a, NEW picked, AppGood(a, picked), NEW modal, ModalGood(modal, picked)
    PROVE  /\ AppGood([a EXCEPT !.modal = modal], picked)
           /\ [a EXCEPT !.modal = modal].state = a.state
BY DEF AppGood, AppFields

LEMMA CloseModalIsGood ==
    ASSUME NEW a, NEW picked, AppGood(a, picked), NEW kind
    PROVE  AppGood(CloseModal(a, kind), picked) /\ CloseModal(a, kind).state = a.state
BY ModalIsClosed, PlainModals DEF CloseModal

LEMMA SelectionIsKept ==
    ASSUME NEW a, NEW picked, AppGood(a, picked), NEW r
    PROVE  /\ AppGood([a EXCEPT !.history.sel = r], picked)
           /\ [a EXCEPT !.history.sel = r].state = a.state
<1> DEFINE b == [a EXCEPT !.history.sel = r]
<1>1. /\ DOMAIN b = AppFields /\ b.drafts = a.drafts /\ b.modal = a.modal /\ b.state = a.state
      /\ b.history = [a.history EXCEPT !.sel = r]
  BY DEF AppGood, AppFields
<1> HIDE DEF b
<1>2. HistoryGood(b.history, b.state)
  BY <1>1 DEF AppGood, HistoryGood, HistoryFields, HeldOn
<1> QED
  BY <1>1, <1>2 DEF AppGood, b

(* A page of another selection is dropped. *)
LEMMA HistoryIsApplied ==
    ASSUME NEW a, NEW picked, AppGood(a, picked), NEW query, NEW page,
           HeldOn(page.reqs, query.server)
    PROVE  /\ AppGood(ApplyHistory(a, query, page), picked)
           /\ ApplyHistory(a, query, page).state = a.state
<1>1. CASE query.server # a.state.server \/ query.chan # a.state.chan
  BY <1>1 DEF ApplyHistory
<1>2. CASE query.server = a.state.server /\ query.chan = a.state.chan
  <2> DEFINE before == IF query.before = None THEN NoHistory.reqs ELSE a.history.reqs
             reqs == Over(page.reqs, before)
             b == [a EXCEPT !.history.reqs = reqs,
                            !.history.cursor = page.next, !.history.loaded = TRUE,
                            !.history.of = <<query.server, query.chan>>]
  <2>1. HeldOn(before, a.state.server)
    BY DEF AppGood, HistoryGood, NoHistory, HeldOn
  <2> HIDE DEF before
  <2>2. HeldOn(reqs, a.state.server)
    BY <1>2, <2>1 DEF Over, HeldOn
  <2>3. ApplyHistory(a, query, page) = EnsureHistorySelection(b)
    BY <1>2 DEF ApplyHistory, AppGood, AppFields, HistoryGood, HistoryFields, before
  <2> HIDE DEF reqs
  <2>4. /\ DOMAIN b = AppFields /\ b.drafts = a.drafts /\ b.modal = a.modal /\ b.state = a.state
        /\ DOMAIN b.history = HistoryFields /\ b.history.reqs = reqs
        /\ b.history.of = <<query.server, query.chan>>
    BY DEF AppGood, AppFields, HistoryGood, HistoryFields
  <2> HIDE DEF b
  <2>5. HistoryGood(b.history, b.state)
    BY <1>2, <2>2, <2>4 DEF HistoryGood
  <2>6. AppGood(b, picked)
    BY <2>4, <2>5 DEF AppGood
  <2>7. AppGood(EnsureHistorySelection(b), picked) /\ EnsureHistorySelection(b).state = b.state
    BY <2>6, SelectionIsKept DEF EnsureHistorySelection
  <2> QED
    BY <2>3, <2>4, <2>7
<1> QED
  BY <1>1, <1>2

LEMMA NothingRuns ==
    ASSUME NEW a, NEW picked, AppGood(a, picked), NEW x
    PROVE  /\ AppGood([a EXCEPT !.running = x], picked)
           /\ [a EXCEPT !.running = x].state = a.state
BY DEF AppGood, AppFields

LEMMA MessageIsApplied ==
    ASSUME NEW a, NEW picked, AppGood(a, picked), NEW m,
           m.kind \in {"state", "auth_revoked", "candidate", "removed"},
           m.kind = "state" => StateGood(m.state)
    PROVE  /\ AppGood(ApplyMessage(a, m), picked)
           /\ ApplyMessage(a, m).state = IF m.kind = "state" THEN m.state ELSE a.state
<1>1. CASE m.kind = "state"
  <2>1. ApplyMessage(a, m) = ApplyState(a, m.state)
    BY <1>1 DEF ApplyMessage
  <2> QED
    BY <1>1, <2>1, StateIsApplied
<1>2. CASE m.kind = "auth_revoked"
  <2>1. ApplyMessage(a, m) = [a EXCEPT !.running = None]
    BY <1>2 DEF ApplyMessage, SetError
  <2> QED
    BY <1>2, <2>1, NothingRuns
<1>3. CASE m.kind \in {"candidate", "removed"}
  <2>1. \E x : ApplyMessage(a, m) = [a EXCEPT !.alert = x]
    <3>1. CASE m.kind = "candidate"
      BY <3>1 DEF ApplyMessage
    <3>2. CASE m.kind = "removed"
      <4>1. ApplyMessage(a, m) = [a EXCEPT !.alert = IF a.alert = m.r THEN None ELSE a.alert]
        BY <3>2 DEF ApplyMessage, AppGood, AppFields
      <4> QED
        BY <4>1
    <3> QED
      BY <1>3, <3>1, <3>2
  <2> QED
    BY <1>3, <2>1 DEF AppGood, AppFields
<1> QED
  BY <1>1, <1>2, <1>3

LEMMA OutcomeIsApplied ==
    ASSUME NEW a, NEW picked, AppGood(a, picked), NEW server, NEW m, OutcomeGood(m, server),
           m.kind = "request" => a.state.server = server
    PROVE  /\ AppGood(ApplyOutcome(a, m), picked)
           /\ ApplyOutcome(a, m).state.server =
                 IF m.kind = "state" THEN server ELSE a.state.server
<1> DEFINE applied ==
            CASE m.kind = "state" ->
                    LET b == ApplyState(a, m.state)
                    IN  IF a.running = "enroll" /\ m.state.registered
                        THEN [b EXCEPT !.modal = NoModal] ELSE b
              [] m.kind = "request" -> CloseModal(ApplyRequest(a, m.r, m.copy), "text")
              [] m.kind = "device" -> CloseModal(a, "rename")
              [] m.kind = "history" -> ApplyHistory(a, m.query, m.page)
              [] m.kind = "none" -> a
              [] m.kind = "error" -> a
           confirmed == applied.modal.kind = "confirm" /\ applied.modal.command.op = a.running
<1>1. /\ AppGood(applied, picked)
      /\ applied.state.server = IF m.kind = "state" THEN server ELSE a.state.server
  <2>1. CASE m.kind = "state"
    <3>1. /\ AppGood(ApplyState(a, m.state), picked)
          /\ ApplyState(a, m.state).state = m.state /\ m.state.server = server
      BY <2>1, StateIsApplied DEF OutcomeGood
    <3>2. applied \in {ApplyState(a, m.state), [ApplyState(a, m.state) EXCEPT !.modal = NoModal]}
      BY <2>1
    <3> HIDE DEF applied
    <3> DEFINE b == ApplyState(a, m.state)
    <3>3. /\ AppGood([b EXCEPT !.modal = NoModal], picked)
          /\ [b EXCEPT !.modal = NoModal].state = b.state
      <4> HIDE DEF b
      <4> QED
        BY <3>1, ModalIsClosed, PlainModals DEF b
    <3> HIDE DEF b
    <3> QED
      BY <2>1, <3>1, <3>2, <3>3 DEF b
  <2>2. CASE m.kind = "request"
    <3>1. /\ AppGood(ApplyRequest(a, m.r, m.copy), picked)
          /\ ApplyRequest(a, m.r, m.copy).state.server = a.state.server
      BY <2>2, RequestIsApplied DEF OutcomeGood
    <3>2. applied = CloseModal(ApplyRequest(a, m.r, m.copy), "text")
      BY <2>2
    <3> HIDE DEF applied
    <3> QED
      BY <2>2, <3>1, <3>2, CloseModalIsGood
  <2>3. CASE m.kind = "device"
    <3>1. applied = CloseModal(a, "rename")
      BY <2>3
    <3> HIDE DEF applied
    <3> QED
      BY <2>3, <3>1, CloseModalIsGood
  <2>4. CASE m.kind = "history"
    <3>1. applied = ApplyHistory(a, m.query, m.page)
      BY <2>4
    <3> HIDE DEF applied
    <3> QED
      BY <2>4, <3>1, HistoryIsApplied DEF OutcomeGood
  <2>5. CASE m.kind \in {"none", "error"}
    <3>1. applied = a
      BY <2>5
    <3> HIDE DEF applied
    <3> QED
      BY <2>5, <3>1
  <2> QED
    BY <2>1, <2>2, <2>3, <2>4, <2>5 DEF OutcomeGood
<1>2. ApplyOutcome(a, m) =
            IF m.kind = "error" THEN [a EXCEPT !.running = None]
            ELSE [applied EXCEPT !.running = None,
                                 !.modal = IF confirmed THEN NoModal ELSE applied.modal]
  <2>1. DOMAIN applied = AppFields
    BY <1>1 DEF AppGood
  <2> QED
    BY <2>1 DEF ApplyOutcome, SetError, AppFields
<1> HIDE DEF applied, confirmed
<1>3. CASE m.kind = "error"
  BY <1>2, <1>3, NothingRuns
<1>4. CASE m.kind # "error"
  <2> DEFINE b == [applied EXCEPT !.running = None]
             modal == IF confirmed THEN NoModal ELSE applied.modal
  <2>1. AppGood(b, picked) /\ b.state = applied.state
    BY <1>1, NothingRuns
  <2>2. ModalGood(modal, picked)
    BY <1>1, PlainModals DEF AppGood
  <2> HIDE DEF modal
  <2>3. ApplyOutcome(a, m) = [b EXCEPT !.modal = modal]
    BY <1>2, <1>4 DEF modal
  <2> HIDE DEF b
  <2>4. AppGood([b EXCEPT !.modal = modal], picked) /\ [b EXCEPT !.modal = modal].state = b.state
    BY <2>1, <2>2, ModalIsClosed
  <2> QED
    BY <1>1, <2>1, <2>3, <2>4
<1> QED
  BY <1>3, <1>4


-----------------------------------------------------------------------------
(***************************************************************************)
(* The runtime.                                                            *)
(***************************************************************************)
LEMMA StateMessageIsGood ==
    /\ StateMessage.kind = "state" /\ StateGood(StateMessage.state)
    /\ StateMessage.state.server = rt'.server
BY SnapshotIsGood DEF StateMessage

LEMMA QueuedOneByOne ==
    ASSUME NEW q, IsSeq(q), NEW x, NEW y
    PROVE  /\ q \o <<>> = q /\ q \o Append(<<>>, y) = Append(q, y)
           /\ q \o Append(<<x>>, y) = Append(Append(q, x), y)
<1> DEFINE S == {q[i] : i \in DOMAIN q} \cup {x, y}
<1>1. q \in Seq(S)
  BY SeqMonotonic DEF IsSeq
<1>2. x \in S /\ y \in S
  OBVIOUS
<1> HIDE DEF S
<1> QED
  BY <1>1, <1>2

LEMMA MessagesAreQueued ==
    ASSUME NEW q, IsSeq(q), InboxGood(q, rt.server), rt'.server = rt.server,
           NEW r, NEW p, p = q \o RequestMessages(r)
    PROVE  /\ IsSeq(p) /\ InboxGood(p, rt.server)
           /\ Queued(q, rt.server) => Queued(p, rt.server)
<1>1. CASE HomeServer(r) # rt.server
  BY <1>1, QueuedOneByOne DEF RequestMessages
<1>2. CASE HomeServer(r) = rt.server
  <2>1. PICK notices : /\ RequestMessages(r) = Append(notices, StateMessage)
                       /\ \/ notices = <<>>
                          \/ notices = <<[kind |-> "removed", r |-> r]>>
                          \/ notices = <<[kind |-> "candidate", r |-> r]>>
    BY <1>2 DEF RequestMessages
  <2>2. ASSUME NEW b, IsSeq(b), InboxGood(b, rt.server)
        PROVE  /\ IsSeq(Append(b, StateMessage)) /\ InboxGood(Append(b, StateMessage), rt.server)
               /\ Queued(Append(b, StateMessage), rt.server)
    BY <2>2, StateMessageIsGood, StateIsQueued
  <2> HIDE DEF StateMessage
  <2>3. CASE notices = <<>>
    <3>1. p = q \o Append(<<>>, StateMessage)
      BY <2>1, <2>3
    <3>2. p = Append(q, StateMessage)
      BY <3>1, QueuedOneByOne
    <3> QED
      BY <2>2, <3>2
  <2>4. ASSUME NEW n, n.kind \in {"removed", "candidate"}, notices = <<n>>
        PROVE  /\ IsSeq(p) /\ InboxGood(p, rt.server) /\ Queued(p, rt.server)
    <3>1. IsSeq(Append(q, n)) /\ InboxGood(Append(q, n), rt.server)
      BY <2>4, NoticeIsQueued
    <3>2. p = Append(Append(q, n), StateMessage)
      BY <2>1, <2>4, QueuedOneByOne
    <3> QED
      BY <2>2, <3>1, <3>2
  <2>5. CASE notices = <<[kind |-> "removed", r |-> r]>>
    BY <2>4, <2>5
  <2>6. CASE notices = <<[kind |-> "candidate", r |-> r]>>
    BY <2>4, <2>6
  <2> QED
    BY <2>1, <2>3, <2>5, <2>6
<1> QED
  BY <1>1, <1>2

LEMMA SyncKeepsInv ==
    ASSUME TermInv,
           \/ \E r \in Requests : SyncChangesRequest(r)
           \/ SyncDropsChannel \/ SyncRevoked \/ SyncResyncs
    PROVE  TermInv'
<1>1. SUFFICES /\ RuntimeGood(rt') /\ rt'.server = rt.server
               /\ IsSeq(inbox') /\ InboxGood(inbox', rt.server)
               /\ Queued(inbox, rt.server) => Queued(inbox', rt.server)
  <2>1. UNCHANGED <<commands, results, inFlight, pc, app, chosen>>
    BY DEF SyncChangesRequest, SyncDropsChannel, SyncRevoked, SyncResyncs
  <2> QED
    BY <1>1, <2>1 DEF TermInv
<1>2. IsSeq(inbox) /\ InboxGood(inbox, rt.server) /\ RuntimeGood(rt)
  BY DEF TermInv
<1>3. ASSUME NEW r \in Requests, SyncChangesRequest(r)
      PROVE  /\ RuntimeGood(rt') /\ rt'.server = rt.server
             /\ IsSeq(inbox') /\ InboxGood(inbox', rt.server)
             /\ Queued(inbox, rt.server) => Queued(inbox', rt.server)
  BY <1>2, <1>3, MessagesAreQueued DEF SyncChangesRequest
<1>4. CASE SyncDropsChannel
  <2>1. RuntimeGood(rt') /\ rt'.server = rt.server /\ inbox' = Append(inbox, StateMessage)
    BY <1>2, <1>4 DEF SyncDropsChannel, RuntimeGood
  <2> QED
    BY <1>2, <2>1, StateMessageIsGood, StateIsQueued
<1>5. CASE SyncRevoked
  <2>1. RuntimeGood(rt') /\ rt'.server = rt.server
        /\ inbox' = Append(inbox, [kind |-> "auth_revoked"])
    BY <1>2, <1>5 DEF SyncRevoked, RuntimeGood
  <2> QED
    BY <1>2, <2>1, NoticeIsQueued
<1>6. CASE SyncResyncs
  <2>1. RuntimeGood(rt') /\ rt'.server = rt.server /\ inbox' = <<StateMessage>> /\ inbox = <<>>
    BY <1>2, <1>6 DEF SyncResyncs, RuntimeGood
  <2> HIDE DEF StateMessage
  <2>2. inbox' = Append(inbox, StateMessage)
    BY <2>1
  <2> QED
    BY <1>2, <2>1, <2>2, StateMessageIsGood, StateIsQueued
<1> QED
  BY <1>3, <1>4, <1>5, <1>6

(* Only the commands of the start overlap, and neither selects a server.    *)
LEMMA ExecutedKeepsInv ==
    ASSUME TermInv, NEW command \in commands, commands' = commands \ {command},
           NEW m, results' = Append(results, m), OutcomeGood(m, rt'.server),
           command.op \in {"refresh", "connect"} =>
              rt'.server = rt.server /\ m.kind \in {"state", "none", "error"},
           rt'.server # rt.server => m.kind = "state",
           RuntimeGood(rt'), IsSeq(inbox'), InboxGood(inbox', rt'.server),
           app.state.server # rt'.server => Queued(inbox', rt'.server),
           UNCHANGED <<inFlight, pc, app, chosen>>
    PROVE  TermInv'
<1>1. /\ IsSeq(results) /\ OneInFlight(commands, results, inFlight)
      /\ OutcomesGood(results, rt.server) /\ Caught(pc, app.state.server, results, rt.server)
  BY DEF TermInv
<1>2. /\ IsSeq(results') /\ Len(results) \in Nat /\ Len(results') = Len(results) + 1
      /\ DOMAIN results = 1..Len(results) /\ DOMAIN results' = 1..(Len(results) + 1)
      /\ results'[Len(results) + 1] = m
      /\ \A i \in DOMAIN results : results'[i] = results[i]
  BY <1>1, QueueGrows
<1>3. /\ IsFiniteSet(commands') /\ Cardinality(commands') = Cardinality(commands) - 1
      /\ Cardinality(commands) \in Nat /\ Cardinality(commands') \in Nat
  BY <1>1, FS_RemoveElement, FS_CardinalityType DEF OneInFlight
<1>4. OneInFlight(commands', results', inFlight')
  <2>1. inFlight' = Cardinality(commands') + Len(results')
    BY <1>1, <1>2, <1>3 DEF OneInFlight
  <2>2. CASE inFlight <= 1
    BY <1>3, <2>1, <2>2 DEF OneInFlight
  <2>3. CASE /\ \A q \in commands : q.op \in {"refresh", "connect"}
             /\ \A i \in DOMAIN results : results[i].kind \in {"state", "none", "error"}
    <3>1. \A i \in DOMAIN results' : results'[i].kind \in {"state", "none", "error"}
      BY <1>2, <2>3
    <3> QED
      BY <1>3, <2>1, <2>3, <3>1 DEF OneInFlight
  <2> QED
    BY <1>1, <2>2, <2>3 DEF OneInFlight
<1>5. rt'.server # rt.server => Len(results) = 0
  BY <1>1, <1>2, <1>3 DEF OneInFlight
<1>6. OutcomesGood(results', rt'.server)
  <2>1. ASSUME NEW i \in DOMAIN results' PROVE OutcomeGood(results'[i], rt'.server)
    BY <1>1, <1>2, <1>5 DEF OutcomesGood
  <2> QED
    BY <2>1 DEF OutcomesGood
<1>7. Caught(pc', app'.state.server, results', rt'.server)
  <2>1. CASE rt'.server = rt.server
    BY <1>1, <1>2, <2>1 DEF Caught
  <2>2. CASE rt'.server # rt.server
    BY <1>2, <2>2 DEF Caught, IsState
  <2> QED
    BY <2>1, <2>2
<1>8. app'.state.server # rt'.server => Queued(inbox', rt'.server)
  BY DEF TermInv
<1>9. AppGood(app', chosen') /\ CommandsGood(commands', chosen')
  BY DEF TermInv, CommandsGood
<1> QED
  BY <1>2, <1>4, <1>6, <1>7, <1>8, <1>9 DEF TermInv

LEMMA SelectsIsGood ==
    ASSUME TermInv, NEW command
    PROVE  /\ RuntimeGood(Selects(command))
           /\ command.op \in {"refresh", "connect"} => Selects(command).server = rt.server
<1>1. RuntimeGood(rt)
  BY DEF TermInv
<1>2. \A s : RuntimeGood(Select(s))
  BY <1>1 DEF RuntimeGood, Select
<1>3. \A s : RuntimeGood(Forget(s))
  <2>1. \A s, left : RuntimeGood([rt EXCEPT !.servers = left])
                     /\ RuntimeGood([Select(s) EXCEPT !.servers = left])
    BY <1>1, <1>2 DEF RuntimeGood
  <2> QED
    BY <2>1 DEF Forget
<1>4. CASE command.op = "enroll"
  BY <1>2, <1>4 DEF Selects, RuntimeGood
<1>5. CASE command.op \in {"refresh", "clear", "subscription", "connect"}
  BY <1>1, <1>5 DEF Selects, RuntimeGood
<1>6. CASE command.op = "select_server"
  BY <1>2, <1>6 DEF Selects
<1>7. CASE command.op \in {"forget", "revoke"}
  BY <1>1, <1>3, <1>7 DEF Selects
<1>8. CASE command.op \in {"select_channel", "select_request"}
  BY <1>1, <1>8 DEF Selects, RuntimeGood
<1>9. CASE command.op \notin {"enroll", "refresh", "clear", "subscription", "connect", "select_server",
                              "forget", "revoke", "select_channel", "select_request"}
  BY <1>1, <1>9 DEF Selects
<1> QED
  BY <1>4, <1>5, <1>6, <1>7, <1>8, <1>9

LEMMA ExecuteKeepsInv ==
    ASSUME TermInv, NEW command \in commands, Execute(command)
    PROVE  TermInv'
<1>1. /\ commands' = commands \ {command} /\ UNCHANGED <<inFlight, pc, app, chosen>>
      /\ IsSeq(inbox) /\ InboxGood(inbox, rt.server) /\ RuntimeGood(rt)
  BY DEF Execute, TermInv
<1>2. CASE ExecutesState(command)
  <2>1. /\ rt' = Selects(command) /\ inbox' = Append(inbox, StateMessage)
        /\ results' = Append(results, StateMessage)
    BY <1>2 DEF ExecutesState
  <2>2. OutcomeGood(StateMessage, rt'.server) /\ StateMessage.kind = "state"
    BY StateMessageIsGood DEF OutcomeGood
  <2>3. IsSeq(inbox') /\ InboxGood(inbox', rt'.server) /\ Queued(inbox', rt'.server)
    BY <1>1, <2>1, StateMessageIsGood, StateIsQueued
  <2>4. RuntimeGood(rt') /\ (command.op \in {"refresh", "connect"} => rt'.server = rt.server)
    BY <2>1, SelectsIsGood
  <2> HIDE DEF StateMessage
  <2> QED
    BY <1>1, <2>1, <2>2, <2>3, <2>4, ExecutedKeepsInv
<1>3. CASE ExecutesSubmit(command)
  <2> DEFINE m == [kind |-> "request", r |-> command.r, copy |-> world'[command.r]]
  <2>1. /\ command.op = "submit" /\ rt' = rt /\ HomeServer(command.r) = rt.server
        /\ inbox' = inbox \o RequestMessages(command.r) /\ results' = Append(results, m)
    BY <1>3 DEF ExecutesSubmit, SubmitAccepted
  <2>2. OutcomeGood(m, rt.server)
    BY <2>1 DEF OutcomeGood, TermInv, CommandsGood, CommandGood
  <2>3. IsSeq(inbox') /\ InboxGood(inbox', rt.server) /\ (Queued(inbox, rt.server) => Queued(inbox', rt.server))
    BY <1>1, <2>1, MessagesAreQueued
  <2> HIDE DEF m
  <2>4. app.state.server # rt.server => Queued(inbox', rt.server)
    BY <2>3 DEF TermInv
  <2> QED
    BY <1>1, <2>1, <2>2, <2>3, <2>4, ExecutedKeepsInv
<1>4. ASSUME NEW m, results' = Append(results, m), OutcomeGood(m, rt.server), UNCHANGED inbox,
             rt'.server = rt.server, RuntimeGood(rt'),
             command.op \in {"refresh", "connect"} => m.kind \in {"state", "none", "error"}
      PROVE  TermInv'
  <2>1. app.state.server # rt.server => Queued(inbox', rt.server)
    BY <1>4 DEF TermInv
  <2> QED
    BY <1>1, <1>4, <2>1, ExecutedKeepsInv
<1>5. CASE ExecutesQuietly(command)
  <2>1. /\ command.op \in {"connect", "devices", "rename", "history"} /\ UNCHANGED inbox
        /\ rt' = IF command.op = "connect" THEN [rt EXCEPT !.task = TRUE] ELSE rt
    BY <1>5 DEF ExecutesQuietly
  <2>2. RuntimeGood(rt') /\ rt'.server = rt.server
    BY <1>1, <2>1 DEF RuntimeGood
  <2>3. CASE command.op = "history"
    <3> DEFINE m == [kind |-> "history", query |-> command, page |-> HistoryPage(command)]
    <3>1. results' = Append(results, m)
      BY <1>5, <2>3 DEF ExecutesQuietly
    <3>2. OutcomeGood(m, rt.server)
      BY DEF OutcomeGood, HistoryPage, HeldOn, InSelection
    <3> HIDE DEF m
    <3> QED
      BY <1>4, <2>1, <2>2, <2>3, <3>1, <3>2
  <2>4. CASE command.op # "history"
    <3>1. PICK kind \in {"device", "none"} :
            /\ results' = Append(results, [kind |-> kind])
            /\ command.op = "connect" => kind = "none"
      BY <1>5, <2>1, <2>4 DEF ExecutesQuietly
    <3>2. OutcomeGood([kind |-> kind], rt.server)
      BY DEF OutcomeGood
    <3>3. command.op \in {"refresh", "connect"} => [kind |-> kind].kind \in {"state", "none", "error"}
      BY <2>1, <3>1
    <3> QED
      BY <1>4, <2>1, <2>2, <3>1, <3>2, <3>3
  <2> QED
    BY <2>3, <2>4
<1>6. CASE ExecutesWithError(command)
  <2>1. results' = Append(results, [kind |-> "error"]) /\ UNCHANGED <<rt, inbox>>
    BY <1>6 DEF ExecutesWithError, runtimeVars
  <2>2. OutcomeGood([kind |-> "error"], rt.server)
    BY DEF OutcomeGood
  <2> QED
    BY <1>1, <1>4, <2>1, <2>2
<1> QED
  BY <1>2, <1>3, <1>5, <1>6 DEF Execute


-----------------------------------------------------------------------------
(***************************************************************************)
(* The selection.                                                          *)
(***************************************************************************)
LEMMA LeastNumber ==
    ASSUME NEW T \in SUBSET Nat, T # {}
    PROVE  \E n \in T : \A m \in T : n <= m
<1>1. PICK n \in T : \A m \in T : <<m, n>> \notin OpToRel(<, Nat)
  BY NatLessThanWellFounded, WFMin
<1>2. ASSUME NEW m \in T PROVE ~(m < n)
  BY <1>1 DEF OpToRel
<1> QED
  BY <1>2

(* The largest is the one with the fewest above it.                         *)
LEMMA MaxIsTaken ==
    ASSUME NEW set \in SUBSET Nat, IsFiniteSet(set), set # {}
    PROVE  Max(set) \in set
<1> DEFINE above(r) == {q \in set : q > r}
           T == {Cardinality(above(r)) : r \in set}
<1>1. ASSUME NEW r \in set
      PROVE  IsFiniteSet(above(r)) /\ Cardinality(above(r)) \in Nat
  <2>1. above(r) \in SUBSET set
    OBVIOUS
  <2>2. IsFiniteSet(above(r))
    BY <2>1, FS_Subset
  <2> QED
    BY <2>2, FS_CardinalityType
<1>2. PICK r \in set : \A s \in set : Cardinality(above(r)) <= Cardinality(above(s))
  <2>1. T \in SUBSET Nat /\ T # {}
    BY <1>1
  <2>2. PICK n \in T : \A m \in T : n <= m
    BY <2>1, LeastNumber
  <2> QED
    BY <2>2
<1>3. ASSUME NEW s \in above(r) PROVE FALSE
  <2>0. r \in Nat /\ s \in Nat /\ s > r /\ \A q \in set : q \in Nat
    OBVIOUS
  <2>1. s \in set /\ s \notin above(s)
    BY <2>0
  <2>2. \A q \in above(s) : q \in above(r)
    BY <2>0
  <2>3. above(s) \in SUBSET above(r) /\ above(s) # above(r)
    BY <1>3, <2>1, <2>2
  <2>4. Cardinality(above(s)) <= Cardinality(above(r)) /\ Cardinality(above(s)) # Cardinality(above(r))
    BY <1>1, <2>3, FS_Subset
  <2>5. Cardinality(above(r)) <= Cardinality(above(s))
    BY <1>2, <2>1
  <2>6. Cardinality(above(r)) \in Nat /\ Cardinality(above(s)) \in Nat
    BY <1>1, <2>1
  <2> HIDE DEF above
  <2> QED
    BY <2>4, <2>5, <2>6
<1>4. \A s \in set : r >= s
  BY <1>3
<1> HIDE DEF above
<1> QED
  BY <1>4 DEF Max

LEMMA FirstIsTaken ==
    ASSUME NEW ids \in SUBSET Requests, NEW copies, First(ids, copies) # None
    PROVE  First(ids, copies) \in ids
<1> DEFINE pending == {r \in ids : copies[r].status = "pending"}
           among == IF pending # {} THEN pending ELSE ids
<1>1. First(ids, copies) = Max(among) /\ ids # {}
  BY DEF First
<1>2. among \in SUBSET ids /\ among # {}
  BY <1>1
<1> HIDE DEF among
<1>3. among \in SUBSET Nat /\ IsFiniteSet(among)
  BY <1>2, FS_Subset, TerminalAssumption
<1> QED
  BY <1>1, <1>2, <1>3, MaxIsTaken

(* What is selected is on display, and what is on display is of the server. *)
LEMMA SelectedIsShown ==
    ASSUME NEW a, NEW picked, AppGood(a, picked), NEW r, r = SelectedRequest(a), r # None
    PROVE  r \in DOMAIN Shown(a) /\ r \in Requests /\ HomeServer(r) = a.state.server
<1>1. DOMAIN Shown(a) = DOMAIN a.state.reqs \cup DOMAIN a.history.reqs
  BY DEF Shown, Over
<1>2. \A q \in DOMAIN Shown(a) : q \in Requests /\ HomeServer(q) = a.state.server
  BY <1>1 DEF AppGood, StateGood, HistoryGood, HeldOn
<1>3. First(DOMAIN a.state.reqs, a.state.reqs) # None =>
         First(DOMAIN a.state.reqs, a.state.reqs) \in DOMAIN a.state.reqs
  <2>1. DOMAIN a.state.reqs \in SUBSET Requests
    BY <1>1, <1>2
  <2> QED
    BY <2>1, FirstIsTaken
<1>4. r \in DOMAIN Shown(a)
  BY <1>1, <1>3 DEF SelectedRequest
<1> QED
  BY <1>2, <1>4


-----------------------------------------------------------------------------
(***************************************************************************)
(* The loop and the keys.                                                  *)
(***************************************************************************)
LEMMA DrainsKeepInv ==
    ASSUME TermInv, Loop
    PROVE  TermInv'
<1> USE DEF runtimeVars
<1>1. CASE PollTimesOut
  BY <1>1 DEF PollTimesOut, TermInv, Caught
<1>2. CASE DrainMessages /\ inbox = <<>>
  <2>1. UNCHANGED <<rt, inbox, app, commands, results, inFlight, chosen>>
    BY <1>2 DEF DrainMessages
  <2>2. app.state.server = rt.server
    BY <1>2 DEF TermInv, Queued
  <2> QED
    BY <2>1, <2>2 DEF TermInv, Caught
<1>3. CASE DrainMessages /\ inbox # <<>>
  <2>1. /\ app' = ApplyMessage(app, Head(inbox)) /\ inbox' = Tail(inbox) /\ pc' = "messages"
        /\ UNCHANGED <<rt, commands, results, inFlight, chosen>>
    BY <1>3 DEF DrainMessages
  <2>2. /\ IsSeq(inbox') /\ InboxGood(inbox', rt.server)
        /\ Head(inbox).kind \in {"state", "auth_revoked", "candidate", "removed"}
        /\ Head(inbox).kind = "state" =>
              /\ StateGood(Head(inbox).state)
              /\ Head(inbox).state.server # rt.server => Queued(inbox', rt.server)
        /\ Head(inbox).kind # "state" =>
              (app.state.server # rt.server => Queued(inbox', rt.server))
    <3>1. /\ IsSeq(inbox) /\ InboxGood(inbox, rt.server)
          /\ app.state.server # rt.server => Queued(inbox, rt.server)
      BY DEF TermInv
    <3> QED
      BY <1>3, <2>1, <3>1, HeadIsTaken
  <2>3. /\ AppGood(app', chosen)
        /\ app'.state = IF Head(inbox).kind = "state" THEN Head(inbox).state ELSE app.state
    <3>1. AppGood(app, chosen)
      BY DEF TermInv
    <3> QED
      BY <2>1, <2>2, <3>1, MessageIsApplied
  <2> QED
    BY <2>1, <2>2, <2>3 DEF TermInv, Caught
<1>4. CASE DrainResults /\ results = <<>>
  <2>1. UNCHANGED <<rt, inbox, app, commands, results, inFlight, chosen>> /\ pc = "results"
    BY <1>4 DEF DrainResults
  <2>2. app.state.server = rt.server
    BY <1>4, <2>1 DEF TermInv, Caught
  <2> QED
    BY <2>1, <2>2 DEF TermInv, Caught
<1>5. CASE DrainResults /\ results # <<>>
  <2> DEFINE m == Head(results)
  <2>1. /\ app' = ApplyOutcome(app, m) /\ results' = Tail(results) /\ pc = "results" /\ pc' = pc
        /\ inFlight' = inFlight - 1 /\ UNCHANGED <<rt, inbox, commands, chosen>>
    BY <1>5 DEF DrainResults
  <2>2. /\ IsSeq(results') /\ Len(results) \in Nat /\ Len(results') = Len(results) - 1
        /\ DOMAIN results = 1..Len(results) /\ DOMAIN results' = 1..(Len(results) - 1)
        /\ 1 \in DOMAIN results /\ m = results[1]
        /\ \A i \in DOMAIN results' : i + 1 \in DOMAIN results /\ results'[i] = results[i + 1]
    BY <1>5, <2>1, QueueHasHead DEF TermInv
  <2> HIDE DEF m
  <2>3. /\ OutcomesGood(results, rt.server) /\ OneInFlight(commands, results, inFlight)
        /\ Caught(pc, app.state.server, results, rt.server) /\ AppGood(app, chosen)
        /\ Cardinality(commands) \in Nat
    BY FS_CardinalityType DEF TermInv, OneInFlight
  <2>4. OutcomeGood(m, rt.server) /\ OutcomesGood(results', rt.server)
    BY <2>2, <2>3 DEF OutcomesGood
  <2>5. OneInFlight(commands', results', inFlight')
    BY <2>1, <2>2, <2>3 DEF OneInFlight
  <2>6. ASSUME m.kind = "request" PROVE app.state.server = rt.server
    <3>1. Len(results) = 1
      BY <2>2, <2>3, <2>6 DEF OneInFlight
    <3>2. \A i \in DOMAIN results : ~IsState(results[i])
      BY <2>2, <2>6, <3>1 DEF IsState
    <3> QED
      BY <2>1, <2>3, <3>2 DEF Caught
  <2>7. /\ AppGood(app', chosen)
        /\ app'.state.server = IF m.kind = "state" THEN rt.server ELSE app.state.server
    BY <2>1, <2>3, <2>4, <2>6, OutcomeIsApplied
  <2>8. Caught(pc', app'.state.server, results', rt.server)
    <3> SUFFICES ASSUME app'.state.server # rt.server
                 PROVE  \E i \in DOMAIN results' : IsState(results'[i])
      BY DEF Caught
    <3>1. m.kind # "state" /\ app.state.server # rt.server
      BY <2>7
    <3>2. PICK i \in DOMAIN results : IsState(results[i])
      BY <2>1, <2>3, <3>1 DEF Caught
    <3>3. i # 1 /\ i - 1 \in DOMAIN results' /\ results'[i - 1] = results[i]
      BY <2>2, <3>1, <3>2 DEF IsState
    <3> QED
      BY <3>2, <3>3
  <2>9. app'.state.server # rt'.server => Queued(inbox', rt'.server)
    BY <2>1, <2>7 DEF TermInv
  <2> QED
    BY <2>1, <2>2, <2>4, <2>5, <2>7, <2>8, <2>9 DEF TermInv
<1> QED
  BY <1>1, <1>2, <1>3, <1>4, <1>5 DEF Loop

LEMMA MorePicked ==
    ASSUME NEW p, NEW q, p \subseteq q
    PROVE  /\ \A m : ModalGood(m, p) => ModalGood(m, q)
           /\ \A s : CommandsGood(s, p) => CommandsGood(s, q)
           /\ \A d : DraftsGood(d, p) => DraftsGood(d, q)
<1>1. \A s : Fits(s, p) => Fits(s, q)
  BY DEF Fits
<1> QED
  BY <1>1 DEF ModalGood, CommandsGood, CommandGood, DraftsGood

LEMMA KeyKeepsInv ==
    ASSUME TermInv, Key, NEW a, AppGood(a, chosen'), a.state = app.state, chosen \subseteq chosen',
           \/ app' = a /\ UNCHANGED <<commands, inFlight>>
           \/ \E command : CommandGood(command, chosen') /\ Dispatch(a, command)
    PROVE  TermInv'
<1>1. /\ pc' = "messages" /\ UNCHANGED <<rt, inbox, results>>
      /\ Caught(pc', app'.state.server, results', rt.server)
  BY DEF Key, runtimeVars, Caught
<1>2. CommandsGood(commands, chosen')
  BY MorePicked DEF TermInv
<1>3. CASE app' = a /\ UNCHANGED <<commands, inFlight>>
  BY <1>1, <1>2, <1>3 DEF TermInv
<1>4. ASSUME NEW command, CommandGood(command, chosen'), Dispatch(a, command), ~(inFlight > 0)
      PROVE  TermInv'
  <2>1. /\ app' = [a EXCEPT !.running = command.op] /\ inFlight' = inFlight + 1
        /\ commands' = commands \cup {command}
    BY <1>4 DEF Dispatch
  <2>2. AppGood(app', chosen') /\ app'.state = app.state
    BY <2>1, NothingRuns
  <2>3. CommandsGood(commands', chosen')
    BY <1>2, <1>4, <2>1 DEF CommandsGood
  <2>4. IsSeq(results) /\ OneInFlight(commands, results, inFlight)
    BY DEF TermInv
  <2>5. /\ Len(results) \in Nat /\ Cardinality(commands) \in Nat /\ IsFiniteSet(commands)
        /\ inFlight = Cardinality(commands) + Len(results)
    BY <2>4, QueueGrows, FS_CardinalityType DEF OneInFlight
  <2>6. Len(results) = 0 /\ inFlight = 0 /\ Cardinality(commands) = 0
    BY <1>4, <2>5
  <2>7. commands = {}
    BY <2>5, <2>6, FS_EmptySet
  <2>8. IsFiniteSet(commands') /\ Cardinality(commands') = 1
    <3>1. commands' = {command}
      BY <2>1, <2>7
    <3> QED
      BY <3>1, FS_Singleton
  <2>9. OneInFlight(commands', results', inFlight')
    BY <1>1, <2>1, <2>6, <2>8 DEF OneInFlight
  <2> QED
    BY <1>1, <2>2, <2>3, <2>9 DEF TermInv
<1>5. ASSUME NEW command, Dispatch(a, command), inFlight > 0
      PROVE  TermInv'
  <2>1. app' = a /\ UNCHANGED <<commands, inFlight>>
    BY <1>5 DEF Dispatch
  <2> QED
    BY <1>3, <2>1
<1> QED
  BY <1>3, <1>4, <1>5

LEMMA PlainKeepsInv ==
    ASSUME TermInv, NEW a, Plain(a), AppGood(a, chosen), a.state = app.state
    PROVE  TermInv'
BY KeyKeepsInv DEF Plain

LEMMA AsksKeepsInv ==
    ASSUME TermInv, NEW a, NEW command, Asks(a, command), AppGood(a, chosen), a.state = app.state,
           CommandGood(command, chosen)
    PROVE  TermInv'
<1>1. Key /\ chosen' = chosen /\ Dispatch(a, command)
  BY DEF Asks
<1> QED
  BY <1>1, KeyKeepsInv

LEMMA ModalIsOpened ==
    ASSUME TermInv, NEW modal, ModalGood(modal, chosen)
    PROVE  /\ AppGood([app EXCEPT !.modal = modal], chosen)
           /\ [app EXCEPT !.modal = modal].state = app.state
BY ModalIsClosed DEF TermInv


(* An answer is the default, or a draft picked on this very content.        *)
LEMMA SubmissionFits ==
    ASSUME TermInv, NEW r \in Requests, NEW copy
    PROVE  /\ Submission(app, r, copy).op = "submit" /\ Submission(app, r, copy).r = r
           /\ Fits(Submission(app, r, copy), chosen)
<1> DEFINE s == Submission(app, r, copy)
           k == <<app.state.server, r, copy.ver>>
<1>1. s.op = "submit" /\ s.r = r /\ s.ver = copy.ver /\ s.value = AnswerValue(app, r, copy)
  BY DEF Submission
<1>2. DraftsGood(app.drafts, chosen)
  BY DEF TermInv, AppGood
<1>3. CASE k \in DOMAIN app.drafts
  <2>1. k[1] = HomeServer(r) /\ <<k[1], r, copy.ver, app.drafts[k]>> \in chosen
    BY <1>2, <1>3 DEF DraftsGood
  <2>2. AnswerValue(app, r, copy) \in {None, app.drafts[k]}
    BY <1>3 DEF AnswerValue, ValueDraftKey
  <2>3. s.value \in {None, app.drafts[k]} /\ <<HomeServer(r), r, copy.ver, app.drafts[k]>> \in chosen
    BY <1>1, <2>1, <2>2
  <2> HIDE DEF s, k
  <2>4. Fits(s, chosen)
    BY <1>1, <2>3 DEF Fits
  <2> QED
    BY <1>1, <2>4 DEF s
<1>4. CASE k \notin DOMAIN app.drafts
  BY <1>1, <1>4 DEF AnswerValue, ValueDraftKey, Fits
<1> QED
  BY <1>1, <1>3, <1>4

LEMMA ChoosesKeepsInv ==
    ASSUME TermInv, NEW r \in Requests, NEW copy, NEW notes, Chooses(r, copy, notes)
    PROVE  TermInv'
<1> DEFINE s == Submission(app, r, copy)
           closed == [app EXCEPT !.modal = NoModal]
           form == [kind |-> "text", submission |-> s]
<1>1. s.op = "submit" /\ s.r = r /\ Fits(s, chosen)
  BY SubmissionFits
<1>2. \/ Plain(SetError(closed)) \/ Asks(closed, s)
      \/ Plain([app EXCEPT !.modal = form])
  BY DEF Chooses
<1> HIDE DEF s
<1>3. AppGood(closed, chosen) /\ closed.state = app.state
  BY ModalIsOpened, PlainModals
<1>4. AppGood([app EXCEPT !.modal = form], chosen) /\ [app EXCEPT !.modal = form].state = app.state
  <2>1. ModalGood(form, chosen)
    BY <1>1 DEF ModalGood
  <2> HIDE DEF form
  <2> QED
    BY <2>1, ModalIsOpened
<1> HIDE DEF closed, form
<1>5. AppGood(SetError(closed), chosen) /\ SetError(closed).state = app.state
  BY <1>3, NothingRuns DEF SetError
<1>6. CommandGood(s, chosen)
  BY <1>1 DEF CommandGood
<1>7. CASE Plain(SetError(closed))
  BY <1>5, <1>7, PlainKeepsInv
<1>8. CASE Asks(closed, s)
  BY <1>3, <1>6, <1>8, AsksKeepsInv
<1>9. CASE Plain([app EXCEPT !.modal = form])
  BY <1>4, <1>9, PlainKeepsInv
<1> QED
  BY <1>2, <1>7, <1>8, <1>9

(* A command that is no submission carries no answer.                       *)
LEMMA CommandIsAsked ==
    ASSUME TermInv, NEW command, Asks(app, command), command.op # "submit"
    PROVE  TermInv'
<1>1. AppGood(app, chosen) /\ CommandGood(command, chosen)
  BY DEF TermInv, CommandGood
<1> QED
  BY <1>1, AsksKeepsInv

LEMMA ModalKeepsInv ==
    ASSUME TermInv, NEW modal, Plain([app EXCEPT !.modal = modal]), ModalGood(modal, chosen)
    PROVE  TermInv'
<1> DEFINE a == [app EXCEPT !.modal = modal]
<1>1. AppGood(a, chosen) /\ a.state = app.state /\ Plain(a)
  BY ModalIsOpened
<1> HIDE DEF a
<1> QED
  BY <1>1, PlainKeepsInv

LEMMA MainKeysKeepInv ==
    ASSUME TermInv, MainOpensModal \/ MainCommands \/ MoveRequest \/ MainDecides
    PROVE  TermInv'
<1>0. AppGood(app, chosen)
  BY DEF TermInv
<1>1. CASE MainOpensModal
  <2>1. CASE Plain([app EXCEPT !.modal = EnrollmentForm])
    BY <2>1, ModalKeepsInv, PlainModals
  <2>2. CASE Plain([app EXCEPT !.modal = [kind |-> "filter"]])
    <3>1. ModalGood([kind |-> "filter"], chosen)
      BY DEF ModalGood
    <3> QED
      BY <2>2, <3>1, ModalKeepsInv
  <2>3. CASE Plain([app EXCEPT !.muted = ~@])
    <3> DEFINE a == [app EXCEPT !.muted = ~@]
    <3>1. AppGood(a, chosen) /\ a.state = app.state
      BY <1>0 DEF AppGood, AppFields
    <3> HIDE DEF a
    <3> QED
      BY <2>3, <3>1, PlainKeepsInv DEF a
  <2>4. CASE Asks([app EXCEPT !.modal = [kind |-> "settings"]], [op |-> "devices"])
    <3> DEFINE a == [app EXCEPT !.modal = [kind |-> "settings"]]
               command == [op |-> "devices"]
    <3>1. ModalGood([kind |-> "settings"], chosen) /\ CommandGood(command, chosen)
      BY DEF ModalGood, CommandGood
    <3>2. AppGood(a, chosen) /\ a.state = app.state /\ Asks(a, command)
      BY <2>4, <3>1, ModalIsOpened
    <3> HIDE DEF a, command
    <3> QED
      BY <3>1, <3>2, AsksKeepsInv
  <2>5. ASSUME NEW r, r = SelectedRequest(app), r # None,
               Plain([app EXCEPT !.modal = [kind |-> "actions", r |-> r, copy |-> Shown(app)[r]]])
        PROVE  TermInv'
    <3> DEFINE modal == [kind |-> "actions", r |-> r, copy |-> Shown(app)[r]]
    <3>1. ModalGood(modal, chosen)
      BY <1>0, <2>5, SelectedIsShown DEF ModalGood
    <3> HIDE DEF modal
    <3> QED
      BY <2>5, <3>1, ModalKeepsInv DEF modal
  <2>6. CASE Plain([app EXCEPT !.modal = [kind |-> "confirm",
                        command |-> [op |-> "clear", chan |-> app.state.chan]]])
    <3> DEFINE modal == [kind |-> "confirm", command |-> [op |-> "clear", chan |-> app.state.chan]]
    <3>1. ModalGood(modal, chosen)
      BY DEF ModalGood
    <3> HIDE DEF modal
    <3> QED
      BY <2>6, <3>1, ModalKeepsInv DEF modal
  <2> QED
    BY <1>1, <2>1, <2>2, <2>3, <2>4, <2>5, <2>6 DEF MainOpensModal
<1>2. CASE MainCommands
  <2>1. \A before : HistoryQuery(app, before).op # "submit"
    BY DEF HistoryQuery
  <2>2. CASE Asks(app, [op |-> "refresh"])
    BY <2>2, CommandIsAsked
  <2>3. CASE Asks(app, HistoryQuery(app, None)) \/ Asks(app, HistoryQuery(app, app.history.cursor))
    BY <2>1, <2>3, CommandIsAsked
  <2>4. ASSUME NEW s, Asks(app, [op |-> "select_server", server |-> s]) PROVE TermInv'
    BY <2>4, CommandIsAsked
  <2>5. ASSUME NEW ch, Asks(app, [op |-> "select_channel", chan |-> ch]) PROVE TermInv'
    BY <2>5, CommandIsAsked
  <2> QED
    BY <1>2, <2>2, <2>3, <2>4, <2>5 DEF MainCommands
<1>3. CASE MoveRequest
  <2>1. PICK r : \/ Plain([app EXCEPT !.history.sel = r])
                 \/ Asks(app, [op |-> "select_request", r |-> r])
    BY <1>3 DEF MoveRequest
  <2>2. CASE Plain([app EXCEPT !.history.sel = r])
    <3> DEFINE a == [app EXCEPT !.history.sel = r]
    <3>1. AppGood(a, chosen) /\ a.state = app.state /\ Plain(a)
      BY <1>0, <2>2, SelectionIsKept
    <3> HIDE DEF a
    <3> QED
      BY <3>1, PlainKeepsInv
  <2>3. CASE Asks(app, [op |-> "select_request", r |-> r])
    BY <2>3, CommandIsAsked
  <2> QED
    BY <2>1, <2>2, <2>3
<1>4. CASE MainDecides
  <2>1. CASE SelectedRequest(app) = None
    <3>1. Plain(SetError(app))
      BY <1>4, <2>1 DEF MainDecides
    <3>2. AppGood(SetError(app), chosen) /\ SetError(app).state = app.state
      BY <1>0, NothingRuns DEF SetError
    <3> QED
      BY <3>1, <3>2, PlainKeepsInv
  <2>2. CASE SelectedRequest(app) # None
    <3> DEFINE r == SelectedRequest(app)
    <3>1. PICK notes : Chooses(r, Shown(app)[r], notes)
      BY <1>4, <2>2 DEF MainDecides
    <3>2. r \in Requests
      BY <1>0, <2>2, SelectedIsShown
    <3> HIDE DEF r
    <3> QED
      BY <3>1, <3>2, ChoosesKeepsInv
  <2> QED
    BY <2>1, <2>2
<1> QED
  BY <1>1, <1>2, <1>3, <1>4

(* The draft is filed under the content on screen.                          *)
LEMMA CycleKeepsInv ==
    ASSUME TermInv, CycleAnswer
    PROVE  TermInv'
<1> DEFINE r == SelectedRequest(app)
           copy == Shown(app)[r]
<1>1. PICK v : /\ Key
               /\ app' = [app EXCEPT !.drafts = Put(@, ValueDraftKey(app, r, copy), v)]
               /\ chosen' = chosen \cup {<<app.state.server, r, copy.ver, v>>}
               /\ UNCHANGED <<commands, inFlight>>
  BY DEF CycleAnswer
<1>2. AppGood(app, chosen)
  BY DEF TermInv
<1>3. HomeServer(r) = app.state.server
  <2>1. r \in Choice /\ r # None
    BY TerminalAssumption DEF CycleAnswer
  <2> QED
    BY <1>2, <2>1, SelectedIsShown
<1> DEFINE k == <<app.state.server, r, copy.ver>>
           drafts == Put(app.drafts, k, v)
           a == [app EXCEPT !.drafts = drafts]
<1>4. app' = a
  BY <1>1, <1>2 DEF AppGood, AppFields, ValueDraftKey
<1>5. chosen' = chosen \cup {<<k[1], k[2], k[3], v>>} /\ k[1] = HomeServer(k[2])
  BY <1>1, <1>3
<1> HIDE DEF r, copy, k
<1>6. /\ DOMAIN drafts = DOMAIN app.drafts \cup {k} /\ drafts[k] = v
      /\ \A j \in DOMAIN app.drafts : j # k => drafts[j] = app.drafts[j]
  BY DEF Put
<1> HIDE DEF drafts
<1>7. DraftsGood(drafts, chosen')
  BY <1>2, <1>5, <1>6 DEF AppGood, DraftsGood
<1>8. AppGood(a, chosen') /\ a.state = app.state
  <2>1. ModalGood(app.modal, chosen')
    BY <1>2, <1>5, MorePicked DEF AppGood
  <2>2. /\ DOMAIN a = AppFields /\ a.state = app.state /\ a.history = app.history
        /\ a.modal = app.modal /\ a.drafts = drafts
    BY <1>2 DEF AppGood, AppFields
  <2> HIDE DEF a
  <2> QED
    BY <1>2, <1>7, <2>1, <2>2 DEF AppGood
<1> HIDE DEF a
<1>9. /\ Key /\ chosen \subseteq chosen'
      /\ app' = a /\ UNCHANGED <<commands, inFlight>>
  BY <1>1, <1>4, <1>5
<1> QED
  BY <1>8, <1>9, KeyKeepsInv

LEMMA ModalKeysKeepInv ==
    ASSUME TermInv,
           \/ ActionsDecide \/ TextFormSubmits \/ EnrollmentSubmits \/ ConfirmSubmits
           \/ RenameSubmits \/ FilterSubmits \/ SettingsCommands \/ SettingsKey \/ Escape \/ Quits
    PROVE  TermInv'
<1>0. AppGood(app, chosen) /\ ModalGood(app.modal, chosen)
  BY DEF TermInv, AppGood
<1>1. CASE ActionsDecide
  <2>1. PICK notes : Chooses(app.modal.r, app.modal.copy, notes)
    BY <1>1 DEF ActionsDecide
  <2>2. app.modal.r \in Requests
    BY <1>0, <1>1 DEF ActionsDecide, ModalGood
  <2> QED
    BY <2>1, <2>2, ChoosesKeepsInv
<1>2. CASE TextFormSubmits
  <2>1. CommandGood(app.modal.submission, chosen) /\ Asks(app, app.modal.submission)
    BY <1>0, <1>2 DEF TextFormSubmits, ModalGood, CommandGood
  <2> QED
    BY <1>0, <2>1, AsksKeepsInv
<1>3. CASE EnrollmentSubmits \/ RenameSubmits \/ SettingsCommands
  <2>1. ASSUME NEW s, Asks(app, [op |-> "enroll", server |-> s]) PROVE TermInv'
    BY <2>1, CommandIsAsked
  <2>2. ASSUME NEW op \in {"rename", "subscription", "sound"}, Asks(app, [op |-> op]) PROVE TermInv'
    BY <2>2, CommandIsAsked
  <2> QED
    BY <1>3, <2>1, <2>2 DEF EnrollmentSubmits, RenameSubmits, SettingsCommands
<1>4. CASE ConfirmSubmits
  <2>1. Asks(app, app.modal.command) /\ app.modal.command.op # "submit"
    BY <1>0, <1>4 DEF ConfirmSubmits, ModalGood
  <2> QED
    BY <2>1, CommandIsAsked
<1>5. CASE FilterSubmits
  <2>1. PICK search : LET filtered == [app EXCEPT !.filter = search, !.modal = NoModal]
                      IN  Asks(filtered, HistoryQuery(filtered, None))
    BY <1>5 DEF FilterSubmits
  <2> DEFINE filtered == [app EXCEPT !.filter = search, !.modal = NoModal]
             query == HistoryQuery(filtered, None)
  <2>2. AppGood(filtered, chosen) /\ filtered.state = app.state
    BY <1>0, PlainModals DEF AppGood, AppFields
  <2>3. CommandGood(query, chosen)
    BY DEF CommandGood, HistoryQuery
  <2>4. Asks(filtered, query)
    BY <2>1
  <2> HIDE DEF filtered, query
  <2> QED
    BY <2>2, <2>3, <2>4, AsksKeepsInv
<1>6. CASE SettingsKey
  <2>1. CASE Plain([app EXCEPT !.modal = [kind |-> "rename"]])
    <3>1. ModalGood([kind |-> "rename"], chosen)
      BY DEF ModalGood
    <3> QED
      BY <2>1, <3>1, ModalKeepsInv
  <2>2. ASSUME NEW command, command.op \in {"forget", "revoke"},
               Plain([app EXCEPT !.modal = [kind |-> "confirm", command |-> command]])
        PROVE  TermInv'
    <3> DEFINE modal == [kind |-> "confirm", command |-> command]
    <3>1. ModalGood(modal, chosen)
      BY <2>2 DEF ModalGood
    <3> HIDE DEF modal
    <3> QED
      BY <2>2, <3>1, ModalKeepsInv DEF modal
  <2> QED
    BY <1>6, <2>1, <2>2 DEF SettingsKey
<1>7. CASE Escape
  BY <1>7, ModalKeepsInv, PlainModals DEF Escape
<1>8. CASE Quits
  <2> DEFINE a == [app EXCEPT !.quit = TRUE, !.modal = NoModal]
  <2>1. AppGood(a, chosen) /\ a.state = app.state
    BY <1>0, PlainModals DEF AppGood, AppFields
  <2>2. Plain(a)
    BY <1>8 DEF Quits
  <2> HIDE DEF a
  <2> QED
    BY <2>1, <2>2, PlainKeepsInv
<1> QED
  BY <1>1, <1>2, <1>3, <1>4, <1>5, <1>6, <1>7, <1>8


-----------------------------------------------------------------------------
(***************************************************************************)
(* The invariant holds, and with it the two properties.                    *)
(***************************************************************************)
LEMMA StartIsGood == Init => TermInv
<1> SUFFICES ASSUME Init PROVE TermInv
  OBVIOUS
<1> DEFINE start == Snapshot(rt, world)
           app0 == NewApp(start)
<1>1. StateGood(start) /\ start.server = rt.server
  BY SnapshotIsGood
<1> HIDE DEF start
<1>2. AppGood(app0, chosen) /\ app0.state = start
  <2>1. /\ DOMAIN app0 = AppFields /\ app0.state = start /\ app0.history = NoHistory
        /\ app0.modal \in {NoModal, EnrollmentForm} /\ DOMAIN app0.drafts = {}
    BY DEF NewApp, AppFields
  <2>2. HistoryGood(NoHistory, start)
    BY DEF HistoryGood, HistoryFields, HeldOn, NoHistory
  <2> HIDE DEF app0
  <2>3. DraftsGood(app0.drafts, chosen) /\ ModalGood(app0.modal, chosen)
    BY <2>1, PlainModals DEF DraftsGood
  <2> QED
    BY <1>1, <2>1, <2>2, <2>3 DEF AppGood
<1>3. AppGood(app, chosen) /\ app.state = start
  <2>1. PICK x : app = [app0 EXCEPT !.running = x]
    BY DEF Init, start
  <2> HIDE DEF app0
  <2> QED
    BY <1>2, <2>1, NothingRuns
<1>4. RuntimeGood(rt) /\ inbox = <<>> /\ results = <<>> /\ pc = "messages"
  BY DEF Init, RuntimeGood
<1>5. IsSeq(<<>>) /\ InboxGood(<<>>, rt.server) /\ OutcomesGood(<<>>, rt.server)
  BY DEF IsSeq, InboxGood, OutcomesGood
<1>6. /\ commands \in {{}, {[op |-> "refresh"], [op |-> "connect"]}}
      /\ inFlight = Cardinality(commands)
  BY DEF Init, StartupCommands
<1>7. CommandsGood(commands, chosen)
  BY <1>6 DEF CommandsGood, CommandGood
<1>8. OneInFlight(commands, <<>>, inFlight)
  <2>1. IsFiniteSet(commands)
    <3> DEFINE refresh == [op |-> "refresh"]
               connect == [op |-> "connect"]
    <3>1. commands = {} \/ commands = {refresh} \cup {connect}
      BY <1>6
    <3> HIDE DEF refresh, connect
    <3>2. IsFiniteSet({}) /\ IsFiniteSet({refresh})
      BY FS_EmptySet, FS_Singleton
    <3>3. IsFiniteSet({refresh} \cup {connect})
      BY <3>2, FS_AddElement
    <3> QED
      BY <3>1, <3>2, <3>3
  <2>2. inFlight = Cardinality(commands) + Len(<<>>)
    BY <1>6, <2>1, FS_CardinalityType
  <2>3. \A m \in commands : m.op \in {"refresh", "connect"}
    BY <1>6
  <2> QED
    BY <2>1, <2>2, <2>3 DEF OneInFlight
<1> QED
  BY <1>1, <1>3, <1>4, <1>5, <1>7, <1>8 DEF TermInv, Caught

LEMMA StepKeepsInv == TermInv /\ [Next]_vars => TermInv'
<1> SUFFICES ASSUME TermInv, [Next]_vars PROVE TermInv'
  OBVIOUS
<1>1. CASE UNCHANGED vars
  BY <1>1 DEF vars, TermInv
<1>2. CASE Keypress
  BY <1>2, MainKeysKeepInv, CycleKeepsInv, ModalKeysKeepInv DEF Keypress
<1>3. ASSUME NEW command \in commands, Execute(command) PROVE TermInv'
  BY <1>3, ExecuteKeepsInv
<1> QED
  BY <1>1, <1>2, <1>3, SyncKeepsInv, DrainsKeepInv DEF Next

(* What the terminal holds is of the server it shows, and a state of the   *)
(* runtime's server is queued whenever the two differ.                     *)
THEOREM TermInvAlways == Spec => []TermInv
BY StartIsGood, StepKeepsInv, PTL DEF Spec

LEMMA InvGivesProperties == TermInv => HistoryFitsSelection /\ AnswersFitTheirContent
<1> SUFFICES ASSUME TermInv PROVE HistoryFitsSelection /\ AnswersFitTheirContent
  OBVIOUS
<1>1. HistoryGood(app.history, app.state) /\ ModalGood(app.modal, chosen)
  BY DEF TermInv, AppGood
<1>2. HistoryFitsSelection
  BY <1>1 DEF HistoryGood, HistoryFitsSelection
<1>3. \A s \in {q \in commands : q.op = "submit"} : Fits(s, chosen)
  BY DEF TermInv, CommandsGood, CommandGood
<1>4. app.modal.kind = "text" => Fits(app.modal.submission, chosen)
  BY <1>1 DEF ModalGood
<1> QED
  BY <1>2, <1>3, <1>4 DEF AnswersFitTheirContent, Fits

(* History on screen was asked for the server and channel on screen:       *)
(* apply_state drops it when either changes, apply_history_page refuses a  *)
(* page of another selection, and no other handler touches both.           *)
THEOREM HistoryFitsSelectionAlways == Spec => []HistoryFitsSelection
BY TermInvAlways, InvGivesProperties, PTL

(* An answer in flight or in an open form was picked by the user on the    *)
(* content whose digest goes with it, or is its default: value_draft_key   *)
(* names the server, the request and its digest, and a copy on screen is   *)
(* always of the server on screen, even while a result of another          *)
(* selection is still queued.                                              *)
THEOREM AnswersFitTheirContentAlways == Spec => []AnswersFitTheirContent
BY TermInvAlways, InvGivesProperties, PTL
==============================================================================
