-------------------------- MODULE ClientSync_proofs --------------------------
(***************************************************************************)
(* Proofs about the client core.  Whatever snapshots, events and answers   *)
(* are in flight, the reducer holds requests of the selected server only,  *)
(* and a copy it holds is never replaced by an older one.  They hold for   *)
(* any servers, requests, profiles, queue capacities and commands.         *)
(***************************************************************************)
EXTENDS ClientSync, FiniteSetTheorems, TLAPS

-----------------------------------------------------------------------------
(***************************************************************************)
(* The list on display.                                                    *)
(***************************************************************************)

(* Every place of the list has its request: ranks are distinct, and there   *)
(* are as many of them as places.                                           *)
LEMMA RanksAreTaken ==
    ASSUME NEW set \in SUBSET Nat, IsFiniteSet(set), NEW i \in 1..Cardinality(set)
    PROVE  \E r \in set : Cardinality({q \in set : q > r}) = i - 1
<1> DEFINE above(r) == {q \in set : q > r}
           n == Cardinality(set)
           rank == [r \in set |-> Cardinality(above(r)) + 1]
<1>1. n \in Nat
  BY FS_CardinalityType
<1>2. ASSUME NEW r \in set
      PROVE  IsFiniteSet(above(r)) /\ Cardinality(above(r)) \in 0..(n - 1)
  <2>1. IsFiniteSet(set \ {r}) /\ Cardinality(set \ {r}) = n - 1
    BY FS_RemoveElement
  <2>2. above(r) \in SUBSET (set \ {r})
    OBVIOUS
  <2>3. IsFiniteSet(above(r)) /\ Cardinality(above(r)) <= Cardinality(set \ {r})
    BY <2>1, <2>2, FS_Subset
  <2>4. Cardinality(above(r)) \in Nat
    BY <2>3, FS_CardinalityType
  <2> QED
    BY <1>1, <2>1, <2>3, <2>4
<1>3. rank \in [set -> 1..n]
  BY <1>1, <1>2
<1>4. ASSUME NEW r \in set, NEW s \in set, r < s PROVE rank[r] # rank[s]
  <2>0. \A q \in set : q \in Int
    OBVIOUS
  <2>1. above(s) \in SUBSET above(r) /\ s \in above(r) /\ s \notin above(s)
    <3>1. \A q \in above(s) : q \in above(r)
      BY <1>4, <2>0
    <3>2. s \in above(r) /\ s \notin above(s)
      BY <1>4, <2>0
    <3> QED
      BY <3>1, <3>2
  <2>2. Cardinality(above(s)) # Cardinality(above(r))
    BY <1>2, <2>1, FS_Subset
  <2> QED
    BY <1>2, <2>2
<1>5. rank \in Injection(set, 1..n)
  <2>1. ASSUME NEW r \in set, NEW s \in set, rank[r] = rank[s] PROVE r = s
    <3>1. r \in Nat /\ s \in Nat
      OBVIOUS
    <3> HIDE DEF rank
    <3> QED
      BY <1>4, <2>1, <3>1
  <2> HIDE DEF rank
  <2> QED
    BY <1>3, <2>1 DEF Injection, IsInjective
<1>6. IsFiniteSet(1..n) /\ Cardinality(1..n) = n
  BY <1>1, FS_Interval
<1>7. rank \in Surjection(set, 1..n)
  <2> HIDE DEF rank
  <2> QED
    BY <1>5, <1>6, FS_Injection
<1>8. PICK r \in set : rank[r] = i
  <2> HIDE DEF rank
  <2> QED
    BY <1>7 DEF Surjection
<1> QED
  BY <1>2, <1>8

LEMMA NewestFirstLists ==
    ASSUME NEW set \in SUBSET Nat, IsFiniteSet(set)
    PROVE  NewestFirst(set) \in Seq(set)
<1>1. Cardinality(set) \in Nat
  BY FS_CardinalityType
<1>2. ASSUME NEW i \in 1..Cardinality(set) PROVE NewestFirst(set)[i] \in set
  BY <1>2, RanksAreTaken DEF NewestFirst
<1>3. NewestFirst(set) \in [1..Cardinality(set) -> set]
  BY <1>2 DEF NewestFirst
<1> QED
  BY <1>1, <1>3

(* What is listed is held. *)
LEMMA VisibleAreHeld ==
    ASSUME NEW reqs, DOMAIN reqs \subseteq Requests
    PROVE  VisibleRequests(reqs) \in Seq(DOMAIN reqs)
<1> DEFINE pending == PendingRequests(reqs)
           held == DOMAIN reqs \ pending
           handled == NewestFirst(held)
           some == IF Len(handled) <= HandledLimit THEN handled
                    ELSE SubSeq(handled, 1, HandledLimit)
<1>1. IsFiniteSet(DOMAIN reqs) /\ DOMAIN reqs \in SUBSET Nat
  BY SyncAssumption, FS_Subset
<1>2. pending \in SUBSET DOMAIN reqs /\ held \in SUBSET DOMAIN reqs
  BY DEF PendingRequests
<1>3. IsFiniteSet(pending) /\ IsFiniteSet(held)
  BY <1>1, <1>2, FS_Subset
<1>4. NewestFirst(pending) \in Seq(DOMAIN reqs) /\ handled \in Seq(DOMAIN reqs)
  <2>1. NewestFirst(pending) \in Seq(pending) /\ handled \in Seq(held)
    BY <1>1, <1>2, <1>3, NewestFirstLists
  <2> HIDE DEF pending, held, handled
  <2> QED
    BY <1>2, <2>1
<1>5. some \in Seq(DOMAIN reqs)
  <2> HIDE DEF handled
  <2>1. CASE Len(handled) <= HandledLimit
    BY <1>4, <2>1
  <2>2. CASE ~(Len(handled) <= HandledLimit)
    <3>1. Len(handled) \in Nat /\ HandledLimit <= Len(handled)
      BY <1>4, <2>2, HandledLimitAssumption
    <3>2. SubSeq(handled, 1, HandledLimit) \in Seq(DOMAIN reqs)
      BY <1>4, <3>1, HandledLimitAssumption
    <3> QED
      BY <2>2, <3>2
  <2> QED
    BY <2>1, <2>2
<1> HIDE DEF some
<1>6. NewestFirst(pending) \o some \in Seq(DOMAIN reqs)
  BY <1>4, <1>5
<1> QED
  BY <1>6 DEF VisibleRequests, some

-----------------------------------------------------------------------------
(***************************************************************************)
(* The reducer.                                                            *)
(***************************************************************************)
Fields == {"servers", "server", "reqs", "revs", "revision", "known", "loaded", "counts",
           "visible", "chans", "selChan", "selReq", "connected", "phase"}

Copies == [chan : Channels, status : {"pending", "done"}, at : Nat]

(* A reducer before its list is brought up to date, and after.              *)
HasMaps(x) ==
    /\ DOMAIN x = Fields /\ x.revision \in Nat
    /\ DOMAIN x.reqs \subseteq Requests
    /\ \A r \in DOMAIN x.reqs : x.reqs[r] \in Copies

IsReducer(x) == HasMaps(x) /\ ToSet(x.visible) \subseteq DOMAIN x.reqs

(* What most operators leave alone. *)
SameCopies(x, y) ==
    y.reqs = x.reqs /\ y.revs = x.revs /\ y.revision = x.revision /\ y.server = x.server

SelectionHolds(x) == \A r \in DOMAIN x.reqs : ServerOf(r) = x.server

NoneGoesBack(x, y) ==
    \A r \in DOMAIN x.reqs \cap DOMAIN y.reqs : ~RequestIsStale(y.reqs[r], x.reqs[r])

LEMMA SameMapsStay ==
    ASSUME NEW x, NEW y, HasMaps(x), DOMAIN y = Fields, SameCopies(x, y)
    PROVE  HasMaps(y)
BY DEF HasMaps, SameCopies

LEMMA VisibleIsUpdated ==
    ASSUME NEW x, HasMaps(x)
    PROVE  IsReducer(UpdateVisibleRequests(x)) /\ SameCopies(x, UpdateVisibleRequests(x))
<1> DEFINE inChannel == {r \in DOMAIN x.reqs : x.selChan = Nothing \/ x.reqs[r].chan = x.selChan}
           kept == Keep(x.reqs, inChannel)
           y == [x EXCEPT !.visible = VisibleRequests(kept)]
           z == EnsureSelectedRequest(y)
<1>1. DOMAIN kept \subseteq DOMAIN x.reqs /\ DOMAIN x.reqs \subseteq Requests
  BY DEF Keep, HasMaps
<1>2. VisibleRequests(kept) \in Seq(DOMAIN kept)
  BY <1>1, VisibleAreHeld
<1>3. DOMAIN y = Fields /\ SameCopies(x, y) /\ y.visible = VisibleRequests(kept)
  BY DEF HasMaps, Fields, SameCopies
<1> HIDE DEF y, kept
<1>4. DOMAIN z = Fields /\ SameCopies(y, z) /\ z.visible = y.visible
  BY <1>3 DEF EnsureSelectedRequest, Fields, SameCopies
<1>5. ToSet(z.visible) \subseteq DOMAIN z.reqs
  BY <1>1, <1>2, <1>3, <1>4 DEF ToSet, SameCopies
<1>6. SameCopies(x, z)
  BY <1>3, <1>4 DEF SameCopies
<1>7. z = UpdateVisibleRequests(x)
  BY DEF UpdateVisibleRequests, y, kept
<1> QED
  BY <1>4, <1>5, <1>6, <1>7, SameMapsStay DEF IsReducer

(* Phases, channels, profiles and selections within the server. *)
LEMMA PhaseKeepsCopies ==
    ASSUME NEW x, IsReducer(x), NEW phase
    PROVE  IsReducer(SetSyncPhase(x, phase)) /\ SameCopies(x, SetSyncPhase(x, phase))
BY DEF IsReducer, HasMaps, Fields, SameCopies, SetSyncPhase

LEMMA DisconnectKeepsCopies ==
    ASSUME NEW x, IsReducer(x)
    PROVE  IsReducer(MarkDisconnected(x)) /\ SameCopies(x, MarkDisconnected(x))
BY DEF IsReducer, HasMaps, Fields, SameCopies, MarkDisconnected

LEMMA ChannelKeepsCopies ==
    ASSUME NEW x, IsReducer(x), NEW ch
    PROVE  IsReducer(SelectChannel(x, ch)) /\ SameCopies(x, SelectChannel(x, ch))
<1> DEFINE y == [x EXCEPT !.selChan = ch]
<1>1. HasMaps(y) /\ SameCopies(x, y)
  BY DEF IsReducer, HasMaps, Fields, SameCopies
<1> HIDE DEF y
<1>2. IsReducer(UpdateVisibleRequests(y)) /\ SameCopies(y, UpdateVisibleRequests(y))
  BY <1>1, VisibleIsUpdated
<1> QED
  BY <1>1, <1>2 DEF SameCopies, SelectChannel, y

(* Another server is selected, or this one forgets what it had loaded. *)
LEMMA ClearHoldsNothing ==
    ASSUME NEW x, IsReducer(x)
    PROVE  /\ IsReducer(ClearLoadedData(x)) /\ DOMAIN ClearLoadedData(x).reqs = {}
           /\ ClearLoadedData(x).server = x.server
<1> DEFINE y == ClearLoadedData(x)
<1>1. /\ DOMAIN y = Fields /\ y.reqs = EmptyMap /\ y.visible = <<>>
      /\ y.revision = x.revision /\ y.server = x.server
  BY DEF IsReducer, HasMaps, Fields, ClearLoadedData
<1>2. DOMAIN EmptyMap = {} /\ ToSet(<<>>) = {}
  BY DEF EmptyMap, ToSet
<1> HIDE DEF y
<1> QED
  BY <1>1, <1>2 DEF IsReducer, HasMaps, y

LEMMA SelectHoldsNothing ==
    ASSUME NEW x, IsReducer(x), NEW s
    PROVE  /\ IsReducer(SetSelectedServer(x, s)) /\ DOMAIN SetSelectedServer(x, s).reqs = {}
           /\ SetSelectedServer(x, s).server = s
<1> DEFINE y == [x EXCEPT !.server = s]
<1>1. IsReducer(y) /\ y.server = s
  BY DEF IsReducer, HasMaps, Fields
<1> HIDE DEF y
<1> QED
  BY <1>1, ClearHoldsNothing DEF SetSelectedServer, y

LEMMA ProfilesKeepCopies ==
    ASSUME NEW x, IsReducer(x), NEW s
    PROVE  IsReducer(UpsertServer(x, s)) /\ SameCopies(x, UpsertServer(x, s))
BY DEF IsReducer, HasMaps, Fields, SameCopies, UpsertServer

LEMMA RemoveKeepsOrEmpties ==
    ASSUME NEW x, IsReducer(x), NEW s
    PROVE  /\ IsReducer(RemoveServer(x, s))
           /\ IF x.server = s THEN DOMAIN RemoveServer(x, s).reqs = {}
              ELSE SameCopies(x, RemoveServer(x, s))
<1> DEFINE rest == SelectSeq(x.servers, LAMBDA q : q # s)
           y == [x EXCEPT !.servers = rest]
<1> HIDE DEF rest
<1>1. IsReducer(y) /\ SameCopies(x, y) /\ y.server = x.server
  BY DEF IsReducer, HasMaps, Fields, SameCopies
<1> HIDE DEF y
<1>2. CASE x.server = s
  <2>1. RemoveServer(x, s) = SetSelectedServer(y, IF rest = <<>> THEN Nothing ELSE Head(rest))
    BY <1>2 DEF RemoveServer, y, rest
  <2> QED
    BY <1>1, <1>2, <2>1, SelectHoldsNothing
<1>3. CASE x.server # s
  <2>1. RemoveServer(x, s) = y
    BY <1>3 DEF RemoveServer, y, rest
  <2> QED
    BY <1>1, <1>3, <2>1
<1> QED
  BY <1>2, <1>3

(* One request: what the reducer takes replaces nothing newer, and its      *)
(* revision shows a snapshot in flight that the copy is younger.            *)
Updated(x, y, r, copy) ==
    \/ y.reqs = x.reqs /\ y.revs = x.revs /\ y.revision = x.revision
    \/ /\ r \in DOMAIN x.reqs => ~RequestIsStale(copy, x.reqs[r])
       /\ y.reqs = Put(x.reqs, r, copy) /\ y.revs = Put(x.revs, r, x.revision + 1)
       /\ y.revision = x.revision + 1

LEMMA TrackingKeepsCopies ==
    ASSUME NEW x, HasMaps(x), NEW r, NEW copy
    PROVE  /\ DOMAIN UpdatePendingTracking(x, r, copy) = Fields
           /\ SameCopies(x, UpdatePendingTracking(x, r, copy))
<1> DEFINE ch == PreviousPendingChannel(x, r)
<1> HIDE DEF ch
<1>1. /\ DOMAIN MarkPending(x, r, copy) = Fields
      /\ SameCopies(x, MarkPending(x, r, copy))
  BY DEF MarkPending, HasMaps, Fields, SameCopies
<1>2. /\ DOMAIN ClearPending(x, r, ch) = Fields
      /\ SameCopies(x, ClearPending(x, r, ch))
  BY DEF ClearPending, HasMaps, Fields, SameCopies
<1>3. /\ DOMAIN UpdatePendingChannel(x, r, ch, copy) = Fields
      /\ SameCopies(x, UpdatePendingChannel(x, r, ch, copy))
  BY DEF UpdatePendingChannel, HasMaps, Fields, SameCopies
<1>4. DOMAIN x = Fields /\ SameCopies(x, x)
  BY DEF HasMaps, SameCopies
<1>5. UpdatePendingTracking(x, r, copy) \in
        {MarkPending(x, r, copy), ClearPending(x, r, ch), UpdatePendingChannel(x, r, ch, copy), x}
  BY DEF UpdatePendingTracking, ch
<1> QED
  BY <1>1, <1>2, <1>3, <1>4, <1>5

LEMMA RequestIsUpdated ==
    ASSUME NEW x, IsReducer(x), NEW r \in Requests, NEW copy \in Copies
    PROVE  /\ IsReducer(ApplyRequestUpdate(x, r, copy))
           /\ ApplyRequestUpdate(x, r, copy).server = x.server
           /\ Updated(x, ApplyRequestUpdate(x, r, copy), r, copy)
<1>1. CASE ~TakesUpdate(x, r, copy)
  BY <1>1 DEF ApplyRequestUpdate, Updated
<1>2. CASE TakesUpdate(x, r, copy)
  <2> DEFINE tracked == UpdatePendingTracking(x, r, copy)
             y == [tracked EXCEPT !.revision = @ + 1,
                                  !.revs = Put(@, r, tracked.revision + 1),
                                  !.reqs = Put(@, r, copy)]
  <2>1. DOMAIN tracked = Fields /\ SameCopies(x, tracked)
    BY TrackingKeepsCopies DEF IsReducer
  <2> HIDE DEF tracked
  <2>2. /\ DOMAIN y = Fields /\ y.revision = x.revision + 1 /\ y.server = x.server
        /\ y.revs = Put(x.revs, r, x.revision + 1) /\ y.reqs = Put(x.reqs, r, copy)
    BY <2>1 DEF Fields, SameCopies
  <2> HIDE DEF y
  <2>3. HasMaps(y)
    BY <2>2 DEF IsReducer, HasMaps, Put
  <2>4. IsReducer(UpdateVisibleRequests(y)) /\ SameCopies(y, UpdateVisibleRequests(y))
    BY <2>3, VisibleIsUpdated
  <2>5. ApplyRequestUpdate(x, r, copy) = UpdateVisibleRequests(y)
    BY <1>2 DEF ApplyRequestUpdate, tracked, y
  <2> QED
    BY <1>2, <2>2, <2>4, <2>5 DEF SameCopies, Updated, TakesUpdate
<1> QED
  BY <1>1, <1>2

(* A whole snapshot.                                                        *)
LEMMA SnapshotIsMerged ==
    ASSUME NEW x, IsReducer(x), NEW chans, NEW startedAt,
           NEW reqs, DOMAIN reqs \subseteq Requests, \A r \in DOMAIN reqs : reqs[r] \in Copies
    PROVE  /\ IsReducer(ApplySnapshot(x, chans, reqs, startedAt))
           /\ ApplySnapshot(x, chans, reqs, startedAt).server = x.server
           /\ ApplySnapshot(x, chans, reqs, startedAt).revision = x.revision
           /\ ApplySnapshot(x, chans, reqs, startedAt).reqs = MergeSnapshot(x, reqs, startedAt)
<1> DEFINE merged == MergeSnapshot(x, reqs, startedAt)
           pending == PendingRequests(merged)
           counts == CountPendingByChannel(merged)
           based == EnsureSelectedChannel([x EXCEPT !.chans = chans])
           y == [based EXCEPT !.reqs = merged,
                              !.revs = Keep(@, DOMAIN merged),
                              !.counts = counts,
                              !.known = [r \in pending |-> merged[r].chan],
                              !.loaded = TRUE]
<1>1. /\ DOMAIN merged \subseteq Requests
      /\ \A r \in DOMAIN merged : merged[r] \in Copies
  BY DEF MergeSnapshot, IsReducer, HasMaps
<1>2. DOMAIN based = Fields /\ based.server = x.server /\ based.revision = x.revision
  <2> DEFINE z == [x EXCEPT !.chans = chans]
  <2>1. DOMAIN z = Fields /\ z.server = x.server /\ z.revision = x.revision
    BY DEF IsReducer, HasMaps, Fields
  <2> HIDE DEF z
  <2>2. based \in {z, [z EXCEPT !.selChan = Nothing]}
    BY DEF EnsureSelectedChannel, z
  <2> QED
    BY <2>1, <2>2 DEF Fields
<1> HIDE DEF merged, pending, counts, based
<1>3. /\ DOMAIN y = Fields /\ y.reqs = merged
      /\ y.server = x.server /\ y.revision = x.revision
  BY <1>2 DEF Fields
<1> HIDE DEF y
<1>4. HasMaps(y)
  BY <1>1, <1>3 DEF IsReducer, HasMaps
<1>5. IsReducer(UpdateVisibleRequests(y)) /\ SameCopies(y, UpdateVisibleRequests(y))
  BY <1>4, VisibleIsUpdated
<1>6. ApplySnapshot(x, chans, reqs, startedAt) = UpdateVisibleRequests(y)
  BY DEF ApplySnapshot, y, merged, pending, counts, based
<1> QED
  BY <1>3, <1>5, <1>6 DEF SameCopies, merged

(* What a snapshot would take back is what changed while it was fetched,    *)
(* and that it keeps, unless its own copy is younger still.                 *)
SnapshotFits(reqs, startedAt, x) ==
    \A r \in DOMAIN x.reqs \cap DOMAIN reqs :
        \/ r \in DOMAIN x.revs /\ x.revs[r] > startedAt
        \/ ~RequestIsStale(reqs[r], x.reqs[r])

LEMMA OneOfTwoIsCurrent ==
    ASSUME NEW a \in Copies, NEW b \in Copies
    PROVE  /\ ~RequestIsStale(a, a)
           /\ RequestIsStale(a, b) => ~RequestIsStale(b, a)
BY DEF Copies, RequestIsStale

LEMMA MergeTakesNothingBack ==
    ASSUME NEW x, IsReducer(x), NEW startedAt,
           NEW reqs, \A r \in DOMAIN reqs : reqs[r] \in Copies,
           SnapshotFits(reqs, startedAt, x), NEW y, y.reqs = MergeSnapshot(x, reqs, startedAt)
    PROVE  NoneGoesBack(x, y)
<1> SUFFICES ASSUME NEW r \in DOMAIN x.reqs, r \in DOMAIN y.reqs
             PROVE  ~RequestIsStale(y.reqs[r], x.reqs[r])
  BY DEF NoneGoesBack
<1>1. x.reqs[r] \in Copies /\ ~RequestIsStale(x.reqs[r], x.reqs[r])
  BY OneOfTwoIsCurrent DEF IsReducer, HasMaps
<1>2. \/ y.reqs[r] = x.reqs[r]
      \/ /\ r \in DOMAIN reqs /\ y.reqs[r] = reqs[r]
         /\ \/ ~(r \in DOMAIN x.revs /\ x.revs[r] > startedAt)
            \/ RequestIsStale(x.reqs[r], reqs[r])
  BY DEF MergeSnapshot
<1>3. CASE y.reqs[r] = x.reqs[r]
  BY <1>1, <1>3
<1>4. CASE r \in DOMAIN reqs /\ y.reqs[r] = reqs[r] /\ RequestIsStale(x.reqs[r], reqs[r])
  <2>1. ~RequestIsStale(reqs[r], x.reqs[r])
    BY <1>1, <1>4, OneOfTwoIsCurrent
  <2> QED
    BY <1>4, <2>1
<1>5. CASE /\ r \in DOMAIN reqs /\ y.reqs[r] = reqs[r]
           /\ ~(r \in DOMAIN x.revs /\ x.revs[r] > startedAt)
  BY <1>5 DEF SnapshotFits
<1> QED
  BY <1>2, <1>3, <1>4, <1>5

-----------------------------------------------------------------------------
(***************************************************************************)
(* The invariant.  Copies of a request are everywhere: in envelopes not    *)
(* sent, queued or on the wire, in a snapshot, in a command and in the     *)
(* reducer.  Each is what the server once had; a snapshot that has been    *)
(* read is no older than any copy that the reducer had when it began, and  *)
(* everything on its way to the reducer is of the selected server.         *)
(***************************************************************************)
Kinds == {"created", "resolved", "cleared", "subscription_updated", "channel_updated",
          "channel_deleted", "device_revoked", "hello", "resync_required"}

TablesGood(d, time) ==
    /\ d \in [Requests -> [status : {"absent", "pending", "done", "gone"}, at : Nat]]
    /\ time \in Nat
    /\ \A r \in Requests : d[r].at <= time

(* The copy x of r is one that the tables d have had. *)
Past(r, x, d) ==
    /\ d[r].status # "absent" /\ x.at <= d[r].at
    /\ x.status = "done" => d[r].status \in {"done", "gone"} /\ x.at = d[r].at

EnvelopesOf(s, d) ==
    {e \in [kind : Kinds, server : {s}, r : Requests \cup {Nothing},
            copy : Copies \cup Channels \cup {Nothing}] :
        e.r # Nothing => ServerOf(e.r) = s /\ e.copy \in Copies /\ Past(e.r, e.copy, d)}

UnsentGood(set, d) == \A e \in set : e \in EnvelopesOf(e.server, d)

SockGood(k, s, d) ==
    /\ DOMAIN k = {"server", "queue", "lagged", "wire", "closed"}
    /\ k.queue \in Seq(EnvelopesOf(s, d)) /\ k.wire \in Seq(EnvelopesOf(s, d))
    /\ ~k.closed => k.server = s

ReducerGood(x, d) ==
    /\ IsReducer(x) /\ SelectionHolds(x)
    /\ \A r \in DOMAIN x.reqs : Past(r, x.reqs[r], d)

TaskGood(t, s) == DOMAIN t = {"pc", "server"} /\ (t.pc # "none" => t.server = s)

CmdGood(m, s, d) ==
    /\ DOMAIN m = {"op", "pc", "r", "server", "copy", "connect"}
    /\ m.op = "none" => m.pc = "done"
    /\ m.pc = "lock" => m.server = s
    /\ m.pc \in {"opened", "post", "replied", "reread"} =>
          m.r \in Requests /\ ServerOf(m.r) = m.server
    /\ m.pc \in {"opened", "replied"} => m.copy \in Copies /\ Past(m.r, m.copy, d)

PageGood(reqs, s, d) ==
    /\ DOMAIN reqs \subseteq Requests
    /\ \A r \in DOMAIN reqs :
          ServerOf(r) = s /\ reqs[r] \in Copies /\ Past(r, reqs[r], d)

FetchGood(m, x, d) ==
    /\ DOMAIN m = {"revision", "chans", "reqs"}
    /\ m.revision \in Nat /\ m.revision <= x.revision
    /\ m.reqs # Nothing => PageGood(m.reqs, x.server, d) /\ SnapshotFits(m.reqs, m.revision, x)

(* A fetch holds the lock, and its task waits for it. *)
Fetches(o, l, t, m) ==
    l = o /\ (o = "sync" => t.pc = "refreshing") /\ (o = "cmd" => m.pc = "lock")

SnapsGood(f, l, t, m, x, d) ==
    /\ f = [o \in Tasks |-> f[o]]
    /\ \A o \in Tasks : f[o] # Nothing => Fetches(o, l, t, m) /\ FetchGood(f[o], x, d)

SyncInv ==
    /\ TablesGood(db, now) /\ UnsentGood(unsent, db)
    /\ SockGood(sock, c.server, db)
    /\ ReducerGood(c, db)
    /\ TaskGood(task, c.server)
    /\ CmdGood(cmd, c.server, db)
    /\ SnapsGood(snap, lock, task, cmd, c, db)
-----------------------------------------------------------------------------
(***************************************************************************)
(* What disturbs which part.                                               *)
(***************************************************************************)
LEMMA SequencesOfMore ==
    ASSUME NEW S, NEW T, S \subseteq T, NEW q \in Seq(S) PROVE q \in Seq(T)
OBVIOUS

(* The tables only move on. *)
Grows(d, e) ==
    \A r \in Requests :
        /\ d[r].at <= e[r].at
        /\ d[r].status # "absent" => e[r].status # "absent"
        /\ d[r].status \in {"done", "gone"} => e[r].status \in {"done", "gone"} /\ e[r].at = d[r].at

LEMMA PastStaysPast ==
    ASSUME NEW d, NEW e, NEW t, NEW u, TablesGood(d, t), TablesGood(e, u), Grows(d, e),
           NEW r \in Requests, NEW x \in Copies, Past(r, x, d)
    PROVE  Past(r, x, e)
BY DEF TablesGood, Grows, Copies, Past

LEMMA TablesMoveOn ==
    ASSUME SyncInv, TablesGood(db', now'), Grows(db, db'), UnsentGood(unsent', db'),
           UNCHANGED <<sock, c, task, lock, snap>>,
           UNCHANGED cmd \/ (cmd.pc # "lock" /\ CmdGood(cmd', c.server, db'))
    PROVE  SyncInv'
<1>1. \A r \in Requests, x \in Copies : Past(r, x, db) => Past(r, x, db')
  BY PastStaysPast DEF SyncInv
<1>2. EnvelopesOf(c.server, db) \subseteq EnvelopesOf(c.server, db')
  BY <1>1 DEF EnvelopesOf
<1>3. SockGood(sock, c.server, db')
  BY <1>2, SequencesOfMore DEF SyncInv, SockGood
<1>4. ReducerGood(c, db')
  BY <1>1 DEF SyncInv, ReducerGood, IsReducer, HasMaps
<1>5. CmdGood(cmd', c.server, db')
  BY <1>1 DEF SyncInv, CmdGood
<1>6. SnapsGood(snap, lock, task, cmd', c, db')
  <2>1. SnapsGood(snap, lock, task, cmd, c, db')
    BY <1>1 DEF SyncInv, SnapsGood, FetchGood, PageGood
  <2> QED
    BY <2>1 DEF SnapsGood, Fetches
<1> QED
  BY <1>3, <1>4, <1>5, <1>6 DEF SyncInv

(* The socket alone. *)
LEMMA SocketMoves ==
    ASSUME SyncInv, SockGood(sock', c.server, db), UNCHANGED <<serverVars, coreVars>>
    PROVE  SyncInv'
BY DEF SyncInv, serverVars, coreVars

(* No fetch begins or gets its page. *)
LEMMA FetchesStay ==
    ASSUME SyncInv, NEW f, NEW l, NEW t, NEW m, NEW x,
           f = [o \in Tasks |-> f[o]],
           \A o \in Tasks : f[o] # Nothing => f[o] = snap[o] /\ Fetches(o, l, t, m),
           x.revision >= c.revision, x.revision \in Nat, x.server = c.server,
           \A o \in Tasks : snap[o] # Nothing /\ snap[o].reqs # Nothing =>
              SnapshotFits(snap[o].reqs, snap[o].revision, x)
    PROVE  SnapsGood(f, l, t, m, x, db)
BY DEF SyncInv, SnapsGood, FetchGood, ReducerGood, IsReducer, HasMaps

LEMMA CopiesStayFetched ==
    ASSUME SyncInv, NEW x, SameCopies(c, x)
    PROVE  \A o \in Tasks : snap[o] # Nothing /\ snap[o].reqs # Nothing =>
              SnapshotFits(snap[o].reqs, snap[o].revision, x)
BY DEF SyncInv, SnapsGood, FetchGood, SnapshotFits, SameCopies

(* The reducer shows something else of the same copies, and tasks move.     *)
LEMMA SameCopiesKeepInv ==
    ASSUME SyncInv, UNCHANGED <<db, now>>, UnsentGood(unsent', db),
           SockGood(sock', c.server, db), IsReducer(c'), SameCopies(c, c'),
           TaskGood(task', c.server), CmdGood(cmd', c.server, db),
           snap' = [o \in Tasks |-> snap'[o]],
           \A o \in Tasks : snap'[o] # Nothing => snap'[o] = snap[o] /\ Fetches(o, lock', task', cmd')
    PROVE  SyncInv'
<1>1. c'.server = c.server /\ c'.revision = c.revision /\ c.revision \in Nat
  BY DEF SameCopies, SyncInv, ReducerGood, IsReducer, HasMaps
<1>2. ReducerGood(c', db)
  BY DEF SyncInv, ReducerGood, SameCopies, SelectionHolds
<1>3. SnapsGood(snap', lock', task', cmd', c', db)
  BY <1>1, FetchesStay, CopiesStayFetched
<1> QED
  BY <1>1, <1>2, <1>3 DEF SyncInv

(* Another server is selected: nothing of the old one is left.              *)
LEMMA EmptyReducerKeepsInv ==
    ASSUME SyncInv, UNCHANGED <<db, now>>, UnsentGood(unsent', db),
           IsReducer(c'), DOMAIN c'.reqs = {}, SockGood(sock', c'.server, db),
           TaskGood(task', c'.server), CmdGood(cmd', c'.server, db),
           snap' = [o \in Tasks |-> snap'[o]], \A o \in Tasks : snap'[o] = Nothing
    PROVE  SyncInv'
BY DEF SyncInv, ReducerGood, SelectionHolds, SnapsGood

(* A copy arrives at the reducer. *)
LEMMA UpdateKeepsInv ==
    ASSUME SyncInv, NEW r \in Requests, NEW copy \in Copies, Past(r, copy, db),
           ServerOf(r) = c.server, UNCHANGED <<db, now>>, UnsentGood(unsent', db),
           SockGood(sock', c.server, db), IsReducer(c'), c'.server = c.server,
           Updated(c, c', r, copy),
           TaskGood(task', c.server), CmdGood(cmd', c.server, db),
           snap' = snap, \A o \in Tasks : snap[o] # Nothing => Fetches(o, lock', task', cmd')
    PROVE  SyncInv' /\ NoneGoesBack(c, c')
<1>1. CASE c'.reqs = c.reqs /\ c'.revs = c.revs /\ c'.revision = c.revision
  <2>1. SameCopies(c, c')
    BY <1>1 DEF SameCopies
  <2>2. SyncInv'
    <3>1. \A o \in Tasks : snap'[o] # Nothing => snap'[o] = snap[o] /\ Fetches(o, lock', task', cmd')
      OBVIOUS
    <3>2. snap' = [o \in Tasks |-> snap'[o]]
      BY DEF SyncInv, SnapsGood
    <3> QED
      BY <2>1, <3>1, <3>2, SameCopiesKeepInv
  <2>3. NoneGoesBack(c, c')
    BY <1>1, OneOfTwoIsCurrent DEF NoneGoesBack, SyncInv, ReducerGood, IsReducer, HasMaps
  <2> QED
    BY <2>2, <2>3
<1>2. CASE /\ r \in DOMAIN c.reqs => ~RequestIsStale(copy, c.reqs[r])
           /\ c'.reqs = Put(c.reqs, r, copy) /\ c'.revs = Put(c.revs, r, c.revision + 1)
           /\ c'.revision = c.revision + 1
  <2>1. c.revision \in Nat /\ \A q \in DOMAIN c.reqs : c.reqs[q] \in Copies
    BY DEF SyncInv, ReducerGood, IsReducer, HasMaps
  <2>2. NoneGoesBack(c, c')
    BY <1>2, <2>1, OneOfTwoIsCurrent DEF NoneGoesBack, Put
  <2>3. ReducerGood(c', db)
    BY <1>2 DEF SyncInv, ReducerGood, SelectionHolds, Put
  <2>4. ASSUME NEW o \in Tasks, snap[o] # Nothing, snap[o].reqs # Nothing
        PROVE  SnapshotFits(snap[o].reqs, snap[o].revision, c')
    <3>1. /\ snap[o].revision \in Nat /\ snap[o].revision <= c.revision
          /\ SnapshotFits(snap[o].reqs, snap[o].revision, c)
      BY <2>4 DEF SyncInv, SnapsGood, FetchGood
    <3> QED
      BY <1>2, <2>1, <3>1 DEF SnapshotFits, Put
  <2>5. SnapsGood(snap', lock', task', cmd', c', db)
    <3>1. c'.revision \in Nat /\ c'.revision >= c.revision /\ snap' = [o \in Tasks |-> snap'[o]]
      BY <1>2, <2>1 DEF SyncInv, SnapsGood
    <3>2. \A o \in Tasks : snap'[o] # Nothing => snap'[o] = snap[o] /\ Fetches(o, lock', task', cmd')
      OBVIOUS
    <3> HIDE DEF SnapsGood
    <3> QED
      BY <2>4, <3>1, <3>2, FetchesStay
  <2> QED
    BY <2>2, <2>3, <2>5 DEF SyncInv
<1> QED
  BY <1>1, <1>2 DEF Updated


-----------------------------------------------------------------------------
(***************************************************************************)
(* The servers and the socket.                                             *)
(***************************************************************************)
LEMMA UnsentStays ==
    ASSUME SyncInv, NEW e, NEW u, TablesGood(e, u), Grows(db, e)
    PROVE  UnsentGood(unsent, e)
<1>1. \A r \in Requests, x \in Copies : Past(r, x, db) => Past(r, x, e)
  BY PastStaysPast DEF SyncInv
<1> QED
  BY <1>1 DEF SyncInv, UnsentGood, EnvelopesOf

LEMMA PlainEnvelopeFits ==
    ASSUME NEW kind \in Kinds, NEW s, NEW copy \in Channels \cup {Nothing}, NEW d
    PROVE  /\ Envelope(kind, s, Nothing, copy) \in EnvelopesOf(s, d)
           /\ Envelope(kind, s, Nothing, copy).server = s
BY DEF Envelope, EnvelopesOf

LEMMA RequestEnvelopeFits ==
    ASSUME NEW kind \in Kinds, NEW r \in Requests, NEW copy \in Copies, NEW d, Past(r, copy, d)
    PROVE  /\ Envelope(kind, ServerOf(r), r, copy) \in EnvelopesOf(ServerOf(r), d)
           /\ Envelope(kind, ServerOf(r), r, copy).server = ServerOf(r)
BY DEF Envelope, EnvelopesOf

(* A request's row changes at a time not before the clock. *)
LEMMA RowMovesOn ==
    ASSUME SyncInv, NEW r \in Requests, NEW t \in {now, now + 1}, NEW status \in {"pending", "done"},
           db[r].status # status, db[r].status \in {"absent", "pending"},
           NEW e, e = [db EXCEPT ![r] = [status |-> status, at |-> t]]
    PROVE  /\ TablesGood(e, t) /\ Grows(db, e)
           /\ [chan |-> ChannelOf[r], status |-> status, at |-> t] \in Copies
           /\ Past(r, [chan |-> ChannelOf[r], status |-> status, at |-> t], e)
<1>1. t \in Nat /\ now <= t
  BY DEF SyncInv, TablesGood
<1>2. ChannelOf[r] \in Channels
  BY SyncAssumption
<1>3. TablesGood(e, t)
  BY <1>1 DEF SyncInv, TablesGood
<1> QED
  BY <1>1, <1>2, <1>3 DEF SyncInv, TablesGood, Grows, Copies, Past

LEMMA OperationsKeepInv ==
    ASSUME SyncInv, ServerOperation
    PROVE  SyncInv'
<1> USE DEF Operation, coreVars
<1>1. ASSUME NEW r \in Requests, NEW t \in {now, now + 1},
             CreateRequest(r, t) \/ FinishRequest(r, t)
      PROVE  SyncInv'
  <2>1. PICK status \in {"pending", "done"}, kind \in Kinds :
           /\ db[r].status # status /\ db[r].status \in {"absent", "pending"}
           /\ db' = [db EXCEPT ![r] = [status |-> status, at |-> t]]
           /\ unsent' = unsent \cup {Envelope(kind, ServerOf(r), r,
                                       [chan |-> ChannelOf[r], status |-> status, at |-> t])}
    BY <1>1 DEF CreateRequest, FinishRequest, Finished, Kinds
  <2>2. now' = t /\ UNCHANGED <<sock, coreVars>>
    BY <1>1 DEF CreateRequest, FinishRequest
  <2>3. /\ TablesGood(db', t) /\ Grows(db, db')
        /\ [chan |-> ChannelOf[r], status |-> status, at |-> t] \in Copies
        /\ Past(r, [chan |-> ChannelOf[r], status |-> status, at |-> t], db')
    BY <2>1, RowMovesOn
  <2>4. UnsentGood(unsent, db')
    BY <2>3, UnsentStays
  <2> DEFINE e == Envelope(kind, ServerOf(r), r,
                           [chan |-> ChannelOf[r], status |-> status, at |-> t])
  <2>5. e \in EnvelopesOf(ServerOf(r), db') /\ e.server = ServerOf(r)
    BY <2>3, RequestEnvelopeFits
  <2>6. UnsentGood(unsent', db')
    <3> HIDE DEF e
    <3>1. unsent' = unsent \cup {e}
      BY <2>1 DEF e
    <3> QED
      BY <2>4, <2>5, <3>1 DEF UnsentGood
  <2> QED
    BY <2>2, <2>3, <2>6, TablesMoveOn
<1>2. ASSUME NEW r \in Requests, NEW t \in {now, now + 1}, OtherUserDecides(r, t)
      PROVE  SyncInv'
  <2>1. /\ db[r].status = "pending" /\ db[r].at < t /\ now' = t
        /\ db' = [db EXCEPT ![r].at = t]
        /\ UNCHANGED <<unsent, sock, coreVars>>
    BY <1>2 DEF OtherUserDecides
  <2>2. TablesGood(db', now')
    BY <2>1 DEF SyncInv, TablesGood
  <2>3. Grows(db, db')
    BY <2>1 DEF SyncInv, TablesGood, Grows
  <2> QED
    BY <2>1, <2>2, <2>3, UnsentStays, TablesMoveOn
<1>3. ASSUME NEW s, NEW kind \in Kinds, NEW copy \in Channels \cup {Nothing},
             UNCHANGED <<db, sock, coreVars>>, now' \in {now, now + 1},
             unsent' = unsent \cup {Envelope(kind, s, Nothing, copy)}
      PROVE  SyncInv'
  <2>1. TablesGood(db', now') /\ Grows(db, db')
    BY <1>3 DEF SyncInv, TablesGood, Grows
  <2>2. UnsentGood(unsent', db')
    BY <2>1, <1>3, UnsentStays, PlainEnvelopeFits DEF UnsentGood
  <2> QED
    BY <1>3, <2>1, <2>2, TablesMoveOn
<1>4. ASSUME NEW ch \in Channels, NEW t \in {now, now + 1}, ClearChannelElsewhere(ch, t)
      PROVE  SyncInv'
  BY <1>3, <1>4 DEF ClearChannelElsewhere, Kinds
<1>5. ASSUME NEW ch \in Channels, SubscriptionElsewhere(ch) PROVE SyncInv'
  BY <1>3, <1>5 DEF SubscriptionElsewhere, Kinds
<1>6. ASSUME NEW ch \in Channels, UpsertChannelElsewhere(ch) PROVE SyncInv'
  BY <1>3, <1>6 DEF UpsertChannelElsewhere, Kinds
<1>7. ASSUME NEW ch \in Channels, DeleteChannelElsewhere(ch) PROVE SyncInv'
  <2>1. /\ now' = now /\ UNCHANGED <<sock, coreVars>>
        /\ db' = [r \in Requests |-> IF ChannelOf[r] = ch /\ Exists(r)
                                     THEN [db[r] EXCEPT !.status = "gone"] ELSE db[r]]
        /\ unsent' = unsent \cup {Envelope("channel_deleted", HomeOf[ch], Nothing, Nothing)}
    BY <1>7 DEF DeleteChannelElsewhere
  <2>2. TablesGood(db', now')
    BY <2>1 DEF SyncInv, TablesGood
  <2>3. Grows(db, db')
    BY <2>1 DEF SyncInv, TablesGood, Grows, Exists
  <2>4. UnsentGood(unsent', db')
    BY <2>1, <2>2, <2>3, UnsentStays, PlainEnvelopeFits DEF UnsentGood, Kinds
  <2> QED
    BY <2>1, <2>2, <2>3, <2>4, TablesMoveOn
<1>8. ASSUME NEW s \in Servers, RevokeDeviceElsewhere(s) PROVE SyncInv'
  BY <1>3, <1>8 DEF RevokeDeviceElsewhere, Kinds
<1> QED
  BY <1>1, <1>2, <1>4, <1>5, <1>6, <1>7, <1>8 DEF ServerOperation

(* What a socket still has to send or to deliver stays of its server.       *)
LEMMA SocketsKeepInv ==
    ASSUME SyncInv,
           \/ \E e \in unsent : Broadcast(e)
           \/ \E s \in Servers : ServerRestarts(s)
           \/ SocketForwards \/ SocketLagged \/ AuthorizationTick
    PROVE  SyncInv' /\ UNCHANGED c
<1> DEFINE good == EnvelopesOf(c.server, db)
<1>1. /\ DOMAIN sock = {"server", "queue", "lagged", "wire", "closed"}
      /\ sock.queue \in Seq(good) /\ sock.wire \in Seq(good)
      /\ ~sock.closed => sock.server = c.server
  BY DEF SyncInv, SockGood
<1>2. <<>> \in Seq(good) /\ \A q \in Seq(good) : q # <<>> => Tail(q) \in Seq(good)
                                                             /\ Head(q) \in good
  <2> HIDE DEF good
  <2> QED
    OBVIOUS
<1>3. \A q \in Seq(good), e \in good : Append(q, e) \in Seq(good)
  <2> HIDE DEF good
  <2> QED
    OBVIOUS
<1>4. ASSUME NEW e \in good
      PROVE  /\ DOMAIN SendEnvelope(e) = {"server", "queue", "lagged", "wire", "closed"}
             /\ SendEnvelope(e).queue \in Seq(good) /\ SendEnvelope(e).wire \in Seq(good)
             /\ ~SendEnvelope(e).closed => SendEnvelope(e) = [sock EXCEPT !.wire = Append(@, e)]
             /\ ~SendEnvelope(e).closed /\ ~sock.closed => SendEnvelope(e).server = c.server
  <2> HIDE DEF good
  <2>1. SendEnvelope(e) \in {[sock EXCEPT !.closed = TRUE, !.queue = <<>>],
                             [sock EXCEPT !.wire = Append(@, e)]}
    BY DEF SendEnvelope
  <2> QED
    BY <1>1, <1>2, <1>3, <2>1 DEF SendEnvelope
<1>5. ASSUME NEW e \in unsent, Broadcast(e) PROVE SyncInv' /\ UNCHANGED c
  <2>1. CASE sock.server # e.server \/ sock.closed
    BY <1>5, <2>1 DEF Broadcast, SyncInv, UnsentGood, coreVars
  <2>2. CASE ~(sock.server # e.server \/ sock.closed)
    <3>1. e \in good
      BY <1>1, <2>2 DEF SyncInv, UnsentGood
    <3> DEFINE full == Len(sock.queue) = HubCapacity
               base == IF full THEN Tail(sock.queue) ELSE sock.queue
    <3>2. sock' = [sock EXCEPT !.queue = Append(base, e), !.lagged = @ \/ full]
      BY <1>5, <2>2 DEF Broadcast
    <3>3. base \in Seq(good)
      <4>1. full => sock.queue # <<>>
        BY SyncAssumption
      <4> QED
        BY <1>1, <1>2, <4>1
    <3> HIDE DEF full, base
    <3>4. SockGood(sock', c.server, db)
      <4>1. Append(base, e) \in Seq(good)
        BY <1>3, <3>1, <3>3
      <4> HIDE DEF good
      <4>2. /\ DOMAIN sock' = {"server", "queue", "lagged", "wire", "closed"}
            /\ sock'.queue = Append(base, e) /\ sock'.wire = sock.wire
            /\ sock'.closed = sock.closed /\ sock'.server = sock.server
        BY <1>1, <3>2
      <4> QED
        BY <1>1, <4>1, <4>2 DEF SockGood, good
    <3>5. UnsentGood(unsent', db) /\ UNCHANGED <<db, now, coreVars>>
      BY <1>5 DEF Broadcast, SyncInv, UnsentGood
    <3> QED
      BY <3>4, <3>5 DEF SyncInv, coreVars
  <2> QED
    BY <2>1, <2>2
<1>6. ASSUME NEW s \in Servers, ServerRestarts(s) PROVE SyncInv' /\ UNCHANGED c
  <2>1. sock' \in {[sock EXCEPT !.closed = TRUE, !.queue = <<>>], sock}
    BY <1>6 DEF ServerRestarts
  <2>2. SockGood(sock', c.server, db)
    <3> HIDE DEF good
    <3> QED
      BY <1>1, <1>2, <2>1 DEF SockGood, good
  <2>3. UnsentGood(unsent', db) /\ UNCHANGED <<db, now, coreVars>>
    BY <1>6 DEF ServerRestarts, SyncInv, UnsentGood
  <2> QED
    BY <2>2, <2>3 DEF SyncInv, coreVars
<1>7. ASSUME SockGood(sock', c.server, db), UNCHANGED <<serverVars, coreVars>>
      PROVE  SyncInv' /\ UNCHANGED c
  BY <1>7, SocketMoves DEF coreVars
<1>8. ASSUME SocketForwards PROVE SyncInv' /\ UNCHANGED c
  <2> DEFINE e == Head(sock.queue)
  <2>1. ~sock.closed /\ e \in good /\ Tail(sock.queue) \in Seq(good)
    BY <1>1, <1>2, <1>8 DEF SocketForwards, SocketOpen
  <2>2. PICK sent \in {sock, SendEnvelope(e)} :
          sock' = IF sent.closed THEN sent ELSE [sent EXCEPT !.queue = Tail(@)]
    BY <1>8 DEF SocketForwards
  <2> HIDE DEF e, good
  <2>3. /\ DOMAIN sent = {"server", "queue", "lagged", "wire", "closed"}
        /\ sent.queue \in Seq(good) /\ sent.wire \in Seq(good)
        /\ ~sent.closed => sent.server = c.server /\ sent.queue = sock.queue
    <3>1. CASE sent = sock
      BY <1>1, <3>1
    <3>2. CASE sent = SendEnvelope(e)
      BY <1>1, <1>4, <2>1, <3>2
    <3> QED
      BY <2>2, <3>1, <3>2
  <2>4. SockGood(sock', c.server, db)
    BY <2>1, <2>2, <2>3 DEF SockGood, good
  <2> QED
    BY <1>7, <1>8, <2>4 DEF SocketForwards
<1>9. ASSUME SocketLagged \/ AuthorizationTick PROVE SyncInv' /\ UNCHANGED c
  <2> DEFINE e == ResyncRequired(sock.server)
             sent == SendEnvelope(e)
  <2>1. ~sock.closed /\ sock' \in {sent, [sent EXCEPT !.lagged = FALSE]}
    BY <1>9 DEF SocketLagged, AuthorizationTick, SocketOpen
  <2>2. e \in good
    BY <1>1, <2>1, PlainEnvelopeFits DEF ResyncRequired, Kinds
  <2> HIDE DEF e
  <2>3. /\ DOMAIN sent = {"server", "queue", "lagged", "wire", "closed"}
        /\ sent.queue \in Seq(good) /\ sent.wire \in Seq(good)
        /\ ~sent.closed => sent.server = c.server
    BY <1>4, <2>1, <2>2
  <2> HIDE DEF sent, good
  <2>4. SockGood(sock', c.server, db)
    BY <2>1, <2>3 DEF SockGood, good
  <2> QED
    BY <1>7, <1>9, <2>4 DEF SocketLagged, AuthorizationTick
<1> QED
  BY <1>5, <1>6, <1>8, <1>9


-----------------------------------------------------------------------------
(***************************************************************************)
(* Snapshots.                                                              *)
(***************************************************************************)
LEMMA NothingChanges ==
    ASSUME SyncInv
    PROVE  IsReducer(c) /\ SameCopies(c, c) /\ NoneGoesBack(c, c)
BY OneOfTwoIsCurrent DEF SyncInv, ReducerGood, IsReducer, HasMaps, SameCopies, NoneGoesBack

LEMMA SameCopiesGoNowhere ==
    ASSUME SyncInv, NEW x, SameCopies(c, x)
    PROVE  NoneGoesBack(c, x)
BY NothingChanges DEF SameCopies, NoneGoesBack

(* One task at a time. *)
LEMMA OthersWait ==
    ASSUME SyncInv, NEW o \in Tasks, lock = o \/ lock = Nothing
    PROVE  \A p \in Tasks : p # o => snap[p] = Nothing
BY SyncAssumption DEF SyncInv, SnapsGood, Fetches, Tasks

(* The page lists what the server has now, of this server. *)
LEMMA PageIsCurrent ==
    ASSUME SyncInv, NEW s
    PROVE  /\ PageGood(RequestPage(s), s, db)
           /\ \A r \in DOMAIN RequestPage(s) : RequestPage(s)[r] = Copy(r) /\ Exists(r)
<1> DEFINE visible == {r \in Requests :
                        /\ ServerOf(r) = s /\ DeliveryEligible(r)
                        /\ db[r].status = "pending" \/ db[r].at > cleared[ChannelOf[r]]}
           all == [r \in visible |-> Copy(r)]
<1>1. RequestPage(s) = Keep(all, ToSet(VisibleRequests(all)))
  BY DEF RequestPage
<1>2. ASSUME NEW r \in visible
      PROVE  r \in Requests /\ ServerOf(r) = s /\ Exists(r)
  BY DEF DeliveryEligible
<1>3. DOMAIN all = visible /\ \A r \in visible : all[r] = Copy(r)
  OBVIOUS
<1> HIDE DEF visible, all
<1>4. ASSUME NEW r \in DOMAIN RequestPage(s)
      PROVE  r \in visible /\ RequestPage(s)[r] = Copy(r)
  BY <1>1, <1>3, <1>4 DEF Keep
<1>5. ASSUME NEW r \in Requests, Exists(r) PROVE Copy(r) \in Copies /\ Past(r, Copy(r), db)
  BY <1>5, SyncAssumption DEF SyncInv, TablesGood, Exists, Copy, Copies, Past
<1> QED
  BY <1>2, <1>4, <1>5 DEF PageGood

(* A copy the server once had is no younger than the one it has. *)
LEMMA CurrentIsYoungest ==
    ASSUME SyncInv, NEW r \in Requests, NEW x \in Copies, Past(r, x, db)
    PROVE  ~RequestIsStale(Copy(r), x)
BY DEF SyncInv, TablesGood, Copies, Copy, Past, RequestIsStale

LEMMA FetchedServer ==
    ASSUME SyncInv, NEW o \in Tasks, Fetches(o, lock, task, cmd)
    PROVE  SnapshotServer(o) = c.server
BY DEF SyncInv, Fetches, SnapshotServer, TaskGood, CmdGood, Tasks

LEMMA SnapshotsKeepInv ==
    ASSUME SyncInv, NEW o \in Tasks, SnapshotStep(o)
    PROVE  SyncInv' /\ NoneGoesBack(c, c')
<1> USE DEF serverVars
<1>1. CASE SnapshotBegins(o)
  <2>1. /\ Refreshing(o) /\ snap[o] = Nothing /\ lock = Nothing /\ lock' = o
        /\ snap' = [snap EXCEPT ![o] = [revision |-> c.revision, chans |-> Nothing, reqs |-> Nothing]]
        /\ UNCHANGED <<serverVars, sock, c, task, cmd>>
    BY <1>1 DEF SnapshotBegins
  <2>2. \A p \in Tasks : p # o => snap[p] = Nothing
    BY <2>1, OthersWait
  <2>3. Fetches(o, lock', task', cmd')
    BY <2>1 DEF Refreshing, Fetches
  <2>4. snap' = [p \in Tasks |-> snap'[p]] /\ DOMAIN snap = Tasks
    BY <2>1 DEF SyncInv, SnapsGood
  <2>5. c.revision \in Nat
    BY DEF SyncInv, ReducerGood, IsReducer, HasMaps
  <2>6. SnapsGood(snap', lock', task', cmd', c', db)
    BY <2>1, <2>2, <2>3, <2>4, <2>5 DEF SnapsGood, FetchGood
  <2> QED
    BY <2>1, <2>6, NothingChanges DEF SyncInv
<1>2. CASE SnapshotReads(o)
  <2> DEFINE page == RequestPage(SnapshotServer(o))
             list == ChannelList(SnapshotServer(o))
  <2>1. /\ lock = o /\ snap[o] # Nothing
        /\ snap' = [snap EXCEPT ![o].chans = list, ![o].reqs = page]
        /\ UNCHANGED <<serverVars, sock, c, task, lock, cmd>>
    BY <1>2 DEF SnapshotReads
  <2>2. \A p \in Tasks : p # o => snap[p] = Nothing
    BY <2>1, OthersWait
  <2>3. Fetches(o, lock, task, cmd) /\ FetchGood(snap[o], c, db)
        /\ snap = [p \in Tasks |-> snap[p]]
    BY <2>1 DEF SyncInv, SnapsGood
  <2>4. SnapshotServer(o) = c.server
    BY <2>3, FetchedServer
  <2>5. PageGood(page, c.server, db) /\ \A r \in DOMAIN page : page[r] = Copy(r)
    BY <2>4, PageIsCurrent
  <2> HIDE DEF page, list
  <2>6. SnapshotFits(page, snap[o].revision, c)
    <3> SUFFICES ASSUME NEW r \in DOMAIN c.reqs \cap DOMAIN page
                 PROVE  ~RequestIsStale(page[r], c.reqs[r])
      BY DEF SnapshotFits
    <3>1. r \in Requests /\ c.reqs[r] \in Copies /\ Past(r, c.reqs[r], db) /\ page[r] = Copy(r)
      BY <2>5 DEF SyncInv, ReducerGood, IsReducer, HasMaps
    <3> QED
      BY <3>1, CurrentIsYoungest
  <2>7. /\ snap' = [p \in Tasks |-> snap'[p]]
        /\ \A p \in Tasks : p # o => snap'[p] = Nothing
        /\ snap'[o] = [snap[o] EXCEPT !.chans = list, !.reqs = page]
    BY <2>1, <2>2, <2>3
  <2>8. FetchGood(snap'[o], c, db)
    BY <2>3, <2>5, <2>6, <2>7 DEF FetchGood
  <2>9. SnapsGood(snap', lock, task, cmd, c, db)
    BY <2>3, <2>7, <2>8 DEF SnapsGood
  <2> QED
    BY <2>1, <2>9, NothingChanges DEF SyncInv
<1>3. CASE SnapshotApplies(o)
  <2> DEFINE m == snap[o]
             next == ApplySnapshot(c, m.chans, m.reqs, m.revision)
  <2>1. /\ lock = o /\ m # Nothing /\ m.reqs # Nothing
        /\ c' = next /\ snap' = [snap EXCEPT ![o] = Nothing]
        /\ task' = IF o = "sync" THEN [task EXCEPT !.pc = "refreshed"] ELSE task
        /\ cmd' = IF o = "cmd" THEN [cmd EXCEPT !.pc = "finish"] ELSE cmd
        /\ UNCHANGED <<serverVars, sock, lock>>
    BY <1>3 DEF SnapshotApplies
  <2>2. \A p \in Tasks : p # o => snap[p] = Nothing
    BY <2>1, OthersWait
  <2>3. /\ Fetches(o, lock, task, cmd) /\ DOMAIN snap = Tasks
        /\ PageGood(m.reqs, c.server, db) /\ SnapshotFits(m.reqs, m.revision, c)
    BY <2>1 DEF SyncInv, SnapsGood, FetchGood
  <2> HIDE DEF m
  <2>4. IsReducer(c)
    BY NothingChanges
  <2>5. /\ IsReducer(c') /\ c'.server = c.server /\ c'.revision = c.revision
        /\ c'.reqs = MergeSnapshot(c, m.reqs, m.revision)
    BY <2>1, <2>3, <2>4, SnapshotIsMerged DEF PageGood
  <2>6. NoneGoesBack(c, c')
    BY <2>3, <2>4, <2>5, MergeTakesNothingBack DEF PageGood
  <2>7. ReducerGood(c', db)
    BY <2>3, <2>5 DEF SyncInv, ReducerGood, SelectionHolds, PageGood, MergeSnapshot
  <2>8. SnapsGood(snap', lock', task', cmd', c', db)
    BY <2>1, <2>2, <2>3 DEF SnapsGood
  <2>9. TaskGood(task', c.server) /\ CmdGood(cmd', c.server, db)
    BY <2>1, <2>3 DEF SyncInv, TaskGood, CmdGood, Fetches
  <2> QED
    BY <2>1, <2>5, <2>6, <2>7, <2>8, <2>9 DEF SyncInv
<1>4. CASE SendMessages(o)
  <2>1. /\ lock' = IF lock = o /\ snap[o] = Nothing THEN Nothing ELSE lock
        /\ UNCHANGED <<serverVars, sock, c, task, snap, cmd>>
    BY <1>4 DEF SendMessages
  <2>2. \A p \in Tasks : snap[p] # Nothing => Fetches(p, lock', task', cmd')
    BY <2>1 DEF SyncInv, SnapsGood, Fetches
  <2>3. SnapsGood(snap, lock', task, cmd, c, db)
    BY <2>1, <2>2 DEF SyncInv, SnapsGood
  <2> QED
    BY <2>1, <2>3, NothingChanges DEF SyncInv
<1> QED
  BY <1>1, <1>2, <1>3, <1>4 DEF SnapshotStep


-----------------------------------------------------------------------------
(***************************************************************************)
(* The sync task.                                                          *)
(***************************************************************************)
LEMMA NoSocketFits ==
    ASSUME NEW s, NEW d PROVE SockGood(NoSocket, s, d)
BY DEF SockGood, NoSocket

LEMMA UpdatedBetween ==
    ASSUME NEW x, NEW y, NEW z, NEW w, NEW r, NEW copy,
           SameCopies(x, y), Updated(y, z, r, copy), SameCopies(z, w)
    PROVE  Updated(x, w, r, copy)
BY DEF SameCopies, Updated

(* Only a task that refreshes has a snapshot in flight. *)
LEMMA FetchesWait ==
    ASSUME SyncInv
    PROVE  /\ task.pc # "refreshing" => snap["sync"] = Nothing
           /\ cmd.pc # "lock" => snap["cmd"] = Nothing
           /\ snap = [o \in Tasks |-> snap[o]]
           /\ snap["cmd"] # Nothing => lock = "cmd" /\ cmd.pc = "lock"
           /\ snap["sync"] # Nothing => lock = "sync" /\ task.pc = "refreshing"
BY DEF SyncInv, SnapsGood, Fetches, Tasks

(* The steps of the task that say something else of the same copies.        *)
LEMMA PhasesKeepInv ==
    ASSUME SyncInv, NEW phase, c' = SetSyncPhase(c, phase), UNCHANGED <<serverVars, cmd>>,
           SockGood(sock', c.server, db), TaskGood(task', c.server),
           \/ UNCHANGED snap /\ task.pc # "refreshing"
           \/ snap' = [snap EXCEPT !["sync"] = Nothing],
           lock' \in {lock, IF lock = "sync" THEN Nothing ELSE lock}
    PROVE  SyncInv' /\ NoneGoesBack(c, c')
<1>1. IsReducer(c') /\ SameCopies(c, c')
  BY NothingChanges, PhaseKeepsCopies
<1>2. UNCHANGED <<db, now>> /\ UnsentGood(unsent', db) /\ CmdGood(cmd', c.server, db)
  BY DEF serverVars, SyncInv
<1>3. \A o \in Tasks : snap'[o] # Nothing => snap'[o] = snap[o] /\ Fetches(o, lock', task', cmd')
  BY FetchesWait DEF Fetches, Tasks
<1>4. snap' = [o \in Tasks |-> snap'[o]]
  BY FetchesWait
<1> QED
  BY <1>1, <1>2, <1>3, <1>4, SameCopiesKeepInv, SameCopiesGoNowhere

LEMMA OfflineKeepsInv ==
    ASSUME SyncInv, GoOffline, UNCHANGED <<serverVars, cmd>>,
           task.pc \in {"connecting", "current"} \/ snap["sync"] # Nothing
    PROVE  SyncInv' /\ NoneGoesBack(c, c')
<1>1. task.server = c.server /\ DOMAIN task = {"pc", "server"}
  BY FetchesWait DEF SyncInv, TaskGood
<1>2. TaskGood(task', c.server) /\ SockGood(sock', c.server, db)
  BY <1>1, NoSocketFits DEF GoOffline, TaskGood
<1> QED
  BY <1>2, PhasesKeepInv DEF GoOffline

LEMMA SyncTaskKeepsInv ==
    ASSUME SyncInv, SyncStep \/ SyncFails
    PROVE  SyncInv' /\ NoneGoesBack(c, c')
<1>1. CASE SyncConnects
  <2>1. task.server = c.server /\ DOMAIN task = {"pc", "server"} /\ task.pc # "refreshing"
    BY <1>1 DEF SyncConnects, SyncInv, TaskGood
  <2>2. TaskGood(task', c.server)
    BY <1>1, <2>1 DEF SyncConnects, TaskGood
  <2> DEFINE hello == Envelope("hello", task.server, Nothing, Nothing)
             good == EnvelopesOf(c.server, db)
  <2>3. hello \in good
    BY <2>1, PlainEnvelopeFits DEF Kinds
  <2>4. SockGood(sock', c.server, db)
    <3> HIDE DEF hello, good
    <3>1. sock' = [server |-> task.server, queue |-> <<>>, lagged |-> FALSE, closed |-> FALSE,
                   wire |-> <<hello>>]
      BY <1>1 DEF SyncConnects, hello
    <3>2. <<hello>> \in Seq(good) /\ <<>> \in Seq(good)
      BY <2>3
    <3>3. /\ DOMAIN sock' = {"server", "queue", "lagged", "wire", "closed"}
          /\ sock'.queue = <<>> /\ sock'.wire = <<hello>> /\ sock'.server = c.server
      BY <2>1, <3>1
    <3> QED
      BY <3>2, <3>3 DEF SockGood, good
  <2> QED
    BY <1>1, <2>1, <2>2, <2>4, PhasesKeepInv DEF SyncConnects
<1>2. CASE SyncUnauthorized
  <2>1. task.server = c.server /\ DOMAIN task = {"pc", "server"}
    BY <1>2, FetchesWait DEF SyncUnauthorized, SyncInv, TaskGood
  <2>2. IsReducer(c') /\ DOMAIN c'.reqs = {} /\ c'.server = c.server /\ c'.revision = c.revision
    <3>1. /\ IsReducer(ClearLoadedData(c)) /\ DOMAIN ClearLoadedData(c).reqs = {}
          /\ ClearLoadedData(c).server = c.server
      BY NothingChanges, ClearHoldsNothing
    <3>2. ClearLoadedData(c).revision = c.revision
      BY NothingChanges DEF ClearLoadedData, IsReducer, HasMaps, Fields
    <3>3. c' = SetSyncPhase(ClearLoadedData(c), "revoked")
      BY <1>2 DEF SyncUnauthorized
    <3> QED
      BY <3>1, <3>2, <3>3, PhaseKeepsCopies DEF SameCopies
  <2>3. ReducerGood(c', db) /\ NoneGoesBack(c, c')
    BY <2>2 DEF ReducerGood, SelectionHolds, NoneGoesBack
  <2>4. /\ task' = [task EXCEPT !.pc = "ended"] /\ sock' = NoSocket
        /\ snap' = [snap EXCEPT !["sync"] = Nothing]
        /\ lock' = IF lock = "sync" THEN Nothing ELSE lock
        /\ UNCHANGED <<db, subs, cleared, revoked, now, unsent, cmd>>
    BY <1>2 DEF SyncUnauthorized, serverVars
  <2>5. TaskGood(task', c'.server) /\ SockGood(sock', c'.server, db)
    BY <2>1, <2>2, <2>4, NoSocketFits DEF TaskGood
  <2>6. SnapsGood(snap', lock', task', cmd', c', db)
    <3>1. \A o \in Tasks : snap'[o] # Nothing => snap'[o] = snap[o] /\ Fetches(o, lock', task', cmd')
      BY <2>4, FetchesWait DEF Fetches, Tasks
    <3>2. snap' = [o \in Tasks |-> snap'[o]]
      BY <2>4, FetchesWait
    <3>3. \A o \in Tasks : snap[o] # Nothing /\ snap[o].reqs # Nothing =>
              SnapshotFits(snap[o].reqs, snap[o].revision, c')
      BY <2>2 DEF SnapshotFits
    <3>4. c'.revision >= c.revision /\ c'.revision \in Nat
      BY <2>2 DEF IsReducer, HasMaps
    <3> QED
      BY <2>2, <3>1, <3>2, <3>3, <3>4, FetchesStay
  <2> QED
    BY <2>2, <2>3, <2>4, <2>5, <2>6 DEF SyncInv
<1>3. CASE SyncIsCurrent \/ SyncReconciles \/ SyncRetries
  <2>1. /\ task.pc \in {"refreshed", "reconcile", "offline"}
        /\ task.server = c.server /\ DOMAIN task = {"pc", "server"}
    BY <1>3 DEF SyncIsCurrent, SyncReconciles, SyncRetries, SyncInv, TaskGood
  <2>2. SockGood(sock', c.server, db) /\ TaskGood(task', c.server)
    BY <1>3, <2>1 DEF SyncIsCurrent, SyncReconciles, SyncRetries, SyncInv, TaskGood
  <2> QED
    BY <1>3, <2>1, <2>2, PhasesKeepInv DEF SyncIsCurrent, SyncReconciles, SyncRetries
<1>4. CASE SyncSeesClose \/ SyncFails
  BY <1>4, OfflineKeepsInv DEF SyncSeesClose, SyncFails
<1>5. CASE SyncReads
  <2> DEFINE e == Head(sock.wire)
             good == EnvelopesOf(c.server, db)
             connected == [c EXCEPT !.connected = TRUE]
  <2>1. /\ task.pc = "current" /\ sock.wire # <<>> /\ c' = ApplySyncEnvelope(e)
        /\ \E pc \in {"reconcile", "current"} : task' = [task EXCEPT !.pc = pc]
        /\ sock' = [sock EXCEPT !.wire = Tail(@)]
        /\ UNCHANGED <<db, subs, cleared, revoked, now, unsent, lock, snap, cmd>>
    BY <1>5 DEF SyncReads, serverVars
  <2>2. /\ DOMAIN sock = {"server", "queue", "lagged", "wire", "closed"}
        /\ sock.queue \in Seq(good) /\ sock.wire \in Seq(good)
        /\ ~sock.closed => sock.server = c.server
    BY DEF SyncInv, SockGood
  <2>3. e \in good /\ Tail(sock.wire) \in Seq(good)
    <3> HIDE DEF good
    <3> QED
      BY <2>1, <2>2
  <2>4. SockGood(sock', c.server, db)
    <3> HIDE DEF good, e
    <3> QED
      BY <2>1, <2>2, <2>3 DEF SockGood, good
  <2>5. /\ TaskGood(task', c.server) /\ CmdGood(cmd', c.server, db)
        /\ UnsentGood(unsent', db)
    BY <2>1 DEF SyncInv, TaskGood
  <2>6. IsReducer(connected) /\ SameCopies(c, connected)
    BY NothingChanges DEF IsReducer, HasMaps, Fields, SameCopies
  <2>7. /\ e.r # Nothing =>
             /\ e.r \in Requests /\ ServerOf(e.r) = c.server
             /\ e.copy \in Copies /\ Past(e.r, e.copy, db)
    BY <2>3 DEF EnvelopesOf
  <2>8. /\ snap = [o \in Tasks |-> snap[o]]
        /\ \A o \in Tasks : snap[o] # Nothing => Fetches(o, lock', task', cmd')
    BY <2>1, FetchesWait DEF Fetches, Tasks
  <2> HIDE DEF e, good, connected
  <2>9. CASE e.kind # "channel_updated" /\ e.r # Nothing
    <3>1. c' = ApplyRequestUpdate(connected, e.r, e.copy)
      BY <2>1, <2>9 DEF ApplySyncEnvelope, connected
    <3>2. IsReducer(c') /\ c'.server = c.server /\ Updated(connected, c', e.r, e.copy)
      BY <2>6, <2>7, <2>9, <3>1, RequestIsUpdated DEF SameCopies
    <3>3. Updated(c, c', e.r, e.copy)
      BY <2>6, <3>2, UpdatedBetween DEF SameCopies
    <3> QED
      BY <2>1, <2>4, <2>5, <2>7, <2>8, <2>9, <3>2, <3>3, UpdateKeepsInv
  <2>10. CASE ~(e.kind # "channel_updated" /\ e.r # Nothing)
    <3>1. c' \in {UpsertChannel(connected, e.copy, TRUE), connected}
      BY <2>1, <2>10 DEF ApplySyncEnvelope, connected
    <3>2. /\ IsReducer(UpsertChannel(connected, e.copy, TRUE))
          /\ SameCopies(connected, UpsertChannel(connected, e.copy, TRUE))
      BY <2>6 DEF UpsertChannel, IsReducer, HasMaps, Fields, SameCopies
    <3>3. IsReducer(c') /\ SameCopies(c, c')
      BY <2>6, <3>1, <3>2 DEF SameCopies
    <3>4. \A o \in Tasks :
             snap'[o] # Nothing => snap'[o] = snap[o] /\ Fetches(o, lock', task', cmd')
      BY <2>1, <2>8
    <3>5. SyncInv'
      BY <2>1, <2>4, <2>5, <2>8, <3>3, <3>4, SameCopiesKeepInv
    <3> QED
      BY <3>3, <3>5, SameCopiesGoNowhere
  <2> QED
    BY <2>9, <2>10
<1> QED
  BY <1>1, <1>2, <1>3, <1>4, <1>5 DEF SyncStep


-----------------------------------------------------------------------------
(***************************************************************************)
(* Commands.                                                               *)
(***************************************************************************)
LEMMA IdleFetchesNothing ==
    ASSUME SyncInv, Idle
    PROVE  cmd.pc = "done" /\ snap["cmd"] = Nothing
BY FetchesWait DEF SyncInv, CmdGood, Idle

LEMMA NoCommandFits ==
    ASSUME NEW s, NEW d PROVE CmdGood(NoCommand, s, d)
BY DEF CmdGood, NoCommand

LEMMA StartedFits ==
    ASSUME NEW op, op # "none", NEW pc \in {"lock", "post", "finish", "forget"}, NEW r, NEW s, NEW d,
           pc = "post" => r \in Requests /\ ServerOf(r) = s,
           Starts(op, pc, r, s)
    PROVE  CmdGood(cmd', s, d)
BY DEF CmdGood, NoCommand, Starts

(* Another server, or the same one from the beginning. *)
LEMMA SwitchKeepsInv ==
    ASSUME SyncInv, NEW x, IsReducer(x), DOMAIN x.reqs = {}, NEW connect \in BOOLEAN,
           SwitchTo(x, connect), UNCHANGED <<db, now>>, UnsentGood(unsent', db),
           snap["cmd"] = Nothing, CmdGood(cmd', x.server, db)
    PROVE  SyncInv' /\ NoneGoesBack(c, c')
<1>1. c' \in {SetSyncPhase(x, "connecting"), MarkDisconnected(x)}
  BY DEF SwitchTo
<1>2. IsReducer(c') /\ SameCopies(x, c')
  BY <1>1, PhaseKeepsCopies, DisconnectKeepsCopies
<1>3. DOMAIN c'.reqs = {} /\ c'.server = x.server
  BY <1>2 DEF SameCopies
<1>4. TaskGood(task', x.server) /\ SockGood(sock', x.server, db)
  BY NoSocketFits DEF SwitchTo, DisconnectSync, SpawnedTask, NoTask, TaskGood
<1>5. snap' = [o \in Tasks |-> snap'[o]] /\ \A o \in Tasks : snap'[o] = Nothing
  BY FetchesWait DEF SwitchTo, DisconnectSync, Tasks
<1>6. SyncInv'
  BY <1>2, <1>3, <1>4, <1>5, EmptyReducerKeepsInv
<1> QED
  BY <1>3, <1>6 DEF NoneGoesBack

(* A command that only asks the server for something. *)
LEMMA AskingKeepsInv ==
    ASSUME SyncInv, UNCHANGED <<db, sock, c, task, lock, snap>>, now' \in {now, now + 1},
           UnsentGood(unsent', db), cmd.pc # "lock", CmdGood(cmd', c.server, db)
    PROVE  SyncInv' /\ NoneGoesBack(c, c')
<1>1. TablesGood(db', now') /\ Grows(db, db')
  BY DEF SyncInv, TablesGood, Grows
<1>2. SyncInv'
  BY <1>1, TablesMoveOn
<1> QED
  BY <1>2, NothingChanges

(* A command's copy arrives, if its server is still the selected one.       *)
LEMMA TargetedKeepsInv ==
    ASSUME SyncInv, NEW copy \in Copies, cmd'.r \in Requests, ServerOf(cmd'.r) = cmd'.server,
           Past(cmd'.r, copy, db), ApplyTargetedRequest(copy), cmd.pc # "lock",
           UNCHANGED <<serverVars, sock, task, lock, snap>>, CmdGood(cmd', c.server, db)
    PROVE  SyncInv' /\ NoneGoesBack(c, c')
<1>1. UNCHANGED <<db, now, unsent>> /\ UnsentGood(unsent', db)
  BY DEF serverVars, SyncInv
<1>2. CASE c.server = cmd'.server
  <2>1. c' = ApplyRequestUpdate(c, cmd'.r, copy)
    BY <1>2 DEF ApplyTargetedRequest
  <2>2. IsReducer(c') /\ c'.server = c.server /\ Updated(c, c', cmd'.r, copy)
    BY <2>1, NothingChanges, RequestIsUpdated
  <2>3. /\ SockGood(sock', c.server, db) /\ TaskGood(task', c.server)
        /\ \A o \in Tasks : snap[o] # Nothing => Fetches(o, lock', task', cmd')
    BY FetchesWait DEF SyncInv, Fetches, Tasks
  <2> QED
    BY <1>1, <1>2, <2>2, <2>3, UpdateKeepsInv
<1>3. CASE c.server # cmd'.server
  <2>1. c' = c
    BY <1>3 DEF ApplyTargetedRequest
  <2> QED
    BY <1>1, <2>1, AskingKeepsInv
<1> QED
  BY <1>2, <1>3

LEMMA CurrentCopyFits ==
    ASSUME SyncInv, NEW r \in Requests, Exists(r)
    PROVE  Copy(r) \in Copies /\ Past(r, Copy(r), db)
BY SyncAssumption DEF SyncInv, TablesGood, Exists, Copy, Copies, Past

LEMMA StartsKeepInv ==
    ASSUME SyncInv, CommandStarts
    PROVE  SyncInv' /\ NoneGoesBack(c, c')
<1> USE DEF serverVars
<1>1. Idle /\ cmd.pc = "done" /\ snap["cmd"] = Nothing
  <2>1. Idle
    BY DEF CommandStarts, RefreshCommand, RevokeOwnDevice, SelectServer, ForgetCommand,
           EnrollCommand, OpenReads, SubmitReads, ClearChannelCommand, SetSubscriptionCommand,
           ChooseChannel, Starts
  <2> QED
    BY <2>1, IdleFetchesNothing
<1>2. UnsentGood(unsent, db) /\ IsReducer(c)
  BY NothingChanges DEF SyncInv
<1>3. CASE RefreshCommand \/ \E s \in Servers : ForgetCommand(s)
  <2>1. CmdGood(cmd', c.server, db)
    BY <1>3 DEF RefreshCommand, ForgetCommand, Starts, CmdGood, NoCommand
  <2> QED
    BY <1>1, <1>2, <1>3, <2>1, AskingKeepsInv DEF RefreshCommand, ForgetCommand
<1>4. CASE \/ RevokeOwnDevice
           \/ \E ch \in Channels : \/ \E t \in {now, now + 1} : ClearChannelCommand(ch, t)
                                   \/ SetSubscriptionCommand(ch)
  <2>1. CmdGood(cmd', c.server, db)
    <3>1. PICK op \in {"revoke", "clear", "subscription"}, pc \in {"lock", "forget"} :
            Starts(op, pc, Nothing, c.server)
      BY <1>4 DEF RevokeOwnDevice, ClearChannelCommand, SetSubscriptionCommand
    <3> QED
      BY <3>1, StartedFits
  <2>2. PICK kind \in Kinds : unsent' = unsent \cup {Envelope(kind, c.server, Nothing, Nothing)}
    BY <1>4 DEF RevokeOwnDevice, ClearChannelCommand, SetSubscriptionCommand, Kinds
  <2>3. UnsentGood(unsent', db)
    BY <1>2, <2>2, PlainEnvelopeFits DEF UnsentGood
  <2> QED
    BY <1>1, <1>4, <2>1, <2>3, AskingKeepsInv
    DEF RevokeOwnDevice, ClearChannelCommand, SetSubscriptionCommand
<1>5. ASSUME NEW s \in Servers, SelectServer(s) PROVE SyncInv' /\ NoneGoesBack(c, c')
  <2>1. /\ IsReducer(SetSelectedServer(c, s)) /\ DOMAIN SetSelectedServer(c, s).reqs = {}
    BY <1>2, SelectHoldsNothing
  <2>2. CmdGood(cmd', SetSelectedServer(c, s).server, db)
    BY <1>1, <1>5 DEF SelectServer, SyncInv, CmdGood
  <2> QED
    BY <1>1, <1>2, <1>5, <2>1, <2>2, SwitchKeepsInv DEF SelectServer
<1>6. ASSUME NEW s \in Servers, EnrollCommand(s) PROVE SyncInv' /\ NoneGoesBack(c, c')
  <2> DEFINE x == SetSelectedServer(UpsertServer(c, s), s)
             y == [x EXCEPT !.chans = ChannelList(s)]
  <2>1. IsReducer(x) /\ DOMAIN x.reqs = {} /\ x.server = s
    BY <1>2, ProfilesKeepCopies, SelectHoldsNothing
  <2> HIDE DEF x
  <2>2. IsReducer(y) /\ DOMAIN y.reqs = {} /\ y.server = s
    BY <2>1 DEF IsReducer, HasMaps, Fields
  <2>3. SwitchTo(y, FALSE) /\ UNCHANGED <<db, now, unsent>>
    BY <1>6 DEF EnrollCommand, x
  <2> HIDE DEF y
  <2>4. CmdGood(cmd', y.server, db)
    BY <1>6, <2>2 DEF EnrollCommand, CmdGood, NoCommand
  <2> QED
    BY <1>1, <1>2, <2>2, <2>3, <2>4, SwitchKeepsInv
<1>7. ASSUME NEW r \in Requests, OpenReads(r) PROVE SyncInv' /\ NoneGoesBack(c, c')
  <2>1. CmdGood(cmd', c.server, db)
    BY <1>7, CurrentCopyFits DEF OpenReads, CmdGood, NoCommand
  <2> QED
    BY <1>1, <1>2, <1>7, <2>1, AskingKeepsInv DEF OpenReads
<1>8. ASSUME NEW r \in Requests, SubmitReads(r) PROVE SyncInv' /\ NoneGoesBack(c, c')
  <2>1. ServerOf(r) = c.server
    BY <1>8 DEF SubmitReads, SyncInv, ReducerGood, IsReducer, SelectionHolds
  <2>2. CmdGood(cmd', c.server, db) /\ cmd'.r = r /\ cmd'.server = c.server
    BY <1>8, <2>1 DEF SubmitReads, Starts, CmdGood, NoCommand
  <2>3. CASE db[r].status = "pending"
    BY <1>1, <1>2, <1>8, <2>2, <2>3, AskingKeepsInv DEF SubmitReads
  <2>4. CASE db[r].status # "pending"
    <3>1. Copy(r) \in Copies /\ Past(r, Copy(r), db)
      BY <1>8, CurrentCopyFits DEF SubmitReads
    <3> QED
      BY <1>1, <1>8, <2>1, <2>2, <2>4, <3>1, TargetedKeepsInv DEF SubmitReads
  <2> QED
    BY <2>3, <2>4
<1>9. ASSUME NEW ch, ChooseChannel(ch) PROVE SyncInv' /\ NoneGoesBack(c, c')
  <2>1. IsReducer(c') /\ SameCopies(c, c')
    BY <1>2, <1>9, ChannelKeepsCopies DEF ChooseChannel
  <2>2. /\ snap' = [o \in Tasks |-> snap'[o]]
        /\ \A o \in Tasks :
             snap'[o] # Nothing => snap'[o] = snap[o] /\ Fetches(o, lock', task', cmd')
    BY <1>9, FetchesWait DEF ChooseChannel, Fetches, Tasks
  <2>3. SyncInv'
    BY <1>2, <1>9, <2>1, <2>2, SameCopiesKeepInv DEF ChooseChannel, SyncInv
  <2> QED
    BY <2>1, <2>3, SameCopiesGoNowhere
<1> QED
  BY <1>3, <1>4, <1>5, <1>6, <1>7, <1>8, <1>9 DEF CommandStarts


LEMMA StepsKeepInv ==
    ASSUME SyncInv, \/ CommandStep \/ CommandSnapshotFails \/ ForgetFails
                    \/ \E t \in {now, now + 1} : SubmitPosts(t, TRUE)
    PROVE  SyncInv' /\ NoneGoesBack(c, c')
<1> USE DEF serverVars
<1>1. UnsentGood(unsent, db) /\ IsReducer(c)
  BY NothingChanges DEF SyncInv
<1>2. CASE CommandReturns
  <2>1. /\ cmd.pc = "finish" /\ cmd' = NoCommand
        /\ lock' = IF lock = "cmd" THEN Nothing ELSE lock
        /\ UNCHANGED <<db, now, unsent, sock, snap>>
    BY <1>2 DEF CommandReturns
  <2>2. /\ snap["cmd"] = Nothing /\ snap' = [o \in Tasks |-> snap'[o]]
        /\ CmdGood(cmd', c.server, db)
    BY <2>1, FetchesWait, NoCommandFits
  <2>3. /\ IsReducer(c') /\ SameCopies(c, c') /\ TaskGood(task', c.server)
        /\ UNCHANGED task \/ task.pc # "refreshing"
    <3>1. CASE cmd.connect /\ task.pc \in {"none", "ended"}
      BY <1>1, <1>2, <3>1, PhaseKeepsCopies
      DEF CommandReturns, SpawnedTask, NoTask, TaskGood
    <3>2. CASE ~(cmd.connect /\ task.pc \in {"none", "ended"})
      BY <1>1, <1>2, <3>2, NothingChanges DEF CommandReturns, SyncInv
    <3> QED
      BY <3>1, <3>2
  <2>4. \A o \in Tasks : snap'[o] # Nothing => snap'[o] = snap[o] /\ Fetches(o, lock', task', cmd')
    BY <2>1, <2>2, <2>3, FetchesWait DEF Fetches, Tasks
  <2>5. SyncInv'
    BY <1>1, <2>1, <2>2, <2>3, <2>4, SameCopiesKeepInv DEF SyncInv
  <2> QED
    BY <2>3, <2>5, SameCopiesGoNowhere
<1>3. CASE CommandSnapshotFails
  <2>1. /\ snap' = [snap EXCEPT !["cmd"] = Nothing] /\ lock = "cmd"
        /\ cmd' = [cmd EXCEPT !.pc = "finish"]
        /\ UNCHANGED <<db, now, unsent, sock, c, task>>
        /\ snap["cmd"] # Nothing
    BY <1>3 DEF CommandSnapshotFails
  <2>2. CmdGood(cmd', c.server, db)
    BY <2>1, FetchesWait DEF SyncInv, CmdGood
  <2>3. /\ snap' = [o \in Tasks |-> snap'[o]]
        /\ \A o \in Tasks :
             snap'[o] # Nothing => snap'[o] = snap[o] /\ Fetches(o, lock', task', cmd')
    BY <2>1, FetchesWait DEF Tasks
  <2>4. SyncInv'
    BY <1>1, <2>1, <2>2, <2>3, NothingChanges, SameCopiesKeepInv DEF SyncInv
  <2> QED
    BY <2>1, <2>4, NothingChanges
<1>4. CASE OpenSelects
  <2> DEFINE x == SetSelectedServer(c, cmd.server)
  <2>1. IsReducer(x) /\ DOMAIN x.reqs = {} /\ x.server = cmd.server
    BY <1>1, SelectHoldsNothing
  <2>2. /\ cmd.pc = "opened" /\ SwitchTo(x, TRUE) /\ UNCHANGED <<db, now, unsent, cmd>>
    BY <1>4 DEF OpenSelects
  <2> HIDE DEF x
  <2>3. CmdGood(cmd', x.server, db) /\ snap["cmd"] = Nothing
    BY <2>1, <2>2, FetchesWait DEF SyncInv, CmdGood
  <2> QED
    BY <1>1, <2>1, <2>2, <2>3, SwitchKeepsInv
<1>5. CASE OpenApplies
  <2>1. /\ cmd.pc = "opened" /\ c.server = cmd.server /\ cmd' = NoCommand
        /\ c' = [SelectChannel(ApplyRequestUpdate(c, cmd.r, cmd.copy), cmd.copy.chan)
                    EXCEPT !.selReq = cmd.r]
        /\ UNCHANGED <<db, now, unsent, sock, task, lock, snap>>
    BY <1>5 DEF OpenApplies
  <2>2. /\ cmd.r \in Requests /\ ServerOf(cmd.r) = c.server
        /\ cmd.copy \in Copies /\ Past(cmd.r, cmd.copy, db)
    BY <2>1 DEF SyncInv, CmdGood
  <2> DEFINE x == ApplyRequestUpdate(c, cmd.r, cmd.copy)
             y == SelectChannel(x, cmd.copy.chan)
  <2>3. IsReducer(x) /\ x.server = c.server /\ Updated(c, x, cmd.r, cmd.copy)
    BY <1>1, <2>2, RequestIsUpdated
  <2> HIDE DEF x
  <2>4. IsReducer(y) /\ SameCopies(x, y)
    BY <2>3, ChannelKeepsCopies
  <2> HIDE DEF y
  <2>5. c' = [y EXCEPT !.selReq = cmd.r]
    BY <2>1 DEF x, y
  <2>6. IsReducer(c') /\ SameCopies(y, c')
    BY <2>4, <2>5 DEF IsReducer, HasMaps, Fields, SameCopies
  <2>7. SameCopies(c, c) /\ SameCopies(x, c')
    BY <2>4, <2>6 DEF SameCopies
  <2>8. Updated(c, c', cmd.r, cmd.copy) /\ c'.server = c.server
    BY <2>3, <2>7, UpdatedBetween DEF SameCopies
  <2>9. /\ CmdGood(cmd', c.server, db) /\ SockGood(sock', c.server, db)
        /\ TaskGood(task', c.server)
        /\ \A o \in Tasks : snap[o] # Nothing => Fetches(o, lock', task', cmd')
    BY <2>1, FetchesWait, NoCommandFits DEF SyncInv, Fetches, Tasks
  <2> QED
    BY <1>1, <2>1, <2>2, <2>6, <2>8, <2>9, UpdateKeepsInv
<1>6. ASSUME NEW t \in {now, now + 1}, NEW lost \in BOOLEAN, SubmitPosts(t, lost)
      PROVE  SyncInv' /\ NoneGoesBack(c, c')
  <2>1. /\ cmd.pc = "post" /\ cmd.r \in Requests /\ ServerOf(cmd.r) = cmd.server
        /\ DOMAIN cmd = {"op", "pc", "r", "server", "copy", "connect"} /\ cmd.op # "none"
        /\ UNCHANGED <<sock, c, task, lock, snap>>
    BY <1>6 DEF SubmitPosts, SyncInv, CmdGood
  <2>2. CASE db[cmd.r].status = "pending" /\ cmd.server \notin revoked
    <3> DEFINE copy == [chan |-> ChannelOf[cmd.r], status |-> "done", at |-> t]
               e == Envelope("resolved", ServerOf(cmd.r), cmd.r, copy)
    <3>1. /\ db' = [db EXCEPT ![cmd.r] = [status |-> "done", at |-> t]] /\ now' = t
          /\ unsent' = unsent \cup {e}
          /\ cmd' = [cmd EXCEPT !.pc = IF lost THEN "reread" ELSE "replied", !.copy = copy]
      BY <1>6, <2>1, <2>2 DEF SubmitPosts, Finished
    <3>2. TablesGood(db', t) /\ Grows(db, db') /\ copy \in Copies /\ Past(cmd.r, copy, db')
      BY <2>1, <2>2, <3>1, RowMovesOn
    <3>3. e \in EnvelopesOf(ServerOf(cmd.r), db') /\ e.server = ServerOf(cmd.r)
      BY <2>1, <3>2, RequestEnvelopeFits DEF Kinds
    <3>4. UnsentGood(unsent, db')
      BY <3>2, UnsentStays
    <3> HIDE DEF copy, e
    <3>5. UnsentGood(unsent', db')
      BY <3>1, <3>3, <3>4 DEF UnsentGood
    <3>6. CmdGood(cmd', c.server, db')
      BY <2>1, <3>1, <3>2 DEF CmdGood
    <3>7. SyncInv'
      BY <2>1, <3>1, <3>2, <3>5, <3>6, TablesMoveOn
    <3> QED
      BY <2>1, <3>7, NothingChanges
  <2>3. CASE ~(db[cmd.r].status = "pending" /\ cmd.server \notin revoked)
    <3>1. cmd' = [cmd EXCEPT !.pc = "reread"] /\ UNCHANGED <<db, now, unsent>>
      BY <1>6, <2>3 DEF SubmitPosts
    <3>2. CmdGood(cmd', c.server, db)
      BY <2>1, <3>1 DEF CmdGood
    <3> QED
      BY <1>1, <2>1, <3>1, <3>2, AskingKeepsInv
  <2> QED
    BY <2>2, <2>3
<1>7. CASE SubmitReplied
  <2>1. /\ cmd.pc = "replied" /\ cmd' = [cmd EXCEPT !.pc = "finish"]
        /\ ApplyTargetedRequest(cmd.copy)
        /\ UNCHANGED <<serverVars, sock, task, lock, snap>>
    BY <1>7 DEF SubmitReplied
  <2>2. /\ cmd.r \in Requests /\ ServerOf(cmd.r) = cmd.server
        /\ cmd.copy \in Copies /\ Past(cmd.r, cmd.copy, db)
        /\ cmd'.r = cmd.r /\ cmd'.server = cmd.server /\ CmdGood(cmd', c.server, db)
    BY <2>1 DEF SyncInv, CmdGood
  <2> QED
    BY <2>1, <2>2, TargetedKeepsInv
<1>8. CASE SubmitRereads
  <2>1. /\ cmd.pc = "reread" /\ cmd' = [cmd EXCEPT !.pc = "finish"]
        /\ UNCHANGED <<serverVars, sock, task, lock, snap>>
        /\ UNCHANGED c \/ (Exists(cmd.r) /\ ApplyTargetedRequest(Copy(cmd.r)))
    BY <1>8 DEF SubmitRereads
  <2>2. /\ cmd.r \in Requests /\ ServerOf(cmd.r) = cmd.server
        /\ cmd'.r = cmd.r /\ cmd'.server = cmd.server /\ CmdGood(cmd', c.server, db)
    BY <2>1 DEF SyncInv, CmdGood
  <2>3. CASE UNCHANGED c
    BY <1>1, <2>1, <2>2, <2>3, AskingKeepsInv
  <2>4. CASE Exists(cmd.r) /\ ApplyTargetedRequest(Copy(cmd.r))
    BY <2>1, <2>2, <2>4, CurrentCopyFits, TargetedKeepsInv
  <2> QED
    BY <2>1, <2>3, <2>4
<1>9. CASE ForgetServer
  <2>1. cmd.pc = "forget" /\ cmd' = NoCommand /\ UNCHANGED <<db, now, unsent>>
    BY <1>9 DEF ForgetServer
  <2>2. snap["cmd"] = Nothing
    BY <2>1, FetchesWait
  <2>3. CASE c.server = cmd.server
    <3> DEFINE x == RemoveServer(MarkDisconnected(c), cmd.server)
    <3>1. IsReducer(MarkDisconnected(c)) /\ MarkDisconnected(c).server = c.server
      BY <1>1, DisconnectKeepsCopies DEF SameCopies
    <3>2. IsReducer(x) /\ DOMAIN x.reqs = {}
      BY <2>3, <3>1, RemoveKeepsOrEmpties
    <3>3. SwitchTo(x, TRUE)
      BY <1>9, <2>3 DEF ForgetServer
    <3> HIDE DEF x
    <3> QED
      BY <1>1, <2>1, <2>2, <3>2, <3>3, NoCommandFits, SwitchKeepsInv
  <2>4. CASE c.server # cmd.server
    <3>1. c' = RemoveServer(c, cmd.server) /\ UNCHANGED <<sock, snap, lock, task>>
      BY <1>9, <2>4 DEF ForgetServer
    <3>2. IsReducer(c') /\ SameCopies(c, c')
      BY <1>1, <2>4, <3>1, RemoveKeepsOrEmpties
    <3>3. /\ snap' = [o \in Tasks |-> snap'[o]]
          /\ \A o \in Tasks :
               snap'[o] # Nothing => snap'[o] = snap[o] /\ Fetches(o, lock', task', cmd')
      BY <2>2, <3>1, FetchesWait DEF Fetches, Tasks
    <3>4. SyncInv'
      BY <1>1, <2>1, <3>1, <3>2, <3>3, NoCommandFits, SameCopiesKeepInv DEF SyncInv
    <3> QED
      BY <3>2, <3>4, SameCopiesGoNowhere
  <2> QED
    BY <2>3, <2>4
<1>10. CASE ForgetFails
  <2>1. cmd.pc = "forget" /\ cmd' = NoCommand /\ UNCHANGED <<db, now, unsent>>
    BY <1>10 DEF ForgetFails
  <2>2. snap["cmd"] = Nothing
    BY <2>1, FetchesWait
  <2>3. CASE c.server = cmd.server
    <3>1. SwitchTo(c, FALSE)
      BY <1>10, <2>3 DEF ForgetFails
    <3>2. c' = MarkDisconnected(c) /\ task' = NoTask /\ sock' = NoSocket
      BY <3>1 DEF SwitchTo, DisconnectSync
    <3>3. IsReducer(c') /\ SameCopies(c, c')
      BY <1>1, <3>2, DisconnectKeepsCopies
    <3>4. snap' = [o \in Tasks |-> snap'[o]] /\ \A o \in Tasks : snap'[o] = Nothing
      BY <2>2, <3>1, FetchesWait DEF SwitchTo, DisconnectSync, Tasks
    <3>5. TaskGood(task', c.server) /\ SockGood(sock', c.server, db)
      BY <3>2, NoSocketFits DEF NoTask, TaskGood
    <3>6. SyncInv'
      BY <1>1, <2>1, <3>3, <3>4, <3>5, NoCommandFits, SameCopiesKeepInv
    <3> QED
      BY <3>3, <3>6, SameCopiesGoNowhere
  <2>4. CASE c.server # cmd.server
    <3>1. UNCHANGED <<sock, c, task, snap, lock>>
      BY <1>10, <2>4 DEF ForgetFails
    <3>2. IsReducer(c') /\ SameCopies(c, c')
      BY <1>1, <3>1 DEF SameCopies
    <3>3. /\ snap' = [o \in Tasks |-> snap'[o]]
          /\ \A o \in Tasks :
               snap'[o] # Nothing => snap'[o] = snap[o] /\ Fetches(o, lock', task', cmd')
      BY <2>2, <3>1, FetchesWait DEF Fetches, Tasks
    <3>4. SyncInv'
      BY <1>1, <2>1, <3>1, <3>2, <3>3, NoCommandFits, SameCopiesKeepInv DEF SyncInv
    <3> QED
      BY <3>2, <3>4, SameCopiesGoNowhere
  <2> QED
    BY <2>3, <2>4
<1> QED
  BY <1>2, <1>3, <1>4, <1>5, <1>6, <1>7, <1>8, <1>9, <1>10 DEF CommandStep

-----------------------------------------------------------------------------
(***************************************************************************)
(* The theorems.                                                           *)
(***************************************************************************)
LEMMA SyncInit ==
    ASSUME Init PROVE SyncInv
<1> DEFINE x == NewReducer(Profiles, Head(Profiles))
<1>1. IsReducer(x) /\ DOMAIN x.reqs = {} /\ x.server = Head(Profiles)
  <2>1. DOMAIN EmptyMap = {} /\ ToSet(<<>>) = {}
    BY DEF EmptyMap, ToSet
  <2> QED
    BY <2>1 DEF NewReducer, IsReducer, HasMaps, Fields
<1> HIDE DEF x
<1>2. IsReducer(c) /\ SameCopies(x, c)
  BY <1>1, PhaseKeepsCopies DEF Init, x
<1>3. ReducerGood(c, db) /\ c.server = Head(Profiles)
  BY <1>1, <1>2 DEF ReducerGood, SelectionHolds, SameCopies
<1>4. TablesGood(db, now) /\ UnsentGood(unsent, db) /\ SockGood(sock, c.server, db)
  BY NoSocketFits DEF Init, TablesGood, UnsentGood
<1>5. TaskGood(task, c.server) /\ CmdGood(cmd, c.server, db)
  BY <1>3, NoCommandFits DEF Init, TaskGood
<1>6. SnapsGood(snap, lock, task, cmd, c, db)
  BY DEF Init, SnapsGood
<1> QED
  BY <1>3, <1>4, <1>5, <1>6 DEF SyncInv

LEMMA SyncNext ==
    ASSUME SyncInv, [Next]_vars PROVE SyncInv' /\ NoneGoesBack(c, c')
<1>1. CASE UNCHANGED vars
  BY <1>1, NothingChanges DEF vars, serverVars, coreVars, SyncInv
<1>2. CASE ServerOperation
  <2>1. SyncInv' /\ UNCHANGED c
    BY <1>2, OperationsKeepInv
    DEF ServerOperation, CreateRequest, FinishRequest, OtherUserDecides, ClearChannelElsewhere,
        SubscriptionElsewhere, UpsertChannelElsewhere, DeleteChannelElsewhere,
        RevokeDeviceElsewhere, Operation, coreVars
  <2> QED
    BY <2>1, NothingChanges
<1>3. CASE \/ \E e \in unsent : Broadcast(e)
           \/ \E s \in Servers : ServerRestarts(s)
           \/ SocketForwards \/ SocketLagged \/ AuthorizationTick
  BY <1>3, SocketsKeepInv, NothingChanges
<1>4. CASE \E o \in Tasks : SnapshotStep(o)
  BY <1>4, SnapshotsKeepInv
<1>5. CASE SyncStep \/ SyncFails
  BY <1>5, SyncTaskKeepsInv
<1>6. CASE CommandStarts
  BY <1>6, StartsKeepInv
<1>7. CASE \/ CommandStep \/ CommandSnapshotFails \/ ForgetFails
           \/ \E t \in {now, now + 1} : SubmitPosts(t, TRUE)
  BY <1>7, StepsKeepInv
<1> QED
  BY <1>1, <1>2, <1>3, <1>4, <1>5, <1>6, <1>7 DEF Next

(* Whatever was in flight when the selection changed -- a socket's events,  *)
(* a snapshot half fetched, the answer of a command -- the reducer holds    *)
(* requests of the selected server only: the sync task is aborted and       *)
(* awaited before another server is selected (disconnect_sync), and a       *)
(* command's answer is dropped when its server is not the selected one      *)
(* (apply_targeted_request).                                                *)
THEOREM OneServerShownAlways == Spec => []OneServerShown
<1>1. SyncInv => OneServerShown
  BY DEF SyncInv, ReducerGood, SelectionHolds, OneServerShown
<1> QED
  BY <1>1, SyncInit, SyncNext, PTL DEF Spec

(* A copy the reducer holds is never replaced by an older one, nor a        *)
(* handled one by a pending one, in whichever order snapshots, late events  *)
(* and answers arrive: request_is_stale guards single updates, and a        *)
(* snapshot keeps what changed after its revision was noted, whereas what   *)
(* it does replace was in the reducer before the server was asked           *)
(* (apply_snapshot).                                                        *)
THEOREM CopiesNeverGoBackAlways == Spec => CopiesNeverGoBack
<1>1. NoneGoesBack(c, c') <=> \A r \in DOMAIN c.reqs \cap DOMAIN c'.reqs :
                                 ~RequestIsStale(c'.reqs[r], c.reqs[r])
  BY DEF NoneGoesBack
<1>2. SyncInv /\ [Next]_vars =>
        [\A r \in DOMAIN c.reqs \cap DOMAIN c'.reqs : ~RequestIsStale(c'.reqs[r], c.reqs[r])]_c
  BY <1>1, SyncNext
<1> QED
  BY <1>2, SyncInit, SyncNext, PTL DEF Spec, CopiesNeverGoBack
==============================================================================
