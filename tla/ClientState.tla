----------------------------- MODULE ClientState -----------------------------
(***************************************************************************)
(* The client core's StateReducer (client/nod-client-core/src/state.rs) as *)
(* operators from one reducer value to the next.  The reducer holds the    *)
(* copies of the selected server's requests, the revision at which each    *)
(* copy last changed, and what the interface is shown: the visible list,   *)
(* the pending count of each channel and the selection.                    *)
(*                                                                         *)
(* A copy of a request keeps its channel, its status ("pending" or "done", *)
(* which stands for resolved, expired and cancelled) and its updated_at.   *)
(* Requests are numbers, so that id and created_at order them alike.       *)
(***************************************************************************)
EXTENDS Integers, FiniteSets, Sequences, SequencesExt, FiniteSetsExt

CONSTANTS
    HandledLimit,   \* HANDLED_REQUEST_DISPLAY_LIMIT, REFRESH_HISTORY_LIMIT
    Nothing         \* an Option that is None

ASSUME HandledLimitAssumption == HandledLimit \in Nat

EmptyMap == [k \in {} |-> Nothing]

Put(map, key, value) == [k \in DOMAIN map \cup {key} |-> IF k = key THEN value ELSE map[k]]

Keep(map, keys) == [k \in DOMAIN map \cap keys |-> map[k]]

\* StateReducer::new for the profiles on disk, one of which may be selected.
NewReducer(servers, selected) ==
    [servers |-> servers, server |-> selected, reqs |-> EmptyMap,
     revs |-> EmptyMap, revision |-> 0, known |-> EmptyMap, loaded |-> FALSE,
     counts |-> EmptyMap, visible |-> <<>>, chans |-> EmptyMap,
     selChan |-> Nothing, selReq |-> Nothing,
     connected |-> FALSE, phase |-> "offline"]

\* A copy the reducer must not take over the one it has.
RequestIsStale(candidate, current) ==
    \/ current.at > candidate.at
    \/ /\ current.at = candidate.at
       /\ current.status # "pending"
       /\ candidate.status = "pending"

PendingRequests(reqs) == {r \in DOMAIN reqs : reqs[r].status = "pending"}

CountPendingByChannel(reqs) ==
    LET pending == PendingRequests(reqs)
    IN  [ch \in {reqs[r].chan : r \in pending} |->
            Cardinality({r \in pending : reqs[r].chan = ch})]

IncrementPendingCount(counts, ch) ==
    Put(counts, ch, IF ch \in DOMAIN counts THEN counts[ch] + 1 ELSE 1)

\* Saturating, and a channel that reaches zero leaves the map.
DecrementPendingCount(counts, ch) ==
    LET lowered == [k \in DOMAIN counts |->
                        IF k = ch /\ counts[k] > 0 THEN counts[k] - 1 ELSE counts[k]]
    IN  Keep(lowered, {k \in DOMAIN lowered : lowered[k] > 0})

NewestFirst(set) ==
    [i \in 1..Cardinality(set) |-> CHOOSE r \in set : Cardinality({q \in set : q > r}) = i - 1]

\* Pending requests first, the newest first among equals, and at most
\* HandledLimit handled ones.
VisibleRequests(reqs) ==
    LET handled == NewestFirst(DOMAIN reqs \ PendingRequests(reqs))
        shown == IF Len(handled) <= HandledLimit THEN handled
                 ELSE SubSeq(handled, 1, HandledLimit)
    IN  NewestFirst(PendingRequests(reqs)) \o shown

EnsureSelectedRequest(c) ==
    IF \E i \in DOMAIN c.visible : c.visible[i] = c.selReq THEN c
    ELSE [c EXCEPT !.selReq = IF c.visible = <<>> THEN Nothing ELSE Head(c.visible)]

UpdateVisibleRequests(c) ==
    LET inChannel == {r \in DOMAIN c.reqs :
                        c.selChan = Nothing \/ c.reqs[r].chan = c.selChan}
    IN  EnsureSelectedRequest(
            [c EXCEPT !.visible = VisibleRequests(Keep(c.reqs, inChannel))])

SelectChannel(c, ch) == UpdateVisibleRequests([c EXCEPT !.selChan = ch])

UpsertChannel(c, ch, subscribed) == [c EXCEPT !.chans = Put(@, ch, subscribed)]

EnsureSelectedChannel(c) ==
    IF c.selChan \in {ch \in DOMAIN c.chans : c.chans[ch]} THEN c
    ELSE [c EXCEPT !.selChan = Nothing]

\* The channel a request was last counted under, while it was pending.
PreviousPendingChannel(c, r) ==
    IF r \in DOMAIN c.known THEN c.known[r]
    ELSE IF \E i \in DOMAIN c.visible : c.visible[i] = r
            /\ r \in PendingRequests(c.reqs)
         THEN c.reqs[r].chan
         ELSE Nothing

MarkPending(c, r, copy) ==
    [c EXCEPT !.counts = IncrementPendingCount(@, copy.chan),
              !.known = Put(@, r, copy.chan)]

ClearPending(c, r, ch) ==
    [c EXCEPT !.counts = DecrementPendingCount(@, ch),
              !.known = Keep(@, DOMAIN @ \ {r})]

UpdatePendingChannel(c, r, ch, copy) ==
    [c EXCEPT !.counts = IF ch = copy.chan THEN @
                         ELSE IncrementPendingCount(DecrementPendingCount(@, ch), copy.chan),
              !.known = Put(@, r, copy.chan)]

UpdatePendingTracking(c, r, copy) ==
    LET ch == PreviousPendingChannel(c, r)
    IN  CASE ch = Nothing /\ copy.status = "pending" -> MarkPending(c, r, copy)
          [] ch # Nothing /\ copy.status # "pending" -> ClearPending(c, r, ch)
          [] ch # Nothing /\ copy.status = "pending" -> UpdatePendingChannel(c, r, ch, copy)
          [] OTHER -> c

TakesUpdate(c, r, copy) == r \in DOMAIN c.reqs => ~RequestIsStale(copy, c.reqs[r])

\* What apply_request_update returns: the request is pending and was not.
IsNewPending(c, r, copy) ==
    /\ TakesUpdate(c, r, copy)
    /\ copy.status = "pending"
    /\ PreviousPendingChannel(c, r) = Nothing

ApplyRequestUpdate(c, r, copy) ==
    IF ~TakesUpdate(c, r, copy) THEN c
    ELSE LET tracked == UpdatePendingTracking(c, r, copy)
         IN  UpdateVisibleRequests(
                [tracked EXCEPT !.revision = @ + 1,
                                !.revs = Put(@, r, tracked.revision + 1),
                                !.reqs = Put(@, r, copy)])

\* Mutant: the snapshot replaces whatever changed while it was being fetched.
MergeSnapshotWholesale(c, requests, startedAt) == requests

\* The requests a snapshot leaves the reducer with: its own, and the local
\* copies that changed while it was being fetched and are not older.
MergeSnapshot(c, requests, startedAt) ==
    LET kept == {r \in DOMAIN c.reqs :
                    /\ r \in DOMAIN c.revs /\ c.revs[r] > startedAt
                    /\ r \in DOMAIN requests => ~RequestIsStale(c.reqs[r], requests[r])}
    IN  [r \in kept \cup DOMAIN requests |-> IF r \in kept THEN c.reqs[r] ELSE requests[r]]

\* Only snapshots after the first produce notification candidates.
SnapshotCandidates(c, requests, startedAt) ==
    IF c.loaded
    THEN PendingRequests(MergeSnapshot(c, requests, startedAt)) \ DOMAIN c.known
    ELSE {}

ApplySnapshot(c, chans, requests, startedAt) ==
    LET merged == MergeSnapshot(c, requests, startedAt)
        pending == PendingRequests(merged)
    IN  UpdateVisibleRequests(
            [EnsureSelectedChannel([c EXCEPT !.chans = chans]) EXCEPT
                !.reqs = merged,
                !.revs = Keep(@, DOMAIN merged),
                !.counts = CountPendingByChannel(merged),
                !.known = [r \in pending |-> merged[r].chan],
                !.loaded = TRUE])

SetSyncPhase(c, phase) == [c EXCEPT !.connected = (phase = "current"), !.phase = phase]

MarkDisconnected(c) ==
    [c EXCEPT !.connected = FALSE, !.phase = IF @ = "revoked" THEN @ ELSE "offline"]

\* Everything loaded goes; the revision counter stays.
ClearLoadedData(c) ==
    [c EXCEPT !.reqs = EmptyMap, !.revs = EmptyMap, !.known = EmptyMap,
              !.loaded = FALSE, !.counts = EmptyMap, !.visible = <<>>,
              !.chans = EmptyMap, !.selChan = Nothing, !.selReq = Nothing]

SetSelectedServer(c, s) == ClearLoadedData([c EXCEPT !.server = s])

UpsertServer(c, s) ==
    [c EXCEPT !.servers = IF s \in ToSet(@) THEN @ ELSE Append(@, s)]

RemoveServer(c, s) ==
    LET rest == SelectSeq(c.servers, LAMBDA x : x # s)
        removed == [c EXCEPT !.servers = rest]
    IN  IF c.server # s THEN removed
        ELSE SetSelectedServer(removed, IF rest = <<>> THEN Nothing ELSE Head(rest))

\* total_pending_count: what the badge shows.
PendingTotal(c) == MapThenSumSet(LAMBDA ch : c.counts[ch], DOMAIN c.counts)
==============================================================================
