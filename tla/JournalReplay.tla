---------------------------- MODULE JournalReplay ----------------------------
(***************************************************************************)
(* Catching up on the lifecycle journal over HTTP: the pages of            *)
(* GET /api/v1/integrations/events (api/integration_events.rs, list) while *)
(* requests keep appending (db/lifecycle.rs).                              *)
(*                                                                         *)
(* A reader opens a catch-up without `through`, keeps the high water of    *)
(* the first page and passes it with each further one; the server answers  *)
(* a page with two reads, of the high water and of the rows, which other   *)
(* transactions may separate.  A response may be lost: the reader then     *)
(* asks again from its last cursor.                                        *)
(***************************************************************************)
EXTENDS Integers, Sequences, FiniteSetsExt

CONSTANTS
    Readers,        \* issuer tokens (or the admin) that read the journal
    Channels,
    Visible,        \* the channels a reader's scopes cover
    Limits,         \* page sizes that readers ask for
    MaxEvents       \* bound: events in the journal

ASSUME ReplayAssumption ==
    /\ Visible \in [Readers -> SUBSET Channels]
    /\ Limits \subseteq Nat \ {0}
    /\ MaxEvents \in Nat

VARIABLES
    journal,        \* lifecycle_events by seq: the channel saved with each event
    cursor,         \* a reader's next_cursor
    bound,          \* the high water of a reader's catch-up
    phase,          \* "rest", or where its call is
    limit,          \* the page size of its call
    seen            \* the sequence numbers a reader was given

vars == <<journal, cursor, bound, phase, limit, seen>>

High == Len(journal)

ReplayInit ==
    /\ journal = <<>>
    /\ cursor = [r \in Readers |-> 0]
    /\ bound = [r \in Readers |-> 0]
    /\ phase = [r \in Readers |-> "rest"]
    /\ limit = [r \in Readers |-> 0]
    /\ seen = [r \in Readers |-> {}]

(* append_lifecycle_on: writers are serialised, so sequence numbers appear   *)
(* in order; rows are never removed.                                         *)
AppendEvent(c) ==
    /\ High < MaxEvents
    /\ journal' = Append(journal, c)
    /\ UNCHANGED <<cursor, bound, phase, limit, seen>>

(* list without `through`: the bound is the high water read now. *)
OpenCatchUp(r, n) ==
    /\ phase[r] = "rest"
    /\ bound' = [bound EXCEPT ![r] = High]
    /\ limit' = [limit EXCEPT ![r] = n]
    /\ phase' = [phase EXCEPT ![r] = "scan"]
    /\ UNCHANGED <<journal, cursor, seen>>

(* What list demands of `after` and `through`. *)
Admissible(after, through) == after <= through /\ through <= High

(* list with the `through` of the first page. *)
NextPage(r, n) ==
    /\ phase[r] = "more"
    /\ Admissible(cursor[r], bound[r])
    /\ limit' = [limit EXCEPT ![r] = n]
    /\ phase' = [phase EXCEPT ![r] = "scan"]
    /\ UNCHANGED <<journal, cursor, bound, seen>>

(* The SELECT of scan: the first n rows after the cursor, up to the bound. *)
Scan(after, through, n) ==
    {i \in 1..High : after < i /\ i <= through /\ i <= after + n}

NextCursorAtBound(r, rows) == bound[r]

NextCursorVisible(r, rows) ==
    LET shown == {i \in rows : journal[i] \in Visible[r]}
    IN  IF shown = {} THEN cursor[r] ELSE Max(shown)

(* The last scanned row, shown or not; the bound when there is none. *)
NextCursor(r, rows) == IF rows = {} THEN bound[r] ELSE Max(rows)

(* The rows are read, those of other channels dropped, and the page answered *)
(* with its cursor.                                                          *)
AnswerPage(r) ==
    LET rows == Scan(cursor[r], bound[r], limit[r])
        next == NextCursor(r, rows)
    IN  /\ phase[r] = "scan"
        /\ seen' = [seen EXCEPT ![r] = seen[r] \cup {i \in rows : journal[i] \in Visible[r]}]
        /\ cursor' = [cursor EXCEPT ![r] = next]
        /\ phase' = [phase EXCEPT ![r] = IF next = bound[r] THEN "rest" ELSE "more"]
        /\ UNCHANGED <<journal, bound, limit>>

(* The response is lost, or the server goes down: the reader asks again with *)
(* the cursor and the bound it has, or starts a new catch-up.                *)
LosePage(r) ==
    /\ phase[r] = "scan"
    /\ phase' = [phase EXCEPT ![r] = IF bound[r] > cursor[r] THEN "more" ELSE "rest"]
    /\ UNCHANGED <<journal, cursor, bound, limit, seen>>

-----------------------------------------------------------------------------
AskAndAnswer(r) ==
    \/ \E n \in Limits : OpenCatchUp(r, n) \/ NextPage(r, n)
    \/ AnswerPage(r)

ReplayNext ==
    \/ \E c \in Channels : AppendEvent(c)
    \/ \E r \in Readers : AskAndAnswer(r) \/ LosePage(r)

ReplaySpec == ReplayInit /\ [][ReplayNext]_vars

(* A reader keeps asking and is answered now and then. *)
ReplayFairSpec ==
    /\ ReplaySpec
    /\ \A r \in Readers :
        /\ WF_vars(\E n \in Limits : OpenCatchUp(r, n) \/ NextPage(r, n))
        /\ SF_vars(AnswerPage(r))

-----------------------------------------------------------------------------
(* Properties. *)

(* A reader has been given exactly the events of its channels up to its      *)
(* cursor: appends between the two reads of a page or between pages, page    *)
(* limits filled with other channels' rows and repeated pages hide nothing.  *)
ReplayIsExact ==
    \A r \in Readers : seen[r] = {i \in 1..cursor[r] : i <= High /\ journal[i] \in Visible[r]}

(* "Bounded catch-up": the cursor never passes the retained high water, so   *)
(* the next page of a catch-up is never refused as an invalid cursor.        *)
CatchUpStaysAdmissible ==
    \A r \in Readers : phase[r] # "rest" => Admissible(cursor[r], bound[r])

(* A catch-up ends: the cursor reaches every sequence number the journal     *)
(* has, though whole pages of a catch-up may be empty for its reader.        *)
ReadersCatchUp ==
    \A r \in Readers, i \in 1..MaxEvents : i <= High ~> cursor[r] >= i
=============================================================================
