------------------------- MODULE JournalReplay_proofs -------------------------
(* Proofs about the replay of the journal, for every set of readers and      *)
(* channels, every page size and a journal of any length.                    *)
EXTENDS JournalReplay, TLAPS

USE ReplayAssumption

(* The types the argument needs. *)
Shapes ==
    /\ journal \in Seq(Channels)
    /\ cursor \in [Readers -> Nat]
    /\ bound \in [Readers -> Nat]
    /\ phase \in [Readers -> {"rest", "more", "scan"}]
    /\ limit \in [Readers -> Nat]
    /\ seen \in [Readers -> SUBSET Nat]
    /\ \A r \in Readers : phase[r] = "scan" => limit[r] \in Limits

(* Between calls too, a reader's cursor is within its last bound and that is *)
(* within the journal: what was high water once stays covered.               *)
CursorsWithin == \A r \in Readers : cursor[r] <= bound[r] /\ bound[r] <= High

ReplayInv == Shapes /\ CursorsWithin /\ ReplayIsExact

-----------------------------------------------------------------------------
(* A page is the interval of sequence numbers from its cursor to the next    *)
(* one, and the next one stays within the bound.                             *)
LEMMA PageIsInterval ==
    ASSUME ReplayInv, NEW r \in Readers, phase[r] = "scan"
    PROVE  LET rows == Scan(cursor[r], bound[r], limit[r])
               next == NextCursor(r, rows)
           IN  /\ next \in Nat
               /\ cursor[r] <= next /\ next <= bound[r]
               /\ rows = {i \in 1..High : cursor[r] < i /\ i <= next}
<1> DEFINE a == cursor[r]
           b == bound[r]
           n == limit[r]
           rows == Scan(a, b, n)
           last == IF b <= a + n THEN b ELSE a + n
<1>1. /\ a \in Nat /\ b \in Nat /\ n \in Nat \ {0}
      /\ a <= b /\ b <= High /\ High \in Nat
  BY DEF ReplayInv, Shapes, CursorsWithin, High
<1>2. rows = {i \in 1..High : a < i /\ i <= last}
  <2> HIDE DEF a, b, n
  <2> QED BY <1>1 DEF Scan
<1>3. CASE a = b
  <2>1. rows = {}
    BY <1>1, <1>2, <1>3
  <2> QED
    BY <1>1, <1>3, <2>1 DEF NextCursor
<1>4. CASE a < b
  <2>1. last \in rows /\ \A i \in rows : i <= last
    <3> HIDE DEF a, b, n
    <3> QED BY <1>1, <1>2, <1>4
  <2>2. Max(rows) = last
    <3>1. rows \subseteq Nat
      BY <1>2
    <3> HIDE DEF rows, last
    <3>2. Max(rows) \in rows /\ \A i \in rows : Max(rows) >= i
      BY <2>1, <3>1 DEF Max
    <3>3. \A m \in rows : (\A i \in rows : m >= i) => m = last
      BY <2>1, <3>1
    <3> QED BY <3>2, <3>3, Zenon
  <2>3. NextCursor(r, rows) = last
    BY <2>1, <2>2 DEF NextCursor
  <2>4. last \in Nat /\ a <= last /\ last <= b
    <3> HIDE DEF a, b, n
    <3> QED BY <1>1, <1>4
  <2> QED
    BY <1>2, <2>3, <2>4
<1> QED
  BY <1>1, <1>3, <1>4

-----------------------------------------------------------------------------
(* An append leaves every cursor within the journal and every event in place. *)
LEMMA AppendKeeps ==
    ASSUME ReplayInv, NEW c \in Channels, AppendEvent(c)
    PROVE  ReplayInv'
<1> USE DEF ReplayInv, Shapes, AppendEvent
<1>1. /\ journal' \in Seq(Channels)
      /\ Len(journal') = Len(journal) + 1
      /\ \A i \in 1..Len(journal) : journal'[i] = journal[i]
  OBVIOUS
<1>2. Len(journal) \in Nat
  OBVIOUS
<1>3. CursorsWithin'
  BY <1>1, <1>2 DEF CursorsWithin, High
<1>4. ReplayIsExact'
  BY <1>1, <1>2 DEF ReplayIsExact, CursorsWithin, High
<1> QED
  BY <1>1, <1>3, <1>4

(* A page, answered with the bound of its catch-up. *)
LEMMA AnswerKeeps ==
    ASSUME ReplayInv, NEW r \in Readers, AnswerPage(r)
    PROVE  ReplayInv'
<1> DEFINE rows == Scan(cursor[r], bound[r], limit[r])
           next == NextCursor(r, rows)
<1>1. phase[r] = "scan"
  BY DEF AnswerPage
<1>2. /\ next \in Nat
      /\ cursor[r] <= next /\ next <= bound[r]
      /\ rows = {i \in 1..High : cursor[r] < i /\ i <= next}
  BY <1>1, PageIsInterval
<1>3. /\ seen' = [seen EXCEPT ![r] = seen[r] \cup {i \in rows : journal[i] \in Visible[r]}]
      /\ cursor' = [cursor EXCEPT ![r] = next]
      /\ phase' = [phase EXCEPT ![r] = IF next = bound[r] THEN "rest" ELSE "more"]
      /\ UNCHANGED <<journal, bound, limit>>
  BY DEF AnswerPage
<1> HIDE DEF rows, next
<1> USE DEF ReplayInv
<1>4. High \in Nat /\ High' = High
  BY <1>3 DEF High, Shapes
<1>5. Shapes'
  BY <1>2, <1>3, <1>4 DEF Shapes
<1>6. CursorsWithin'
  BY <1>2, <1>3, <1>4 DEF Shapes, CursorsWithin
<1>7. ReplayIsExact'
  <2> SUFFICES ASSUME NEW q \in Readers
               PROVE  seen'[q] = {i \in 1..cursor'[q] : i <= High /\ journal[i] \in Visible[q]}
    BY <1>3, <1>4 DEF ReplayIsExact
  <2>1. CASE q # r
    BY <1>3, <2>1 DEF ReplayIsExact, Shapes
  <2>2. CASE q = r
    <3>1. seen'[q] = seen[q] \cup {i \in rows : journal[i] \in Visible[q]} /\ cursor'[q] = next
      BY <1>3, <2>2 DEF Shapes
    <3>2. seen[q] = {i \in 1..cursor[q] : i <= High /\ journal[i] \in Visible[q]}
      BY DEF ReplayIsExact
    <3>3. cursor[q] \in Nat
      BY DEF Shapes
    <3> QED
      BY <1>2, <1>4, <2>2, <3>1, <3>2, <3>3
  <2> QED
    BY <2>1, <2>2
<1> QED
  BY <1>5, <1>6, <1>7

(* Every step keeps the invariant. *)
LEMMA ReplayStepKeeps ==
    ReplayInv /\ [ReplayNext]_vars => ReplayInv'
<1> SUFFICES ASSUME ReplayInv, [ReplayNext]_vars
             PROVE  ReplayInv'
  OBVIOUS
<1>1. ASSUME NEW c \in Channels, AppendEvent(c)
      PROVE  ReplayInv'
  BY <1>1, AppendKeeps
<1>2. ASSUME NEW r \in Readers, AnswerPage(r)
      PROVE  ReplayInv'
  BY <1>2, AnswerKeeps
<1>3. ASSUME NEW r \in Readers, NEW n \in Limits, OpenCatchUp(r, n)
      PROVE  ReplayInv'
  BY <1>3 DEF ReplayInv, Shapes, CursorsWithin, ReplayIsExact, OpenCatchUp, High
<1>4. ASSUME NEW r \in Readers, NEW n \in Limits, NextPage(r, n)
      PROVE  ReplayInv'
  BY <1>4 DEF ReplayInv, Shapes, CursorsWithin, ReplayIsExact, NextPage, High
<1>5. ASSUME NEW r \in Readers, LosePage(r)
      PROVE  ReplayInv'
  BY <1>5 DEF ReplayInv, Shapes, CursorsWithin, ReplayIsExact, LosePage, High
<1>6. CASE UNCHANGED vars
  BY <1>6 DEF ReplayInv, Shapes, CursorsWithin, ReplayIsExact, High, vars
<1> QED
  BY <1>1, <1>2, <1>3, <1>4, <1>5, <1>6 DEF ReplayNext, AskAndAnswer

(* The initial state satisfies it. *)
LEMMA ReplayStarts == ReplayInit => ReplayInv
BY DEF ReplayInit, ReplayInv, Shapes, CursorsWithin, ReplayIsExact, High

(* What a reader of GET /api/v1/integrations/events was given is exactly the *)
(* part of the journal up to its cursor that its scopes cover, however many  *)
(* appends and lost responses fall between or inside its pages (list, scan). *)
THEOREM ReplayHidesNothing == ReplaySpec => []ReplayIsExact
<1>1. ReplayInv => ReplayIsExact
  BY DEF ReplayInv
<1> QED
  BY <1>1, ReplayStarts, ReplayStepKeeps, PTL DEF ReplaySpec

(* The next page of a bounded catch-up always satisfies the cursor check of  *)
(* list: through >= after and through <= the current high water.             *)
THEOREM CatchUpNeverRefused == ReplaySpec => []CatchUpStaysAdmissible
<1>1. ReplayInv => CatchUpStaysAdmissible
  BY DEF ReplayInv, CursorsWithin, CatchUpStaysAdmissible, Admissible
<1> QED
  BY <1>1, ReplayStarts, ReplayStepKeeps, PTL DEF ReplaySpec
=============================================================================
