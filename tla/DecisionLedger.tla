--------------------------- MODULE DecisionLedger ---------------------------
(***************************************************************************)
(* What a nod server promises about decisions, without tables, devices,    *)
(* retries or clocks: a question is put to a set of people once; each of   *)
(* them answers at most once, and only while it is open; a shared question *)
(* closes with its first answer, a per-user one with the answer of its     *)
(* last recipient; an open question may be withdrawn; a question may be    *)
(* forgotten, answers and all, and is then never asked again.              *)
(***************************************************************************)
CONSTANTS
    Questions,      \* request ids
    People,         \* users
    Answers,        \* what someone may answer
    NoAnswer        \* not (yet) answered

VARIABLES
    phase,          \* "absent", "open", "answered", "withdrawn" or "gone"
    mode,           \* "shared" or "per_user", from the time it is asked
    asked,          \* the recipients
    answer          \* answer[q][p]

ledgerVars == <<phase, mode, asked, answer>>

Unanswered == [p \in People |-> NoAnswer]

LedgerInit ==
    /\ phase = [q \in Questions |-> "absent"]
    /\ mode = [q \in Questions |-> "shared"]
    /\ asked = [q \in Questions |-> {}]
    /\ answer = [q \in Questions |-> Unanswered]

Ask(q, m, R) ==
    /\ phase[q] = "absent"
    /\ phase' = [phase EXCEPT ![q] = "open"]
    /\ mode' = [mode EXCEPT ![q] = m]
    /\ asked' = [asked EXCEPT ![q] = R]
    /\ UNCHANGED answer

(* After p's answer to q, is anyone left whose answer is still wanted? *)
Settled(q, p) ==
    \/ mode[q] = "shared"
    \/ \A x \in asked[q] \ {p} : answer[q][x] # NoAnswer

Reply(q, p, a) ==
    /\ phase[q] = "open"
    /\ p \in asked[q]
    /\ answer[q][p] = NoAnswer
    /\ answer' = [answer EXCEPT ![q][p] = a]
    /\ phase' = IF Settled(q, p) THEN [phase EXCEPT ![q] = "answered"] ELSE phase
    /\ UNCHANGED <<mode, asked>>

Withdraw(Q) ==
    /\ \A q \in Q : phase[q] = "open"
    /\ phase' = [q \in Questions |-> IF q \in Q THEN "withdrawn" ELSE phase[q]]
    /\ UNCHANGED <<mode, asked, answer>>

Forget(Q) ==
    /\ \A q \in Q : phase[q] # "absent"
    /\ phase' = [q \in Questions |-> IF q \in Q THEN "gone" ELSE phase[q]]
    /\ mode' = [q \in Questions |-> IF q \in Q THEN "shared" ELSE mode[q]]
    /\ asked' = [q \in Questions |-> IF q \in Q THEN {} ELSE asked[q]]
    /\ answer' = [q \in Questions |-> IF q \in Q THEN Unanswered ELSE answer[q]]

LedgerNext ==
    \/ \E q \in Questions, m \in {"shared", "per_user"}, R \in SUBSET People : Ask(q, m, R)
    \/ \E q \in Questions, p \in People, a \in Answers : Reply(q, p, a)
    \/ \E Q \in SUBSET Questions : Withdraw(Q) \/ Forget(Q)

LedgerSpec == LedgerInit /\ [][LedgerNext]_ledgerVars
=============================================================================
