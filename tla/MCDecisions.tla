----------------------------- MODULE MCDecisions -----------------------------
(* Decisions: two users with a device each race over a shared request that  *)
(* expires and wants a callback and a per-user request that expires and has *)
(* an origin from the start, against cancellation, expiry, revocation, user *)
(* deletion, late origin bindings and restarts.                             *)
EXTENDS Requests, TLC

CONSTANTS ann, d1, d2, yes, Deadline, crm

Devices2 == d1 :> Owner @@ d2 :> ann

Body(resolution, expires, callback, options, recipients) ==
    [channel |-> DefaultChannel, dedupe |-> None, expires |-> expires,
     resolution |-> resolution, explicit |-> recipients # {}, recipients |-> recipients, callback |-> callback,
     value |-> FALSE, options |-> options, origin |-> None, body |-> "text"]

DecisionDrafts == {Body("shared", Deadline, TRUE, {yes}, {}),
                   [Body("per_user", Deadline, TRUE, {yes}, {Owner, ann}) EXCEPT !.origin = crm]}

LedgerDrafts == {[d EXCEPT !.origin = None] : d \in DecisionDrafts}

(* Every device tries each request with each nonce; one submission fails to verify. *)
SomeSubmissions ==
    [request : RequestIds, option : {yes}, nonce : Nonces, verifies : {TRUE}]
        \cup [request : RequestIds, option : {yes}, nonce : {CHOOSE n \in Nonces : TRUE},
              verifies : {FALSE}]

ValidSubmissions == [request : RequestIds, option : {yes}, nonce : Nonces, verifies : {TRUE}]

Symmetry == Permutations(RequestIds)
=============================================================================
