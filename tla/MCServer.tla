------------------------------ MODULE MCServer ------------------------------
(* The request tables together with every account operation: a user is      *)
(* created, subscribed, given a code, enrolled, revoked and deleted while a *)
(* request is created, decided and removed.                                 *)
EXTENDS Requests, TLC

CONSTANTS ann, d1, d2, yes

NoSeedDevices == [d \in Devices |-> None]

Body(resolution, explicit, recipients) ==
    [channel |-> DefaultChannel, dedupe |-> None, expires |-> None,
     resolution |-> resolution, explicit |-> explicit, recipients |-> recipients,
     callback |-> FALSE, value |-> FALSE, options |-> {}, origin |-> None, body |-> "text"]

ServerDrafts == {Body("shared", FALSE, {}), Body("per_user", TRUE, {ann})}

DismissOnly == [request : RequestIds, option : {Dismiss}, nonce : Nonces, verifies : {TRUE}]
=============================================================================
