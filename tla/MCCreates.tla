------------------------------ MODULE MCCreates ------------------------------
(* Creation: an issuer and the admin retry creates that share a dedupe key, *)
(* with and without an idempotency key, across cancellation, expiry,        *)
(* retention and channel deletion.                                          *)
EXTENDS Requests, TLC

CONSTANTS k, issuer, job, o1

NoDevices == <<>>

Body(dedupe, expires, value, body, org) ==
    [channel |-> DefaultChannel, dedupe |-> dedupe, expires |-> expires,
     resolution |-> "shared", explicit |-> FALSE, recipients |-> {}, callback |-> FALSE,
     value |-> value, options |-> {}, origin |-> org, body |-> body]

CreateDrafts == {Body(job, 1, FALSE, "a", None), Body(job, None, FALSE, "b", o1)}

ValueDrafts == {[Body(job, 1, TRUE, "a", None) EXCEPT !.options = Options],
                [Body(None, None, FALSE, "b", None) EXCEPT !.explicit = TRUE,
                                                           !.recipients = {Owner}]}

NoSubmissions == {}

Symmetry == Permutations(RequestIds)
=============================================================================
