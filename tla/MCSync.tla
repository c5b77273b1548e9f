------------------------------- MODULE MCSync -------------------------------
(* Model checking ClientSync: two servers, one of which holds requests. *)
EXTENDS ClientSync

CONSTANTS s1, s2, c1

MCProfiles == <<s1, s2>>
MCHomeOf == c1 :> s1
MCChannelOf == (1 :> c1) @@ (2 :> c1)
=============================================================================
