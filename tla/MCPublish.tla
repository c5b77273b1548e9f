------------------------------ MODULE MCPublish ------------------------------
(* Two events and the publishers of two processes, the second started while *)
(* the first may still hold a claim.                                        *)
EXTENDS LifecyclePublish
=============================================================================
