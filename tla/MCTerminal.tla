----------------------------- MODULE MCTerminal -----------------------------
(* Model checking TerminalApp: two servers, the first with two channels. *)
EXTENDS TerminalApp, TLC

CONSTANTS s1, s2, c1, c2, c3

MCHomeOf == (c1 :> s1) @@ (c2 :> s1) @@ (c3 :> s2)
MCChannelOf == (1 :> c1) @@ (2 :> c2) @@ (3 :> c3)
=============================================================================
