------------------------------- MODULE MCReplay -------------------------------
(* An issuer that may read one of two channels.  Readers change nothing that *)
(* another reader or a writer sees, so one is enough.                        *)
EXTENDS JournalReplay

CONSTANTS issuer, ch1, ch2

MCVisible == [r \in {issuer} |-> {ch2}]
=============================================================================
