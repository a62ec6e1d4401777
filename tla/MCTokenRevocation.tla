-------------------------- MODULE MCTokenRevocation --------------------------
(***************************************************************************)
(* Instances of TokenRevocation for TLC.                                   *)
(***************************************************************************)
EXTENDS TokenRevocation, TLC

CONSTANTS t1, t2, u1, u2, v1, v2

\* The process starts at second 10; one token expires after a second and one
\* after two.
MCExp == (t1 :> 11) @@ (t2 :> 12)
NoEntryValue == -1
=============================================================================
