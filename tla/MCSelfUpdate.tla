----------------------------- MODULE MCSelfUpdate -----------------------------
(* SelfUpdate for TLC.                                                       *)
EXTENDS SelfUpdate

CONSTANTS u1, u2

=============================================================================
