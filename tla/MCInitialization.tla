--------------------------- MODULE MCInitialization ---------------------------
(* Initialization for TLC.                                                   *)
EXTENDS Initialization

CONSTANT g1

TwoProviders == <<"codex", "claude">>
=============================================================================
