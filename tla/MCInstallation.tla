---------------------------- MODULE MCInstallation ----------------------------
(* Installation for TLC.                                                     *)
EXTENDS Installation

CONSTANTS p1, p2

\* The second bundle brings the runtime as well.
Files == [b \in {"v1", "v2"} |->
            IF b = "v1" THEN {"plugins"} ELSE {"plugins", "configs"}]
=============================================================================
