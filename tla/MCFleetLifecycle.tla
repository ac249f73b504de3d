--------------------------- MODULE MCFleetLifecycle ---------------------------
(* FleetLifecycle for TLC.                                                 *)
EXTENDS FleetLifecycle, TLC

CONSTANTS p1, p2, f1, f2, f3, f4, v1, v2, garbage

TwoProcesses == {p1, p2}
OneFaulty    == {p2}
FourInodes   == {f1, f2, f3, f4}
TwoProfiles  == {v1, v2}
AllContents  == {v1, v2, garbage}

\* Names of inodes and profiles do not matter.
Symmetric ==
  Permutations(FourInodes) \cup Permutations(TwoProfiles)
=============================================================================
