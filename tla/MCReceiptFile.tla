---------------------------- MODULE MCReceiptFile ----------------------------
(* ReceiptFile for TLC.                                                    *)
EXTENDS ReceiptFile, TLC

CONSTANTS p1, p2, f1, f2, f3, f4, v1, v2

TwoProcesses == {p1, p2}
OneFaulty    == {p2}
FourInodes   == {f1, f2, f3, f4}
TwoContents  == {v1, v2}

\* Names of inodes and contents do not matter.
Symmetric ==
  Permutations(FourInodes) \cup Permutations(TwoContents)
=============================================================================
