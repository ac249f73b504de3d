------------------------------ MODULE MCLaunch ------------------------------
(* Launch for TLC.                                                           *)
EXTENDS Launch, TLC

CONSTANTS p1, p2, whole, part

TwoProcs     == {p1, p2}
BothKinds    == {whole, part}
PartialOnes  == {part}

Symmetric == Permutations(TwoProcs)
=============================================================================
