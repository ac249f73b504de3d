-------------------------- MODULE MCConfigRevisions --------------------------
(* ConfigRevisions and RevisionQueries for TLC.                            *)
EXTENDS RevisionQueries, TLC

CONSTANTS p1, p2, n1, n2, r1, r2, r3

TwoProcs   == {p1, p2}
TwoNames   == {n1, n2}
ThreeIds   == {r1, r2, r3}

TwoCategories == {"repository", "plugin"}

\* Two of the three columns: the first stands for those before the last.
TwoColumns == <<"trigger_category", "supersedes_revision_id">>

Symmetric == Permutations(TwoProcs) \cup Permutations(ThreeIds)
=============================================================================
