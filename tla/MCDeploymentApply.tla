-------------------------- MODULE MCDeploymentApply --------------------------
(* Instances of DeploymentApply for TLC.                                   *)
EXTENDS DeploymentApply, TLC

CONSTANTS p1, p2

OneRunner  == {p1}
TwoRunners == {p1, p2}
Symmetric  == Permutations(Runners)

\* The plan of an ordinary input document: buildPlanInput puts repositories
\* first, then the project, then the providers.
RepoProjectProvider ==
  <<RepositoryKind, ProjectKind, ProviderKind>>
RepoProject == <<RepositoryKind, ProjectKind>>

AllSteps == Steps
NoSteps  == {}
=============================================================================
