------------------------------- MODULE MCBuild -------------------------------
(***************************************************************************)
(* Instances of Build for TLC.                                             *)
(***************************************************************************)
EXTENDS Build, TLC

AnyName == Permutations(Names)

\* Every graph that depends_on can make: it refuses an edge from a node to itself.
AllVectors == {deps \in [Nodes -> SUBSET Nodes] : \A n \in Nodes : n \notin deps[n]}
=============================================================================
