--------------------------- MODULE MCCoordinator ---------------------------
(***************************************************************************)
(* Instances of Coordinator for TLC.                                       *)
(***************************************************************************)
EXTENDS Coordinator

\* Every graph that compiles: an ordering dependency may be on a node added later.
CompiledGraphs == {Compile(deps) : deps \in {d \in [Nodes -> SUBSET Nodes] : Compiles(d)}}
=============================================================================
