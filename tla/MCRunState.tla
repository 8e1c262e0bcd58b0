----------------------------- MODULE MCRunState -----------------------------
(***************************************************************************)
(* Instances of RunState for TLC: every graph of N nodes whose edges go    *)
(* from a node to one added before it, compiled by Kahn's algorithm.  Any  *)
(* acyclic graph has such a numbering; MCCoordinator checks the others.    *)
(***************************************************************************)
EXTENDS RunState

BackwardGraphs ==
    {Compile(deps) : deps \in {d \in [Nodes -> SUBSET Nodes] :
                                  \A n \in Nodes : d[n] \subseteq 0 .. n - 1}}
=============================================================================
