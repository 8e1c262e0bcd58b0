------------------------------- MODULE MCReuse -------------------------------
(***************************************************************************)
(* Instances of Reuse for TLC: plans with two nodes, of which the second   *)
(* takes the first as its argument.                                        *)
(***************************************************************************)
EXTENDS Reuse

Plan(graph, version, targets, above, first, second) ==
    [graph |-> graph, version |-> version, targets |-> targets,
     dependencies |-> [n \in Nodes |-> IF n = 1 THEN above ELSE {}],
     cache |-> [n \in Nodes |-> IF n = 0 THEN first ELSE second]]

\* A plan, and what may become of it: the first node has another key, or none,
\* the graph another version or another name, or the edge is gone.
ChangedPlans ==
    {Plan("g", "1", {1}, {0}, "a", "a"), Plan("g", "1", {1}, {0}, "b", "a"),
     Plan("g", "1", {1}, {0}, NoKey, "a"), Plan("g", "2", {1}, {0}, "a", "a"),
     Plan("h", "1", {1}, {0}, "a", "a"), Plan("g", "1", {1}, {}, "a", "a")}

\* Nothing is repeat-safe, and either node may be asked for.
EffectPlans == {Plan("g", "1", {0}, {}, NoKey, NoKey), Plan("g", "1", {1}, {}, NoKey, NoKey)}
=============================================================================
