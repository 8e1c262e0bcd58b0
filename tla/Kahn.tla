-------------------------------- MODULE Kahn --------------------------------
(***************************************************************************)
(* Builder::compile of crates/traversal-core/src/graph.rs, step by step:   *)
(* Kahn's algorithm on a vector of dependencies that may hold cycles.  It  *)
(* returns a topology or refuses the graph, naming the nodes it could not  *)
(* place.  The vector is an argument and is chosen by Init.                *)
(***************************************************************************)
EXTENDS Topology, Integers

CONSTANT Vectors  \* the dependency vectors compile() may be called on

ASSUME VectorsAssumption == Vectors \subseteq [Nodes -> SUBSET Nodes]

VARIABLES dependencies, remaining, ready, order, verdict

vars == <<dependencies, remaining, ready, order, verdict>>

\* The list `dependents' of the source, filled in ascending index.
Above(n) == {m \in Nodes : n \in dependencies[m]}

\* Mutant: a dependency on a node added later is not counted.
BackwardCounts(deps) == [n \in Nodes |-> Cardinality({d \in deps[n] : d < n})]

Counts(deps) == [n \in Nodes |-> Cardinality(deps[n])]

Init ==
    \E deps \in Vectors :
        /\ dependencies = deps
        /\ remaining = Counts(deps)
        /\ ready = Listed({n \in Nodes : deps[n] = {}}, Index)
        /\ order = <<>>
        /\ verdict = "running"

\* Those whose counter the decrement brings to zero.
Released(n) == {m \in Above(n) : remaining[m] = 1}

\* One turn of the while loop, with the for loop over the dependents in it.
Pop ==
    /\ verdict = "running" /\ ready # <<>>
    /\ LET node == Head(ready)
       IN  /\ order' = Append(order, node)
           /\ remaining' = [m \in Nodes |-> IF m \in Above(node) THEN remaining[m] - 1
                                            ELSE remaining[m]]
           /\ ready' = Tail(ready) \o Listed(Released(node), Index)
    /\ UNCHANGED <<dependencies, verdict>>

\* Mutant: a graph is refused only when it has no node to begin with.
AnyPlaced == order # <<>>

AllPlaced == Len(order) = N

Return ==
    /\ verdict = "running" /\ ready = <<>>
    /\ verdict' = IF AllPlaced THEN "compiled" ELSE "refused"
    /\ UNCHANGED <<dependencies, remaining, ready, order>>

\* Mutant: only the nodes that miss every dependency are named.
NamedUntouched == {n \in Nodes : remaining[n] > 0 /\ remaining[n] = Cardinality(dependencies[n])}

\* The nodes named by the error.
Named == {n \in Nodes : remaining[n] > 0}

\* The topology that is returned.
Returned ==
    [dependencies |-> dependencies,
     position     |-> [n \in Nodes |-> (CHOOSE i \in 1 .. N : order[i] = n) - 1]]

Next == Pop \/ Return

Spec == Init /\ [][Next]_vars
-----------------------------------------------------------------------------
TypeOK ==
    /\ dependencies \in [Nodes -> SUBSET Nodes]
    /\ remaining \in [Nodes -> 0 .. N]
    /\ {ready, order} \subseteq Seq(Nodes)
    /\ verdict \in {"running", "compiled", "refused"}

\* The order followed by the queue holds each node whose dependencies have all
\* been placed, once, and no other; a counter is the number of dependencies not
\* placed yet.  A node released twice or early, or a dependent counted down
\* twice, breaks it.
LineExact ==
    /\ Distinct(order)
    /\ Distinct(ready)
    /\ Entries(order) \cap Entries(ready) = {}
    /\ Entries(order) \cup Entries(ready) = {n \in Nodes : remaining[n] = 0}
    /\ \A n \in Nodes : remaining[n] = Cardinality(dependencies[n] \ Entries(order))

\* What is returned is a topology: each node has a place of its own, after all
\* it depends on.  RunState assumes this of the topologies it is started on.
ReturnsTopology == verdict = "compiled" => IsTopology(Returned)

OnCycle(n) == n \in Reach(dependencies[n], dependencies)

\* A graph is refused exactly if some node depends on itself through others,
\* wherever the cycle is and whatever hangs below or above it.
RefusesExactlyCycles == verdict # "running" => (verdict = "refused" <=> \E n \in Nodes : OnCycle(n))

\* The error names, as it says, the nodes on cycles "including descendants":
\* those that are on a cycle or depend on one, and no others.
NamesBlockedNodes ==
    verdict = "refused" =>
        Named = {n \in Nodes : \E c \in Reach({n}, dependencies) : OnCycle(c)}
=============================================================================
