------------------------------ MODULE Topology ------------------------------
(***************************************************************************)
(* The immutable graph that a plan compiles and a run walks:               *)
(* crates/traversal-core/src/graph.rs.  A node is its dense index; names   *)
(* are left out, since the core resolves them to indices before use.       *)
(*                                                                         *)
(* A topology is a record.  `dependencies' is the vector of the source,    *)
(* each entry taken as a set (a duplicate edge is dropped by depends_on).  *)
(* `position' is the inverse of the source's `order': the place of a node  *)
(* in the order compile() emitted.  `dependents' is derived here; the      *)
(* source fills each of its lists in ascending index, which is the order   *)
(* in which Listed(S, Index) enumerates a set.                             *)
(***************************************************************************)
EXTENDS Naturals, Sequences, FiniteSets

CONSTANT N  \* the number of nodes of every graph considered

ASSUME NAssumption == N \in Nat \ {0}

Nodes == 0 .. N - 1

Index == [n \in Nodes |-> n]

\* The nodes reached from `start' along `edges', start included: what a
\* worklist loop that marks a node once and then visits its edges leaves marked.
ClosedUnder(C, edges) == \A n \in C : edges[n] \subseteq C

Reach(start, edges) ==
    LET closed == {C \in SUBSET Nodes : start \subseteq C /\ ClosedUnder(C, edges)}
    IN  {m \in Nodes : \A C \in closed : m \in C}

\* S in ascending order of key.
Ascending(q, key) == \A i, j \in DOMAIN q : i < j => key[q[i]] < key[q[j]]

Listed(S, key) == CHOOSE q \in [1 .. Cardinality(S) -> S] : Ascending(q, key)

\* What a queue holds, and a queue that holds nothing twice.
Entries(q) == {q[i] : i \in DOMAIN q}

Distinct(q) == \A i, j \in DOMAIN q : q[i] = q[j] => i = j

-----------------------------------------------------------------------------
\* What Builder::compile guarantees of the topologies it returns.
IsTopology(g) ==
    /\ g \in [dependencies : [Nodes -> SUBSET Nodes], position : [Nodes -> Nodes]]
    /\ \A m, n \in Nodes : g.position[m] = g.position[n] => m = n
    /\ \A n \in Nodes : \A d \in g.dependencies[n] : g.position[d] < g.position[n]

Dependents(g, n) == {m \in Nodes : n \in g.dependencies[m]}

\* Mutant: direct dependencies only.
SelectDirect(g, targets) == targets \cup UNION {g.dependencies[n] : n \in targets}

\* Topology::select: the targets and everything they depend on.
Select(g, targets) == Reach(targets, g.dependencies)

-----------------------------------------------------------------------------
(***************************************************************************)
(* Builder::compile, Kahn's algorithm.  The loop pops its ready queue from *)
(* the front and appends every popped node to `order', so order followed   *)
(* by the queue is one sequence that only grows: Line[k] is that sequence  *)
(* after k iterations.  The counter of a dependent m reaches zero at the   *)
(* iteration that pops the last of its dependencies.                       *)
(***************************************************************************)
KahnOrder(deps) ==
    LET Roots == {n \in Nodes : deps[n] = {}}
        Line[k \in 0 .. N] ==
            IF k = 0 THEN Listed(Roots, Index)
            ELSE LET line   == Line[k - 1]
                     popped == {line[j] : j \in 1 .. k}
                 IN  IF Len(line) < k
                     THEN line
                     ELSE line \o Listed({m \in Nodes : /\ line[k] \in deps[m]
                                                        /\ deps[m] \subseteq popped}, Index)
    IN  Line[N]

Compiles(deps) == Len(KahnOrder(deps)) = N

Compile(deps) ==
    LET order == KahnOrder(deps)
    IN  [dependencies |-> deps,
         position     |-> [n \in Nodes |-> (CHOOSE i \in 1 .. N : order[i] = n) - 1]]
=============================================================================
