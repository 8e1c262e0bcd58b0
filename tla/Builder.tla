------------------------------- MODULE Builder -------------------------------
(***************************************************************************)
(* The mutable builders of crates/traversal-core/src/graph.rs.  A program  *)
(* has several of them and mixes up their handles, which are plain copies  *)
(* of an owner and an index.  Names are left out but for their equality.   *)
(***************************************************************************)
EXTENDS Naturals, Sequences

CONSTANTS
    Names,       \* the names that are asked for, none of them empty
    MaxBuilders  \* bound on the builders made

ASSUME BuilderAssumption == MaxBuilders \in Nat \ {0}

VARIABLES
    nextGraph,  \* NEXT_GRAPH
    builders,   \* the builders in the order they were made
    handles,    \* the NodeIds handed out, each with the builder it came from
    granted     \* the pairs of handles depends_on was called with and took

builderVars == <<nextGraph, builders, handles, granted>>

Made == 1 .. Len(builders)

BuilderInit ==
    /\ nextGraph = 1
    /\ builders = <<>>
    /\ handles = {}
    /\ granted = {}

-----------------------------------------------------------------------------
New ==
    /\ Len(builders) < MaxBuilders
    /\ builders' = Append(builders, [owner |-> nextGraph, names |-> <<>>, dependencies |-> <<>>, edges |-> {}])
    /\ nextGraph' = nextGraph + 1
    /\ UNCHANGED <<handles, granted>>

\* The index of a node is the number of names before it.
Add(b, name) ==
    LET builder == builders[b]
    IN  /\ \A i \in DOMAIN builder.names : builder.names[i] # name
        /\ builders' = [builders EXCEPT ![b].names = Append(@, name),
                                        ![b].dependencies = Append(@, <<>>)]
        /\ handles' = handles \cup {[id |-> [owner |-> builder.owner, index |-> Len(builder.names)],
                                     from |-> b, name |-> name]}
        /\ UNCHANGED <<nextGraph, granted>>

\* The node that an index stands for in a builder.
NameAt(b, index) == builders[b].names[index + 1]

\* Mutant: any index that exists will do.
ChecksIndex(b, id) == id.index < Len(builders[b].names)

Checks(b, id) == id.owner = builders[b].owner /\ id.index < Len(builders[b].names)

\* An edge goes into the list of its node unless it is there.
Record(builder, node, dependency) ==
    IF <<node, dependency>> \in builder.edges THEN builder
    ELSE [builder EXCEPT !.edges = @ \cup {<<node, dependency>>},
                         !.dependencies[node + 1] = Append(@, dependency)]

DependsOn(b, node, dependency) ==
    /\ Checks(b, node.id) /\ Checks(b, dependency.id)
    /\ node.id.index # dependency.id.index
    /\ builders' = [builders EXCEPT ![b] = Record(@, node.id.index, dependency.id.index)]
    /\ granted' = granted \cup {<<node, dependency>>}
    /\ UNCHANGED <<nextGraph, handles>>

BuilderNext ==
    \/ New
    \/ \E b \in Made : \E name \in Names : Add(b, name)
    \/ \E b \in Made : \E node, dependency \in handles : DependsOn(b, node, dependency)

=============================================================================
