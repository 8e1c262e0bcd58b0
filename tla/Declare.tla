------------------------------- MODULE Declare -------------------------------
(***************************************************************************)
(* Declaring graphs and compiling plans: Graph, Node, _map_value and       *)
(* Plan.__init__ of python/traversal/graph.py, with compile_topology of    *)
(* crates/traversal-python/src/lib.rs.  The program mixes the nodes of two *)
(* graphs, whose names may be the same, and goes on changing the lists it  *)
(* has passed as arguments, as a callable may change the lists it is       *)
(* called with.  So lists are objects with an identity; an argument is one *)
(* list, and what nests deeper is copied in the same way.                  *)
(***************************************************************************)
EXTENDS Naturals, Sequences, FiniteSets

CONSTANTS
    Graphs,    \* the graphs
    Names,     \* the names of nodes
    MaxLists,  \* bound on the lists allocated
    MaxPlans,  \* bound on the plans compiled
    MaxRefs    \* bound on the nodes in one list, or named in one call

ASSUME DeclareAssumption == {MaxLists, MaxPlans, MaxRefs} \subseteq Nat

VARIABLES
    tasks,  \* the tasks of each graph, in the order of their declaration
    lists,  \* the lists that have been allocated, as the nodes they refer to
    held,   \* the lists that the program, or a callable, can still change
    plans   \* the plans compiled

declareVars == <<tasks, lists, held, plans>>

\* Node is a frozen dataclass: a name, and the identity of its graph.
Refs == [name : Names, owner : Graphs]

Declared(g) == {tasks[g][i].name : i \in DOMAIN tasks[g]}

\* The nodes add has returned so far.
Returned == {ref \in Refs : ref.name \in Declared(ref.owner)}

RefLists == {S \in SUBSET Returned : Cardinality(S) <= MaxRefs}

DeclareInit ==
    /\ tasks = [g \in Graphs |-> <<>>]
    /\ lists = <<{}>>
    /\ held = {1}
    /\ plans = <<>>

Room == Len(lists) < MaxLists

\* _map_value builds a new list, with the nodes of this one or what they stand for.
Copied(list) == Append(lists, lists[list])

-----------------------------------------------------------------------------
\* The program makes another list, or changes the one it has, or a callable the
\* one it was given.
Change ==
    /\ \E list \in held, content \in RefLists : lists' = [lists EXCEPT ![list] = content]
    /\ UNCHANGED <<tasks, held, plans>>

\* Mutant: a node of that name is taken for the node.
ChecksName(g, ref) == ref.name \in Declared(g)

Checks(g, ref) == ref.owner = g /\ ref.name \in Declared(g)

\* Graph.add: _map_value checks every node of the list and builds a new one.
Add(g, name, list, after) ==
    /\ Room /\ name \notin Declared(g)
    /\ \A ref \in lists[list] \cup after : Checks(g, ref)
    /\ lists' = Copied(list)
    /\ tasks' = [tasks EXCEPT ![g] = Append(@, [name |-> name, args |-> Len(lists) + 1, after |-> after])]
    /\ UNCHANGED <<held, plans>>

\* Graph.depends_on: the task is replaced in its place.
DependsOn(g, i, refs) ==
    /\ \A ref \in refs : Checks(g, ref)
    /\ tasks' = [tasks EXCEPT ![g][i].after = @ \cup refs]
    /\ UNCHANGED <<lists, held, plans>>

-----------------------------------------------------------------------------
\* Plan.__init__: _index, and the dependencies collected from args and after.

Indices(g, names) == {i \in DOMAIN tasks[g] : tasks[g][i].name \in names}

Dependencies(g) ==
    [i \in DOMAIN tasks[g] |->
        Indices(g, {ref.name : ref \in lists[tasks[g][i].args] \cup tasks[g][i].after})]

\* compile_topology gives the lists to a Builder, which refuses a node that
\* depends on itself, and a cycle: every set of nodes must have one that depends
\* on none of the set.
Acyclic(dependencies) ==
    \A C \in SUBSET DOMAIN dependencies : C # {} => \E i \in C : dependencies[i] \cap C = {}

\* Topology.select: the targets and what they depend on.
Above(dependencies, targets) ==
    {i \in DOMAIN dependencies :
        \A C \in SUBSET DOMAIN dependencies :
            targets \subseteq C /\ (\A j \in C : dependencies[j] \subseteq C) => i \in C}

\* Graph.compile and Plan.__init__.  The argument lists are rebuilt; a target
\* is a node of this graph or a name, which the topology looks up.
Compile(g, targets) ==
    LET count == Len(tasks[g])
        dependencies == Dependencies(g)
    IN  /\ Len(plans) < MaxPlans /\ Len(lists) + count <= MaxLists
        /\ targets # {} /\ targets \subseteq Declared(g)
        /\ Acyclic(dependencies)
        /\ lists' = lists \o [i \in 1 .. count |-> lists[tasks[g][i].args]]
        /\ plans' = Append(plans,
               [graph |-> g,
                names |-> [i \in 1 .. count |-> tasks[g][i].name],
                args |-> [i \in 1 .. count |-> Len(lists) + i],
                after |-> [i \in 1 .. count |-> tasks[g][i].after],
                dependencies |-> dependencies,
                selected |-> Above(dependencies, Indices(g, targets))])
        /\ UNCHANGED <<tasks, held>>

\* Mutant: the callable is handed the list of the plan.
InvokeSharing(p, i) ==
    /\ held' = held \cup {plans[p].args[i]}
    /\ UNCHANGED <<tasks, lists, plans>>

\* A run calls a selected node with lists of its own.
Invoke(p, i) ==
    /\ i \in plans[p].selected /\ Room
    /\ lists' = Copied(plans[p].args[i])
    /\ held' = held \cup {Len(lists) + 1}
    /\ UNCHANGED <<tasks, plans>>

DeclareNext ==
    \/ Change
    \/ \E g \in Graphs :
           \/ \E name \in Names, list \in held, after \in RefLists : Add(g, name, list, after)
           \/ \E i \in DOMAIN tasks[g], refs \in RefLists : DependsOn(g, i, refs)
           \/ \E targets \in SUBSET Names : Compile(g, targets)
    \/ \E p \in DOMAIN plans : \E i \in DOMAIN plans[p].names : Invoke(p, i)

DeclareSpec == DeclareInit /\ [][DeclareNext]_declareVars
-----------------------------------------------------------------------------
\* What node i of a plan takes results from or is ordered after.
Bound(p, i) == lists[plans[p].args[i]] \cup plans[p].after[i]

\* Before a node of a plan is called, whatever it is bound to has run: each of
\* its nodes is a node of the plan's own graph, is a dependency of the topology
\* and is selected with it.  So the lookup of an output at admission succeeds,
\* and never finds the output of a namesake of another graph.
BindingsScheduled ==
    \A p \in DOMAIN plans : \A i \in plans[p].selected : \A ref \in Bound(p, i) :
        /\ ref.owner = plans[p].graph
        /\ \E d \in plans[p].dependencies[i] \cap plans[p].selected : plans[p].names[d] = ref.name

\* What a plan binds never changes again: not by declarations that follow, nor
\* by the lists that the program has kept or that callables have been given.
\* Nor does what a graph has been told: edges are only ever added, and those of
\* a list are the ones it had when it was checked.
BindingsFrozen ==
    [][/\ \A p \in DOMAIN plans :
              /\ plans'[p] = plans[p]
              /\ \A i \in DOMAIN plans[p].names : lists'[plans[p].args[i]] = lists[plans[p].args[i]]
       /\ \A g \in Graphs : \A i \in DOMAIN tasks[g] :
              /\ tasks'[g][i].name = tasks[g][i].name
              /\ lists'[tasks'[g][i].args] = lists[tasks[g][i].args]
              /\ tasks[g][i].after \subseteq tasks'[g][i].after]_declareVars
=============================================================================
