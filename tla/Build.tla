-------------------------------- MODULE Build --------------------------------
(***************************************************************************)
(* A program with several builders compiles one of them: Builder with the  *)
(* compile() of Kahn (crates/traversal-core/src/graph.rs).  The call does  *)
(* not change the builder; it begins with the lists that depends_on made.  *)
(***************************************************************************)
EXTENDS Builder, Kahn

VARIABLE compiling  \* the builder compile() is called on, 0 before

buildVars == <<builderVars, vars, compiling>>

\* Before the call the variables of Kahn are those of a graph without edges.
BuildInit ==
    /\ BuilderInit
    /\ compiling = 0
    /\ dependencies = [n \in Nodes |-> {}]
    /\ remaining = Counts(dependencies)
    /\ ready = <<>>
    /\ order = <<>>
    /\ verdict = "running"

\* A builder's lists, as the vector that Kahn works on.
Vector(b) == [n \in Nodes |-> Entries(builders[b].dependencies[n + 1])]

CompileBuilder(b) ==
    /\ compiling = 0 /\ Len(builders[b].names) = N
    /\ compiling' = b
    /\ dependencies' = Vector(b)
    /\ remaining' = Counts(Vector(b))
    /\ ready' = Listed({n \in Nodes : Vector(b)[n] = {}}, Index)
    /\ UNCHANGED <<order, verdict, builderVars>>

BuildNext ==
    \/ compiling = 0 /\ BuilderNext /\ UNCHANGED <<vars, compiling>>
    \/ \E b \in Made : CompileBuilder(b)
    \/ compiling # 0 /\ Next /\ UNCHANGED <<builderVars, compiling>>

BuildSpec == BuildInit /\ [][BuildNext]_buildVars
-----------------------------------------------------------------------------
\* What was asked of the builder that is compiled.
Asked(n, d) ==
    \E pair \in granted :
        /\ pair[1].from = compiling /\ pair[1].name = NameAt(compiling, n)
        /\ pair[2].from = compiling /\ pair[2].name = NameAt(compiling, d)

\* The graph that is compiled or refused is the one the program asked for, by
\* name: every edge was requested with two handles of that very builder, and
\* every request that was granted is an edge.  A handle of another builder is
\* worth nothing, even where its index exists.
EdgesMeant ==
    /\ \A pair \in granted : pair[1].from = pair[2].from
    /\ compiling # 0 => \A n, d \in Nodes : d \in dependencies[n] <=> Asked(n, d)
=============================================================================
