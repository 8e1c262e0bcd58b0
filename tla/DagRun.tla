------------------------------- MODULE DagRun -------------------------------
(***************************************************************************)
(* What a run of a graph promises, without the bookkeeping that RunState   *)
(* keeps to deliver it: no queue, no counters, no distinction of pending   *)
(* and ready.  A node may start when all it depends on has a value; a step *)
(* that starts nodes starts as many as the capacity and the eligible nodes *)
(* allow; a node that is lost takes every descendant that still waits with *)
(* it.  RunState implements this specification (RunState!ImplementsDagRun).*)
(***************************************************************************)
EXTENDS Topology

CONSTANTS Topologies, Capacities

VARIABLES graph, capacity, status

dagVars == <<graph, capacity, status>>

WithStatus(s) == {n \in Nodes : status[n] = s}

HasValue(n) == status[n] \in {"succeeded", "reused"}

Eligible == {n \in WithStatus("waiting") : \A d \in graph.dependencies[n] : HasValue(d)}

Descendants(n) == Reach(Dependents(graph, n), [m \in Nodes |-> Dependents(graph, m)])

Init ==
    \E g \in Topologies, targets \in (SUBSET Nodes) \ {{}}, c \in Capacities :
        /\ graph = g
        /\ capacity = c
        /\ LET selected == Select(g, targets)
           IN  status = [n \in Nodes |-> IF n \in selected THEN "waiting" ELSE "unselected"]

\* Full: no eligible node is left behind while there is room for it.
Start(batch) ==
    LET started == Cardinality(WithStatus("running")) + Cardinality(batch)
    IN  /\ batch # {}
        /\ started <= capacity
        /\ started = capacity \/ batch = Eligible
        /\ status' = [n \in Nodes |-> IF n \in batch THEN "running" ELSE status[n]]
        /\ UNCHANGED <<graph, capacity>>

Succeed(n, outcome) ==
    /\ status[n] = "running"
    /\ status' = [status EXCEPT ![n] = outcome]
    /\ UNCHANGED <<graph, capacity>>

Lose(n, outcome) ==
    LET lost == Descendants(n) \cap WithStatus("waiting")
    IN  /\ status[n] = "running"
        /\ status' = [m \in Nodes |-> IF m = n THEN outcome
                                      ELSE IF m \in lost THEN "blocked" ELSE status[m]]
        /\ UNCHANGED <<graph, capacity>>

Abandon ==
    /\ status' = [n \in Nodes |-> IF status[n] = "waiting" THEN "cancelled" ELSE status[n]]
    /\ UNCHANGED <<graph, capacity>>

Next ==
    \/ \E batch \in SUBSET Eligible : Start(batch)
    \/ \E n \in Nodes, outcome \in {"succeeded", "reused"} : Succeed(n, outcome)
    \/ \E n \in Nodes, outcome \in {"failed", "cancelled"} : Lose(n, outcome)
    \/ Abandon

Spec == Init /\ [][Next]_dagVars
=============================================================================
