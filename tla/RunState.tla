------------------------------ MODULE RunState ------------------------------
(***************************************************************************)
(* The scheduler core: crates/traversal-core/src/run.rs.  One run of a     *)
(* selection of a topology, under a bound on the nodes that run at once.   *)
(* The caller admits a batch of ready nodes, reports the outcome of each   *)
(* running node in any order, and may cancel.  A call that the source      *)
(* answers with Err (finish of a node that is not running, an outcome that *)
(* is not a completion) changes nothing and is a stuttering step here.     *)
(*                                                                         *)
(* The graph, the targets and the capacity are arguments of RunState::new  *)
(* and are chosen by Init, so that one model checks all of them.           *)
(***************************************************************************)
EXTENDS Topology, Integers

CONSTANTS Topologies,  \* the topologies a run may be started on
          Capacities   \* the values of `capacity' a run may be started with

ASSUME TopologiesAssumption == \A g \in Topologies : IsTopology(g)
ASSUME CapacitiesAssumption == Capacities \subseteq Nat \ {0}

VARIABLES graph, states, remaining, ready, active, capacity, unfinished

vars == <<graph, states, remaining, ready, active, capacity, unfinished>>

Open == {"pending", "ready"}
Done == {"succeeded", "reused"}
Lost == {"failed", "blocked", "cancelled"}
State == {"unselected", "running"} \cup Open \cup Done \cup Lost

In(S) == {n \in Nodes : states[n] \in S}
-----------------------------------------------------------------------------
\* RunState::new
Roots(g) == {n \in Nodes : g.dependencies[n] = {}}

InitialStates(g, selected) ==
    [n \in Nodes |-> IF n \notin selected THEN "unselected"
                     ELSE IF n \in Roots(g) THEN "ready" ELSE "pending"]

New(g, targets, c) ==
    LET selected == Select(g, targets)
    IN  /\ graph = g
        /\ states = InitialStates(g, selected)
        /\ remaining = [n \in Nodes |-> Cardinality(g.dependencies[n])]
        /\ ready = Listed(selected \cap Roots(g), g.position)
        /\ active = 0
        /\ capacity = c
        /\ unfinished = Cardinality(selected)

Init == \E g \in Topologies, targets \in (SUBSET Nodes) \ {{}}, c \in Capacities :
            New(g, targets, c)

-----------------------------------------------------------------------------
(***************************************************************************)
(* admit pops the queue from the front until the running nodes fill the    *)
(* capacity or the queue is empty, skipping an entry that is no longer     *)
(* ready.  Popped is the number of entries it takes off.                   *)
(***************************************************************************)
Fresh(k) == {n \in {ready[j] : j \in 1 .. k} : states[n] = "ready"}

\* Mutants: a bound that is one too high, a loop that admits one node per call.
FillsUpLate(k) == Cardinality(Fresh(k)) = 1 + capacity - active
AdmitsOne(k) == active = capacity \/ Cardinality(Fresh(k)) = 1

FillsUp(k) == Cardinality(Fresh(k)) = capacity - active

Popped == CHOOSE k \in 0 .. Len(ready) :
              /\ k = Len(ready) \/ FillsUp(k)
              /\ \A j \in 0 .. k - 1 : ~ FillsUp(j)

Admitted == Fresh(Popped)

Admit ==
    LET admitted == Admitted
    IN  /\ admitted # {}
        /\ states' = [n \in Nodes |-> IF n \in admitted THEN "running" ELSE states[n]]
        /\ active' = active + Cardinality(admitted)
        /\ ready' = SubSeq(ready, Popped + 1, Len(ready))
        /\ UNCHANGED <<graph, remaining, capacity, unfinished>>

-----------------------------------------------------------------------------
\* finish with Succeeded or Reused: count down the dependents that still wait
\* and release those that waited for this node last.

\* Mutant: the countdown is skipped unless it is the last.
WaitingForLast(n) == {m \in Dependents(graph, n) : states[m] = "pending" /\ remaining[m] = 1}

Waiting(n) == {m \in Dependents(graph, n) : states[m] = "pending"}

\* Mutants: the counter compared before it is decremented, and off by one.
ReleasedAtZero(n) == {m \in Waiting(n) : remaining[m] = 0}
ReleasedEarly(n) == {m \in Waiting(n) : remaining[m] <= 2}

Released(n) == {m \in Waiting(n) : remaining[m] = 1}

FinishDone(n, outcome) ==
    LET waiting  == Waiting(n)
        released == Released(n)
    IN  /\ states[n] = "running"
        /\ states' = [m \in Nodes |-> IF m = n THEN outcome
                                      ELSE IF m \in released THEN "ready" ELSE states[m]]
        /\ remaining' = [m \in Nodes |-> IF m \in waiting THEN remaining[m] - 1
                                         ELSE remaining[m]]
        /\ ready' = ready \o Listed(released, Index)
        /\ active' = active - 1
        /\ unfinished' = unfinished - 1
        /\ UNCHANGED <<graph, capacity>>

\* finish with Failed or Cancelled: the worklist walks from the dependents of
\* the node and goes on only from the nodes it blocks.

\* Mutant: the worklist does not look at the state of what it blocks.
AllDependents(m) == Dependents(graph, m)

OpenDependents(m) == Dependents(graph, m) \cap In(Open)

\* Mutant: the loop does not go on from the nodes it blocks.
BlockedDirect(n) == OpenDependents(n)

Blocked(n) == Reach(OpenDependents(n), [m \in Nodes |-> OpenDependents(m)])

FinishLost(n, outcome) ==
    LET blocked == Blocked(n)
    IN  /\ states[n] = "running"
        /\ states' = [m \in Nodes |-> IF m = n THEN outcome
                                      ELSE IF m \in blocked THEN "blocked" ELSE states[m]]
        /\ active' = active - 1
        /\ unfinished' = unfinished - 1 - Cardinality(blocked)
        /\ UNCHANGED <<graph, remaining, ready, capacity>>

Finish(n) ==
    \/ \E outcome \in Done : FinishDone(n, outcome)
    \/ \E outcome \in {"failed", "cancelled"} : FinishLost(n, outcome)

\* cancel: what has not been admitted never will be; running nodes are left alone.

\* Mutant: the queue is not cleared.
CancelKeepsQueue ==
    /\ states' = [n \in Nodes |-> IF states[n] \in Open THEN "cancelled" ELSE states[n]]
    /\ unfinished' = unfinished - Cardinality(In(Open))
    /\ UNCHANGED <<graph, remaining, ready, active, capacity>>

Cancel ==
    /\ states' = [n \in Nodes |-> IF states[n] \in Open THEN "cancelled" ELSE states[n]]
    /\ unfinished' = unfinished - Cardinality(In(Open))
    /\ ready' = <<>>
    /\ UNCHANGED <<graph, remaining, active, capacity>>

-----------------------------------------------------------------------------
Next == Admit \/ Cancel \/ \E n \in Nodes : Finish(n)

Spec == Init /\ [][Next]_vars

\* The caller keeps admitting while it is not done, and every node that runs
\* is reported at last: the coordinator awaits each of its tasks.
Fairness == WF_vars(Admit) /\ \A n \in Nodes : WF_vars(Finish(n))

FairSpec == Spec /\ Fairness
-----------------------------------------------------------------------------
TypeOK ==
    /\ IsTopology(graph)
    /\ states \in [Nodes -> State]
    /\ remaining \in [Nodes -> 0 .. N]
    /\ ready \in Seq(Nodes)
    /\ active \in 0 .. N
    /\ capacity \in Capacities
    /\ unfinished \in 0 .. N

\* The three numbers that admit and done() decide by agree with the states
\* they summarise: a drifted `unfinished' would end the run early or never,
\* a drifted `active' would exceed the concurrency bound or starve.
CountersExact ==
    /\ active = Cardinality(In({"running"}))
    /\ active <= capacity
    /\ unfinished = Cardinality(In(Open \cup {"running"}))

\* The queue holds each ready node once and nothing else, so no ready node is
\* forgotten and none is admitted twice.
ReadyQueueExact ==
    /\ \A i, j \in DOMAIN ready : ready[i] = ready[j] => i = j
    /\ {ready[i] : i \in DOMAIN ready} = In({"ready"})

\* A pending node counts exactly the dependencies it still waits for, and has
\* at least one: it can be released once, by the last of them.
Missing(n) == {d \in graph.dependencies[n] : states[d] \notin Done}

RemainingExact ==
    \A n \in In({"pending"}) : remaining[n] = Cardinality(Missing(n)) /\ Missing(n) # {}

\* No node is made ready, run or finished before all it depends on has
\* produced a value, whatever the order of completions.
DependenciesFirst ==
    \A n \in In({"ready", "running", "failed"} \cup Done) : Missing(n) = {}

\* A failure or cancellation reaches every open descendant in the step that
\* reports it, however deep, and blocks nothing else.
FailurePropagated ==
    \A n \in Nodes :
        LET lost == {d \in graph.dependencies[n] : states[d] \in Lost}
        IN  /\ states[n] \in Open => lost = {}
            /\ states[n] = "blocked" => lost # {}

\* A selected node's dependencies are selected too, so the one it waits for is
\* in the run.
SelectionClosed ==
    \A n \in Nodes : states[n] # "unselected" =>
        \A d \in graph.dependencies[n] : states[d] # "unselected"

\* The conjunction of the above is inductive: RunState_proofs.
Inv ==
    /\ TypeOK
    /\ CountersExact
    /\ ReadyQueueExact
    /\ RemainingExact
    /\ DependenciesFirst
    /\ FailurePropagated
    /\ SelectionClosed

\* While work is unfinished something is ready or running: the caller's error
\* "scheduler has unfinished work but no runnable nodes" cannot be raised.
NoStall == unfinished > 0 => In({"ready", "running"}) # {}

\* A node only ever moves forward, an outcome is final, the selection is fixed
\* and a node that became ready is never blocked, although the worklist of
\* finish would block a ready node it met.
Forward == {<<"pending", s>> : s \in {"ready", "blocked", "cancelled"}}
             \cup {<<"ready", s>> : s \in {"running", "cancelled"}}
             \cup {<<"running", s>> : s \in Done \cup {"failed", "cancelled"}}

StatesMoveForward ==
    [][\A n \in Nodes : states'[n] # states[n] => <<states[n], states'[n]>> \in Forward]_vars

\* The run keeps the promises of DagRun: the queue and the counters admit what
\* is eligible by the graph alone, never leave room beside an eligible node,
\* and lose the same descendants that the whole graph says are lost.
Status == [n \in Nodes |-> IF states[n] \in Open THEN "waiting" ELSE states[n]]

Dag == INSTANCE DagRun WITH status <- Status

ImplementsDagRun == Dag!Spec

\* Every run ends: each selected node gets an outcome.
Terminates == <>(unfinished = 0)
=============================================================================
