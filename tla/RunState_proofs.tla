-------------------------- MODULE RunState_proofs --------------------------
(***************************************************************************)
(* RunState for every number of nodes, every topology, every selection and *)
(* every capacity.  Inv of RunState is inductive; NoStall and the step     *)
(* property follow from it.  Each action has a lemma of its own, with one  *)
(* step per conjunct of Inv.                                               *)
(***************************************************************************)
EXTENDS RunState, Topology_proofs

\* The initial states of RunState::new satisfy the invariant.
LEMMA InitInv == Init => Inv
<1> SUFFICES ASSUME NEW g \in Topologies, NEW targets \in (SUBSET Nodes) \ {{}},
                    NEW c \in Capacities, New(g, targets, c)
             PROVE  Inv
    BY DEF Init
<1> DEFINE selected == Select(g, targets)
           roots    == selected \cap Roots(g)
<1>1. /\ IsTopology(g)
      /\ g.dependencies \in [Nodes -> SUBSET Nodes]
      /\ graph = g
    BY TopologiesAssumption DEF New, IsTopology
<1>2. /\ selected \in SUBSET Nodes
      /\ \A n \in selected : g.dependencies[n] \subseteq selected
    BY <1>1, ReachProperties DEF Select, ClosedUnder
<1> HIDE DEF selected
<1>3. /\ states = [n \in Nodes |-> IF n \notin selected THEN "unselected"
                                   ELSE IF n \in Roots(g) THEN "ready" ELSE "pending"]
      /\ remaining = [n \in Nodes |-> Cardinality(g.dependencies[n])]
      /\ ready = Listed(roots, g.position)
      /\ active = 0 /\ capacity = c /\ unfinished = Cardinality(selected)
    BY DEF New, InitialStates, selected
<1>4. roots \in SUBSET Nodes
    BY <1>2
<1>5. /\ ready \in Seq(Nodes)
      /\ DOMAIN ready = 1 .. Cardinality(roots)
      /\ \A i, j \in 1 .. Cardinality(roots) : ready[i] = ready[j] => i = j
      /\ {ready[i] : i \in 1 .. Cardinality(roots)} = roots
    <2>1. IsKey(g.position)
        BY <1>1, PositionIsKey
    <2> HIDE DEF roots
    <2> QED
        BY <1>3, <1>4, <2>1, ListedProperties
<1>6. \A n \in Nodes : Missing(n) = g.dependencies[n]
    BY <1>1, <1>3 DEF Missing, Done
<1>7. TypeOK
    <2>1. remaining \in [Nodes -> 0 .. N]
        BY <1>1, <1>3, NodesFinite
    <2>2. unfinished \in 0 .. N
        BY <1>2, <1>3, NodesFinite
    <2>3. states \in [Nodes -> State]
        BY <1>3 DEF State, Open
    <2> QED
        BY <1>1, <1>3, <1>5, <2>1, <2>2, <2>3, NAssumption DEF TypeOK
<1>8. CountersExact
    <2>1. In({"running"}) = {}
        BY <1>3 DEF In
    <2>2. In(Open \cup {"running"}) = selected
        BY <1>2, <1>3 DEF In, Open
    <2>3. 0 <= c
        BY CapacitiesAssumption
    <2> QED
        BY <1>3, <2>1, <2>2, <2>3, FS_EmptySet DEF CountersExact
<1>9. ReadyQueueExact
    <2>1. In({"ready"}) = roots
        BY <1>2, <1>3 DEF In
    <2> QED
        BY <1>5, <2>1 DEF ReadyQueueExact
<1>10. RemainingExact
    BY <1>1, <1>3, <1>6 DEF RemainingExact, In, Roots
<1>11. DependenciesFirst
    BY <1>1, <1>3, <1>6 DEF DependenciesFirst, In, Roots, Done
<1>12. FailurePropagated
    BY <1>1, <1>3 DEF FailurePropagated, Open, Lost
<1>13. SelectionClosed
    BY <1>1, <1>2, <1>3 DEF SelectionClosed
<1> QED
    BY <1>7, <1>8, <1>9, <1>10, <1>11, <1>12, <1>13 DEF Inv

-----------------------------------------------------------------------------
\* What the loop of admit takes off the queue: it stops in time, and all it
\* takes is admitted.
LEMMA PoppedProperties ==
    ASSUME Inv
    PROVE  /\ Popped \in 0 .. Len(ready)
           /\ Popped = Len(ready) \/ FillsUp(Popped)
           /\ Admitted = {ready[j] : j \in 1 .. Popped}
           /\ Cardinality(Admitted) <= capacity - active
<1>1. /\ ready \in Seq(Nodes) /\ Len(ready) \in Nat
      /\ \A j \in 1 .. Len(ready) : ready[j] \in Nodes /\ states[ready[j]] = "ready"
    BY DEF Inv, TypeOK, ReadyQueueExact, In
<1>2. capacity - active \in Nat
    BY CapacitiesAssumption DEF Inv, TypeOK, CountersExact
<1> DEFINE Stops(k) == k = Len(ready) \/ FillsUp(k)
<1>3. PICK k \in 0 .. Len(ready) : Stops(k) /\ \A j \in 0 .. Len(ready) : Stops(j) => k <= j
    <2> DEFINE T == {j \in 0 .. Len(ready) : Stops(j)}
    <2>1. T \in SUBSET Nat /\ T # {}
        BY <1>1
    <2> HIDE DEF T
    <2>2. PICK x \in T : \A y \in T : x <= y
        BY <2>1, LeastNat
    <2> QED
        BY <2>2 DEF T
<1>4. /\ Popped \in 0 .. Len(ready)
      /\ Popped = Len(ready) \/ FillsUp(Popped)
      /\ \A j \in 0 .. Popped - 1 : ~ FillsUp(j)
    <2>1. \A j \in 0 .. k - 1 : ~ FillsUp(j)
        BY <1>1, <1>3
    <2> QED
        BY <1>3, <2>1 DEF Popped
<1>5. \A j \in 0 .. Popped : Fresh(j) \in SUBSET Nodes /\ Cardinality(Fresh(j)) \in Nat
    <2>1. \A j \in 0 .. Popped : Fresh(j) \in SUBSET Nodes
        BY <1>1, <1>4 DEF Fresh
    <2> QED
        BY <2>1, NodesFinite
<1>6. \A j \in 1 .. Popped : Fresh(j) = Fresh(j - 1) \cup {ready[j]}
    BY <1>1, <1>4 DEF Fresh
<1>7. \A j \in 1 .. Popped : Cardinality(Fresh(j)) <= Cardinality(Fresh(j - 1)) + 1
    <2> SUFFICES ASSUME NEW j \in 1 .. Popped
                 PROVE  Cardinality(Fresh(j)) <= Cardinality(Fresh(j - 1)) + 1
        OBVIOUS
    <2>1. j - 1 \in 0 .. Popped /\ ready[j] \in Nodes
        BY <1>1, <1>4
    <2>2. IsFiniteSet(Fresh(j - 1)) /\ Cardinality(Fresh(j - 1)) \in Nat
        BY <1>5, <2>1, NodesFinite
    <2>3. Cardinality(Fresh(j - 1) \cup {ready[j]}) =
             IF ready[j] \in Fresh(j - 1) THEN Cardinality(Fresh(j - 1))
             ELSE Cardinality(Fresh(j - 1)) + 1
        BY <2>2, FS_AddElement
    <2>4. Cardinality(Fresh(j)) = Cardinality(Fresh(j - 1) \cup {ready[j]})
        BY <1>6
    <2> QED
        BY <2>2, <2>3, <2>4
<1> DEFINE Over == {j \in 0 .. Popped : Cardinality(Fresh(j)) > capacity - active}
<1>8. Over = {}
    <2> SUFFICES ASSUME Over # {} PROVE FALSE
        OBVIOUS
    <2>1. PICK x \in Over : \A y \in Over : x <= y
        <3>1. Over \in SUBSET Nat
            BY <1>4
        <3> HIDE DEF Over
        <3> QED
            BY <3>1, LeastNat
    <2>2. x # 0
        <3>1. Fresh(0) = {}
            BY DEF Fresh
        <3> QED
            BY <1>2, <2>1, <3>1, NodesCounted
    <2>3. x \in 1 .. Popped /\ x - 1 \in 0 .. Popped - 1 /\ x - 1 \in 0 .. Popped
        BY <1>4, <2>1, <2>2
    <2>4. x - 1 \notin Over
        BY <2>1, <2>3
    <2>5. Cardinality(Fresh(x - 1)) < capacity - active
        BY <1>2, <1>4, <1>5, <2>3, <2>4 DEF FillsUp
    <2> QED
        BY <1>2, <1>5, <1>7, <2>1, <2>3, <2>5
<1>9. Cardinality(Admitted) <= capacity - active
    BY <1>2, <1>4, <1>5, <1>8 DEF Admitted
<1>10. Admitted = {ready[j] : j \in 1 .. Popped}
    BY <1>1, <1>4 DEF Admitted, Fresh
<1> QED
    BY <1>4, <1>9, <1>10

\* RunState::admit keeps the invariant.
LEMMA AdmitInv ==
    ASSUME Inv, Admit
    PROVE  Inv'
<1> DEFINE k == Popped
<1>1. /\ k \in 0 .. Len(ready)
      /\ Admitted = {ready[j] : j \in 1 .. k}
      /\ Cardinality(Admitted) <= capacity - active
    BY PoppedProperties
<1> HIDE DEF k
<1>2. /\ states' = [n \in Nodes |-> IF n \in Admitted THEN "running" ELSE states[n]]
      /\ active' = active + Cardinality(Admitted)
      /\ ready' = SubSeq(ready, k + 1, Len(ready))
      /\ UNCHANGED <<graph, remaining, capacity, unfinished>>
    BY DEF Admit, k
<1>3. /\ states \in [Nodes -> State] /\ graph.dependencies \in [Nodes -> SUBSET Nodes]
      /\ ready \in Seq(Nodes) /\ Len(ready) \in Nat
      /\ \A i, j \in 1 .. Len(ready) : ready[i] = ready[j] => i = j
      /\ {ready[i] : i \in 1 .. Len(ready)} = In({"ready"})
    BY DEF Inv, TypeOK, IsTopology, ReadyQueueExact
<1>4. Admitted \in SUBSET Nodes /\ \A n \in Admitted : states[n] = "ready"
    BY <1>1, <1>3 DEF In
<1>5. CountersExact'
    <2>1. In({"running"})' = In({"running"}) \cup Admitted /\ In({"running"}) \cap Admitted = {}
        BY <1>2, <1>3, <1>4 DEF In
    <2>2. In(Open \cup {"running"})' = In(Open \cup {"running"})
        BY <1>2, <1>3, <1>4 DEF In, Open
    <2>3. Cardinality(In({"running"})') = active + Cardinality(Admitted)
        BY <1>4, <2>1, NodesCounted DEF Inv, CountersExact, In
    <2>4. active + Cardinality(Admitted) <= capacity
        BY <1>1, <1>4, NodesFinite, CapacitiesAssumption DEF Inv, TypeOK
    <2> QED
        BY <1>2, <2>2, <2>3, <2>4 DEF Inv, CountersExact
<1>6. /\ ready' \in Seq(Nodes)
      /\ Len(ready') = Len(ready) - k
      /\ \A i \in 1 .. Len(ready) - k : ready'[i] = ready[k + i]
    BY <1>1, <1>2, <1>3
<1>7. TypeOK'
    <2>1. states' \in [Nodes -> State]
        BY <1>2, <1>3 DEF State
    <2>2. active' \in 0 .. N
        BY <1>5, NodesFinite DEF CountersExact, In
    <2> QED
        BY <1>2, <1>6, <2>1, <2>2 DEF Inv, TypeOK
<1>8. ReadyQueueExact'
    <2>1. DOMAIN ready' = 1 .. Len(ready) - k
        BY <1>6
    <2>2. \A i, j \in 1 .. Len(ready) - k : ready'[i] = ready'[j] => i = j
        BY <1>1, <1>3, <1>6
    <2>3. In({"ready"})' = In({"ready"}) \ Admitted
        BY <1>2, <1>3, <1>4 DEF In
    <2>4. {ready'[i] : i \in 1 .. Len(ready) - k} \subseteq In({"ready"}) \ Admitted
        <3> SUFFICES ASSUME NEW i \in 1 .. Len(ready) - k
                     PROVE  ready'[i] \in In({"ready"}) \ Admitted
            OBVIOUS
        <3>1. k + i \in 1 .. Len(ready) /\ ready'[i] = ready[k + i]
            BY <1>1, <1>3, <1>6
        <3>2. \A j \in 1 .. k : ready[j] # ready[k + i]
            BY <1>1, <1>3, <3>1
        <3> QED
            BY <1>1, <1>3, <3>1, <3>2
    <2>5. ASSUME NEW n \in In({"ready"}) \ Admitted
          PROVE  \E i \in 1 .. Len(ready) - k : n = ready'[i]
        <3>1. PICK j \in 1 .. Len(ready) : n = ready[j]
            BY <1>3
        <3>2. j \notin 1 .. k
            BY <1>1, <2>5, <3>1
        <3>3. j - k \in 1 .. Len(ready) - k /\ k + (j - k) = j
            BY <1>1, <1>3, <3>1, <3>2
        <3>4. ready'[j - k] = ready[j]
            BY <1>6, <3>3
        <3> QED
            BY <3>1, <3>3, <3>4
    <2> QED
        BY <2>1, <2>2, <2>3, <2>4, <2>5 DEF ReadyQueueExact
<1>9. \A n \in Nodes : Missing(n)' = Missing(n)
    BY <1>2, <1>3, <1>4 DEF Missing, Done
<1>10. RemainingExact'
    <2>1. In({"pending"})' = In({"pending"})
        BY <1>2, <1>3, <1>4 DEF In
    <2> QED
        BY <1>2, <1>9, <2>1 DEF Inv, RemainingExact, In
<1>11. DependenciesFirst'
    BY <1>2, <1>3, <1>4, <1>9 DEF Inv, DependenciesFirst, In, Done
<1>12. FailurePropagated'
    BY <1>2, <1>3, <1>4 DEF Inv, FailurePropagated, Open, Lost
<1>13. SelectionClosed'
    BY <1>2, <1>3, <1>4 DEF Inv, SelectionClosed
<1> QED
    BY <1>5, <1>7, <1>8, <1>10, <1>11, <1>12, <1>13 DEF Inv

-----------------------------------------------------------------------------
\* RunState::finish with a value keeps the invariant: the dependents it
\* releases are exactly the pending ones that missed nothing else.
LEMMA FinishDoneInv ==
    ASSUME Inv, NEW n \in Nodes, NEW outcome \in Done, FinishDone(n, outcome)
    PROVE  Inv'
<1> DEFINE w == Waiting(n)
           r == Released(n)
           L == Listed(r, Index)
<1>1. /\ states[n] = "running"
      /\ states' = [m \in Nodes |-> IF m = n THEN outcome
                                    ELSE IF m \in r THEN "ready" ELSE states[m]]
      /\ remaining' = [m \in Nodes |-> IF m \in w THEN remaining[m] - 1 ELSE remaining[m]]
      /\ ready' = ready \o L
      /\ active' = active - 1 /\ unfinished' = unfinished - 1
      /\ graph' = graph /\ capacity' = capacity
    BY DEF FinishDone
<1>2. /\ states \in [Nodes -> State] /\ graph.dependencies \in [Nodes -> SUBSET Nodes]
      /\ remaining \in [Nodes -> 0 .. N]
      /\ ready \in Seq(Nodes) /\ Len(ready) \in Nat
      /\ \A i, j \in 1 .. Len(ready) : ready[i] = ready[j] => i = j
      /\ {ready[i] : i \in 1 .. Len(ready)} = In({"ready"})
    BY DEF Inv, TypeOK, IsTopology, ReadyQueueExact
<1>3. /\ w = {m \in Nodes : n \in graph.dependencies[m] /\ states[m] = "pending"}
      /\ r = {m \in w : remaining[m] = 1}
    BY DEF Waiting, Released, Dependents
<1> HIDE DEF w, r
<1>4. /\ w \in SUBSET Nodes /\ r \in SUBSET w /\ n \notin w
      /\ \A m \in w : states[m] = "pending"
    BY <1>1, <1>3
<1>5. \A m \in Nodes : Missing(m)' = Missing(m) \ {n}
    BY <1>1, <1>2, <1>4 DEF Missing, Done
<1>6. \A m \in Nodes : Missing(m) \in SUBSET Nodes
    BY <1>2 DEF Missing
<1>7. \A m \in w : /\ remaining[m] = Cardinality(Missing(m)) /\ n \in Missing(m)
                   /\ Cardinality(Missing(m) \ {n}) = remaining[m] - 1
    <2> SUFFICES ASSUME NEW m \in w
                 PROVE  /\ remaining[m] = Cardinality(Missing(m)) /\ n \in Missing(m)
                        /\ Cardinality(Missing(m) \ {n}) = remaining[m] - 1
        OBVIOUS
    <2>1. remaining[m] = Cardinality(Missing(m))
        BY <1>3, <1>4 DEF Inv, RemainingExact, In
    <2>2. n \in Missing(m)
        BY <1>1, <1>3 DEF Missing, Done
    <2>3. Cardinality(Missing(m) \ {n}) = Cardinality(Missing(m)) - Cardinality({n})
        BY <1>4, <1>6, <2>2, NodesCounted
    <2> QED
        BY <2>1, <2>2, <2>3, NodesCounted
<1>8. \A m \in w : m \in r <=> Missing(m) \ {n} = {}
    <2> SUFFICES ASSUME NEW m \in w PROVE m \in r <=> Missing(m) \ {n} = {}
        OBVIOUS
    <2>1. Missing(m) \ {n} \in SUBSET Nodes
        BY <1>4, <1>6
    <2>2. Cardinality(Missing(m) \ {n}) = 0 <=> Missing(m) \ {n} = {}
        BY <2>1, NodesCounted
    <2>3. remaining[m] \in Nat
        BY <1>2, <1>4
    <2> QED
        BY <1>3, <1>7, <2>2, <2>3
<1>9. CountersExact'
    <2>1. In({"running"})' = In({"running"}) \ {n} /\ n \in In({"running"})
        BY <1>1, <1>2, <1>4 DEF In, Done
    <2>2. In(Open \cup {"running"})' = In(Open \cup {"running"}) \ {n} /\ n \in In(Open \cup {"running"})
        BY <1>1, <1>2, <1>3, <1>4 DEF In, Open, Done
    <2>3. In({"running"}) \in SUBSET Nodes /\ In(Open \cup {"running"}) \in SUBSET Nodes
        BY DEF In
    <2>4. /\ Cardinality(In({"running"}) \ {n}) = active - 1
          /\ Cardinality(In(Open \cup {"running"}) \ {n}) = unfinished - 1
        BY <2>1, <2>2, <2>3, NodesCounted DEF Inv, CountersExact
    <2>5. active - 1 <= capacity
        BY CapacitiesAssumption DEF Inv, TypeOK, CountersExact
    <2> QED
        BY <1>1, <2>1, <2>2, <2>3, <2>4, <2>5 DEF CountersExact
<1>10. /\ L \in Seq(Nodes) /\ Len(L) = Cardinality(r) /\ Cardinality(r) \in Nat
       /\ \A i, j \in 1 .. Cardinality(r) : L[i] = L[j] => i = j
       /\ {L[i] : i \in 1 .. Cardinality(r)} = r
    BY <1>4, ListedProperties, IndexIsKey, NodesFinite
<1> HIDE DEF L
<1>11. TypeOK'
    <2>1. states' \in [Nodes -> State]
        BY <1>1, <1>2 DEF State, Open
    <2>2. \A m \in w : remaining[m] - 1 \in 0 .. N
        <3>1. \A m \in w : n \in Missing(m) /\ Missing(m) \in SUBSET Nodes /\ remaining[m] # 0
            BY <1>4, <1>6, <1>7, NodesCounted
        <3> QED
            BY <1>2, <1>4, <3>1, NAssumption
    <2>3. remaining' \in [Nodes -> 0 .. N]
        BY <1>1, <1>2, <2>2
    <2>4. active' \in 0 .. N /\ unfinished' \in 0 .. N
        BY <1>9, NodesFinite DEF CountersExact, In
    <2>5. ready' \in Seq(Nodes)
        BY <1>1, <1>2, <1>10
    <2> QED
        BY <1>1, <2>1, <2>3, <2>4, <2>5 DEF Inv, TypeOK
<1>12. ReadyQueueExact'
    <2>1. r \cap In({"ready"}) = {}
        BY <1>4 DEF In
    <2>2. In({"ready"})' = In({"ready"}) \cup r
        BY <1>1, <1>2, <1>4 DEF In, Done
    <2>3. {ready[i] : i \in 1 .. Len(ready)} \cap {L[i] : i \in 1 .. Len(L)} = {}
        BY <1>2, <1>10, <2>1
    <2>4. \A i, j \in 1 .. Len(L) : L[i] = L[j] => i = j
        BY <1>10
    <2>5. /\ \A i, j \in DOMAIN (ready \o L) : (ready \o L)[i] = (ready \o L)[j] => i = j
          /\ {(ready \o L)[i] : i \in DOMAIN (ready \o L)} =
                {ready[i] : i \in 1 .. Len(ready)} \cup {L[i] : i \in 1 .. Len(L)}
        <3>1. ready \in Seq(Nodes) /\ \A i, j \in 1 .. Len(ready) : ready[i] = ready[j] => i = j
            BY <1>2
        <3>2. L \in Seq(Nodes)
            BY <1>10
        <3> QED
            BY <2>3, <2>4, <3>1, <3>2, AppendedQueue, Zenon
    <2>6. {ready[i] : i \in 1 .. Len(ready)} \cup {L[i] : i \in 1 .. Len(L)} = In({"ready"}) \cup r
        BY <1>2, <1>10
    <2>7. ready' = ready \o L
        BY <1>1
    <2> QED
        BY <2>2, <2>5, <2>6, <2>7, Zenon DEF ReadyQueueExact
<1>13. RemainingExact'
    <2> SUFFICES ASSUME NEW m \in Nodes, states'[m] = "pending"
                 PROVE  remaining'[m] = Cardinality(Missing(m)') /\ Missing(m)' # {}
        BY DEF RemainingExact, In
    <2>1. states[m] = "pending" /\ m \notin r /\ m # n
        BY <1>1, <1>2 DEF Done
    <2>2. remaining[m] = Cardinality(Missing(m)) /\ Missing(m) # {}
        BY <2>1 DEF Inv, RemainingExact, In
    <2>3. CASE m \in w
        BY <1>1, <1>5, <1>7, <1>8, <2>1, <2>3
    <2>4. CASE m \notin w
        <3>1. n \notin Missing(m)
            BY <1>3, <2>1, <2>4 DEF Missing
        <3> QED
            BY <1>1, <1>5, <2>2, <2>4, <3>1
    <2> QED
        BY <2>3, <2>4
<1>14. DependenciesFirst'
    <2> SUFFICES ASSUME NEW m \in Nodes, states'[m] \in {"ready", "running", "failed"} \cup Done
                 PROVE  Missing(m)' = {}
        BY DEF DependenciesFirst, In
    <2>1. CASE m \in r
        BY <1>4, <1>5, <1>8, <2>1
    <2>2. CASE m \notin r
        <3>1. states[m] \in {"ready", "running", "failed"} \cup Done
            BY <1>1, <1>2, <2>2
        <3>2. Missing(m) = {}
            BY <3>1 DEF Inv, DependenciesFirst, In
        <3> QED
            BY <1>5, <3>2
    <2> QED
        BY <2>1, <2>2
<1>15. FailurePropagated'
    BY <1>1, <1>2, <1>4 DEF Inv, FailurePropagated, Open, Lost, Done
<1>16. SelectionClosed'
    BY <1>1, <1>2, <1>4 DEF Inv, SelectionClosed, Done
<1> QED
    BY <1>9, <1>11, <1>12, <1>13, <1>14, <1>15, <1>16 DEF Inv

-----------------------------------------------------------------------------
\* The worklist of RunState::finish, started by a running node that is lost:
\* it meets pending nodes only, so the queue needs no repair, and it leaves
\* out no open dependent of what it blocks.
LEMMA BlockedProperties ==
    ASSUME Inv, NEW n \in Nodes, states[n] = "running"
    PROVE  /\ Blocked(n) \in SUBSET Nodes
           /\ \A m \in Blocked(n) : states[m] = "pending"
           /\ OpenDependents(n) \subseteq Blocked(n)
           /\ \A m \in Blocked(n) : OpenDependents(m) \subseteq Blocked(n)
           /\ \A m \in Blocked(n) :
                 \E d \in graph.dependencies[m] : d = n \/ d \in Blocked(n)
<1> DEFINE edges == [m \in Nodes |-> OpenDependents(m)]
<1>1. /\ edges \in [Nodes -> SUBSET Nodes] /\ OpenDependents(n) \in SUBSET Nodes
      /\ graph.dependencies \in [Nodes -> SUBSET Nodes] /\ states \in [Nodes -> State]
    BY DEF OpenDependents, Dependents, Inv, TypeOK, IsTopology
<1>2. /\ Blocked(n) \in SUBSET Nodes
      /\ OpenDependents(n) \subseteq Blocked(n)
      /\ \A m \in Blocked(n) : edges[m] \subseteq Blocked(n)
      /\ \A C \in SUBSET Nodes :
            OpenDependents(n) \subseteq C /\ (\A m \in C : edges[m] \subseteq C) => Blocked(n) \subseteq C
    <2> HIDE DEF edges
    <2>1. Blocked(n) = Reach(OpenDependents(n), edges)
        BY DEF Blocked, edges
    <2> QED
        BY <1>1, <2>1, ReachProperties DEF ClosedUnder
<1>3. \A m \in Blocked(n) : OpenDependents(m) \subseteq Blocked(n)
    BY <1>2
<1>4. Blocked(n) \subseteq In({"pending"})
    <2>1. \A m \in Nodes : states[m] \notin Done => OpenDependents(m) \subseteq In({"pending"})
        BY <1>1 DEF OpenDependents, Dependents, In, Open, Inv, DependenciesFirst, Missing
    <2>2. OpenDependents(n) \subseteq In({"pending"})
        BY <2>1 DEF Done
    <2>3. \A m \in In({"pending"}) : edges[m] \subseteq In({"pending"})
        BY <2>1 DEF In, Done
    <2>4. In({"pending"}) \in SUBSET Nodes
        BY DEF In
    <2> HIDE DEF edges
    <2> QED
        BY <1>2, <2>2, <2>3, <2>4
<1> DEFINE caused == {m \in Blocked(n) : \E d \in graph.dependencies[m] : d = n \/ d \in Blocked(n)}
<1>5. Blocked(n) \subseteq caused
    <2>1. caused \in SUBSET Nodes
        BY <1>2
    <2>2. OpenDependents(n) \subseteq caused
        BY <1>2 DEF OpenDependents, Dependents
    <2>3. \A m \in caused : edges[m] \subseteq caused
        BY <1>2 DEF OpenDependents, Dependents
    <2> HIDE DEF edges, caused
    <2> QED
        BY <1>2, <2>1, <2>2, <2>3
<1> QED
    BY <1>2, <1>3, <1>4, <1>5 DEF In

\* RunState::finish without a value keeps the invariant.
LEMMA FinishLostInv ==
    ASSUME Inv, NEW n \in Nodes, NEW outcome \in {"failed", "cancelled"}, FinishLost(n, outcome)
    PROVE  Inv'
<1> DEFINE b == Blocked(n)
<1>1. /\ states[n] = "running"
      /\ states' = [m \in Nodes |-> IF m = n THEN outcome
                                    ELSE IF m \in b THEN "blocked" ELSE states[m]]
      /\ active' = active - 1 /\ unfinished' = unfinished - 1 - Cardinality(b)
      /\ UNCHANGED <<graph, remaining, ready, capacity>>
    BY DEF FinishLost
<1>2. /\ states \in [Nodes -> State] /\ graph.dependencies \in [Nodes -> SUBSET Nodes]
    BY DEF Inv, TypeOK, IsTopology
<1>3. /\ b \in SUBSET Nodes
      /\ \A m \in b : states[m] = "pending"
      /\ OpenDependents(n) \subseteq b
      /\ \A m \in b : OpenDependents(m) \subseteq b
      /\ \A m \in b : \E d \in graph.dependencies[m] : d = n \/ d \in b
    BY <1>1, BlockedProperties
<1> HIDE DEF b
<1>4. n \notin b
    BY <1>1, <1>3
<1>5. \A m \in Nodes : Missing(m)' = Missing(m)
    BY <1>1, <1>2, <1>3 DEF Missing, Done
<1>6. CountersExact'
    <2>1. In({"running"})' = In({"running"}) \ {n} /\ n \in In({"running"})
        BY <1>1, <1>2, <1>3 DEF In
    <2>2. /\ In(Open \cup {"running"})' = (In(Open \cup {"running"}) \ {n}) \ b
          /\ n \in In(Open \cup {"running"}) /\ b \subseteq In(Open \cup {"running"}) \ {n}
        BY <1>1, <1>2, <1>3, <1>4 DEF In, Open
    <2>3. In({"running"}) \in SUBSET Nodes /\ In(Open \cup {"running"}) \in SUBSET Nodes
        BY DEF In
    <2>4. /\ Cardinality(In({"running"}) \ {n}) = active - 1
          /\ Cardinality(In(Open \cup {"running"}) \ {n}) = unfinished - 1
        BY <2>1, <2>2, <2>3, NodesCounted DEF Inv, CountersExact
    <2>5. Cardinality((In(Open \cup {"running"}) \ {n}) \ b) = unfinished - 1 - Cardinality(b)
        <3> DEFINE rest == In(Open \cup {"running"}) \ {n}
        <3>1. rest \in SUBSET Nodes /\ b \in SUBSET Nodes /\ b \subseteq rest
            BY <1>3, <2>2, <2>3
        <3>2. Cardinality(rest) = unfinished - 1
            BY <2>4
        <3> HIDE DEF rest
        <3>3. Cardinality(rest \ b) = Cardinality(rest) - Cardinality(b)
            BY <3>1, NodesCounted
        <3> QED
            BY <3>2, <3>3 DEF rest
    <2>6. active - 1 <= capacity
        BY CapacitiesAssumption DEF Inv, TypeOK, CountersExact
    <2> QED
        BY <1>1, <2>1, <2>2, <2>4, <2>5, <2>6 DEF CountersExact
<1>7. TypeOK'
    <2>1. states' \in [Nodes -> State]
        BY <1>1, <1>2 DEF State, Lost
    <2>2. active' \in 0 .. N /\ unfinished' \in 0 .. N
        BY <1>6, NodesFinite DEF CountersExact, In
    <2> QED
        BY <1>1, <2>1, <2>2 DEF Inv, TypeOK
<1>8. ReadyQueueExact'
    <2>1. In({"ready"})' = In({"ready"})
        BY <1>1, <1>2, <1>3 DEF In
    <2> QED
        BY <1>1, <2>1 DEF Inv, ReadyQueueExact
<1>9. RemainingExact'
    BY <1>1, <1>2, <1>5 DEF Inv, RemainingExact, In
<1>10. DependenciesFirst'
    <2> SUFFICES ASSUME NEW m \in Nodes, states'[m] \in {"ready", "running", "failed"} \cup Done
                 PROVE  Missing(m)' = {}
        BY DEF DependenciesFirst, In
    <2>1. states[m] \in {"ready", "running", "failed"} \cup Done
        BY <1>1, <1>2 DEF Done
    <2> QED
        BY <1>5, <2>1 DEF Inv, DependenciesFirst, In
<1>11. FailurePropagated'
    <2> SUFFICES ASSUME NEW m \in Nodes
                 PROVE  /\ states'[m] \in Open =>
                              \A d \in graph.dependencies[m] : states'[d] \notin Lost
                        /\ states'[m] = "blocked" =>
                              \E d \in graph.dependencies[m] : states'[d] \in Lost
        BY <1>1 DEF FailurePropagated
    <2>1. ASSUME states'[m] \in Open, NEW d \in graph.dependencies[m]
          PROVE  states'[d] \notin Lost
        <3>1. states[m] \in Open /\ m \notin b
            BY <1>1, <2>1 DEF Open
        <3>2. d \in Nodes /\ m \in OpenDependents(d)
            BY <1>2, <3>1 DEF OpenDependents, Dependents, In
        <3>3. d # n /\ d \notin b
            BY <1>3, <3>1, <3>2
        <3>4. states[d] \notin Lost
            BY <3>1 DEF Inv, FailurePropagated
        <3> QED
            BY <1>1, <3>2, <3>3, <3>4
    <2>2. ASSUME states'[m] = "blocked"
          PROVE  \E d \in graph.dependencies[m] : states'[d] \in Lost
        <3>1. CASE m \in b
            BY <1>1, <1>2, <1>3, <3>1 DEF Lost
        <3>2. CASE m \notin b
            <4>1. states[m] = "blocked"
                BY <1>1, <2>2, <3>2
            <4>2. PICK d \in graph.dependencies[m] : states[d] \in Lost
                BY <4>1 DEF Inv, FailurePropagated
            <4>3. d \in Nodes /\ d # n /\ d \notin b
                BY <1>1, <1>2, <1>3, <4>2 DEF Lost
            <4> QED
                BY <1>1, <4>2, <4>3
        <3> QED
            BY <3>1, <3>2
    <2> QED
        BY <2>1, <2>2
<1>12. SelectionClosed'
    BY <1>1, <1>2, <1>3 DEF Inv, SelectionClosed
<1> QED
    BY <1>6, <1>7, <1>8, <1>9, <1>10, <1>11, <1>12 DEF Inv

\* RunState::cancel keeps the invariant.
LEMMA CancelInv ==
    ASSUME Inv, Cancel
    PROVE  Inv'
<1>1. /\ states' = [n \in Nodes |-> IF states[n] \in Open THEN "cancelled" ELSE states[n]]
      /\ unfinished' = unfinished - Cardinality(In(Open))
      /\ ready' = <<>>
      /\ UNCHANGED <<graph, remaining, active, capacity>>
    BY DEF Cancel
<1>2. states \in [Nodes -> State] /\ graph.dependencies \in [Nodes -> SUBSET Nodes]
    BY DEF Inv, TypeOK, IsTopology
<1>3. In({"pending"})' = {} /\ In({"ready"})' = {}
    BY <1>1, <1>2 DEF In, Open
<1>4. CountersExact'
    <2>1. In({"running"})' = In({"running"})
        BY <1>1, <1>2 DEF In, Open
    <2>2. /\ In(Open \cup {"running"})' = In(Open \cup {"running"}) \ In(Open)
          /\ In(Open) \subseteq In(Open \cup {"running"})
          /\ In(Open) \in SUBSET Nodes /\ In(Open \cup {"running"}) \in SUBSET Nodes
        BY <1>1, <1>2 DEF In, Open
    <2>3. Cardinality(In(Open \cup {"running"}) \ In(Open)) = unfinished - Cardinality(In(Open))
        BY <2>2, NodesCounted DEF Inv, CountersExact
    <2> QED
        BY <1>1, <2>1, <2>2, <2>3 DEF Inv, CountersExact
<1>5. TypeOK'
    <2>1. states' \in [Nodes -> State]
        BY <1>1, <1>2 DEF State, Lost
    <2>2. unfinished' \in 0 .. N
        BY <1>4, NodesFinite DEF CountersExact, In
    <2> QED
        BY <1>1, <2>1, <2>2 DEF Inv, TypeOK
<1>6. ReadyQueueExact'
    BY <1>1, <1>3 DEF ReadyQueueExact
<1>7. RemainingExact'
    BY <1>3 DEF RemainingExact
<1>8. DependenciesFirst'
    <2>1. \A n \in Nodes : Missing(n)' = Missing(n)
        BY <1>1, <1>2 DEF Missing, Open, Done
    <2> QED
        BY <1>1, <1>2, <2>1 DEF Inv, DependenciesFirst, In, Done
<1>9. FailurePropagated'
    <2> SUFFICES ASSUME NEW n \in Nodes, states'[n] = "blocked"
                 PROVE  \E d \in graph.dependencies[n] : states'[d] \in Lost
        BY <1>1, <1>2, <1>3 DEF FailurePropagated, In, Open
    <2>1. states[n] = "blocked"
        BY <1>1
    <2>2. PICK d \in graph.dependencies[n] : states[d] \in Lost
        BY <2>1 DEF Inv, FailurePropagated
    <2> QED
        BY <1>1, <1>2, <2>2 DEF Lost, Open
<1>10. SelectionClosed'
    BY <1>1, <1>2 DEF Inv, SelectionClosed
<1> QED
    BY <1>4, <1>5, <1>6, <1>7, <1>8, <1>9, <1>10 DEF Inv

-----------------------------------------------------------------------------
\* A step of the caller that does not touch the core keeps its invariant.
LEMMA StutterInv ==
    ASSUME Inv, UNCHANGED vars
    PROVE  Inv'
BY DEF Inv, vars, TypeOK, CountersExact, ReadyQueueExact, RemainingExact, DependenciesFirst,
       FailurePropagated, SelectionClosed, In, Missing

\* Inv holds in every reachable state of every run: with it, that `active'
\* and `unfinished' agree with the states, that the queue is exactly the ready
\* nodes, that nothing starts before its dependencies have values and that no
\* open node is left below a lost one.
THEOREM Invariance == Spec => []Inv
<1>1. Init => Inv
    BY InitInv
<1>2. Inv /\ [Next]_vars => Inv'
    <2> SUFFICES ASSUME Inv, [Next]_vars PROVE Inv'
        OBVIOUS
    <2>1. CASE Admit
        BY <2>1, AdmitInv
    <2>2. CASE Cancel
        BY <2>2, CancelInv
    <2>3. ASSUME NEW n \in Nodes, NEW outcome \in Done, FinishDone(n, outcome) PROVE Inv'
        BY <2>3, FinishDoneInv
    <2>4. ASSUME NEW n \in Nodes, NEW outcome \in {"failed", "cancelled"}, FinishLost(n, outcome)
          PROVE  Inv'
        BY <2>4, FinishLostInv
    <2>5. CASE UNCHANGED vars
        BY <2>5, StutterInv
    <2> QED
        BY <2>1, <2>2, <2>3, <2>4, <2>5 DEF Next, Finish
<1> QED
    BY <1>1, <1>2, PTL DEF Spec

\* No counter of RunState underflows and no entry leaves its range.
THEOREM TypeCorrect == Spec => []TypeOK
<1>1. Inv => TypeOK
    BY DEF Inv
<1> QED
    BY <1>1, Invariance, PTL

\* The counters that admit and done() decide by are exact, and the running
\* nodes never exceed the capacity.
THEOREM CountersCorrect == Spec => []CountersExact
<1>1. Inv => CountersExact
    BY DEF Inv
<1> QED
    BY <1>1, Invariance, PTL

\* The ready queue holds each ready node once and nothing else.
THEOREM QueueCorrect == Spec => []ReadyQueueExact
<1>1. Inv => ReadyQueueExact
    BY DEF Inv
<1> QED
    BY <1>1, Invariance, PTL

\* A pending node's countdown is the number of values it still waits for.
THEOREM CountdownCorrect == Spec => []RemainingExact
<1>1. Inv => RemainingExact
    BY DEF Inv
<1> QED
    BY <1>1, Invariance, PTL

\* No node is ready, runs or has finished without the values it depends on.
THEOREM OrderRespected == Spec => []DependenciesFirst
<1>1. Inv => DependenciesFirst
    BY DEF Inv
<1> QED
    BY <1>1, Invariance, PTL

\* A failure or a cancellation is propagated to exactly the right nodes.
THEOREM PropagationCorrect == Spec => []FailurePropagated
<1>1. Inv => FailurePropagated
    BY DEF Inv
<1> QED
    BY <1>1, Invariance, PTL

-----------------------------------------------------------------------------
\* While work is unfinished a node is ready or running.  Were there only
\* pending ones, the first of them in topological order would miss a
\* dependency that is pending too and comes before it.
LEMMA InvNoStall == Inv => NoStall
<1> SUFFICES ASSUME Inv, unfinished > 0, In({"ready", "running"}) = {} PROVE FALSE
    BY DEF NoStall
<1>1. /\ states \in [Nodes -> State] /\ graph.dependencies \in [Nodes -> SUBSET Nodes]
      /\ \A n \in Nodes : graph.position[n] \in Nat
      /\ \A n \in Nodes : \A d \in graph.dependencies[n] : graph.position[d] < graph.position[n]
    BY PositionIsKey DEF Inv, TypeOK, IsTopology, IsKey
<1>2. In({"pending"}) # {}
    <2>1. In(Open \cup {"running"}) # {}
        <3>1. Cardinality(In(Open \cup {"running"})) # 0
            BY DEF Inv, CountersExact
        <3> QED
            BY <3>1, NodesCounted
    <2> QED
        BY <2>1 DEF In, Open
<1>3. PICK n \in In({"pending"}) : \A m \in In({"pending"}) : graph.position[n] <= graph.position[m]
    <2> DEFINE places == {graph.position[m] : m \in In({"pending"})}
    <2>1. places \in SUBSET Nat /\ places # {}
        BY <1>1, <1>2 DEF In
    <2>2. PICK p \in places : \A q \in places : p <= q
        <3> HIDE DEF places
        <3> QED
            BY <2>1, LeastNat
    <2> QED
        BY <2>2
<1>4. PICK d \in Missing(n) : TRUE
    BY <1>3 DEF Inv, RemainingExact, In
<1>5. d \in Nodes /\ d \in graph.dependencies[n] /\ states[d] \notin Done
    BY <1>1, <1>3, <1>4 DEF Missing, In
<1>6. states[d] \notin Lost /\ states[d] # "unselected"
    BY <1>3, <1>5 DEF Inv, FailurePropagated, SelectionClosed, In, Open
<1>7. d \in In({"pending"})
    BY <1>1, <1>5, <1>6 DEF In, State, Open
<1>8. graph.position[n] <= graph.position[d] /\ graph.position[d] < graph.position[n]
    BY <1>1, <1>3, <1>5, <1>7 DEF In
<1> QED
    BY <1>1, <1>3, <1>5, <1>8 DEF In

\* The coordinator's error "scheduler has unfinished work but no runnable
\* nodes" cannot be raised, on any graph.
THEOREM NeverStalls == Spec => []NoStall
BY InvNoStall, Invariance, PTL

\* Nodes only move forward; no ready node is ever blocked.
THEOREM ForwardOnly == Spec => StatesMoveForward
<1>1. Inv /\ [Next]_vars =>
        [\A n \in Nodes : states'[n] # states[n] => <<states[n], states'[n]>> \in Forward]_vars
    <2> SUFFICES ASSUME Inv, Next, NEW m \in Nodes, states'[m] # states[m]
                 PROVE  <<states[m], states'[m]>> \in Forward
        OBVIOUS
    <2>1. CASE Admit
        <3>1. \A k \in Admitted : states[k] = "ready"
            BY DEF Admitted, Fresh
        <3> QED
            BY <2>1, <3>1 DEF Admit, Forward
    <2>2. CASE Cancel
        BY <2>2 DEF Cancel, Forward, Open
    <2>3. ASSUME NEW n \in Nodes, NEW outcome \in Done, FinishDone(n, outcome)
          PROVE  <<states[m], states'[m]>> \in Forward
        BY <2>3 DEF FinishDone, Released, Waiting, Forward
    <2>4. ASSUME NEW n \in Nodes, NEW outcome \in {"failed", "cancelled"}, FinishLost(n, outcome)
          PROVE  <<states[m], states'[m]>> \in Forward
        <3>1. states[n] = "running" /\ \A k \in Blocked(n) : states[k] = "pending"
            BY <2>4, BlockedProperties DEF FinishLost
        <3> QED
            BY <2>4, <3>1 DEF FinishLost, Forward
    <2> QED
        BY <2>1, <2>2, <2>3, <2>4 DEF Next, Finish
<1> QED
    BY <1>1, Invariance, PTL DEF Spec, StatesMoveForward

-----------------------------------------------------------------------------
\* The operators of Topology that DagRun uses are those of RunState.
LEMMA SameTopology ==
    /\ Dag!Nodes = Nodes
    /\ \A start, edges : Dag!Reach(start, edges) = Reach(start, edges)
    /\ \A g, targets : Dag!Select(g, targets) = Select(g, targets)
    /\ \A g, n : Dag!Dependents(g, n) = Dependents(g, n)
    /\ \A S : Dag!Cardinality(S) = Cardinality(S)
<1>1. Dag!Nodes = Nodes
    BY DEF Dag!Nodes, Nodes
<1>2. \A start, edges : Dag!Reach(start, edges) = Reach(start, edges)
    BY <1>1 DEF Dag!Reach, Reach, Dag!ClosedUnder, ClosedUnder
<1>3. \A S : Dag!Cardinality(S) = Cardinality(S)
    BY DEF Dag!Cardinality, Cardinality
<1> QED
    BY <1>1, <1>2, <1>3 DEF Dag!Select, Select, Dag!Dependents, Dependents

\* finish blocks exactly the descendants, by the whole graph, that still wait,
\* although its worklist stops at every node that is not open.
LEMMA BlockedAreDescendants ==
    ASSUME Inv, NEW n \in Nodes, states[n] = "running"
    PROVE  Blocked(n) = Dag!Descendants(n) \cap In(Open)
<1> DEFINE edges == [m \in Nodes |-> Dependents(graph, m)]
           desc  == Reach(Dependents(graph, n), edges)
<1>1. Dag!Descendants(n) = desc
    BY SameTopology DEF Dag!Descendants
<1>2. edges \in [Nodes -> SUBSET Nodes] /\ Dependents(graph, n) \in SUBSET Nodes
    BY DEF Dependents
<1>3. /\ desc \in SUBSET Nodes /\ Dependents(graph, n) \subseteq desc
      /\ \A m \in desc : Dependents(graph, m) \subseteq desc
      /\ \A C \in SUBSET Nodes :
            Dependents(graph, n) \subseteq C /\ (\A m \in C : edges[m] \subseteq C) => desc \subseteq C
    <2> HIDE DEF edges
    <2>1. /\ desc \in SUBSET Nodes /\ Dependents(graph, n) \subseteq desc
          /\ \A m \in desc : edges[m] \subseteq desc
          /\ \A C \in SUBSET Nodes :
               Dependents(graph, n) \subseteq C /\ (\A m \in C : edges[m] \subseteq C) => desc \subseteq C
        BY <1>2, ReachProperties DEF ClosedUnder
    <2> QED
        BY <2>1 DEF edges
<1> HIDE DEF desc
<1>4. /\ Blocked(n) \in SUBSET Nodes
      /\ \A m \in Blocked(n) : states[m] = "pending"
      /\ OpenDependents(n) \subseteq Blocked(n)
      /\ \A m \in Blocked(n) : OpenDependents(m) \subseteq Blocked(n)
    BY BlockedProperties
<1>5. Blocked(n) \subseteq desc
    <2> DEFINE inner == [m \in Nodes |-> OpenDependents(m)]
    <2>1. inner \in [Nodes -> SUBSET Nodes] /\ OpenDependents(n) \in SUBSET Nodes
        BY DEF OpenDependents, Dependents
    <2>2. OpenDependents(n) \subseteq desc /\ \A m \in desc : inner[m] \subseteq desc
        BY <1>3 DEF OpenDependents
    <2>3. Blocked(n) = Reach(OpenDependents(n), inner)
        BY DEF Blocked
    <2> HIDE DEF inner
    <2> QED
        BY <1>3, <2>1, <2>2, <2>3, ReachProperties DEF ClosedUnder
<1> DEFINE Shut == {"unselected", "pending", "blocked", "cancelled"}
           reached == {m \in Nodes : /\ states[m] \in Shut
                                     /\ states[m] = "pending" => m \in Blocked(n)}
<1>6. \A m \in Nodes : states[m] \notin Done => \A k \in Dependents(graph, m) : states[k] \in Shut
    BY DEF Inv, TypeOK, DependenciesFirst, Missing, In, Dependents, State, Open, Done, Lost
<1>7. desc \subseteq reached
    <2>1. Dependents(graph, n) \subseteq reached
        <3>1. \A k \in Dependents(graph, n) : k \in Nodes /\ states[k] \in Shut
            BY <1>6 DEF Done, Dependents
        <3>2. \A k \in Dependents(graph, n) : states[k] = "pending" => k \in Blocked(n)
            BY <1>4 DEF OpenDependents, In, Open, Dependents
        <3> QED
            BY <3>1, <3>2
    <2>2. ASSUME NEW m \in reached, NEW k \in Dependents(graph, m)
          PROVE  k \in reached
        <3>1. k \in Nodes /\ m \in graph.dependencies[k]
            BY DEF Dependents
        <3>2. states[k] \in Shut
            BY <1>6, <2>2 DEF Done
        <3>3. ASSUME states[k] = "pending" PROVE k \in Blocked(n)
            <4>1. states[m] \notin Lost /\ states[m] # "unselected"
                BY <3>1, <3>3 DEF Inv, FailurePropagated, SelectionClosed, Open
            <4>2. m \in Blocked(n)
                BY <2>2, <4>1 DEF Lost
            <4> QED
                BY <1>4, <2>2, <3>1, <3>3, <4>2 DEF OpenDependents, In, Open
        <3> QED
            BY <3>1, <3>2, <3>3
    <2>3. reached \in SUBSET Nodes /\ \A m \in reached : edges[m] \subseteq reached
        BY <2>2
    <2> HIDE DEF reached, edges
    <2> QED
        BY <1>3, <2>1, <2>3
<1>8. desc \cap In(Open) \subseteq Blocked(n)
    BY <1>7 DEF In, Open
<1> QED
    BY <1>1, <1>4, <1>5, <1>8 DEF In, Open

\* RunState::new starts DagRun on the same graph, targets and capacity.
LEMMA RefinesInit == Init => Dag!Init
<1> SUFFICES ASSUME NEW g \in Topologies, NEW targets \in (SUBSET Nodes) \ {{}},
                    NEW c \in Capacities, New(g, targets, c)
             PROVE  Dag!Init
    BY DEF Init
<1>1. Status = [n \in Nodes |-> IF n \in Select(g, targets) THEN "waiting" ELSE "unselected"]
    BY DEF New, InitialStates, Status, Open
<1>2. Status = [n \in Dag!Nodes |-> IF n \in Dag!Select(g, targets) THEN "waiting" ELSE "unselected"]
    BY <1>1, SameTopology
<1>3. graph = g /\ capacity = c /\ targets \in (SUBSET Dag!Nodes) \ {{}}
    BY SameTopology DEF New
<1> QED
    BY <1>2, <1>3 DEF Dag!Init

\* A batch of admit is a batch of eligible nodes that leaves room for no other.
LEMMA RefinesAdmit ==
    ASSUME Inv, Admit
    PROVE  Dag!Start(Admitted) /\ Admitted \in SUBSET Dag!Eligible
<1>1. /\ Popped \in 0 .. Len(ready)
      /\ Popped = Len(ready) \/ FillsUp(Popped)
      /\ Admitted = {ready[j] : j \in 1 .. Popped}
      /\ Cardinality(Admitted) <= capacity - active
    BY PoppedProperties
<1>2. /\ Admitted # {} /\ graph' = graph /\ capacity' = capacity
      /\ states' = [n \in Nodes |-> IF n \in Admitted THEN "running" ELSE states[n]]
    BY DEF Admit
<1>3. /\ states \in [Nodes -> State] /\ graph.dependencies \in [Nodes -> SUBSET Nodes]
      /\ ready \in Seq(Nodes) /\ Len(ready) \in Nat
      /\ {ready[i] : i \in 1 .. Len(ready)} = In({"ready"})
      /\ active = Cardinality(In({"running"})) /\ active \in Nat
      /\ capacity \in Nat
    BY CapacitiesAssumption DEF Inv, TypeOK, IsTopology, ReadyQueueExact, CountersExact
<1>4. Dag!Eligible = In({"ready"})
    <2>1. Dag!Eligible = {n \in Nodes : states[n] \in Open /\ Missing(n) = {}}
        BY <1>3, SameTopology
        DEF Dag!Eligible, Dag!WithStatus, Dag!HasValue, Status, Missing, Open, Done, State, Lost
    <2> QED
        BY <2>1 DEF Inv, RemainingExact, DependenciesFirst, In, Open
<1>5. Admitted \in SUBSET In({"ready"}) /\ Cardinality(Admitted) \in Nat
    BY <1>1, <1>3, NodesFinite DEF In
<1>6. Dag!WithStatus("running") = In({"running"})
    BY <1>3, SameTopology DEF Dag!WithStatus, Status, In, Open
<1>7. active + Cardinality(Admitted) <= capacity
    BY <1>1, <1>3, <1>5
<1>8. active + Cardinality(Admitted) = capacity \/ Admitted = In({"ready"})
    <2>1. CASE Popped = Len(ready)
        BY <1>1, <1>3, <2>1
    <2>2. CASE FillsUp(Popped)
        BY <1>3, <1>5, <2>2 DEF FillsUp, Admitted
    <2> QED
        BY <1>1, <2>1, <2>2
<1>9. Status' = [n \in Dag!Nodes |-> IF n \in Admitted THEN "running" ELSE Status[n]]
    BY <1>2, <1>3, SameTopology DEF Status, Open
<1> QED
    BY <1>2, <1>3, <1>4, <1>5, <1>6, <1>7, <1>8, <1>9, SameTopology DEF Dag!Start

\* Every step of RunState is a step of DagRun.
LEMMA RefinesNext ==
    ASSUME Inv, [Next]_vars
    PROVE  [Dag!Next]_(Dag!dagVars)
<1>1. /\ states \in [Nodes -> State] /\ Dag!Nodes = Nodes
    BY SameTopology DEF Inv, TypeOK
<1>2. CASE Admit
    BY <1>2, RefinesAdmit DEF Dag!Next
<1>3. CASE Cancel
    <2>1. Status' = [n \in Dag!Nodes |-> IF Status[n] = "waiting" THEN "cancelled" ELSE Status[n]]
        BY <1>1, <1>3 DEF Cancel, Status, Open, State, Done, Lost
    <2> QED
        BY <1>3, <2>1 DEF Dag!Next, Dag!Abandon, Cancel
<1>4. ASSUME NEW n \in Nodes, NEW outcome \in Done, FinishDone(n, outcome)
      PROVE  Dag!Next
    <2>1. Released(n) \subseteq In({"pending"})
        BY DEF Released, Waiting, Dependents, In
    <2>2. states[n] = "running" /\ graph' = graph /\ capacity' = capacity
        BY <1>4 DEF FinishDone
    <2>3. Status[n] = "running" /\ Status' = [Status EXCEPT ![n] = outcome]
        BY <1>1, <1>4, <2>1, <2>2 DEF FinishDone, Status, In, Open, Done
    <2>4. Dag!Succeed(n, outcome)
        BY <2>2, <2>3 DEF Dag!Succeed
    <2> QED
        BY <1>1, <2>4 DEF Dag!Next, Done
<1>5. ASSUME NEW n \in Nodes, NEW outcome \in {"failed", "cancelled"}, FinishLost(n, outcome)
      PROVE  Dag!Next
    <2>1. states[n] = "running" /\ graph' = graph /\ capacity' = capacity
        BY <1>5 DEF FinishLost
    <2>2. Dag!WithStatus("waiting") = In(Open)
        BY <1>1 DEF Dag!WithStatus, Status, In, State, Done, Lost
    <2>3. Blocked(n) = Dag!Descendants(n) \cap Dag!WithStatus("waiting")
        BY <2>1, <2>2, BlockedAreDescendants
    <2>4. Status' = [m \in Nodes |-> IF m = n THEN outcome
                                     ELSE IF m \in Blocked(n) THEN "blocked" ELSE Status[m]]
        BY <1>1, <1>5, <2>1 DEF FinishLost, Status, Open
    <2>5. Dag!Lose(n, outcome)
        BY <1>1, <2>1, <2>3, <2>4 DEF Dag!Lose, Status, Open
    <2> QED
        BY <1>1, <2>5 DEF Dag!Next
<1>6. CASE UNCHANGED vars
    BY <1>6 DEF vars, Dag!dagVars, Status
<1> QED
    BY <1>2, <1>3, <1>4, <1>5, <1>6 DEF Next, Finish

\* RunState keeps the promises of DagRun: work-conserving admission of what
\* the graph makes eligible, and loss of exactly the descendants that wait.
THEOREM Refinement == Spec => ImplementsDagRun
<1>1. Init => Dag!Init
    BY RefinesInit
<1>2. Inv /\ [Next]_vars => [Dag!Next]_(Dag!dagVars)
    BY RefinesNext
<1> QED
    BY <1>1, <1>2, Invariance, PTL DEF Spec, ImplementsDagRun, Dag!Spec
=============================================================================
