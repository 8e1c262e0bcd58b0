---------------------------- MODULE Build_proofs ----------------------------
(***************************************************************************)
(* Builders, their handles and Builder::compile for every number of        *)
(* builders, names and nodes.                                              *)
(*                                                                         *)
(* The first part is about the loop of compile() on any dependency vector. *)
(* Its invariant says that the order lists each placed node after its      *)
(* dependencies, and that the counters and the queue are exact; what the   *)
(* verdict means for cycles is a fact about finite graphs, proved first.   *)
(*                                                                         *)
(* The second part is about what the loop is given.  Its invariant says    *)
(* what a handle is worth: it stands for the node of that name in the      *)
(* builder it came from, and for nothing in any other.  So the lists a     *)
(* builder keeps are what was asked of it, and compile() starts its loop   *)
(* on them.                                                                *)
(***************************************************************************)
EXTENDS Build, Topology_proofs

\* What a node reaches does not grow along an edge.
LEMMA ReachBelow ==
    ASSUME NEW deps \in [Nodes -> SUBSET Nodes], NEW n \in Nodes, NEW d \in deps[n]
    PROVE  Reach(deps[d], deps) \subseteq Reach(deps[n], deps)
<1>1. deps[n] \in SUBSET Nodes /\ deps[d] \in SUBSET Nodes
    OBVIOUS
<1>2. /\ Reach(deps[n], deps) \in SUBSET Nodes
      /\ ClosedUnder(Reach(deps[n], deps), deps)
      /\ d \in Reach(deps[n], deps)
    BY <1>1, ReachProperties
<1>3. deps[d] \subseteq Reach(deps[n], deps)
    BY <1>2 DEF ClosedUnder
<1> QED
    BY <1>1, <1>2, <1>3, ReachProperties

\* In a finite graph, going on from a node to a dependency that lies in B, and
\* from there to another, ends on a cycle.
LEMMA CycleBelow ==
    ASSUME NEW deps \in [Nodes -> SUBSET Nodes], NEW B \in SUBSET Nodes,
           \A m \in B : deps[m] \cap B # {},
           NEW n \in B
    PROVE  \E c \in Reach({n}, deps) : c \in Reach(deps[c], deps)
<1> DEFINE T == B \cap Reach({n}, deps)
           Size(m) == Cardinality(Reach(deps[m], deps))
           Sizes == {Size(m) : m \in T}
<1>1. /\ {n} \in SUBSET Nodes
      /\ Reach({n}, deps) \in SUBSET Nodes
      /\ n \in Reach({n}, deps)
      /\ ClosedUnder(Reach({n}, deps), deps)
    BY ReachProperties
<1>2. T \in SUBSET Nodes /\ n \in T /\ \A m \in T : \E d \in deps[m] : d \in T
    BY <1>1 DEF ClosedUnder
<1>3. \A m \in T : Reach(deps[m], deps) \in SUBSET Nodes /\ Size(m) \in Nat
    <2> SUFFICES ASSUME NEW m \in T
                 PROVE  Reach(deps[m], deps) \in SUBSET Nodes /\ Size(m) \in Nat
        OBVIOUS
    <2>1. deps[m] \in SUBSET Nodes
        BY <1>2
    <2>2. Reach(deps[m], deps) \in SUBSET Nodes
        BY <2>1, ReachProperties
    <2> QED
        BY <2>2, NodesFinite
<1>4. PICK c \in T : \A m \in T : Size(c) <= Size(m)
    <2>1. Sizes \in SUBSET Nat /\ Sizes # {}
        BY <1>2, <1>3
    <2>2. PICK x \in Sizes : \A y \in Sizes : x <= y
        BY <2>1, LeastNat
    <2> QED
        BY <2>2
<1>5. PICK d \in deps[c] : d \in T
    BY <1>2
<1>6. Reach(deps[d], deps) = Reach(deps[c], deps)
    <2>1. Reach(deps[d], deps) \subseteq Reach(deps[c], deps)
        BY <1>2, <1>5, ReachBelow
    <2>2. /\ IsFiniteSet(Reach(deps[c], deps))
          /\ Reach(deps[d], deps) \in SUBSET Nodes
        BY <1>3, <1>5, NodesFinite
    <2>3. Size(c) <= Size(d)
        BY <1>4, <1>5
    <2>4. ASSUME NEW X \in SUBSET Nodes, NEW Y \in SUBSET Nodes,
                 Y \subseteq X, Cardinality(X) <= Cardinality(Y)
          PROVE  Y = X
        <3>1. Cardinality(X \ Y) = Cardinality(X) - Cardinality(Y) /\ X \ Y \in SUBSET Nodes
            BY <2>4, NodesCounted
        <3>2. Cardinality(X) \in Nat /\ Cardinality(Y) \in Nat /\ Cardinality(X \ Y) \in Nat
            BY <3>1, NodesFinite
        <3>3. Cardinality(X \ Y) = 0
            BY <2>4, <3>1, <3>2
        <3>4. X \ Y = {}
            BY <3>1, <3>3, NodesCounted
        <3> QED
            BY <2>4, <3>4
    <2>5. Reach(deps[c], deps) \in SUBSET Nodes
        BY <1>3
    <2> QED
        BY <2>1, <2>2, <2>3, <2>4, <2>5
<1>7. d \in Reach(deps[c], deps)
    <2>1. deps[c] \in SUBSET Nodes
        BY <1>2
    <2> QED
        BY <1>5, <2>1, ReachProperties
<1> QED
    BY <1>1, <1>2, <1>5, <1>6, <1>7 DEF ClosedUnder

-----------------------------------------------------------------------------
\* Every node of the order comes after all it depends on.
DependenciesFirst ==
    \A i \in DOMAIN order : \A d \in dependencies[order[i]] :
        \E j \in DOMAIN order : j < i /\ order[j] = d

\* The loop ends with an empty queue, and the verdict says whether the order is
\* complete.
VerdictExact ==
    /\ verdict # "running" => ready = <<>>
    /\ verdict = "compiled" => Len(order) = N
    /\ verdict = "refused" => Len(order) # N

LoopInv ==
    /\ TypeOK
    /\ LineExact
    /\ Len(order) = Cardinality(Entries(order))
    /\ DependenciesFirst
    /\ VerdictExact

\* The counters and the queue with which compile() enters its loop.
Entered ==
    /\ dependencies \in [Nodes -> SUBSET Nodes]
    /\ remaining = Counts(dependencies)
    /\ ready = Listed({n \in Nodes : dependencies[n] = {}}, Index)
    /\ order = <<>> /\ verdict = "running"

LEMMA EnteredLoopInv == Entered => LoopInv
<1> SUFFICES ASSUME Entered PROVE LoopInv
    OBVIOUS
<1> DEFINE roots == {n \in Nodes : dependencies[n] = {}}
<1>1. /\ dependencies \in [Nodes -> SUBSET Nodes]
      /\ remaining = [n \in Nodes |-> Cardinality(dependencies[n])]
      /\ ready = Listed(roots, Index)
      /\ order = <<>> /\ verdict = "running"
    BY DEF Entered, Counts
<1>2. /\ ready \in Seq(Nodes) /\ Distinct(ready) /\ Entries(ready) = roots
    <2>1. /\ ready \in Seq(Nodes)
          /\ DOMAIN ready = 1 .. Cardinality(roots)
          /\ \A i, j \in 1 .. Cardinality(roots) : ready[i] = ready[j] => i = j
          /\ {ready[i] : i \in 1 .. Cardinality(roots)} = roots
        <3>1. roots \in SUBSET Nodes
            OBVIOUS
        <3> HIDE DEF roots
        <3> QED
            BY <1>1, <3>1, IndexIsKey, ListedProperties
    <2> HIDE DEF roots
    <2> QED
        BY <2>1 DEF Distinct, Entries
<1>3. /\ order \in Seq(Nodes) /\ Len(order) = 0 /\ DOMAIN order = {}
      /\ Entries(order) = {} /\ Distinct(order)
    BY <1>1 DEF Entries, Distinct
<1>4. \A n \in Nodes : remaining[n] = Cardinality(dependencies[n]) /\ dependencies[n] \in SUBSET Nodes
    BY <1>1
<1>5. TypeOK
    BY <1>1, <1>2, <1>3, <1>4, NodesFinite DEF TypeOK
<1>6. LineExact
    <2>1. {n \in Nodes : remaining[n] = 0} = roots
        BY <1>4, NodesCounted
    <2>2. \A n \in Nodes : dependencies[n] \ Entries(order) = dependencies[n]
        BY <1>3
    <2> HIDE DEF roots
    <2> QED
        BY <1>2, <1>3, <1>4, <2>1, <2>2 DEF LineExact
<1>7. Len(order) = Cardinality(Entries(order))
    BY <1>3, NodesCounted
<1> QED
    BY <1>1, <1>3, <1>5, <1>6, <1>7 DEF LoopInv, DependenciesFirst, VerdictExact

LEMMA InitLoopInv == Init => LoopInv
BY VectorsAssumption, EnteredLoopInv DEF Init, Entered

\* One turn of the loop.
LEMMA PopKeepsLoopInv ==
    ASSUME LoopInv, Pop
    PROVE  LoopInv'
<1> DEFINE node == Head(ready)
           freed == Listed(Released(node), Index)
<1>1. /\ dependencies \in [Nodes -> SUBSET Nodes]
      /\ remaining \in [Nodes -> 0 .. N]
      /\ order \in Seq(Nodes) /\ ready \in Seq(Nodes) /\ ready # <<>>
      /\ Distinct(order) /\ Distinct(ready)
      /\ Entries(order) \cap Entries(ready) = {}
      /\ Entries(order) \cup Entries(ready) = {n \in Nodes : remaining[n] = 0}
      /\ \A n \in Nodes : remaining[n] = Cardinality(dependencies[n] \ Entries(order))
      /\ verdict = "running"
    BY DEF Pop, LoopInv, TypeOK, LineExact
<1>2. /\ node \in Entries(ready)
      /\ Tail(ready) \in Seq(Nodes) /\ Distinct(Tail(ready))
      /\ Entries(Tail(ready)) = Entries(ready) \ {node}
    BY <1>1, TailOfQueue
<1>3. node \in Nodes /\ node \notin Entries(order) /\ Entries(order) \in SUBSET Nodes
    BY <1>1, <1>2
<1>4. /\ order' = Append(order, node)
      /\ remaining' = [m \in Nodes |-> IF m \in Above(node) THEN remaining[m] - 1 ELSE remaining[m]]
      /\ ready' = Tail(ready) \o freed
      /\ dependencies' = dependencies /\ verdict' = verdict
    BY DEF Pop
<1>5. Released(node) = {m \in Nodes : node \in dependencies[m] /\ remaining[m] = 1}
    BY DEF Released, Above
<1>6. /\ freed \in Seq(Nodes) /\ Distinct(freed) /\ Entries(freed) = Released(node)
    <2> DEFINE F == Released(node)
    <2>1. F \in SUBSET Nodes
        BY <1>5
    <2> HIDE DEF F
    <2>2. /\ Listed(F, Index) \in Seq(Nodes)
          /\ DOMAIN Listed(F, Index) = 1 .. Cardinality(F)
          /\ \A i, j \in 1 .. Cardinality(F) : Listed(F, Index)[i] = Listed(F, Index)[j] => i = j
          /\ {Listed(F, Index)[i] : i \in 1 .. Cardinality(F)} = F
        BY <2>1, IndexIsKey, ListedProperties
    <2>3. Distinct(Listed(F, Index)) /\ Entries(Listed(F, Index)) = F
        BY <2>2 DEF Distinct, Entries
    <2> QED
        BY <2>2, <2>3 DEF F
<1> HIDE DEF node, freed
<1>7. /\ order' \in Seq(Nodes) /\ Distinct(order') /\ Entries(order') = Entries(order) \cup {node}
    BY <1>1, <1>3, <1>4, QueueAppended
<1>8. \A m \in Nodes :
          /\ remaining'[m] = Cardinality(dependencies[m] \ Entries(order'))
          /\ node \in dependencies[m] => remaining[m] >= 1
    <2> SUFFICES ASSUME NEW m \in Nodes
                 PROVE  /\ remaining'[m] = Cardinality(dependencies[m] \ Entries(order'))
                        /\ node \in dependencies[m] => remaining[m] >= 1
        OBVIOUS
    <2> DEFINE missing == dependencies[m] \ Entries(order)
    <2>1. missing \in SUBSET Nodes /\ Cardinality(missing) = remaining[m] /\ remaining[m] \in Nat
        BY <1>1
    <2>2. dependencies[m] \ Entries(order') = missing \ {node}
        BY <1>7
    <2>3. CASE node \in dependencies[m]
        <3>1. node \in missing
            BY <1>3, <2>3
        <3>2. Cardinality(missing \ {node}) = Cardinality(missing) - 1 /\ missing # {}
            BY <2>1, <3>1, NodesCounted
        <3>3. Cardinality(missing) # 0
            BY <2>1, <3>2, NodesCounted
        <3>4. remaining'[m] = remaining[m] - 1
            BY <1>4, <2>3 DEF Above
        <3> HIDE DEF missing
        <3> QED
            BY <2>1, <2>2, <3>2, <3>3, <3>4
    <2>4. CASE node \notin dependencies[m]
        <3>1. missing \ {node} = missing
            BY <2>4
        <3>2. remaining'[m] = remaining[m]
            BY <1>4, <2>4 DEF Above
        <3> HIDE DEF missing
        <3> QED
            BY <2>1, <2>2, <2>4, <3>1, <3>2
    <2> QED
        BY <2>3, <2>4
<1>9. remaining' \in [Nodes -> 0 .. N]
    <2>1. \A m \in Nodes : remaining'[m] \in 0 .. N
        BY <1>1, <1>8, NodesFinite
    <2> QED
        BY <1>4, <2>1
<1>10. {m \in Nodes : remaining'[m] = 0} = {m \in Nodes : remaining[m] = 0} \cup Released(node)
    <2>1. ASSUME NEW m \in Nodes PROVE remaining'[m] = 0 <=> remaining[m] = 0 \/ m \in Released(node)
        <3>1. CASE node \in dependencies[m]
            <4>1. remaining'[m] = remaining[m] - 1
                BY <1>4, <3>1 DEF Above
            <4>2. remaining[m] >= 1
                BY <1>8, <3>1
            <4>3. remaining[m] \in Nat
                BY <1>1, NAssumption
            <4> QED
                BY <1>5, <3>1, <4>1, <4>2, <4>3
        <3>2. CASE node \notin dependencies[m]
            BY <1>4, <1>5, <3>2 DEF Above
        <3> QED
            BY <3>1, <3>2
    <2> QED
        BY <1>5, <2>1
<1>11. Entries(Tail(ready)) \cap Entries(freed) = {}
    <2>1. \A m \in Entries(Tail(ready)) : remaining[m] = 0
        BY <1>1, <1>2
    <2> QED
        BY <1>5, <1>6, <2>1
<1>12. /\ ready' \in Seq(Nodes) /\ Distinct(ready')
       /\ Entries(ready') = Entries(Tail(ready)) \cup Entries(freed)
    <2> DEFINE s == Tail(ready)
    <2>1. s \in Seq(Nodes) /\ Distinct(s) /\ Entries(s) \cap Entries(freed) = {}
        BY <1>2, <1>11
    <2> HIDE DEF s
    <2>2. DOMAIN s = 1 .. Len(s) /\ DOMAIN freed = 1 .. Len(freed)
        BY <1>6, <2>1, LenProperties
    <2>3. /\ \A i, j \in 1 .. Len(s) : s[i] = s[j] => i = j
          /\ \A i, j \in 1 .. Len(freed) : freed[i] = freed[j] => i = j
          /\ {s[i] : i \in 1 .. Len(s)} \cap {freed[i] : i \in 1 .. Len(freed)} = {}
        BY <1>6, <2>1, <2>2 DEF Distinct, Entries
    <2>4. /\ s \o freed \in Seq(Nodes)
          /\ \A i, j \in DOMAIN (s \o freed) : (s \o freed)[i] = (s \o freed)[j] => i = j
          /\ {(s \o freed)[i] : i \in DOMAIN (s \o freed)} =
                {s[i] : i \in 1 .. Len(s)} \cup {freed[i] : i \in 1 .. Len(freed)}
        BY <1>6, <2>1, <2>3, AppendedQueue
    <2>5. ready' = s \o freed
        BY <1>4 DEF s
    <2>6. Distinct(ready') /\ Entries(ready') = Entries(s) \cup Entries(freed)
        BY <2>2, <2>4, <2>5 DEF Distinct, Entries
    <2> QED
        BY <2>4, <2>5, <2>6 DEF s
<1>13. TypeOK'
    BY <1>1, <1>4, <1>7, <1>9, <1>12 DEF TypeOK
<1>14. LineExact'
    <2>1. Entries(order') \cap Entries(ready') = {}
        <3>1. \A m \in Released(node) : m \notin Entries(order) /\ m # node
            BY <1>1, <1>2, <1>5
        <3> QED
            BY <1>1, <1>2, <1>6, <1>7, <1>12, <3>1
    <2>2. Entries(order') \cup Entries(ready') = {m \in Nodes : remaining'[m] = 0}
        <3>1. Entries(order') \cup Entries(ready') = (Entries(order) \cup Entries(ready)) \cup Released(node)
            BY <1>2, <1>6, <1>7, <1>12
        <3> QED
            BY <1>1, <1>10, <3>1
    <2> QED
        BY <1>4, <1>7, <1>8, <1>12, <2>1, <2>2 DEF LineExact
<1>15. Len(order') = Cardinality(Entries(order'))
    <2>1. Len(order) = Cardinality(Entries(order))
        BY DEF LoopInv
    <2>2. Len(order') = Len(order) + 1
        BY <1>1, <1>3, <1>4, AppendProperties
    <2>3. {node} \in SUBSET Nodes /\ Cardinality({node}) = 1 /\ Entries(order) \cap {node} = {}
        BY <1>3, NodesCounted
    <2>4. Cardinality(Entries(order) \cup {node}) = Cardinality(Entries(order)) + Cardinality({node})
        BY <1>3, <2>3, NodesCounted
    <2> QED
        BY <1>7, <2>1, <2>2, <2>3, <2>4
<1>16. DependenciesFirst'
    <2>1. /\ Len(order) \in Nat /\ DOMAIN order = 1 .. Len(order) /\ DOMAIN order' = 1 .. Len(order) + 1
          /\ \A i \in 1 .. Len(order) : order'[i] = order[i]
          /\ order'[Len(order) + 1] = node
        BY <1>1, <1>3, <1>4, AppendProperties, LenProperties
    <2>2. \A d \in dependencies[node] : d \in Entries(order)
        <3>1. remaining[node] = 0 /\ dependencies[node] \ Entries(order) \in SUBSET Nodes
            BY <1>1, <1>2, <1>3
        <3>2. dependencies[node] \ Entries(order) = {}
            BY <1>1, <1>3, <3>1, NodesCounted
        <3> QED
            BY <3>2
    <2> SUFFICES ASSUME NEW i \in DOMAIN order', NEW d \in dependencies'[order'[i]]
                 PROVE  \E j \in DOMAIN order' : j < i /\ order'[j] = d
        BY DEF DependenciesFirst
    <2>3. CASE i \in 1 .. Len(order)
        <3>1. PICK j \in DOMAIN order : j < i /\ order[j] = d
            BY <1>4, <2>1, <2>3 DEF LoopInv, DependenciesFirst
        <3> QED
            BY <2>1, <2>3, <3>1
    <2>4. CASE i = Len(order) + 1
        <3>1. PICK j \in DOMAIN order : order[j] = d
            BY <1>4, <2>1, <2>2, <2>4 DEF Entries
        <3> QED
            BY <2>1, <2>4, <3>1
    <2> QED
        BY <2>1, <2>3, <2>4
<1>17. VerdictExact'
    BY <1>1, <1>4 DEF VerdictExact
<1> QED
    BY <1>13, <1>14, <1>15, <1>16, <1>17 DEF LoopInv

\* The loop keeps its invariant, and so does the return.
LEMMA NextLoopInv == LoopInv /\ [Next]_vars => LoopInv'
<1> SUFFICES ASSUME LoopInv, [Next]_vars PROVE LoopInv'
    OBVIOUS
<1>1. CASE Pop
    BY <1>1, PopKeepsLoopInv
<1>2. CASE Return
    <2>1. /\ UNCHANGED <<dependencies, remaining, ready, order>> /\ ready = <<>>
          /\ verdict' = IF Len(order) = N THEN "compiled" ELSE "refused"
        BY <1>2 DEF Return, AllPlaced
    <2> QED
        BY <2>1 DEF LoopInv, TypeOK, LineExact, DependenciesFirst, VerdictExact
<1>3. CASE UNCHANGED vars
    BY <1>3 DEF vars, LoopInv, TypeOK, LineExact, DependenciesFirst, VerdictExact
<1> QED
    BY <1>1, <1>2, <1>3 DEF Next

\* The loop invariant holds throughout.
THEOREM SpecLoopInv == Spec => []LoopInv
BY InitLoopInv, NextLoopInv, PTL DEF Spec

\* The counters stay counters and the queue holds nodes.
THEOREM SpecTypeOK == Spec => []TypeOK
BY SpecLoopInv, PTL DEF LoopInv

\* Order and queue hold each node whose dependencies have been placed, once.
THEOREM SpecLineExact == Spec => []LineExact
BY SpecLoopInv, PTL DEF LoopInv

-----------------------------------------------------------------------------
\* The nodes that are not placed, when the loop has ended: each misses another
\* of them.
LEMMA BlockedNodes ==
    ASSUME LoopInv, verdict # "running"
    PROVE  /\ Entries(order) \in SUBSET Nodes
           /\ ClosedUnder(Entries(order), dependencies)
           /\ Named = Nodes \ Entries(order)
           /\ \A m \in Nodes \ Entries(order) : dependencies[m] \cap (Nodes \ Entries(order)) # {}
           /\ verdict = "compiled" => Entries(order) = Nodes
           /\ verdict = "refused" => Entries(order) # Nodes
<1>1. /\ dependencies \in [Nodes -> SUBSET Nodes] /\ remaining \in [Nodes -> 0 .. N]
      /\ order \in Seq(Nodes) /\ ready = <<>>
      /\ Entries(order) \cup Entries(ready) = {n \in Nodes : remaining[n] = 0}
      /\ \A n \in Nodes : remaining[n] = Cardinality(dependencies[n] \ Entries(order))
      /\ Len(order) = Cardinality(Entries(order))
      /\ verdict = "compiled" => Len(order) = N
      /\ verdict = "refused" => Len(order) # N
    BY DEF LoopInv, TypeOK, LineExact, VerdictExact
<1>2. Entries(order) = {n \in Nodes : remaining[n] = 0}
    BY <1>1 DEF Entries
<1>3. \A n \in Nodes : remaining[n] = 0 <=> dependencies[n] \subseteq Entries(order)
    <2> SUFFICES ASSUME NEW n \in Nodes
                 PROVE  remaining[n] = 0 <=> dependencies[n] \subseteq Entries(order)
        OBVIOUS
    <2>1. dependencies[n] \ Entries(order) \in SUBSET Nodes
        BY <1>1
    <2>2. remaining[n] = 0 <=> dependencies[n] \ Entries(order) = {}
        BY <1>1, <2>1, NodesCounted
    <2> QED
        BY <2>2
<1>4. ClosedUnder(Entries(order), dependencies)
    BY <1>2, <1>3 DEF ClosedUnder
<1>5. Named = Nodes \ Entries(order)
    <2>1. \A n \in Nodes : remaining[n] > 0 <=> remaining[n] # 0
        BY <1>1, NAssumption
    <2> QED
        BY <1>2, <2>1 DEF Named
<1>6. \A m \in Nodes \ Entries(order) : dependencies[m] \cap (Nodes \ Entries(order)) # {}
    BY <1>1, <1>2, <1>3
<1>7. Entries(order) = Nodes <=> Len(order) = N
    <2> DEFINE P == Entries(order)
    <2>1. P \in SUBSET Nodes /\ Nodes \in SUBSET Nodes /\ Cardinality(Nodes) = N
        BY <1>2, FS_Interval, NAssumption DEF Nodes
    <2>2. Cardinality(Nodes \ P) = N - Cardinality(P) /\ Cardinality(P) \in Nat
        BY <2>1, NodesCounted, NodesFinite
    <2>3. Nodes \ P = {} <=> Cardinality(Nodes \ P) = 0
        BY NodesCounted
    <2>4. P = Nodes <=> Nodes \ P = {}
        BY <2>1
    <2> HIDE DEF P
    <2>5. P = Nodes <=> Cardinality(P) = N
        BY <2>2, <2>3, <2>4, NAssumption
    <2> QED
        BY <1>1, <2>5 DEF P
<1> QED
    BY <1>1, <1>2, <1>4, <1>5, <1>6, <1>7

\* No placed node is on a cycle: what it depends on was placed before it.
LEMMA PlacedNotOnCycle ==
    ASSUME LoopInv, NEW n \in Entries(order)
    PROVE  ~ OnCycle(n)
<1>1. /\ dependencies \in [Nodes -> SUBSET Nodes] /\ order \in Seq(Nodes) /\ Distinct(order)
    BY DEF LoopInv, TypeOK, LineExact
<1>2. PICK i \in DOMAIN order : order[i] = n
    BY DEF Entries
<1>3. /\ DOMAIN order = 1 .. Len(order) /\ Len(order) \in Nat
      /\ \A j \in DOMAIN order : order[j] \in Nodes
    BY <1>1, LenProperties, ElementOfSeq
<1> DEFINE before == {order[j] : j \in {k \in DOMAIN order : k < i}}
<1>4. before \in SUBSET Nodes
    BY <1>3
<1>5. ASSUME NEW j \in DOMAIN order, j <= i
      PROVE  dependencies[order[j]] \subseteq before
    <2> SUFFICES ASSUME NEW d \in dependencies[order[j]] PROVE d \in before
        OBVIOUS
    <2>1. PICK k \in DOMAIN order : k < j /\ order[k] = d
        BY DEF LoopInv, DependenciesFirst
    <2>2. k < i
        BY <1>3, <1>5, <2>1
    <2> QED
        BY <2>1, <2>2
<1>6. ClosedUnder(before, dependencies) /\ dependencies[n] \subseteq before
    BY <1>2, <1>3, <1>5 DEF ClosedUnder
<1>7. n \notin before
    BY <1>1, <1>2, <1>3 DEF Distinct
<1>8. n \in Nodes /\ dependencies[n] \in SUBSET Nodes
    BY <1>1, <1>2, <1>3
<1> HIDE DEF before
<1>9. Reach(dependencies[n], dependencies) \subseteq before
    BY <1>1, <1>4, <1>6, <1>8, ReachProperties
<1> QED
    BY <1>7, <1>9 DEF OnCycle

\* A graph is refused exactly if it has a cycle.
LEMMA LoopRefuses == LoopInv => RefusesExactlyCycles
<1> SUFFICES ASSUME LoopInv, verdict # "running"
             PROVE  verdict = "refused" <=> \E n \in Nodes : OnCycle(n)
    BY DEF RefusesExactlyCycles
<1>1. dependencies \in [Nodes -> SUBSET Nodes] /\ verdict \in {"running", "compiled", "refused"}
    BY DEF LoopInv, TypeOK
<1>2. CASE verdict = "refused"
    <2> DEFINE B == Nodes \ Entries(order)
    <2>1. B \in SUBSET Nodes /\ B # {} /\ \A m \in B : dependencies[m] \cap B # {}
        BY <1>2, BlockedNodes
    <2>2. PICK n \in B : TRUE
        BY <2>1
    <2>3. n \in Nodes /\ {n} \in SUBSET Nodes
        BY <2>2
    <2> HIDE DEF B
    <2>4. \E c \in Reach({n}, dependencies) : c \in Reach(dependencies[c], dependencies)
        BY <1>1, <2>1, <2>2, CycleBelow
    <2>5. Reach({n}, dependencies) \subseteq Nodes
        BY <1>1, <2>3, ReachProperties
    <2> QED
        BY <1>2, <2>4, <2>5 DEF OnCycle
<1>3. CASE verdict = "compiled"
    <2>1. Entries(order) = Nodes
        BY <1>3, BlockedNodes
    <2> QED
        BY <1>3, <2>1, PlacedNotOnCycle
<1> QED
    BY <1>1, <1>2, <1>3

\* A compiled graph has no cycle and a refused one has one, wherever it is.
THEOREM SpecRefusesExactlyCycles == Spec => []RefusesExactlyCycles
BY SpecLoopInv, LoopRefuses, PTL

\* The nodes named are those on a cycle and those that depend on one.
LEMMA LoopNames == LoopInv => NamesBlockedNodes
<1> SUFFICES ASSUME LoopInv, verdict = "refused", NEW n \in Nodes
             PROVE  n \in Named <=> \E c \in Reach({n}, dependencies) : OnCycle(c)
    BY DEF NamesBlockedNodes, Named
<1> DEFINE P == Entries(order)
           B == Nodes \ P
<1>1. dependencies \in [Nodes -> SUBSET Nodes]
    BY DEF LoopInv, TypeOK
<1>2. /\ P \in SUBSET Nodes /\ B \in SUBSET Nodes /\ ClosedUnder(P, dependencies) /\ Named = B
      /\ \A m \in B : dependencies[m] \cap B # {}
    BY BlockedNodes
<1>3. \A c \in P : ~ OnCycle(c)
    BY PlacedNotOnCycle
<1>4. n \in B <=> n \notin P
    OBVIOUS
<1> HIDE DEF P, B
<1>5. CASE n \in B
    <2>1. \E c \in Reach({n}, dependencies) : c \in Reach(dependencies[c], dependencies)
        BY <1>1, <1>2, <1>5, CycleBelow
    <2> QED
        BY <1>2, <1>5, <2>1 DEF OnCycle
<1>6. CASE n \in P
    <2>1. {n} \in SUBSET Nodes /\ {n} \subseteq P
        BY <1>6
    <2>2. Reach({n}, dependencies) \subseteq P
        BY <1>1, <1>2, <2>1, ReachProperties
    <2> QED
        BY <1>2, <1>3, <1>4, <1>6, <2>2
<1> QED
    BY <1>4, <1>5, <1>6

\* The error names the nodes on cycles and their descendants, and no others.
THEOREM SpecNamesBlockedNodes == Spec => []NamesBlockedNodes
BY SpecLoopInv, LoopNames, PTL

\* What is returned has every property RunState assumes of a topology.
LEMMA LoopReturnsTopology == LoopInv => ReturnsTopology
<1> SUFFICES ASSUME LoopInv, verdict = "compiled" PROVE IsTopology(Returned)
    BY DEF ReturnsTopology
<1> DEFINE place(n) == CHOOSE i \in 1 .. N : order[i] = n
<1>1. /\ dependencies \in [Nodes -> SUBSET Nodes] /\ order \in Seq(Nodes) /\ Distinct(order)
      /\ Len(order) = N
    BY DEF LoopInv, TypeOK, LineExact, VerdictExact
<1>2. DOMAIN order = 1 .. N
    BY <1>1, LenProperties
<1>3. Entries(order) = Nodes
    BY BlockedNodes
<1>4. \A n \in Nodes : place(n) \in 1 .. N /\ order[place(n)] = n
    BY <1>2, <1>3 DEF Entries
<1>5. \A i \in 1 .. N : order[i] \in Nodes /\ place(order[i]) = i
    BY <1>1, <1>2, <1>3, <1>4 DEF Distinct, Entries
<1>6. /\ Returned.dependencies = dependencies
      /\ Returned.position = [n \in Nodes |-> place(n) - 1]
      /\ Returned = [dependencies |-> Returned.dependencies, position |-> Returned.position]
    BY DEF Returned
<1> HIDE DEF place
<1>7. Returned.position \in [Nodes -> Nodes]
    <2>1. \A n \in Nodes : place(n) - 1 \in Nodes
        BY <1>4, NAssumption DEF Nodes
    <2> QED
        BY <1>6, <2>1
<1>8. ASSUME NEW m \in Nodes, NEW n \in Nodes, Returned.position[m] = Returned.position[n]
      PROVE  m = n
    <2>1. place(m) - 1 = place(n) - 1 /\ place(m) \in Int /\ place(n) \in Int
        BY <1>4, <1>6, <1>8, NAssumption
    <2>2. place(m) = place(n)
        BY <2>1
    <2> QED
        BY <1>4, <2>2
<1>9. ASSUME NEW n \in Nodes, NEW d \in dependencies[n]
      PROVE  Returned.position[d] < Returned.position[n]
    <2>1. PICK j \in 1 .. N : j < place(n) /\ order[j] = d
        BY <1>2, <1>4 DEF LoopInv, DependenciesFirst
    <2>2. d \in Nodes /\ place(d) = j
        BY <1>5, <2>1
    <2>3. Returned.position[d] = j - 1 /\ Returned.position[n] = place(n) - 1
        BY <1>6, <2>2
    <2> QED
        BY <1>4, <2>1, <2>3, NAssumption
<1> QED
    BY <1>1, <1>6, <1>7, <1>8, <1>9 DEF IsTopology

\* compile() returns topologies: the assumption RunState makes of its argument.
THEOREM SpecReturnsTopology == Spec => []ReturnsTopology
BY SpecLoopInv, LoopReturnsTopology, PTL

-----------------------------------------------------------------------------
Lists == [owner : Nat, names : Seq(Names), dependencies : Seq(Seq(Nat)), edges : SUBSET (Nat \X Nat)]

Handles == [id : [owner : Nat, index : Nat], from : Nat, name : Names]

BuilderTyped ==
    /\ nextGraph \in Nat
    /\ builders \in Seq(Lists)
    /\ handles \subseteq Handles

\* No two builders have the same owner, now or later.
OwnersApart ==
    \A b \in Made :
        /\ builders[b].owner < nextGraph
        /\ \A c \in Made : builders[b].owner = builders[c].owner => b = c

NamesApart ==
    \A b \in Made :
        /\ Distinct(builders[b].names)
        /\ Len(builders[b].dependencies) = Len(builders[b].names)

\* A handle stands for the node of its name in its own builder.
HandleTrue(h) ==
    /\ h.from \in Made
    /\ h.id.owner = builders[h.from].owner
    /\ h.id.index < Len(builders[h.from].names)
    /\ NameAt(h.from, h.id.index) = h.name

HandlesTrue == \A h \in handles : HandleTrue(h)

GrantedWithin ==
    \A pair \in granted : pair \in handles \X handles /\ pair[1].from = pair[2].from

Granted(b, i, d) ==
    \E pair \in granted :
        /\ pair[1].from = b /\ pair[1].id.index = i
        /\ pair[2].from = b /\ pair[2].id.index = d

\* The set and the lists of a builder hold what was granted.
ListsMeant ==
    \A b \in Made : \A i, d \in Nat :
        /\ <<i, d>> \in builders[b].edges <=> Granted(b, i, d)
        /\ i < Len(builders[b].names) =>
               (d \in Entries(builders[b].dependencies[i + 1]) <=> Granted(b, i, d))

BuilderInv ==
    BuilderTyped /\ OwnersApart /\ NamesApart /\ HandlesTrue /\ GrantedWithin /\ ListsMeant

\* compile() works on the lists of one builder, which stay as they are.
CompilingInv ==
    /\ compiling = 0 => order = <<>> /\ verdict = "running"
    /\ compiling # 0 =>
           /\ compiling \in Made /\ Len(builders[compiling].names) = N
           /\ dependencies = Vector(compiling)
           /\ LoopInv

BuildInv == BuilderInv /\ CompilingInv

-----------------------------------------------------------------------------
LEMMA MadeProperties ==
    ASSUME BuilderTyped
    PROVE  /\ Len(builders) \in Nat
           /\ \A b \in Made :
                  /\ b \in Nat \ {0} /\ builders[b] \in Lists
                  /\ builders[b].owner \in Nat
                  /\ builders[b].names \in Seq(Names) /\ Len(builders[b].names) \in Nat
                  /\ DOMAIN builders[b].names = 1 .. Len(builders[b].names)
                  /\ builders[b].dependencies \in Seq(Seq(Nat))
                  /\ DOMAIN builders[b].dependencies = 1 .. Len(builders[b].dependencies)
                  /\ builders[b].edges \in SUBSET (Nat \X Nat)
<1>1. builders \in Seq(Lists)
    BY DEF BuilderTyped
<1>2. Len(builders) \in Nat /\ DOMAIN builders = 1 .. Len(builders)
    BY <1>1, LenProperties
<1>3. ASSUME NEW b \in Made
      PROVE  b \in Nat \ {0} /\ builders[b] \in Lists
    BY <1>1, <1>2 DEF Made
<1>4. ASSUME NEW x \in Lists
      PROVE  /\ x.owner \in Nat
             /\ x.names \in Seq(Names) /\ Len(x.names) \in Nat /\ DOMAIN x.names = 1 .. Len(x.names)
             /\ x.dependencies \in Seq(Seq(Nat)) /\ DOMAIN x.dependencies = 1 .. Len(x.dependencies)
             /\ x.edges \in SUBSET (Nat \X Nat)
    <2>1. /\ x.owner \in Nat /\ x.names \in Seq(Names) /\ x.dependencies \in Seq(Seq(Nat))
          /\ x.edges \in SUBSET (Nat \X Nat)
        BY DEF Lists
    <2> QED
        BY <2>1, LenProperties
<1> QED
    BY <1>2, <1>3, <1>4

\* What push does to a list.
LEMMA Pushed ==
    ASSUME NEW S, NEW q \in Seq(S), NEW e \in S
    PROVE  /\ Append(q, e) \in Seq(S) /\ Len(q) \in Nat
           /\ Len(Append(q, e)) = Len(q) + 1
           /\ DOMAIN Append(q, e) = 1 .. Len(q) + 1
           /\ Append(q, e)[Len(q) + 1] = e
           /\ \A i \in 1 .. Len(q) : Append(q, e)[i] = q[i]
           /\ Entries(Append(q, e)) = Entries(q) \cup {e}
<1>1. /\ Len(q) \in Nat /\ DOMAIN q = 1 .. Len(q)
      /\ Append(q, e) \in Seq(S) /\ Len(Append(q, e)) = Len(q) + 1
      /\ Append(q, e)[Len(q) + 1] = e
      /\ \A i \in 1 .. Len(q) : Append(q, e)[i] = q[i]
    BY AppendProperties, LenProperties
<1> DEFINE new == Append(q, e)
<1>2. DOMAIN new = 1 .. Len(q) + 1
    BY <1>1, LenProperties
<1> HIDE DEF new
<1>3. {new[i] : i \in DOMAIN new} = {q[i] : i \in DOMAIN q} \cup {e}
    BY <1>1, <1>2 DEF new
<1> QED
    BY <1>1, <1>2, <1>3 DEF Entries, new

\* No builder, no handle.
LEMMA InitBuilderInv == BuilderInit => BuilderInv
<1> SUFFICES ASSUME BuilderInit PROVE BuilderInv
    OBVIOUS
<1>1. nextGraph = 1 /\ builders = <<>> /\ handles = {} /\ granted = {} /\ Made = {}
    BY DEF BuilderInit, Made
<1> QED
    BY <1>1 DEF BuilderInv, BuilderTyped, OwnersApart, NamesApart, HandlesTrue, GrantedWithin, ListsMeant

\* Builder::new takes an owner nobody has.
LEMMA NewKeeps ==
    ASSUME BuilderInv, New
    PROVE  BuilderInv'
<1> DEFINE fresh == [owner |-> nextGraph, names |-> <<>>, dependencies |-> <<>>, edges |-> {}]
           top == Len(builders) + 1
<1>1. /\ builders' = Append(builders, fresh) /\ nextGraph' = nextGraph + 1
      /\ handles' = handles /\ granted' = granted
    BY DEF New
<1>2. BuilderTyped /\ builders \in Seq(Lists) /\ nextGraph \in Nat /\ handles \subseteq Handles
    BY DEF BuilderInv, BuilderTyped
<1>3. fresh \in Lists
    BY <1>2 DEF Lists
<1> HIDE DEF fresh
<1>4. /\ builders' \in Seq(Lists) /\ Len(builders') = top /\ Len(builders) \in Nat
      /\ builders'[top] = fresh
      /\ \A b \in 1 .. Len(builders) : builders'[b] = builders[b]
    BY <1>1, <1>2, <1>3, AppendProperties
<1>5. /\ Made' = Made \cup {top} /\ top \notin Made /\ Made = 1 .. Len(builders)
      /\ \A b \in Made : builders'[b] = builders[b]
    BY <1>4 DEF Made
<1>6. /\ fresh.owner = nextGraph /\ fresh.names = <<>> /\ fresh.dependencies = <<>>
      /\ fresh.edges = {}
    BY DEF fresh
<1> HIDE DEF top
<1>7. BuilderTyped'
    BY <1>1, <1>2, <1>4 DEF BuilderTyped
<1>8. OwnersApart'
    <2>1. \A b \in Made : /\ builders[b].owner < nextGraph /\ builders[b].owner \in Nat
                          /\ \A c \in Made : builders[b].owner = builders[c].owner => b = c
        BY <1>2, MadeProperties DEF BuilderInv, OwnersApart
    <2>2. \A b \in Made' : IF b = top THEN builders'[b].owner = nextGraph
                           ELSE b \in Made /\ builders'[b].owner = builders[b].owner
        BY <1>4, <1>5, <1>6
    <2>3. \A b \in Made' : builders'[b].owner < nextGraph + 1
        BY <1>2, <2>1, <2>2
    <2>4. \A b, c \in Made' : builders'[b].owner = builders'[c].owner => b = c
        BY <1>2, <2>1, <2>2
    <2> QED
        BY <1>1, <2>3, <2>4 DEF OwnersApart
<1>9. NamesApart'
    <2>1. \A b \in Made : Distinct(builders[b].names)
                          /\ Len(builders[b].dependencies) = Len(builders[b].names)
        BY DEF BuilderInv, NamesApart
    <2>2. Distinct(fresh.names) /\ Len(fresh.dependencies) = Len(fresh.names)
        BY <1>6 DEF Distinct
    <2> QED
        BY <1>4, <1>5, <2>1, <2>2 DEF NamesApart, Distinct
<1>10. HandlesTrue'
    BY <1>1, <1>5 DEF BuilderInv, HandlesTrue, HandleTrue, NameAt
<1>11. GrantedWithin'
    BY <1>1 DEF BuilderInv, GrantedWithin
<1>12. ListsMeant'
    <2>1. \A b, i, d : Granted(b, i, d)' <=> Granted(b, i, d)
        BY <1>1 DEF Granted
    <2>2. \A i, d : ~ Granted(top, i, d)
        BY <1>5 DEF Granted, BuilderInv, GrantedWithin, HandlesTrue, HandleTrue
    <2>3. Len(fresh.names) = 0
        BY <1>6
    <2>4. \A b \in Made' : b = top \/ (b \in Made /\ builders'[b] = builders[b])
        BY <1>5
    <2>5. ASSUME NEW b \in Made, NEW i \in Nat, NEW d \in Nat
          PROVE  /\ <<i, d>> \in builders[b].edges <=> Granted(b, i, d)
                 /\ i < Len(builders[b].names) =>
                        (d \in Entries(builders[b].dependencies[i + 1]) <=> Granted(b, i, d))
        BY DEF BuilderInv, ListsMeant
    <2>6. ASSUME NEW b \in Made', NEW i \in Nat, NEW d \in Nat
          PROVE  /\ <<i, d>> \in builders'[b].edges <=> Granted(b, i, d)
                 /\ i < Len(builders'[b].names) =>
                        (d \in Entries(builders'[b].dependencies[i + 1]) <=> Granted(b, i, d))
        <3>1. CASE b = top
            BY <1>4, <1>6, <2>2, <2>3, <3>1
        <3>2. CASE b \in Made /\ builders'[b] = builders[b]
            BY <2>5, <3>2
        <3> QED
            BY <2>4, <3>1, <3>2
    <2> QED
        BY <2>1, <2>6 DEF ListsMeant, Entries
<1> QED
    BY <1>7, <1>8, <1>9, <1>10, <1>11, <1>12 DEF BuilderInv

\* What an entry of one builder changes, and what it leaves.
LEMMA OneChanged ==
    ASSUME BuilderTyped, NEW b \in Made, NEW x \in Lists, builders' = [builders EXCEPT ![b] = x]
    PROVE  /\ builders' \in Seq(Lists) /\ Made' = Made
           /\ builders'[b] = x
           /\ \A c \in Made : c # b => builders'[c] = builders[c]
<1>1. builders \in Seq(Lists) /\ DOMAIN builders = 1 .. Len(builders) /\ Len(builders) \in Nat
    BY LenProperties DEF BuilderTyped
<1>2. builders' \in Seq(Lists) /\ Len(builders') = Len(builders)
    BY <1>1, ExceptSeq DEF Made
<1> QED
    BY <1>1, <1>2 DEF Made

\* Builder::add: the new node has no edge yet, and no handle had its index.
LEMMA AddKeeps ==
    ASSUME BuilderInv, NEW b \in Made, NEW name \in Names, Add(b, name)
    PROVE  BuilderInv'
<1> DEFINE was == builders[b]
           count == Len(was.names)
           is == [was EXCEPT !.names = Append(@, name), !.dependencies = Append(@, <<>>)]
           handle == [id |-> [owner |-> was.owner, index |-> count], from |-> b, name |-> name]
<1>1. /\ \A i \in DOMAIN was.names : was.names[i] # name
      /\ builders' = [builders EXCEPT ![b] = is]
      /\ handles' = handles \cup {handle}
      /\ nextGraph' = nextGraph /\ granted' = granted
    BY DEF Add
<1>2. /\ was \in Lists /\ was.owner \in Nat /\ was.names \in Seq(Names) /\ count \in Nat
      /\ DOMAIN was.names = 1 .. count
      /\ was.dependencies \in Seq(Seq(Nat)) /\ Len(was.dependencies) = count
      /\ was.edges \in SUBSET (Nat \X Nat)
      /\ b \in Nat /\ BuilderTyped
    BY MadeProperties DEF BuilderInv, NamesApart
<1>3. /\ is \in Lists /\ is.owner = was.owner /\ is.edges = was.edges
      /\ is.names = Append(was.names, name)
      /\ is.dependencies = Append(was.dependencies, <<>>)
    <2>1. Append(was.names, name) \in Seq(Names) /\ Append(was.dependencies, <<>>) \in Seq(Seq(Nat))
        <3>1. <<>> \in Seq(Nat)
            OBVIOUS
        <3> QED
            BY <1>2, <3>1, AppendProperties
    <2> DEFINE names == Append(was.names, name)
               lists == Append(was.dependencies, <<>>)
    <2>2. is = [was EXCEPT !.names = names, !.dependencies = lists]
        OBVIOUS
    <2>3. was \in Lists /\ names \in Seq(Names) /\ lists \in Seq(Seq(Nat))
        BY <1>2, <2>1
    <2> HIDE DEF is, was, names, lists
    <2>4. /\ is \in Lists /\ is.owner = was.owner /\ is.edges = was.edges
          /\ is.names = names /\ is.dependencies = lists
        BY <2>2, <2>3 DEF Lists
    <2> QED
        BY <2>4 DEF names, lists
<1>4. /\ Len(is.names) = count + 1 /\ is.names[count + 1] = name
      /\ \A i \in 1 .. count : is.names[i] = was.names[i]
      /\ DOMAIN is.names = 1 .. count + 1
      /\ Len(is.dependencies) = count + 1 /\ is.dependencies[count + 1] = <<>>
      /\ \A i \in 1 .. count : is.dependencies[i] = was.dependencies[i]
    <2>1. <<>> \in Seq(Nat)
        OBVIOUS
    <2>2. \A q \in Seq(Names) : /\ Len(Append(q, name)) = Len(q) + 1
                                /\ Append(q, name)[Len(q) + 1] = name
                                /\ DOMAIN Append(q, name) = 1 .. Len(q) + 1
                                /\ \A i \in 1 .. Len(q) : Append(q, name)[i] = q[i]
        BY Pushed
    <2>3. \A q \in Seq(Seq(Nat)) : /\ Len(Append(q, <<>>)) = Len(q) + 1
                                   /\ Append(q, <<>>)[Len(q) + 1] = <<>>
                                   /\ \A i \in 1 .. Len(q) : Append(q, <<>>)[i] = q[i]
        BY <2>1, Pushed
    <2> HIDE DEF is
    <2> QED
        BY <1>2, <1>3, <2>2, <2>3
<1>5. handle.id.owner = was.owner /\ handle.id.index = count /\ handle.from = b /\ handle.name = name
    OBVIOUS
<1>6. handle \in Handles
    BY <1>2 DEF Handles
<1> HIDE DEF is, handle
<1>7. /\ builders' \in Seq(Lists) /\ Made' = Made /\ builders'[b] = is
      /\ \A c \in Made : c # b => builders'[c] = builders[c]
    BY <1>1, <1>2, <1>3, OneChanged
<1> HIDE DEF was, count
<1>8. BuilderTyped'
    BY <1>1, <1>2, <1>6, <1>7 DEF BuilderTyped
<1>9. was = builders[b] /\ count = Len(builders[b].names)
    BY DEF was, count
<1>10. OwnersApart'
    <2>1. \A c \in Made : builders'[c].owner = builders[c].owner
        BY <1>3, <1>7, <1>9
    <2> QED
        BY <1>1, <1>7, <2>1 DEF BuilderInv, OwnersApart
<1>11. NamesApart'
    <2>1. Distinct(was.names)
        BY <1>9 DEF BuilderInv, NamesApart
    <2>2. Distinct(is.names)
        <3>1. \A i \in 1 .. count : was.names[i] # name
            BY <1>1, <1>2
        <3>2. \A i, j \in 1 .. count : is.names[i] = is.names[j] => i = j
            BY <1>2, <1>4, <2>1 DEF Distinct
        <3>3. \A i \in 1 .. count : is.names[i] # is.names[count + 1]
            BY <1>4, <3>1
        <3>4. \A i \in 1 .. count + 1 : i \in 1 .. count \/ i = count + 1
            BY <1>2
        <3> QED
            BY <1>4, <3>2, <3>3, <3>4 DEF Distinct
    <2>3. \A c \in Made : Distinct(builders[c].names)
                          /\ Len(builders[c].dependencies) = Len(builders[c].names)
        BY DEF BuilderInv, NamesApart
    <2>4. \A c \in Made : Distinct(builders'[c].names)
                          /\ Len(builders'[c].dependencies) = Len(builders'[c].names)
        BY <1>4, <1>7, <2>2, <2>3
    <2> QED
        BY <1>7, <2>4 DEF NamesApart, Distinct
<1>12. ASSUME NEW h \in handles'
       PROVE  HandleTrue(h)'
    <2>1. CASE h = handle
        <3>1. /\ h.from = b /\ h.id.owner = is.owner
              /\ h.id.index = count /\ h.name = is.names[count + 1]
            BY <1>3, <1>4, <1>5, <2>1
        <3>2. b \in Made' /\ builders'[b] = is
            BY <1>7
        <3>3. h.id.index < Len(is.names)
            BY <1>2, <1>4, <3>1
        <3> QED
            BY <3>1, <3>2, <3>3 DEF HandleTrue, NameAt
    <2>2. CASE h \in handles
        <3>1. /\ h.from \in Made /\ h.id.owner = builders[h.from].owner
              /\ h.id.index < Len(builders[h.from].names)
              /\ builders[h.from].names[h.id.index + 1] = h.name
            BY <2>2 DEF BuilderInv, HandlesTrue, HandleTrue, NameAt
        <3>2. h.id.index \in Nat
            BY <1>2, <2>2 DEF BuilderTyped, Handles
        <3>3. CASE h.from = b
            <4>1. h.id.index + 1 \in 1 .. count /\ h.id.index < count + 1
                BY <1>2, <1>9, <3>1, <3>2, <3>3
            <4>2. is.names[h.id.index + 1] = h.name
                BY <1>4, <1>9, <3>1, <3>3, <4>1
            <4>3. h.id.owner = is.owner /\ h.id.index < Len(is.names)
                BY <1>3, <1>4, <1>9, <3>1, <3>3, <4>1
            <4> QED
                BY <1>7, <3>3, <4>2, <4>3 DEF HandleTrue, NameAt
        <3>4. CASE h.from # b
            BY <1>7, <3>1, <3>4 DEF HandleTrue, NameAt
        <3> QED
            BY <3>3, <3>4
    <2> QED
        BY <1>1, <2>1, <2>2
<1>13. GrantedWithin'
    BY <1>1 DEF BuilderInv, GrantedWithin
<1>14. ListsMeant'
    <2>1. \A c, i, d : Granted(c, i, d)' <=> Granted(c, i, d)
        BY <1>1 DEF Granted
    <2>2. ASSUME NEW c \in Made, NEW i \in Nat, NEW d \in Nat
          PROVE  /\ <<i, d>> \in builders[c].edges <=> Granted(c, i, d)
                 /\ i < Len(builders[c].names) =>
                        (d \in Entries(builders[c].dependencies[i + 1]) <=> Granted(c, i, d))
        BY DEF BuilderInv, ListsMeant
    <2>3. \A d : ~ Granted(b, count, d)
        BY <1>2, <1>9 DEF Granted, BuilderInv, GrantedWithin, HandlesTrue, HandleTrue
    <2>4. \A d : d \notin Entries(<<>>)
        BY DEF Entries
    <2>5. ASSUME NEW c \in Made, NEW i \in Nat, NEW d \in Nat
          PROVE  /\ <<i, d>> \in builders'[c].edges <=> Granted(c, i, d)
                 /\ i < Len(builders'[c].names) =>
                        (d \in Entries(builders'[c].dependencies[i + 1]) <=> Granted(c, i, d))
        <3>1. CASE c # b
            BY <1>7, <2>2, <3>1
        <3>2. CASE c = b
            <4>1. <<i, d>> \in is.edges <=> Granted(b, i, d)
                BY <1>3, <1>9, <2>2
            <4>2. CASE i = count
                BY <1>4, <1>7, <2>3, <2>4, <3>2, <4>1, <4>2
            <4>3. CASE i # count
                <5>1. i < count + 1 => i < count /\ i + 1 \in 1 .. count
                    BY <1>2, <4>3
                <5> QED
                    BY <1>4, <1>7, <1>9, <2>2, <3>2, <4>1, <5>1
            <4> QED
                BY <4>2, <4>3
        <3> QED
            BY <3>1, <3>2
    <2> QED
        BY <1>7, <2>1, <2>5 DEF ListsMeant, Entries
<1> QED
    BY <1>8, <1>10, <1>11, <1>12, <1>13, <1>14 DEF BuilderInv, HandlesTrue

\* depends_on grants a pair whose owners agree, so that both come from this
\* builder, and the edge is in the set and in the list of its node.
LEMMA DependsOnKeeps ==
    ASSUME BuilderInv, NEW b \in Made, NEW node \in handles, NEW dependency \in handles,
           DependsOn(b, node, dependency)
    PROVE  BuilderInv'
<1> DEFINE was == builders[b]
           n == node.id.index
           d == dependency.id.index
           is == Record(was, n, d)
<1>1. /\ Checks(b, node.id) /\ Checks(b, dependency.id)
      /\ builders' = [builders EXCEPT ![b] = is]
      /\ granted' = granted \cup {<<node, dependency>>}
      /\ nextGraph' = nextGraph /\ handles' = handles
    BY DEF DependsOn
<1>2. /\ was \in Lists /\ was.owner \in Nat /\ was.names \in Seq(Names) /\ Len(was.names) \in Nat
      /\ was.dependencies \in Seq(Seq(Nat)) /\ Len(was.dependencies) = Len(was.names)
      /\ DOMAIN was.dependencies = 1 .. Len(was.names)
      /\ was.edges \in SUBSET (Nat \X Nat)
      /\ b \in Nat /\ BuilderTyped
    BY MadeProperties DEF BuilderInv, NamesApart
<1>3. n \in Nat /\ d \in Nat /\ n < Len(was.names) /\ n + 1 \in DOMAIN was.dependencies
    <2>1. node \in Handles /\ dependency \in Handles
        BY <1>2 DEF BuilderTyped
    <2>2. n \in Nat /\ d \in Nat
        BY <2>1 DEF Handles
    <2> QED
        BY <1>1, <1>2, <2>2 DEF Checks
<1>4. node.from = b /\ dependency.from = b
    BY <1>1 DEF Checks, BuilderInv, HandlesTrue, HandleTrue, OwnersApart
<1>5. /\ is \in Lists /\ is.owner = was.owner /\ is.names = was.names
      /\ Len(is.dependencies) = Len(was.dependencies)
      /\ is.edges = was.edges \cup {<<n, d>>}
      /\ \A i \in Nat : i < Len(was.names) =>
             \A e \in Nat : e \in Entries(is.dependencies[i + 1]) <=>
                              \/ e \in Entries(was.dependencies[i + 1])
                              \/ i = n /\ e = d
    <2>1. CASE <<n, d>> \in was.edges
        <3>1. is = was
            BY <2>1 DEF Record
        <3>2. d \in Entries(was.dependencies[n + 1])
            BY <1>3, <2>1 DEF BuilderInv, ListsMeant
        <3> QED
            BY <1>2, <2>1, <3>1, <3>2
    <2>2. CASE <<n, d>> \notin was.edges
        <3> DEFINE old == was.dependencies
                   list == Append(old[n + 1], d)
                   new == [old EXCEPT ![n + 1] = list]
        <3>1. old[n + 1] \in Seq(Nat)
            BY <1>2, <1>3
        <3>2. /\ list \in Seq(Nat) /\ Entries(list) = Entries(old[n + 1]) \cup {d}
            <4>1. \A q \in Seq(Nat) : \A e \in Nat :
                      Append(q, e) \in Seq(Nat) /\ Entries(Append(q, e)) = Entries(q) \cup {e}
                BY Pushed
            <4> HIDE DEF n, d
            <4> QED
                BY <1>3, <3>1, <4>1
        <3> HIDE DEF list
        <3>3. /\ new \in Seq(Seq(Nat)) /\ Len(new) = Len(old)
              /\ new[n + 1] = list
              /\ \A i \in 1 .. Len(was.names) : i # n + 1 => new[i] = old[i]
            BY <1>2, <1>3, <3>2, ExceptSeq
        <3>4. is = [was EXCEPT !.edges = @ \cup {<<n, d>>}, !.dependencies = new]
            BY <1>2, <2>2 DEF Record, list, Lists
        <3> HIDE DEF new
        <3>5. was.edges \cup {<<n, d>>} \in SUBSET (Nat \X Nat)
            BY <1>2, <1>3
        <3>6. /\ is \in Lists /\ is.owner = was.owner /\ is.names = was.names
              /\ is.edges = was.edges \cup {<<n, d>>} /\ is.dependencies = new
            <4>1. was \in Lists /\ new \in Seq(Seq(Nat))
                BY <1>2, <3>3
            <4> DEFINE E == was.edges \cup {<<n, d>>}
            <4>2. E \in SUBSET (Nat \X Nat) /\ is = [was EXCEPT !.edges = E, !.dependencies = new]
                BY <3>4, <3>5
            <4> HIDE DEF E, is, was, n, d
            <4>3. /\ is \in Lists /\ is.owner = was.owner /\ is.names = was.names
                  /\ is.edges = E /\ is.dependencies = new
                BY <4>1, <4>2 DEF Lists
            <4> QED
                BY <4>3 DEF E
        <3>7. ASSUME NEW i \in Nat, i < Len(was.names), NEW e \in Nat
              PROVE  e \in Entries(is.dependencies[i + 1]) <=>
                         \/ e \in Entries(was.dependencies[i + 1])
                         \/ i = n /\ e = d
            <4>1. CASE i = n
                BY <3>2, <3>3, <3>6, <4>1
            <4>2. CASE i # n
                <5>1. i + 1 \in 1 .. Len(was.names) /\ i + 1 # n + 1
                    BY <1>2, <1>3, <3>7, <4>2
                <5> QED
                    BY <3>3, <3>6, <4>2, <5>1
            <4> QED
                BY <4>1, <4>2
        <3> QED
            BY <3>3, <3>6, <3>7
    <2> QED
        BY <2>1, <2>2
<1> HIDE DEF is
<1>6. /\ builders' \in Seq(Lists) /\ Made' = Made /\ builders'[b] = is
      /\ \A c \in Made : c # b => builders'[c] = builders[c]
    BY <1>1, <1>2, <1>5, OneChanged
<1>7. was = builders[b]
    OBVIOUS
<1> HIDE DEF was
<1>8. \A c \in Made : /\ builders'[c].owner = builders[c].owner
                      /\ builders'[c].names = builders[c].names
                      /\ Len(builders'[c].dependencies) = Len(builders[c].dependencies)
    BY <1>5, <1>6, <1>7
<1>9. BuilderTyped'
    BY <1>1, <1>2, <1>6 DEF BuilderTyped
<1>10. OwnersApart' /\ NamesApart'
    BY <1>1, <1>6, <1>8 DEF BuilderInv, OwnersApart, NamesApart, Distinct
<1>11. HandlesTrue'
    BY <1>1, <1>6, <1>8 DEF BuilderInv, HandlesTrue, HandleTrue, NameAt
<1>12. GrantedWithin'
    BY <1>1, <1>4 DEF BuilderInv, GrantedWithin
<1>13. ListsMeant'
    <2>1. \A c, i, e : Granted(c, i, e)' <=> Granted(c, i, e) \/ (c = b /\ i = n /\ e = d)
        <3> DEFINE new == <<node, dependency>>
                   Is(pair, c, i, e) == /\ pair[1].from = c /\ pair[1].id.index = i
                                        /\ pair[2].from = c /\ pair[2].id.index = e
        <3>1. \A c, i, e : Is(new, c, i, e) <=> c = b /\ i = n /\ e = d
            BY <1>4
        <3>2. granted' = granted \cup {new}
            BY <1>1
        <3>3. \A c, i, e : /\ Granted(c, i, e) <=> \E pair \in granted : Is(pair, c, i, e)
                           /\ Granted(c, i, e)' <=> \E pair \in granted' : Is(pair, c, i, e)
            BY DEF Granted
        <3> HIDE DEF new, Is, n, d
        <3>4. \A c, i, e : (\E pair \in granted' : Is(pair, c, i, e)) <=>
                               (\E pair \in granted : Is(pair, c, i, e)) \/ Is(new, c, i, e)
            BY <3>2
        <3> QED
            BY <3>1, <3>3, <3>4
    <2>2. ASSUME NEW c \in Made, NEW i \in Nat, NEW e \in Nat
          PROVE  /\ <<i, e>> \in builders[c].edges <=> Granted(c, i, e)
                 /\ i < Len(builders[c].names) =>
                        (e \in Entries(builders[c].dependencies[i + 1]) <=> Granted(c, i, e))
        BY DEF BuilderInv, ListsMeant
    <2>3. ASSUME NEW c \in Made, NEW i \in Nat, NEW e \in Nat
          PROVE  /\ <<i, e>> \in builders'[c].edges <=> Granted(c, i, e)'
                 /\ i < Len(builders'[c].names) =>
                        (e \in Entries(builders'[c].dependencies[i + 1]) <=> Granted(c, i, e)')
        <3>1. CASE c # b
            BY <1>6, <2>1, <2>2, <3>1
        <3>2. CASE c = b
            <4>1. /\ <<i, e>> \in is.edges <=> <<i, e>> \in was.edges \/ (i = n /\ e = d)
                BY <1>5
            <4> QED
                BY <1>5, <1>6, <1>7, <2>1, <2>2, <3>2, <4>1
        <3> QED
            BY <3>1, <3>2
    <2>4. \A q : Entries(q)' = Entries(q')
        BY DEF Entries
    <2> QED
        BY <1>6, <2>3 DEF ListsMeant, Entries
<1> QED
    BY <1>9, <1>10, <1>11, <1>12, <1>13 DEF BuilderInv

LEMMA NextBuilderInv == BuilderInv /\ [BuilderNext]_builderVars => BuilderInv'
<1> SUFFICES ASSUME BuilderInv, [BuilderNext]_builderVars PROVE BuilderInv'
    OBVIOUS
<1>1. CASE BuilderNext
    BY <1>1, NewKeeps, AddKeeps, DependsOnKeeps DEF BuilderNext
<1>2. CASE UNCHANGED builderVars
    <2>1. /\ nextGraph' = nextGraph /\ builders' = builders
          /\ handles' = handles /\ granted' = granted
        BY <1>2 DEF builderVars
    <2>2. BuilderTyped' /\ OwnersApart' /\ NamesApart' /\ HandlesTrue' /\ GrantedWithin'
        BY <2>1 DEF BuilderInv, BuilderTyped, OwnersApart, NamesApart, HandlesTrue, HandleTrue,
                    GrantedWithin, Made, NameAt, Distinct
    <2>3. ListsMeant'
        <3>1. \A b, i, d : Granted(b, i, d)' <=> Granted(b, i, d)
            BY <2>1 DEF Granted
        <3>2. Made' = Made
            BY <2>1 DEF Made
        <3>3. ASSUME NEW b \in Made, NEW i \in Nat, NEW d \in Nat
              PROVE  /\ <<i, d>> \in builders'[b].edges <=> Granted(b, i, d)
                     /\ i < Len(builders'[b].names) =>
                            (d \in Entries(builders'[b].dependencies[i + 1]) <=> Granted(b, i, d))
            BY <2>1 DEF BuilderInv, ListsMeant
        <3> QED
            BY <3>1, <3>2, <3>3 DEF ListsMeant, Entries
    <2> QED
        BY <2>2, <2>3 DEF BuilderInv
<1> QED
    BY <1>1, <1>2

\* What a builder lists lies in the builder: compile() is given a vector.
LEMMA VectorTyped ==
    ASSUME BuilderInv, NEW b \in Made, Len(builders[b].names) = N
    PROVE  /\ Vector(b) \in [Nodes -> SUBSET Nodes]
           /\ \A n, d \in Nodes : d \in Vector(b)[n] <=> Granted(b, n, d)
<1>1. Nodes \subseteq Nat /\ \A n \in Nat : n \in Nodes <=> n < N
    BY NAssumption DEF Nodes
<1>2. BuilderTyped
    BY DEF BuilderInv
<1>3. /\ DOMAIN builders[b].dependencies = 1 .. N
      /\ builders[b].dependencies \in Seq(Seq(Nat))
    BY <1>2, MadeProperties DEF BuilderInv, NamesApart
<1>4. ASSUME NEW n \in Nodes, NEW d \in Entries(builders[b].dependencies[n + 1])
      PROVE  d \in Nat
    <2>1. n + 1 \in 1 .. N
        BY <1>1, NAssumption
    <2>2. builders[b].dependencies[n + 1] \in Seq(Nat)
        BY <1>3, <2>1
    <2> QED
        BY <1>4, <2>2 DEF Entries
<1>5. ASSUME NEW n \in Nodes, NEW d \in Nat
      PROVE  d \in Entries(builders[b].dependencies[n + 1]) <=> Granted(b, n, d)
    BY <1>1 DEF BuilderInv, ListsMeant
<1>6. ASSUME NEW n, NEW d \in Nat, Granted(b, n, d)
      PROVE  d \in Nodes
    BY <1>1, <1>6 DEF Granted, BuilderInv, GrantedWithin, HandlesTrue, HandleTrue
<1>7. \A n \in Nodes : Vector(b)[n] = Entries(builders[b].dependencies[n + 1])
    BY DEF Vector
<1>8. \A n \in Nodes : Entries(builders[b].dependencies[n + 1]) \subseteq Nodes
    BY <1>4, <1>5, <1>6
<1>9. Vector(b) \in [Nodes -> SUBSET Nodes]
    BY <1>8 DEF Vector
<1> QED
    BY <1>1, <1>5, <1>7, <1>9

LEMMA InitBuildInv == BuildInit => BuildInv
BY InitBuilderInv DEF BuildInit, BuildInv, CompilingInv

\* The lists as they are when compile() is called are what its loop starts on.
LEMMA CompileEnters ==
    ASSUME BuildInv, NEW b \in Made, CompileBuilder(b)
    PROVE  Entered'
<1>1. /\ order = <<>> /\ verdict = "running" /\ UNCHANGED <<order, verdict, builderVars>>
      /\ dependencies' = Vector(b) /\ remaining' = Counts(Vector(b))
      /\ ready' = Listed({n \in Nodes : Vector(b)[n] = {}}, Index)
      /\ Len(builders[b].names) = N
    BY DEF CompileBuilder, BuildInv, CompilingInv
<1>2. Vector(b) \in [Nodes -> SUBSET Nodes]
    BY <1>1, VectorTyped DEF BuildInv
<1> QED
    BY <1>1, <1>2 DEF Entered, Counts

LEMMA NextBuildInv == BuildInv /\ [BuildNext]_buildVars => BuildInv'
<1> SUFFICES ASSUME BuildInv, [BuildNext]_buildVars PROVE BuildInv'
    OBVIOUS
<1>1. (Entered => LoopInv)'
    BY EnteredLoopInv, PTL
<1>2. BuilderInv'
    <2>1. [BuilderNext]_builderVars
        BY DEF BuildNext, buildVars, CompileBuilder, builderVars
    <2> QED
        BY <2>1, NextBuilderInv DEF BuildInv
<1>3. CASE compiling = 0 /\ BuilderNext /\ UNCHANGED <<vars, compiling>>
    <2>1. compiling' = 0 /\ order' = order /\ verdict' = verdict
        BY <1>3 DEF vars
    <2> QED
        BY <1>2, <1>3, <2>1 DEF BuildInv, CompilingInv
<1>4. ASSUME NEW b \in Made, CompileBuilder(b)
      PROVE  BuildInv'
    <2>1. /\ compiling' = b /\ dependencies' = Vector(b)
          /\ builders' = builders /\ Len(builders[b].names) = N
        BY <1>4 DEF CompileBuilder, builderVars
    <2>2. LoopInv'
        BY <1>1, <1>4, CompileEnters
    <2>3. Made' = Made /\ b # 0
        BY <2>1 DEF Made
    <2>4. Vector(compiling)' = Vector(b)
        BY <2>1 DEF Vector, Entries
    <2> QED
        BY <1>2, <2>1, <2>2, <2>3, <2>4 DEF BuildInv, CompilingInv
<1>5. CASE compiling # 0 /\ [Next]_vars /\ UNCHANGED <<builderVars, compiling>>
    <2>1. builders' = builders /\ compiling' = compiling /\ Made' = Made
        BY <1>5 DEF builderVars, Made
    <2>2. dependencies' = dependencies
        BY <1>5 DEF Next, Pop, Return, vars
    <2>3. LoopInv'
        BY <1>5, NextLoopInv DEF BuildInv, CompilingInv
    <2>4. Vector(compiling)' = Vector(compiling)
        BY <2>1 DEF Vector, Entries
    <2> QED
        BY <1>2, <1>5, <2>1, <2>2, <2>3, <2>4 DEF BuildInv, CompilingInv
<1>6. CASE compiling = 0 /\ UNCHANGED buildVars
    <2>1. compiling' = compiling /\ order' = order /\ verdict' = verdict
        BY <1>6 DEF buildVars, vars
    <2> QED
        BY <1>2, <1>6, <2>1 DEF BuildInv, CompilingInv
<1>7. UNCHANGED buildVars => UNCHANGED <<vars, builderVars, compiling>>
    BY DEF buildVars
<1> QED
    BY <1>3, <1>4, <1>5, <1>6, <1>7 DEF BuildNext

THEOREM SpecBuildInv == BuildSpec => []BuildInv
BY InitBuildInv, NextBuildInv, PTL DEF BuildSpec

-----------------------------------------------------------------------------
\* Names tell the nodes of a builder apart, so that an edge between two indices
\* is one that was asked for by these names.
LEMMA BuildMeans == BuildInv => EdgesMeant
<1> SUFFICES ASSUME BuildInv PROVE EdgesMeant
    OBVIOUS
<1>1. \A pair \in granted : pair[1].from = pair[2].from
    BY DEF BuildInv, BuilderInv, GrantedWithin
<1>2. ASSUME compiling # 0, NEW n \in Nodes, NEW d \in Nodes
      PROVE  d \in dependencies[n] <=> Asked(n, d)
    <2>1. /\ compiling \in Made /\ Len(builders[compiling].names) = N
          /\ dependencies = Vector(compiling)
        BY <1>2 DEF BuildInv, CompilingInv
    <2>2. d \in dependencies[n] <=> Granted(compiling, n, d)
        BY <2>1, VectorTyped DEF BuildInv
    <2>3. ASSUME NEW h \in handles, h.from = compiling, NEW m \in Nodes
          PROVE  h.id.index = m <=> h.name = NameAt(compiling, m)
        <3>1. /\ h.id.index < N /\ builders[compiling].names[h.id.index + 1] = h.name
            BY <2>1, <2>3 DEF BuildInv, BuilderInv, HandlesTrue, HandleTrue, NameAt
        <3>2. h.id.index \in Nat
            BY DEF BuildInv, BuilderInv, BuilderTyped, Handles
        <3>3. DOMAIN builders[compiling].names = 1 .. N /\ Distinct(builders[compiling].names)
            BY <2>1, MadeProperties DEF BuildInv, BuilderInv, NamesApart
        <3>4. m \in Nat /\ m + 1 \in 1 .. N /\ h.id.index + 1 \in 1 .. N
            BY <3>1, <3>2, NAssumption DEF Nodes
        <3> QED
            BY <3>1, <3>2, <3>3, <3>4 DEF Distinct, NameAt
    <2>4. \A pair \in granted : pair[1] \in handles /\ pair[2] \in handles
        BY DEF BuildInv, BuilderInv, GrantedWithin
    <2> QED
        BY <2>2, <2>3, <2>4 DEF Granted, Asked
<1> QED
    BY <1>1, <1>2 DEF EdgesMeant

\* The graph that is compiled or refused is the one that was asked for, however
\* many builders there are and however their handles are mixed up.
THEOREM BuildEdgesMeant == BuildSpec => []EdgesMeant
BY SpecBuildInv, BuildMeans, PTL

\* A builder's compile() returns a topology of those edges.
THEOREM BuildReturnsTopology == BuildSpec => []ReturnsTopology
<1>1. BuildInv => ReturnsTopology
    BY LoopReturnsTopology DEF BuildInv, CompilingInv, ReturnsTopology
<1> QED
    BY <1>1, SpecBuildInv, PTL

\* It refuses them if and only if they make a cycle.
THEOREM BuildRefusesExactlyCycles == BuildSpec => []RefusesExactlyCycles
<1>1. BuildInv => RefusesExactlyCycles
    BY LoopRefuses DEF BuildInv, CompilingInv, RefusesExactlyCycles
<1> QED
    BY <1>1, SpecBuildInv, PTL

\* And it names the nodes on the cycles and those below them.
THEOREM BuildNamesBlockedNodes == BuildSpec => []NamesBlockedNodes
<1>1. BuildInv => NamesBlockedNodes
    BY LoopNames DEF BuildInv, CompilingInv, NamesBlockedNodes
<1> QED
    BY <1>1, SpecBuildInv, PTL
=============================================================================
