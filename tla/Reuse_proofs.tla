---------------------------- MODULE Reuse_proofs ----------------------------
(***************************************************************************)
(* Results reused from run to run, for every number of runs and nodes and  *)
(* every set of plans.                                                     *)
(*                                                                         *)
(* What makes a stored result fit for another run is that a fingerprint    *)
(* determines the value: two nodes of two plans that have the same one     *)
(* compute the same.  That is proved first, by the order in which the      *)
(* nodes of a plan can be computed.  The invariant then says that every    *)
(* result that is stored, and every result a run holds of a node with a    *)
(* fingerprint, is that value; the rest of it is about who may be resumed  *)
(* and what the rows say of it.                                            *)
(***************************************************************************)
EXTENDS Reuse, Topology_proofs

\* What a node of a plan computes when all it depends on is repeat-safe.
Values(plan) ==
    LET values[n \in Nodes] ==
            [graph |-> plan.graph, version |-> plan.version, node |-> n, key |-> plan.cache[n],
             by |-> NoRun, inputs |-> [d \in plan.dependencies[n] |-> values[d]]]
    IN  values

\* The equations of the two recursive functions, for a function that gives the
\* key and the value of each node of a set.
KeyOf(plan, f, n) ==
    IF plan.cache[n] = NoKey \/ \E d \in plan.dependencies[n] : f[d].key = NoKey THEN NoKey
    ELSE [graph |-> plan.graph, version |-> plan.version, node |-> n, key |-> plan.cache[n],
          inputs |-> [d \in plan.dependencies[n] |-> f[d].key]]

ValueOf(plan, f, n) ==
    [graph |-> plan.graph, version |-> plan.version, node |-> n, key |-> plan.cache[n],
     by |-> NoRun, inputs |-> [d \in plan.dependencies[n] |-> f[d].value]]

Pair(plan, f, n) == [key |-> KeyOf(plan, f, n), value |-> ValueOf(plan, f, n)]

\* A plan: each node comes after what it depends on.
LEMMA PlanOrdered ==
    ASSUME NEW plan \in Plans
    PROVE  /\ plan.dependencies \in [Nodes -> SUBSET Nodes]
           /\ \E position \in [Nodes -> Nodes] :
                 \A n \in Nodes : \A d \in plan.dependencies[n] : position[d] < position[n]
BY ReuseAssumption

\* Only the entries of its dependencies matter to a node.
LEMMA PairLocal ==
    ASSUME NEW plan \in Plans, NEW f, NEW g, NEW n \in Nodes,
           \A d \in plan.dependencies[n] : f[d] = g[d]
    PROVE  Pair(plan, f, n) = Pair(plan, g, n)
<1>1. KeyOf(plan, f, n) = KeyOf(plan, g, n)
    BY DEF KeyOf
<1>2. ValueOf(plan, f, n) = ValueOf(plan, g, n)
    BY DEF ValueOf
<1> QED
    BY <1>1, <1>2 DEF Pair

LEMMA PairFields ==
    ASSUME NEW plan, NEW f, NEW n
    PROVE  Pair(plan, f, n).key = KeyOf(plan, f, n) /\ Pair(plan, f, n).value = ValueOf(plan, f, n)
BY DEF Pair

\* The recursion is well defined: the nodes up to any place in the order have
\* keys and values.
LEMMA PairsExist ==
    ASSUME NEW plan \in Plans
    PROVE  \E f : \A n \in Nodes : f[n] = Pair(plan, f, n)
<1>1. PICK position \in [Nodes -> Nodes] :
          \A n \in Nodes : \A d \in plan.dependencies[n] : position[d] < position[n]
    BY PlanOrdered
<1>2. \A n \in Nodes : position[n] \in Nat /\ position[n] < N
    BY <1>1, NAssumption DEF Nodes
<1> DEFINE Before(k) == {n \in Nodes : position[n] < k}
           Solves(f, k) == \A n \in Before(k) : f[n] = Pair(plan, f, n)
           Unsolved == {k \in Nat : ~ \E f : Solves(f, k)}
<1>3. ASSUME NEW k \in Nat, NEW f, Solves(f, k)
      PROVE  \E g : Solves(g, k + 1)
    <2> DEFINE g == [n \in Nodes |-> IF n \in Before(k) THEN f[n] ELSE Pair(plan, f, n)]
    <2>1. ASSUME NEW n \in Before(k + 1) PROVE g[n] = Pair(plan, g, n)
        <3>0. n \in Nodes /\ plan.dependencies[n] \subseteq Nodes
            BY <2>1, PlanOrdered
        <3>1. ASSUME NEW d \in plan.dependencies[n] PROVE d \in Before(k)
            <4>1. d \in Nodes /\ position[d] < position[n] /\ position[n] < k + 1
                BY <1>1, <3>0
            <4>2. position[d] \in Nat /\ position[n] \in Nat
                BY <1>2, <3>0, <4>1
            <4> QED
                BY <4>1, <4>2
        <3>2. \A d \in plan.dependencies[n] : f[d] = g[d]
            BY <3>1
        <3>3. Pair(plan, f, n) = Pair(plan, g, n)
            <4> HIDE DEF g
            <4> QED
                BY <3>0, <3>2, PairLocal
        <3>4. g[n] = Pair(plan, f, n)
            BY <1>3
        <3> QED
            BY <3>3, <3>4
    <2> QED
        BY <2>1
<1>4. Unsolved = {}
    <2> SUFFICES ASSUME Unsolved # {} PROVE FALSE
        OBVIOUS
    <2>1. PICK k \in Unsolved : \A l \in Unsolved : k <= l
        BY LeastNat
    <2>2. CASE k = 0
        <3>1. Before(0) = {}
            BY <1>1, <1>2
        <3> QED
            BY <2>1, <2>2, <3>1
    <2>3. CASE k # 0
        <3>1. k - 1 \in Nat /\ (k - 1) + 1 = k /\ ~ (k <= k - 1)
            BY <2>1, <2>3
        <3>2. k - 1 \notin Unsolved
            BY <2>1, <3>1
        <3>3. PICK f : Solves(f, k - 1)
            BY <3>1, <3>2
        <3>4. \E g : Solves(g, (k - 1) + 1)
            <4> HIDE DEF Solves
            <4> QED
                BY <1>3, <3>1, <3>3
        <3> QED
            BY <2>1, <3>1, <3>4
    <2> QED
        BY <2>2, <2>3
<1>5. PICK f : Solves(f, N)
    <2> HIDE DEF Solves
    <2> QED
        BY <1>4, NAssumption
<1> QED
    BY <1>2, <1>5

\* Plan._fingerprints, node by node.
LEMMA KeysDefined ==
    ASSUME NEW plan \in Plans, NEW n \in Nodes
    PROVE  Fingerprints(plan)[n] =
               IF plan.cache[n] = NoKey \/ \E d \in plan.dependencies[n] : Fingerprints(plan)[d] = NoKey
               THEN NoKey
               ELSE [graph |-> plan.graph, version |-> plan.version, node |-> n,
                     key |-> plan.cache[n],
                     inputs |-> [d \in plan.dependencies[n] |-> Fingerprints(plan)[d]]]
<1> DEFINE Equation(keys) ==
        keys = [m \in Nodes |->
            IF plan.cache[m] = NoKey \/ \E d \in plan.dependencies[m] : keys[d] = NoKey THEN NoKey
            ELSE [graph |-> plan.graph, version |-> plan.version, node |-> m, key |-> plan.cache[m],
                  inputs |-> [d \in plan.dependencies[m] |-> keys[d]]]]
<1>1. Fingerprints(plan) = CHOOSE keys : Equation(keys)
    BY DEF Fingerprints
<1>2. \E keys : Equation(keys)
    <2>1. PICK f : \A m \in Nodes : f[m] = Pair(plan, f, m)
        BY PairsExist
    <2>2. \A m \in Nodes : f[m].key = KeyOf(plan, f, m)
        BY <2>1, PairFields
    <2> DEFINE keys == [m \in Nodes |-> f[m].key]
    <2>3. \A m \in Nodes : plan.dependencies[m] \subseteq Nodes
        BY PlanOrdered
    <2>4. ASSUME NEW m \in Nodes
          PROVE  keys[m] =
                   IF plan.cache[m] = NoKey \/ \E d \in plan.dependencies[m] : keys[d] = NoKey THEN NoKey
                   ELSE [graph |-> plan.graph, version |-> plan.version, node |-> m,
                         key |-> plan.cache[m], inputs |-> [d \in plan.dependencies[m] |-> keys[d]]]
        <3>1. \A d \in plan.dependencies[m] : keys[d] = f[d].key
            BY <2>3
        <3>2. keys[m] = KeyOf(plan, f, m)
            BY <2>2
        <3> QED
            BY <3>1, <3>2 DEF KeyOf
    <2>5. Equation(keys)
        BY <2>4
    <2> HIDE DEF Equation
    <2> QED
        BY <2>5
<1>3. Equation(Fingerprints(plan))
    <2> HIDE DEF Equation
    <2> QED
        BY <1>1, <1>2
<1> QED
    BY <1>3

\* The values, node by node.
LEMMA ValuesDefined ==
    ASSUME NEW plan \in Plans, NEW n \in Nodes
    PROVE  Values(plan)[n] =
               [graph |-> plan.graph, version |-> plan.version, node |-> n, key |-> plan.cache[n],
                by |-> NoRun, inputs |-> [d \in plan.dependencies[n] |-> Values(plan)[d]]]
<1> DEFINE Equation(values) ==
        values = [m \in Nodes |->
            [graph |-> plan.graph, version |-> plan.version, node |-> m, key |-> plan.cache[m],
             by |-> NoRun, inputs |-> [d \in plan.dependencies[m] |-> values[d]]]]
<1>1. Values(plan) = CHOOSE values : Equation(values)
    BY DEF Values
<1>2. \E values : Equation(values)
    <2>1. PICK f : \A m \in Nodes : f[m] = Pair(plan, f, m)
        BY PairsExist
    <2>2. \A m \in Nodes : f[m].value = ValueOf(plan, f, m)
        BY <2>1, PairFields
    <2> DEFINE values == [m \in Nodes |-> f[m].value]
    <2>3. \A m \in Nodes : plan.dependencies[m] \subseteq Nodes
        BY PlanOrdered
    <2>4. ASSUME NEW m \in Nodes
          PROVE  values[m] =
                   [graph |-> plan.graph, version |-> plan.version, node |-> m, key |-> plan.cache[m],
                    by |-> NoRun, inputs |-> [d \in plan.dependencies[m] |-> values[d]]]
        <3>1. \A d \in plan.dependencies[m] : values[d] = f[d].value
            BY <2>3
        <3>2. values[m] = ValueOf(plan, f, m)
            BY <2>2
        <3> QED
            BY <3>1, <3>2 DEF ValueOf
    <2>5. Equation(values)
        BY <2>4
    <2> HIDE DEF Equation
    <2> QED
        BY <2>5
<1>3. Equation(Values(plan))
    <2> HIDE DEF Equation
    <2> QED
        BY <1>1, <1>2
<1> QED
    BY <1>3

\* A node with a fingerprint: so have the nodes it depends on, and it names the
\* node, its declaration and their fingerprints.
LEMMA KeyMade ==
    ASSUME NEW p \in Plans, NEW n \in Nodes, KeyTable[p][n] # NoKey
    PROVE  /\ p.cache[n] # NoKey
           /\ \A d \in p.dependencies[n] : d \in Nodes /\ KeyTable[p][d] # NoKey
           /\ KeyTable[p][n] = [graph |-> p.graph, version |-> p.version, node |-> n, key |-> p.cache[n],
                                inputs |-> [d \in p.dependencies[n] |-> KeyTable[p][d]]]
<1>1. KeyTable[p] = Fingerprints(p)
    BY DEF KeyTable
<1>2. p.dependencies[n] \subseteq Nodes
    BY PlanOrdered
<1> QED
    BY <1>1, <1>2, KeysDefined

\* A fingerprint determines the value, whichever plan it is a fingerprint of.
THEOREM FingerprintDetermines ==
    ASSUME NEW p \in Plans, NEW q \in Plans, NEW n \in Nodes, NEW m \in Nodes,
           KeyTable[p][n] = KeyTable[q][m], KeyTable[p][n] # NoKey
    PROVE  Values(p)[n] = Values(q)[m]
<1>1. PICK position \in [Nodes -> Nodes] :
          \A x \in Nodes : \A d \in p.dependencies[x] : position[d] < position[x]
    BY PlanOrdered
<1> DEFINE Same(x, y) == KeyTable[p][x] = KeyTable[q][y] /\ KeyTable[p][x] # NoKey
           Apart(x, y) == Same(x, y) /\ Values(p)[x] # Values(q)[y]
           Places == {position[x] : x \in {z \in Nodes : \E y \in Nodes : Apart(z, y)}}
<1> SUFFICES ASSUME Values(p)[n] # Values(q)[m] PROVE FALSE
    OBVIOUS
<1>2. Places \in SUBSET Nat /\ Places # {}
    <2>1. \A x \in Nodes : position[x] \in Nat
        BY <1>1, NAssumption DEF Nodes
    <2>2. Apart(n, m)
        OBVIOUS
    <2> HIDE DEF Apart
    <2> QED
        BY <2>1, <2>2
<1>3. PICK x \in Nodes, y \in Nodes :
          Apart(x, y) /\ \A z \in Nodes : position[z] < position[x] => \A w \in Nodes : ~ Apart(z, w)
    <2>1. PICK k \in Places : \A l \in Places : k <= l
        BY <1>2, LeastNat
    <2>2. PICK x \in Nodes : position[x] = k /\ \E y \in Nodes : Apart(x, y)
        BY <2>1
    <2>3. PICK y \in Nodes : Apart(x, y)
        BY <2>2
    <2>4. ASSUME NEW z \in Nodes, position[z] < position[x], NEW w \in Nodes, Apart(z, w) PROVE FALSE
        <3> HIDE DEF Apart
        <3>1. position[z] \in Places
            BY <2>4
        <3>2. k <= position[z] /\ k \in Nat /\ position[z] \in Nat
            BY <2>1, <3>1, <1>2
        <3> QED
            BY <2>2, <2>4, <3>2
    <2> QED
        BY <2>3, <2>4
<1>4. Same(x, y) /\ KeyTable[q][y] # NoKey
    BY <1>3
<1>5. /\ p.graph = q.graph /\ p.version = q.version /\ x = y /\ p.cache[x] = q.cache[y]
      /\ [d \in p.dependencies[x] |-> KeyTable[p][d]] = [d \in q.dependencies[y] |-> KeyTable[q][d]]
    <2> DEFINE P == KeyTable[p][x]
               Q == KeyTable[q][y]
    <2>1. P = [graph |-> p.graph, version |-> p.version, node |-> x, key |-> p.cache[x],
               inputs |-> [d \in p.dependencies[x] |-> KeyTable[p][d]]]
        BY <1>4, KeyMade
    <2>2. Q = [graph |-> q.graph, version |-> q.version, node |-> y, key |-> q.cache[y],
               inputs |-> [d \in q.dependencies[y] |-> KeyTable[q][d]]]
        BY <1>4, KeyMade
    <2>3. P = Q
        BY <1>4
    <2> HIDE DEF P, Q
    <2>4. P.graph = p.graph /\ P.version = p.version /\ P.node = x /\ P.key = p.cache[x]
        BY <2>1
    <2>5. P.inputs = [d \in p.dependencies[x] |-> KeyTable[p][d]]
        BY <2>1
    <2>6. Q.graph = q.graph /\ Q.version = q.version /\ Q.node = y /\ Q.key = q.cache[y]
        BY <2>2
    <2>7. Q.inputs = [d \in q.dependencies[y] |-> KeyTable[q][d]]
        BY <2>2
    <2> QED
        BY <2>3, <2>4, <2>5, <2>6, <2>7
<1>6. p.dependencies[x] = q.dependencies[y]
    BY <1>5
<1>7. \A d \in p.dependencies[x] : KeyTable[p][d] = KeyTable[q][d]
    BY <1>5, <1>6
<1>8. ASSUME NEW d \in p.dependencies[x] PROVE Values(p)[d] = Values(q)[d]
    <2>1. d \in Nodes /\ KeyTable[p][d] # NoKey
        BY <1>4, KeyMade
    <2>2. Same(d, d) /\ position[d] < position[x]
        BY <1>1, <1>7, <2>1
    <2> QED
        BY <1>3, <2>1, <2>2
<1>9. [d \in p.dependencies[x] |-> Values(p)[d]] = [d \in q.dependencies[y] |-> Values(q)[d]]
    BY <1>6, <1>8
<1>10. Values(p)[x] = Values(q)[y]
    <2>1. Values(p)[x] =
              [graph |-> p.graph, version |-> p.version, node |-> x, key |-> p.cache[x],
               by |-> NoRun, inputs |-> [d \in p.dependencies[x] |-> Values(p)[d]]]
        BY ValuesDefined
    <2>2. Values(q)[y] =
              [graph |-> q.graph, version |-> q.version, node |-> y, key |-> q.cache[y],
               by |-> NoRun, inputs |-> [d \in q.dependencies[y] |-> Values(q)[d]]]
        BY ValuesDefined
    <2> QED
        BY <1>5, <1>9, <2>1, <2>2
<1> QED
    BY <1>3, <1>10

-----------------------------------------------------------------------------
Places ==
    {<<"new">>, <<"explained">>, <<"loop">>, <<"ended">>, <<"abandoned">>}
    \cup {"vouched", "saved", "noted"} \X Nodes

CoreState == {"unselected", "pending", "running", "succeeded", "reused", "failed", "blocked", "cancelled"}

Calls == [plan : Plans, previous : Runs \cup {NoRun}, rerun : SUBSET Nodes]

Keys == {NoKey} \cup {KeyTable[p][n] : p \in Plans, n \in Nodes}

Rows == [status : RunStatus \cup {"none"}, nodes : [Nodes -> RowState], started : [Nodes -> BOOLEAN]]

Unselected == [n \in Nodes |-> "unselected"]

ReuseTyped ==
    /\ at \in [Runs -> Places]
    /\ args \in [Runs -> Calls \cup {NoRun}]
    /\ core \in [Runs -> [Nodes -> CoreState]]
    /\ outputs = [r \in Runs |-> outputs[r]]
    /\ rows \in [Runs -> Rows]
    /\ noted \in [Runs -> [Nodes -> Keys]]
    /\ stopped \subseteq Runs

\* Where a run is goes with its call, its rows and the node it has in hand.
InPlace(r) ==
    /\ at[r] # <<"new">> => args[r] \in Calls
    /\ at[r] \in {<<"new">>, <<"explained">>} =>
           rows[r] = NoRows /\ core[r] = Unselected /\ DOMAIN outputs[r] = {}
    /\ at[r][1] \in InHand \cup {"abandoned"} => rows[r].status = "running"
    /\ \A n \in Nodes : at[r] = <<"vouched", n>> => core[r][n] = "running"
    /\ \A n \in Nodes : at[r] = <<"saved", n>> => core[r][n] \in {"succeeded", "failed"}
    /\ \A n \in Nodes : at[r] = <<"noted", n>> => core[r][n] \in {"succeeded", "failed"}

OnlySelected(r) ==
    \A n \in Nodes : core[r][n] # "unselected" \/ rows[r].started[n] => n \in Selected(r)

\* What an admitted node depends on has succeeded or was reused, and stays so.
InputsDone(r) ==
    \A n \in Nodes : core[r][n] = "running" => \A d \in args[r].plan.dependencies[n] : core[r][d] \in Good

\* A node that is done has its result in the dictionary.
GoodHeld(r) ==
    \A n \in Nodes : core[r][n] \in Good \/ at[r] = <<"vouched", n>> => n \in DOMAIN outputs[r]

\* What is in the dictionary, and of a node with a fingerprint the value that
\* the fingerprint stands for.
HeldFresh(r) ==
    \A n \in DOMAIN outputs[r] :
        /\ n \in Nodes
        /\ args[r].plan.dependencies[n] \subseteq DOMAIN outputs[r]
        /\ outputs[r][n] = Computes(r, n)
        /\ Key(r, n) # NoKey => outputs[r][n] = Values(args[r].plan)[n]

Vouched(r, n) ==
    /\ n \notin args[r].rerun
    /\ noted[r][n] = Key(r, n) /\ Key(r, n) # NoKey
    /\ args[r].previous # NoRun =>
           /\ rows[args[r].previous].nodes[n] \in Good
           /\ noted[args[r].previous][n] = Key(r, n)

ReusedWell(r) ==
    \A n \in Nodes :
        at[r] = <<"vouched", n>> \/ core[r][n] = "reused" \/ rows[r].nodes[n] = "reused" => Vouched(r, n)

\* A result that is stored but not yet noted is in hand, and nothing is recorded
\* of it.
NotedWell(r) ==
    r \notin stopped =>
        \A n \in Nodes :
            rows[r].nodes[n] \in Good \/ (core[r][n] = "succeeded" /\ at[r] # <<"saved", n>>) =>
                noted[r][n] = Key(r, n)

\* The run that is resumed has ended, and the decisions it called for are taken.
PreviousOver(r) ==
    at[r] # <<"new">> /\ args[r].previous # NoRun =>
        /\ at[args[r].previous] = <<"ended">>
        /\ \A n \in Selected(r) \ args[r].rerun :
               args[r].plan.cache[n] = NoKey => ~ rows[args[r].previous].started[n]

\* What is stored under a fingerprint is the value it stands for.
StoredFresh ==
    \A key \in DOMAIN results : \A p \in Plans, n \in Nodes :
        KeyTable[p][n] = key /\ key # NoKey => results[key] = Values(p)[n]

RunInv(r) ==
    /\ InPlace(r) /\ OnlySelected(r) /\ InputsDone(r) /\ GoodHeld(r) /\ HeldFresh(r)
    /\ ReusedWell(r) /\ NotedWell(r) /\ PreviousOver(r)

ReuseInv == ReuseTyped /\ StoredFresh /\ \A r \in Runs : RunInv(r)

\* What one run does in a step.
StepOf(r) ==
    \/ Explain(r) \/ Start(r) \/ Interrupt(r) \/ End(r) \/ Abandon(r) \/ Recover(r)
    \/ \E n \in Nodes : \/ Hit(r, n) \/ Run(r, n) \/ Succeed(r, n) \/ SaveRaises(r, n)
                        \/ Fail(r, n) \/ Cancelled(r, n) \/ Note(r, n) \/ Finish(r, n)

-----------------------------------------------------------------------------
\* The rows after each transaction.
LEMMA RowFields ==
    ASSUME NEW row \in Rows, NEW n \in Nodes
    PROVE  /\ MarkedRunning(row, n) \in Rows
           /\ MarkedRunning(row, n).status = row.status
           /\ \A m \in Nodes : /\ MarkedRunning(row, n).nodes[m] = IF m = n THEN "running" ELSE row.nodes[m]
                               /\ MarkedRunning(row, n).started[m] = (m = n \/ row.started[m])
           /\ \A outcome \in RowState :
                  /\ MarkedFinished(row, n, outcome) \in Rows
                  /\ MarkedFinished(row, n, outcome).status = row.status
                  /\ MarkedFinished(row, n, outcome).started = row.started
                  /\ \A m \in Nodes :
                        MarkedFinished(row, n, outcome).nodes[m] = IF m = n THEN outcome ELSE row.nodes[m]
<1>1. row.nodes \in [Nodes -> RowState] /\ row.started \in [Nodes -> BOOLEAN]
    BY DEF Rows
<1>2. /\ MarkedRunning(row, n).status = row.status
      /\ MarkedRunning(row, n).nodes = [row.nodes EXCEPT ![n] = "running"]
      /\ MarkedRunning(row, n).started = [row.started EXCEPT ![n] = TRUE]
    BY DEF MarkedRunning, Rows
<1>3. MarkedRunning(row, n) \in Rows
    BY DEF MarkedRunning, Rows, RowState
<1>4. ASSUME NEW m \in Nodes
      PROVE  /\ MarkedRunning(row, n).nodes[m] = IF m = n THEN "running" ELSE row.nodes[m]
             /\ MarkedRunning(row, n).started[m] = (m = n \/ row.started[m])
    BY <1>1, <1>2
<1>5. ASSUME NEW outcome \in RowState
      PROVE  /\ MarkedFinished(row, n, outcome) \in Rows
             /\ MarkedFinished(row, n, outcome).status = row.status
             /\ MarkedFinished(row, n, outcome).started = row.started
             /\ MarkedFinished(row, n, outcome).nodes = [row.nodes EXCEPT ![n] = outcome]
    BY DEF MarkedFinished, Rows
<1>6. ASSUME NEW outcome \in RowState, NEW m \in Nodes
      PROVE  MarkedFinished(row, n, outcome).nodes[m] = IF m = n THEN outcome ELSE row.nodes[m]
    BY <1>1, <1>5
<1> QED
    BY <1>2, <1>3, <1>4, <1>5, <1>6

LEMMA RowsEnded ==
    ASSUME NEW row \in Rows
    PROVE  /\ \A states \in [Nodes -> RowState], status \in RunStatus :
                  /\ Ended(row, states, status) \in Rows
                  /\ Ended(row, states, status).status = status
                  /\ Ended(row, states, status).started = row.started
                  /\ Ended(row, states, status).nodes = states
           /\ Recovered(row) \in Rows
           /\ Recovered(row).started = row.started
           /\ \A m \in Nodes : Recovered(row).nodes[m] \in Good => Recovered(row).nodes[m] = row.nodes[m]
<1>1. ASSUME NEW states \in [Nodes -> RowState], NEW status \in RunStatus
      PROVE  /\ Ended(row, states, status) \in Rows
             /\ Ended(row, states, status).status = status
             /\ Ended(row, states, status).started = row.started
             /\ Ended(row, states, status).nodes = states
    BY DEF Ended, Rows
<1>2. /\ Recovered(row).started = row.started
      /\ \A n \in Nodes : Recovered(row).nodes[n] =
             IF row.nodes[n] = "running" THEN "unknown"
             ELSE IF row.nodes[n] \in {"pending", "ready"} THEN "cancelled"
             ELSE row.nodes[n]
    BY DEF Recovered, Rows
<1>3. Recovered(row) \in Rows
    BY DEF Recovered, Rows, RowState, Outcomes, RunStatus
<1>4. \A m \in Nodes : Recovered(row).nodes[m] \in Good => Recovered(row).nodes[m] = row.nodes[m]
    BY <1>2 DEF Good
<1> QED
    BY <1>1, <1>2, <1>3, <1>4

LEMMA RowsInserted ==
    ASSUME NEW selected
    PROVE  /\ Inserted(selected) \in Rows /\ Inserted(selected).status = "running"
           /\ \A m \in Nodes : /\ Inserted(selected).nodes[m] \notin Good
                               /\ ~ Inserted(selected).started[m]
           /\ NoRows \in Rows /\ NoRows.status = "none"
           /\ \A m \in Nodes : NoRows.nodes[m] \notin Good /\ ~ NoRows.started[m]
<1>1. ASSUME NEW S
      PROVE  /\ Inserted(S) \in Records /\ Inserted(S).status = "running"
             /\ \A m \in Nodes : Inserted(S).nodes[m] \notin Good /\ ~ Inserted(S).started[m]
    BY DEF Inserted, Records, RowState, RunStatus, Good
<1>2. Records \subseteq Rows
    BY DEF Records, Rows
<1>3. Inserted({}) \in Records
    BY <1>1
<1>4. NoRows \in Rows
    BY <1>3 DEF NoRows, Records, Rows
<1>5. NoRows.status = "none" /\ NoRows.nodes = Inserted({}).nodes /\ NoRows.started = Inserted({}).started
    BY <1>3 DEF NoRows, Records
<1> QED
    BY <1>1, <1>2, <1>4, <1>5

-----------------------------------------------------------------------------
\* The places are apart.
LEMMA PlacesApart ==
    /\ {<<"new">>, <<"explained">>, <<"loop">>, <<"ended">>, <<"abandoned">>} \subseteq Places
    /\ <<"new">> # <<"explained">> /\ <<"new">> # <<"loop">> /\ <<"new">> # <<"ended">>
    /\ <<"new">> # <<"abandoned">> /\ <<"explained">> # <<"loop">> /\ <<"explained">> # <<"ended">>
    /\ <<"explained">> # <<"abandoned">> /\ <<"loop">> # <<"ended">> /\ <<"loop">> # <<"abandoned">>
    /\ <<"ended">> # <<"abandoned">>
    /\ <<"loop">>[1] = "loop" /\ <<"abandoned">>[1] = "abandoned" /\ <<"ended">>[1] = "ended"
    /\ <<"new">>[1] = "new" /\ <<"explained">>[1] = "explained"
    /\ \A n \in Nodes : \A s \in {"vouched", "saved", "noted"} :
           /\ <<s, n>> \in Places /\ <<s, n>>[1] = s
           /\ <<s, n>> \notin {<<"new">>, <<"explained">>, <<"loop">>, <<"ended">>, <<"abandoned">>}
           /\ \A m \in Nodes : \A t \in {"vouched", "saved", "noted"} : <<s, n>> = <<t, m>> => s = t /\ n = m
BY DEF Places

\* A run that has begun was called with a plan, whose nodes it works on.
LEMMA CallFields ==
    ASSUME NEW r \in Runs, ReuseTyped, InPlace(r), at[r] # <<"new">>
    PROVE  /\ args[r].plan \in Plans /\ args[r].previous \in Runs \cup {NoRun}
           /\ args[r].plan.dependencies \in [Nodes -> SUBSET Nodes]
           /\ \A n \in Nodes : Key(r, n) \in Keys
<1>1. args[r] \in Calls
    BY DEF InPlace
<1>2. args[r].plan \in Plans /\ args[r].previous \in Runs \cup {NoRun}
    BY <1>1 DEF Calls
<1> QED
    BY <1>2, PlanOrdered DEF Key, Keys

\* A run that takes a step has not ended, and is called once.
LEMMA StepPlaces ==
    ASSUME NEW r \in Runs, StepOf(r)
    PROVE  /\ at[r] # <<"ended">>
           /\ Explain(r) \/ at[r] # <<"new">>
<1>1. ASSUME at[r][1] \in InHand PROVE at[r] # <<"ended">> /\ at[r] # <<"new">>
    BY <1>1, PlacesApart DEF InHand
<1>2. Explain(r) => at[r] = <<"new">>
    BY DEF Explain
<1>3. Start(r) => at[r] = <<"explained">>
    BY DEF Start
<1>4. Recover(r) => at[r] = <<"abandoned">>
    BY DEF Recover
<1>5. End(r) => at[r] = <<"loop">>
    BY DEF End
<1>6. Interrupt(r) \/ Abandon(r) => at[r][1] \in InHand
    BY DEF Interrupt, Abandon
<1>7. ASSUME NEW n \in Nodes, Hit(r, n) \/ Run(r, n) \/ Succeed(r, n) \/ SaveRaises(r, n)
                              \/ Fail(r, n) \/ Cancelled(r, n)
      PROVE  at[r] = <<"loop">>
    BY <1>7 DEF Hit, Run, Succeed, SaveRaises, Fail, Cancelled, Working
<1>8. ASSUME NEW n \in Nodes, Note(r, n) \/ Finish(r, n)
      PROVE  at[r] \in {<<"saved", n>>, <<"vouched", n>>, <<"noted", n>>}
    BY <1>8 DEF Note, Finish
<1> QED
    BY <1>1, <1>2, <1>3, <1>4, <1>5, <1>6, <1>7, <1>8, PlacesApart DEF StepOf

\* A step keeps the types.
LEMMA StepTyped ==
    ASSUME NEW r \in Runs, ReuseTyped, InPlace(r), StepOf(r)
    PROVE  ReuseTyped'
<1> USE DEF ReuseTyped, Goto
<1>0. /\ rows[r] \in Rows /\ core[r] \in [Nodes -> CoreState]
      /\ at[r] # <<"new">> => \A n \in Nodes : Key(r, n) \in Keys
    BY CallFields
<1>1. CASE Explain(r)
    <2>1. PICK plan \in Plans, previous \in (1 .. r - 1) \cup {NoRun}, rerun \in Reruns :
              args' = [args EXCEPT ![r] = [plan |-> plan, previous |-> previous, rerun |-> rerun]]
        BY <1>1 DEF Explain
    <2>2. previous \in Runs \cup {NoRun} /\ rerun \in SUBSET Nodes
        BY <2>1, ReuseAssumption DEF Runs
    <2>3. [plan |-> plan, previous |-> previous, rerun |-> rerun] \in Calls
        BY <2>2 DEF Calls
    <2> QED
        BY <1>1, <2>1, <2>3, PlacesApart DEF Explain
<1>2. CASE Start(r)
    <2>1. Inserted(Selected(r)) \in Rows
        BY RowsInserted
    <2>2. [n \in Nodes |-> IF n \in Selected(r) THEN "pending" ELSE "unselected"] \in [Nodes -> CoreState]
        BY DEF CoreState
    <2> QED
        BY <1>2, <2>1, <2>2, PlacesApart DEF Start
<1>3. CASE Interrupt(r)
    <2>1. PICK admitted \in SUBSET Ready(r) :
              core' = [core EXCEPT ![r] =
                          [n \in Nodes |-> IF core[r][n] # "pending" THEN core[r][n]
                                           ELSE IF n \in admitted THEN "running" ELSE "cancelled"]]
        BY <1>3 DEF Interrupt
    <2>2. [n \in Nodes |-> IF core[r][n] # "pending" THEN core[r][n]
                           ELSE IF n \in admitted THEN "running" ELSE "cancelled"] \in [Nodes -> CoreState]
        BY <1>0 DEF CoreState
    <2> QED
        BY <1>3, <2>1, <2>2, PlacesApart DEF Interrupt
<1>4. CASE End(r)
    <2> DEFINE states == [n \in Nodes |-> IF core[r][n] = "running" THEN "unknown" ELSE core[r][n]]
    <2>1. states \in [Nodes -> RowState]
        BY <1>0 DEF CoreState, RowState, Outcomes
    <2> DEFINE status == IF r \in stopped THEN "interrupted"
                         ELSE IF \A n \in Nodes : states[n] \in Good \cup {"unselected"} THEN "succeeded"
                         ELSE "failed"
    <2>5. status \in RunStatus
        BY DEF RunStatus
    <2>2. rows' = [rows EXCEPT ![r] = Ended(@, states, status)]
        BY <1>4 DEF End
    <2> HIDE DEF status, states
    <2>3. Ended(rows[r], states, status) \in Rows
        BY <1>0, <2>1, <2>5, RowsEnded
    <2>4. [n \in Nodes |-> "unselected"] \in [Nodes -> CoreState]
        BY DEF CoreState
    <2>6. rows' \in [Runs -> Rows]
        BY <2>2, <2>3
    <2>7. /\ at' = [at EXCEPT ![r] = <<"ended">>] /\ UNCHANGED <<args, noted, stopped>>
          /\ outputs' = [outputs EXCEPT ![r] = <<>>]
          /\ core' = [core EXCEPT ![r] = [n \in Nodes |-> "unselected"]]
        BY <1>4 DEF End, Forgotten
    <2> QED
        BY <2>4, <2>6, <2>7, PlacesApart
<1>5. CASE Abandon(r)
    <2>1. [n \in Nodes |-> "unselected"] \in [Nodes -> CoreState]
        BY DEF CoreState
    <2> QED
        BY <1>5, <2>1, PlacesApart DEF Abandon, Forgotten
<1>6. CASE Recover(r)
    BY <1>0, <1>6, RowsEnded, PlacesApart DEF Recover
<1>7. ASSUME NEW n \in Nodes, Hit(r, n) PROVE ReuseTyped'
    <2>1. Key(r, n) \in Keys
        BY <1>0, <1>7, PlacesApart DEF Hit
    <2>2. at' \in [Runs -> Places] /\ UNCHANGED <<args, rows, stopped>>
        BY <1>7, PlacesApart DEF Hit
    <2>3. core' \in [Runs -> [Nodes -> CoreState]]
        BY <1>0, <1>7 DEF Hit, CoreState
    <2>4. noted' \in [Runs -> [Nodes -> Keys]]
        BY <1>7, <2>1 DEF Hit
    <2>5. outputs' = [q \in Runs |-> outputs'[q]]
        BY <1>7 DEF Hit
    <2> QED
        BY <2>2, <2>3, <2>4, <2>5
<1>8. ASSUME NEW n \in Nodes, Run(r, n) PROVE ReuseTyped'
    <2>1. MarkedRunning(rows[r], n) \in Rows
        BY <1>0, RowFields
    <2>2. core' \in [Runs -> [Nodes -> CoreState]]
        BY <1>0, <1>8 DEF Run, CoreState
    <2> QED
        BY <1>8, <2>1, <2>2 DEF Run
<1>9. ASSUME NEW n \in Nodes, Succeed(r, n) PROVE ReuseTyped'
    <2>1. at' = [at EXCEPT ![r] = <<"saved", n>>] /\ UNCHANGED <<args, rows, noted, stopped>>
        BY <1>9 DEF Succeed
    <2>2. core' \in [Runs -> [Nodes -> CoreState]]
        BY <1>0, <1>9 DEF Succeed, CoreState
    <2>3. outputs' = [q \in Runs |-> outputs'[q]]
        BY <1>9 DEF Succeed
    <2> QED
        BY <2>1, <2>2, <2>3, PlacesApart
<1>15. ASSUME NEW n \in Nodes, SaveRaises(r, n) PROVE ReuseTyped'
    <2>1. UNCHANGED <<at, args, rows, noted>> /\ stopped' \subseteq Runs
        BY <1>15 DEF SaveRaises
    <2>2. [m \in Nodes |-> IF core[r][m] = "pending" THEN "cancelled" ELSE core[r][m]] \in [Nodes -> CoreState]
        BY <1>0 DEF CoreState
    <2>3. core' \in [Runs -> [Nodes -> CoreState]]
        BY <1>15, <2>2 DEF SaveRaises
    <2>4. outputs' = [q \in Runs |-> outputs'[q]]
        BY <1>15 DEF SaveRaises
    <2> QED
        BY <2>1, <2>3, <2>4
<1>10. ASSUME NEW n \in Nodes, NEW state \in CoreState PROVE Blocking(r, n, state) \in [Nodes -> CoreState]
    BY <1>0 DEF Blocking, CoreState
<1>11. ASSUME NEW n \in Nodes, Fail(r, n) PROVE ReuseTyped'
    <2>1. Blocking(r, n, "failed") \in [Nodes -> CoreState]
        BY <1>10 DEF CoreState
    <2> QED
        BY <1>11, <2>1, PlacesApart DEF Fail
<1>12. ASSUME NEW n \in Nodes, Cancelled(r, n) PROVE ReuseTyped'
    <2>1. MarkedFinished(rows[r], n, "cancelled") \in Rows
        BY <1>0, RowFields DEF RowState, Outcomes
    <2>2. Blocking(r, n, "cancelled") \in [Nodes -> CoreState]
        BY <1>10 DEF CoreState
    <2> QED
        BY <1>12, <2>1, <2>2 DEF Cancelled
<1>13. ASSUME NEW n \in Nodes, Note(r, n) PROVE ReuseTyped'
    <2>1. Key(r, n) \in Keys
        BY <1>0, <1>13, PlacesApart DEF Note
    <2> QED
        BY <1>13, <2>1, PlacesApart DEF Note
<1>14. ASSUME NEW n \in Nodes, Finish(r, n) PROVE ReuseTyped'
    <2>1. PICK state : /\ state = IF at[r][1] = "vouched" THEN "reused" ELSE core[r][n]
                       /\ rows' = [rows EXCEPT ![r] = MarkedFinished(@, n, state)]
                       /\ core' = [core EXCEPT ![r][n] = state]
        BY <1>14 DEF Finish
    <2>2. state \in {"reused", "succeeded", "failed"}
        BY <1>14, <2>1, PlacesApart DEF Finish, InPlace
    <2>3. state \in RowState /\ state \in CoreState
        BY <2>2 DEF RowState, CoreState, Outcomes
    <2>4. MarkedFinished(rows[r], n, state) \in Rows
        BY <1>0, <2>3, RowFields
    <2>5. rows' \in [Runs -> Rows] /\ core' \in [Runs -> [Nodes -> CoreState]]
        BY <2>1, <2>3, <2>4
    <2> QED
        BY <1>14, <2>5, PlacesApart DEF Finish
<1> QED
    BY <1>1, <1>2, <1>3, <1>4, <1>5, <1>6, <1>7, <1>8, <1>9, <1>11, <1>12, <1>13, <1>14,
       <1>15 DEF StepOf

-----------------------------------------------------------------------------
\* A step of a run leaves the others as they are.
Same(q) ==
    /\ at'[q] = at[q] /\ args'[q] = args[q] /\ core'[q] = core[q] /\ outputs'[q] = outputs[q]
    /\ rows'[q] = rows[q] /\ noted'[q] = noted[q] /\ (q \in stopped') = (q \in stopped)

LEMMA OthersSame ==
    ASSUME NEW r \in Runs, NEW q \in Runs, q # r, ReuseTyped, StepOf(r)
    PROVE  Same(q)
<1> USE DEF ReuseTyped, Goto, Same
<1>1. CASE Explain(r)
    BY <1>1 DEF Explain
<1>2. CASE Start(r)
    BY <1>2 DEF Start
<1>3. CASE Interrupt(r)
    BY <1>3 DEF Interrupt
<1>4. CASE End(r)
    BY <1>4 DEF End, Forgotten
<1>5. CASE Abandon(r)
    BY <1>5 DEF Abandon, Forgotten
<1>6. CASE Recover(r)
    BY <1>6 DEF Recover
<1>7. ASSUME NEW n \in Nodes, Hit(r, n) PROVE Same(q)
    BY <1>7 DEF Hit
<1>8. ASSUME NEW n \in Nodes, Run(r, n) PROVE Same(q)
    BY <1>8 DEF Run
<1>9. ASSUME NEW n \in Nodes, Succeed(r, n) PROVE Same(q)
    BY <1>9 DEF Succeed
<1>14. ASSUME NEW n \in Nodes, SaveRaises(r, n) PROVE Same(q)
    BY <1>14 DEF SaveRaises
<1>10. ASSUME NEW n \in Nodes, Fail(r, n) PROVE Same(q)
    BY <1>10 DEF Fail
<1>11. ASSUME NEW n \in Nodes, Cancelled(r, n) PROVE Same(q)
    BY <1>11 DEF Cancelled
<1>12. ASSUME NEW n \in Nodes, Note(r, n) PROVE Same(q)
    BY <1>12 DEF Note
<1>13. ASSUME NEW n \in Nodes, Finish(r, n) PROVE Same(q)
    BY <1>13 DEF Finish
<1> QED
    BY <1>1, <1>2, <1>3, <1>4, <1>5, <1>6, <1>7, <1>8, <1>9, <1>10, <1>11, <1>12, <1>13,
       <1>14 DEF StepOf

\* What is said of the dictionary holds while the dictionary is the same.
LEMMA HeldSame ==
    ASSUME NEW q \in Runs, args'[q] = args[q], outputs'[q] = outputs[q], HeldFresh(q)
    PROVE  HeldFresh(q)'
<1>1. ASSUME NEW n PROVE Computes(q, n)' = Computes(q, n) /\ Key(q, n)' = Key(q, n)
    BY DEF Computes, Key
<1> QED
    BY <1>1 DEF HeldFresh

\* What is said of a run by itself holds while the run is the same.
LEMMA SameKeeps ==
    ASSUME NEW q \in Runs, Same(q), RunInv(q)
    PROVE  /\ InPlace(q)' /\ OnlySelected(q)' /\ InputsDone(q)' /\ GoodHeld(q)'
           /\ HeldFresh(q)' /\ NotedWell(q)'
<1>1. InPlace(q)'
    BY DEF InPlace, Same, RunInv
<1>2. OnlySelected(q)'
    BY DEF OnlySelected, Selected, Same, RunInv
<1>3. InputsDone(q)'
    BY DEF InputsDone, Same, RunInv
<1>4. GoodHeld(q)'
    BY DEF GoodHeld, Same, RunInv
<1>5. HeldFresh(q)'
    BY HeldSame DEF Same, RunInv
<1>6. NotedWell(q)'
    BY DEF NotedWell, Key, Same, RunInv
<1> QED
    BY <1>1, <1>2, <1>3, <1>4, <1>5, <1>6

\* A run that another resumes takes no more steps.
LEMMA PreviousStays ==
    ASSUME ReuseTyped, NEW r \in Runs, StepOf(r), NEW q \in Runs, InPlace(q), PreviousOver(q),
           at[q] # <<"new">>, args[q].previous # NoRun
    PROVE  args[q].previous \in Runs /\ Same(args[q].previous)
<1>1. args[q].previous \in Runs
    BY CallFields
<1>2. at[args[q].previous] = <<"ended">>
    BY DEF PreviousOver
<1> QED
    BY <1>1, <1>2, StepPlaces, OthersSame

\* A call stands, and a note that has been taken stays.
LEMMA NotesStay ==
    ASSUME ReuseTyped, NEW r \in Runs, StepOf(r), NEW q \in Runs, at[q] # <<"new">>, NEW n \in Nodes
    PROVE  args'[q] = args[q] /\ (noted'[q][n] = noted[q][n] \/ noted'[q][n] = Key(q, n))
<1>1. CASE q # r
    BY <1>1, OthersSame DEF Same
<1>2. CASE q = r
    <2> USE DEF ReuseTyped
    <2>1. CASE Explain(r)
        BY <1>2, <2>1 DEF Explain
    <2>2. CASE Start(r) \/ Interrupt(r) \/ End(r) \/ Abandon(r) \/ Recover(r)
        BY <1>2, <2>2 DEF Start, Interrupt, End, Abandon, Recover
    <2>3. ASSUME NEW m \in Nodes, Run(r, m) \/ Succeed(r, m) \/ SaveRaises(r, m) \/ Fail(r, m)
                                  \/ Cancelled(r, m) \/ Finish(r, m)
          PROVE  UNCHANGED <<args, noted>>
        BY <2>3 DEF Run, Succeed, SaveRaises, Fail, Cancelled, Finish
    <2>4. ASSUME NEW m \in Nodes, Hit(r, m) \/ Note(r, m)
          PROVE  UNCHANGED args /\ noted' = [noted EXCEPT ![r][m] = Key(r, m)]
        BY <2>4 DEF Hit, Note
    <2>5. ASSUME NEW m \in Nodes, noted' = [noted EXCEPT ![r][m] = Key(r, m)]
          PROVE  noted'[q][n] = noted[q][n] \/ noted'[q][n] = Key(q, n)
        BY <1>2, <2>5
    <2> QED
        BY <2>1, <2>2, <2>3, <2>4, <2>5 DEF StepOf
<1> QED
    BY <1>1, <1>2

\* A result that was vouched for stays vouched for.
LEMMA VouchedStays ==
    ASSUME ReuseTyped, NEW r \in Runs, StepOf(r), NEW q \in Runs, InPlace(q), PreviousOver(q),
           at[q] # <<"new">>, NEW n \in Nodes, Vouched(q, n)
    PROVE  Vouched(q, n)'
<1>1. args'[q] = args[q] /\ noted'[q][n] = Key(q, n)
    BY NotesStay DEF Vouched
<1>2. Key(q, n)' = Key(q, n)
    BY <1>1 DEF Key
<1>3. CASE args[q].previous = NoRun
    BY <1>1, <1>2, <1>3 DEF Vouched
<1>4. CASE args[q].previous # NoRun
    <2>1. Same(args[q].previous)
        BY <1>4, PreviousStays
    <2> QED
        BY <1>1, <1>2, <1>4, <2>1 DEF Vouched, Same
<1> QED
    BY <1>3, <1>4

\* Nor does anything else change of the run that is resumed, and the decisions.
LEMMA PreviousKept ==
    ASSUME ReuseTyped, NEW r \in Runs, StepOf(r), NEW q \in Runs, InPlace(q), PreviousOver(q),
           at[q] # <<"new">>
    PROVE  PreviousOver(q)'
<1>1. args'[q] = args[q]
    BY NotesStay, NAssumption DEF Nodes
<1>2. CASE args[q].previous = NoRun
    BY <1>1, <1>2 DEF PreviousOver
<1>3. CASE args[q].previous # NoRun
    <2>1. Same(args[q].previous)
        BY <1>3, PreviousStays
    <2> QED
        BY <1>1, <1>3, <2>1 DEF PreviousOver, Selected, Same
<1> QED
    BY <1>2, <1>3

\* A run that has not begun has recorded nothing.
LEMMA NewQuiet ==
    ASSUME NEW q \in Runs, InPlace(q), at[q] \in {<<"new">>, <<"explained">>}
    PROVE  \A n \in Nodes : /\ core[q][n] = "unselected" /\ at[q] # <<"vouched", n>>
                            /\ rows[q].nodes[n] \notin Good /\ ~ rows[q].started[n]
<1>1. rows[q] = NoRows /\ core[q] = Unselected
    BY DEF InPlace
<1> QED
    BY <1>1, RowsInserted, PlacesApart DEF Unselected

LEMMA OthersKeep ==
    ASSUME ReuseTyped, NEW r \in Runs, StepOf(r), NEW q \in Runs, q # r, RunInv(q)
    PROVE  RunInv(q)'
<1>1. Same(q)
    BY OthersSame
<1>2. /\ InPlace(q)' /\ OnlySelected(q)' /\ InputsDone(q)' /\ GoodHeld(q)'
      /\ HeldFresh(q)' /\ NotedWell(q)'
    BY <1>1, SameKeeps
<1>3. ReusedWell(q)' /\ PreviousOver(q)'
    <2>1. CASE at[q] = <<"new">>
        <3>1. \A n \in Nodes : /\ at'[q] # <<"vouched", n>> /\ core'[q][n] = "unselected"
                               /\ rows'[q].nodes[n] \notin Good
            BY <1>1, <2>1, NewQuiet DEF RunInv, Same
        <3>2. ReusedWell(q)'
            BY <3>1 DEF ReusedWell, Good
        <3> QED
            BY <1>1, <2>1, <3>2 DEF PreviousOver, Same
    <2>2. CASE at[q] # <<"new">>
        <3>1. ASSUME NEW n \in Nodes,
                     (at[q] = <<"vouched", n>> \/ core[q][n] = "reused" \/ rows[q].nodes[n] = "reused")'
              PROVE  Vouched(q, n)'
            <4>1. Vouched(q, n)
                BY <1>1, <3>1 DEF RunInv, ReusedWell, Same
            <4> QED
                BY <2>2, <4>1, VouchedStays DEF RunInv
        <3>2. ReusedWell(q)'
            BY <3>1 DEF ReusedWell
        <3> QED
            BY <2>2, <3>2, PreviousKept DEF RunInv
    <2> QED
        BY <2>1, <2>2
<1> QED
    BY <1>2, <1>3 DEF RunInv

-----------------------------------------------------------------------------
\* What a step has to show of what is reused: that any result newly reused is
\* vouched for.
LEMMA ReusedKept ==
    ASSUME ReuseTyped, NEW r \in Runs, StepOf(r), RunInv(r), at[r] # <<"new">>,
           \A n \in Nodes :
               (at[r] = <<"vouched", n>> \/ core[r][n] = "reused" \/ rows[r].nodes[n] = "reused")' =>
                   Vouched(r, n) \/ Vouched(r, n)'
    PROVE  ReusedWell(r)' /\ PreviousOver(r)'
<1>1. \A n \in Nodes : Vouched(r, n) => Vouched(r, n)'
    BY VouchedStays DEF RunInv
<1> QED
    BY <1>1, PreviousKept DEF RunInv, ReusedWell

\* What a node with a fingerprint computes from a dictionary that holds the
\* values of what it depends on.
LEMMA ComputesValue ==
    ASSUME ReuseTyped, NEW r \in Runs, RunInv(r), at[r] # <<"new">>, NEW n \in Nodes,
           Key(r, n) # NoKey, args[r].plan.dependencies[n] \subseteq DOMAIN outputs[r]
    PROVE  Computes(r, n) = Values(args[r].plan)[n]
<1> DEFINE plan == args[r].plan
<1>1. plan \in Plans
    BY CallFields DEF RunInv
<1>2. /\ plan.cache[n] # NoKey
      /\ \A d \in plan.dependencies[n] : d \in Nodes /\ Key(r, d) # NoKey
    BY <1>1, KeyMade DEF Key
<1>3. \A d \in plan.dependencies[n] : outputs[r][d] = Values(plan)[d]
    BY <1>2 DEF RunInv, HeldFresh
<1>4. Computes(r, n) =
          [graph |-> plan.graph, version |-> plan.version, node |-> n, key |-> plan.cache[n],
           by |-> NoRun, inputs |-> [d \in plan.dependencies[n] |-> Values(plan)[d]]]
    BY <1>2, <1>3 DEF Computes
<1> QED
    BY <1>1, <1>4, ValuesDefined

\* A result that is what the node computes goes into the dictionary.  If there
\* was one it was the same; if not, nothing was computed from it.
LEMMA HeldGrows ==
    ASSUME ReuseTyped, NEW r \in Runs, RunInv(r), at[r] # <<"new">>, NEW n \in Nodes,
           args[r].plan.dependencies[n] \subseteq DOMAIN outputs[r],
           args'[r] = args[r], outputs'[r] = With(outputs[r], n, Computes(r, n))
    PROVE  HeldFresh(r)'
<1> DEFINE plan == args[r].plan
<1>1. /\ DOMAIN outputs'[r] = DOMAIN outputs[r] \cup {n}
      /\ outputs'[r][n] = Computes(r, n)
      /\ \A m \in DOMAIN outputs[r] : m # n => outputs'[r][m] = outputs[r][m]
    BY DEF With
<1>2. HeldFresh(r) /\ plan \in Plans
    BY CallFields DEF RunInv
<1>3. \A m \in DOMAIN outputs[r] : outputs'[r][m] = outputs[r][m]
    BY <1>1, <1>2 DEF HeldFresh
<1>4. ASSUME NEW m, plan.dependencies[m] \subseteq DOMAIN outputs[r]
      PROVE  Computes(r, m)' = Computes(r, m) /\ Key(r, m)' = Key(r, m)
    <2>1. \A d \in plan.dependencies[m] : outputs'[r][d] = outputs[r][d]
        BY <1>3, <1>4
    <2> QED
        BY <2>1 DEF Computes, Key
<1>5. ASSUME NEW m \in DOMAIN outputs'[r]
      PROVE  /\ m \in Nodes
             /\ plan.dependencies[m] \subseteq DOMAIN outputs'[r]
             /\ outputs'[r][m] = Computes(r, m)'
             /\ Key(r, m)' # NoKey => outputs'[r][m] = Values(plan)[m]
    <2>1. CASE m = n
        BY <1>1, <1>4, <2>1, ComputesValue
    <2>2. CASE m # n
        <3>1. m \in DOMAIN outputs[r]
            BY <1>1, <1>5, <2>2
        <3>2. /\ m \in Nodes /\ plan.dependencies[m] \subseteq DOMAIN outputs[r]
              /\ outputs[r][m] = Computes(r, m)
              /\ Key(r, m) # NoKey => outputs[r][m] = Values(plan)[m]
            BY <1>2, <3>1 DEF HeldFresh
        <3> QED
            BY <1>1, <1>3, <1>4, <3>1, <3>2
    <2> QED
        BY <2>1, <2>2
<1> QED
    BY <1>5 DEF HeldFresh

-----------------------------------------------------------------------------
\* The invariant of the run that takes the step, action by action.
LEMMA ExplainKeeps ==
    ASSUME ReuseInv, NEW r \in Runs, Explain(r)
    PROVE  RunInv(r)'
<1> USE DEF ReuseInv, RunInv
<1>1. PICK plan \in Plans, previous \in (1 .. r - 1) \cup {NoRun}, rerun \in Reruns :
          /\ Resumes(plan, previous)
          /\ Decisions(plan, previous, rerun) = {}
          /\ args' = [args EXCEPT ![r] = [plan |-> plan, previous |-> previous, rerun |-> rerun]]
    BY DEF Explain
<1>2. /\ at[r] = <<"new">> /\ at'[r] = <<"explained">> /\ core'[r] = core[r] /\ rows'[r] = rows[r]
      /\ outputs'[r] = outputs[r] /\ at' = [at EXCEPT ![r] = <<"explained">>] /\ rows' = rows
    BY DEF Explain, Goto, ReuseTyped
<1>3. /\ args'[r].plan = plan /\ args'[r].previous = previous /\ args'[r].rerun = rerun
    BY <1>1 DEF ReuseTyped
<1>4. rows[r] = NoRows /\ core[r] = Unselected /\ DOMAIN outputs[r] = {}
    BY <1>2 DEF InPlace
<1>5. \A n \in Nodes : /\ core[r][n] = "unselected" /\ at'[r] # <<"vouched", n>>
                       /\ rows[r].nodes[n] \notin Good /\ ~ rows[r].started[n]
    BY <1>2, NewQuiet, PlacesApart
<1>6. InPlace(r)'
    <2>1. args'[r] \in Calls
        <3>1. previous \in Runs \cup {NoRun} /\ rerun \in SUBSET Nodes
            BY <1>1, ReuseAssumption DEF Runs
        <3> QED
            BY <1>1, <3>1 DEF Calls, ReuseTyped
    <2> QED
        BY <1>2, <1>4, <2>1, PlacesApart DEF InPlace, InHand
<1>7. OnlySelected(r)' /\ InputsDone(r)' /\ GoodHeld(r)' /\ ReusedWell(r)' /\ NotedWell(r)'
    <2>1. \A n \in Nodes : /\ core'[r][n] = "unselected" /\ at'[r] # <<"vouched", n>>
                           /\ rows'[r].nodes[n] \notin Good /\ ~ rows'[r].started[n]
        BY <1>2, <1>5
    <2> QED
        BY <2>1 DEF OnlySelected, InputsDone, GoodHeld, ReusedWell, NotedWell, Good
<1>8. HeldFresh(r)'
    BY <1>2, <1>4 DEF HeldFresh
<1>9. PreviousOver(r)'
    <2> SUFFICES ASSUME previous # NoRun
                 PROVE  /\ at'[previous] = <<"ended">>
                        /\ \A n \in Selected(r)' \ rerun :
                               plan.cache[n] = NoKey => ~ rows'[previous].started[n]
        BY <1>3 DEF PreviousOver
    <2>1. previous \in Runs /\ previous # r
        BY <1>1, ReuseAssumption DEF Runs
    <2>2. rows[previous].status \notin {"none", "running"}
        BY <1>1 DEF Resumes
    <2>3. at[previous] = <<"ended">>
        <3>1. InPlace(previous) /\ at[previous] \in Places
            BY <2>1 DEF ReuseTyped
        <3>2. at[previous] \notin {<<"new">>, <<"explained">>}
            BY <2>2, <3>1, RowsInserted DEF InPlace
        <3>3. at[previous][1] \notin InHand \cup {"abandoned"}
            BY <2>2, <3>1 DEF InPlace
        <3>4. at[previous] \notin {<<"loop">>, <<"abandoned">>}
            BY <3>3, PlacesApart DEF InHand
        <3>5. \A n \in Nodes : at[previous] \notin {<<"vouched", n>>, <<"saved", n>>, <<"noted", n>>}
            BY <3>3, PlacesApart DEF InHand
        <3> QED
            BY <3>1, <3>2, <3>4, <3>5 DEF Places
    <2>4. at'[previous] = <<"ended">>
        BY <1>2, <2>1, <2>3 DEF ReuseTyped
    <2>5. Selected(r)' = Select(plan, plan.targets)
        BY <1>3 DEF Selected
    <2>6. \A n \in Select(plan, plan.targets) \ rerun :
              plan.cache[n] = NoKey => ~ rows[previous].started[n]
        BY <1>1 DEF Decisions
    <2> QED
        BY <1>2, <2>4, <2>5, <2>6
<1> QED
    BY <1>6, <1>7, <1>8, <1>9

LEMMA StartKeeps ==
    ASSUME ReuseInv, NEW r \in Runs, Start(r)
    PROVE  RunInv(r)'
<1> USE DEF ReuseInv, RunInv
<1>1. /\ at[r] = <<"explained">> /\ at'[r] = <<"loop">> /\ args'[r] = args[r]
      /\ rows'[r] = Inserted(Selected(r))
      /\ core'[r] = [n \in Nodes |-> IF n \in Selected(r) THEN "pending" ELSE "unselected"]
      /\ outputs'[r] = outputs[r]
    BY DEF Start, Goto, ReuseTyped
<1>2. StepOf(r) /\ at[r] # <<"new">>
    BY <1>1, PlacesApart DEF StepOf
<1>3. DOMAIN outputs[r] = {}
    BY <1>1 DEF InPlace
<1>4. \A n \in Nodes : /\ core'[r][n] \in {"pending", "unselected"} /\ at'[r] # <<"vouched", n>>
                       /\ rows'[r].nodes[n] \notin Good /\ ~ rows'[r].started[n]
                       /\ core'[r][n] # "unselected" => n \in Selected(r)
    BY <1>1, RowsInserted, PlacesApart
<1>5. Selected(r)' = Selected(r)
    BY <1>1 DEF Selected
<1>6. InPlace(r)'
    BY <1>1, <1>2, RowsInserted, PlacesApart DEF InPlace, InHand
<1>7. OnlySelected(r)' /\ InputsDone(r)' /\ GoodHeld(r)' /\ NotedWell(r)'
    BY <1>4, <1>5 DEF OnlySelected, InputsDone, GoodHeld, NotedWell, Good
<1>8. HeldFresh(r)'
    BY <1>1, <1>3 DEF HeldFresh
<1>9. ReusedWell(r)' /\ PreviousOver(r)'
    BY <1>2, <1>4, ReusedKept DEF Good
<1> QED
    BY <1>6, <1>7, <1>8, <1>9

\* A node that is admitted: what it depends on is done and in the dictionary.
LEMMA ReadyNode ==
    ASSUME ReuseTyped, NEW r \in Runs, RunInv(r), at[r] # <<"new">>, NEW n \in Ready(r)
    PROVE  /\ n \in Nodes /\ core[r][n] = "pending" /\ n \in Selected(r)
           /\ args[r].plan.dependencies[n] \subseteq Nodes
           /\ args[r].plan.dependencies[n] \subseteq DOMAIN outputs[r]
           /\ \A d \in args[r].plan.dependencies[n] : core[r][d] \in Good
<1>1. n \in Nodes /\ core[r][n] = "pending" /\ \A d \in args[r].plan.dependencies[n] : core[r][d] \in Good
    BY DEF Ready
<1>2. n \in Selected(r)
    BY <1>1 DEF RunInv, OnlySelected
<1>3. args[r].plan.dependencies[n] \subseteq Nodes
    BY <1>1, CallFields DEF RunInv
<1> QED
    BY <1>1, <1>2, <1>3 DEF RunInv, GoodHeld

LEMMA HitKeeps ==
    ASSUME ReuseInv, NEW r \in Runs, NEW n \in Nodes, Hit(r, n)
    PROVE  RunInv(r)'
<1> USE DEF ReuseInv, RunInv
<1>1. /\ at[r] = <<"loop">> /\ n \in Ready(r) /\ MayReuse(r, n)
      /\ Findable(args[r].previous, n, Key(r, n))
      /\ at'[r] = <<"vouched", n>> /\ args'[r] = args[r] /\ rows' = rows /\ stopped' = stopped
      /\ outputs'[r] = With(outputs[r], n, results[Key(r, n)])
      /\ noted'[r] = [noted[r] EXCEPT ![n] = Key(r, n)]
      /\ core'[r] = [core[r] EXCEPT ![n] = "running"]
    BY DEF Hit, Goto, ReuseTyped
<1>2. StepOf(r) /\ at[r] # <<"new">>
    BY <1>1, PlacesApart DEF StepOf
<1>3. /\ core[r][n] = "pending" /\ n \in Selected(r)
      /\ args[r].plan.dependencies[n] \subseteq Nodes
      /\ args[r].plan.dependencies[n] \subseteq DOMAIN outputs[r]
      /\ \A d \in args[r].plan.dependencies[n] : core[r][d] \in Good
    BY <1>1, <1>2, ReadyNode
<1>4. /\ core[r] \in [Nodes -> CoreState] /\ noted[r] \in [Nodes -> Keys]
      /\ \A m \in Nodes : /\ core'[r][m] = IF m = n THEN "running" ELSE core[r][m]
                          /\ noted'[r][m] = IF m = n THEN Key(r, n) ELSE noted[r][m]
    BY <1>1 DEF ReuseTyped
<1>5. Selected(r)' = Selected(r) /\ \A m \in Nodes : Key(r, m)' = Key(r, m)
    BY <1>1 DEF Selected, Key
<1>6. /\ Key(r, n) # NoKey /\ n \notin args[r].rerun /\ Key(r, n) \in DOMAIN results
      /\ args[r].previous # NoRun =>
             /\ noted[args[r].previous][n] = Key(r, n)
             /\ rows[args[r].previous].nodes[n] \in Good
    BY <1>1 DEF MayReuse, Findable, Vouches
<1>7. results[Key(r, n)] = Computes(r, n)
    <2>1. args[r].plan \in Plans
        BY <1>2, CallFields
    <2>2. results[Key(r, n)] = Values(args[r].plan)[n]
        BY <1>6, <2>1 DEF StoredFresh, Key
    <2> QED
        BY <1>2, <1>3, <1>6, <2>2, ComputesValue
<1>8. Vouched(r, n)'
    <2>1. args[r].previous # NoRun => Same(args[r].previous)
        BY <1>2, PreviousStays
    <2> QED
        BY <1>1, <1>4, <1>5, <1>6, <2>1 DEF Vouched, Same
<1>9. InPlace(r)'
    BY <1>1, <1>2, <1>4, PlacesApart DEF InPlace, InHand
<1>10. OnlySelected(r)'
    BY <1>1, <1>3, <1>4, <1>5 DEF OnlySelected
<1>11. InputsDone(r)'
    <2> SUFFICES ASSUME NEW m \in Nodes, core'[r][m] = "running", NEW d \in args[r].plan.dependencies[m]
                 PROVE  core'[r][d] \in Good
        BY <1>1 DEF InputsDone
    <2>1. core[r][d] \in Good
        BY <1>3, <1>4 DEF InputsDone
    <2>2. d \in Nodes
        BY <1>2, CallFields
    <2> QED
        BY <1>3, <1>4, <2>1, <2>2 DEF Good
<1>12. GoodHeld(r)'
    <2>1. DOMAIN outputs'[r] = DOMAIN outputs[r] \cup {n}
        BY <1>1 DEF With
    <2> QED
        BY <1>1, <1>4, <2>1, PlacesApart DEF GoodHeld
<1>13. HeldFresh(r)'
    BY <1>1, <1>2, <1>3, <1>7, HeldGrows
<1>14. NotedWell(r)'
    BY <1>1, <1>3, <1>4, <1>5, PlacesApart DEF NotedWell
<1>15. ReusedWell(r)' /\ PreviousOver(r)'
    <2>1. \A m \in Nodes :
              (at[r] = <<"vouched", m>> \/ core[r][m] = "reused" \/ rows[r].nodes[m] = "reused")' =>
                  Vouched(r, m) \/ Vouched(r, m)'
        BY <1>1, <1>4, <1>8, PlacesApart DEF ReusedWell
    <2> QED
        BY <1>2, <2>1, ReusedKept
<1> QED
    BY <1>9, <1>10, <1>11, <1>12, <1>13, <1>14, <1>15

LEMMA RunKeeps ==
    ASSUME ReuseInv, NEW r \in Runs, NEW n \in Nodes, Run(r, n)
    PROVE  RunInv(r)'
<1> USE DEF ReuseInv, RunInv
<1>1. /\ at[r] = <<"loop">> /\ n \in Ready(r)
      /\ UNCHANGED <<at, args, outputs, noted, stopped>>
      /\ core'[r] = [core[r] EXCEPT ![n] = "running"]
      /\ rows'[r] = MarkedRunning(rows[r], n)
    BY DEF Run, ReuseTyped
<1>2. StepOf(r) /\ at[r] # <<"new">>
    BY <1>1, PlacesApart DEF StepOf
<1>3. /\ core[r][n] = "pending" /\ n \in Selected(r)
      /\ \A d \in args[r].plan.dependencies[n] : core[r][d] \in Good
    BY <1>1, <1>2, ReadyNode
<1>4. /\ core[r] \in [Nodes -> CoreState] /\ rows'[r].status = rows[r].status
      /\ \A m \in Nodes : /\ core'[r][m] = IF m = n THEN "running" ELSE core[r][m]
                          /\ rows'[r].nodes[m] = IF m = n THEN "running" ELSE rows[r].nodes[m]
                          /\ rows'[r].started[m] = (m = n \/ rows[r].started[m])
    BY <1>1, RowFields DEF ReuseTyped
<1>5. Selected(r)' = Selected(r) /\ \A m \in Nodes : Key(r, m)' = Key(r, m)
    BY <1>1 DEF Selected, Key
<1>6. InPlace(r)'
    BY <1>1, <1>2, <1>4, PlacesApart DEF InPlace, InHand
<1>7. OnlySelected(r)'
    BY <1>1, <1>3, <1>4, <1>5 DEF OnlySelected
<1>8. InputsDone(r)'
    <2> SUFFICES ASSUME NEW m \in Nodes, core'[r][m] = "running", NEW d \in args[r].plan.dependencies[m]
                 PROVE  core'[r][d] \in Good
        BY <1>1 DEF InputsDone
    <2>1. core[r][d] \in Good
        BY <1>3, <1>4 DEF InputsDone
    <2>2. d \in Nodes
        BY <1>2, CallFields
    <2> QED
        BY <1>3, <1>4, <2>1, <2>2 DEF Good
<1>9. GoodHeld(r)'
    BY <1>1, <1>4, PlacesApart DEF GoodHeld, Good
<1>10. HeldFresh(r)'
    BY <1>1, HeldSame
<1>11. NotedWell(r)'
    BY <1>1, <1>4, <1>5, PlacesApart DEF NotedWell, Good
<1>12. ReusedWell(r)' /\ PreviousOver(r)'
    <2>1. \A m \in Nodes :
              (at[r] = <<"vouched", m>> \/ core[r][m] = "reused" \/ rows[r].nodes[m] = "reused")' =>
                  Vouched(r, m) \/ Vouched(r, m)'
        BY <1>1, <1>4, PlacesApart DEF ReusedWell
    <2> QED
        BY <1>2, <2>1, ReusedKept
<1> QED
    BY <1>6, <1>7, <1>8, <1>9, <1>10, <1>11, <1>12

LEMMA SucceedKeeps ==
    ASSUME ReuseInv, NEW r \in Runs, NEW n \in Nodes, Succeed(r, n)
    PROVE  RunInv(r)'
<1> USE DEF ReuseInv, RunInv
<1>1. /\ at[r] = <<"loop">> /\ core[r][n] = "running"
      /\ at'[r] = <<"saved", n>> /\ UNCHANGED <<args, rows, noted, stopped>>
      /\ core'[r] = [core[r] EXCEPT ![n] = "succeeded"]
      /\ outputs'[r] = With(outputs[r], n, Computes(r, n))
    BY DEF Succeed, Working, Goto, ReuseTyped
<1>3. StepOf(r) /\ at[r] # <<"new">>
    BY <1>1, PlacesApart DEF StepOf
<1>4. /\ core[r] \in [Nodes -> CoreState]
      /\ \A m \in Nodes : core'[r][m] = IF m = n THEN "succeeded" ELSE core[r][m]
    BY <1>1 DEF ReuseTyped
<1>6. Selected(r)' = Selected(r) /\ \A m \in Nodes : Key(r, m)' = Key(r, m)
    BY <1>1 DEF Selected, Key
<1>7. args[r].plan.dependencies[n] \subseteq DOMAIN outputs[r]
    <2>1. args[r].plan.dependencies[n] \subseteq Nodes
        BY <1>3, CallFields
    <2> QED
        BY <1>1, <2>1 DEF InputsDone, GoodHeld
<1>8. InPlace(r)'
    <2>1. rows[r].status = "running" /\ args[r] \in Calls
        BY <1>1, <1>3, PlacesApart DEF InPlace, InHand
    <2> QED
        BY <1>1, <1>4, <2>1, PlacesApart DEF InPlace
<1>9. OnlySelected(r)'
    BY <1>1, <1>4, <1>6 DEF OnlySelected
<1>10. InputsDone(r)'
    <2> SUFFICES ASSUME NEW m \in Nodes, core'[r][m] = "running", NEW d \in args[r].plan.dependencies[m]
                 PROVE  core'[r][d] \in Good
        BY <1>1 DEF InputsDone
    <2>1. core[r][d] \in Good
        BY <1>1, <1>4 DEF InputsDone
    <2>2. d \in Nodes
        BY <1>3, CallFields
    <2> QED
        BY <1>4, <2>1, <2>2 DEF Good
<1>11. GoodHeld(r)'
    <2>1. DOMAIN outputs'[r] = DOMAIN outputs[r] \cup {n}
        BY <1>1 DEF With
    <2>2. \A m \in Nodes : at'[r] # <<"vouched", m>>
        BY <1>1, PlacesApart
    <2> QED
        BY <1>1, <1>4, <2>1, <2>2 DEF GoodHeld
<1>12. HeldFresh(r)'
    BY <1>1, <1>3, <1>7, HeldGrows
<1>13. NotedWell(r)'
    <2> SUFFICES ASSUME r \notin stopped, NEW m \in Nodes,
                        rows[r].nodes[m] \in Good \/ (core'[r][m] = "succeeded" /\ at'[r] # <<"saved", m>>)
                 PROVE  noted[r][m] = Key(r, m)
        BY <1>1, <1>6 DEF NotedWell
    <2> QED
        BY <1>1, <1>4, PlacesApart DEF NotedWell
<1>14. ReusedWell(r)' /\ PreviousOver(r)'
    <2>1. \A m \in Nodes :
              (at[r] = <<"vouched", m>> \/ core[r][m] = "reused" \/ rows[r].nodes[m] = "reused")' =>
                  Vouched(r, m) \/ Vouched(r, m)'
        BY <1>1, <1>4, PlacesApart DEF ReusedWell
    <2> QED
        BY <1>3, <2>1, ReusedKept
<1> QED
    BY <1>8, <1>9, <1>10, <1>11, <1>12, <1>13, <1>14

LEMMA SaveRaisesKeeps ==
    ASSUME ReuseInv, NEW r \in Runs, NEW n \in Nodes, SaveRaises(r, n)
    PROVE  RunInv(r)'
<1> USE DEF ReuseInv, RunInv
<1>1. /\ at[r] = <<"loop">> /\ core[r][n] = "running" /\ r \in stopped'
      /\ UNCHANGED <<at, args, rows, noted>>
      /\ outputs'[r] = With(outputs[r], n, Computes(r, n))
    BY DEF SaveRaises, Working, ReuseTyped
<1>2. StepOf(r) /\ at[r] # <<"new">>
    BY <1>1, PlacesApart DEF StepOf
<1>3. \A m \in Nodes : core'[r][m] = IF core[r][m] = "pending" THEN "cancelled" ELSE core[r][m]
    BY DEF SaveRaises, ReuseTyped
<1>4. Selected(r)' = Selected(r) /\ \A m \in Nodes : Key(r, m)' = Key(r, m)
    BY <1>1 DEF Selected, Key
<1>5. args[r].plan.dependencies[n] \subseteq DOMAIN outputs[r]
    <2>1. args[r].plan.dependencies[n] \subseteq Nodes
        BY <1>2, CallFields
    <2> QED
        BY <1>1, <2>1 DEF InputsDone, GoodHeld
<1>6. InPlace(r)'
    <2>1. rows[r].status = "running" /\ args[r] \in Calls
        BY <1>1, <1>2, PlacesApart DEF InPlace, InHand
    <2> QED
        BY <1>1, <2>1, PlacesApart DEF InPlace
<1>7. OnlySelected(r)'
    BY <1>1, <1>3, <1>4 DEF OnlySelected
<1>8. InputsDone(r)'
    <2> SUFFICES ASSUME NEW m \in Nodes, core'[r][m] = "running", NEW d \in args[r].plan.dependencies[m]
                 PROVE  core'[r][d] \in Good
        BY <1>1 DEF InputsDone
    <2>1. core[r][d] \in Good
        BY <1>3 DEF InputsDone
    <2>2. d \in Nodes
        BY <1>2, CallFields
    <2> QED
        BY <1>3, <2>1, <2>2 DEF Good
<1>9. GoodHeld(r)'
    <2>1. DOMAIN outputs'[r] = DOMAIN outputs[r] \cup {n}
        BY <1>1 DEF With
    <2> QED
        BY <1>1, <1>3, <2>1 DEF GoodHeld, Good
<1>10. HeldFresh(r)'
    BY <1>1, <1>2, <1>5, HeldGrows
<1>11. NotedWell(r)'
    BY <1>1 DEF NotedWell
<1>12. ReusedWell(r)' /\ PreviousOver(r)'
    <2>1. \A m \in Nodes :
              (at[r] = <<"vouched", m>> \/ core[r][m] = "reused" \/ rows[r].nodes[m] = "reused")' =>
                  Vouched(r, m) \/ Vouched(r, m)'
        BY <1>1, <1>3, PlacesApart DEF ReusedWell
    <2> QED
        BY <1>2, <2>1, ReusedKept
<1> QED
    BY <1>6, <1>7, <1>8, <1>9, <1>10, <1>11, <1>12

\* A node that fails or is cancelled blocks nodes that wait, and no other.
LEMMA BlockedNodes ==
    ASSUME ReuseTyped, NEW r \in Runs, RunInv(r), at[r] # <<"new">>, NEW n \in Nodes,
           core[r][n] = "running", NEW state \in {"failed", "cancelled"},
           core'[r] = Blocking(r, n, state), UNCHANGED args
    PROVE  /\ \A m \in Nodes : core'[r][m] # core[r][m] =>
                  \/ m = n /\ core'[r][m] = state
                  \/ core[r][m] = "pending" /\ core'[r][m] = "blocked"
           /\ core'[r][n] = state
           /\ InputsDone(r)'
           /\ \A m \in Nodes : core'[r][m] \in Good => core[r][m] = core'[r][m]
           /\ \A m \in Nodes : core'[r][m] # "unselected" => core[r][m] # "unselected"
<1>1. \A m \in Nodes : core'[r][m] = Blocking(r, n, state)[m]
    OBVIOUS
<1>2. /\ \A m \in Nodes : core'[r][m] # core[r][m] =>
             \/ m = n /\ core'[r][m] = state
             \/ core[r][m] = "pending" /\ core'[r][m] = "blocked"
      /\ core'[r][n] = state
    BY <1>1 DEF Blocking
<1>3. InputsDone(r)'
    <2> SUFFICES ASSUME NEW m \in Nodes, core'[r][m] = "running", NEW d \in args[r].plan.dependencies[m]
                 PROVE  core'[r][d] \in Good
        BY DEF InputsDone
    <2>1. core[r][m] = "running"
        BY <1>2
    <2>2. core[r][d] \in Good /\ d \in Nodes
        BY <2>1, CallFields DEF RunInv, InputsDone
    <2>3. core'[r][d] = core[r][d]
        BY <1>2, <2>2 DEF Good
    <2> QED
        BY <2>2, <2>3
<1> QED
    BY <1>2, <1>3 DEF Good

LEMMA FailKeeps ==
    ASSUME ReuseInv, NEW r \in Runs, NEW n \in Nodes, Fail(r, n)
    PROVE  RunInv(r)'
<1> USE DEF ReuseInv, RunInv
<1>1. /\ at[r] = <<"loop">> /\ core[r][n] = "running"
      /\ UNCHANGED <<args, outputs, rows, noted, stopped>>
      /\ at'[r] = <<"saved", n>> /\ core'[r] = Blocking(r, n, "failed")
    BY DEF Fail, Working, Goto, ReuseTyped
<1>2. StepOf(r) /\ at[r] # <<"new">>
    BY <1>1, PlacesApart DEF StepOf
<1>3. /\ core'[r][n] = "failed" /\ InputsDone(r)'
      /\ \A m \in Nodes : core'[r][m] \in Good => core[r][m] = core'[r][m]
      /\ \A m \in Nodes : core'[r][m] # "unselected" => core[r][m] # "unselected"
    BY <1>1, <1>2, BlockedNodes
<1>5. Selected(r)' = Selected(r) /\ \A m \in Nodes : Key(r, m)' = Key(r, m)
    BY <1>1 DEF Selected, Key
<1>6. InPlace(r)'
    <2>1. rows[r].status = "running" /\ args[r] \in Calls
        BY <1>1, <1>2, PlacesApart DEF InPlace, InHand
    <2> QED
        BY <1>1, <1>3, <2>1, PlacesApart DEF InPlace
<1>7. OnlySelected(r)'
    BY <1>1, <1>3, <1>5 DEF OnlySelected
<1>8. GoodHeld(r)'
    BY <1>1, <1>3, PlacesApart DEF GoodHeld
<1>9. HeldFresh(r)'
    BY <1>1, HeldSame
<1>10. NotedWell(r)'
    BY <1>1, <1>3, <1>5, PlacesApart DEF NotedWell, Good
<1>11. ReusedWell(r)' /\ PreviousOver(r)'
    <2>1. \A m \in Nodes :
              (at[r] = <<"vouched", m>> \/ core[r][m] = "reused" \/ rows[r].nodes[m] = "reused")' =>
                  Vouched(r, m) \/ Vouched(r, m)'
        BY <1>1, <1>3, PlacesApart DEF ReusedWell, Good
    <2> QED
        BY <1>2, <2>1, ReusedKept
<1> QED
    BY <1>3, <1>6, <1>7, <1>8, <1>9, <1>10, <1>11

LEMMA CancelledKeeps ==
    ASSUME ReuseInv, NEW r \in Runs, NEW n \in Nodes, Cancelled(r, n)
    PROVE  RunInv(r)'
<1> USE DEF ReuseInv, RunInv
<1>1. /\ at[r] = <<"loop">> /\ core[r][n] = "running"
      /\ UNCHANGED <<at, args, outputs, noted, stopped>>
      /\ core'[r] = Blocking(r, n, "cancelled")
      /\ rows'[r] = MarkedFinished(rows[r], n, "cancelled")
    BY DEF Cancelled, Working, ReuseTyped
<1>2. StepOf(r) /\ at[r] # <<"new">>
    BY <1>1, PlacesApart DEF StepOf
<1>3. /\ core'[r][n] = "cancelled" /\ InputsDone(r)'
      /\ \A m \in Nodes : core'[r][m] \in Good => core[r][m] = core'[r][m]
      /\ \A m \in Nodes : core'[r][m] # "unselected" => core[r][m] # "unselected"
    BY <1>1, <1>2, BlockedNodes
<1>4. /\ rows'[r].status = rows[r].status /\ rows'[r].started = rows[r].started
      /\ \A m \in Nodes : rows'[r].nodes[m] = IF m = n THEN "cancelled" ELSE rows[r].nodes[m]
    BY <1>1, RowFields DEF ReuseTyped, RowState, Outcomes
<1>5. Selected(r)' = Selected(r) /\ \A m \in Nodes : Key(r, m)' = Key(r, m)
    BY <1>1 DEF Selected, Key
<1>6. InPlace(r)'
    BY <1>1, <1>2, <1>4, PlacesApart DEF InPlace, InHand
<1>7. OnlySelected(r)'
    BY <1>1, <1>3, <1>4, <1>5 DEF OnlySelected
<1>8. GoodHeld(r)'
    BY <1>1, <1>3, PlacesApart DEF GoodHeld
<1>9. HeldFresh(r)'
    BY <1>1, HeldSame
<1>10. NotedWell(r)'
    BY <1>1, <1>3, <1>4, <1>5, PlacesApart DEF NotedWell, Good
<1>11. ReusedWell(r)' /\ PreviousOver(r)'
    <2>1. \A m \in Nodes :
              (at[r] = <<"vouched", m>> \/ core[r][m] = "reused" \/ rows[r].nodes[m] = "reused")' =>
                  Vouched(r, m) \/ Vouched(r, m)'
        BY <1>1, <1>3, <1>4, PlacesApart DEF ReusedWell, Good
    <2> QED
        BY <1>2, <2>1, ReusedKept
<1> QED
    BY <1>3, <1>6, <1>7, <1>8, <1>9, <1>10, <1>11

LEMMA NoteKeeps ==
    ASSUME ReuseInv, NEW r \in Runs, NEW n \in Nodes, Note(r, n)
    PROVE  RunInv(r)'
<1> USE DEF ReuseInv, RunInv
<1>1. /\ at[r] = <<"saved", n>> /\ at'[r] = <<"noted", n>>
      /\ UNCHANGED <<args, core, outputs, rows, stopped>>
      /\ noted'[r] = [noted[r] EXCEPT ![n] = Key(r, n)]
    BY DEF Note, Goto, ReuseTyped
<1>2. StepOf(r) /\ at[r] # <<"new">>
    BY <1>1, PlacesApart DEF StepOf
<1>3. \A m \in Nodes : noted'[r][m] = IF m = n THEN Key(r, n) ELSE noted[r][m]
    BY <1>1 DEF ReuseTyped
<1>4. Selected(r)' = Selected(r) /\ \A m \in Nodes : Key(r, m)' = Key(r, m)
    BY <1>1 DEF Selected, Key
<1>5. InPlace(r)'
    <2>1. rows[r].status = "running" /\ args[r] \in Calls /\ core[r][n] \in {"succeeded", "failed"}
        BY <1>1, <1>2, PlacesApart DEF InPlace, InHand
    <2> QED
        BY <1>1, <2>1, PlacesApart DEF InPlace
<1>6. OnlySelected(r)' /\ InputsDone(r)'
    BY <1>1, <1>4 DEF OnlySelected, InputsDone
<1>7. GoodHeld(r)'
    BY <1>1, PlacesApart DEF GoodHeld
<1>8. HeldFresh(r)'
    BY <1>1, HeldSame
<1>9. NotedWell(r)'
    <2> SUFFICES ASSUME r \notin stopped, NEW m \in Nodes,
                        rows[r].nodes[m] \in Good \/ core[r][m] = "succeeded"
                 PROVE  noted'[r][m] = Key(r, m)
        BY <1>1, <1>4 DEF NotedWell
    <2>1. CASE m = n
        BY <1>3, <2>1
    <2>2. CASE m # n
        <3>1. at[r] # <<"saved", m>>
            BY <1>1, <2>2, PlacesApart
        <3> QED
            BY <1>3, <2>2, <3>1 DEF NotedWell
    <2> QED
        BY <2>1, <2>2
<1>10. ReusedWell(r)' /\ PreviousOver(r)'
    <2>1. \A m \in Nodes :
              (at[r] = <<"vouched", m>> \/ core[r][m] = "reused" \/ rows[r].nodes[m] = "reused")' =>
                  Vouched(r, m) \/ Vouched(r, m)'
        BY <1>1, PlacesApart DEF ReusedWell
    <2> QED
        BY <1>2, <2>1, ReusedKept
<1> QED
    BY <1>5, <1>6, <1>7, <1>8, <1>9, <1>10

LEMMA FinishKeeps ==
    ASSUME ReuseInv, NEW r \in Runs, NEW n \in Nodes, Finish(r, n)
    PROVE  RunInv(r)'
<1> USE DEF ReuseInv, RunInv
<1>1. PICK state :
          /\ state = IF at[r][1] = "vouched" THEN "reused" ELSE core[r][n]
          /\ rows' = [rows EXCEPT ![r] = MarkedFinished(@, n, state)]
          /\ core' = [core EXCEPT ![r][n] = state]
    BY DEF Finish
<1>2. /\ at[r] \in {<<"vouched", n>>, <<"noted", n>>} /\ at'[r] = <<"loop">>
      /\ UNCHANGED <<args, outputs, noted, stopped>>
    BY DEF Finish, Goto, ReuseTyped
<1>3. StepOf(r) /\ at[r] # <<"new">>
    BY <1>2, PlacesApart DEF StepOf
<1>4. \/ at[r] = <<"vouched", n>> /\ state = "reused" /\ core[r][n] = "running"
      \/ at[r] = <<"noted", n>> /\ state \in {"succeeded", "failed"} /\ core[r][n] = state
    BY <1>1, <1>2, PlacesApart DEF InPlace
<1>5. /\ rows'[r].status = rows[r].status /\ rows'[r].started = rows[r].started
      /\ \A m \in Nodes : /\ rows'[r].nodes[m] = IF m = n THEN state ELSE rows[r].nodes[m]
                          /\ core'[r][m] = IF m = n THEN state ELSE core[r][m]
    <2>1. state \in RowState
        BY <1>4 DEF RowState, Outcomes
    <2>2. rows'[r] = MarkedFinished(rows[r], n, state) /\ rows[r] \in Rows
        BY <1>1 DEF ReuseTyped
    <2>3. core[r] \in [Nodes -> CoreState] /\ core'[r] = [core[r] EXCEPT ![n] = state]
        BY <1>1 DEF ReuseTyped
    <2> QED
        BY <2>1, <2>2, <2>3, RowFields
<1>6. Selected(r)' = Selected(r) /\ \A m \in Nodes : Key(r, m)' = Key(r, m)
    BY <1>2 DEF Selected, Key
<1>7. InPlace(r)'
    <2>1. rows[r].status = "running" /\ args[r] \in Calls
        BY <1>2, <1>3, PlacesApart DEF InPlace, InHand
    <2> QED
        BY <1>2, <1>5, <2>1, PlacesApart DEF InPlace
<1>8. OnlySelected(r)'
    BY <1>2, <1>4, <1>5, <1>6 DEF OnlySelected
<1>9. InputsDone(r)'
    <2> SUFFICES ASSUME NEW m \in Nodes, core'[r][m] = "running", NEW d \in args[r].plan.dependencies[m]
                 PROVE  core'[r][d] \in Good
        BY <1>2 DEF InputsDone
    <2>1. core[r][d] \in Good
        BY <1>4, <1>5 DEF InputsDone
    <2>2. d \in Nodes
        BY <1>3, CallFields
    <2> QED
        BY <1>4, <1>5, <2>1, <2>2 DEF Good
<1>10. GoodHeld(r)'
    BY <1>2, <1>4, <1>5, PlacesApart DEF GoodHeld
<1>11. HeldFresh(r)'
    BY <1>2, HeldSame
<1>12. state \in Good => r \in stopped \/ noted[r][n] = Key(r, n)
    BY <1>4, PlacesApart DEF NotedWell, ReusedWell, Vouched, Good
<1>13. NotedWell(r)'
    <2>1. \A m \in Nodes : at[r] # <<"saved", m>>
        BY <1>2, PlacesApart
    <2> QED
        BY <1>2, <1>5, <1>6, <1>12, <2>1 DEF NotedWell, Good
<1>14. ReusedWell(r)' /\ PreviousOver(r)'
    <2>1. \A m \in Nodes :
              (at[r] = <<"vouched", m>> \/ core[r][m] = "reused" \/ rows[r].nodes[m] = "reused")' =>
                  Vouched(r, m) \/ Vouched(r, m)'
        BY <1>2, <1>4, <1>5, PlacesApart DEF ReusedWell
    <2> QED
        BY <1>3, <2>1, ReusedKept
<1> QED
    BY <1>7, <1>8, <1>9, <1>10, <1>11, <1>13, <1>14

LEMMA InterruptKeeps ==
    ASSUME ReuseInv, NEW r \in Runs, Interrupt(r)
    PROVE  RunInv(r)'
<1> USE DEF ReuseInv, RunInv
<1>1. PICK admitted \in SUBSET Ready(r) :
          core' = [core EXCEPT ![r] =
                      [n \in Nodes |-> IF core[r][n] # "pending" THEN core[r][n]
                                       ELSE IF n \in admitted THEN "running" ELSE "cancelled"]]
    BY DEF Interrupt
<1>2. /\ at[r][1] \in InHand /\ at'[r] = <<"loop">> /\ r \in stopped'
      /\ UNCHANGED <<args, outputs, rows, noted>>
    BY DEF Interrupt, Goto, ReuseTyped
<1>3. StepOf(r) /\ at[r] # <<"new">>
    BY <1>2, PlacesApart DEF StepOf, InHand
<1>4. \A n \in Nodes : core'[r][n] = IF core[r][n] # "pending" THEN core[r][n]
                                     ELSE IF n \in admitted THEN "running" ELSE "cancelled"
    BY <1>1 DEF ReuseTyped
<1>5. Selected(r)' = Selected(r)
    BY <1>2 DEF Selected
<1>6. InPlace(r)'
    BY <1>2, <1>3, PlacesApart DEF InPlace, InHand
<1>7. OnlySelected(r)'
    BY <1>2, <1>4, <1>5 DEF OnlySelected
<1>8. InputsDone(r)'
    <2> SUFFICES ASSUME NEW m \in Nodes, core'[r][m] = "running", NEW d \in args[r].plan.dependencies[m]
                 PROVE  core'[r][d] \in Good
        BY <1>2 DEF InputsDone
    <2>1. core[r][m] = "running" \/ m \in Ready(r)
        BY <1>1, <1>4
    <2>2. core[r][d] \in Good
        BY <1>3, <2>1, ReadyNode DEF InputsDone
    <2>3. d \in Nodes
        BY <1>3, CallFields
    <2> QED
        BY <1>4, <2>2, <2>3 DEF Good
<1>9. GoodHeld(r)'
    BY <1>2, <1>4, PlacesApart DEF GoodHeld, Good
<1>10. HeldFresh(r)'
    BY <1>2, HeldSame
<1>11. NotedWell(r)'
    BY <1>2 DEF NotedWell
<1>12. ReusedWell(r)' /\ PreviousOver(r)'
    <2>1. \A m \in Nodes :
              (at[r] = <<"vouched", m>> \/ core[r][m] = "reused" \/ rows[r].nodes[m] = "reused")' =>
                  Vouched(r, m) \/ Vouched(r, m)'
        BY <1>2, <1>4, PlacesApart DEF ReusedWell
    <2> QED
        BY <1>3, <2>1, ReusedKept
<1> QED
    BY <1>6, <1>7, <1>8, <1>9, <1>10, <1>11, <1>12

\* A run that has ended or died holds nothing any more.
LEMMA ForgottenKeeps ==
    ASSUME ReuseTyped, NEW r \in Runs, Forgotten(r), UNCHANGED args
    PROVE  /\ \A n \in Nodes : core'[r][n] = "unselected"
           /\ InputsDone(r)' /\ HeldFresh(r)'
           /\ (\A n \in Nodes : at'[r] # <<"vouched", n>>) => GoodHeld(r)'
<1>1. \A n \in Nodes : core'[r][n] = "unselected"
    BY DEF Forgotten, ReuseTyped
<1>2. DOMAIN outputs'[r] = {}
    BY DEF Forgotten, ReuseTyped
<1> QED
    BY <1>1, <1>2 DEF InputsDone, HeldFresh, GoodHeld, Good

LEMMA EndKeeps ==
    ASSUME ReuseInv, NEW r \in Runs, End(r)
    PROVE  RunInv(r)'
<1> USE DEF ReuseInv, RunInv
<1> DEFINE states == [n \in Nodes |-> IF core[r][n] = "running" THEN "unknown" ELSE core[r][n]]
           status == IF r \in stopped THEN "interrupted"
                     ELSE IF \A n \in Nodes : states[n] \in Good \cup {"unselected"} THEN "succeeded"
                     ELSE "failed"
<1>1. /\ at[r] = <<"loop">> /\ at'[r] = <<"ended">> /\ Forgotten(r)
      /\ UNCHANGED <<args, noted, stopped>>
      /\ rows'[r] = Ended(rows[r], states, status)
    BY DEF End, Goto, ReuseTyped
<1>2. StepOf(r) /\ at[r] # <<"new">>
    BY <1>1, PlacesApart, Zenon DEF StepOf, End
<1>3. rows'[r].started = rows[r].started /\ rows'[r].nodes = states
    <2>1. states \in [Nodes -> RowState]
        BY DEF ReuseTyped, CoreState, RowState, Outcomes
    <2>2. status \in RunStatus
        BY DEF RunStatus
    <2>3. rows[r] \in Rows
        BY DEF ReuseTyped
    <2> HIDE DEF states, status
    <2>4. /\ Ended(rows[r], states, status).started = rows[r].started
          /\ Ended(rows[r], states, status).nodes = states
        BY <2>1, <2>2, <2>3, RowsEnded
    <2> QED
        BY <1>1, <2>4
<1>4. \A n \in Nodes : rows'[r].nodes[n] \in Good => rows'[r].nodes[n] = core[r][n]
    BY <1>3 DEF Good
<1>5. Selected(r)' = Selected(r) /\ \A m \in Nodes : Key(r, m)' = Key(r, m)
    BY <1>1 DEF Selected, Key
<1>6. /\ \A n \in Nodes : core'[r][n] = "unselected"
      /\ InputsDone(r)' /\ HeldFresh(r)' /\ GoodHeld(r)'
    BY <1>1, ForgottenKeeps, PlacesApart
<1>7. InPlace(r)'
    BY <1>1, <1>2, PlacesApart DEF InPlace, InHand
<1>8. OnlySelected(r)'
    BY <1>1, <1>3, <1>5, <1>6 DEF OnlySelected
<1>9. NotedWell(r)'
    <2> SUFFICES ASSUME r \notin stopped, NEW m \in Nodes, rows'[r].nodes[m] \in Good
                 PROVE  noted[r][m] = Key(r, m)
        BY <1>1, <1>5, <1>6 DEF NotedWell
    <2>1. CASE core[r][m] = "succeeded"
        BY <1>1, <2>1, PlacesApart DEF NotedWell
    <2>2. CASE core[r][m] = "reused"
        BY <2>2 DEF ReusedWell, Vouched
    <2> QED
        BY <1>4, <2>1, <2>2 DEF Good
<1>10. ReusedWell(r)' /\ PreviousOver(r)'
    <2>1. \A m \in Nodes :
              (at[r] = <<"vouched", m>> \/ core[r][m] = "reused" \/ rows[r].nodes[m] = "reused")' =>
                  Vouched(r, m) \/ Vouched(r, m)'
        BY <1>1, <1>4, <1>6, PlacesApart DEF ReusedWell, Good
    <2> QED
        BY <1>2, <2>1, ReusedKept
<1> QED
    BY <1>6, <1>7, <1>8, <1>9, <1>10

LEMMA AbandonKeeps ==
    ASSUME ReuseInv, NEW r \in Runs, Abandon(r)
    PROVE  RunInv(r)'
<1> USE DEF ReuseInv, RunInv
<1>1. /\ at[r][1] \in InHand /\ at'[r] = <<"abandoned">> /\ Forgotten(r)
      /\ UNCHANGED <<args, rows, noted, stopped>>
    BY DEF Abandon, Goto, ReuseTyped
<1>2. StepOf(r) /\ at[r] # <<"new">>
    BY <1>1, PlacesApart DEF StepOf, InHand
<1>3. Selected(r)' = Selected(r) /\ \A m \in Nodes : Key(r, m)' = Key(r, m)
    BY <1>1 DEF Selected, Key
<1>4. /\ \A n \in Nodes : core'[r][n] = "unselected"
      /\ InputsDone(r)' /\ HeldFresh(r)' /\ GoodHeld(r)'
    BY <1>1, ForgottenKeeps, PlacesApart
<1>5. InPlace(r)'
    BY <1>1, <1>2, PlacesApart DEF InPlace
<1>6. OnlySelected(r)'
    BY <1>1, <1>3, <1>4 DEF OnlySelected
<1>7. NotedWell(r)'
    BY <1>1, <1>3, <1>4 DEF NotedWell
<1>8. ReusedWell(r)' /\ PreviousOver(r)'
    <2>1. \A m \in Nodes :
              (at[r] = <<"vouched", m>> \/ core[r][m] = "reused" \/ rows[r].nodes[m] = "reused")' =>
                  Vouched(r, m) \/ Vouched(r, m)'
        BY <1>1, <1>4, PlacesApart DEF ReusedWell
    <2> QED
        BY <1>2, <2>1, ReusedKept
<1> QED
    BY <1>4, <1>5, <1>6, <1>7, <1>8

LEMMA RecoverKeeps ==
    ASSUME ReuseInv, NEW r \in Runs, Recover(r)
    PROVE  RunInv(r)'
<1> USE DEF ReuseInv, RunInv
<1>1. /\ at[r] = <<"abandoned">> /\ at'[r] = <<"ended">> /\ rows'[r] = Recovered(rows[r])
      /\ UNCHANGED <<args, core, outputs, noted, stopped>>
    BY DEF Recover, Goto, ReuseTyped
<1>2. StepOf(r) /\ at[r] # <<"new">>
    BY <1>1, PlacesApart DEF StepOf
<1>3. Selected(r)' = Selected(r) /\ \A m \in Nodes : Key(r, m)' = Key(r, m)
    BY <1>1 DEF Selected, Key
<1>4. /\ rows'[r].started = rows[r].started
      /\ \A m \in Nodes : rows'[r].nodes[m] \in Good => rows'[r].nodes[m] = rows[r].nodes[m]
    BY <1>1, RowsEnded DEF ReuseTyped
<1>5. InPlace(r)'
    BY <1>1, <1>2, PlacesApart DEF InPlace, InHand
<1>6. OnlySelected(r)' /\ InputsDone(r)'
    BY <1>1, <1>3, <1>4 DEF OnlySelected, InputsDone
<1>7. GoodHeld(r)'
    BY <1>1, PlacesApart DEF GoodHeld
<1>8. HeldFresh(r)'
    BY <1>1, HeldSame
<1>9. NotedWell(r)'
    BY <1>1, <1>3, <1>4, PlacesApart DEF NotedWell
<1>10. ReusedWell(r)' /\ PreviousOver(r)'
    <2>1. \A m \in Nodes :
              (at[r] = <<"vouched", m>> \/ core[r][m] = "reused" \/ rows[r].nodes[m] = "reused")' =>
                  Vouched(r, m) \/ Vouched(r, m)'
        BY <1>1, <1>4, PlacesApart DEF ReusedWell, Good
    <2> QED
        BY <1>2, <2>1, ReusedKept
<1> QED
    BY <1>5, <1>6, <1>7, <1>8, <1>9, <1>10

-----------------------------------------------------------------------------
\* Every result that is stored is the value of each node that has its
\* fingerprint, in whichever plan.
LEMMA StoredStaysFresh ==
    ASSUME ReuseInv, NEW r \in Runs, StepOf(r)
    PROVE  StoredFresh'
<1> USE DEF ReuseInv
<1>1. CASE UNCHANGED results
    BY <1>1 DEF StoredFresh
<1>2. ASSUME NEW n \in Nodes, Succeed(r, n), ~ UNCHANGED results
      PROVE  StoredFresh'
    <2>1. at[r] # <<"new">> /\ core[r][n] = "running"
        BY <1>2, PlacesApart DEF Succeed, Working
    <2>2. Key(r, n) # NoKey /\ Save(r, n, Computes(r, n))
        BY <1>2 DEF Succeed
    <2>3. RunInv(r) /\ args[r].plan \in Plans /\ args[r].plan.dependencies[n] \subseteq Nodes
        BY <2>1, CallFields DEF RunInv
    <2>4. args[r].plan.dependencies[n] \subseteq DOMAIN outputs[r]
        BY <2>1, <2>3 DEF RunInv, InputsDone, GoodHeld
    <2>5. Computes(r, n) = Values(args[r].plan)[n]
        BY <2>1, <2>2, <2>3, <2>4, ComputesValue
    <2>6. CASE results' = With(results, Key(r, n), Computes(r, n))
        <3> SUFFICES ASSUME NEW key \in DOMAIN results', NEW p \in Plans, NEW m \in Nodes,
                            KeyTable[p][m] = key, key # NoKey
                     PROVE  results'[key] = Values(p)[m]
            BY DEF StoredFresh
        <3>1. CASE key = Key(r, n)
            <4>1. Values(args[r].plan)[n] = Values(p)[m]
                BY <2>3, <3>1, FingerprintDetermines DEF Key
            <4> QED
                BY <2>5, <2>6, <3>1, <4>1 DEF With
        <3>2. CASE key # Key(r, n)
            BY <2>6, <3>2 DEF With, StoredFresh
        <3> QED
            BY <3>1, <3>2
    <2>7. CASE results' = Without(results, Key(r, n))
        BY <2>7 DEF Without, StoredFresh
    <2> QED
        BY <2>2, <2>6, <2>7 DEF Save
<1>3. ASSUME ~ UNCHANGED results PROVE \E n \in Nodes : Succeed(r, n)
    BY <1>3 DEF StepOf, Explain, Start, Interrupt, End, Abandon, Recover, Hit, Run, SaveRaises, Fail,
        Cancelled, Note, Finish
<1> QED
    BY <1>1, <1>2, <1>3

LEMMA InitReuseInv == ReuseInit => ReuseInv
<1> SUFFICES ASSUME ReuseInit PROVE ReuseInv
    OBVIOUS
<1> USE DEF ReuseInit
<1>1. ReuseTyped
    <2>1. at \in [Runs -> Places] /\ args \in [Runs -> Calls \cup {NoRun}]
        BY PlacesApart
    <2>2. core \in [Runs -> [Nodes -> CoreState]]
        BY DEF CoreState
    <2>3. rows \in [Runs -> Rows]
        BY RowsInserted
    <2>4. noted \in [Runs -> [Nodes -> Keys]]
        BY DEF Keys
    <2>5. outputs = [r \in Runs |-> outputs[r]] /\ stopped \subseteq Runs
        OBVIOUS
    <2> QED
        BY <2>1, <2>2, <2>3, <2>4, <2>5 DEF ReuseTyped
<1>2. StoredFresh
    BY DEF StoredFresh
<1>3. ASSUME NEW r \in Runs PROVE RunInv(r)
    <2>1. /\ at[r] = <<"new">> /\ rows[r] = NoRows /\ core[r] = Unselected /\ DOMAIN outputs[r] = {}
        BY DEF Unselected
    <2>2. InPlace(r)
        BY <2>1, PlacesApart DEF InPlace, InHand
    <2>3. \A n \in Nodes : /\ core[r][n] = "unselected" /\ at[r] # <<"vouched", n>>
                           /\ rows[r].nodes[n] \notin Good /\ ~ rows[r].started[n]
        BY <2>1, <2>2, NewQuiet
    <2>4. OnlySelected(r) /\ InputsDone(r) /\ GoodHeld(r) /\ HeldFresh(r)
        BY <2>1, <2>3 DEF OnlySelected, InputsDone, GoodHeld, HeldFresh, Good
    <2>5. ReusedWell(r) /\ NotedWell(r) /\ PreviousOver(r)
        BY <2>1, <2>3 DEF ReusedWell, NotedWell, PreviousOver, Good
    <2> QED
        BY <2>2, <2>4, <2>5 DEF RunInv
<1> QED
    BY <1>1, <1>2, <1>3 DEF ReuseInv

LEMMA NextReuseInv == ReuseInv /\ [ReuseNext]_reuseVars => ReuseInv'
<1> SUFFICES ASSUME ReuseInv, [ReuseNext]_reuseVars PROVE ReuseInv'
    OBVIOUS
<1>1. ASSUME NEW r \in Runs, StepOf(r) PROVE ReuseInv'
    <2>1. ReuseTyped /\ RunInv(r)
        BY DEF ReuseInv
    <2>2. ReuseTyped'
        BY <1>1, <2>1, StepTyped DEF RunInv
    <2>3. StoredFresh'
        BY <1>1, StoredStaysFresh
    <2>4. RunInv(r)'
        BY <1>1, ExplainKeeps, StartKeeps, InterruptKeeps, EndKeeps, AbandonKeeps, RecoverKeeps, HitKeeps,
           RunKeeps, SucceedKeeps, SaveRaisesKeeps, FailKeeps, CancelledKeeps, NoteKeeps, FinishKeeps
        DEF StepOf
    <2>5. \A q \in Runs \ {r} : RunInv(q)'
        BY <1>1, <2>1, OthersKeep DEF ReuseInv
    <2> QED
        BY <2>2, <2>3, <2>4, <2>5 DEF ReuseInv
<1>2. CASE UNCHANGED reuseVars
    <2> USE <1>2 DEF reuseVars
    <2>1. ASSUME NEW r \in Runs PROVE RunInv(r)'
        <3>1. Same(r) /\ RunInv(r)
            BY DEF Same, ReuseInv
        <3>2. /\ InPlace(r)' /\ OnlySelected(r)' /\ InputsDone(r)' /\ GoodHeld(r)'
              /\ HeldFresh(r)' /\ NotedWell(r)'
            BY <3>1, SameKeeps
        <3>3. ReusedWell(r)'
            BY <3>1 DEF RunInv, ReusedWell, Vouched, Key
        <3>4. PreviousOver(r)'
            BY <3>1 DEF RunInv, PreviousOver, Selected
        <3> QED
            BY <3>2, <3>3, <3>4 DEF RunInv
    <2>2. ReuseTyped' /\ StoredFresh'
        BY DEF ReuseInv, ReuseTyped, StoredFresh
    <2> QED
        BY <2>1, <2>2 DEF ReuseInv
<1>3. ReuseNext => \E r \in Runs : StepOf(r)
    BY Zenon DEF ReuseNext, StepOf
<1> QED
    BY <1>1, <1>2, <1>3

-----------------------------------------------------------------------------
\* The invariant of explain_run, of the admission loop and of complete, for any
\* number of runs of a store that follow or overlap each other.
THEOREM ReuseInvariant == ReuseSpec => []ReuseInv
<1> QED
    BY InitReuseInv, NextReuseInv, PTL DEF ReuseSpec

\* Every result a run holds, whether History._cached found it or its callable
\* returned it, is what the run's own plan computes of the results it holds of
\* the dependencies.
THEOREM ResultsFresh == ReuseSpec => []OutputsFresh
<1>1. ReuseInv => OutputsFresh
    BY DEF ReuseInv, RunInv, HeldFresh, OutputsFresh
<1> QED
    BY <1>1, ReuseInvariant, PTL

\* A node recorded as reused was vouched for by the run that is resumed, with
\* the fingerprint _reuse_note has put in its row, and was not to be rerun.
THEOREM ReuseVouched == ReuseSpec => []ReusedVouched
<1>1. ReuseInv => ReusedVouched
    BY DEF ReuseInv, RunInv, ReusedWell, Vouched, ReusedVouched
<1> QED
    BY <1>1, ReuseInvariant, PTL

\* The decisions explain_run asks for still stand whenever a callable starts:
\* none that the resumed run had started starts again unasked.
THEOREM DecisionsStand == ReuseSpec => []NoSilentRepeat
<1>1. ASSUME ReuseInv PROVE NoSilentRepeat
    <2> SUFFICES ASSUME NEW r \in Runs, Started(r), args[r].previous # NoRun, NEW n \in Nodes,
                        rows[r].started[n], rows[args[r].previous].started[n]
                 PROVE  args[r].plan.cache[n] # NoKey \/ n \in args[r].rerun
        BY DEF NoSilentRepeat
    <2>1. at[r] # <<"new">>
        BY PlacesApart DEF Started
    <2>2. n \in Selected(r)
        BY <1>1 DEF ReuseInv, RunInv, OnlySelected
    <2> QED
        BY <1>1, <2>1, <2>2 DEF ReuseInv, RunInv, PreviousOver
<1> QED
    BY <1>1, ReuseInvariant, PTL

\* complete notes the fingerprint before _finished says that the node is done,
\* so no crash in between leaves it done without one.
THEOREM DoneNoted == ReuseSpec => []DoneIsNoted
<1>1. ReuseInv => DoneIsNoted
    BY DEF ReuseInv, RunInv, NotedWell, DoneIsNoted
<1> QED
    BY <1>1, ReuseInvariant, PTL
=============================================================================
