------------------------ MODULE Coordinator_proofs ------------------------
(***************************************************************************)
(* The coordinator drives a RunState: each of its steps is a step of the   *)
(* core or leaves the core alone, so what RunState_proofs proves of the    *)
(* core holds of the core inside every run, whatever fails around it.      *)
(*                                                                         *)
(* The second part is about the record of a run, against what happened.    *)
(* While a run is recorded as running, each row goes with the state the    *)
(* core holds and with the task of its node; once it is ended nothing of   *)
(* the three changes any more.  A thread may outlast all three: the record *)
(* stays true because a task that ended with a value, or never began, has  *)
(* no thread that goes on.                                                 *)
(***************************************************************************)
EXTENDS Coordinator, RunState_proofs

\* Plan.arun.complete changes the core only by state.finish, with the outcome
\* the task ended with.
LEMMA SettleDrivesCore ==
    ASSUME NEW n \in Nodes, Settle(n)
    PROVE  Next
BY DEF Settle, OutcomeOf, Next, Finish, Done

\* Each step of the coroutine and of its tasks calls admit, finish or cancel of
\* the core once, or leaves it alone.
LEMMA StepDrivesCore == Step => [Next]_vars
<1> SUFFICES ASSUME Step PROVE [Next]_vars
    OBVIOUS
<1>1. CASE AdmitBatch
    BY <1>1 DEF AdmitBatch, Next
<1>2. CASE BatchStarted \/ Wake \/ EndNormally \/ Drained \/ EndInterrupted \/ Close
    BY <1>2 DEF BatchStarted, Wake, EndNormally, Drained, EndInterrupted, Close
<1>3. CASE CancelRun
    BY <1>3 DEF CancelRun, Next
<1>4. ASSUME NEW n \in Nodes, ReuseNode(n) PROVE Next
    BY <1>4 DEF ReuseNode, Next, Finish, Done
<1>5. ASSUME NEW n \in Nodes, StartNode(n) PROVE UNCHANGED vars
    BY <1>5 DEF StartNode
<1>6. ASSUME NEW n \in Nodes, CompleteNext(n) \/ CompleteDrained(n) PROVE Next
    BY <1>6, SettleDrivesCore DEF CompleteNext, CompleteDrained, Complete
<1> QED
    BY <1>1, <1>2, <1>3, <1>4, <1>5, <1>6 DEF Step

\* So does each step of a failing run: complete may raise after its call of
\* finish, and nothing else of a failure, a crash or a recovery touches the core.
LEMMA TroubleDrivesCore == Trouble => [Next]_vars
<1> SUFFICES ASSUME Trouble PROVE [Next]_vars
    OBVIOUS
<1>1. CASE Interrupt \/ CancelAll \/ Crash \/ Recover \/ StartRaises \/ EndRaises
    BY <1>1 DEF Interrupt, CancelAll, Crash, Recover, StartRaises, EndRaises
<1>2. ASSUME NEW n \in Nodes, CompleteRaises(n) \/ CompleteDrainedRaises(n) PROVE [Next]_vars
    BY <1>2, SettleDrivesCore DEF CompleteRaises, CompleteDrainedRaises, SettleThenRaise
<1> QED
    BY <1>1, <1>2 DEF Trouble

\* A run of the coordinator, with failing storage, cancellation and crashes, is
\* a run of the scheduler core.
THEOREM DrivesCore == RunSpec => Spec
<1>1. RunInit => Init
    BY DEF RunInit
<1>2. [RunNext]_runVars => [Next]_vars
    <2>1. ASSUME NEW n \in Nodes, Begin(n) \/ ThreadReturns(n) \/ Return(n) PROVE UNCHANGED vars
        BY <2>1 DEF Begin, ThreadReturns, Return
    <2>2. UNCHANGED runVars => UNCHANGED vars
        BY DEF runVars
    <2> QED
        BY <2>1, <2>2, StepDrivesCore, TroubleDrivesCore DEF RunNext
<1> QED
    BY <1>1, <1>2, PTL DEF RunSpec, Spec

\* In every run of the coordinator, the core's invariant holds.
THEOREM CoreInvariant == RunSpec => []Inv
BY DrivesCore, Invariance, PTL

\* In every run of the coordinator, nodes keep the promises of DagRun.
THEOREM RunImplementsDagRun == RunSpec => ImplementsDagRun
BY DrivesCore, Refinement, PTL

-----------------------------------------------------------------------------
(***************************************************************************)
(* The inductive invariant of the coordinator.  The futures in pending and *)
(* the batch still to be visited are the nodes the core takes for running; *)
(* every live task has a future in pending until the run has drained, and  *)
(* so has a thread that goes on when its task was cancelled away from it.  *)
(***************************************************************************)
Looping == {"admitting", "starting", "waiting", "completing"}

Failing == {"failing", "draining"}

Live == {n \in Nodes : tasks[n] \in {"scheduled", "executing"} \/ threads[n] = "executing"}

Queues ==
    /\ Distinct(batch) /\ Distinct(pending) /\ Distinct(done)
    /\ pc \in Looping \ {"starting"} => batch = <<>>
    /\ pc \in {"admitting", "starting", "waiting"} \cup Failing => done = <<>>

FuturesRun ==
    /\ pc \in Looping => /\ In({"running"}) = Entries(batch) \cup Entries(pending)
                         /\ Entries(batch) \cap Entries(pending) = {}
    /\ pc \in Failing => Entries(pending) \subseteq In({"running"})
    /\ pc = "completing" => Entries(done) \subseteq Entries(pending)
    /\ pc = "drained" => Entries(done) \subseteq In({"running"})

TasksCovered ==
    /\ pc \in Looping \cup Failing => Live \subseteq Entries(pending)
    /\ pc = "completing" => Entries(done) \cap Live = {}
    /\ pc \in Looping => \A n \in Nodes : threads[n] = "executing" => tasks[n] = "executing"
    /\ \A n \in Async : threads[n] = "none"
    /\ pc \in {"drained", "closing", "closed"} =>
          \A n \in Nodes : tasks[n] \notin {"scheduled", "executing"}
    /\ pc = "closed" => Live = {}
    /\ ~ lease => pc \in {"closed", "crashed"}

RunInv ==
    /\ RunTypeOK
    /\ Queues
    /\ FuturesRun
    /\ TasksCovered
    /\ CapacityRespected
    /\ NoRunnableNodes

-----------------------------------------------------------------------------
\* A future popped from pending.
LEMMA FuturePopped ==
    ASSUME pending \in Seq(Nodes), Distinct(pending), NEW n, PopFuture(n)
    PROVE  /\ pending' \in Seq(Nodes)
           /\ Distinct(pending')
           /\ Entries(pending') = Entries(pending) \ {n}
<1>1. PICK k \in DOMAIN pending :
          /\ pending[k] = n
          /\ pending' = SubSeq(pending, 1, k - 1) \o SubSeq(pending, k + 1, Len(pending))
    BY DEF PopFuture
<1> DEFINE c == Len(pending)
           s == SubSeq(pending, 1, k - 1)
           t == SubSeq(pending, k + 1, c)
<1>2. c \in Nat /\ DOMAIN pending = 1 .. c /\ k \in 1 .. c
    BY LenProperties
<1>3. /\ s \in Seq(Nodes) /\ Len(s) = k - 1
      /\ \A i \in 1 .. k - 1 : s[i] = pending[i]
    BY <1>2, SubSeqProperties
<1>4. /\ t \in Seq(Nodes) /\ Len(t) = c - k
      /\ \A i \in 1 .. c - k : t[i] = pending[k + i]
    BY <1>2, SubSeqProperties
<1> DEFINE u == s \o t
<1>5. /\ u \in Seq(Nodes) /\ DOMAIN u = 1 .. c - 1
      /\ \A i \in 1 .. c - 1 : u[i] = IF i < k THEN pending[i] ELSE pending[i + 1]
    <2> HIDE DEF s, t
    <2>1. /\ u \in Seq(Nodes) /\ Len(u) = Len(s) + Len(t)
          /\ \A i \in 1 .. Len(s) + Len(t) : u[i] = IF i <= Len(s) THEN s[i] ELSE t[i - Len(s)]
        BY <1>3, <1>4, ConcatProperties
    <2> HIDE DEF u, c
    <2>2. Len(u) = c - 1 /\ DOMAIN u = 1 .. c - 1
        <3>1. Len(s) + Len(t) = c - 1
            BY <1>2, <1>3, <1>4
        <3> QED
            BY <2>1, <3>1, LenProperties
    <2>3. ASSUME NEW i \in 1 .. c - 1 PROVE u[i] = IF i < k THEN pending[i] ELSE pending[i + 1]
        <3>1. i \in 1 .. Len(s) + Len(t) /\ (i < k <=> i <= Len(s))
            BY <1>2, <1>3, <1>4
        <3>2. CASE i < k
            BY <1>2, <1>3, <2>1, <3>1, <3>2
        <3>3. CASE ~ (i < k)
            <4>1. i - Len(s) \in 1 .. c - k /\ k + (i - Len(s)) = i + 1
                BY <1>2, <1>3, <3>3
            <4> QED
                BY <1>4, <2>1, <3>1, <3>3, <4>1
        <3> QED
            BY <3>2, <3>3
    <2> QED
        BY <2>1, <2>2, <2>3
<1>6. pending' = u
    BY <1>1
<1> HIDE DEF u
<1> HIDE DEF c
<1> DEFINE origin(i) == IF i < k THEN i ELSE i + 1
<1>7. Distinct(u)
    <2> SUFFICES ASSUME NEW i \in 1 .. c - 1, NEW j \in 1 .. c - 1, u[i] = u[j]
                 PROVE  i = j
        BY <1>5 DEF Distinct
    <2>1. /\ origin(i) \in 1 .. c /\ origin(j) \in 1 .. c
          /\ pending[origin(i)] = pending[origin(j)]
        BY <1>2, <1>5
    <2>2. origin(i) = origin(j)
        BY <1>2, <2>1 DEF Distinct
    <2> QED
        BY <1>2, <2>2
<1>8. Entries(u) = Entries(pending) \ {n}
    <2>1. ASSUME NEW m \in Entries(u) PROVE m \in Entries(pending) \ {n}
        <3>1. PICK i \in 1 .. c - 1 : u[i] = m
            BY <1>5 DEF Entries
        <3>2. origin(i) \in 1 .. c /\ origin(i) # k /\ pending[origin(i)] = m
            BY <1>2, <1>5, <3>1
        <3> QED
            BY <1>1, <1>2, <3>2 DEF Entries, Distinct
    <2>2. ASSUME NEW m \in Entries(pending) \ {n} PROVE m \in Entries(u)
        <3>1. PICK i \in 1 .. c : pending[i] = m /\ i # k
            BY <1>1, <1>2 DEF Entries
        <3>2. CASE i < k
            <4>1. i \in 1 .. c - 1 /\ u[i] = m
                BY <1>2, <1>5, <3>1, <3>2
            <4> QED
                BY <1>5, <4>1 DEF Entries
        <3>3. CASE i > k
            <4>1. i - 1 \in 1 .. c - 1 /\ ~ (i - 1 < k) /\ (i - 1) + 1 = i
                BY <1>2, <3>1, <3>3
            <4> QED
                BY <1>5, <3>1, <4>1 DEF Entries
        <3> QED
            BY <1>2, <3>1, <3>2, <3>3
    <2> QED
        BY <2>1, <2>2
<1> QED
    BY <1>5, <1>6, <1>7, <1>8

\* A set of nodes listed as a queue.
LEMMA QueueListed ==
    ASSUME NEW S \in SUBSET Nodes, NEW key, IsKey(key)
    PROVE  /\ Listed(S, key) \in Seq(Nodes)
           /\ Distinct(Listed(S, key))
           /\ Entries(Listed(S, key)) = S
BY ListedProperties DEF Distinct, Entries

\* A queue without repetitions is as long as its entries are many.
LEMMA QueueCounted ==
    ASSUME NEW q \in Seq(Nodes), Distinct(q)
    PROVE  Cardinality(Entries(q)) = Len(q)
<1>1. Len(q) \in Nat /\ DOMAIN q = 1 .. Len(q) /\ q \in [1 .. Len(q) -> Nodes]
    BY LenProperties
<1>2. q \in Bijection(1 .. Len(q), Entries(q))
    BY <1>1 DEF Bijection, Injection, IsInjective, Surjection, Distinct, Entries
<1>3. ExistsBijection(1 .. Len(q), Entries(q))
    BY <1>2 DEF ExistsBijection
<1> QED
    BY <1>1, <1>3, FS_CountingElements
-----------------------------------------------------------------------------
\* What the calls of the core do to the running nodes.
LEMMA AdmittedReady ==
    ASSUME Inv
    PROVE  Admitted \in SUBSET Nodes /\ \A n \in Admitted : states[n] = "ready"
<1>1. /\ Popped \in 0 .. Len(ready) /\ Admitted = {ready[j] : j \in 1 .. Popped}
    BY PoppedProperties
<1>2. /\ Len(ready) \in Nat /\ \A j \in 1 .. Len(ready) : ready[j] \in In({"ready"})
    BY LenProperties DEF Inv, TypeOK, ReadyQueueExact
<1>3. ASSUME NEW j \in 1 .. Popped PROVE ready[j] \in In({"ready"})
    BY <1>1, <1>2
<1> QED
    BY <1>1, <1>3 DEF In

\* admit adds the nodes it returns to the running ones, and none twice.
LEMMA RunningAdmitted ==
    ASSUME Inv, Admit
    PROVE  /\ In({"running"})' = In({"running"}) \cup Admitted
           /\ Admitted \cap In({"running"}) = {}
BY AdmittedReady DEF Admit, In

\* finish takes exactly the finished node from the running ones: the nodes it
\* blocks were pending.
LEMMA RunningFinished ==
    ASSUME Inv, NEW n \in Nodes,
           \/ \E outcome \in Done : FinishDone(n, outcome)
           \/ \E outcome \in {"failed", "cancelled"} : FinishLost(n, outcome)
    PROVE  /\ n \in In({"running"})
           /\ In({"running"})' = In({"running"}) \ {n}
<1>1. ASSUME NEW outcome \in Done, FinishDone(n, outcome)
      PROVE  n \in In({"running"}) /\ In({"running"})' = In({"running"}) \ {n}
    BY <1>1 DEF FinishDone, Released, Waiting, In, Done
<1>2. ASSUME NEW outcome \in {"failed", "cancelled"}, FinishLost(n, outcome)
      PROVE  n \in In({"running"}) /\ In({"running"})' = In({"running"}) \ {n}
    <2>1. states[n] = "running" /\ \A m \in Blocked(n) : states[m] = "pending"
        BY <1>2, BlockedProperties DEF FinishLost
    <2> QED
        BY <1>2, <2>1 DEF FinishLost, In
<1> QED
    BY <1>1, <1>2

\* The same for the call of finish that complete makes.
LEMMA RunningSettled ==
    ASSUME Inv, NEW n \in Nodes, Settle(n)
    PROVE  /\ n \in In({"running"})
           /\ In({"running"})' = In({"running"}) \ {n}
BY RunningFinished DEF Settle, OutcomeOf, Done

\* cancel leaves the running nodes running.
LEMMA RunningCancelled == Cancel => In({"running"})' = In({"running"})
BY DEF Cancel, In, Open

\* Running nodes fit the capacity, and so do any of them.
LEMMA RunningFit ==
    ASSUME Inv, NEW S \in SUBSET In({"running"})
    PROVE  Cardinality(S) <= capacity
<1>1. In({"running"}) \in SUBSET Nodes /\ S \in SUBSET Nodes
    BY DEF In
<1>2. Cardinality(S) <= Cardinality(In({"running"}))
    BY <1>1, NodesFinite, FS_Subset
<1>3. Cardinality(S) \in Nat /\ Cardinality(In({"running"})) \in Nat /\ capacity \in Nat
    BY <1>1, NodesFinite, CapacitiesAssumption DEF Inv, TypeOK
<1> QED
    BY <1>2, <1>3 DEF Inv, CountersExact

\* With work unfinished and nothing running, admit admits something.
LEMMA AdmitsWhenIdle ==
    ASSUME Inv, unfinished > 0, In({"running"}) = {}
    PROVE  Admitted # {}
<1>1. In({"ready"}) # {}
    BY InvNoStall DEF NoStall, In
<1>2. /\ ready \in Seq(Nodes) /\ Len(ready) \in Nat \ {0} /\ DOMAIN ready = 1 .. Len(ready)
    BY <1>1, LenProperties DEF Inv, TypeOK, ReadyQueueExact
<1>3. active = 0 /\ capacity \in Nat \ {0}
    BY NodesCounted, CapacitiesAssumption DEF Inv, CountersExact, TypeOK
<1>4. CASE Popped = Len(ready)
    <2>1. Admitted = {ready[j] : j \in 1 .. Popped} /\ 1 \in 1 .. Popped
        BY <1>2, <1>4, PoppedProperties
    <2> QED
        BY <2>1
<1>5. CASE FillsUp(Popped)
    <2>1. Cardinality(Admitted) # 0
        BY <1>3, <1>5 DEF FillsUp, Admitted
    <2> QED
        BY <2>1, NodesCounted
<1> QED
    BY <1>4, <1>5, PoppedProperties

\* capacity is fixed.
LEMMA CapacityFixed == [Next]_vars => capacity' = capacity
BY DEF Next, vars, Admit, Cancel, Finish, FinishDone, FinishLost

\* Place tells the nodes apart while the queue is exact.
LEMMA PlaceIsKey == Inv => IsKey(Place)
<1> SUFFICES ASSUME Inv PROVE IsKey(Place)
    OBVIOUS
<1>1. /\ ready \in Seq(Nodes) /\ Len(ready) \in Nat /\ DOMAIN ready = 1 .. Len(ready)
      /\ Nodes \subseteq Nat
    BY LenProperties, NAssumption DEF Inv, TypeOK, Nodes
<1>2. \A n \in Entries(ready) : Place[n] \in 1 .. Len(ready) /\ ready[Place[n]] = n
    BY <1>1 DEF Place, Entries
<1>3. \A n \in Nodes \ Entries(ready) : Place[n] = Len(ready) + 1 + n
    BY DEF Place
<1>4. Place \in [Nodes -> Nat]
    <2>1. \A n \in Nodes : Place[n] \in Nat
        BY <1>1, <1>2, <1>3
    <2> QED
        BY <2>1 DEF Place
<1>5. ASSUME NEW m \in Nodes, NEW n \in Nodes, Place[m] = Place[n] PROVE m = n
    BY <1>1, <1>2, <1>3, <1>5
<1> QED
    BY <1>4, <1>5 DEF IsKey
-----------------------------------------------------------------------------
\* A step that lets no callable begin keeps the executing ones within capacity.
LEMMA ExecutingFewer ==
    ASSUME CapacityRespected, capacity \in Nat, capacity' = capacity, Executing' \subseteq Executing
    PROVE  CapacityRespected'
<1>1. Executing \in SUBSET Nodes /\ Executing' \in SUBSET Nodes
    BY DEF Executing
<1>2. Cardinality(Executing') <= Cardinality(Executing)
    BY <1>1, NodesFinite, FS_Subset
<1>3. Cardinality(Executing') \in Nat /\ Cardinality(Executing) \in Nat
    BY <1>1, NodesFinite
<1> QED
    BY <1>2, <1>3 DEF CapacityRespected, Executing

\* The steps of tasks and of threads.
LEMMA TasksInv ==
    ASSUME Inv, Inv', RunInv, NEW n \in Nodes, Begin(n) \/ ThreadReturns(n) \/ Return(n)
    PROVE  RunInv'
<1>1. /\ UNCHANGED <<vars, loopVars, outputs, record, lease, faults>>
      /\ tasks \in [Nodes -> TaskState] /\ threads \in [Nodes -> ThreadState]
    BY DEF Begin, ThreadReturns, Return, RunInv, RunTypeOK
<1>2. UNCHANGED <<states, capacity, pc, batch, reusedAny, pending, done>>
    BY <1>1 DEF vars, loopVars
<1>3. CASE Begin(n)
    <2>1. /\ tasks[n] = "scheduled" /\ tasks' = [tasks EXCEPT ![n] = "executing"]
          /\ threads' = IF n \in Async THEN threads ELSE [threads EXCEPT ![n] = "executing"]
        BY <1>3 DEF Begin
    <2>2. tasks' \in [Nodes -> TaskState] /\ threads' \in [Nodes -> ThreadState]
        BY <1>1, <2>1 DEF TaskState, ThreadState
    <2>3. Live' \subseteq Live /\ Executing' \subseteq Live
        BY <1>1, <2>1 DEF Live, Executing
    <2>4. /\ tasks'[n] = "executing" /\ \A m \in Nodes \ {n} : tasks'[m] = tasks[m]
          /\ \A m \in Nodes \ {n} : threads'[m] = threads[m]
          /\ n \in Async => threads' = threads
        BY <1>1, <2>1
    <2>5. Awaiting
        BY <1>3 DEF Begin
    <2>6. TasksCovered'
        <3>1. pc \in Looping => \A m \in Nodes : threads'[m] = "executing" => tasks'[m] = "executing"
            BY <2>4 DEF RunInv, TasksCovered
        <3>2. \A m \in Async : threads'[m] = "none"
            BY <2>4, CoordinatorAssumption DEF RunInv, TasksCovered
        <3> QED
            BY <1>1, <1>2, <2>3, <2>5, <3>1, <3>2 DEF RunInv, TasksCovered, Entries, Awaiting, Looping, Failing
    <2>7. CapacityRespected'
        <3>1. Live \subseteq In({"running"})
            BY <2>5 DEF Awaiting, RunInv, TasksCovered, FuturesRun, Looping, Failing
        <3>2. Cardinality(Executing') <= capacity
            BY <2>3, <3>1, RunningFit
        <3> QED
            BY <1>2, <3>2 DEF CapacityRespected
    <2>8. RunTypeOK'
        BY <1>1, <1>2, <2>2 DEF RunInv, RunTypeOK, Inv
    <2> QED
        BY <1>2, <2>6, <2>7, <2>8 DEF RunInv, Queues, FuturesRun, Distinct, NoRunnableNodes, In, Entries
<1>4. CASE ThreadReturns(n) \/ Return(n)
    <2>1. /\ tasks' \in [Nodes -> TaskState] /\ threads' \in [Nodes -> ThreadState]
          /\ \A m \in Nodes : tasks'[m] = tasks[m] \/ tasks'[m] \in Returned
          /\ \A m \in Nodes : \/ threads'[m] = threads[m]
                              \/ threads[m] = "executing" /\ threads'[m] \in Returned
        BY <1>1, <1>4 DEF ThreadReturns, Return, TaskState, ThreadState, Finished, Returned
    <2>2. Live' \subseteq Live /\ Executing' \subseteq Executing
        BY <2>1 DEF Live, Executing, Returned
    <2>3. TasksCovered'
        <3>1. ASSUME pc \in Looping, NEW m \in Nodes, threads'[m] = "executing"
              PROVE  tasks'[m] = "executing"
            <4>1. threads[m] = "executing" /\ tasks[m] = "executing" /\ m \notin Async
                BY <2>1, <3>1 DEF RunInv, TasksCovered, Returned
            <4>2. CASE ThreadReturns(n)
                BY <4>1, <4>2 DEF ThreadReturns
            <4>3. CASE Return(n)
                <5>1. m # n
                    BY <4>1, <4>3 DEF Return, Returned
                <5> QED
                    BY <1>1, <4>1, <4>3, <5>1 DEF Return
            <4> QED
                BY <1>4, <4>2, <4>3
        <3>2. \A m \in Async : threads'[m] = "none"
            BY <2>1, CoordinatorAssumption DEF RunInv, TasksCovered
        <3>3. pc \in {"drained", "closing", "closed"} =>
                 \A m \in Nodes : tasks'[m] \notin {"scheduled", "executing"}
            BY <2>1 DEF RunInv, TasksCovered, Returned
        <3> QED
            BY <1>1, <1>2, <2>2, <3>1, <3>2, <3>3 DEF RunInv, TasksCovered, Entries
    <2>4. CapacityRespected'
        <3>1. capacity \in Nat
            BY CapacitiesAssumption DEF Inv, TypeOK
        <3> QED
            BY <1>2, <2>2, <3>1, ExecutingFewer DEF RunInv
    <2>5. RunTypeOK'
        BY <1>1, <1>2, <2>1 DEF RunInv, RunTypeOK, Inv
    <2> QED
        BY <1>2, <2>3, <2>4, <2>5 DEF RunInv, Queues, FuturesRun, Distinct, NoRunnableNodes, In, Entries
<1> QED
    BY <1>3, <1>4

\* The loop cancels its tasks: those that have not begun never will, and those
\* that wait for a thread end without it.
LEMMA CancelAllInv ==
    ASSUME Inv, Inv', RunInv, CancelAll
    PROVE  RunInv'
<1>1. /\ pc \in {"waiting", "draining"}
      /\ pc' = IF pc = "waiting" THEN "failing" ELSE pc
      /\ tasks' = [n \in Nodes |->
                     IF tasks[n] = "scheduled" THEN "dropped"
                     ELSE IF tasks[n] = "executing" /\ n \notin Async THEN "cancelled"
                     ELSE tasks[n]]
      /\ UNCHANGED <<states, capacity, batch, reusedAny, pending, done, threads, outputs, record,
                    lease, faults>>
      /\ tasks \in [Nodes -> TaskState]
    BY DEF CancelAll, Awaiting, vars, RunInv, RunTypeOK
<1>2. tasks' \in [Nodes -> TaskState]
    BY <1>1 DEF TaskState, Finished
<1>3. RunTypeOK'
    BY <1>1, <1>2 DEF RunInv, RunTypeOK, Inv
<1>4. Queues'
    BY <1>1 DEF RunInv, Queues, Distinct, Looping, Failing
<1>5. /\ In({"running"})' = In({"running"})
      /\ Entries(pending)' = Entries(pending) /\ Entries(done)' = Entries(done)
    BY <1>1 DEF In, Entries
<1>6. FuturesRun'
    BY <1>1, <1>5 DEF RunInv, FuturesRun, Looping, Failing
<1>7. Live' \subseteq Live /\ Executing' \subseteq Executing
    BY <1>1 DEF Live, Executing
<1>8. TasksCovered'
    BY <1>1, <1>5, <1>7 DEF RunInv, TasksCovered, Looping, Failing
<1>9. CapacityRespected'
    BY <1>1, <1>7, ExecutingFewer, CapacitiesAssumption DEF RunInv, Inv, TypeOK
<1> QED
    BY <1>1, <1>3, <1>4, <1>6, <1>8, <1>9 DEF RunInv, NoRunnableNodes

\* The steps that call neither the core nor change a queue or a task but batch.
LEMMA QuietInv ==
    ASSUME Inv, Inv', RunInv, UNCHANGED <<states, capacity, tasks, threads, pending, done>>,
           record' \in Records, outputs' \subseteq Nodes, faults' \in 0 .. MaxFaults,
           reusedAny' = reusedAny,
           \/ pc' = pc /\ batch' = batch /\ lease' = lease
           \/ /\ pc = "starting" /\ batch = <<>>
              /\ pc' \in {"waiting", "admitting"}
              /\ batch' = batch /\ lease' = lease
           \/ /\ pc \in {"admitting", "waiting", "starting"} /\ pc' = "failing"
              /\ batch' \in {batch, <<>>} /\ lease' = lease
           \/ /\ pc \in {"admitting", "drained"} /\ pc' = "closing"
              /\ pc = "admitting" => unfinished = 0
              /\ batch' = batch /\ lease' = lease
           \/ /\ pc = "closing" /\ pc' = "closed" /\ batch' = batch /\ lease' = FALSE
              /\ \A n \in Nodes : threads[n] # "executing"
           \/ pc' = "crashed" /\ batch' = batch /\ lease' = FALSE
    PROVE  RunInv'
<1>1. /\ In({"running"})' = In({"running"}) /\ Live' = Live
      /\ Entries(pending)' = Entries(pending) /\ Entries(done)' = Entries(done)
      /\ CapacityRespected'
    BY DEF In, Live, Entries, RunInv, CapacityRespected, Executing
<1>2. /\ batch' \in Seq(Nodes) /\ Distinct(batch)' /\ Distinct(pending)' /\ Distinct(done)'
      /\ batch' = batch => Entries(batch)' = Entries(batch)
    <2>1. Distinct(<<>>) /\ <<>> \in Seq(Nodes)
        BY DEF Distinct
    <2> QED
        BY <2>1 DEF RunInv, RunTypeOK, Queues, Distinct, Entries
<1>3. RunTypeOK'
    BY <1>2 DEF RunInv, RunTypeOK, Inv
<1>4. pc = "admitting" /\ unfinished = 0 => Live = {}
    <2> SUFFICES ASSUME pc = "admitting", unfinished = 0 PROVE Live = {}
        OBVIOUS
    <2>1. In(Open \cup {"running"}) = {}
        BY NodesCounted DEF Inv, CountersExact, In
    <2>2. In({"running"}) = {}
        BY <2>1 DEF In
    <2> QED
        BY <2>2 DEF RunInv, FuturesRun, TasksCovered, Looping
<1>5. Queues'
    BY <1>2 DEF RunInv, Queues, Looping, Failing
<1>6. FuturesRun'
    BY <1>1, <1>2 DEF RunInv, FuturesRun, Looping, Failing
<1>7. TasksCovered'
    <2>1. pc' \in {"drained", "closing", "closed"} =>
             \A n \in Nodes : tasks'[n] \notin {"scheduled", "executing"}
        BY <1>4 DEF RunInv, TasksCovered, Live
    <2>2. pc' = "closed" => Live' = {}
        BY <1>1, <2>1 DEF RunInv, TasksCovered, Live
    <2>3. \A n \in Async : threads'[n] = "none"
        BY DEF RunInv, TasksCovered
    <2>4. pc' \in Looping => \A n \in Nodes : threads'[n] = "executing" => tasks'[n] = "executing"
        BY DEF RunInv, TasksCovered, Looping
    <2> QED
        BY <1>1, <2>1, <2>2, <2>3, <2>4 DEF RunInv, TasksCovered, Looping, Failing
<1>8. NoRunnableNodes'
    BY DEF RunInv, NoRunnableNodes
<1> QED
    BY <1>1, <1>3, <1>5, <1>6, <1>7, <1>8 DEF RunInv
\* What is written to the record stays a record.
LEMMA RecordTyped ==
    ASSUME Inv, record \in Records
    PROVE  /\ \A n \in Nodes : MarkedRunning(record, n) \in Records
           /\ \A n \in Nodes, o \in Outcomes : MarkedFinished(record, n, o) \in Records
           /\ \A s \in RunStatus : Ended(record, states, s) \in Records
           /\ Ended(record, InterruptedRows, "interrupted") \in Records
           /\ Recovered(record) \in Records
<1>1. \A n \in Nodes : MarkedRunning(record, n) \in Records
    BY DEF MarkedRunning, Records, RowState
<1>2. \A n \in Nodes, o \in Outcomes : MarkedFinished(record, n, o) \in Records
    BY DEF MarkedFinished, Records, RowState
<1>3. states \in [Nodes -> RowState] /\ InterruptedRows \in [Nodes -> RowState]
    <2>1. \A n \in Nodes : states[n] \in RowState
        BY DEF Inv, TypeOK, State, Open, Done, Lost, RowState, Outcomes
    <2> QED
        BY <2>1 DEF Inv, TypeOK, InterruptedRows, RowState
<1>4. ASSUME NEW rows \in [Nodes -> RowState], NEW s \in RunStatus
      PROVE  Ended(record, rows, s) \in Records
    BY DEF Ended, Records
<1>5. Recovered(record) \in Records
    BY DEF Recovered, Records, RowState, RunStatus, Outcomes
<1>6. "interrupted" \in RunStatus
    BY DEF RunStatus
<1> QED
    BY <1>1, <1>2, <1>3, <1>4, <1>5, <1>6

\* The steps that change neither the core nor the queues keep the invariant:
\* the end of a batch or of the run, an exception or a crash, closing, recovery.
LEMMA QuietStepsInv ==
    ASSUME Inv, Inv', RunInv,
           \/ BatchStarted \/ EndNormally \/ Interrupt \/ EndInterrupted \/ Close
           \/ Crash \/ Recover \/ StartRaises \/ EndRaises
    PROVE  RunInv'
<1>1. record \in Records /\ outputs \subseteq Nodes /\ faults \in 0 .. MaxFaults /\ MaxFaults \in Nat
    BY CoordinatorAssumption DEF RunInv, RunTypeOK
<1>2. CASE BatchStarted
    BY <1>1, <1>2, QuietInv DEF BatchStarted, vars, worldVars
<1>3. CASE EndNormally
    <2>1. record' \in Records
        BY <1>1, <1>3, RecordTyped DEF EndNormally, RunStatus
    <2> QED
        BY <1>1, <1>3, <2>1, QuietInv DEF EndNormally, vars
<1>4. CASE Interrupt
    BY <1>1, <1>4, QuietInv DEF Interrupt, vars, worldVars
<1>5. CASE EndInterrupted
    BY <1>1, <1>5, RecordTyped, QuietInv DEF EndInterrupted, vars
<1>6. CASE Close
    BY <1>1, <1>6, QuietInv DEF Close, vars
<1>7. CASE Crash
    BY <1>1, <1>7, QuietInv DEF Crash, vars
<1>8. CASE Recover
    BY <1>1, <1>8, RecordTyped, QuietInv DEF Recover, vars, loopVars
<1>9. CASE StartRaises
    <2>1. outputs' \subseteq Nodes
        BY <1>1, <1>9 DEF StartRaises, Keyed
    <2> QED
        BY <1>1, <1>9, <2>1, QuietInv DEF StartRaises, Raise, vars
<1>10. CASE EndRaises
    <2>1. /\ UNCHANGED <<states, capacity, tasks, threads, pending, done, batch, reusedAny, record, outputs, lease>>
          /\ faults' \in 0 .. MaxFaults
        BY <1>1, <1>10 DEF EndRaises, Raise, vars
    <2>2. CASE pc = "admitting" /\ pc' = "failing"
        BY <1>1, <2>1, <2>2, QuietInv
    <2>3. CASE pc = "drained" /\ pc' = "closing"
        BY <1>1, <2>1, <2>3, QuietInv
    <2> QED
        BY <1>10, <2>2, <2>3 DEF EndRaises, Raise
<1> QED
    BY <1>2, <1>3, <1>4, <1>5, <1>6, <1>7, <1>8, <1>9, <1>10

-----------------------------------------------------------------------------
\* The admission loop.
LEMMA AdmitBatchInv ==
    ASSUME Inv, Inv', RunInv, AdmitBatch
    PROVE  RunInv'
<1>1. /\ pc = "admitting" /\ unfinished > 0 /\ pc' = "starting" /\ reusedAny' = FALSE
      /\ batch' = Listed(Admitted, Place)
      /\ UNCHANGED <<pending, done, tasks, threads, outputs, record, lease, faults>>
    BY DEF AdmitBatch, worldVars
<1>2. Admitted \in SUBSET Nodes
    BY AdmittedReady
<1>3. batch' \in Seq(Nodes) /\ Distinct(batch)' /\ Entries(batch)' = Admitted
    BY <1>1, <1>2, PlaceIsKey, QueueListed DEF Distinct, Entries
<1>4. /\ In({"running"}) = Entries(pending) /\ batch = <<>> /\ done = <<>>
    BY <1>1 DEF RunInv, FuturesRun, Queues, Looping, Entries
<1>5. /\ In({"running"})' = In({"running"}) \cup Admitted
      /\ Admitted \cap In({"running"}) = {}
    <2>1. CASE Admit
        BY <2>1, RunningAdmitted
    <2>2. CASE Admitted = {} /\ UNCHANGED vars
        BY <2>2 DEF vars, In
    <2> QED
        BY <2>1, <2>2 DEF AdmitBatch
<1>6. RunTypeOK'
    BY <1>1, <1>3 DEF RunInv, RunTypeOK, Inv
<1>7. Queues'
    BY <1>1, <1>3, <1>4 DEF RunInv, Queues, Distinct, Looping, Failing
<1>8. FuturesRun'
    BY <1>1, <1>3, <1>4, <1>5 DEF FuturesRun, Looping, Failing, Entries
<1>9. TasksCovered'
    BY <1>1 DEF RunInv, TasksCovered, Live, Looping, Failing, Entries
<1>10. CapacityRespected'
    <2>1. capacity' = capacity
        BY CapacityFixed DEF AdmitBatch, Next
    <2> QED
        BY <1>1, <2>1 DEF RunInv, CapacityRespected, Executing
<1>11. NoRunnableNodes'
    <2> SUFFICES ASSUME pending = <<>> PROVE batch' # <<>>
        BY <1>1 DEF NoRunnableNodes
    <2>1. In({"running"}) = {}
        BY <1>4 DEF Entries
    <2>2. Entries(batch)' # {}
        BY <1>1, <1>3, <2>1, AdmitsWhenIdle
    <2> QED
        BY <2>2 DEF Entries
<1> QED
    BY <1>6, <1>7, <1>8, <1>9, <1>10, <1>11 DEF RunInv

\* Visiting a node of the batch that is reused: it ends at once, without a task.
LEMMA ReuseNodeInv ==
    ASSUME Inv, Inv', RunInv, NEW n \in Nodes, ReuseNode(n)
    PROVE  RunInv'
<1>1. /\ pc = "starting" /\ pc' = pc /\ batch # <<>> /\ n = Head(batch) /\ batch' = Tail(batch)
      /\ reusedAny' = TRUE /\ outputs' = outputs \cup {n}
      /\ record' = MarkedFinished(record, n, "reused")
      /\ FinishDone(n, "reused")
      /\ UNCHANGED <<pending, done, tasks, threads, lease, faults>>
    BY DEF ReuseNode, Visiting
<1>2. /\ n \in Entries(batch) /\ batch' \in Seq(Nodes) /\ Distinct(batch')
      /\ Entries(batch') = Entries(batch) \ {n}
    BY <1>1, TailOfQueue DEF RunInv, RunTypeOK, Queues
<1>3. In({"running"})' = In({"running"}) \ {n}
    BY <1>1, RunningFinished DEF Done
<1>4. RunTypeOK'
    <2>1. record' \in Records
        BY <1>1, RecordTyped DEF RunInv, RunTypeOK, Outcomes
    <2> QED
        BY <1>1, <1>2, <2>1 DEF RunInv, RunTypeOK, Inv
<1>5. Queues'
    BY <1>1, <1>2 DEF RunInv, Queues, Distinct, Looping, Failing
<1>6. FuturesRun'
    <2>1. /\ Entries(batch)' = Entries(batch) \ {n} /\ Entries(pending)' = Entries(pending)
          /\ Entries(done)' = Entries(done)
        BY <1>1, <1>2 DEF Entries
    <2> QED
        BY <1>1, <1>2, <1>3, <2>1 DEF RunInv, FuturesRun, Looping, Failing
<1>7. TasksCovered'
    BY <1>1 DEF RunInv, TasksCovered, Live, Looping, Failing, Entries
<1>8. CapacityRespected'
    <2>1. capacity' = capacity
        BY <1>1 DEF FinishDone
    <2> QED
        BY <1>1, <2>1 DEF RunInv, CapacityRespected, Executing
<1>9. NoRunnableNodes'
    BY <1>1 DEF NoRunnableNodes
<1> QED
    BY <1>4, <1>5, <1>6, <1>7, <1>8, <1>9 DEF RunInv

\* Visiting a node of the batch that is started: its task is created and its
\* future appended to pending.
LEMMA StartNodeInv ==
    ASSUME Inv, Inv', RunInv, NEW n \in Nodes, StartNode(n)
    PROVE  RunInv'
<1>1. /\ pc = "starting" /\ pc' = pc /\ batch # <<>> /\ n = Head(batch) /\ batch' = Tail(batch)
      /\ record' = MarkedRunning(record, n)
      /\ tasks' = [tasks EXCEPT ![n] = "scheduled"]
      /\ pending' = Append(pending, n)
      /\ UNCHANGED <<states, capacity, reusedAny, done, threads, outputs, lease, faults>>
    BY DEF StartNode, Visiting, vars
<1>2. /\ n \in Entries(batch) /\ batch' \in Seq(Nodes) /\ Distinct(batch')
      /\ Entries(batch') = Entries(batch) \ {n}
    BY <1>1, TailOfQueue DEF RunInv, RunTypeOK, Queues
<1>3. n \notin Entries(pending)
    BY <1>1, <1>2 DEF RunInv, FuturesRun, Looping
<1>4. /\ pending' \in Seq(Nodes) /\ Distinct(pending')
      /\ Entries(pending') = Entries(pending) \cup {n}
    BY <1>1, <1>3, QueueAppended DEF RunInv, RunTypeOK, Queues
<1>5. tasks \in [Nodes -> TaskState] /\ tasks' \in [Nodes -> TaskState]
    BY <1>1 DEF RunInv, RunTypeOK, TaskState
<1>6. RunTypeOK'
    <2>1. record' \in Records
        BY <1>1, RecordTyped DEF RunInv, RunTypeOK
    <2> QED
        BY <1>1, <1>2, <1>4, <1>5, <2>1 DEF RunInv, RunTypeOK, Inv
<1>7. Queues'
    BY <1>1, <1>2, <1>4 DEF RunInv, Queues, Distinct, Looping, Failing
<1>8. FuturesRun'
    <2>1. In({"running"})' = In({"running"})
        BY <1>1 DEF In
    <2>2. /\ Entries(batch)' = Entries(batch) \ {n} /\ Entries(pending)' = Entries(pending) \cup {n}
          /\ Entries(done)' = Entries(done)
        BY <1>1, <1>2, <1>4 DEF Entries
    <2> QED
        BY <1>1, <1>2, <1>3, <2>1, <2>2 DEF RunInv, FuturesRun, Looping, Failing
<1>9. TasksCovered'
    <2>1. Live' \subseteq Live \cup {n}
        BY <1>1, <1>5 DEF Live
    <2>2. ASSUME NEW m \in Nodes, threads'[m] = "executing" PROVE tasks'[m] = "executing"
        <3>1. threads[m] = "executing" /\ tasks[m] = "executing"
            BY <1>1, <2>2 DEF RunInv, TasksCovered, Looping
        <3>2. n \notin Live
            BY <1>1, <1>3 DEF RunInv, TasksCovered, Looping
        <3> QED
            BY <1>1, <1>5, <3>1, <3>2 DEF Live
    <2>3. Entries(pending') = Entries(pending)'
        BY DEF Entries
    <2> QED
        BY <1>1, <1>4, <2>1, <2>2, <2>3 DEF RunInv, TasksCovered, Looping, Failing
<1>10. CapacityRespected'
    <2>1. Executing' \subseteq Executing
        BY <1>1, <1>5 DEF Executing
    <2> QED
        BY <1>1, <2>1, ExecutingFewer, CapacitiesAssumption DEF RunInv, Inv, TypeOK
<1>11. NoRunnableNodes'
    BY <1>4 DEF NoRunnableNodes, Entries
<1> QED
    BY <1>6, <1>7, <1>8, <1>9, <1>10, <1>11 DEF RunInv

-----------------------------------------------------------------------------
\* Completion.
LEMMA WakeInv ==
    ASSUME Inv, Inv', RunInv, Wake
    PROVE  RunInv'
<1> DEFINE returned == {n \in Entries(pending) : tasks[n] \in Finished}
<1>1. /\ pc = "waiting" /\ pc' = "completing" /\ returned # {} /\ done' = Listed(returned, Index)
      /\ UNCHANGED <<states, capacity, batch, reusedAny, pending, tasks, threads, outputs, record, lease, faults>>
    BY DEF Wake, vars, worldVars
<1>2. Entries(pending) \in SUBSET Nodes
    BY DEF RunInv, FuturesRun, RunTypeOK, Entries
<1>3. done' \in Seq(Nodes) /\ Distinct(done') /\ Entries(done') = returned
    <2>1. returned \in SUBSET Nodes
        BY <1>2
    <2> HIDE DEF returned
    <2> QED
        BY <1>1, <2>1, IndexIsKey, QueueListed
<1>4. RunTypeOK'
    BY <1>1, <1>3 DEF RunInv, RunTypeOK, Inv
<1>5. Queues'
    BY <1>1, <1>3 DEF RunInv, Queues, Distinct, Looping, Failing
<1>6. FuturesRun'
    <2>1. In({"running"})' = In({"running"})
        BY <1>1 DEF In
    <2>2. /\ Entries(batch)' = Entries(batch) /\ Entries(pending)' = Entries(pending)
          /\ Entries(done)' = returned
        BY <1>1, <1>3 DEF Entries
    <2> QED
        BY <1>1, <2>1, <2>2 DEF RunInv, FuturesRun, Looping, Failing
<1>7. TasksCovered'
    <2>1. returned \cap Live = {}
        BY <1>1 DEF Live, Finished, RunInv, TasksCovered, Looping
    <2>2. Live' = Live /\ Entries(pending)' = Entries(pending) /\ Entries(done)' = returned
        BY <1>1, <1>3 DEF Live, Entries
    <2> HIDE DEF returned
    <2> QED
        BY <1>1, <2>1, <2>2 DEF RunInv, TasksCovered, Looping, Failing
<1>8. CapacityRespected' /\ NoRunnableNodes'
    BY <1>1 DEF RunInv, CapacityRespected, Executing, NoRunnableNodes
<1> QED
    BY <1>4, <1>5, <1>6, <1>7, <1>8 DEF RunInv

\* complete writes one of the outcomes of the store and only adds to outputs.
LEMMA SettleTyped ==
    ASSUME NEW n \in Nodes, Settle(n), outputs \subseteq Nodes
    PROVE  outputs' \subseteq Nodes /\ OutcomeOf(n) \in Outcomes /\ capacity' = capacity
BY DEF Settle, OutcomeOf, Outcomes, FinishDone, FinishLost

\* Completing a future in the loop: it leaves done, pending and the running
\* nodes together.
LEMMA CompleteNextInv ==
    ASSUME Inv, Inv', RunInv, NEW n \in Nodes, CompleteNext(n)
    PROVE  RunInv'
<1>1. /\ pc = "completing" /\ done # <<>> /\ n = Head(done) /\ done' = Tail(done)
      /\ pc' = IF done' = <<>> THEN "admitting" ELSE "completing"
      /\ Settle(n) /\ PopFuture(n)
      /\ record' = MarkedFinished(record, n, OutcomeOf(n))
      /\ UNCHANGED <<batch, reusedAny, tasks, threads, lease, faults>>
    BY DEF CompleteNext, Completing, Complete
<1>2. /\ n \in Entries(done) /\ done' \in Seq(Nodes) /\ Distinct(done')
      /\ Entries(done') = Entries(done) \ {n}
    BY <1>1, TailOfQueue DEF RunInv, RunTypeOK, Queues
<1>3. /\ pending' \in Seq(Nodes) /\ Distinct(pending')
      /\ Entries(pending') = Entries(pending) \ {n}
    BY <1>1, FuturePopped DEF RunInv, RunTypeOK, Queues
<1>4. In({"running"})' = In({"running"}) \ {n}
    BY <1>1, RunningSettled
<1>5. outputs' \subseteq Nodes /\ OutcomeOf(n) \in Outcomes /\ capacity' = capacity
    BY <1>1, SettleTyped DEF RunInv, RunTypeOK
<1>6. RunTypeOK'
    <2>1. record' \in Records
        BY <1>1, <1>5, RecordTyped DEF RunInv, RunTypeOK
    <2> QED
        BY <1>1, <1>2, <1>3, <1>5, <2>1 DEF RunInv, RunTypeOK, Inv
<1>7. batch = <<>> /\ Entries(batch) = {}
    BY <1>1 DEF RunInv, Queues, Looping, Entries
<1>8. Queues'
    BY <1>1, <1>2, <1>3, <1>7 DEF RunInv, Queues, Distinct, Looping, Failing
<1>9. FuturesRun'
    <2>1. Entries(batch)' = {}
        BY <1>1, <1>7 DEF Entries
    <2>2. Entries(pending)' = Entries(pending) \ {n}
        BY <1>3 DEF Entries
    <2>3. Entries(done)' = Entries(done) \ {n}
        BY <1>2 DEF Entries
    <2> QED
        BY <1>1, <1>4, <1>7, <2>1, <2>2, <2>3 DEF RunInv, FuturesRun, Looping, Failing
<1>10. TasksCovered'
    <2>1. Live' = Live /\ n \notin Live
        BY <1>1, <1>2 DEF Live, RunInv, TasksCovered
    <2> QED
        BY <1>1, <1>2, <1>3, <2>1 DEF RunInv, TasksCovered, Looping, Failing, Entries
<1>11. CapacityRespected' /\ NoRunnableNodes'
    BY <1>1, <1>5 DEF RunInv, CapacityRespected, Executing, NoRunnableNodes
<1> QED
    BY <1>6, <1>8, <1>9, <1>10, <1>11 DEF RunInv
-----------------------------------------------------------------------------
\* The except block.
LEMMA CancelRunInv ==
    ASSUME Inv, Inv', RunInv, CancelRun
    PROVE  RunInv'
<1>1. /\ pc = "failing" /\ pc' = "draining" /\ Cancel /\ tasks \in [Nodes -> TaskState]
      /\ tasks' = [n \in Nodes |-> IF n \in CancelledFutures /\ tasks[n] = "scheduled"
                                   THEN "dropped" ELSE tasks[n]]
      /\ UNCHANGED <<batch, reusedAny, pending, done, threads, outputs, record, lease, faults>>
    BY DEF CancelRun, RunInv, RunTypeOK
<1>2. tasks' \in [Nodes -> TaskState]
    BY <1>1 DEF TaskState, Finished
<1>3. RunTypeOK'
    BY <1>1, <1>2 DEF RunInv, RunTypeOK, Inv
<1>4. Queues'
    BY <1>1 DEF RunInv, Queues, Distinct, Looping, Failing
<1>5. Entries(pending)' = Entries(pending) /\ Entries(done)' = Entries(done)
    BY <1>1 DEF Entries
<1>6. FuturesRun'
    BY <1>1, <1>5, RunningCancelled DEF RunInv, FuturesRun, Looping, Failing
<1>7. Live' \subseteq Live /\ Executing' \subseteq Executing
    BY <1>1 DEF Live, Executing
<1>8. TasksCovered'
    BY <1>1, <1>5, <1>7 DEF RunInv, TasksCovered, Looping, Failing
<1>9. CapacityRespected'
    BY <1>1, <1>7, ExecutingFewer, CapacitiesAssumption DEF RunInv, Inv, TypeOK, Cancel
<1> QED
    BY <1>1, <1>3, <1>4, <1>6, <1>8, <1>9 DEF RunInv, NoRunnableNodes

\* gather returns when every pending task has ended, so no task is live.
LEMMA DrainedInv ==
    ASSUME Inv, Inv', RunInv, Drained
    PROVE  RunInv'
<1>1. /\ pc = "draining" /\ pc' = "drained" /\ done' = pending
      /\ \A n \in Entries(pending) : tasks[n] \in Finished
      /\ UNCHANGED <<states, capacity, batch, reusedAny, pending, tasks, threads, outputs, record, lease, faults>>
    BY DEF Drained, vars, worldVars
<1>2. RunTypeOK'
    BY <1>1 DEF RunInv, RunTypeOK, Inv
<1>3. Queues'
    BY <1>1 DEF RunInv, Queues, Distinct, Looping, Failing
<1>4. /\ In({"running"})' = In({"running"}) /\ Live' = Live
      /\ Entries(done)' = Entries(pending)
    BY <1>1 DEF In, Live, Entries
<1>5. FuturesRun'
    BY <1>1, <1>4 DEF RunInv, FuturesRun, Looping, Failing
<1>6. \A n \in Nodes : tasks[n] \notin {"scheduled", "executing"}
    <2>1. Live \subseteq Entries(pending)
        BY <1>1 DEF RunInv, TasksCovered, Failing
    <2> QED
        BY <1>1, <2>1 DEF Live, Finished
<1>7. TasksCovered'
    BY <1>1, <1>4, <1>6 DEF RunInv, TasksCovered, Looping, Failing
<1> QED
    BY <1>1, <1>2, <1>3, <1>5, <1>7 DEF RunInv, CapacityRespected, Executing, NoRunnableNodes

\* Completing a drained future: the task has ended, only the core and the
\* record move.
LEMMA CompleteDrainedInv ==
    ASSUME Inv, Inv', RunInv, NEW n \in Nodes, CompleteDrained(n)
    PROVE  RunInv'
<1>1. /\ pc = "drained" /\ pc' = pc /\ done # <<>> /\ n = Head(done) /\ done' = Tail(done)
      /\ Settle(n)
      /\ record' = MarkedFinished(record, n, OutcomeOf(n))
      /\ UNCHANGED <<batch, reusedAny, pending, tasks, threads, lease, faults>>
    BY DEF CompleteDrained, Completing, Complete
<1>2. /\ done' \in Seq(Nodes) /\ Distinct(done') /\ Entries(done') = Entries(done) \ {n}
    BY <1>1, TailOfQueue DEF RunInv, RunTypeOK, Queues
<1>3. outputs' \subseteq Nodes /\ OutcomeOf(n) \in Outcomes /\ capacity' = capacity
    BY <1>1, SettleTyped DEF RunInv, RunTypeOK
<1>4. RunTypeOK'
    <2>1. record' \in Records
        BY <1>1, <1>3, RecordTyped DEF RunInv, RunTypeOK
    <2> QED
        BY <1>1, <1>2, <1>3, <2>1 DEF RunInv, RunTypeOK, Inv
<1>5. Queues'
    BY <1>1, <1>2 DEF RunInv, Queues, Distinct, Looping, Failing
<1>6. FuturesRun'
    <2>1. In({"running"})' = In({"running"}) \ {n}
        BY <1>1, RunningSettled
    <2>2. Entries(done)' = Entries(done) \ {n}
        BY <1>2 DEF Entries
    <2> QED
        BY <1>1, <2>1, <2>2 DEF RunInv, FuturesRun, Looping, Failing
<1>7. TasksCovered'
    BY <1>1 DEF RunInv, TasksCovered, Looping, Failing, Live
<1> QED
    BY <1>1, <1>3, <1>4, <1>5, <1>6, <1>7 DEF RunInv, CapacityRespected, Executing, NoRunnableNodes

\* Completion broken off by a storage call.
LEMMA RaisedTyped ==
    ASSUME Inv, NEW n \in Nodes, SettleThenRaise(n), outputs \subseteq Nodes
    PROVE  /\ outputs' \subseteq Nodes /\ capacity' = capacity
           /\ In({"running"}) \ {n} \subseteq In({"running"})'
<1>1. CASE outputs' = outputs \cup {n} /\ UNCHANGED vars
    BY <1>1 DEF vars, In
<1>2. CASE Settle(n)
    BY <1>2, SettleTyped, RunningSettled
<1> QED
    BY <1>1, <1>2 DEF SettleThenRaise

\* A storage call that raises inside complete, in the loop: the future was
\* popped before, so it is not drained again.
LEMMA CompleteRaisesInv ==
    ASSUME Inv, Inv', RunInv, NEW n \in Nodes, CompleteRaises(n)
    PROVE  RunInv'
<1>1. /\ pc = "completing" /\ pc' = "failing" /\ done # <<>> /\ n = Head(done) /\ done' = <<>>
      /\ SettleThenRaise(n) /\ PopFuture(n)
      /\ faults' \in 0 .. MaxFaults
      /\ UNCHANGED <<batch, reusedAny, tasks, threads, record, lease>>
    BY CoordinatorAssumption DEF CompleteRaises, Completing, Raise, RunInv, RunTypeOK
<1>2. n \in Entries(done)
    BY <1>1, TailOfQueue DEF RunInv, RunTypeOK, Queues
<1>3. /\ pending' \in Seq(Nodes) /\ Distinct(pending')
      /\ Entries(pending') = Entries(pending) \ {n}
    BY <1>1, FuturePopped DEF RunInv, RunTypeOK, Queues
<1>4. /\ outputs' \subseteq Nodes /\ capacity' = capacity
      /\ In({"running"}) \ {n} \subseteq In({"running"})'
    BY <1>1, RaisedTyped DEF RunInv, RunTypeOK
<1>5. RunTypeOK'
    BY <1>1, <1>3, <1>4 DEF RunInv, RunTypeOK, Inv
<1>6. Queues'
    BY <1>1, <1>3 DEF RunInv, Queues, Distinct, Looping, Failing
<1>7. Entries(pending)' = Entries(pending) \ {n}
    BY <1>3 DEF Entries
<1>8. FuturesRun'
    BY <1>1, <1>4, <1>7 DEF RunInv, FuturesRun, Looping, Failing
<1>9. TasksCovered'
    <2>1. Live' = Live /\ n \notin Live
        BY <1>1, <1>2 DEF Live, RunInv, TasksCovered
    <2> QED
        BY <1>1, <1>7, <2>1 DEF RunInv, TasksCovered, Looping, Failing
<1> QED
    BY <1>1, <1>4, <1>5, <1>6, <1>8, <1>9 DEF RunInv, CapacityRespected, Executing, NoRunnableNodes

\* The same while draining: the rest of the drained futures is given up.
LEMMA CompleteDrainedRaisesInv ==
    ASSUME Inv, Inv', RunInv, NEW n \in Nodes, CompleteDrainedRaises(n)
    PROVE  RunInv'
<1>1. /\ pc = "drained" /\ pc' = "closing"
      /\ SettleThenRaise(n)
      /\ faults' \in 0 .. MaxFaults
      /\ UNCHANGED <<batch, reusedAny, pending, done, tasks, threads, record, lease>>
    BY CoordinatorAssumption DEF CompleteDrainedRaises, Raise, RunInv, RunTypeOK
<1>2. outputs' \subseteq Nodes /\ capacity' = capacity
    BY <1>1, RaisedTyped DEF RunInv, RunTypeOK
<1>3. RunTypeOK'
    BY <1>1, <1>2 DEF RunInv, RunTypeOK, Inv
<1>4. Queues' /\ FuturesRun'
    BY <1>1 DEF RunInv, Queues, FuturesRun, Distinct, Looping, Failing
<1>5. TasksCovered'
    BY <1>1 DEF RunInv, TasksCovered, Looping, Failing, Live
<1> QED
    BY <1>1, <1>2, <1>3, <1>4, <1>5 DEF RunInv, CapacityRespected, Executing, NoRunnableNodes
-----------------------------------------------------------------------------
\* A run starts with empty queues, no tasks and the lease.
LEMMA RunInitInv ==
    ASSUME Inv, RunInit
    PROVE  RunInv
<1>1. /\ pc = "admitting" /\ batch = <<>> /\ pending = <<>> /\ done = <<>> /\ reusedAny = FALSE
      /\ tasks = [n \in Nodes |-> "none"] /\ threads = [n \in Nodes |-> "none"] /\ outputs = {} /\ lease = TRUE /\ faults = 0
      /\ record = Inserted({n \in Nodes : states[n] # "unselected"})
    BY DEF RunInit
<1>2. In({"running"}) = {}
    BY DEF RunInit, Init, New, InitialStates, In
<1>3. RunTypeOK
    <2>1. record \in Records
        BY <1>1 DEF Inserted, Records, RowState, RunStatus
    <2>2. <<>> \in Seq(Nodes) /\ faults \in 0 .. MaxFaults
        BY <1>1, CoordinatorAssumption
    <2>3. tasks \in [Nodes -> TaskState] /\ threads \in [Nodes -> ThreadState]
        BY <1>1 DEF TaskState, ThreadState
    <2> QED
        BY <1>1, <2>1, <2>2, <2>3 DEF RunTypeOK, Inv
<1>4. Queues
    BY <1>1 DEF Queues, Distinct
<1>5. FuturesRun
    BY <1>1, <1>2 DEF FuturesRun, Entries, Failing
<1>6. Live = {} /\ Executing = {}
    BY <1>1 DEF Live, Executing
<1>7. TasksCovered
    BY <1>1, <1>6, CoordinatorAssumption DEF TasksCovered
<1>8. CapacityRespected
    BY <1>6, NodesCounted, CapacitiesAssumption DEF CapacityRespected, Executing, Inv, TypeOK
<1> QED
    BY <1>1, <1>3, <1>4, <1>5, <1>7, <1>8 DEF RunInv, NoRunnableNodes

\* The invariant survives a step that changes nothing.
LEMMA RunStutterInv ==
    ASSUME Inv, Inv', RunInv, UNCHANGED runVars
    PROVE  RunInv'
<1>1. record \in Records /\ outputs \subseteq Nodes /\ faults \in 0 .. MaxFaults
    BY DEF RunInv, RunTypeOK
<1> QED
    BY <1>1, QuietInv DEF runVars, vars, loopVars, worldVars

\* Every step of the coordinator keeps the invariant.
LEMMA RunNextInv ==
    ASSUME Inv, Inv', RunInv, [RunNext]_runVars
    PROVE  RunInv'
<1>1. CASE Step
    BY <1>1, AdmitBatchInv, QuietStepsInv, WakeInv, CancelRunInv, DrainedInv, ReuseNodeInv,
       StartNodeInv, CompleteNextInv, CompleteDrainedInv DEF Step
<1>2. CASE Trouble
    BY <1>2, QuietStepsInv, CancelAllInv, CompleteRaisesInv, CompleteDrainedRaisesInv DEF Trouble
<1>3. CASE \E n \in Nodes : Begin(n) \/ ThreadReturns(n) \/ Return(n)
    BY <1>3, TasksInv
<1>4. CASE UNCHANGED runVars
    BY <1>4, RunStutterInv
<1> QED
    BY <1>1, <1>2, <1>3, <1>4 DEF RunNext

\* The coordinator's inductive invariant, over that of the core.
THEOREM RunInvariance == RunSpec => []RunInv
<1>1. RunInit => RunInv
    BY RunInitInv, InitInv DEF RunInit
<1>2. Inv /\ Inv' /\ RunInv /\ [RunNext]_runVars => RunInv'
    BY RunNextInv
<1> QED
    BY <1>1, <1>2, CoreInvariant, PTL DEF RunSpec

\* The coordinator's variables, record and tasks stay in their types.
THEOREM RunTypeCorrect == RunSpec => []RunTypeOK
<1>1. RunInv => RunTypeOK
    BY DEF RunInv
<1> QED
    BY <1>1, RunInvariance, PTL

\* The futures of arun and the core agree: every completion it reports is of
\* a running node, and `active' counts futures and nodes still to be visited.
THEOREM FuturesAgree == RunSpec => []SchedulerAgrees
<1>1. ASSUME Inv, RunInv PROVE SchedulerAgrees
    <2>1. ASSUME pc \in Looping PROVE active = Len(batch) + Len(pending)
        <3>1. Cardinality(Entries(batch)) = Len(batch) /\ Entries(batch) \in SUBSET Nodes
            <4>1. batch \in Seq(Nodes) /\ Distinct(batch)
                BY <1>1 DEF RunInv, RunTypeOK, Queues
            <4> QED
                BY <4>1, QueueCounted DEF Entries
        <3>2. Cardinality(Entries(pending)) = Len(pending) /\ Entries(pending) \in SUBSET Nodes
            <4>1. pending \in Seq(Nodes) /\ Distinct(pending)
                BY <1>1 DEF RunInv, RunTypeOK, Queues
            <4> QED
                BY <4>1, QueueCounted DEF Entries
        <3>3. /\ In({"running"}) = Entries(batch) \cup Entries(pending)
              /\ Entries(batch) \cap Entries(pending) = {}
            BY <1>1, <2>1 DEF RunInv, FuturesRun
        <3>4. Cardinality(In({"running"})) = Cardinality(Entries(batch)) + Cardinality(Entries(pending))
            BY <3>1, <3>2, <3>3, NodesCounted
        <3> QED
            BY <1>1, <3>1, <3>2, <3>4 DEF Inv, CountersExact
    <2>2. pc \in {"admitting", "starting", "waiting"} => Entries(done) = {}
        BY <1>1 DEF RunInv, Queues, Entries
    <2> QED
        BY <1>1, <2>1, <2>2 DEF SchedulerAgrees, RunInv, FuturesRun, Looping, Failing
<1> QED
    BY <1>1, CoreInvariant, RunInvariance, PTL

\* No more callables execute at once than max_concurrency allows, while the run
\* drains after a failure or a cancellation too.
THEOREM CapacityKept == RunSpec => []CapacityRespected
<1>1. RunInv => CapacityRespected
    BY DEF RunInv
<1> QED
    BY <1>1, RunInvariance, PTL

\* arun never finds itself with unfinished work and nothing to wait for.
THEOREM AlwaysRunnable == RunSpec => []NoRunnableNodes
<1>1. RunInv => NoRunnableNodes
    BY DEF RunInv
<1> QED
    BY <1>1, RunInvariance, PTL

\* The lease is given up only when nothing executes or ever will, or the
\* process is dead.
THEOREM LeaseKept == RunSpec => []LeaseCoversExecution
<1>1. RunInv => LeaseCoversExecution
    BY DEF RunInv, RunTypeOK, TasksCovered, LeaseCoversExecution, Live, Executing
<1> QED
    BY <1>1, RunInvariance, PTL
-----------------------------------------------------------------------------
(***************************************************************************)
(* The arguments of a task.  What counts as done for the core has a value  *)
(* in outputs, and values are never dropped; a node that runs has all its  *)
(* dependencies done (DependenciesFirst).                                  *)
(***************************************************************************)
ValuesKept == In(Done) \subseteq outputs /\ InputsAvailable

\* The graph is fixed, and only reuse and a settled value make a node done.
LEMMA ValuesKeptByCore ==
    ASSUME Inv, [Next]_vars
    PROVE  /\ graph' = graph
           /\ Admit \/ Cancel \/ UNCHANGED vars => In(Done)' = In(Done)
           /\ \A n \in Nodes : \A outcome \in Done :
                 FinishDone(n, outcome) => In(Done)' \subseteq In(Done) \cup {n}
           /\ \A n \in Nodes : \A outcome \in {"failed", "cancelled"} :
                 FinishLost(n, outcome) => In(Done)' \subseteq In(Done)
<1>1. graph' = graph
    BY DEF Next, vars, Admit, Cancel, Finish, FinishDone, FinishLost
<1>2. Admit \/ Cancel \/ UNCHANGED vars => In(Done)' = In(Done)
    BY AdmittedReady DEF vars, Admit, Cancel, In, Done, Open
<1>3. \A n \in Nodes : \A outcome \in Done :
         FinishDone(n, outcome) => In(Done)' \subseteq In(Done) \cup {n}
    BY DEF FinishDone, In, Done
<1>4. \A n \in Nodes : \A outcome \in {"failed", "cancelled"} :
         FinishLost(n, outcome) => In(Done)' \subseteq In(Done)
    BY DEF FinishLost, In, Done
<1> QED
    BY <1>1, <1>2, <1>3, <1>4

\* complete stores the value in outputs before it tells the core the node is
\* done, so the two agree even if storage raises in between or after.
LEMMA ValuesKeptWhenSettled ==
    ASSUME Inv, NEW n \in Nodes, SettleThenRaise(n), In(Done) \subseteq outputs
    PROVE  In(Done)' \subseteq outputs' /\ outputs \subseteq outputs'
<1>1. CASE UNCHANGED vars /\ outputs' = outputs \cup {n}
    BY <1>1 DEF vars, In
<1>2. CASE FinishDone(n, "succeeded") /\ outputs' = outputs \cup {n}
    <2>1. In(Done)' \subseteq In(Done) \cup {n}
        BY <1>2 DEF FinishDone, In, Done
    <2> QED
        BY <1>2, <2>1
<1>3. CASE FinishLost(n, OutcomeOf(n)) /\ tasks[n] # "ok" /\ outputs' = outputs
    <2>1. OutcomeOf(n) \in {"failed", "cancelled"}
        BY <1>3 DEF OutcomeOf
    <2>2. In(Done)' \subseteq In(Done)
        BY <1>3, <2>1 DEF FinishLost, In, Done
    <2> QED
        BY <1>3, <2>2
<1> QED
    BY <1>1, <1>2, <1>3 DEF SettleThenRaise, Settle

\* No step takes a value away from a node the core takes for done.
LEMMA ValuesKeptNext ==
    ASSUME Inv, RunInv, ValuesKept, [RunNext]_runVars, [Next]_vars
    PROVE  ValuesKept'
<1> USE DEF ValuesKept
<1>1. graph' = graph
    BY ValuesKeptByCore
<1>2. outputs \subseteq outputs' /\ In(Done)' \subseteq outputs'
    <2>1. CASE UNCHANGED outputs /\ (Admit \/ Cancel \/ UNCHANGED vars)
        BY <2>1, ValuesKeptByCore
    <2>2. ASSUME NEW n \in Nodes, SettleThenRaise(n) PROVE outputs \subseteq outputs' /\ In(Done)' \subseteq outputs'
        BY <2>2, ValuesKeptWhenSettled
    <2>3. ASSUME NEW n \in Nodes, ReuseNode(n) PROVE outputs \subseteq outputs' /\ In(Done)' \subseteq outputs'
        <3>1. "reused" \in Done /\ FinishDone(n, "reused") /\ outputs' = outputs \cup {n}
            BY <2>3 DEF ReuseNode, Done
        <3> QED
            BY <3>1, ValuesKeptByCore
    <2>4. CASE AdmitBatch \/ BatchStarted \/ Wake \/ EndNormally \/ CancelRun \/ Drained \/ EndInterrupted \/ Close
        BY <2>1, <2>4 DEF AdmitBatch, BatchStarted, Wake, EndNormally, CancelRun, Drained, EndInterrupted, Close, worldVars
    <2>5. CASE Interrupt \/ CancelAll \/ Crash \/ Recover \/ EndRaises \/ UNCHANGED runVars
        BY <2>1, <2>5 DEF Interrupt, CancelAll, Crash, Recover, EndRaises, runVars, worldVars
    <2>6. ASSUME NEW n \in Nodes, StartNode(n) \/ Begin(n) \/ ThreadReturns(n) \/ Return(n)
          PROVE  outputs \subseteq outputs' /\ In(Done)' \subseteq outputs'
        BY <2>1, <2>6 DEF StartNode, Begin, ThreadReturns, Return
    <2>8. CASE StartRaises
        <3>1. UNCHANGED vars /\ outputs \subseteq outputs'
            BY <2>8 DEF StartRaises
        <3> QED
            BY <3>1, ValuesKeptByCore
    <2>7. ASSUME NEW n \in Nodes,
                 CompleteNext(n) \/ CompleteDrained(n) \/ CompleteRaises(n) \/ CompleteDrainedRaises(n)
          PROVE  SettleThenRaise(n)
        BY <2>7 DEF CompleteNext, CompleteDrained, CompleteRaises, CompleteDrainedRaises, Complete,
                    SettleThenRaise
    <2> QED
        BY <2>2, <2>3, <2>4, <2>5, <2>6, <2>7, <2>8 DEF RunNext, Step, Trouble
<1>3. ASSUME NEW m \in Nodes, tasks'[m] # "none" PROVE graph.dependencies[m] \subseteq outputs
    <2>1. CASE tasks[m] # "none"
        BY <2>1 DEF InputsAvailable
    <2>2. CASE tasks[m] = "none"
        <3>1. StartNode(m)
            BY <1>3, <2>2 DEF RunInv, RunTypeOK, RunNext, Step, Trouble, AdmitBatch, BatchStarted, Wake,
               EndNormally, CancelRun, Drained, EndInterrupted, Close, Interrupt, CancelAll, Crash, Recover,
               StartRaises, EndRaises, runVars, worldVars, Raise, StartNode, Begin, ThreadReturns, Return,
               ReuseNode,
               CompleteNext, CompleteDrained, CompleteRaises, CompleteDrainedRaises
        <3>2. m \in In({"running"})
            BY <3>1, TailOfQueue DEF StartNode, Visiting, RunInv, RunTypeOK, Queues, FuturesRun, Looping
        <3>3. Missing(m) = {}
            BY <3>2 DEF Inv, DependenciesFirst, In
        <3>4. graph.dependencies[m] \subseteq In(Done)
            BY <3>3 DEF Missing, In, Inv, TypeOK, IsTopology
        <3> QED
            BY <3>4
    <2> QED
        BY <2>1, <2>2
<1> QED
    BY <1>1, <1>2, <1>3 DEF InputsAvailable

\* When a task is created every value its arguments are taken from is there,
\* computed in this run or reused.
THEOREM ArgumentsAvailable == RunSpec => []InputsAvailable
<1>1. RunInit => ValuesKept
    BY DEF RunInit, Init, New, InitialStates, ValuesKept, InputsAvailable, In, Done
<1>2. Inv /\ RunInv /\ ValuesKept /\ [RunNext]_runVars /\ [Next]_vars => ValuesKept'
    BY ValuesKeptNext
<1>3. ValuesKept => InputsAvailable
    BY DEF ValuesKept
<1> QED
    BY <1>1, <1>2, <1>3, CoreInvariant, RunInvariance, DrivesCore, PTL DEF RunSpec, Spec

-----------------------------------------------------------------------------
\* Where nothing is left to record.
Over == {"closing", "closed", "crashed"}

\* A state of the core, a task and a row that go together.
Agreed(state, task, row) ==
    \/ state = "unselected" /\ task = "none" /\ row = "unselected"
    \/ state \in {"pending", "ready", "blocked", "cancelled"} /\ task = "none" /\ row = "pending"
    \/ state = "running" /\ task = "none" /\ row = "pending"
    \/ state = "running" /\ task \in TaskState \ {"none"} /\ row = "running"
    \/ state = "reused" /\ task = "none" /\ row = "reused"
    \/ state = "succeeded" /\ task = "ok" /\ row \in {"running", "succeeded"}
    \/ state = "failed" /\ task = "raised" /\ row \in {"running", "failed"}
    \/ state = "cancelled" /\ task \in {"cancelled", "dropped"} /\ row \in {"running", "cancelled"}

RowsAgree ==
    record.status = "running" => \A n \in Nodes : Agreed(states[n], tasks[n], record.nodes[n])

EndedStays ==
    record.status # "running" => pc \in Over /\ HonestRecord

\* A node of the batch has no task yet, and one with a future has.
TasksMade ==
    /\ pc = "starting" => \A n \in Entries(batch) : tasks[n] = "none"
    /\ \A n \in Entries(pending) \cup Entries(done) : tasks[n] # "none"

\* Once the core is cancelled it has nothing to admit, and no async callable
\* is left that has not begun.
Stopped ==
    /\ pc \in {"draining", "drained"} => In(Open) = {}
    /\ pc = "draining" => \A n \in Async : tasks[n] # "scheduled"

\* A blocking task that has not begun has no thread, and one that ended with a
\* value or an exception has that of its thread; a cancelled one may have any.
Joined ==
    \A n \in Nodes \ Async :
        /\ tasks[n] \in {"none", "scheduled", "dropped"} => threads[n] = "none"
        /\ tasks[n] \in {"ok", "raised"} => threads[n] = tasks[n]

RecordInv == RowsAgree /\ EndedStays /\ EndedRecord /\ TasksMade /\ Stopped /\ Joined
-----------------------------------------------------------------------------
\* What each transaction leaves in the columns.
LEMMA RecordFields ==
    ASSUME record \in Records
    PROVE  /\ record.nodes \in [Nodes -> RowState] /\ record.started \in [Nodes -> BOOLEAN]
           /\ \A n \in Nodes :
                 /\ MarkedRunning(record, n).status = record.status
                 /\ MarkedRunning(record, n).nodes = [record.nodes EXCEPT ![n] = "running"]
                 /\ MarkedRunning(record, n).started = [record.started EXCEPT ![n] = TRUE]
           /\ \A n \in Nodes : \A o :
                 /\ MarkedFinished(record, n, o).status = record.status
                 /\ MarkedFinished(record, n, o).nodes = [record.nodes EXCEPT ![n] = o]
                 /\ MarkedFinished(record, n, o).started = record.started
           /\ \A rows, s :
                 /\ Ended(record, rows, s).status = s
                 /\ Ended(record, rows, s).nodes = rows
                 /\ Ended(record, rows, s).started = record.started
           /\ record.status = "running" => Recovered(record).status = "interrupted"
           /\ Recovered(record).started = record.started
           /\ \A n \in Nodes : Recovered(record).nodes[n] =
                 IF record.nodes[n] = "running" THEN "unknown"
                 ELSE IF record.nodes[n] \in {"pending", "ready"} THEN "cancelled"
                 ELSE record.nodes[n]
<1>1. record.nodes \in [Nodes -> RowState] /\ record.started \in [Nodes -> BOOLEAN]
    BY DEF Records
<1>2. ASSUME NEW n \in Nodes
      PROVE  /\ MarkedRunning(record, n).status = record.status
             /\ MarkedRunning(record, n).nodes = [record.nodes EXCEPT ![n] = "running"]
             /\ MarkedRunning(record, n).started = [record.started EXCEPT ![n] = TRUE]
    BY DEF MarkedRunning, Records
<1>3. ASSUME NEW n \in Nodes, NEW o
      PROVE  /\ MarkedFinished(record, n, o).status = record.status
             /\ MarkedFinished(record, n, o).nodes = [record.nodes EXCEPT ![n] = o]
             /\ MarkedFinished(record, n, o).started = record.started
    BY DEF MarkedFinished, Records
<1>4. ASSUME NEW rows, NEW s
      PROVE  /\ Ended(record, rows, s).status = s
             /\ Ended(record, rows, s).nodes = rows
             /\ Ended(record, rows, s).started = record.started
    BY DEF Ended, Records
<1>5. /\ record.status = "running" => Recovered(record).status = "interrupted"
      /\ Recovered(record).started = record.started
      /\ \A n \in Nodes : Recovered(record).nodes[n] =
             IF record.nodes[n] = "running" THEN "unknown"
             ELSE IF record.nodes[n] \in {"pending", "ready"} THEN "cancelled"
             ELSE record.nodes[n]
    BY DEF Recovered, Records
<1> QED
    BY <1>1, <1>2, <1>3, <1>4, <1>5

\* What finish does to the states: the node ends, and nodes that waited are
\* released or blocked.
LEMMA FinishMoves ==
    ASSUME Inv, NEW n \in Nodes, NEW outcome,
           \/ outcome \in Done /\ FinishDone(n, outcome)
           \/ outcome \in {"failed", "cancelled"} /\ FinishLost(n, outcome)
    PROVE  /\ states[n] = "running" /\ states'[n] = outcome
           /\ \A m \in Nodes \ {n} :
                 \/ states'[m] = states[m]
                 \/ states[m] = "pending" /\ states'[m] \in {"ready", "blocked"}
<1>1. CASE outcome \in Done /\ FinishDone(n, outcome)
    BY <1>1 DEF FinishDone, Released, Waiting
<1>2. CASE outcome \in {"failed", "cancelled"} /\ FinishLost(n, outcome)
    <2>1. states[n] = "running" /\ \A m \in Blocked(n) : states[m] = "pending"
        BY <1>2, BlockedProperties DEF FinishLost
    <2> QED
        BY <1>2, <2>1 DEF FinishLost
<1> QED
    BY <1>1, <1>2

LEMMA SettleMoves ==
    ASSUME Inv, NEW n \in Nodes, Settle(n)
    PROVE  /\ states[n] = "running" /\ states'[n] = OutcomeOf(n)
           /\ \A m \in Nodes \ {n} :
                 \/ states'[m] = states[m]
                 \/ states[m] = "pending" /\ states'[m] \in {"ready", "blocked"}
<1>1. CASE tasks[n] = "ok" /\ FinishDone(n, "succeeded")
    <2>1. OutcomeOf(n) = "succeeded" /\ "succeeded" \in Done
        BY <1>1 DEF OutcomeOf, Done
    <2> QED
        BY <1>1, <2>1, FinishMoves
<1>2. CASE tasks[n] # "ok" /\ FinishLost(n, OutcomeOf(n))
    <2>1. OutcomeOf(n) \in {"failed", "cancelled"}
        BY <1>2 DEF OutcomeOf
    <2> QED
        BY <1>2, <2>1, FinishMoves
<1> QED
    BY <1>1, <1>2 DEF Settle

\* Ended rows are final while the process lives, and a run that is not ended
\* is the only one with rows to keep up.
LEMMA NotEnded ==
    ASSUME EndedStays, pc \notin Over
    PROVE  record.status = "running"
BY DEF EndedStays

\* One row written while the run is not ended: the others and the status stay.
LEMMA RowWritten ==
    ASSUME RunInv, RecordInv, pc \notin Over, NEW n \in Nodes, NEW row,
           \/ record' = MarkedFinished(record, n, row)
           \/ row = "running" /\ record' = MarkedRunning(record, n)
    PROVE  /\ record.status = "running" /\ record'.status = "running"
           /\ record'.nodes[n] = row /\ \A m \in Nodes \ {n} : record'.nodes[m] = record.nodes[m]
<1>1. record \in Records /\ record.status = "running"
    BY NotEnded DEF RecordInv, RunInv, RunTypeOK
<1>2. /\ record'.status = record.status
      /\ record'.nodes = [record.nodes EXCEPT ![n] = row]
      /\ record.nodes \in [Nodes -> RowState]
    <2>1. CASE record' = MarkedFinished(record, n, row)
        BY <1>1, <2>1, RecordFields
    <2>2. CASE row = "running" /\ record' = MarkedRunning(record, n)
        BY <1>1, <2>2, RecordFields
    <2> QED
        BY <2>1, <2>2
<1>3. /\ [record.nodes EXCEPT ![n] = row][n] = row
      /\ \A m \in Nodes \ {n} : [record.nodes EXCEPT ![n] = row][m] = record.nodes[m]
    BY <1>2
<1> QED
    BY <1>1, <1>2, <1>3

LEMMA StillRunning ==
    ASSUME record'.status = "running"
    PROVE  EndedStays' /\ EndedRecord'
BY DEF EndedStays, EndedRecord

-----------------------------------------------------------------------------
\* Where the core, the tasks and the rows stay as they are.
LEMMA QuietRecord ==
    ASSUME RunInv, RecordInv, UNCHANGED <<states, tasks, threads, record>>,
           pc \in Over => pc' \in Over,
           pc' = "starting" => pc = "starting" /\ batch' = batch,
           pc' = "draining" => pc = "draining",
           pc' = "drained" => pc \in {"draining", "drained"},
           Entries(pending') \cup Entries(done') \subseteq Entries(pending) \cup Entries(done)
    PROVE  RecordInv'
<1>1. RowsAgree' /\ EndedRecord'
    BY DEF RecordInv, RowsAgree, EndedRecord
<1>2. EndedStays'
    <2>1. HonestRecord => HonestRecord'
        BY DEF HonestRecord, Consistent, Callable
    <2> QED
        BY <2>1 DEF RecordInv, EndedStays, Over
<1>3. TasksMade'
    <2>1. pc' = "starting" => \A n \in Entries(batch') : tasks'[n] = "none"
        BY DEF RecordInv, TasksMade
    <2>2. \A n \in Entries(pending') \cup Entries(done') : tasks'[n] # "none"
        BY DEF RecordInv, TasksMade
    <2> QED
        BY <2>1, <2>2 DEF TasksMade, Entries
<1>4. Stopped' /\ Joined'
    BY DEF RecordInv, Stopped, Joined, In
<1> QED
    BY <1>1, <1>2, <1>3, <1>4 DEF RecordInv

LEMMA QuietStepsRecord ==
    ASSUME RunInv, RecordInv,
           \/ BatchStarted \/ Wake \/ Interrupt \/ Drained \/ Close \/ Crash
           \/ StartRaises \/ EndRaises \/ UNCHANGED runVars
    PROVE  RecordInv'
<1>1. UNCHANGED <<states, tasks, threads, record>>
    BY DEF BatchStarted, Wake, Interrupt, Drained, Close, Crash, StartRaises, EndRaises, Raise,
           runVars, vars, worldVars
<1>2. /\ pc \in Over => pc' \in Over
      /\ pc' = "starting" => pc = "starting" /\ batch' = batch
      /\ pc' = "draining" => pc = "draining"
      /\ pc' = "drained" => pc \in {"draining", "drained"}
    BY DEF BatchStarted, Wake, Interrupt, Drained, Close, Crash, StartRaises, EndRaises, Raise,
           runVars, loopVars, Over
<1>3. /\ pending' = pending
      /\ Entries(done') \subseteq Entries(pending) \cup Entries(done)
    <2>1. CASE Wake
        <3> DEFINE returned == {n \in Entries(pending) : tasks[n] \in Finished}
        <3>1. returned \in SUBSET Nodes /\ done' = Listed(returned, Index) /\ pending' = pending
            BY <2>1 DEF Wake, RunInv, RunTypeOK, Entries
        <3>2. Entries(done') = returned
            <4> HIDE DEF returned
            <4> QED
                BY <3>1, IndexIsKey, QueueListed
        <3> QED
            BY <3>1, <3>2
    <2>2. CASE Drained
        BY <2>2 DEF Drained
    <2>3. CASE ~ Wake /\ ~ Drained
        BY <2>3 DEF BatchStarted, Interrupt, Close, Crash, StartRaises, EndRaises, runVars, loopVars
    <2> QED
        BY <2>1, <2>2, <2>3
<1> QED
    BY <1>1, <1>2, <1>3, QuietRecord

\* A task that begins or returns belongs to a running node; when nothing is
\* live any more, none does.
LEMMA TaskRecord ==
    ASSUME RunInv, RecordInv, NEW n \in Nodes, Begin(n) \/ Return(n)
    PROVE  RecordInv'
<1>1. /\ UNCHANGED <<states, record, pc, batch, pending, done>>
      /\ tasks \in [Nodes -> TaskState] /\ threads \in [Nodes -> ThreadState]
      /\ tasks[n] \in {"scheduled", "executing"}
      /\ \E s \in TaskState \ {"none", "scheduled"} : tasks' = [tasks EXCEPT ![n] = s]
      /\ pc \notin Over
    BY DEF Begin, Return, Returned, Awaiting, Over, RunInv, RunTypeOK, TaskState, Finished, vars, loopVars
<1>2. record.status = "running"
    BY <1>1, NotEnded DEF RecordInv
<1>3. /\ tasks'[n] \in TaskState \ {"none", "scheduled"}
      /\ \A m \in Nodes \ {n} : tasks'[m] = tasks[m]
    BY <1>1
<1>4. RowsAgree'
    BY <1>1, <1>2, <1>3 DEF RecordInv, RowsAgree, Agreed
<1>5. TasksMade'
    <2>1. \A m \in Nodes : tasks'[m] = "none" <=> tasks[m] = "none"
        BY <1>1, <1>3
    <2>2. Entries(batch) \cup Entries(pending) \cup Entries(done) \subseteq Nodes
        BY DEF RunInv, RunTypeOK, Entries
    <2> QED
        BY <1>1, <2>1, <2>2 DEF RecordInv, TasksMade, Entries
<1>6. Stopped'
    <2>1. \A m \in Nodes : tasks'[m] = "scheduled" => tasks[m] = "scheduled"
        BY <1>3
    <2> QED
        BY <1>1, <2>1, CoordinatorAssumption DEF RecordInv, Stopped, In
<1>7. Joined'
    <2>1. CASE Begin(n)
        <3>1. tasks'[n] = "executing" /\ \A m \in Nodes \ {n} : threads'[m] = threads[m]
            BY <1>1, <2>1 DEF Begin
        <3> QED
            BY <1>3, <3>1 DEF RecordInv, Joined
    <2>2. CASE Return(n)
        <3>1. threads' = threads /\ (n \notin Async => tasks'[n] = threads[n]) /\ tasks'[n] \in Returned
            BY <1>1, <2>2 DEF Return
        <3> QED
            BY <1>3, <3>1 DEF RecordInv, Joined, Returned
    <2> QED
        BY <2>1, <2>2
<1> QED
    BY <1>1, <1>2, <1>4, <1>5, <1>6, <1>7, StillRunning DEF RecordInv

\* A thread that returns when the run is recorded as ended was left behind by a
\* cancelled task, or is of a node recorded unknown.
LEMMA ThreadRecord ==
    ASSUME RunInv, RecordInv, NEW n \in Nodes, ThreadReturns(n)
    PROVE  RecordInv'
<1>1. /\ UNCHANGED <<states, tasks, record, pc, batch, pending, done>>
      /\ threads \in [Nodes -> ThreadState] /\ threads[n] = "executing"
      /\ \A m \in Nodes \ {n} : threads'[m] = threads[m]
    BY DEF ThreadReturns, RunInv, RunTypeOK, vars, loopVars
<1>2. n \notin Async
    BY <1>1 DEF RunInv, TasksCovered
<1>3. tasks[n] \notin {"none", "scheduled", "dropped", "ok", "raised"}
    BY <1>1, <1>2 DEF RecordInv, Joined
<1>4. Joined'
    BY <1>1, <1>3 DEF RecordInv, Joined
<1>5. HonestRecord => HonestRecord'
    <2>1. ASSUME NEW m \in Nodes, Consistent(record.nodes[m], m)
          PROVE  Consistent(record.nodes[m], m)'
        <3>1. CASE m = n
            BY <1>1, <1>3, <2>1, <3>1 DEF Consistent
        <3>2. CASE m # n
            BY <1>1, <2>1, <3>2 DEF Consistent, Callable
        <3> QED
            BY <3>1, <3>2
    <2> QED
        BY <1>1, <2>1 DEF HonestRecord
<1>6. EndedStays'
    BY <1>1, <1>5 DEF RecordInv, EndedStays
<1>7. RowsAgree' /\ EndedRecord' /\ TasksMade' /\ Stopped'
    BY <1>1 DEF RecordInv, RowsAgree, EndedRecord, TasksMade, Stopped, In, Entries
<1> QED
    BY <1>4, <1>6, <1>7 DEF RecordInv

\* A task the loop cancels belongs to a running node, whose row stays running.
LEMMA CancelAllRecord ==
    ASSUME RunInv, RecordInv, CancelAll
    PROVE  RecordInv'
<1>1. /\ pc \in {"waiting", "draining"}
      /\ pc' = IF pc = "waiting" THEN "failing" ELSE pc
      /\ \A n \in Nodes : tasks'[n] = IF tasks[n] = "scheduled" THEN "dropped"
                                      ELSE IF tasks[n] = "executing" /\ n \notin Async THEN "cancelled"
                                      ELSE tasks[n]
      /\ UNCHANGED <<states, batch, pending, done, threads, record>>
    BY DEF CancelAll, Awaiting, vars
<1>2. record.status = "running" /\ \A m \in Nodes : Agreed(states[m], tasks[m], record.nodes[m])
    BY <1>1, NotEnded DEF RecordInv, RowsAgree, Over
<1>3. ASSUME NEW m \in Nodes PROVE Agreed(states[m], tasks'[m], record.nodes[m])
    BY <1>1, <1>2 DEF Agreed, TaskState, Finished
<1>4. RowsAgree'
    BY <1>1, <1>3 DEF RowsAgree
<1>5. TasksMade'
    <2>1. Entries(pending) \cup Entries(done) \subseteq Nodes
        BY DEF RunInv, RunTypeOK, Entries
    <2>2. \A m \in Entries(pending) \cup Entries(done) : tasks'[m] # "none"
        BY <1>1, <2>1 DEF RecordInv, TasksMade
    <2> QED
        BY <1>1, <2>2 DEF TasksMade, Entries
<1>6. Stopped'
    BY <1>1, CoordinatorAssumption DEF RecordInv, Stopped, In
<1>7. Joined'
    BY <1>1 DEF RecordInv, Joined
<1> QED
    BY <1>1, <1>2, <1>4, <1>5, <1>6, <1>7, StillRunning DEF RecordInv
-----------------------------------------------------------------------------
\* The admission loop.
LEMMA AdmitBatchRecord ==
    ASSUME Inv, RunInv, RecordInv, AdmitBatch
    PROVE  RecordInv'
<1>1. /\ pc = "admitting" /\ pc' = "starting" /\ batch' = Listed(Admitted, Place)
      /\ UNCHANGED <<pending, done, tasks, threads, record>>
    BY DEF AdmitBatch, worldVars
<1>2. record.status = "running"
    BY <1>1, NotEnded DEF RecordInv, Over
<1>3. Admitted \in SUBSET Nodes /\ \A n \in Admitted : states[n] = "ready"
    BY AdmittedReady
<1>4. \A n \in Nodes : states'[n] = IF n \in Admitted THEN "running" ELSE states[n]
    <2>1. CASE Admit
        BY <2>1 DEF Admit
    <2>2. CASE Admitted = {} /\ UNCHANGED vars
        BY <2>2 DEF vars
    <2> QED
        BY <2>1, <2>2 DEF AdmitBatch
<1>5. \A n \in Nodes : Agreed(states[n], tasks[n], record.nodes[n])
    BY <1>2 DEF RecordInv, RowsAgree
<1>6. RowsAgree'
    BY <1>1, <1>3, <1>4, <1>5 DEF RowsAgree, Agreed
<1>7. Entries(batch') = Admitted
    BY <1>1, <1>3, PlaceIsKey, QueueListed
<1>8. TasksMade'
    <2>1. \A n \in Entries(batch') : tasks[n] = "none"
        BY <1>3, <1>5, <1>7 DEF Agreed
    <2> QED
        BY <1>1, <2>1 DEF RecordInv, TasksMade, Entries
<1>9. Stopped' /\ Joined'
    BY <1>1 DEF RecordInv, Stopped, Joined
<1> QED
    BY <1>1, <1>2, <1>6, <1>8, <1>9, StillRunning DEF RecordInv

\* A reused node: its row and its state say so together.
LEMMA ReuseNodeRecord ==
    ASSUME Inv, RunInv, RecordInv, NEW n \in Nodes, ReuseNode(n)
    PROVE  RecordInv'
<1>1. /\ pc = "starting" /\ pc' = pc /\ batch # <<>> /\ n = Head(batch) /\ batch' = Tail(batch)
      /\ record' = MarkedFinished(record, n, "reused")
      /\ FinishDone(n, "reused")
      /\ UNCHANGED <<pending, done, tasks, threads>>
    BY DEF ReuseNode, Visiting
<1>2. /\ record.status = "running" /\ record'.status = "running"
      /\ record'.nodes[n] = "reused" /\ \A m \in Nodes \ {n} : record'.nodes[m] = record.nodes[m]
    BY <1>1, RowWritten DEF Over
<1>3. n \in Entries(batch) /\ Entries(batch') \subseteq Entries(batch)
    BY <1>1, TailOfQueue DEF RunInv, RunTypeOK, Queues
<1>4. /\ states[n] = "running" /\ states'[n] = "reused"
      /\ \A m \in Nodes \ {n} : \/ states'[m] = states[m]
                                \/ states[m] = "pending" /\ states'[m] \in {"ready", "blocked"}
    <2>1. "reused" \in Done
        BY DEF Done
    <2> QED
        BY <1>1, <2>1, FinishMoves
<1>5. tasks[n] = "none"
    BY <1>1, <1>3 DEF RecordInv, TasksMade
<1>6. RowsAgree'
    BY <1>1, <1>2, <1>4, <1>5 DEF RecordInv, RowsAgree, Agreed
<1>7. TasksMade'
    BY <1>1, <1>3 DEF RecordInv, TasksMade, Entries
<1>8. Stopped' /\ Joined'
    BY <1>1 DEF RecordInv, Stopped, Joined
<1> QED
    BY <1>2, <1>6, <1>7, <1>8, StillRunning DEF RecordInv

\* A started node: its row says running before it has a task.
LEMMA StartNodeRecord ==
    ASSUME Inv, RunInv, RecordInv, NEW n \in Nodes, StartNode(n)
    PROVE  RecordInv'
<1>1. /\ pc = "starting" /\ pc' = pc /\ batch # <<>> /\ n = Head(batch) /\ batch' = Tail(batch)
      /\ record' = MarkedRunning(record, n)
      /\ tasks' = [tasks EXCEPT ![n] = "scheduled"]
      /\ pending' = Append(pending, n)
      /\ UNCHANGED <<states, done, threads>>
    BY DEF StartNode, Visiting, vars
<1>2. /\ record.status = "running" /\ record'.status = "running"
      /\ record'.nodes[n] = "running" /\ \A m \in Nodes \ {n} : record'.nodes[m] = record.nodes[m]
    BY <1>1, RowWritten DEF Over
<1>3. /\ n \in Entries(batch) /\ Entries(batch') = Entries(batch) \ {n}
    BY <1>1, TailOfQueue DEF RunInv, RunTypeOK, Queues
<1>4. tasks'[n] = "scheduled" /\ \A m \in Nodes \ {n} : tasks'[m] = tasks[m]
    BY <1>1 DEF RunInv, RunTypeOK
<1>5. states[n] = "running" /\ n \notin Entries(pending)
    BY <1>1, <1>3 DEF RunInv, FuturesRun, Looping, In
<1>6. RowsAgree'
    BY <1>1, <1>2, <1>4, <1>5 DEF RecordInv, RowsAgree, Agreed, TaskState
<1>7. TasksMade'
    <2>1. Entries(pending') = Entries(pending) \cup {n}
        BY <1>1, <1>5, QueueAppended DEF RunInv, RunTypeOK, Queues
    <2>2. Entries(batch) \cup Entries(pending) \cup Entries(done) \subseteq Nodes
        BY DEF RunInv, RunTypeOK, Entries
    <2>3. \A m \in Entries(batch') : tasks'[m] = "none"
        BY <1>1, <1>3, <1>4, <2>2 DEF RecordInv, TasksMade
    <2>4. \A m \in Entries(pending') \cup Entries(done) : tasks'[m] # "none"
        BY <1>4, <2>1, <2>2 DEF RecordInv, TasksMade
    <2> QED
        BY <1>1, <2>3, <2>4 DEF TasksMade, Entries
<1>8. Stopped'
    BY <1>1 DEF Stopped
<1>9. Joined'
    <2>1. tasks[n] = "none"
        BY <1>1, <1>3 DEF RecordInv, TasksMade
    <2> QED
        BY <1>1, <1>4, <2>1 DEF RecordInv, Joined
<1> QED
    BY <1>2, <1>6, <1>7, <1>8, <1>9, StillRunning DEF RecordInv

-----------------------------------------------------------------------------
\* A future that is completed is the end of a task: the row of its node still
\* says running, and is given the outcome the core is told of.
LEMMA SettleRecord ==
    ASSUME Inv, RunInv, RecordInv, NEW n \in Nodes, n \in Entries(done),
           pc \in {"completing", "drained"}, Settle(n), tasks' = tasks,
           record' \in {record, MarkedFinished(record, n, OutcomeOf(n))}
    PROVE  /\ RowsAgree' /\ record'.status = "running"
           /\ record.nodes[n] = "running" /\ \A m \in Nodes \ {n} : record'.nodes[m] = record.nodes[m]
           /\ In(Open) = {} => In(Open)' = {}
<1>1. record.status = "running" /\ \A m \in Nodes : Agreed(states[m], tasks[m], record.nodes[m])
    BY NotEnded DEF RecordInv, RowsAgree, Over
<1>2. /\ states[n] = "running" /\ states'[n] = OutcomeOf(n)
      /\ \A m \in Nodes \ {n} : \/ states'[m] = states[m]
                                \/ states[m] = "pending" /\ states'[m] \in {"ready", "blocked"}
    BY SettleMoves
<1>3. /\ tasks[n] \in Finished
      /\ OutcomeOf(n) \in {"succeeded", "failed", "cancelled"}
    <2>1. tasks[n] # "none" /\ tasks[n] \in TaskState
        BY DEF RecordInv, TasksMade, RunInv, RunTypeOK
    <2>2. tasks[n] \notin {"scheduled", "executing"}
        BY DEF RunInv, TasksCovered, Live
    <2> QED
        BY <2>1, <2>2 DEF TaskState, OutcomeOf
<1>4. record.nodes[n] = "running"
    BY <1>1, <1>2, <1>3 DEF Agreed, Finished
<1>5. /\ record'.status = "running"
      /\ record'.nodes[n] \in {"running", OutcomeOf(n)}
      /\ \A m \in Nodes \ {n} : record'.nodes[m] = record.nodes[m]
    BY <1>1, <1>4, RowWritten DEF Over
<1>6. Agreed(OutcomeOf(n), tasks[n], record'.nodes[n])
    BY <1>3, <1>5 DEF Agreed, OutcomeOf, Finished
<1>7. ASSUME NEW m \in Nodes \ {n}
      PROVE  Agreed(states'[m], tasks[m], record'.nodes[m])
    BY <1>1, <1>2, <1>5 DEF Agreed
<1>8. RowsAgree'
    BY <1>2, <1>6, <1>7 DEF RowsAgree
<1>9. In(Open) = {} => In(Open)' = {}
    BY <1>2, <1>3 DEF In, Open
<1> QED
    BY <1>4, <1>5, <1>8, <1>9

LEMMA CompleteRecord ==
    ASSUME Inv, RunInv, RecordInv, NEW n \in Nodes, CompleteNext(n) \/ CompleteDrained(n)
    PROVE  RecordInv'
<1>1. /\ pc \in {"completing", "drained"} /\ done # <<>> /\ n = Head(done) /\ done' = Tail(done)
      /\ pc' \in {"completing", "admitting", "drained"} /\ (pc' = "drained" => pc = "drained")
      /\ Settle(n) /\ record' = MarkedFinished(record, n, OutcomeOf(n))
      /\ UNCHANGED <<tasks, threads>>
    BY DEF CompleteNext, CompleteDrained, Completing, Complete
<1>2. n \in Entries(done) /\ Entries(done') \subseteq Entries(done)
    BY <1>1, TailOfQueue DEF RunInv, RunTypeOK, Queues
<1>3. /\ RowsAgree' /\ record'.status = "running"
      /\ In(Open) = {} => In(Open)' = {}
    BY <1>1, <1>2, SettleRecord
<1>4. Entries(pending') \subseteq Entries(pending)
    <2>1. CASE CompleteNext(n)
        BY <2>1, FuturePopped DEF CompleteNext, RunInv, RunTypeOK, Queues
    <2>2. CASE CompleteDrained(n)
        BY <2>2 DEF CompleteDrained
    <2> QED
        BY <2>1, <2>2
<1>5. TasksMade'
    BY <1>1, <1>2, <1>4 DEF RecordInv, TasksMade, Entries
<1>6. Stopped' /\ Joined'
    BY <1>1, <1>3 DEF RecordInv, Stopped, Joined
<1> QED
    BY <1>3, <1>5, <1>6, StillRunning DEF RecordInv

\* Storage raises in complete: the row is left running, whether the core has
\* been told or not.
LEMMA RaisesRecord ==
    ASSUME Inv, RunInv, RecordInv, NEW n \in Nodes, CompleteRaises(n) \/ CompleteDrainedRaises(n)
    PROVE  RecordInv'
<1>1. /\ pc \in {"completing", "drained"} /\ done # <<>> /\ n = Head(done)
      /\ pc' \in {"failing", "closing"}
      /\ SettleThenRaise(n) /\ UNCHANGED <<record, tasks, threads>>
    BY DEF CompleteRaises, CompleteDrainedRaises, Completing, Raise
<1>2. n \in Entries(done)
    BY <1>1, TailOfQueue DEF RunInv, RunTypeOK, Queues
<1>3. RowsAgree' /\ record'.status = "running"
    <2>1. CASE UNCHANGED vars
        BY <1>1, <2>1, NotEnded DEF RecordInv, RowsAgree, Over, vars
    <2>2. CASE Settle(n)
        BY <1>1, <1>2, <2>2, SettleRecord
    <2> QED
        BY <1>1, <2>1, <2>2 DEF SettleThenRaise
<1>4. Entries(pending') \subseteq Entries(pending) /\ Entries(done') \subseteq Entries(done)
    <2>1. CASE CompleteRaises(n)
        <3>1. Entries(pending') \subseteq Entries(pending)
            BY <2>1, FuturePopped DEF CompleteRaises, RunInv, RunTypeOK, Queues
        <3>2. done' = <<>>
            BY <2>1 DEF CompleteRaises
        <3> QED
            BY <3>1, <3>2 DEF Entries
    <2>2. CASE CompleteDrainedRaises(n)
        BY <2>2 DEF CompleteDrainedRaises
    <2> QED
        BY <2>1, <2>2
<1>5. TasksMade'
    BY <1>1, <1>4 DEF RecordInv, TasksMade, Entries
<1>6. Stopped' /\ Joined'
    BY <1>1 DEF RecordInv, Stopped, Joined
<1> QED
    BY <1>3, <1>5, <1>6, StillRunning DEF RecordInv

\* Cancelling the core and the futures that have not begun.
LEMMA CancelRecord ==
    ASSUME Inv, RunInv, RecordInv, CancelRun
    PROVE  RecordInv'
<1>1. /\ pc = "failing" /\ pc' = "draining" /\ Cancel
      /\ tasks' = [n \in Nodes |-> IF n \in CancelledFutures /\ tasks[n] = "scheduled"
                                   THEN "dropped" ELSE tasks[n]]
      /\ UNCHANGED <<batch, pending, done, threads, record>>
    BY DEF CancelRun
<1>2. record.status = "running" /\ \A m \in Nodes : Agreed(states[m], tasks[m], record.nodes[m])
    BY <1>1, NotEnded DEF RecordInv, RowsAgree, Over
<1>3. \A m \in Nodes : /\ states'[m] = IF states[m] \in Open THEN "cancelled" ELSE states[m]
                       /\ tasks'[m] = IF m \in CancelledFutures /\ tasks[m] = "scheduled"
                                      THEN "dropped" ELSE tasks[m]
    BY <1>1 DEF Cancel
<1>4. ASSUME NEW m \in Nodes
      PROVE  Agreed(states'[m], tasks'[m], record.nodes[m])
    BY <1>2, <1>3 DEF Agreed, Open, TaskState, Finished
<1>5. RowsAgree'
    BY <1>1, <1>4 DEF RowsAgree
<1>6. TasksMade'
    <2>1. Entries(pending) \cup Entries(done) \subseteq Nodes
        BY DEF RunInv, RunTypeOK, Entries
    <2>2. \A m \in Entries(pending) \cup Entries(done) : tasks'[m] # "none"
        BY <1>3, <2>1 DEF RecordInv, TasksMade
    <2> QED
        BY <1>1, <2>2 DEF TasksMade, Entries
<1>7. Stopped'
    <2>1. In(Open)' = {}
        BY <1>3 DEF In, Open
    <2>2. ASSUME NEW m \in Async, tasks[m] = "scheduled" PROVE m \in CancelledFutures
        BY <1>1, <2>2, CoordinatorAssumption DEF CancelledFutures, RunInv, TasksCovered, Live, Failing
    <2>3. \A m \in Async : tasks'[m] # "scheduled"
        BY <1>3, <2>2, CoordinatorAssumption
    <2> QED
        BY <2>1, <2>3 DEF Stopped
<1>8. Joined'
    BY <1>1, <1>3 DEF RecordInv, Joined
<1> QED
    BY <1>1, <1>2, <1>5, <1>6, <1>7, <1>8, StillRunning DEF RecordInv
-----------------------------------------------------------------------------
\* A blocked node has a failed or a cancelled one above it: the first blocked
\* node in the topological order cannot have been blocked by a blocked one.
LEMMA BlockedHasCause ==
    ASSUME Inv, NEW b \in Nodes, states[b] = "blocked"
    PROVE  \E m \in Nodes : states[m] \in {"failed", "cancelled"}
<1>1. /\ graph.dependencies \in [Nodes -> SUBSET Nodes]
      /\ \A n \in Nodes : graph.position[n] \in Nat
      /\ \A n \in Nodes : \A d \in graph.dependencies[n] : graph.position[d] < graph.position[n]
    <2>1. IsTopology(graph)
        BY DEF Inv, TypeOK
    <2>2. IsKey(graph.position)
        BY <2>1, PositionIsKey
    <2> QED
        BY <2>1, <2>2 DEF IsTopology, IsKey
<1>2. PICK n \in In({"blocked"}) : \A m \in In({"blocked"}) : graph.position[n] <= graph.position[m]
    <2> DEFINE places == {graph.position[m] : m \in In({"blocked"})}
    <2>1. places \in SUBSET Nat /\ places # {}
        BY <1>1 DEF In
    <2>2. PICK p \in places : \A q \in places : p <= q
        <3> HIDE DEF places
        <3> QED
            BY <2>1, LeastNat
    <2> QED
        BY <2>2
<1>3. PICK d \in graph.dependencies[n] : states[d] \in Lost
    BY <1>2 DEF Inv, FailurePropagated, In
<1>4. d \in Nodes /\ graph.position[d] < graph.position[n]
      /\ graph.position[d] \in Nat /\ graph.position[n] \in Nat
    BY <1>1, <1>2, <1>3 DEF In
<1>5. d \notin In({"blocked"})
    BY <1>2, <1>4
<1> QED
    BY <1>3, <1>4, <1>5 DEF In, Lost

\* The states that a run with nothing unfinished ends with.
LEMMA AllSettled ==
    ASSUME Inv, unfinished = 0, NEW n \in Nodes
    PROVE  states[n] \in {"unselected"} \cup Done \cup Lost
<1>1. In(Open \cup {"running"}) = {}
    BY NodesCounted DEF Inv, CountersExact, In
<1> QED
    BY <1>1 DEF Inv, TypeOK, State, In

\* What each row says of its task, once the rows are those of the core.
LEMMA AgreedIsHonest ==
    ASSUME RunInv, Joined, NEW n \in Nodes, Agreed(states[n], tasks[n], record.nodes[n])
    PROVE  /\ Consistent(record.nodes[n], n)
           /\ states[n] \in State \ (Open \cup {"running"}) => Consistent(states[n], n)
           /\ record.nodes[n] = "pending" => tasks[n] = "none" /\ threads[n] = "none"
           /\ record.nodes[n] \in Outcomes => states[n] = record.nodes[n]
<1>1. /\ tasks[n] \in {"none", "dropped"} => threads[n] = "none"
      /\ tasks[n] \in {"ok", "raised"} => Callable(n) = tasks[n]
    BY DEF Joined, Callable, RunInv, TasksCovered
<1> QED
    BY <1>1 DEF Agreed, Consistent, Outcomes, State, Open, Done, Lost

\* The run ends by itself: the rows are written as the core holds them.
LEMMA EndNormallyRecord ==
    ASSUME Inv, RunInv, RecordInv, EndNormally
    PROVE  /\ RecordInv'
           /\ \A n \in Nodes : record.nodes[n] \in Outcomes => record'.nodes[n] = record.nodes[n]
<1> DEFINE status == IF \A n \in Nodes : states[n] \in Done \cup {"unselected"}
                     THEN "succeeded" ELSE "failed"
<1>1. /\ pc = "admitting" /\ pc' = "closing" /\ unfinished = 0
      /\ record' = Ended(record, states, status)
      /\ UNCHANGED <<states, tasks, threads, batch, pending, done>>
    BY DEF EndNormally, vars
<1>2. record \in Records /\ record.status = "running"
      /\ \A n \in Nodes : Agreed(states[n], tasks[n], record.nodes[n])
    BY <1>1, NotEnded DEF RecordInv, RowsAgree, Over, RunInv, RunTypeOK
<1>3. record'.nodes = states /\ record'.status = status
    BY <1>1, <1>2, RecordFields
<1>4. \A n \in Nodes : states[n] \in {"unselected"} \cup Done \cup Lost
    BY <1>1, AllSettled
<1>5. HonestRecord'
    <2>1. ASSUME NEW n \in Nodes PROVE Consistent(states[n], n)
        <3>1. states[n] \in State \ (Open \cup {"running"})
            BY <1>4 DEF State, Open, Done, Lost
        <3> QED
            BY <1>2, <3>1, AgreedIsHonest DEF RecordInv
    <2> QED
        BY <1>1, <1>3, <2>1 DEF HonestRecord, Consistent, Callable
<1>6. EndedRecord'
    <2>1. status = "failed" => \E n \in Nodes : states[n] \in {"failed", "cancelled"}
        <3> SUFFICES ASSUME NEW n \in Nodes, states[n] \notin Done \cup {"unselected"}
                     PROVE  \E m \in Nodes : states[m] \in {"failed", "cancelled"}
            OBVIOUS
        <3>1. states[n] \in {"failed", "cancelled", "blocked"}
            BY <1>4 DEF Lost
        <3> QED
            BY <3>1, BlockedHasCause
    <2>2. status = "succeeded" => \A n \in Nodes : states[n] \in {"succeeded", "reused", "unselected"}
        BY DEF Done
    <2>3. \A n \in Nodes : states[n] \notin {"pending", "ready", "running"}
        BY <1>4 DEF Done, Lost
    <2> HIDE DEF status
    <2> QED
        BY <1>3, <2>1, <2>2, <2>3 DEF EndedRecord
<1>7. EndedStays' /\ RowsAgree' /\ TasksMade' /\ Stopped' /\ Joined'
    <2>1. EndedStays'
        BY <1>1, <1>5 DEF EndedStays, Over
    <2>2. RowsAgree'
        BY <1>3 DEF RowsAgree
    <2>3. TasksMade'
        BY <1>1 DEF RecordInv, TasksMade, Entries
    <2>4. Stopped'
        BY <1>1 DEF Stopped
    <2>5. Joined'
        BY <1>1 DEF RecordInv, Joined
    <2> QED
        BY <2>1, <2>2, <2>3, <2>4, <2>5
<1>8. \A n \in Nodes : record.nodes[n] \in Outcomes => record'.nodes[n] = record.nodes[n]
    BY <1>2, <1>3, AgreedIsHonest DEF RecordInv
<1> QED
    BY <1>5, <1>6, <1>7, <1>8 DEF RecordInv

\* The run ends after a failure: what the core still takes for running is
\* recorded as unknown.
LEMMA EndInterruptedRecord ==
    ASSUME Inv, RunInv, RecordInv, EndInterrupted
    PROVE  /\ RecordInv'
           /\ \A n \in Nodes : record.nodes[n] \in Outcomes => record'.nodes[n] = record.nodes[n]
<1>1. /\ pc = "drained" /\ pc' = "closing"
      /\ record' = Ended(record, InterruptedRows, "interrupted")
      /\ UNCHANGED <<states, tasks, threads, batch, pending, done>>
    BY DEF EndInterrupted, vars
<1>2. record \in Records /\ record.status = "running"
      /\ \A n \in Nodes : Agreed(states[n], tasks[n], record.nodes[n])
    BY <1>1, NotEnded DEF RecordInv, RowsAgree, Over, RunInv, RunTypeOK
<1>3. /\ record'.status = "interrupted"
      /\ \A n \in Nodes : record'.nodes[n] = IF states[n] = "running" THEN "unknown" ELSE states[n]
    BY <1>1, <1>2, RecordFields DEF InterruptedRows
<1>4. \A n \in Nodes : states[n] \in State /\ states[n] \notin Open
    BY <1>1 DEF RecordInv, Stopped, In, Inv, TypeOK
<1>5. HonestRecord'
    <2>1. ASSUME NEW n \in Nodes PROVE Consistent(record'.nodes[n], n)
        <3>1. CASE states[n] = "running"
            BY <1>3, <3>1 DEF Consistent
        <3>2. CASE states[n] # "running"
            BY <1>2, <1>3, <1>4, <3>2, AgreedIsHonest DEF RecordInv
        <3> QED
            BY <3>1, <3>2
    <2> QED
        BY <1>1, <2>1 DEF HonestRecord, Consistent, Callable
<1>6. EndedRecord'
    BY <1>3, <1>4 DEF EndedRecord, Open
<1>7. EndedStays' /\ RowsAgree' /\ TasksMade' /\ Stopped' /\ Joined'
    <2>1. EndedStays'
        BY <1>1, <1>5 DEF EndedStays, Over
    <2>2. RowsAgree'
        BY <1>3 DEF RowsAgree
    <2>3. TasksMade'
        BY <1>1 DEF RecordInv, TasksMade, Entries
    <2>4. Stopped'
        BY <1>1 DEF Stopped
    <2>5. Joined'
        BY <1>1 DEF RecordInv, Joined
    <2> QED
        BY <2>1, <2>2, <2>3, <2>4, <2>5
<1>8. ASSUME NEW n \in Nodes, record.nodes[n] \in Outcomes
      PROVE  record'.nodes[n] = record.nodes[n]
    <2>1. states[n] = record.nodes[n]
        BY <1>2, <1>8, AgreedIsHonest DEF RecordInv
    <2> QED
        BY <1>3, <1>8, <2>1 DEF Outcomes
<1> QED
    BY <1>5, <1>6, <1>7, <1>8 DEF RecordInv

\* Another process closes the record of a run whose process is gone, or whose
\* own ending could not be written.
LEMMA RecoverRecord ==
    ASSUME Inv, RunInv, RecordInv, Recover
    PROVE  /\ RecordInv'
           /\ \A n \in Nodes : record.nodes[n] \in Outcomes => record'.nodes[n] = record.nodes[n]
<1>1. /\ pc \in Over /\ pc' = pc /\ record.status = "running" /\ record' = Recovered(record)
      /\ UNCHANGED <<states, tasks, threads, batch, pending, done>>
    BY DEF Recover, RunInv, TasksCovered, Over, vars, loopVars
<1>2. record \in Records /\ \A n \in Nodes : Agreed(states[n], tasks[n], record.nodes[n])
    BY <1>1 DEF RecordInv, RowsAgree, RunInv, RunTypeOK
<1>3. /\ record'.status = "interrupted"
      /\ \A n \in Nodes : record'.nodes[n] =
             IF record.nodes[n] = "running" THEN "unknown"
             ELSE IF record.nodes[n] \in {"pending", "ready"} THEN "cancelled" ELSE record.nodes[n]
    BY <1>1, <1>2, RecordFields
<1>4. HonestRecord'
    <2>1. ASSUME NEW n \in Nodes PROVE Consistent(record'.nodes[n], n)
        <3>1. CASE record.nodes[n] = "running"
            BY <1>3, <3>1 DEF Consistent
        <3>2. CASE record.nodes[n] \in {"pending", "ready"}
            <4>1. tasks[n] = "none" /\ threads[n] = "none" /\ record'.nodes[n] = "cancelled"
                BY <1>2, <1>3, <3>2 DEF Agreed, RecordInv, Joined, RunInv, TasksCovered
            <4> QED
                BY <4>1 DEF Consistent
        <3>3. CASE record.nodes[n] \notin {"running", "pending", "ready"}
            BY <1>2, <1>3, <3>3, AgreedIsHonest DEF RecordInv
        <3> QED
            BY <3>1, <3>2, <3>3
    <2> QED
        BY <1>1, <2>1 DEF HonestRecord, Consistent, Callable
<1>5. EndedRecord'
    BY <1>3 DEF EndedRecord
<1>6. EndedStays' /\ RowsAgree' /\ TasksMade' /\ Stopped' /\ Joined'
    <2>1. EndedStays'
        BY <1>1, <1>4 DEF EndedStays
    <2>2. RowsAgree'
        BY <1>3 DEF RowsAgree
    <2>3. TasksMade'
        BY <1>1 DEF RecordInv, TasksMade, Entries
    <2>4. Stopped'
        BY <1>1 DEF Stopped, Over
    <2>5. Joined'
        BY <1>1 DEF RecordInv, Joined
    <2> QED
        BY <2>1, <2>2, <2>3, <2>4, <2>5
<1>7. \A n \in Nodes : record.nodes[n] \in Outcomes => record'.nodes[n] = record.nodes[n]
    BY <1>3 DEF Outcomes
<1> QED
    BY <1>4, <1>5, <1>6, <1>7 DEF RecordInv
-----------------------------------------------------------------------------
\* The rows a run begins with are those of the selection.
LEMMA InitRecord ==
    ASSUME RunInit
    PROVE  RecordInv
<1>1. /\ pc = "admitting" /\ pending = <<>> /\ done = <<>>
      /\ tasks = [n \in Nodes |-> "none"] /\ threads = [n \in Nodes |-> "none"]
      /\ record = Inserted({n \in Nodes : states[n] # "unselected"})
    BY DEF RunInit
<1>2. record.status = "running"
      /\ \A n \in Nodes : record.nodes[n] = IF states[n] = "unselected" THEN "unselected" ELSE "pending"
    BY <1>1 DEF Inserted
<1>3. \A n \in Nodes : states[n] \in {"unselected", "pending", "ready"}
    BY DEF RunInit, Init, New, InitialStates
<1>4. RowsAgree
    BY <1>1, <1>2, <1>3 DEF RowsAgree, Agreed
<1>5. TasksMade
    BY <1>1 DEF TasksMade, Entries
<1> QED
    BY <1>1, <1>2, <1>4, <1>5 DEF RecordInv, EndedStays, EndedRecord, Stopped, Joined

\* Every step of the coordinator keeps the record true.
LEMMA NextRecord ==
    ASSUME Inv, RunInv, RecordInv, [RunNext]_runVars
    PROVE  RecordInv'
<1>1. CASE Step
    <2>1. CASE BatchStarted \/ Wake \/ Drained \/ Close
        BY <2>1, QuietStepsRecord
    <2>2. CASE AdmitBatch \/ CancelRun \/ EndNormally \/ EndInterrupted
        BY <2>2, AdmitBatchRecord, CancelRecord, EndNormallyRecord, EndInterruptedRecord
    <2>3. ASSUME NEW n \in Nodes, ReuseNode(n) \/ StartNode(n) \/ CompleteNext(n) \/ CompleteDrained(n)
          PROVE  RecordInv'
        BY <2>3, ReuseNodeRecord, StartNodeRecord, CompleteRecord
    <2> QED
        BY <1>1, <2>1, <2>2, <2>3 DEF Step
<1>2. CASE Trouble
    BY <1>2, QuietStepsRecord, CancelAllRecord, RecoverRecord, RaisesRecord DEF Trouble
<1>3. CASE \E n \in Nodes : Begin(n) \/ ThreadReturns(n) \/ Return(n)
    BY <1>3, TaskRecord, ThreadRecord
<1>4. CASE UNCHANGED runVars
    BY <1>4, QuietStepsRecord
<1> QED
    BY <1>1, <1>2, <1>3, <1>4 DEF RunNext

\* In every run, whatever fails and wherever it dies, each row goes with the
\* state the core holds and with the task of its node, and what a task ended
\* with is what its thread returned, unless it was cancelled away from it.
THEOREM RecordTrue == RunSpec => []RecordInv
<1>1. RunInit => RecordInv
    BY InitRecord
<1>2. Inv /\ RunInv /\ RecordInv /\ [RunNext]_runVars => RecordInv'
    BY NextRecord
<1> QED
    BY <1>1, <1>2, CoreInvariant, RunInvariance, PTL DEF RunSpec

\* No committed row claims more or less than what happened to its node: an
\* outcome is that of the callable and of its task, and the task of a node that
\* is recorded as cancelled ended without a value, whatever its thread does.
THEOREM RecordHonest == RunSpec => []HonestRecord
<1>1. ASSUME RunInv, RecordInv PROVE HonestRecord
    <2>1. CASE record.status = "running"
        <3>1. \A n \in Nodes : Agreed(states[n], tasks[n], record.nodes[n])
            BY <1>1, <2>1 DEF RecordInv, RowsAgree
        <3> QED
            BY <1>1, <3>1, AgreedIsHonest DEF HonestRecord, RecordInv
    <2>2. CASE record.status # "running"
        BY <1>1, <2>2 DEF RecordInv, EndedStays
    <2> QED
        BY <2>1, <2>2
<1> QED
    BY <1>1, RunInvariance, RecordTrue, PTL

\* A run whose status is final has only final rows, and the status is what
\* they say.
THEOREM RecordEnded == RunSpec => []EndedRecord
<1>1. RecordInv => EndedRecord
    BY DEF RecordInv
<1> QED
    BY <1>1, RecordTrue, PTL

-----------------------------------------------------------------------------
\* The node the for loop visits runs for the core and for no one else yet.
LEMMA VisitedPending ==
    ASSUME RunInv, RecordInv, NEW n \in Nodes, Visiting(n)
    PROVE  record.nodes[n] = "pending"
<1>1. pc = "starting" /\ n \in Entries(batch)
    BY TailOfQueue DEF Visiting, RunInv, RunTypeOK, Queues
<1>2. states[n] = "running" /\ tasks[n] = "none"
    BY <1>1 DEF RecordInv, TasksMade, RunInv, FuturesRun, Looping, In
<1>3. Agreed(states[n], tasks[n], record.nodes[n])
    BY <1>1, NotEnded DEF RecordInv, RowsAgree, Over
<1> QED
    BY <1>2, <1>3 DEF Agreed

\* An outcome once committed is never overwritten: a row is written for a node
\* that has none, and the rows written at the end repeat those that have.
THEOREM OutcomesKept == RunSpec => EvidenceKept
<1> DEFINE Kept == \A n \in Nodes : record.nodes[n] \in Outcomes => record'.nodes[n] = record.nodes[n]
<1>1. ASSUME Inv, RunInv, RecordInv, [RunNext]_runVars PROVE Kept
    <2>1. ASSUME NEW n \in Nodes, ReuseNode(n) \/ StartNode(n) PROVE Kept
        <3>1. Visiting(n) /\ pc \notin Over
            BY <2>1 DEF ReuseNode, StartNode, Visiting, Over
        <3>2. \/ record' = MarkedFinished(record, n, "reused")
              \/ record' = MarkedRunning(record, n)
            BY <2>1 DEF ReuseNode, StartNode
        <3>3. \A m \in Nodes \ {n} : record'.nodes[m] = record.nodes[m]
            BY <1>1, <3>1, <3>2, RowWritten
        <3>4. record.nodes[n] \notin Outcomes
            BY <1>1, <3>1, VisitedPending DEF Outcomes
        <3> QED
            BY <3>3, <3>4
    <2>2. ASSUME NEW n \in Nodes, CompleteNext(n) \/ CompleteDrained(n) PROVE Kept
        <3>1. /\ pc \in {"completing", "drained"} /\ n \in Entries(done)
              /\ Settle(n) /\ tasks' = tasks /\ record' = MarkedFinished(record, n, OutcomeOf(n))
            BY <1>1, <2>2, TailOfQueue
            DEF CompleteNext, CompleteDrained, Completing, Complete, RunInv, RunTypeOK, Queues
        <3>2. record.nodes[n] = "running" /\ \A m \in Nodes \ {n} : record'.nodes[m] = record.nodes[m]
            BY <1>1, <3>1, SettleRecord
        <3> QED
            BY <3>2 DEF Outcomes
    <2>3. CASE EndNormally \/ EndInterrupted \/ Recover
        BY <1>1, <2>3, EndNormallyRecord, EndInterruptedRecord, RecoverRecord
    <2>4. ASSUME NEW n \in Nodes, CompleteRaises(n) \/ CompleteDrainedRaises(n)
                                  \/ Begin(n) \/ ThreadReturns(n) \/ Return(n)
          PROVE  Kept
        BY <2>4 DEF CompleteRaises, CompleteDrainedRaises, Raise, Begin, ThreadReturns, Return
    <2>5. CASE \/ AdmitBatch \/ BatchStarted \/ Wake \/ CancelRun \/ Drained \/ Close
               \/ Interrupt \/ CancelAll \/ Crash \/ StartRaises \/ EndRaises \/ UNCHANGED runVars
        BY <2>5 DEF AdmitBatch, BatchStarted, Wake, CancelRun, Drained, Close, Interrupt, CancelAll, Crash,
                    StartRaises, EndRaises, Raise, runVars, worldVars
    <2> HIDE DEF Kept
    <2> QED
        BY <1>1, <2>1, <2>2, <2>3, <2>4, <2>5 DEF RunNext, Step, Trouble
<1>2. Inv /\ RunInv /\ RecordInv /\ [RunNext]_runVars => [Kept]_runVars
    BY <1>1
<1> QED
    BY <1>2, CoreInvariant, RunInvariance, RecordTrue, PTL DEF RunSpec, EvidenceKept

\* Once the run is stopping no task is created, and an async callable that has
\* not begun never does: begin is a step of an await, and the only one left is
\* that of the drain, before which all such futures were cancelled.
THEOREM AdmissionStops == RunSpec => StopsAdmission
<1> DEFINE Stays == Stopping => \A n \in Nodes :
               /\ tasks[n] = "none" => tasks'[n] = "none"
               /\ tasks[n] = "scheduled" /\ tasks'[n] = "executing" => n \notin Async
<1>1. ASSUME RunInv, RecordInv, [RunNext]_runVars PROVE Stays
    <2> SUFFICES ASSUME Stopping PROVE Stays
        BY DEF Stopping
    <2>1. ASSUME NEW n \in Nodes, Begin(n) PROVE Stays
        <3>1. pc = "draining" /\ tasks' = [tasks EXCEPT ![n] = "executing"] /\ tasks[n] = "scheduled"
            BY <2>1 DEF Begin, Awaiting, Stopping
        <3>2. n \notin Async
            BY <1>1, <3>1 DEF RecordInv, Stopped
        <3>3. tasks \in [Nodes -> TaskState]
            BY <1>1 DEF RunInv, RunTypeOK
        <3> QED
            BY <3>1, <3>2, <3>3
    <2>2. ASSUME NEW n \in Nodes, Return(n) PROVE Stays
        <3>1. PICK end \in Returned : tasks' = [tasks EXCEPT ![n] = end]
            BY <2>2 DEF Return
        <3>2. tasks[n] = "executing" /\ tasks \in [Nodes -> TaskState]
            BY <1>1, <2>2 DEF Return, RunInv, RunTypeOK
        <3> QED
            BY <3>1, <3>2
    <2>3. CASE CancelRun \/ CancelAll
        BY <2>3 DEF CancelRun, CancelAll
    <2>4. ASSUME NEW n \in Nodes, StartNode(n) PROVE Stays
        BY <2>4 DEF StartNode, Visiting, Stopping
    <2>5. CASE UNCHANGED tasks
        BY <2>5
    <2>6. ASSUME NEW n \in Nodes, \/ ReuseNode(n) \/ CompleteNext(n) \/ CompleteDrained(n)
                                  \/ CompleteRaises(n) \/ CompleteDrainedRaises(n) \/ ThreadReturns(n)
          PROVE  UNCHANGED tasks
        BY <2>6 DEF ReuseNode, ThreadReturns, CompleteNext, CompleteDrained, CompleteRaises,
                    CompleteDrainedRaises, Raise
    <2>7. \/ AdmitBatch \/ BatchStarted \/ Wake \/ EndNormally \/ Drained \/ EndInterrupted \/ Close
          \/ Interrupt \/ Crash \/ Recover \/ StartRaises \/ EndRaises \/ UNCHANGED runVars
          => UNCHANGED tasks
        BY DEF AdmitBatch, BatchStarted, Wake, EndNormally, Drained, EndInterrupted, Close,
               Interrupt, Crash, Recover, StartRaises, EndRaises, Raise, runVars, worldVars
    <2> HIDE DEF Stays
    <2> QED
        BY <1>1, <2>1, <2>2, <2>3, <2>4, <2>5, <2>6, <2>7 DEF RunNext, Step, Trouble
<1>2. RunInv /\ RecordInv /\ [RunNext]_runVars => [Stays]_runVars
    BY <1>1
<1> QED
    BY <1>2, RunInvariance, RecordTrue, PTL DEF RunSpec, StopsAdmission
-----------------------------------------------------------------------------
(***************************************************************************)
(* What is left of two promises that the runs `reuse' and `faults' refute. *)
(***************************************************************************)
\* What is running or unknown for the record was started; unless storage
\* fails, the drain of a failed run leaves nothing running.
StartedRows == \A n \in Nodes : record.nodes[n] \in {"running", "unknown"} => record.started[n]

DrainComplete ==
    /\ pc \in Failing => In({"running"}) \subseteq Entries(pending)
    /\ pc = "drained" => In({"running"}) \subseteq Entries(done)

StartedInv == faults = 0 => StartedRows /\ DrainComplete

LEMMA NextStarted ==
    ASSUME Inv, RunInv, RecordInv, StartedInv, [RunNext]_runVars
    PROVE  StartedInv'
<1> SUFFICES ASSUME faults' = 0
             PROVE  (StartedRows /\ DrainComplete)'
    BY DEF StartedInv
<1>0. faults = 0 /\ StartedRows /\ DrainComplete
    <2>1. faults' = faults \/ faults' = faults + 1
        BY DEF RunNext, Step, Trouble, runVars, worldVars, AdmitBatch, ReuseNode, StartNode, BatchStarted, Wake,
               CompleteNext, EndNormally, CancelRun, Drained, CompleteDrained, EndInterrupted, Close, Interrupt,
               CancelAll, Crash, Recover, StartRaises, EndRaises, CompleteRaises, CompleteDrainedRaises, Raise,
               Begin, ThreadReturns, Return
    <2> QED
        BY <2>1, CoordinatorAssumption DEF StartedInv, RunInv, RunTypeOK
<1> USE <1>0
<1>1. record \in Records /\ tasks \in [Nodes -> TaskState]
    BY DEF RunInv, RunTypeOK
<1>2. ASSUME UNCHANGED <<states, record>>,
             pc' \in Failing => pc \in Failing /\ pending' = pending,
             pc' = "drained" => \/ pc = "drained" /\ done' = done
                                \/ pc \in Failing /\ done' = pending
      PROVE  (StartedRows /\ DrainComplete)'
    BY <1>2 DEF StartedRows, DrainComplete, In, Entries
<1>3. CASE \/ BatchStarted \/ Wake \/ Close \/ Drained \/ Crash \/ UNCHANGED runVars
           \/ \E n \in Nodes : Begin(n) \/ ThreadReturns(n) \/ Return(n)
    BY <1>2, <1>3 DEF BatchStarted, Wake, Close, Drained, Crash, Begin, ThreadReturns, Return, Failing,
                      runVars, vars, loopVars, worldVars
<1>4. CASE AdmitBatch
    BY <1>4 DEF AdmitBatch, StartedRows, DrainComplete, Failing, worldVars
<1>5. ASSUME NEW n \in Nodes, ReuseNode(n) \/ StartNode(n)
      PROVE  (StartedRows /\ DrainComplete)'
    <2>1. pc = "starting" /\ pc' = pc
        BY <1>5 DEF ReuseNode, StartNode, Visiting
    <2>2. StartedRows'
        <3>1. CASE ReuseNode(n)
            <4>1. record' = MarkedFinished(record, n, "reused")
                BY <3>1 DEF ReuseNode
            <4>2. /\ record'.nodes[n] = "reused" /\ record'.started = record.started
                  /\ \A m \in Nodes \ {n} : record'.nodes[m] = record.nodes[m]
                BY <1>1, <2>1, <4>1, RowWritten, RecordFields DEF Over
            <4> QED
                BY <4>2 DEF StartedRows
        <3>2. CASE StartNode(n)
            <4>1. record' = MarkedRunning(record, n)
                BY <3>2 DEF StartNode
            <4>2. /\ record'.started = [record.started EXCEPT ![n] = TRUE]
                  /\ record.started \in [Nodes -> BOOLEAN]
                BY <1>1, <4>1, RecordFields
            <4>3. \A m \in Nodes \ {n} : record'.nodes[m] = record.nodes[m]
                BY <2>1, <4>1, RowWritten DEF Over
            <4> QED
                BY <4>2, <4>3 DEF StartedRows
        <3> QED
            BY <1>5, <3>1, <3>2
    <2>3. DrainComplete'
        BY <2>1 DEF DrainComplete, Failing
    <2> QED
        BY <2>2, <2>3
<1>6. ASSUME NEW n \in Nodes, CompleteNext(n) \/ CompleteDrained(n)
      PROVE  (StartedRows /\ DrainComplete)'
    <2>1. /\ pc \in {"completing", "drained"} /\ done # <<>> /\ n = Head(done) /\ done' = Tail(done)
          /\ pc' \in {"completing", "admitting", "drained"} /\ (pc' = "drained" => pc = "drained")
          /\ Settle(n) /\ tasks' = tasks /\ record' = MarkedFinished(record, n, OutcomeOf(n))
        BY <1>6 DEF CompleteNext, CompleteDrained, Completing, Complete
    <2>2. n \in Entries(done) /\ Entries(done') = Entries(done) \ {n}
        BY <2>1, TailOfQueue DEF RunInv, RunTypeOK, Queues
    <2>3. StartedRows'
        <3>1. /\ record'.nodes[n] = OutcomeOf(n) /\ record'.started = record.started
              /\ \A m \in Nodes \ {n} : record'.nodes[m] = record.nodes[m]
            <4>1. record'.nodes[n] = OutcomeOf(n) /\ \A m \in Nodes \ {n} : record'.nodes[m] = record.nodes[m]
                BY <2>1, RowWritten DEF Over
            <4>2. record'.started = record.started
                BY <1>1, <2>1, RecordFields
            <4> QED
                BY <4>1, <4>2
        <3>2. OutcomeOf(n) \notin {"running", "unknown"}
            BY DEF OutcomeOf
        <3> QED
            BY <3>1, <3>2 DEF StartedRows
    <2>4. DrainComplete'
        <3>1. In({"running"})' = In({"running"}) \ {n}
            BY <2>1, RunningSettled
        <3>2. pc' = "drained" => In({"running"})' \subseteq Entries(done')
            BY <2>1, <2>2, <3>1 DEF DrainComplete
        <3> QED
            BY <2>1, <3>2 DEF DrainComplete, Failing, Entries
    <2> QED
        BY <2>3, <2>4
<1>7. CASE Interrupt \/ (CancelAll /\ pc = "waiting")
    <2>1. pc = "waiting" /\ pc' = "failing" /\ UNCHANGED <<states, record, pending>> /\ batch = <<>>
        BY <1>7 DEF Interrupt, CancelAll, vars, worldVars, RunInv, Queues, Looping
    <2>2. In({"running"}) \subseteq Entries(pending)
        BY <2>1 DEF RunInv, FuturesRun, Looping, Entries
    <2> QED
        BY <2>1, <2>2 DEF StartedRows, DrainComplete, In, Entries
<1>8. CASE CancelRun
    <2>1. pc = "failing" /\ pc' = "draining" /\ Cancel /\ UNCHANGED <<record, pending>>
        BY <1>8 DEF CancelRun
    <2>2. In({"running"})' = In({"running"})
        BY <2>1, RunningCancelled
    <2> QED
        BY <2>1, <2>2 DEF StartedRows, DrainComplete, Failing, Entries
<1>9. CASE EndNormally
    <2>1. /\ pc' = "closing" /\ unfinished = 0
          /\ \E s : record' = Ended(record, states, s)
        BY <1>9 DEF EndNormally
    <2>2. \A n \in Nodes : record'.nodes[n] \notin {"running", "unknown"}
        <3>1. record'.nodes = states
            BY <1>1, <2>1, RecordFields
        <3> QED
            BY <2>1, <3>1, AllSettled DEF Done, Lost
    <2> QED
        BY <2>1, <2>2 DEF StartedRows, DrainComplete, Failing
<1>10. CASE EndInterrupted
    <2>1. /\ pc = "drained" /\ pc' = "closing" /\ done = <<>>
          /\ record' = Ended(record, InterruptedRows, "interrupted")
        BY <1>10 DEF EndInterrupted
    <2>2. \A n \in Nodes : states[n] \in State \ {"running"}
        BY <2>1 DEF DrainComplete, In, Entries, Inv, TypeOK
    <2>3. \A n \in Nodes : record'.nodes[n] \notin {"running", "unknown"}
        <3>1. record'.nodes = InterruptedRows
            BY <1>1, <2>1, RecordFields
        <3> QED
            BY <2>2, <3>1 DEF InterruptedRows, State, Open, Done, Lost
    <2> QED
        BY <2>1, <2>3 DEF StartedRows, DrainComplete, Failing
<1>11. CASE Recover
    <2>1. record' = Recovered(record) /\ UNCHANGED <<states, pc, pending, done>>
        BY <1>11 DEF Recover, vars, loopVars
    <2>2. /\ record'.started = record.started
          /\ \A n \in Nodes : record'.nodes[n] =
                 IF record.nodes[n] = "running" THEN "unknown"
                 ELSE IF record.nodes[n] \in {"pending", "ready"} THEN "cancelled" ELSE record.nodes[n]
        BY <1>1, <2>1, RecordFields
    <2> QED
        BY <2>1, <2>2 DEF StartedRows, DrainComplete, In, Entries
<1>12. CASE StartRaises \/ EndRaises \/ \E n \in Nodes : CompleteRaises(n) \/ CompleteDrainedRaises(n)
    BY <1>1, <1>12 DEF StartRaises, EndRaises, CompleteRaises, CompleteDrainedRaises, Raise
<1>13. CASE CancelAll /\ pc # "waiting"
    BY <1>2, <1>13 DEF CancelAll, Awaiting, vars, Failing
<1> QED
    BY <1>3, <1>4, <1>5, <1>6, <1>7, <1>8, <1>9, <1>10, <1>11, <1>12, <1>13 DEF RunNext, Step, Trouble

\* As long as no storage call has raised, a node is recorded unknown only if
\* work on it was started: the drain then leaves nothing running.
THEOREM UnknownOnlyIfStarted ==
    RunSpec => []UnknownMeansStarted
<1>1. RunInit => StartedInv
    BY DEF RunInit, Inserted, StartedInv, StartedRows, DrainComplete, Failing
<1>2. Inv /\ RunInv /\ RecordInv /\ StartedInv /\ [RunNext]_runVars => StartedInv'
    BY NextStarted
<1>3. StartedInv => UnknownMeansStarted
    BY DEF StartedInv, StartedRows, UnknownMeansStarted, UnknownWasStarted
<1> QED
    BY <1>1, <1>2, <1>3, CoreInvariant, RunInvariance, RecordTrue, PTL DEF RunSpec

\* After admit there is no room or nothing ready, until a node of the batch is
\* reused.
RoomUsed ==
    pc \in {"starting", "waiting"} /\ ~ reusedAny => active = capacity \/ In({"ready"}) = {}

LEMMA AdmitUsesRoom ==
    ASSUME Inv, AdmitBatch
    PROVE  RoomUsed'
<1>1. /\ Popped \in 0 .. Len(ready)
      /\ Popped = Len(ready) \/ FillsUp(Popped)
      /\ Admitted = {ready[j] : j \in 1 .. Popped}
    BY PoppedProperties
<1>2. capacity \in Nat /\ active \in Nat /\ In({"ready"}) = {ready[j] : j \in 1 .. Len(ready)}
    BY CapacitiesAssumption, LenProperties DEF Inv, TypeOK, ReadyQueueExact
<1>3. \/ Admitted = {} /\ UNCHANGED vars
      \/ /\ states' = [n \in Nodes |-> IF n \in Admitted THEN "running" ELSE states[n]]
         /\ active' = active + Cardinality(Admitted) /\ capacity' = capacity
    BY DEF AdmitBatch, Admit
<1>4. CASE FillsUp(Popped)
    <2>1. Cardinality(Admitted) = capacity - active
        BY <1>4 DEF FillsUp, Admitted
    <2>2. active' = capacity'
        BY <1>2, <1>3, <2>1, NodesCounted DEF vars
    <2> QED
        BY <2>2 DEF RoomUsed
<1>5. CASE Popped = Len(ready)
    <2>1. In({"ready"}) = Admitted
        BY <1>1, <1>2, <1>5
    <2>2. In({"ready"})' = {}
        BY <1>3, <2>1 DEF In, vars
    <2> QED
        BY <2>2 DEF RoomUsed
<1> QED
    BY <1>1, <1>4, <1>5

LEMMA NextRoomUsed ==
    ASSUME Inv, RoomUsed, [RunNext]_runVars
    PROVE  RoomUsed'
<1>1. ASSUME UNCHANGED <<vars, reusedAny>>,
             pc' \in {"starting", "waiting"} => pc \in {"starting", "waiting"}
      PROVE  RoomUsed'
    BY <1>1 DEF RoomUsed, In, vars
<1>2. ASSUME pc' \notin {"starting", "waiting"}
      PROVE  RoomUsed'
    BY <1>2 DEF RoomUsed
<1>3. ASSUME NEW n \in Nodes, ReuseNode(n) PROVE RoomUsed'
    BY <1>3 DEF ReuseNode, RoomUsed
<1>4. CASE Step
    <2>1. CASE AdmitBatch
        BY <2>1, AdmitUsesRoom
    <2>2. CASE BatchStarted \/ \E n \in Nodes : StartNode(n)
        BY <1>1, <2>2 DEF BatchStarted, StartNode, Visiting
    <2>3. CASE \/ Wake \/ EndNormally \/ CancelRun \/ Drained \/ EndInterrupted \/ Close
               \/ \E n \in Nodes : CompleteNext(n) \/ CompleteDrained(n)
        BY <1>2, <2>3 DEF Wake, EndNormally, CancelRun, Drained, EndInterrupted, Close,
                          CompleteNext, CompleteDrained
    <2> QED
        BY <1>3, <1>4, <2>1, <2>2, <2>3 DEF Step
<1>5. CASE Trouble
    <2>1. CASE Recover
        BY <1>1, <2>1 DEF Recover, loopVars
    <2>2. CASE \/ Interrupt \/ CancelAll \/ Crash \/ StartRaises \/ EndRaises
               \/ \E n \in Nodes : CompleteRaises(n) \/ CompleteDrainedRaises(n)
        BY <1>2, <2>2 DEF Interrupt, CancelAll, Awaiting, Crash, StartRaises, EndRaises, CompleteRaises,
                          CompleteDrainedRaises, Raise
    <2> QED
        BY <1>5, <2>1, <2>2 DEF Trouble
<1>6. CASE UNCHANGED runVars \/ \E n \in Nodes : Begin(n) \/ ThreadReturns(n) \/ Return(n)
    BY <1>1, <1>6 DEF runVars, loopVars, Begin, ThreadReturns, Return
<1> QED
    BY <1>4, <1>5, <1>6 DEF RunNext

\* arun waits beside a ready node and room for it only if the batch it admitted
\* last held a reuse.
THEOREM RoomIsUsed ==
    RunSpec => []IdlesOnlyAfterReuse
<1>1. RunInit => RoomUsed
    BY DEF RunInit, RoomUsed
<1>2. Inv /\ RoomUsed /\ [RunNext]_runVars => RoomUsed'
    BY NextRoomUsed
<1>3. RoomUsed => IdlesOnlyAfterReuse
    BY DEF RoomUsed, IdlesOnlyAfterReuse
<1> QED
    BY <1>1, <1>2, <1>3, CoreInvariant, PTL DEF RunSpec
=============================================================================
