---------------------------- MODULE Coordinator ----------------------------
(***************************************************************************)
(* One run of a plan: Plan.arun of python/traversal/graph.py, the coroutine*)
(* that drives a RunState, creates an asyncio task for each admitted node, *)
(* writes the run's record to the history store, and on an exception       *)
(* cancels, drains and closes the run.                                     *)
(*                                                                         *)
(* The coroutine gives up control only where it awaits ("waiting" and      *)
(* "draining"): there tasks begin, end, and async callables make progress. *)
(* A blocking callable runs in a thread of the pool, apart from its task:  *)
(* it returns at any time, its task learns of it through the loop, and     *)
(* since asyncio.shield stands between them the task may end cancelled     *)
(* while the thread goes on.  Each action of the coroutine ends at its     *)
(* next commit, so that a crash or a failing storage call can come between *)
(* any two commits.  The run starts after History._start has taken the     *)
(* lease and inserted the rows.                                            *)
(***************************************************************************)
EXTENDS RunState, RunRecord

CONSTANTS Async,      \* the nodes whose callable is async
          Cacheable,  \* the nodes declared with a cache key
          Forced,     \* the nodes named by rerun=
          MaxFaults   \* bound on the storage calls that raise

ASSUME CoordinatorAssumption ==
    /\ Async \subseteq Nodes /\ Cacheable \subseteq Nodes /\ Forced \subseteq Nodes
    /\ MaxFaults \in Nat

VARIABLES
    pc,         \* where the coroutine is
    batch,      \* what the for loop over state.admit() has still to visit
    reusedAny,  \* reused_any
    pending,    \* the nodes of the futures in pending, in insertion order
    done,       \* the futures still to be passed to complete, in order
    tasks,      \* what became of each node's asyncio task
    threads,    \* what became of the call in the pool's thread, for a blocking node
    outputs,    \* the nodes with an entry in outputs
    record,     \* the committed rows of this run
    lease,      \* whether this process holds the run's lease
    faults      \* storage calls that have raised

loopVars  == <<pc, batch, reusedAny, pending, done>>
worldVars == <<tasks, threads, outputs, record, lease, faults>>
runVars   == <<vars, loopVars, worldVars>>

\* "scheduled" is created and not yet begun; "dropped" was cancelled before it
\* began.  A task keeps its last state for ever.
Finished == {"ok", "raised", "cancelled", "dropped"}
TaskState == {"none", "scheduled", "executing"} \cup Finished

Returned == {"ok", "raised", "cancelled"}
ThreadState == {"none", "executing"} \cup Returned

\* Plan._fingerprints: a node has a key if it and all above it declare one.
Keyed == {n \in Nodes : Reach({n}, graph.dependencies) \subseteq Cacheable}

Awaiting == pc \in {"waiting", "draining"}

RunInit ==
    /\ Init
    /\ pc = "admitting"
    /\ batch = <<>> /\ pending = <<>> /\ done = <<>>
    /\ reusedAny = FALSE
    /\ tasks = [n \in Nodes |-> "none"]
    /\ threads = [n \in Nodes |-> "none"]
    /\ outputs = {}
    /\ record = Inserted({n \in Nodes : states[n] # "unselected"})
    /\ lease = TRUE
    /\ faults = 0

-----------------------------------------------------------------------------
\* Tasks and threads.  invoke hands a blocking callable to the pool, which has
\* a thread free for it (CapacityRespected): it never queues.
Begin(n) ==
    /\ Awaiting
    /\ tasks[n] = "scheduled"
    /\ tasks' = [tasks EXCEPT ![n] = "executing"]
    /\ threads' = IF n \in Async THEN threads ELSE [threads EXCEPT ![n] = "executing"]
    /\ UNCHANGED <<vars, loopVars, outputs, record, lease, faults>>

\* A callable may also end in CancelledError, asked to or not.  One that returns
\* an awaitable from its thread counts as raised.
ThreadReturns(n) ==
    /\ threads[n] = "executing"
    /\ pc # "crashed"
    /\ \E end \in Returned : threads' = [threads EXCEPT ![n] = end]
    /\ UNCHANGED <<vars, loopVars, tasks, outputs, record, lease, faults>>

\* The task ends: with its async callable, or with what its thread has returned.
Return(n) ==
    /\ Awaiting
    /\ tasks[n] = "executing"
    /\ \E end \in IF n \in Async THEN Returned ELSE {threads[n]} \cap Returned :
           tasks' = [tasks EXCEPT ![n] = end]
    /\ UNCHANGED <<vars, loopVars, threads, outputs, record, lease, faults>>

\* The loop shuts down and cancels every task it has, that of arun and those of
\* its futures (asyncio.run when its main coroutine ends or a second interrupt
\* comes).  A task awaiting its thread is cancelled at once, also when the
\* thread's result is on its way; an async callable may end as it likes.
CancelAll ==
    /\ Awaiting
    /\ tasks' = [n \in Nodes |->
                    IF tasks[n] = "scheduled" THEN "dropped"
                    ELSE IF tasks[n] = "executing" /\ n \notin Async THEN "cancelled"
                    ELSE tasks[n]]
    /\ pc' = IF pc = "waiting" THEN "failing" ELSE pc
    /\ UNCHANGED <<vars, batch, reusedAny, pending, done, threads, outputs, record, lease, faults>>

-----------------------------------------------------------------------------
\* The admission loop.  Place is where a node stands in the ready queue; admit
\* returns the nodes it admits in that order.
Place == [n \in Nodes |-> IF n \in Entries(ready) THEN CHOOSE i \in DOMAIN ready : ready[i] = n
                          ELSE Len(ready) + 1 + n]

AdmitBatch ==
    /\ pc = "admitting" /\ unfinished > 0
    /\ batch' = Listed(Admitted, Place)
    /\ reusedAny' = FALSE
    /\ pc' = "starting"
    /\ Admit \/ (Admitted = {} /\ UNCHANGED vars)
    /\ UNCHANGED <<pending, done, worldVars>>

Visiting(n) == pc = "starting" /\ batch # <<>> /\ n = Head(batch)

\* _cached finds the result: its row is finished, the core releases dependents.
ReuseNode(n) ==
    /\ Visiting(n)
    /\ n \in Keyed \ Forced
    /\ outputs' = outputs \cup {n}
    /\ record' = MarkedFinished(record, n, "reused")
    /\ FinishDone(n, "reused")
    /\ reusedAny' = TRUE
    /\ batch' = Tail(batch)
    /\ UNCHANGED <<pc, pending, done, tasks, threads, lease, faults>>

\* The row says running before the task exists.
StartNode(n) ==
    /\ Visiting(n)
    /\ record' = MarkedRunning(record, n)
    /\ tasks' = [tasks EXCEPT ![n] = "scheduled"]
    /\ pending' = Append(pending, n)
    /\ batch' = Tail(batch)
    /\ UNCHANGED <<vars, pc, reusedAny, done, threads, outputs, lease, faults>>

\* After the loop: wait for a task, or go round again if results were reused.
\* There is no third case (NoRunnableNodes), so the error the source raises in
\* it is not an action.
BatchStarted ==
    /\ pc = "starting" /\ batch = <<>>
    /\ \/ pending # <<>> /\ pc' = "waiting"
       \/ pending = <<>> /\ reusedAny /\ pc' = "admitting"
    /\ UNCHANGED <<vars, batch, reusedAny, pending, done, worldVars>>

-----------------------------------------------------------------------------
\* asyncio.wait returns with every future that is done by then; they are
\* completed in the order of their index.
Wake ==
    LET returned == {n \in Entries(pending) : tasks[n] \in Finished}
    IN  /\ pc = "waiting"
        /\ returned # {}
        /\ done' = Listed(returned, Index)
        /\ pc' = "completing"
        /\ UNCHANGED <<vars, batch, reusedAny, pending, worldVars>>

OutcomeOf(n) == CASE tasks[n] = "ok"     -> "succeeded"
                  [] tasks[n] = "raised" -> "failed"
                  [] OTHER               -> "cancelled"

\* The part of complete that precedes its last storage call: the value is
\* kept, then the core is told.
Settle(n) ==
    \/ /\ tasks[n] = "ok"
       /\ outputs' = outputs \cup {n}
       /\ FinishDone(n, "succeeded")
    \/ /\ tasks[n] # "ok"
       /\ FinishLost(n, OutcomeOf(n))
       /\ UNCHANGED outputs

\* Mutant: the row is written with the outcome of a value whatever happened.
CompleteAsSucceeded(n) ==
    /\ Settle(n)
    /\ record' = MarkedFinished(record, n, "succeeded")

Complete(n) ==
    /\ Settle(n)
    /\ record' = MarkedFinished(record, n, OutcomeOf(n))

\* Mutant: the future is looked up in pending but not popped.
KeepFuture(n) == pending' = pending

PopFuture(n) ==
    \E i \in DOMAIN pending :
        /\ pending[i] = n
        /\ pending' = SubSeq(pending, 1, i - 1) \o SubSeq(pending, i + 1, Len(pending))

Completing(n) == done # <<>> /\ n = Head(done)

CompleteNext(n) ==
    /\ pc = "completing" /\ Completing(n)
    /\ Complete(n)
    /\ PopFuture(n)
    /\ done' = Tail(done)
    /\ pc' = IF Tail(done) = <<>> THEN "admitting" ELSE "completing"
    /\ UNCHANGED <<batch, reusedAny, tasks, threads, lease, faults>>

EndNormally ==
    /\ pc = "admitting" /\ unfinished = 0
    /\ record' = Ended(record, states,
                       IF \A n \in Nodes : states[n] \in Done \cup {"unselected"}
                       THEN "succeeded" ELSE "failed")
    /\ pc' = "closing"
    /\ UNCHANGED <<vars, batch, reusedAny, pending, done, tasks, threads, outputs, lease, faults>>

-----------------------------------------------------------------------------
\* The except block.  Cancellation of the caller arrives where the coroutine
\* awaits; one that reaches it alone while it drains is swallowed, a stuttering
\* step (CancelAll is the one that reaches the futures too).
Interrupt ==
    /\ pc = "waiting"
    /\ pc' = "failing"
    /\ UNCHANGED <<vars, batch, reusedAny, pending, done, worldVars>>

\* Mutant: the test of is_async is inverted.
CancelledBlocking == Entries(pending) \ Async

CancelledFutures == Entries(pending) \cap Async

\* A cancelled future that has not begun never will; one that has begun may
\* still end as it likes.
CancelRun ==
    /\ pc = "failing"
    /\ Cancel
    /\ tasks' = [n \in Nodes |-> IF n \in CancelledFutures /\ tasks[n] = "scheduled"
                                 THEN "dropped" ELSE tasks[n]]
    /\ pc' = "draining"
    /\ UNCHANGED <<batch, reusedAny, pending, done, threads, outputs, record, lease, faults>>

Drained ==
    /\ pc = "draining"
    /\ \A n \in Entries(pending) : tasks[n] \in Finished
    /\ done' = pending
    /\ pc' = "drained"
    /\ UNCHANGED <<vars, batch, reusedAny, pending, worldVars>>

CompleteDrained(n) ==
    /\ pc = "drained" /\ Completing(n)
    /\ Complete(n)
    /\ done' = Tail(done)
    /\ UNCHANGED <<pc, batch, reusedAny, pending, tasks, threads, lease, faults>>

\* Mutant: the states are written as the core holds them.
RowsAsHeld == states

\* The rows written by the except block.
InterruptedRows == [n \in Nodes |-> IF states[n] = "running" THEN "unknown" ELSE states[n]]

EndInterrupted ==
    /\ pc = "drained" /\ done = <<>>
    /\ record' = Ended(record, InterruptedRows, "interrupted")
    /\ pc' = "closing"
    /\ UNCHANGED <<vars, batch, reusedAny, pending, done, tasks, threads, outputs, lease, faults>>

\* Mutant: the pool is shut down without waiting for its threads.
CloseAtOnce ==
    /\ pc = "closing"
    /\ pc' = "closed"
    /\ lease' = FALSE
    /\ UNCHANGED <<vars, batch, reusedAny, pending, done, tasks, threads, outputs, record, faults>>

\* The finally block: the pool waits for its threads, then the lease is closed.
Close ==
    /\ pc = "closing"
    /\ \A n \in Nodes : threads[n] # "executing"
    /\ pc' = "closed"
    /\ lease' = FALSE
    /\ UNCHANGED <<vars, batch, reusedAny, pending, done, tasks, threads, outputs, record, faults>>

-----------------------------------------------------------------------------
(***************************************************************************)
(* A storage call raises.  While visiting a node it is _cached,            *)
(* _reuse_note, _finished or _running, all before the core or a task is    *)
(* touched, though a value found may be kept by then.  In complete it is   *)
(* _save_result, before the core is told, or _reuse_note or _finished,     *)
(* after.  The future has left pending by then.  In the except block it    *)
(* leaves the rest of that block out.                                      *)
(***************************************************************************)
Raise(handler) ==
    /\ faults < MaxFaults
    /\ faults' = faults + 1
    /\ pc' = handler
    /\ UNCHANGED <<reusedAny, tasks, threads, record, lease>>

SettleThenRaise(n) ==
    \/ /\ n \in Keyed /\ tasks[n] = "ok"
       /\ outputs' = outputs \cup {n}
       /\ UNCHANGED vars
    \/ Settle(n)

StartRaises ==
    /\ pc = "starting" /\ batch # <<>>
    /\ Raise("failing")
    /\ batch' = <<>>
    /\ outputs' \in {outputs, outputs \cup ({Head(batch)} \cap (Keyed \ Forced))}
    /\ UNCHANGED <<vars, pending, done>>

CompleteRaises(n) ==
    /\ pc = "completing" /\ Completing(n)
    /\ Raise("failing")
    /\ SettleThenRaise(n)
    /\ PopFuture(n)
    /\ done' = <<>>
    /\ UNCHANGED batch

EndRaises ==
    /\ \/ pc = "admitting" /\ unfinished = 0 /\ Raise("failing")
       \/ pc = "drained" /\ done = <<>> /\ Raise("closing")
    /\ UNCHANGED <<vars, batch, pending, done, outputs>>

CompleteDrainedRaises(n) ==
    /\ pc = "drained" /\ Completing(n)
    /\ Raise("closing")
    /\ SettleThenRaise(n)
    /\ UNCHANGED <<batch, pending, done>>

\* The process dies: its threads with it, and the lock file is released.
Crash ==
    /\ pc \notin {"closed", "crashed"}
    /\ pc' = "crashed"
    /\ lease' = FALSE
    /\ UNCHANGED <<vars, batch, reusedAny, pending, done, tasks, threads, outputs, record, faults>>

\* History.recover from another process, once the lease is free.
Recover ==
    /\ ~ lease
    /\ record.status = "running"
    /\ record' = Recovered(record)
    /\ UNCHANGED <<vars, loopVars, tasks, threads, outputs, lease, faults>>

-----------------------------------------------------------------------------
Step ==
    \/ AdmitBatch \/ BatchStarted \/ Wake \/ EndNormally
    \/ CancelRun \/ Drained \/ EndInterrupted \/ Close
    \/ \E n \in Nodes : ReuseNode(n) \/ StartNode(n) \/ CompleteNext(n) \/ CompleteDrained(n)

Trouble ==
    \/ Interrupt \/ CancelAll \/ Crash \/ Recover \/ StartRaises \/ EndRaises
    \/ \E n \in Nodes : CompleteRaises(n) \/ CompleteDrainedRaises(n)

RunNext == Step \/ Trouble \/ \E n \in Nodes : Begin(n) \/ ThreadReturns(n) \/ Return(n)

RunSpec == RunInit /\ [][RunNext]_runVars

\* The event loop keeps running the coroutine, and every callable returns.
RunFairness ==
    /\ WF_runVars(Step)
    /\ \A n \in Nodes : /\ WF_runVars(Begin(n)) /\ WF_runVars(Return(n))
                        /\ WF_runVars(ThreadReturns(n))

FairRunSpec == RunSpec /\ RunFairness
-----------------------------------------------------------------------------
RunTypeOK ==
    /\ TypeOK
    /\ pc \in {"admitting", "starting", "waiting", "completing", "failing", "draining",
               "drained", "closing", "closed", "crashed"}
    /\ {batch, pending, done} \subseteq Seq(Nodes)
    /\ reusedAny \in BOOLEAN
    /\ tasks \in [Nodes -> TaskState]
    /\ threads \in [Nodes -> ThreadState]
    /\ outputs \subseteq Nodes
    /\ record \in Records
    /\ lease \in BOOLEAN
    /\ faults \in 0 .. MaxFaults

\* The futures and the core agree.  While the loop of arun runs, the nodes the
\* core takes for running are those still to be visited and those with a
\* future in pending, each once, so that `active' counts real work; and at any
\* time a future still to be completed belongs to a running node, so that
\* state.finish is never refused, not by a drain after a failure either.
SchedulerAgrees ==
    /\ pc \in {"admitting", "starting", "waiting", "completing"} =>
          /\ In({"running"}) = Entries(batch) \cup Entries(pending)
          /\ active = Len(batch) + Len(pending)
          /\ Entries(done) \subseteq Entries(pending)
    /\ pc \in {"failing", "draining"} => Entries(pending) \subseteq In({"running"})
    /\ pc = "drained" => Entries(done) \subseteq In({"running"})

\* The source's error "scheduler has unfinished work but no runnable nodes":
\* a round that starts and reuses nothing has something to wait for.
NoRunnableNodes ==
    pc = "starting" /\ batch = <<>> /\ pending = <<>> => reusedAny

\* A task is created when the outputs its arguments are taken from are there,
\* whether they were computed in this run or read from the store.
InputsAvailable ==
    \A n \in Nodes : tasks[n] # "none" => graph.dependencies[n] \subseteq outputs

\* max_concurrency bounds the callables that are executing, a thread's also
\* when its task is over, and also while the run drains after a failure.
Executing == {n \in Nodes : "executing" \in {tasks[n], threads[n]}}

CapacityRespected == Cardinality(Executing) <= capacity

\* The lease outlives every callable: it is given up only when the process is
\* dead or nothing executes or ever will, however often the run is cancelled
\* and whoever cancels it.
LeaseCoversExecution ==
    \/ lease
    \/ pc = "crashed"
    \/ /\ pc = "closed"
       /\ Executing = {} /\ \A n \in Nodes : tasks[n] # "scheduled"

\* No committed row claims more or less than what happened, in this process
\* or, after a crash, to its successor.  A node recorded succeeded or failed has
\* a callable that ended so, and a task that learned it.  One recorded cancelled
\* gave no value to the run: its task never began, and then no thread did, or
\* ended cancelled, whatever a thread it left behind does.  One recorded pending,
\* blocked or reused was never handed to a task.
Callable(n) == IF n \in Async THEN tasks[n] ELSE threads[n]

Consistent(row, n) ==
    CASE row = "succeeded"            -> tasks[n] = "ok" /\ Callable(n) = "ok"
      [] row = "failed"               -> tasks[n] = "raised" /\ Callable(n) = "raised"
      [] row = "cancelled"            -> /\ tasks[n] \in {"none", "dropped", "cancelled"}
                                         /\ tasks[n] # "cancelled" => threads[n] = "none"
      [] row \in {"running", "unknown"} -> TRUE
      [] OTHER                        -> tasks[n] = "none" /\ threads[n] = "none"

HonestRecord == \A n \in Nodes : Consistent(record.nodes[n], n)

\* A run whose status is final has only final rows, and it is recorded as
\* succeeded exactly when every selected node produced or reused a value and
\* the coroutine got to its normal end.
EndedRecord ==
    /\ record.status # "running" =>
          \A n \in Nodes : record.nodes[n] \notin {"pending", "ready", "running"}
    /\ record.status = "succeeded" =>
          \A n \in Nodes : record.nodes[n] \in {"succeeded", "reused", "unselected"}
    /\ record.status = "failed" =>
          \E n \in Nodes : record.nodes[n] \in {"failed", "cancelled"}

\* Evidence is kept: an outcome once committed is never overwritten, not by
\* the rows written at the end of the run, nor by recovery.
EvidenceKept ==
    [][\A n \in Nodes : record.nodes[n] \in Outcomes => record'.nodes[n] = record.nodes[n]]_runVars

Stopping == pc \in {"failing", "draining", "drained", "closing", "closed"}

\* Cancellation and errors stop new admission: no task is created from then
\* on, and an async callable that has not begun never does.
StopsAdmission ==
    [][Stopping => \A n \in Nodes :
           /\ tasks[n] = "none" => tasks'[n] = "none"
           /\ tasks[n] = "scheduled" /\ tasks'[n] = "executing" => n \notin Async]_runVars

\* Unless the process dies, arun returns or raises and gives up the lease.
RunEnds == <>(pc \in {"closed", "crashed"} /\ ~ lease)

\* Ready tasks overlap up to max_concurrency: the coroutine never waits with a
\* ready node and room for it.
WorkConserving == pc = "waiting" => active = capacity \/ In({"ready"}) = {}

\* A thread that runs is never reported as stopped: what is recorded cancelled
\* does not execute.
NoThreadReportedStopped ==
    pc # "crashed" => \A n \in Nodes : record.nodes[n] = "cancelled" => n \notin Executing

\* A node is recorded unknown only if work on it was started.
UnknownWasStarted == \A n \in Nodes : record.nodes[n] = "unknown" => record.started[n]

\* What WorkConserving leaves of itself: the coroutine waits beside a ready
\* node and room for it only if the batch it admitted last held a reuse.
IdlesOnlyAfterReuse == pc = "waiting" /\ ~ reusedAny => active = capacity \/ In({"ready"}) = {}

\* And UnknownWasStarted: wherever the run is interrupted or dies, and whoever
\* recovers it, unknown means started as long as no storage call has raised.
UnknownMeansStarted == faults = 0 => UnknownWasStarted
=============================================================================
