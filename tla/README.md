# Verification of traversal

traversal runs a directed acyclic graph of Python callables: a Rust core decides which node may
run, a Python coroutine runs them as asyncio tasks and threads, and a SQLite store keeps what
happened. This directory holds TLA+ models of that program, the TLC runs that check them and the
proofs that TLAPS checks about them.

## The system

| Component | Source | State it keeps | Operations | Talks to |
|---|---|---|---|---|
| Builder and topology | `crates/traversal-core/src/graph.rs` | names, dependencies, edges, owner token; after `compile` an immutable topology with dependents and a topological order | `add`, `depends_on`, `compile` (Kahn), `select` | the core reads the topology |
| Scheduler core | `crates/traversal-core/src/run.rs` | a state per node, countdown of dependencies, ready queue, `active`, `unfinished` | `new`, `admit`, `finish`, `cancel`, `done` | called by the coordinator only |
| Native bindings | `crates/traversal-python/src/lib.rs` | none of its own | conversions, error mapping | core and coordinator |
| Graph and plan | `python/traversal/graph.py` (`Graph`, `Plan.__init__`) | declared tasks, owner token; a plan freezes them | `add`, `depends_on`, `compile` | builder |
| Run coordinator | `graph.py` (`Plan.arun`) | dictionary of pending futures, outputs, failures, the thread pool, the lease | admission loop, `invoke`, `complete`, the `except` and `finally` blocks | core, history, event loop, threads |
| Reuse and resume | `graph.py` (`_fingerprints`, `explain_run`), `history.py` (`_cached`, `_save_result`), `cache.py` | the results table | explain, reuse, resume, save | coordinator, other runs through the store |
| Run record | `history.py` | rows of `runs` and `nodes`; one lock file per run | `_start`, `_running`, `_finished`, `_end`, `recover`, queries | coordinator; other processes |
| Schema | `history.py` (`History.__init__`) | schema version | create, migrate | concurrent openers |
| Encoding | `cache.py` | none | `encode`, `fingerprint` | results table |
| Command line | `__main__.py` | none | print or copy the packaged skill | - |

What is hard in it, and what makes each part correct:

- **Core.** Completions come in any order. Two counters and a countdown per node summarise the
  states, and are decremented without a check (unsigned). They must stay exact, the queue must hold
  the ready nodes once each, a failure must reach all open descendants and nothing else, and while
  work is unfinished something must be ready or running.
- **Coordinator.** Tasks end while others are being completed, in threads or in the event loop; any
  storage call may raise between two steps; the caller may be cancelled, repeatedly; the process may
  die between two commits; a task may be cancelled away from the thread it waits for. The core, the dictionary of futures, the record and the lease must agree,
  the lease must outlive every callable, and a run must end.
- **Record.** It must never claim what did not happen, keep every outcome, and end final.
- **Builder.** It must accept exactly the acyclic graphs, and refuse handles of other graphs, which are
  plain numbers that may exist in this one too.
- **Graph and plan.** Nodes of several graphs share names, argument lists go on being changed by those who
  made them or were given them, and outputs are looked up by name: a plan must be frozen, and bind only
  what it schedules.
- **Reuse.** A result may be reused only for the same node with the same ancestors and keys, although
  other runs write and delete rows of the same table, and only if the run that is resumed vouches for it.
  Work that cannot be repeated safely may not be repeated without being asked for.
- **Leases and recovery.** Only an abandoned run may be recovered, by any number of processes at once,
  each of which looks before it has the lease. A run ends once, and no lease is leaked.
- **Schema.** Processes that open a new or an old database together, and die at any statement, must leave
  it as it was or migrated as a whole.
- **Encoding.** What is in itself is refused, what is there twice is not.

`PROJECT.json` lists each hazard at its line with the properties that cover it.

## Modules

| Module | Models | State and actions |
|---|---|---|
| `Topology` | `graph.rs`: what a compiled graph is, `select`, and Kahn's algorithm as a function | none: operators on graphs. A graph is its dependency sets and each node's place in `order`; nodes are their indices |
| `Builder` | `graph.rs`: `Builder::new`, `add`, `check`, `depends_on`, and `NEXT_GRAPH` | the builders, the handles given out; `New`, `Add`, `DependsOn` |
| `Kahn` | `Builder::compile` on one vector of dependencies, cyclic ones included | the locals of the function; `Pop` (one turn of the loop), `Return` |
| `Build` | the two together: a program with several builders compiles one | `CompileBuilder` gives a builder's lists to `Kahn` |
| `RunState` | `run.rs` | the struct's fields, one variable each; `Admit`, `FinishDone`, `FinishLost`, `Cancel` |
| `DagRun` | nothing of the code: what a run promises | a status per node; `Start`, `Succeed`, `Lose`, `Abandon` |
| `RunRecord` | the transactions of `history.py` on one run's rows | none: operators on a record |
| `Coordinator` | `Plan.arun`, from the inserted rows to its return, with `RunState` and `RunRecord` | `pc` and the coroutine's locals, a state per task and per thread, the record, the lease |
| `History` | `history.py` as its callers share it: owners, readers and recoveries of several runs, with `RunRecord` | the rows of each run, the holder of each lock file, and where each caller is in `_start`, `_end`, `get` or `recover` |
| `RunLife` | nothing of the code: what the history promises of a run | absent, active, abandoned, ended |
| `Schema` | `History.__init__` | the committed database, its journal mode, the write lock, and each opener's transaction, statement by statement |
| `Reuse` | `_fingerprints`, `explain_run`, the branches of the admission loop and of `complete` with `_cached`, `_save_result` and `_reuse_note`, for runs that resume or overlap each other | the calls of `arun`, their rows and notes, their outputs, and the results table |
| `Declare` | `Graph.add`, `depends_on`, `compile`, `_map_value`, `Plan.__init__`, `compile_topology` | the tasks of each graph, the argument lists with those the program can still change, the plans |
| `Encode` | `cache.encode` and its recursive `check` | a heap of containers, the stack of frames, `seen` |
| `MC*` | - | the instances for TLC |
| `*_proofs` | - | theorems, in eight modules |

Correspondence, where it is not one to one.

*Builder and `compile`.*

- A handle is an owner and an index, as `NodeId` is. The model also keeps, for the properties, the builder
  and the name it was made for, and the pairs of handles for which `depends_on` returned `Ok`; no guard reads them.
- `dependencies` are sequences in `Builder`, appended to as in the source unless the pair is in `edges`;
  `Kahn` works on their sets. `dependents` is derived; the source fills it in ascending index, which
  `Listed(_, Index)` keeps in the queue.
- A builder is compiled once it has `N` nodes, so that one instance has one size of graph.

*Core.*

- The loop of `admit` is one action. `Popped` is the number of queue entries it takes, defined by the
  loop's exit condition; entries that are no longer ready are skipped as in the code, though
  `ReadyQueueExact` shows that there are none. A call of `admit` that admits nothing changes nothing.
- The worklist of `finish` is the least set closed under its step (`Reach`): a node is visited when it
  is open, marked, and then its dependents are. The order of the visits does not show in the result.
- `finish` of a node that is not running, and an unknown outcome, are refused without a change: stuttering.

*Coordinator.*

- Control is given up only at `asyncio.wait` (`"waiting"`) and in the drain (`"draining"`): there a created
  task begins (`Begin`) and one that is done ends (`Return`). Each step of the coroutine ends at its next commit, and
  `Crash` and the `Raises` actions can come between any two.
- A blocking callable has a task and a thread, which `asyncio.shield` (`graph.py:315`) separates: `tasks` and `threads`.
  The thread returns at any time (`ThreadReturns`), and the task ends with what it returned, unless it is
  cancelled first, which the thread does not notice. `arun` itself cancels only async tasks (`CancelledFutures`);
  `CancelAll` is a loop that shuts down and cancels every task it has, `arun`'s included: that of `asyncio.run` when
  it is interrupted again. What ends is then the task, the drain is over at once, and only `pool.shutdown(wait=True)` (`Close`) waits for
  the threads. A pool thread is always free for a callable that begins, since the pool has as many as the capacity
  and no more callables execute (`CapacityRespected`).
- A node has a fingerprint (`Keyed`) if it and all it depends on declare a cache key. Whether `_cached`
  then finds a result is a free choice here; `Reuse` says which.
- Every modelled run has a store. A run without one (`store` is `None`) takes the same steps with nothing
  reused, no storage failure and no record.
- `_reuse_note` writes two columns nothing in this module reads, so its transaction is left to `Reuse`, but
  not that it may raise. `state.finish` never raises, because a future to be completed always belongs to a
  running node (`SchedulerAgrees`); nor does the error at `graph.py:392` (`NoRunnableNodes`).
- A callable may return, raise, or end in `CancelledError` whether it was asked to or not. One that was
  asked to may ignore it. A second cancellation of `arun` alone during the drain is swallowed, a stuttering step.
- `Recover` is another process's `History.recover`, in one step, once the lease is free; `History` has its steps.

*History.* Each method is one transaction and one action, but for `_start` (lease, then inserts), `get` (two
statements, each a snapshot of its own) and `recover` (a `get`, the lease, the update, the lease given back,
a second `get`). What the owner writes between is left open to what `Coordinator` allows (`Mark`, `LastStates`).
`RecoverRefused` is any lease that is taken, by an owner or by another recovery; both are the `RunActiveError`
that `docs/API.md:75` explains by the owner only. A commit may raise (`StartRaises`, `EndRaises`, `RecoverRaises`)
and a caller may die anywhere (`Crash`), which frees its lock.

*Schema.* `PRAGMA journal_mode=WAL` precedes the transaction: it changes the file at once (`Journal`), a refused database
too, or finds it locked (`JournalFails`); no rollback takes it back. That the pragma may leave the mode as it is without an error,
as on a file system that cannot share memory, is excluded by the class's demand for a local one. SQLite is external: one write
transaction at a time, rollback at death, an error for a table or a column that exists. The script asks a database for its version and, if
that is 0, for being empty. So a database of another program (`Theirs`, any version and any of our table names besides its own) is refused if
it has version 0 and opened untouched if it has 2. With version 1 it goes through the script: it fails at the `ALTER` or at the `CREATE` and is
rolled back, or, if it has a table `nodes` and none called `results`, is migrated (`Migratable`): it gets two columns, a table and version 2 (`history.py:89-95`), although `history.py:80`
refuses "an unrelated database"; the test for that has one of version 0. So `CommittedWhole` does not say that such a database is left alone, but that it is
left as it was or keeps all it had. What a run would do with a database
of another program once it is open is not modelled: `Record` asks for our tables alone.

*Reuse.* `cache.fingerprint` is taken for injective: a fingerprint is the record of what is hashed. A value is the
computation that made it: the node with its declaration, the values of its inputs, and, without a cache key, the run.
A payload that is damaged or over the reader's limit is one that is not found. `resume` is `arun` with `previous`.
The admission order and the number of slots are left to `Coordinator`: here any ready node may be admitted next.
`Interrupt` is an exception at any point of the loop: it may come with some of a batch admitted and not started, or between
the steps of `complete` (before the note, before the row); `SaveRaises` is one of `_save_result`, with the output kept and the core not told.
An abandoned run is one whose process died, or whose last commit raised.

*Declare.* One list per task stands for all its arguments, nested ones and keywords included: `_map_value` rebuilds
them in the same way, node by node. Lists are objects: what the program holds, and what a callable was handed,
can be changed at any time.

*Encode.* The recursion is an explicit stack. A dict counts for its values; a dict with a key that is no string is a
foreign object. Whether the payload is within the limit is a free choice.

## Runs

| Run | Instance | What it shows |
|---|---|---|
| `core` | 4 nodes, all 64 graphs whose edges point backwards, every selection, capacity 1 and 2 | the bookkeeping of the core is exact, it never stalls, states move forward, it implements `DagRun` and, under fairness, `Terminates` |
| `coordinator` | 3 nodes, all 25 acyclic graphs, every selection, capacity 1 and 2; nodes 0 and 2 reusable, node 1 async, the others blocking; at most 2 storage failures, crashes, cancellation of the run or of all tasks | tasks, threads, core, record and lease agree, evidence is kept, admission stops, and, under fairness, the run ends; of the two promises below it keeps `IdlesOnlyAfterReuse` and `UnknownMeansStarted` |
| `reuse` | 3 nodes, capacity 2, node 0 reusable | violates `WorkConserving` (below) |
| `faults` | the same with one storage failure | violates `UnknownWasStarted` (below) |
| `shutdown` | 2 nodes, one blocking and one async, capacity 2, no storage failure | violates `NoThreadReportedStopped` (below) |
| `build` | 2 builders that share 3 names, every program of `add`, `depends_on` and one `compile` of a builder with 3 nodes | the edges are those asked for, `compile` returns a topology, refuses exactly cycles and names the nodes it says it names |
| `declare` | 2 graphs with the same 2 names, at most 6 lists, 1 plan, at most one node in a list or a call | what a plan binds is scheduled with it and never changes |
| `history` | 3 callers, 1 run of 1 node | answers are whole, a run ends once and lives as `RunLife` says, and every lease is given back |
| `schema` | 3 openers, 40 databases: new, version 1, version 2, a later one, and another program's with version 0, 1 or 2 and any of our tables; in WAL mode or not | a commit is whole, and those who open our store are served |
| `resume` | 2 runs of 2 nodes; 6 plans that differ in a key, its absence, the version, the name or the edge; `rerun` of nothing or of node 0 | outputs are fresh, reuse is vouched for, nothing is repeated unasked, what is done is noted |
| `replay` | 3 runs of 2 nodes without cache keys | violates `NeverReplayedUnasked` (below) |
| `encode` | every heap of 4 objects with at most 2 items each | a value is refused exactly if it cannot be written down |

**The bounds.** Four nodes hold a diamond, a chain of four, two components, and a node blocked along two
paths; every acyclic graph of four nodes is one of the 64 up to the numbering of the nodes, and the
numbering matters only to the order of the queue, which `coordinator` varies with all 25 graphs of three nodes.
Capacity 1 serialises, 2 leaves a slot free beside a running node. Two storage
failures (`MaxFaults`) are the least that reach the except block and then fail in it.

Two builders (`MaxBuilders`) and three names make handles with an index that exists in both builders, or in only one;
three nodes make a cycle of two with a node above or below it. Two graphs with two names make a namesake for every
node. Six lists (`MaxLists`) are what two tasks, their plan and one call need; one node per list (`MaxRefs`) is enough
for an edge, and two edges of a task come from its list and its `after`. Three callers of one run
are its owner and two recoveries, or a reader among them; runs do not touch each other but by the identity of a lease, which the
proofs cover for any number. One node suffices for what callers see of the rows as a whole. With two openers the
third is the one that comes when the first has died. Two runs (`MaxRuns`) can overlap and overwrite each other's
results, or resume, and three are the least chain. `resume` has 5.2 million states and `encode` 1.2 million; in
`encode` four objects (`Size`) with two items (`MaxItems`) make a child shared by two containers, a cycle of up
to four, and a cycle hanging below a shared child.

**Deadlock** is checked in `core`, `declare`, `history` and `schema`, where the callers can always go on. The others stop:
a run returns or its process dies, a graph is compiled, a value is accepted. `RunEnds` says that
a run does not stop before.

**Fairness.** `core` assumes that the caller goes on admitting while it can, and that each running node
is reported: `arun` loops until `done()` and awaits each task. `coordinator` assumes that the event loop
goes on running the coroutine, that a created task begins and a finished one ends when control is given up, and that every
callable returns, in the loop or in its thread (`ThreadReturns`). The last is what the documentation asks of callables (a task that never returns can
delay cancellation for ever). `history` assumes that a call in progress goes on (`Proceeds`), one step after another,
which `RunEnds` justifies for an owner and the absence of any waiting for all others: the lock is tried without blocking. Nothing is assumed of
crashes, cancellation, storage failures, or of anyone calling `recover`.

### What the violated runs show

- **`reuse`.** `arun` goes round its loop again after a reuse only if no future is pending
  (`graph.py:387`). If a batch has both a reused node and one that was started, the dependents of the
  reused node wait for the started one to end although there is room for them. The reference
  `semantics.md:13` says that ready tasks overlap up to `max_concurrency`. Nothing is lost but time:
  the next completion admits them. Only a reuse in the batch admitted last can bring it about (`IdlesOnlyAfterReuse`, `RoomIsUsed`).
- **`faults`.** When a storage call raises while a batch is being started, the admitted nodes that have
  no task yet are running for the core, and the except block records them as unknown (`graph.py:424`).
  `docs/API.md:48` says that unknown is for outcomes that are uncertain. These never began, and
  recovery after a crash at the same point records them as cancelled. As long as no storage call has raised this cannot happen
  (`UnknownMeansStarted`, `UnknownOnlyIfStarted`).
- **`shutdown`.** `complete` takes a cancelled future for the end of its node (`graph.py:333`). A blocking callable goes on
  when its task is cancelled, and `arun` takes care never to do that; but a loop that shuts down cancels every task, and then the
  row says cancelled while the thread executes and may succeed. `docs/CONTRACT.md:34` says that a running thread is never
  reported as stopped. What still holds is proved: such a task never ends with a value (`RecordHonest`), the thread keeps its slot
  (`CapacityKept`), and the lease is kept until it returns (`LeaseKept`).
- **`replay`.** `explain_run` looks at the rows of the run that is resumed, not at those of the run that one had resumed
  (`graph.py:261`). Run 1 starts a node without a cache key; run 2 resumes it for another target, so that node is
  unselected in it; run 3 resumes run 2 and starts the node again without a decision. `README.md:99` says that previously
  started work without a key requires a named decision. `NoSilentRepeat` (`resume`) shows that it does with respect
  to the run that is resumed.

## Proofs

All proofs are for every value of the constants. The assumptions are those the modules name: `N` is positive,
capacities are positive, which `RunState::new` enforces, model values that stand for nobody are none of the others, and each member
of `Topologies` is what `compile` returns (`IsTopology`); that one is discharged by the proofs about `Kahn`. The plans of `Reuse` have no
cycle (each node can be given a place after those it depends on), because a plan has been compiled; they may otherwise differ in everything.

`Topology_proofs` has the facts about sets of nodes, `Reach` and `Listed`. That a set can be listed in
the order of a key is shown by a least counterexample on its size.

`Build_proofs`, on `Kahn`: `LoopInv` is inductive for any vector of dependencies, cyclic or not. Placed and queued nodes are together exactly those
whose counter is zero, each once, and a counter is the number of dependencies not placed. From it: what is returned is a topology,
a placed node has everything it reaches placed before it and so is on no cycle, and if nodes remain, each
has a remaining dependency, so that following them inside a finite set closes a cycle (`CycleBelow`, by a least set
closed under a choice of dependencies). Hence `RefusesExactlyCycles` and `NamesBlockedNodes`.

`Build_proofs`, on `Build`: the invariant says what a handle is worth. Owners are never given twice, a handle stands for the node of
its name in its own builder, now and after every later `add`, and a builder's lists are what was granted for it (`ListsMeant`).
`EdgesMeant` is then the translation of indices into names; the properties of `compile` follow because the call enters the loop of `Kahn` in a
state of `LoopInv` (`Entered`).

`RunState_proofs`: the conjunction `Inv` of the core's invariants (and `SelectionClosed`) is inductive, one lemma for each action.

- None of the conjuncts is inductive alone. `unfinished` stays exact under a failure only because the
  set it blocks is counted once; the queue stays exact under a failure only because a ready node is
  never blocked: all its dependencies are done, and a blocked node is below a lost one
  (`BlockedProperties`). The countdown is exact because the node that finishes was not done before and
  is one of the missing ones. `active` never exceeds `capacity` because the loop of `admit` stops in time.
- `NeverStalls` follows from `Inv`: if only pending nodes were left, the first of them in topological
  order would miss a dependency that is pending too and comes before it.
- `Refinement`: the core implements `DagRun` under the mapping that forgets the difference between
  pending and ready. A batch is full, or takes every eligible node, because the queue holds them all;
  and the nodes the worklist of `finish` blocks, though it stops at nodes that are not open, are all
  descendants that still wait.

`Coordinator_proofs`, on the tasks and the core: each step of the coordinator, failures and crashes included,
is a step of the core or leaves it alone (`DrivesCore`), so a run of the coordinator has the core's
invariant and implements `DagRun`. With that invariant at hand, `RunInv` is inductive:

- While the coroutine is in its loop, the nodes the core takes for running are exactly the rest of the
  batch and the nodes in `pending`, and no node is in both. The batch has to be in the invariant:
  between `admit` and the visit of a node the core counts it, and no future exists. Once the run fails,
  only one half remains (what is in `pending` runs), because a start that raised left a running
  node without a future.
- Every live task has a future in `pending` until the drain is over. The queues have no repetition, and
  `done` names finished tasks of `pending`.

`FuturesAgree`, `CapacityKept`, `LeaseKept`, `AlwaysRunnable` and `ArgumentsAvailable` follow.

`Coordinator_proofs`, on the record: it is tied to both. While a run is recorded as running, each row goes with a state of the core and a state of the
task (`Agreed`): a node that has a task has a row that says running or its outcome, and one without has not. A task goes with its thread (`Joined`):
one that has ended with a value or an error found the thread returned with the same, one that has not begun has no thread, and only a cancelled task may
leave one that executes. Once the record is ended neither the rows nor the states change, as nothing is live and the core is not called again. From it:

- `RecordHonest` and `RecordEnded`: the rows of the normal end are final because no node is open when
  `unfinished` is zero, those of the except block because the core was cancelled. That a failed run has a failed or cancelled
  node needs the graph: the first blocked node in topological order has a lost dependency, which is not blocked.
- `OutcomesKept`: a row that has an outcome agrees with the core's state, which the last rows repeat.
- `AdmissionStops`: the drain is the only await left, and the futures of async nodes were all cancelled before.
- `UnknownOnlyIfStarted`: while no storage call has raised, the drain leaves nothing running (`DrainComplete`), so the except block has nothing to
  call unknown. `RoomIsUsed`: `admit` stops for want of room or of ready nodes, and only a reuse makes either before the wait.

`History_proofs`: `HistoryInv` says that a lease is held exactly by those who are in a call that took it, and what each caller may rely
on where it is (`Relies`): an owner finds its run as it left it, a status read as final is final, a recovery that
has committed finds the run ended when it reads again. Others cannot disturb this because they write only to a run that is not ended,
under its lease (`OthersRely`); a recovery that was overtaken writes what is there already
(`RecoveredTwice`). `SpecLivesAsPromised` is the refinement of `RunLife`.

`Schema_proofs`: inside its transaction an opener has nothing to do (`Idle`), will clash (`Doomed`), or is at the stage of the script that its next
statement determines (`Migrating`), and what was committed has not changed since it began. So no statement meets what another opener created,
a database that the script cannot carry to its end is never committed on the way, and a commit is whole. `SpecRowsSurvive` says that recorded runs
survive every opening.

`Reuse_proofs`, for any number of runs, overlapping or resuming each other, and any plans. Its assumption that plans are acyclic is what
makes the two recursive functions of the module, fingerprints and the values nodes compute, well defined: no induction theorem of the
library can be instantiated here, so the defining equations are derived from a least counterexample along the places of the nodes
(`PairsExist`). `FingerprintDetermines` follows in the same way: if two nodes had one fingerprint and different values, so had two of their
dependencies, further up. With it `ReuseInv` is inductive:

- Every stored result, and every output of a node that has a fingerprint, is the value its fingerprint determines (`StoredFresh`,
  `HeldFresh`). This is what lets any run overwrite or delete any row: whoever wrote what `_cached` finds, in whatever run and with whatever plan,
  it is what this run would compute. `OutputsFresh` alone is not inductive, because it says nothing of the table.
- What a run has in hand between two commits (`InPlace`, `Vouched`): a node that was found reusable stays vouched for until its row
  says so, because the run that is resumed is over (`PreviousOver`) and its rows and notes do not change any more. So the decisions taken before the first
  commit still hold when a callable starts (`DecisionsStand`), and `ReuseVouched` holds of rows that are written much later.
- A result is noted before its row is done (`NotedWell`), whatever dies in between: `DoneNoted`.

`Containers_proofs`, on `Declare`: `DeclareInv` says who owns a list. No list of a task or of a plan is among those that the program or a
callable can change (`TasksOwn`, `PlansOwn`), since each is a copy made by `add`, `compile` or the call. Hence one lemma per operation shows that it keeps off
what is owned (`Keeps`), and `BindingsAreFrozen` follows for all of them at once. `BindingsAreScheduled` needs that what a task refers to was
checked when it was declared, that names stay declared, and that what `select` returns is closed under dependencies (`AboveClosed`).

`Containers_proofs`, on `Encode`: `EncodeInv` is about the frames of `check`, for any heap. Each is in a container that all frames before it hold
(`FramesNested`), no two in the same one (`FramesDistinct`), and whatever a frame has passed can be written down, but for the container
the next frame is in (`FramesCover`). So an object in `seen` that is met again is in itself, and the root holds it; a container is left
only when all its items can be written down, and then so can it (`ContainerWritable`), for it cannot be in itself without being in one of
them. Distinctness is what makes `seen.remove` forget one container and no other. Termination of the walk is left to TLC's finite graphs: the theorem is about
every verdict that is given.

**Only model-checked:** liveness (`Terminates`, `RunEnds`, `LeaseReturned`), which is out of TLAPS's reach. `KahnOrder`, the function with
which TLC makes the graphs of `core` and `coordinator`, is not what is proved correct, `Kahn` is; TLC evaluates the assumption on
`Topologies` on every instance. Every invariant and every action property of a passing run is a theorem.

## Not modelled

- The command line, the skill scripts, examples and benchmarks are programs around the library.
- The native bindings keep no state; conversions and error mapping are left out, but for what `compile_topology` does with a graph.
- `History.runs` and `latest` read only, in one statement each. Retention is the caller's.
- Texts: reasons, tracebacks, formatted errors. One consequence: a node that `explain_run` calls reusable, but whose result is gone when it is
  admitted and whose callable then fails, keeps the reason it was given before; no state depends on it.
- An exception object that is false in a boolean context (`graph.py:354` tests `exc` so) would be taken for no exception.
- The cancellation of a single task of a run from outside (through `asyncio.all_tasks`) while `arun` goes on: its node is then completed as
  cancelled, and its slot given to another while the thread executes. `KeyboardInterrupt` raised inside `arun`'s own synchronous code.
- A child process that a callable forks inherits the lock file and can hold a lease beyond its parent.
- `RecursionError` of a deeply nested argument or result, memory, and the Windows form of the file lock.

**Plan.** What is left to prove ties modules together: that a plan's `selected` in `Declare` is what `Topology` selects, that the choice
`Coordinator` leaves open (a result is found or not) is the one `Reuse` makes, and bounds on the steps of `check` and of Kahn's loop.
