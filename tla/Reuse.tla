-------------------------------- MODULE Reuse --------------------------------
(***************************************************************************)
(* Results reused from run to run: explain_run, the admission loop and     *)
(* complete of Plan.arun (python/traversal/graph.py) with the results      *)
(* table, the cache keys of the node rows and the resume link of the       *)
(* history store (python/traversal/history.py).  Runs of one store follow  *)
(* or overlap each other, in one process or several.                       *)
(*                                                                         *)
(* A run's coroutine does one thing at a time and each action ends at its  *)
(* next commit, or before one that may raise.  What the order of admission *)
(* and the number of slots may be is the business of Coordinator; here any *)
(* ready node may come next.                                               *)
(* A value is what computed it: the node, its declaration and its inputs.  *)
(***************************************************************************)
EXTENDS RunRecord

CONSTANTS
    MaxRuns,  \* bound on the calls of arun
    Plans,    \* compiled plans: graph, version, targets, dependencies, cache
    Reruns,   \* what rerun= may name
    NoKey,    \* the cache key of a node that has none
    NoRun     \* no run

Runs == 1 .. MaxRuns

Fields == {"graph", "version", "targets", "dependencies", "cache"}

ASSUME ReuseAssumption ==
    /\ MaxRuns \in Nat \ {0} /\ NoRun \notin Runs /\ Reruns \subseteq SUBSET Nodes
    /\ \A p \in Plans :
           /\ DOMAIN p = Fields
           /\ p.targets \subseteq Nodes
           /\ p.dependencies \in [Nodes -> SUBSET Nodes] /\ DOMAIN p.cache = Nodes
           \* compile() refuses a cycle: a node comes after its dependencies.
           /\ \E position \in [Nodes -> Nodes] :
                  \A n \in Nodes : \A d \in p.dependencies[n] : position[d] < position[n]

VARIABLES
    at,       \* where each run is: a place, and the node it has in hand
    args,     \* what each run was called with: its plan, previous and rerun
    core,     \* the states its scheduler holds
    outputs,  \* its dictionary of results
    rows,     \* its committed rows
    noted,    \* the cache key committed in each of its node rows
    stopped,  \* the runs that an exception has stopped
    results   \* the committed table of results, by fingerprint

reuseVars == <<at, args, core, outputs, rows, noted, stopped, results>>

Good == {"succeeded", "reused"}

Selected(r) == Select(args[r].plan, args[r].plan.targets)

\* Mutant: the fingerprint of a node leaves out those of its dependencies.
FingerprintsOwn(plan) ==
    [n \in Nodes |-> IF plan.cache[n] = NoKey THEN NoKey
                     ELSE [graph |-> plan.graph, version |-> plan.version, node |-> n,
                           key |-> plan.cache[n], inputs |-> <<>>]]

\* Plan._fingerprints, and cache.fingerprint taken for injective.
Fingerprints(plan) ==
    LET keys[n \in Nodes] ==
            IF plan.cache[n] = NoKey \/ \E d \in plan.dependencies[n] : keys[d] = NoKey THEN NoKey
            ELSE [graph |-> plan.graph, version |-> plan.version, node |-> n, key |-> plan.cache[n],
                  inputs |-> [d \in plan.dependencies[n] |-> keys[d]]]
    IN  keys

KeyTable == [p \in Plans |-> Fingerprints(p)]

Key(r, n) == KeyTable[args[r].plan][n]

\* What a callable returns.  A node with a cache key is declared to compute the
\* same from the same inputs until its key changes; one without may return
\* something else in every run.
Computes(r, n) ==
    LET plan == args[r].plan
    IN  [graph |-> plan.graph, version |-> plan.version, node |-> n, key |-> plan.cache[n],
         by |-> IF plan.cache[n] = NoKey THEN r ELSE NoRun,
         inputs |-> [d \in plan.dependencies[n] |-> outputs[r][d]]]

\* A function with one more entry, or one less.
With(f, x, y) == [z \in DOMAIN f \cup {x} |-> IF z = x THEN y ELSE f[z]]

Without(f, x) == [z \in DOMAIN f \ {x} |-> f[z]]

NoRows == [Inserted({}) EXCEPT !.status = "none"]

ReuseInit ==
    /\ at = [r \in Runs |-> <<"new">>]
    /\ args = [r \in Runs |-> NoRun]
    /\ core = [r \in Runs |-> [n \in Nodes |-> "unselected"]]
    /\ outputs = [r \in Runs |-> <<>>]
    /\ rows = [r \in Runs |-> NoRows]
    /\ noted = [r \in Runs |-> [n \in Nodes |-> NoKey]]
    /\ stopped = {}
    /\ results = <<>>

Goto(r, place) == at' = [at EXCEPT ![r] = place]

-----------------------------------------------------------------------------
\* Mutant: the state of the row is not looked at.
VouchesByKey(previous, n, key) == previous # NoRun => noted[previous][n] = key

\* The part of History._cached that asks whether the previous run vouches.
Vouches(previous, n, key) ==
    previous # NoRun => noted[previous][n] = key /\ rows[previous].nodes[n] \in Good

\* What can be found: a result that is stored and vouched for.  It is not found
\* if it is over the limit of this store or damaged, and the node is run.
Findable(previous, n, key) == Vouches(previous, n, key) /\ key \in DOMAIN results

\* Mutant: only what is recorded as started and unfinished counts.
DecisionsUnknown(plan, previous, rerun) ==
    {n \in Select(plan, plan.targets) \ rerun :
        /\ plan.cache[n] = NoKey /\ previous # NoRun
        /\ rows[previous].nodes[n] = "unknown"}

\* The nodes explain_run wants a decision about.
Decisions(plan, previous, rerun) ==
    {n \in Select(plan, plan.targets) \ rerun :
        /\ plan.cache[n] = NoKey /\ previous # NoRun
        /\ \/ rows[previous].started[n]
           \/ rows[previous].nodes[n] \in {"succeeded", "reused", "failed", "unknown"}}

\* Which previous runs explain_run accepts.
Resumes(plan, previous) ==
    previous # NoRun => /\ rows[previous].status \notin {"none", "running"}
                        /\ args[previous].plan.graph = plan.graph

\* The head of arun.  A call that is refused changes nothing.
Explain(r) ==
    /\ at[r] = <<"new">> /\ (r > 1 => at[r - 1] # <<"new">>)
    /\ \E plan \in Plans, previous \in (1 .. r - 1) \cup {NoRun}, rerun \in Reruns :
           /\ Resumes(plan, previous)
           /\ Decisions(plan, previous, rerun) = {}
           /\ args' = [args EXCEPT ![r] = [plan |-> plan, previous |-> previous, rerun |-> rerun]]
    /\ Goto(r, <<"explained">>)
    /\ UNCHANGED <<core, outputs, rows, noted, results, stopped>>

\* The scheduler and History._start.
Start(r) ==
    /\ at[r] = <<"explained">>
    /\ rows' = [rows EXCEPT ![r] = Inserted(Selected(r))]
    /\ core' = [core EXCEPT ![r] = [n \in Nodes |-> IF n \in Selected(r) THEN "pending" ELSE "unselected"]]
    /\ Goto(r, <<"loop">>)
    /\ UNCHANGED <<args, outputs, noted, results, stopped>>

-----------------------------------------------------------------------------
Ready(r) ==
    {n \in Nodes : core[r][n] = "pending" /\ \A d \in args[r].plan.dependencies[n] : core[r][d] \in Good}

MayReuse(r, n) == Key(r, n) # NoKey /\ n \notin args[r].rerun

\* An admitted node whose result is found, up to the note in its row.
Hit(r, n) ==
    /\ at[r] = <<"loop">> /\ n \in Ready(r)
    /\ MayReuse(r, n) /\ Findable(args[r].previous, n, Key(r, n))
    /\ outputs' = [outputs EXCEPT ![r] = With(@, n, results[Key(r, n)])]
    /\ noted' = [noted EXCEPT ![r][n] = Key(r, n)]
    /\ core' = [core EXCEPT ![r][n] = "running"]
    /\ Goto(r, <<"vouched", n>>)
    /\ UNCHANGED <<args, rows, results, stopped>>

\* Any other admitted node, its row marked before its callable runs.
Run(r, n) ==
    /\ at[r] = <<"loop">> /\ n \in Ready(r)
    /\ core' = [core EXCEPT ![r][n] = "running"]
    /\ rows' = [rows EXCEPT ![r] = MarkedRunning(@, n)]
    /\ UNCHANGED <<at, args, outputs, noted, results, stopped>>

\* The core is told of an end that blocks what depends on it.
Blocking(r, n, state) ==
    [m \in Nodes |-> IF m = n THEN state
                     ELSE IF core[r][m] = "pending" /\ n \in Reach({m}, args[r].plan.dependencies)
                          THEN "blocked" ELSE core[r][m]]

\* A node whose future is still to be completed.
Working(r, n) ==
    /\ at[r] = <<"loop">> /\ core[r][n] = "running" /\ rows[r].nodes[n] = "running"
    /\ n \notin DOMAIN outputs[r]

\* _save_result: a value that is not JSON or is too large is not stored, and
\* what was stored under its fingerprint is deleted.
Save(r, n, value) ==
    \/ results' = With(results, Key(r, n), value)
    \/ results' = Without(results, Key(r, n))

\* complete, of a callable that returned, up to the note.
Succeed(r, n) ==
    /\ Working(r, n)
    /\ outputs' = [outputs EXCEPT ![r] = With(@, n, Computes(r, n))]
    /\ core' = [core EXCEPT ![r][n] = "succeeded"]
    /\ IF Key(r, n) = NoKey THEN UNCHANGED results ELSE Save(r, n, Computes(r, n))
    /\ Goto(r, <<"saved", n>>)
    /\ UNCHANGED <<args, rows, noted, stopped>>

\* _save_result raises: the output is kept, the core is not told, and the run is
\* stopped like by Interrupt.
SaveRaises(r, n) ==
    /\ Working(r, n) /\ Key(r, n) # NoKey /\ r \notin stopped
    /\ outputs' = [outputs EXCEPT ![r] = With(@, n, Computes(r, n))]
    /\ stopped' = stopped \cup {r}
    /\ core' = [core EXCEPT ![r] =
                   [m \in Nodes |-> IF core[r][m] = "pending" THEN "cancelled" ELSE core[r][m]]]
    /\ UNCHANGED <<at, args, rows, noted, results>>

\* complete, of a callable that raised, up to the note.
Fail(r, n) ==
    /\ Working(r, n)
    /\ core' = [core EXCEPT ![r] = Blocking(r, n, "failed")]
    /\ Goto(r, <<"saved", n>>)
    /\ UNCHANGED <<args, outputs, rows, noted, results, stopped>>

\* complete, of a task that was cancelled, which has no note.
Cancelled(r, n) ==
    /\ Working(r, n)
    /\ core' = [core EXCEPT ![r] = Blocking(r, n, "cancelled")]
    /\ rows' = [rows EXCEPT ![r] = MarkedFinished(@, n, "cancelled")]
    /\ UNCHANGED <<at, args, outputs, noted, results, stopped>>

\* Mutant: only what a run reuses is noted.
NoteNothing(r, n) ==
    /\ at[r] = <<"saved", n>>
    /\ Goto(r, <<"noted", n>>)
    /\ UNCHANGED <<args, core, outputs, rows, noted, results, stopped>>

\* _reuse_note, once the result is stored and the core is told.
Note(r, n) ==
    /\ at[r] = <<"saved", n>>
    /\ noted' = [noted EXCEPT ![r][n] = Key(r, n)]
    /\ Goto(r, <<"noted", n>>)
    /\ UNCHANGED <<args, core, outputs, rows, results, stopped>>

\* _finished, in a transaction of its own.
Finish(r, n) ==
    /\ at[r] \in {<<"vouched", n>>, <<"noted", n>>}
    /\ LET state == IF at[r][1] = "vouched" THEN "reused" ELSE core[r][n]
       IN  /\ rows' = [rows EXCEPT ![r] = MarkedFinished(@, n, state)]
           /\ core' = [core EXCEPT ![r][n] = state]
    /\ Goto(r, <<"loop">>)
    /\ UNCHANGED <<args, outputs, noted, results, stopped>>

-----------------------------------------------------------------------------
InHand == {"loop", "vouched", "saved", "noted"}

\* An exception, of a storage call or from outside: what is pending is
\* cancelled; what was admitted with the node in hand stays admitted, and the
\* callables that run are waited for.
Interrupt(r) ==
    /\ at[r][1] \in InHand /\ r \notin stopped
    /\ stopped' = stopped \cup {r}
    /\ \E admitted \in SUBSET Ready(r) :
           core' = [core EXCEPT ![r] =
                       [n \in Nodes |-> IF core[r][n] # "pending" THEN core[r][n]
                                        ELSE IF n \in admitted THEN "running" ELSE "cancelled"]]
    /\ Goto(r, <<"loop">>)
    /\ UNCHANGED <<args, outputs, rows, noted, results>>

\* The coroutine is gone, with its scheduler and its dictionary.
Forgotten(r) ==
    /\ outputs' = [outputs EXCEPT ![r] = <<>>]
    /\ core' = [core EXCEPT ![r] = [n \in Nodes |-> "unselected"]]

\* The last commit, when no callable runs any more.
End(r) ==
    /\ at[r] = <<"loop">> /\ \A n \in Nodes : ~ Working(r, n)
    /\ r \in stopped \/ \A n \in Nodes : core[r][n] \notin {"pending", "running"}
    /\ LET states == [n \in Nodes |-> IF core[r][n] = "running" THEN "unknown" ELSE core[r][n]]
           status == IF r \in stopped THEN "interrupted"
                     ELSE IF \A n \in Nodes : states[n] \in Good \cup {"unselected"} THEN "succeeded"
                     ELSE "failed"
       IN  rows' = [rows EXCEPT ![r] = Ended(@, states, status)]
    /\ Goto(r, <<"ended">>)
    /\ Forgotten(r)
    /\ UNCHANGED <<args, noted, results, stopped>>

\* The process dies, or a storage call raises while a run is being drained or
\* ended, and its lease is free.
Abandon(r) ==
    /\ at[r][1] \in InHand
    /\ Goto(r, <<"abandoned">>)
    /\ Forgotten(r)
    /\ UNCHANGED <<args, rows, noted, results, stopped>>

Recover(r) ==
    /\ at[r] = <<"abandoned">>
    /\ rows' = [rows EXCEPT ![r] = Recovered(@)]
    /\ Goto(r, <<"ended">>)
    /\ UNCHANGED <<args, core, outputs, noted, results, stopped>>

ReuseNext ==
    \E r \in Runs :
        \/ Explain(r) \/ Start(r) \/ Interrupt(r) \/ End(r) \/ Abandon(r) \/ Recover(r)
        \/ \E n \in Nodes : \/ Hit(r, n) \/ Run(r, n) \/ Succeed(r, n) \/ SaveRaises(r, n)
                            \/ Fail(r, n) \/ Cancelled(r, n) \/ Note(r, n) \/ Finish(r, n)

ReuseSpec == ReuseInit /\ [][ReuseNext]_reuseVars
-----------------------------------------------------------------------------
Started(r) == at[r][1] \notin {"new", "explained"}

\* Every result a run holds, reused or computed, is what its own plan computes
\* of the results it holds of the dependencies; and what is not declared
\* repeat-safe was computed by this run.  No change of a version, of a key, of
\* the key of an ancestor or of the edges lets a result of before through.
OutputsFresh ==
    \A r \in Runs : \A n \in DOMAIN outputs[r] :
        /\ args[r].plan.dependencies[n] \subseteq DOMAIN outputs[r]
        /\ outputs[r][n] = Computes(r, n)

\* A node that is recorded as reused by a run that resumes another was recorded
\* by that other as done, with the same fingerprint; it was not to be rerun.
ReusedVouched ==
    \A r \in Runs : \A n \in Nodes :
        rows[r].nodes[n] = "reused" =>
            /\ n \notin args[r].rerun
            /\ noted[r][n] = Key(r, n) /\ Key(r, n) # NoKey
            /\ args[r].previous # NoRun =>
                   /\ rows[args[r].previous].nodes[n] \in Good
                   /\ noted[args[r].previous][n] = Key(r, n)

\* A resumed run starts no callable that the run it resumes had started, unless
\* the callable is declared repeat-safe or the caller has named it; the
\* decisions were taken before the run was inserted and still stand.
NoSilentRepeat ==
    \A r \in Runs : Started(r) /\ args[r].previous # NoRun =>
        \A n \in Nodes : rows[r].started[n] /\ rows[args[r].previous].started[n] =>
            args[r].plan.cache[n] # NoKey \/ n \in args[r].rerun

\* A row that is done vouches for its result from the moment it says so: a
\* crash never leaves a repeat-safe node done without its fingerprint.  Only a
\* run that was interrupted can end without having noted it.
DoneIsNoted ==
    \A r \in Runs \ stopped : \A n \in Nodes :
        rows[r].nodes[n] \in Good => noted[r][n] = Key(r, n)
-----------------------------------------------------------------------------
\* The run that r resumes, the run that one resumes, and so on.
Precedes(q, r) ==
    \/ q = args[r].previous
    \/ \E m \in 1 .. r - 1 : m = args[r].previous /\ (q = args[m].previous
           \/ \E k \in 1 .. m - 1 : k = args[m].previous /\ q = args[k].previous)

\* README.md: previously started non-cache work requires a named rerun decision
\* during resume; unknown external effects are never silently replayed.  So a
\* run starts nothing of the kind that a run before it in the chain of resumed
\* runs has started, unless a caller in between has named it.
NeverReplayedUnasked ==
    \A r \in Runs : Started(r) => \A q \in 1 .. r - 1 : \A n \in Nodes :
        Precedes(q, r) /\ rows[q].started[n] /\ rows[r].started[n] /\ args[r].plan.cache[n] = NoKey =>
            \E k \in q + 1 .. r : (k = r \/ Precedes(k, r)) /\ n \in args[k].rerun
=============================================================================
