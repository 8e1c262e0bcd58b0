----------------------------- MODULE RunRecord -----------------------------
(***************************************************************************)
(* What the history store keeps of one run: the row of table runs and its  *)
(* rows of table nodes (python/traversal/history.py).  Every operator is   *)
(* one transaction.  Times are left out but for whether started_at is set, *)
(* which resume reads.                                                     *)
(***************************************************************************)
EXTENDS Topology

Outcomes == {"succeeded", "reused", "failed", "blocked", "cancelled"}

RowState == {"unselected", "pending", "ready", "running", "unknown"} \cup Outcomes

RunStatus == {"running", "succeeded", "failed", "interrupted"}

Records == [status : RunStatus, nodes : [Nodes -> RowState], started : [Nodes -> BOOLEAN]]

\* History._start
Inserted(selected) ==
    [status  |-> "running",
     nodes   |-> [n \in Nodes |-> IF n \in selected THEN "pending" ELSE "unselected"],
     started |-> [n \in Nodes |-> FALSE]]

\* History._running
MarkedRunning(r, n) == [r EXCEPT !.nodes[n] = "running", !.started[n] = TRUE]

\* History._finished
MarkedFinished(r, n, outcome) == [r EXCEPT !.nodes[n] = outcome]

\* History._end: every node row is written, whatever it held.
Ended(r, rows, status) == [r EXCEPT !.nodes = rows, !.status = status]

\* The update of History.recover.  The node rows are written unconditionally,
\* the run row only while its status is still running.

\* Mutant: work that never started is taken for work that was running.
RecoveredAsUnknown(r) ==
    [r EXCEPT !.nodes = [n \in Nodes |-> IF r.nodes[n] \in {"running", "pending", "ready"}
                                         THEN "unknown" ELSE r.nodes[n]],
              !.status = IF @ = "running" THEN "interrupted" ELSE @]

\* Mutant: without the condition on the state, every other row is cancelled.
RecoveredAll(r) ==
    [r EXCEPT !.nodes = [n \in Nodes |-> IF r.nodes[n] = "running" THEN "unknown" ELSE "cancelled"],
              !.status = IF @ = "running" THEN "interrupted" ELSE @]

Recovered(r) ==
    [r EXCEPT !.nodes = [n \in Nodes |-> IF r.nodes[n] = "running" THEN "unknown"
                                         ELSE IF r.nodes[n] \in {"pending", "ready"} THEN "cancelled"
                                         ELSE r.nodes[n]],
              !.status = IF @ = "running" THEN "interrupted" ELSE @]
=============================================================================
