------------------------------ MODULE History ------------------------------
(***************************************************************************)
(* The history store as its callers share it (python/traversal/history.py):*)
(* owners that record their runs, callers of get() and of recover(), each  *)
(* a process of its own that may die between any two statements.  A run is *)
(* guarded by a lease, a file lock that the system takes back from a dead  *)
(* process.  Every statement of get() reads a snapshot of its own, and     *)
(* every other method is one transaction.                                  *)
(***************************************************************************)
EXTENDS RunRecord

CONSTANTS
    Clients,  \* the callers
    Runs,     \* the run identifiers
    NoOne     \* stands for no holder and for no row

ASSUME HistoryAssumption == NoOne \notin Clients /\ NoOne \notin Records

VARIABLES
    rows,    \* the record of each run, or NoOne
    lease,   \* the holder of each lock, or NoOne
    client   \* where each caller is in its call, on which run, and what it read

historyVars == <<rows, lease, client>>

Owning == {"inserting", "working", "ended"}
Reading == {"status", "nodes"}
Recovering == {"leasing", "writing", "written", "raised"}
Phase == {"idle", "answered", "refused"} \cup Owning \cup Reading \cup Recovering

Blank == [status |-> "running", nodes |-> [n \in Nodes |-> "pending"]]

Idle == [at |-> "idle", op |-> "none", run |-> NoOne, seen |-> Blank]

Answers == [status : RunStatus, nodes : [Nodes -> RowState]]

HistoryInit ==
    /\ rows = [r \in Runs |-> NoOne]
    /\ lease = [r \in Runs |-> NoOne]
    /\ client = [c \in Clients |-> Idle]

At(c, phase) == client[c].at = phase

Goes(c, phase) == client' = [client EXCEPT ![c].at = phase]

Returns(c) == client' = [client EXCEPT ![c] = Idle]

Write(r, record) == rows' = [rows EXCEPT ![r] = record]

-----------------------------------------------------------------------------
\* _start: the lease of a fresh identifier, then both inserts as one transaction.
StartLease(c, r) ==
    /\ At(c, "idle") /\ rows[r] = NoOne /\ lease[r] = NoOne
    /\ lease' = [lease EXCEPT ![r] = c]
    /\ client' = [client EXCEPT ![c] = [Idle EXCEPT !.at = "inserting", !.op = "start", !.run = r]]
    /\ UNCHANGED rows

StartInsert(c, r) ==
    /\ At(c, "inserting")
    /\ \E selected \in (SUBSET Nodes) \ {{}} : Write(r, Inserted(selected))
    /\ Goes(c, "working")
    /\ UNCHANGED lease

StartRaises(c, r) ==
    /\ At(c, "inserting")
    /\ lease' = [lease EXCEPT ![r] = NoOne]
    /\ Returns(c)
    /\ UNCHANGED rows

\* _running and _finished, as arun calls them.
Mark(c, r) ==
    /\ At(c, "working")
    /\ \E n \in Nodes :
           \/ rows[r].nodes[n] = "pending" /\ Write(r, MarkedRunning(rows[r], n))
           \/ rows[r].nodes[n] = "pending" /\ Write(r, MarkedFinished(rows[r], n, "reused"))
           \/ /\ rows[r].nodes[n] = "running"
              /\ \E outcome \in {"succeeded", "failed", "cancelled"} :
                     Write(r, MarkedFinished(rows[r], n, outcome))
    /\ UNCHANGED <<lease, client>>

\* What _end may write over a row: Coordinator says which of these and when.
LastStates(state) ==
    CASE state \in {"pending", "ready"} -> {"blocked", "cancelled"}
      [] state = "running" -> {"succeeded", "failed", "cancelled", "unknown"}
      [] OTHER -> {state}

\* _end.
EndCommits(c, r) ==
    /\ At(c, "working")
    /\ \E last \in [Nodes -> RowState], status \in RunStatus \ {"running"} :
           /\ \A n \in Nodes : last[n] \in LastStates(rows[r].nodes[n])
           /\ Write(r, Ended(rows[r], last, status))
    /\ Goes(c, "ended")
    /\ UNCHANGED lease

\* The commit of _end raises, and the run is left as it is.
EndRaises(c, r) ==
    /\ At(c, "working")
    /\ Goes(c, "ended")
    /\ UNCHANGED <<rows, lease>>

\* The finally clause of arun.
OwnerCloses(c, r) ==
    /\ At(c, "ended")
    /\ lease' = [lease EXCEPT ![r] = NoOne]
    /\ Returns(c)
    /\ UNCHANGED rows

-----------------------------------------------------------------------------
\* get() and recover() are called with a run; one that has no row is a KeyError.
Call(c, r, op) ==
    /\ At(c, "idle") /\ rows[r] # NoOne
    /\ client' = [client EXCEPT ![c] = [Idle EXCEPT !.at = "status", !.op = op, !.run = r]]
    /\ UNCHANGED <<rows, lease>>

\* Mutant: the node rows are selected before the run row.
NodesFirst(phase, r, seen) ==
    IF phase = "status" THEN [seen EXCEPT !.nodes = rows[r].nodes]
    ELSE [seen EXCEPT !.status = rows[r].status]

\* The two statements of get(), in the order of the source.
Statement(phase, r, seen) ==
    IF phase = "status" THEN [seen EXCEPT !.status = rows[r].status]
    ELSE [seen EXCEPT !.nodes = rows[r].nodes]

ReadRun(c, r) ==
    /\ At(c, "status")
    /\ client' = [client EXCEPT ![c].at = "nodes", ![c].seen = Statement("status", r, @)]
    /\ UNCHANGED <<rows, lease>>

\* The first get() of recover() decides whether to go on.
ReadNodes(c, r) ==
    /\ At(c, "nodes")
    /\ LET seen == Statement("nodes", r, client[c].seen)
       IN  client' = [client EXCEPT
               ![c].at = IF client[c].op = "recover" /\ seen.status = "running"
                         THEN "leasing" ELSE "answered",
               ![c].seen = seen]
    /\ UNCHANGED <<rows, lease>>

\* The record is handed to the caller, or the RunActiveError.
Answer(c) ==
    /\ client[c].at \in {"answered", "refused"}
    /\ Returns(c)
    /\ UNCHANGED <<rows, lease>>

\* Mutant: it goes on whoever holds it.
RecoverUnleased(c, r) ==
    /\ At(c, "leasing")
    /\ Goes(c, "writing")
    /\ UNCHANGED <<rows, lease>>

\* recover() does not wait for a lock.
RecoverLease(c, r) ==
    /\ At(c, "leasing") /\ lease[r] = NoOne
    /\ lease' = [lease EXCEPT ![r] = c]
    /\ Goes(c, "writing")
    /\ UNCHANGED rows

RecoverRefused(c, r) ==
    /\ At(c, "leasing") /\ lease[r] # NoOne
    /\ Goes(c, "refused")
    /\ UNCHANGED <<rows, lease>>

\* Mutant: the run row is updated whatever its status.
RecoveredAnyway(r) == [Recovered(r) EXCEPT !.status = "interrupted"]

Update(r) == Recovered(r)

RecoverCommits(c, r) ==
    /\ At(c, "writing")
    /\ Write(r, Update(rows[r]))
    /\ Goes(c, "written")
    /\ UNCHANGED lease

RecoverRaises(c, r) ==
    /\ At(c, "writing")
    /\ Goes(c, "raised")
    /\ UNCHANGED <<rows, lease>>

\* Mutant: an exception passes the lease by.
RecoverLeaks(c, r) ==
    /\ client[c].at \in {"written", "raised"}
    /\ lease' = IF At(c, "written") THEN [lease EXCEPT ![r] = NoOne] ELSE lease
    /\ client' = [client EXCEPT ![c] = IF At(c, "raised") THEN Idle
                                       ELSE [@ EXCEPT !.at = "status", !.op = "reread"]]
    /\ UNCHANGED rows

RecoverCloses(c, r) ==
    /\ client[c].at \in {"written", "raised"}
    /\ lease' = [lease EXCEPT ![r] = NoOne]
    /\ client' = [client EXCEPT ![c] = IF At(c, "raised") THEN Idle
                                       ELSE [@ EXCEPT !.at = "status", !.op = "reread"]]
    /\ UNCHANGED rows

\* The process dies: what it committed stays, and its lock is released.
Crash(c) ==
    /\ ~ At(c, "idle")
    /\ lease' = [r \in Runs |-> IF lease[r] = c THEN NoOne ELSE lease[r]]
    /\ Returns(c)
    /\ UNCHANGED rows

-----------------------------------------------------------------------------
Begins(c) == \E r \in Runs : StartLease(c, r) \/ \E op \in {"get", "recover"} : Call(c, r, op)

\* A step of a call in progress.
Proceeds(c) ==
    \/ Answer(c)
    \/ \E r \in Runs :
           /\ client[c].run = r
           /\ \/ StartInsert(c, r) \/ StartRaises(c, r) \/ EndCommits(c, r) \/ EndRaises(c, r)
              \/ OwnerCloses(c, r) \/ ReadRun(c, r) \/ ReadNodes(c, r)
              \/ RecoverLease(c, r) \/ RecoverRefused(c, r)
              \/ RecoverCommits(c, r) \/ RecoverRaises(c, r) \/ RecoverCloses(c, r)

Works(c) == \E r \in Runs : client[c].run = r /\ Mark(c, r)

HistoryNext == \E c \in Clients : Begins(c) \/ Proceeds(c) \/ Works(c) \/ Crash(c)

HistorySpec == HistoryInit /\ [][HistoryNext]_historyVars

\* A call in progress goes on: no statement waits for another caller, and a
\* run ends (Coordinator!RunEnds) once its tasks have.
HistoryFairSpec == HistorySpec /\ \A c \in Clients : WF_historyVars(Proceeds(c))
-----------------------------------------------------------------------------
HistoryTypeOK ==
    /\ rows \in [Runs -> Records \cup {NoOne}]
    /\ lease \in [Runs -> Clients \cup {NoOne}]
    /\ client \in [Clients -> [at : Phase, op : {"none", "start", "get", "recover", "reread"},
                               run : Runs \cup {NoOne}, seen : Answers]]

Holding == Owning \cup {"writing", "written", "raised"}

\* A lease is held by a caller in the middle of a call that took it, and by
\* nobody else: none is leaked, whatever raises or dies, so that no run is
\* unrecoverable for ever.
LeaseExact ==
    \A r \in Runs, c \in Clients :
        lease[r] = c <=> client[c].run = r /\ client[c].at \in Holding

\* Nobody ends a run under its owner: while an owner works, its run is recorded
\* as running and its nodes as the owner left them.
OwnerUndisturbed ==
    \A c \in Clients :
        At(c, "working") =>
            LET record == rows[client[c].run]
            IN  /\ record # NoOne /\ record.status = "running"
                /\ \A n \in Nodes : record.nodes[n] # "unknown"

\* A record that shows a run as ended shows it whole: its nodes were not read
\* before its last rows were written.  What recover() returns is such a record.
\* resume() and explain_run() decide by the nodes of such a record.
AnswersSettled ==
    \A c \in Clients :
        At(c, "answered") =>
            /\ client[c].op \in {"recover", "reread"} => client[c].seen.status # "running"
            /\ client[c].seen.status # "running" =>
                   /\ client[c].seen.status = rows[client[c].run].status
                   /\ client[c].seen.nodes = rows[client[c].run].nodes

\* An ended run has no node left that could still change.
EndedIsClosed ==
    \A r \in Runs :
        rows[r] # NoOne /\ rows[r].status # "running" =>
            \A n \in Nodes : rows[r].nodes[n] \notin {"running", "pending", "ready"}

\* A run ends once: a recovery that was overtaken by the owner, or by another
\* recovery, changes nothing.
EndedOnce ==
    [][\A r \in Runs :
          rows[r] # NoOne /\ rows[r].status # "running" => rows'[r] = rows[r]]_historyVars

\* The life of each run, as RunLife promises it.  "stolen" is no state of it.
LifeOf(r) ==
    LET worked == \E c \in Clients : client[c].run = r /\ At(c, "working")
    IN  IF rows[r] = NoOne THEN "absent"
        ELSE IF rows[r].status = "running" THEN IF worked THEN "active" ELSE "abandoned"
        ELSE IF worked THEN "stolen" ELSE rows[r].status

Life == INSTANCE RunLife WITH life <- [r \in Runs |-> LifeOf(r)]

LivesAsPromised == Life!LifeSpec

\* A lease comes free again.
LeaseReturned == \A r \in Runs : lease[r] # NoOne ~> lease[r] = NoOne
=============================================================================
