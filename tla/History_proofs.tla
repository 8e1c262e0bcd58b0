--------------------------- MODULE History_proofs ---------------------------
(***************************************************************************)
(* The history store for any number of callers, runs and nodes.  One       *)
(* inductive invariant carries the safety properties of History, that an   *)
(* ended run never changes, and the refinement of RunLife.                 *)
(***************************************************************************)
EXTENDS History, TLAPS

Callers == [at : Phase, op : {"none", "start", "get", "recover", "reread"},
            run : Runs \cup {NoOne}, seen : Answers]

\* A caller in these phases has a run, and the run has its row.
Rowed == {"working", "ended", "answered", "refused"} \cup Reading \cup Recovering

\* What a caller may rely on, given where it is: a run that is being inserted
\* has no row, one that is worked on is as its owner left it, a recovery that
\* has committed finds the run ended whenever it reads it again, and a status
\* that was read as final is final.
Relies(me, table) ==
    /\ me.at # "idle" => me.run \in Runs
    /\ me.at \in Rowed => table[me.run] # NoOne
    /\ me.at = "inserting" => table[me.run] = NoOne
    /\ me.at = "working" =>
           /\ table[me.run].status = "running"
           /\ \A n \in Nodes : table[me.run].nodes[n] # "unknown"
    /\ me.at = "written" => table[me.run].status # "running"
    /\ me.op = "reread" /\ me.at = "status" => table[me.run].status # "running"
    /\ me.op = "reread" /\ me.at = "nodes" => me.seen.status # "running"
    /\ me.at \in {"nodes", "answered"} /\ me.seen.status # "running" =>
           table[me.run].status = me.seen.status
    /\ me.at = "answered" =>
           /\ me.op \in {"recover", "reread"} => me.seen.status # "running"
           /\ me.seen.status # "running" => me.seen.nodes = table[me.run].nodes

HistoryInv ==
    /\ HistoryTypeOK
    /\ LeaseExact
    /\ EndedIsClosed
    /\ \A c \in Clients : Relies(client[c], rows)

\* What HistoryInv says of the answers and of the owners.
LEMMA InvSettles == HistoryInv => OwnerUndisturbed /\ AnswersSettled
<1> SUFFICES ASSUME HistoryInv, NEW c \in Clients
             PROVE  /\ At(c, "working") => /\ rows[client[c].run] # NoOne
                                           /\ rows[client[c].run].status = "running"
                                           /\ \A n \in Nodes : rows[client[c].run].nodes[n] # "unknown"
                    /\ At(c, "answered") =>
                           /\ client[c].op \in {"recover", "reread"} => client[c].seen.status # "running"
                           /\ client[c].seen.status # "running" =>
                                  /\ client[c].seen.status = rows[client[c].run].status
                                  /\ client[c].seen.nodes = rows[client[c].run].nodes
    BY DEF OwnerUndisturbed, AnswersSettled
<1>1. Relies(client[c], rows)
    BY DEF HistoryInv
<1> QED
    BY <1>1 DEF Relies, Rowed, At

-----------------------------------------------------------------------------
\* The operations on a record yield records.
LEMMA RecordOperations ==
    /\ \A selected \in SUBSET Nodes : Inserted(selected) \in Records
    /\ \A r \in Records, n \in Nodes : MarkedRunning(r, n) \in Records
    /\ \A r \in Records, n \in Nodes, o \in Outcomes : MarkedFinished(r, n, o) \in Records
    /\ \A r \in Records, last \in [Nodes -> RowState], s \in RunStatus : Ended(r, last, s) \in Records
    /\ \A r \in Records : Recovered(r) \in Records
BY DEF Records, RunStatus, RowState, Outcomes, Inserted, MarkedRunning, MarkedFinished, Ended, Recovered

\* Recovering a run that has ended, and is closed, changes nothing.
LEMMA RecoveredTwice ==
    ASSUME NEW r \in Records, r.status # "running",
           \A n \in Nodes : r.nodes[n] \notin {"running", "pending", "ready"}
    PROVE  Recovered(r) = r
<1>1. Recovered(r) \in Records
    BY RecordOperations
<1>2. Recovered(r).nodes = r.nodes
    BY DEF Recovered, Records
<1>3. Recovered(r).status = r.status /\ Recovered(r).started = r.started
    BY DEF Recovered, Records
<1> QED
    BY <1>1, <1>2, <1>3 DEF Records

\* A row is only written while its run goes on: what another caller, who does
\* not hold the lease, relies on stays.
LEMMA OthersRely ==
    ASSUME NEW table, NEW later, NEW r \in Runs, NEW record \in Records,
           table \in [Runs -> Records \cup {NoOne}],
           later = [table EXCEPT ![r] = record],
           table[r] = NoOne \/ table[r].status = "running" \/ record = table[r],
           NEW me \in Callers, Relies(me, table),
           me.run = r => me.at \notin Holding
    PROVE  Relies(me, later)
<1>1. CASE me.run # r
    <2>1. me.at # "idle" => later[me.run] = table[me.run]
        BY <1>1 DEF Relies
    <2> QED
        BY <2>1 DEF Relies, Rowed, Reading, Recovering
<1>2. CASE me.run = r
    <2>1. later[me.run] = record /\ record # NoOne
        BY <1>2, HistoryAssumption
    <2>2. me.at \notin {"inserting", "working", "written"}
        BY <1>2 DEF Holding, Owning
    <2>3. me.at \in Rowed /\ table[r].status # "running" => record = table[r]
        BY <1>2 DEF Relies
    <2> QED
        BY <1>2, <2>1, <2>2, <2>3 DEF Relies, Rowed, Reading, Recovering
<1> QED
    BY <1>1, <1>2

\* The lease table stays exact while a caller keeps what it holds, takes a lease
\* nobody has, and gives back its own.
LEMMA LeasesKept ==
    ASSUME HistoryTypeOK, LeaseExact, NEW c \in Clients, NEW me \in Callers,
           lease' = lease, client' = [client EXCEPT ![c] = me],
           \/ me.run = client[c].run /\ (me.at \in Holding <=> client[c].at \in Holding)
           \/ me.at \notin Holding /\ client[c].at \notin Holding
    PROVE  LeaseExact'
BY DEF HistoryTypeOK, LeaseExact

\* It stays exact when a caller that holds none takes a free one.
LEMMA LeaseTaken ==
    ASSUME HistoryTypeOK, LeaseExact, NEW c \in Clients, NEW r \in Runs, NEW me \in Callers,
           lease[r] = NoOne, client[c].at \notin Holding,
           lease' = [lease EXCEPT ![r] = c], client' = [client EXCEPT ![c] = me],
           me.run = r, me.at \in Holding
    PROVE  LeaseExact'
<1> SUFFICES ASSUME NEW q \in Runs, NEW d \in Clients
             PROVE  lease'[q] = d <=> client'[d].run = q /\ client'[d].at \in Holding
    BY DEF LeaseExact
<1>1. lease[q] = d <=> client[d].run = q /\ client[d].at \in Holding
    BY DEF LeaseExact
<1>2. NoOne # d
    BY HistoryAssumption
<1> QED
    BY <1>1, <1>2 DEF HistoryTypeOK

\* It stays exact when a caller gives back what it holds and leaves its call, as
\* one that dies does.
LEMMA LeaseDropped ==
    ASSUME HistoryTypeOK, LeaseExact, NEW c \in Clients, NEW me \in Callers,
           lease' = [r \in Runs |-> IF lease[r] = c THEN NoOne ELSE lease[r]],
           client' = [client EXCEPT ![c] = me],
           me.at \notin Holding
    PROVE  LeaseExact'
<1> SUFFICES ASSUME NEW q \in Runs, NEW d \in Clients
             PROVE  lease'[q] = d <=> client'[d].run = q /\ client'[d].at \in Holding
    BY DEF LeaseExact
<1>1. lease[q] = d <=> client[d].run = q /\ client[d].at \in Holding
    BY DEF LeaseExact
<1>2. NoOne # d
    BY HistoryAssumption
<1> QED
    BY <1>1, <1>2 DEF HistoryTypeOK

\* The lease that a caller holds is the one of its run.
LEMMA LeaseOfRun ==
    ASSUME HistoryTypeOK, LeaseExact, NEW c \in Clients, NEW r \in Runs,
           client[c].run = r, client[c].at \in Holding
    PROVE  /\ [lease EXCEPT ![r] = NoOne] = [q \in Runs |-> IF lease[q] = c THEN NoOne ELSE lease[q]]
           /\ \A d \in Clients : client[d].run = r /\ client[d].at \in Holding => d = c
<1>1. lease \in [Runs -> Clients \cup {NoOne}]
    BY DEF HistoryTypeOK
<1>2. lease[r] = c /\ \A q \in Runs : lease[q] = c => q = r
    BY DEF LeaseExact
<1>3. \A d \in Clients : client[d].run = r /\ client[d].at \in Holding => lease[r] = d
    BY DEF LeaseExact
<1> QED
    BY <1>1, <1>2, <1>3

\* The store is empty and nobody calls.
LEMMA InitHistoryInv == HistoryInit => HistoryInv
<1> SUFFICES ASSUME HistoryInit PROVE HistoryInv
    OBVIOUS
<1>1. Blank \in Answers
    BY DEF Blank, Answers, RunStatus, RowState
<1>2. Idle \in Callers
    BY <1>1 DEF Idle, Callers, Phase
<1>3. HistoryTypeOK
    BY <1>2 DEF HistoryInit, HistoryTypeOK, Callers
<1>4. LeaseExact
    BY HistoryAssumption DEF HistoryInit, LeaseExact, Idle, Holding, Owning
<1>5. EndedIsClosed
    BY DEF HistoryInit, EndedIsClosed
<1>6. \A c \in Clients : Relies(client[c], rows)
    BY DEF HistoryInit, Relies, Idle, Rowed, Reading, Recovering
<1> QED
    BY <1>3, <1>4, <1>5, <1>6 DEF HistoryInv

-----------------------------------------------------------------------------
\* A step that writes no row, of one caller: only what it relies on is at stake.
LEMMA RowsKept ==
    ASSUME HistoryInv, NEW c \in Clients, NEW me \in Callers,
           rows' = rows, client' = [client EXCEPT ![c] = me],
           lease' \in [Runs -> Clients \cup {NoOne}], LeaseExact',
           Relies(me, rows)
    PROVE  HistoryInv'
<1>1. HistoryTypeOK'
    BY DEF HistoryInv, HistoryTypeOK, Callers
<1>2. EndedIsClosed'
    BY DEF HistoryInv, EndedIsClosed
<1>3. ASSUME NEW d \in Clients PROVE Relies(client'[d], rows')
    BY DEF HistoryInv, HistoryTypeOK
<1> QED
    BY <1>1, <1>2, <1>3 DEF HistoryInv

\* A step that writes the row of the run whose lease the caller holds.
LEMMA RowWritten ==
    ASSUME HistoryInv, NEW c \in Clients, NEW r \in Runs, NEW me \in Callers, NEW record \in Records,
           client[c].run = r, client[c].at \in Holding, me.run = r, me.at \in Holding,
           rows' = [rows EXCEPT ![r] = record], lease' = lease, client' = [client EXCEPT ![c] = me],
           rows[r] = NoOne \/ rows[r].status = "running" \/ record = rows[r],
           record.status # "running" =>
               \A n \in Nodes : record.nodes[n] \notin {"running", "pending", "ready"},
           Relies(me, rows')
    PROVE  HistoryInv'
<1>1. HistoryTypeOK /\ LeaseExact /\ EndedIsClosed
    BY DEF HistoryInv
<1>2. HistoryTypeOK'
    BY <1>1 DEF HistoryTypeOK, Callers
<1>3. LeaseExact'
    BY <1>1, LeasesKept
<1>4. EndedIsClosed'
    BY <1>1 DEF EndedIsClosed, HistoryTypeOK
<1>5. ASSUME NEW d \in Clients PROVE Relies(client'[d], rows')
    <2>1. CASE d = c
        BY <1>1, <2>1 DEF HistoryTypeOK
    <2>2. CASE d # c
        <3>1. client'[d] = client[d] /\ client[d] \in Callers
            BY <1>1, <2>2 DEF HistoryTypeOK, Callers
        <3>2. client[d].run = r => client[d].at \notin Holding
            BY <1>1, <2>2, LeaseOfRun
        <3>3. rows \in [Runs -> Records \cup {NoOne}] /\ Relies(client[d], rows)
            BY <1>1 DEF HistoryInv, HistoryTypeOK
        <3>4. Relies(client[d], rows')
            BY <3>1, <3>2, <3>3, OthersRely
        <3> QED
            BY <3>1, <3>4
    <2> QED
        BY <2>1, <2>2
<1> QED
    BY <1>2, <1>3, <1>4, <1>5 DEF HistoryInv

\* A caller that moves on to another phase of its call.
LEMMA CallerMoves ==
    ASSUME HistoryInv, NEW c \in Clients, NEW phase \in Phase
    PROVE  LET me == [client[c] EXCEPT !.at = phase]
           IN  /\ me \in Callers
               /\ me.at = phase /\ me.op = client[c].op /\ me.run = client[c].run
               /\ me.seen = client[c].seen
               /\ Goes(c, phase) => client' = [client EXCEPT ![c] = me]
<1>1. client[c] \in Callers
    BY DEF HistoryInv, HistoryTypeOK, Callers
<1> QED
    BY <1>1 DEF Callers, Goes

\* The same, for a step that is known to be taken.
LEMMA CallerMoved ==
    ASSUME HistoryInv, NEW c \in Clients, NEW phase \in Phase, Goes(c, phase)
    PROVE  /\ \E me \in Callers : /\ client' = [client EXCEPT ![c] = me]
                                  /\ me.at = phase /\ me.run = client[c].run
           /\ client'[c].at = phase /\ client'[c].run = client[c].run
           /\ \A d \in Clients \ {c} : client'[d] = client[d]
<1> DEFINE me == [client[c] EXCEPT !.at = phase]
<1>1. /\ me \in Callers /\ me.at = phase /\ me.run = client[c].run
      /\ client' = [client EXCEPT ![c] = me]
    BY CallerMoves
<1> HIDE DEF me
<1>2. client'[c] = me /\ \A d \in Clients \ {c} : client'[d] = client[d]
    BY <1>1 DEF HistoryInv, HistoryTypeOK
<1> QED
    BY <1>1, <1>2

\* A caller that is done relies on nothing.
LEMMA CallerLeaves ==
    /\ Idle \in Callers /\ Idle.at = "idle" /\ Idle.at \notin Holding
    /\ \A table : Relies(Idle, table)
<1>1. Blank \in Answers
    BY DEF Blank, Answers, RunStatus, RowState
<1> QED
    BY <1>1 DEF Idle, Callers, Phase, Relies, Rowed, Reading, Recovering, Holding, Owning

-----------------------------------------------------------------------------
\* _start.
LEMMA StartKeepsInv ==
    ASSUME HistoryInv, NEW c \in Clients, NEW r \in Runs,
           \/ StartLease(c, r)
           \/ client[c].run = r /\ (StartInsert(c, r) \/ StartRaises(c, r))
    PROVE  HistoryInv'
<1>1. HistoryTypeOK /\ LeaseExact
    BY DEF HistoryInv
<1>2. CASE StartLease(c, r)
    <2> DEFINE me == [Idle EXCEPT !.at = "inserting", !.op = "start", !.run = r]
    <2>1. /\ me \in Callers /\ me.at = "inserting" /\ me.run = r /\ me.op = "start"
        BY CallerLeaves DEF Idle, Callers, Phase, Owning
    <2>2. /\ rows' = rows /\ rows[r] = NoOne /\ lease[r] = NoOne
          /\ lease' = [lease EXCEPT ![r] = c] /\ client' = [client EXCEPT ![c] = me]
          /\ client[c].at = "idle"
        BY <1>2 DEF StartLease, At
    <2> HIDE DEF me
    <2>3. Relies(me, rows)
        BY <2>1, <2>2 DEF Relies, Rowed, Reading, Recovering
    <2>4. me.at \in Holding /\ client[c].at \notin Holding
        BY <2>1, <2>2 DEF Holding, Owning
    <2>5. LeaseExact'
        BY <1>1, <2>1, <2>2, <2>4, LeaseTaken
    <2>6. lease' \in [Runs -> Clients \cup {NoOne}]
        BY <1>1, <2>2 DEF HistoryTypeOK
    <2> QED
        BY <2>1, <2>2, <2>3, <2>5, <2>6, RowsKept
<1>3. CASE client[c].run = r /\ StartInsert(c, r)
    <2> DEFINE me == [client[c] EXCEPT !.at = "working"]
    <2>1. PICK selected \in SUBSET Nodes : rows' = [rows EXCEPT ![r] = Inserted(selected)]
        BY <1>3 DEF StartInsert, Write
    <2>2. client[c].at = "inserting" /\ lease' = lease /\ Goes(c, "working")
        BY <1>3 DEF StartInsert, At
    <2>3. /\ me \in Callers /\ me.at = "working" /\ me.run = r
          /\ client' = [client EXCEPT ![c] = me]
        BY <1>3, <2>2, CallerMoves DEF Phase, Owning
    <2> HIDE DEF me
    <2>4. rows[r] = NoOne
        BY <1>3, <2>2 DEF HistoryInv, Relies
    <2>5. /\ Inserted(selected) \in Records /\ Inserted(selected) # NoOne
          /\ Inserted(selected).status = "running"
          /\ \A n \in Nodes : Inserted(selected).nodes[n] \in {"pending", "unselected"}
        BY RecordOperations, HistoryAssumption DEF Inserted
    <2>6. rows'[r] = Inserted(selected)
        BY <1>1, <2>1 DEF HistoryTypeOK
    <2>7. Relies(me, rows')
        BY <2>3, <2>5, <2>6 DEF Relies, Rowed, Reading, Recovering
    <2>8. me.at \in Holding /\ client[c].at \in Holding
        BY <2>2, <2>3 DEF Holding, Owning
    <2> QED
        BY <1>3, <2>1, <2>2, <2>3, <2>4, <2>5, <2>7, <2>8, RowWritten
<1>4. CASE client[c].run = r /\ StartRaises(c, r)
    <2>1. /\ client[c].at \in Holding /\ rows' = rows
          /\ lease' = [lease EXCEPT ![r] = NoOne] /\ client' = [client EXCEPT ![c] = Idle]
        BY <1>4 DEF StartRaises, At, Returns, Holding, Owning
    <2>2. lease' = [q \in Runs |-> IF lease[q] = c THEN NoOne ELSE lease[q]]
        BY <1>1, <1>4, <2>1, LeaseOfRun
    <2>3. LeaseExact'
        BY <1>1, <2>1, <2>2, CallerLeaves, LeaseDropped
    <2>4. lease' \in [Runs -> Clients \cup {NoOne}]
        BY <1>1, <2>1 DEF HistoryTypeOK
    <2> QED
        BY <2>1, <2>3, <2>4, CallerLeaves, RowsKept
<1> QED
    BY <1>2, <1>3, <1>4

\* _running and _finished.
LEMMA MarkKeepsInv ==
    ASSUME HistoryInv, NEW c \in Clients, NEW r \in Runs, client[c].run = r, Mark(c, r)
    PROVE  HistoryInv'
<1>1. /\ HistoryTypeOK /\ LeaseExact /\ Relies(client[c], rows)
      /\ client[c].at = "working" /\ client[c] \in Callers
    BY DEF HistoryInv, HistoryTypeOK, Mark, At, Callers
<1>2. /\ rows[r] \in Records /\ rows[r].status = "running"
      /\ \A n \in Nodes : rows[r].nodes[n] # "unknown"
    BY <1>1 DEF Relies, Rowed, HistoryTypeOK
<1>3. PICK record \in Records :
          /\ rows' = [rows EXCEPT ![r] = record] /\ record.status = "running"
          /\ \A n \in Nodes : record.nodes[n] # "unknown"
    <2>1. PICK n \in Nodes :
              \/ Write(r, MarkedRunning(rows[r], n))
              \/ \E o \in Outcomes : Write(r, MarkedFinished(rows[r], n, o))
        BY DEF Mark, Outcomes
    <2>2. CASE Write(r, MarkedRunning(rows[r], n))
        <3> DEFINE record == MarkedRunning(rows[r], n)
        <3>1. record \in Records
            BY <1>2, RecordOperations
        <3>2. record.status = "running" /\ \A m \in Nodes : record.nodes[m] # "unknown"
            BY <1>2 DEF MarkedRunning, Records
        <3> QED
            BY <2>2, <3>1, <3>2 DEF Write
    <2>3. ASSUME NEW o \in Outcomes, Write(r, MarkedFinished(rows[r], n, o))
          PROVE  \E record \in Records :
                     /\ rows' = [rows EXCEPT ![r] = record] /\ record.status = "running"
                     /\ \A m \in Nodes : record.nodes[m] # "unknown"
        <3> DEFINE record == MarkedFinished(rows[r], n, o)
        <3>1. record \in Records
            BY <1>2, RecordOperations
        <3>2. record.status = "running" /\ \A m \in Nodes : record.nodes[m] # "unknown"
            BY <1>2 DEF MarkedFinished, Records, Outcomes
        <3> QED
            BY <2>3, <3>1, <3>2 DEF Write
    <2> QED
        BY <2>1, <2>2, <2>3
<1>4. lease' = lease /\ client' = [client EXCEPT ![c] = client[c]] /\ client[c].at \in Holding
    BY <1>1 DEF Mark, HistoryTypeOK, Holding, Owning
<1>5. rows'[r] = record /\ record # NoOne
    BY <1>1, <1>3, HistoryAssumption DEF HistoryTypeOK
<1>6. Relies(client[c], rows')
    BY <1>1, <1>3, <1>5 DEF Relies
<1> QED
    BY <1>1, <1>2, <1>3, <1>4, <1>6, RowWritten

\* _end and the release of the lease.
LEMMA EndKeepsInv ==
    ASSUME HistoryInv, NEW c \in Clients, NEW r \in Runs, client[c].run = r,
           EndCommits(c, r) \/ EndRaises(c, r) \/ OwnerCloses(c, r)
    PROVE  HistoryInv'
<1>1. HistoryTypeOK /\ LeaseExact /\ Relies(client[c], rows)
    BY DEF HistoryInv
<1> DEFINE me == [client[c] EXCEPT !.at = "ended"]
<1>2. /\ me \in Callers /\ me.at = "ended" /\ me.run = r
      /\ Goes(c, "ended") => client' = [client EXCEPT ![c] = me]
    BY CallerMoves DEF Phase, Owning
<1> HIDE DEF me
<1>3. CASE EndCommits(c, r)
    <2>1. PICK last \in [Nodes -> RowState], status \in RunStatus \ {"running"} :
              /\ \A n \in Nodes : last[n] \in LastStates(rows[r].nodes[n])
              /\ rows' = [rows EXCEPT ![r] = Ended(rows[r], last, status)]
        BY <1>3 DEF EndCommits, Write
    <2>2. client[c].at = "working" /\ lease' = lease /\ Goes(c, "ended")
        BY <1>3 DEF EndCommits, At
    <2>3. rows[r] \in Records /\ rows[r].status = "running"
        BY <1>1, <2>2 DEF Relies, Rowed, HistoryTypeOK
    <2> DEFINE record == Ended(rows[r], last, status)
    <2>4. record \in Records
        BY <2>3, RecordOperations
    <2>5. record.nodes = last
        BY <2>3 DEF Ended, Records
    <2>6. \A n \in Nodes : last[n] \notin {"running", "pending", "ready"}
        BY <2>1 DEF LastStates
    <2>7. rows'[r] = record /\ record # NoOne
        BY <1>1, <2>1, <2>4, HistoryAssumption DEF HistoryTypeOK
    <2> HIDE DEF record
    <2>8. Relies(me, rows')
        BY <1>2, <2>7 DEF Relies, Rowed, Reading, Recovering
    <2>9. client[c].at \in Holding /\ me.at \in Holding
        BY <1>2, <2>2 DEF Holding, Owning
    <2> QED
        BY <1>2, <2>1, <2>2, <2>3, <2>4, <2>5, <2>6, <2>8, <2>9, RowWritten DEF record
<1>4. CASE EndRaises(c, r)
    <2>1. client[c].at = "working" /\ rows' = rows /\ lease' = lease /\ Goes(c, "ended")
        BY <1>4 DEF EndRaises, At
    <2>2. client[c].at \in Holding /\ me.at \in Holding /\ me.run = client[c].run
        BY <1>2, <2>1 DEF Holding, Owning
    <2>3. LeaseExact'
        BY <1>1, <1>2, <2>1, <2>2, LeasesKept
    <2>4. Relies(me, rows)
        BY <1>1, <1>2, <2>1 DEF Relies, Rowed, Reading, Recovering
    <2>5. lease' \in [Runs -> Clients \cup {NoOne}]
        BY <1>1, <2>1 DEF HistoryTypeOK
    <2> QED
        BY <1>2, <2>1, <2>3, <2>4, <2>5, RowsKept
<1>5. CASE OwnerCloses(c, r)
    <2>1. /\ client[c].at \in Holding /\ rows' = rows
          /\ lease' = [lease EXCEPT ![r] = NoOne] /\ client' = [client EXCEPT ![c] = Idle]
        BY <1>5 DEF OwnerCloses, At, Returns, Holding, Owning
    <2>2. lease' = [q \in Runs |-> IF lease[q] = c THEN NoOne ELSE lease[q]]
        BY <1>1, <2>1, LeaseOfRun
    <2>3. LeaseExact'
        BY <1>1, <2>1, <2>2, CallerLeaves, LeaseDropped
    <2>4. lease' \in [Runs -> Clients \cup {NoOne}]
        BY <1>1, <2>1 DEF HistoryTypeOK
    <2> QED
        BY <2>1, <2>3, <2>4, CallerLeaves, RowsKept
<1> QED
    BY <1>3, <1>4, <1>5

-----------------------------------------------------------------------------
\* get().
LEMMA GetKeepsInv ==
    ASSUME HistoryInv, NEW c \in Clients, NEW r \in Runs,
           \/ \E op \in {"get", "recover"} : Call(c, r, op)
           \/ client[c].run = r /\ (ReadRun(c, r) \/ ReadNodes(c, r))
           \/ Answer(c)
    PROVE  HistoryInv'
<1>1. /\ HistoryTypeOK /\ LeaseExact /\ Relies(client[c], rows) /\ client[c] \in Callers
      /\ EndedIsClosed
    BY DEF HistoryInv, HistoryTypeOK, Callers
<1>2. ASSUME NEW me \in Callers, Relies(me, rows), rows' = rows, lease' = lease,
             client' = [client EXCEPT ![c] = me],
             me.at \notin Holding, client[c].at \notin Holding
      PROVE  HistoryInv'
    <2>1. LeaseExact'
        BY <1>1, <1>2, LeasesKept
    <2>2. lease' \in [Runs -> Clients \cup {NoOne}]
        BY <1>1, <1>2 DEF HistoryTypeOK
    <2> QED
        BY <1>2, <2>1, <2>2, RowsKept
<1>3. CASE \E op \in {"get", "recover"} : Call(c, r, op)
    <2>1. PICK op \in {"get", "recover"} : Call(c, r, op)
        BY <1>3
    <2> DEFINE me == [Idle EXCEPT !.at = "status", !.op = op, !.run = r]
    <2>2. me \in Callers /\ me.at = "status" /\ me.op = op /\ me.run = r
        BY CallerLeaves DEF Idle, Callers, Phase, Reading
    <2>3. /\ rows[r] # NoOne /\ rows' = rows /\ lease' = lease /\ client' = [client EXCEPT ![c] = me]
          /\ client[c].at = "idle"
        BY <2>1 DEF Call, At
    <2> HIDE DEF me
    <2>4. me.at \notin Holding /\ client[c].at \notin Holding
        BY <2>2, <2>3 DEF Holding, Owning
    <2>5. Relies(me, rows)
        BY <2>2, <2>3 DEF Relies, Rowed, Reading
    <2> QED
        BY <1>2, <2>2, <2>3, <2>4, <2>5
<1>4. CASE client[c].run = r /\ ReadRun(c, r)
    <2> DEFINE seen == [client[c].seen EXCEPT !.status = rows[r].status]
               me == [client[c] EXCEPT !.at = "nodes", !.seen = seen]
    <2>1. client[c].at = "status" /\ rows[r] \in Records
        BY <1>1, <1>4 DEF ReadRun, At, Relies, Rowed, Reading, HistoryTypeOK
    <2>2. seen \in Answers /\ seen.status = rows[r].status
        BY <1>1, <2>1 DEF Answers, Callers, Records
    <2>3. /\ me \in Callers /\ me.at = "nodes" /\ me.run = r /\ me.op = client[c].op
          /\ me.seen.status = rows[r].status
        BY <1>1, <1>4, <2>2 DEF Callers, Phase, Reading
    <2>4. rows' = rows /\ lease' = lease /\ client' = [client EXCEPT ![c] = me]
        BY <1>4 DEF ReadRun, Statement
    <2> HIDE DEF me
    <2>5. Relies(me, rows)
        BY <1>1, <1>4, <2>1, <2>3 DEF Relies, Rowed, Reading, Recovering
    <2>6. me.at \notin Holding /\ client[c].at \notin Holding
        BY <2>1, <2>3 DEF Holding, Owning
    <2> QED
        BY <1>2, <2>3, <2>4, <2>5, <2>6
<1>5. CASE client[c].run = r /\ ReadNodes(c, r)
    <2> DEFINE seen == [client[c].seen EXCEPT !.nodes = rows[r].nodes]
               goOn == client[c].op = "recover" /\ seen.status = "running"
               me == [client[c] EXCEPT !.at = IF goOn THEN "leasing" ELSE "answered", !.seen = seen]
    <2>1. client[c].at = "nodes" /\ rows[r] \in Records
        BY <1>1, <1>5 DEF ReadNodes, At, Relies, Rowed, Reading, HistoryTypeOK
    <2>2. seen \in Answers /\ seen.status = client[c].seen.status /\ seen.nodes = rows[r].nodes
        BY <1>1, <2>1 DEF Answers, Callers, Records
    <2>3. /\ me \in Callers /\ me.at = (IF goOn THEN "leasing" ELSE "answered")
          /\ me.run = r /\ me.op = client[c].op /\ me.seen = seen
        <3>1. (IF goOn THEN "leasing" ELSE "answered") \in Phase
            BY DEF Phase, Recovering
        <3> QED
            BY <1>1, <1>5, <2>2, <3>1 DEF Callers
    <2>4. rows' = rows /\ lease' = lease /\ client' = [client EXCEPT ![c] = me]
        BY <1>5 DEF ReadNodes, Statement
    <2> HIDE DEF me, seen
    <2>5. Relies(me, rows)
        BY <1>1, <1>5, <2>1, <2>2, <2>3 DEF Relies, Rowed, Reading, Recovering
    <2>6. me.at \notin Holding /\ client[c].at \notin Holding
        BY <2>1, <2>3 DEF Holding, Owning
    <2> QED
        BY <1>2, <2>3, <2>4, <2>5, <2>6
<1>6. CASE Answer(c)
    <2>1. /\ client[c].at \in {"answered", "refused"} /\ rows' = rows /\ lease' = lease
          /\ client' = [client EXCEPT ![c] = Idle]
        BY <1>6 DEF Answer, Returns
    <2>2. client[c].at \notin Holding
        BY <2>1 DEF Holding, Owning
    <2> QED
        BY <1>2, <2>1, <2>2, CallerLeaves
<1> QED
    BY <1>3, <1>4, <1>5, <1>6

\* recover().
LEMMA RecoverKeepsInv ==
    ASSUME HistoryInv, NEW c \in Clients, NEW r \in Runs, client[c].run = r,
           \/ RecoverLease(c, r) \/ RecoverRefused(c, r) \/ RecoverCommits(c, r)
           \/ RecoverRaises(c, r) \/ RecoverCloses(c, r)
    PROVE  HistoryInv'
<1>1. /\ HistoryTypeOK /\ LeaseExact /\ EndedIsClosed /\ Relies(client[c], rows)
      /\ client[c] \in Callers
    BY DEF HistoryInv, HistoryTypeOK, Callers
<1>2. CASE RecoverLease(c, r)
    <2> DEFINE me == [client[c] EXCEPT !.at = "writing"]
    <2>1. /\ client[c].at = "leasing" /\ lease[r] = NoOne /\ rows' = rows
          /\ lease' = [lease EXCEPT ![r] = c] /\ Goes(c, "writing")
        BY <1>2 DEF RecoverLease, At
    <2>2. /\ me \in Callers /\ me.at = "writing" /\ me.run = r /\ client' = [client EXCEPT ![c] = me]
        BY <2>1, CallerMoves DEF Phase, Recovering
    <2> HIDE DEF me
    <2>3. me.at \in Holding /\ client[c].at \notin Holding
        BY <2>1, <2>2 DEF Holding, Owning
    <2>4. LeaseExact'
        BY <1>1, <2>1, <2>2, <2>3, LeaseTaken
    <2>5. Relies(me, rows)
        BY <1>1, <2>1, <2>2 DEF Relies, Rowed, Reading, Recovering
    <2>6. lease' \in [Runs -> Clients \cup {NoOne}]
        BY <1>1, <2>1 DEF HistoryTypeOK
    <2> QED
        BY <2>1, <2>2, <2>4, <2>5, <2>6, RowsKept
<1>3. ASSUME NEW from \in Phase, NEW to \in Phase, client[c].at = from, Goes(c, to),
             rows' = rows, lease' = lease, from \in Holding <=> to \in Holding,
             to \in {"refused", "raised"}, from \in Rowed
      PROVE  HistoryInv'
    <2> DEFINE me == [client[c] EXCEPT !.at = to]
    <2>1. /\ me \in Callers /\ me.at = to /\ me.run = r /\ client' = [client EXCEPT ![c] = me]
        BY <1>3, CallerMoves
    <2> HIDE DEF me
    <2>2. LeaseExact'
        BY <1>1, <1>3, <2>1, LeasesKept
    <2>3. Relies(me, rows)
        BY <1>1, <1>3, <2>1 DEF Relies, Rowed, Reading, Recovering
    <2>4. lease' \in [Runs -> Clients \cup {NoOne}]
        BY <1>1, <1>3 DEF HistoryTypeOK
    <2> QED
        BY <1>3, <2>1, <2>2, <2>3, <2>4, RowsKept
<1>4. CASE RecoverRefused(c, r)
    <2>1. client[c].at = "leasing" /\ rows' = rows /\ lease' = lease /\ Goes(c, "refused")
        BY <1>4 DEF RecoverRefused, At
    <2> QED
        BY <1>3, <2>1 DEF Phase, Recovering, Holding, Owning, Rowed
<1>5. CASE RecoverRaises(c, r)
    <2>1. client[c].at = "writing" /\ rows' = rows /\ lease' = lease /\ Goes(c, "raised")
        BY <1>5 DEF RecoverRaises, At
    <2> QED
        BY <1>3, <2>1 DEF Phase, Recovering, Holding, Owning, Rowed
<1>6. CASE RecoverCommits(c, r)
    <2> DEFINE me == [client[c] EXCEPT !.at = "written"]
               record == Recovered(rows[r])
    <2>1. /\ client[c].at = "writing" /\ lease' = lease /\ Goes(c, "written")
          /\ rows' = [rows EXCEPT ![r] = record]
        BY <1>6 DEF RecoverCommits, At, Write, Update
    <2>2. /\ me \in Callers /\ me.at = "written" /\ me.run = r /\ client' = [client EXCEPT ![c] = me]
        BY <2>1, CallerMoves DEF Phase, Recovering
    <2>3. rows[r] \in Records
        BY <1>1, <2>1 DEF Relies, Rowed, Recovering, HistoryTypeOK
    <2>4. record \in Records
        BY <2>3, RecordOperations
    <2>5. /\ record.status # "running"
          /\ \A n \in Nodes : record.nodes[n] \notin {"running", "pending", "ready"}
        BY <2>3 DEF Recovered, Records
    <2>6. rows[r].status # "running" => record = rows[r]
        <3>1. rows[r].status # "running" =>
                  \A n \in Nodes : rows[r].nodes[n] \notin {"running", "pending", "ready"}
            BY <1>1, <2>3, HistoryAssumption DEF EndedIsClosed
        <3> QED
            BY <2>3, <3>1, RecoveredTwice
    <2>7. rows'[r] = record /\ record # NoOne
        BY <1>1, <2>1, <2>4, HistoryAssumption DEF HistoryTypeOK
    <2> HIDE DEF me, record
    <2>8. Relies(me, rows')
        BY <2>2, <2>5, <2>7 DEF Relies, Rowed, Reading, Recovering
    <2>9. client[c].at \in Holding /\ me.at \in Holding
        BY <2>1, <2>2 DEF Holding, Owning
    <2> QED
        BY <2>1, <2>2, <2>4, <2>5, <2>6, <2>8, <2>9, RowWritten
<1>7. CASE RecoverCloses(c, r)
    <2> DEFINE again == [client[c] EXCEPT !.at = "status", !.op = "reread"]
               me == IF client[c].at = "raised" THEN Idle ELSE again
    <2>1. /\ client[c].at \in {"written", "raised"} /\ rows' = rows
          /\ lease' = [lease EXCEPT ![r] = NoOne] /\ client' = [client EXCEPT ![c] = me]
        BY <1>1, <1>7 DEF RecoverCloses, At, Callers
    <2>2. /\ again \in Callers /\ again.at = "status" /\ again.run = r /\ again.op = "reread"
        BY <1>1 DEF Callers, Phase, Reading
    <2> HIDE DEF again
    <2>3. client[c].at = "written" => Relies(again, rows)
        BY <1>1, <2>2 DEF Relies, Rowed, Reading, Recovering
    <2>4. me \in Callers /\ me.at \notin Holding /\ Relies(me, rows)
        BY <2>1, <2>2, <2>3, CallerLeaves DEF Holding, Owning
    <2> HIDE DEF me
    <2>5. client[c].at \in Holding
        BY <2>1 DEF Holding
    <2>6. lease' = [q \in Runs |-> IF lease[q] = c THEN NoOne ELSE lease[q]]
        BY <1>1, <2>1, <2>5, LeaseOfRun
    <2>7. LeaseExact'
        BY <1>1, <2>1, <2>4, <2>6, LeaseDropped
    <2>8. lease' \in [Runs -> Clients \cup {NoOne}]
        BY <1>1, <2>1 DEF HistoryTypeOK
    <2> QED
        BY <2>1, <2>4, <2>7, <2>8, RowsKept
<1> QED
    BY <1>2, <1>4, <1>5, <1>6, <1>7

\* A caller dies.
LEMMA CrashKeepsInv ==
    ASSUME HistoryInv, NEW c \in Clients, Crash(c)
    PROVE  HistoryInv'
<1>1. HistoryTypeOK /\ LeaseExact
    BY DEF HistoryInv
<1>2. /\ rows' = rows /\ lease' = [r \in Runs |-> IF lease[r] = c THEN NoOne ELSE lease[r]]
      /\ client' = [client EXCEPT ![c] = Idle]
    BY DEF Crash, Returns
<1>3. LeaseExact'
    BY <1>1, <1>2, CallerLeaves, LeaseDropped
<1>4. lease' \in [Runs -> Clients \cup {NoOne}]
    BY <1>1, <1>2 DEF HistoryTypeOK
<1> QED
    BY <1>2, <1>3, <1>4, CallerLeaves, RowsKept

\* Every step of every caller keeps the invariant.
LEMMA NextHistoryInv == HistoryInv /\ [HistoryNext]_historyVars => HistoryInv'
<1> SUFFICES ASSUME HistoryInv, [HistoryNext]_historyVars PROVE HistoryInv'
    OBVIOUS
<1>1. CASE UNCHANGED historyVars
    BY <1>1 DEF historyVars, HistoryInv, HistoryTypeOK, LeaseExact, EndedIsClosed
<1>2. ASSUME NEW c \in Clients, Begins(c) PROVE HistoryInv'
    BY <1>2, StartKeepsInv, GetKeepsInv DEF Begins
<1>3. ASSUME NEW c \in Clients, Proceeds(c) PROVE HistoryInv'
    <2>1. CASE Answer(c)
        <3>1. PICK r \in Runs : TRUE
            <4>1. client[c].at # "idle" /\ Relies(client[c], rows)
                BY <2>1 DEF Answer, HistoryInv
            <4> QED
                BY <4>1 DEF Relies
        <3> QED
            BY <2>1, <3>1, GetKeepsInv
    <2>2. ASSUME NEW r \in Runs, client[c].run = r,
                 \/ StartInsert(c, r) \/ StartRaises(c, r) \/ EndCommits(c, r) \/ EndRaises(c, r)
                 \/ OwnerCloses(c, r) \/ ReadRun(c, r) \/ ReadNodes(c, r)
                 \/ RecoverLease(c, r) \/ RecoverRefused(c, r)
                 \/ RecoverCommits(c, r) \/ RecoverRaises(c, r) \/ RecoverCloses(c, r)
          PROVE  HistoryInv'
        BY <2>2, StartKeepsInv, EndKeepsInv, GetKeepsInv, RecoverKeepsInv
    <2> QED
        BY <1>3, <2>1, <2>2 DEF Proceeds
<1>4. ASSUME NEW c \in Clients, Works(c) PROVE HistoryInv'
    BY <1>4, MarkKeepsInv DEF Works
<1>5. ASSUME NEW c \in Clients, Crash(c) PROVE HistoryInv'
    BY <1>5, CrashKeepsInv
<1> QED
    BY <1>1, <1>2, <1>3, <1>4, <1>5 DEF HistoryNext

\* The invariant holds throughout.
THEOREM SpecHistoryInv == HistorySpec => []HistoryInv
BY InitHistoryInv, NextHistoryInv, PTL DEF HistorySpec

\* Rows, leases and callers keep their shape.
THEOREM SpecHistoryTypeOK == HistorySpec => []HistoryTypeOK
BY SpecHistoryInv, PTL DEF HistoryInv

\* No lease is leaked and none has two holders, whatever raises or dies.
THEOREM SpecLeaseExact == HistorySpec => []LeaseExact
BY SpecHistoryInv, PTL DEF HistoryInv

\* No run is ended or marked under its owner.
THEOREM SpecOwnerUndisturbed == HistorySpec => []OwnerUndisturbed
BY SpecHistoryInv, InvSettles, PTL

\* A record that shows a run as ended is whole, though it was read in two parts.
THEOREM SpecAnswersSettled == HistorySpec => []AnswersSettled
BY SpecHistoryInv, InvSettles, PTL

\* An ended run has no open node.
THEOREM SpecEndedIsClosed == HistorySpec => []EndedIsClosed
BY SpecHistoryInv, PTL DEF HistoryInv

-----------------------------------------------------------------------------
\* A step writes at most the row of its caller's run, and an ended run is
\* written as it was.
LEMMA StepWrites ==
    ASSUME HistoryInv, [HistoryNext]_historyVars,
           NEW r \in Runs, rows[r] # NoOne, rows[r].status # "running"
    PROVE  rows'[r] = rows[r]
<1>1. HistoryTypeOK /\ LeaseExact /\ EndedIsClosed
    BY DEF HistoryInv
<1>2. rows[r] \in Records
    BY <1>1 DEF HistoryTypeOK
<1>3. ASSUME NEW c \in Clients, NEW q \in Runs, client[c].run = q, StartInsert(c, q)
      PROVE  rows'[r] = rows[r]
    <2>1. rows[q] = NoOne
        BY <1>3 DEF StartInsert, At, HistoryInv, Relies
    <2> QED
        BY <1>3, <2>1 DEF StartInsert, Write
<1>4. ASSUME NEW c \in Clients, NEW q \in Runs, client[c].run = q, EndCommits(c, q) \/ Mark(c, q)
      PROVE  rows'[r] = rows[r]
    <2>1. rows[q] # NoOne /\ rows[q].status = "running"
        BY <1>4 DEF EndCommits, Mark, At, HistoryInv, Relies, Rowed
    <2>2. q # r
        BY <2>1
    <2>3. \E record : rows' = [rows EXCEPT ![q] = record]
        BY <1>4, Zenon DEF EndCommits, Mark, Write
    <2> QED
        BY <1>1, <2>2, <2>3 DEF HistoryTypeOK
<1>5. ASSUME NEW c \in Clients, NEW q \in Runs, RecoverCommits(c, q)
      PROVE  rows'[r] = rows[r]
    <2>1. rows' = [rows EXCEPT ![q] = Recovered(rows[q])]
        BY <1>5 DEF RecoverCommits, Write, Update
    <2>2. Recovered(rows[r]) = rows[r]
        <3>1. \A n \in Nodes : rows[r].nodes[n] \notin {"running", "pending", "ready"}
            BY <1>1 DEF EndedIsClosed
        <3> QED
            BY <1>2, <3>1, RecoveredTwice
    <2> QED
        BY <1>1, <2>1, <2>2 DEF HistoryTypeOK
<1>6. CASE rows' = rows
    BY <1>6
<1>7. ASSUME NEW c \in Clients, Begins(c) \/ Crash(c) PROVE rows' = rows
    BY <1>7 DEF Begins, StartLease, Call, Crash
<1>8. ASSUME NEW c \in Clients, Works(c) PROVE rows'[r] = rows[r]
    BY <1>4, <1>8 DEF Works
<1>9. ASSUME NEW c \in Clients, Proceeds(c) PROVE rows'[r] = rows[r]
    <2>1. ASSUME NEW q \in Runs, StartRaises(c, q) \/ EndRaises(c, q) \/ OwnerCloses(c, q) \/ ReadRun(c, q)
                 \/ ReadNodes(c, q) \/ RecoverLease(c, q) \/ RecoverRefused(c, q)
                 \/ RecoverRaises(c, q) \/ RecoverCloses(c, q) \/ Answer(c)
          PROVE  rows' = rows
        BY <2>1 DEF StartRaises, EndRaises, OwnerCloses, ReadRun, ReadNodes, RecoverLease,
                    RecoverRefused, RecoverRaises, RecoverCloses, Answer
    <2>2. CASE Answer(c)
        BY <2>2 DEF Answer
    <2> QED
        BY <1>3, <1>4, <1>5, <1>9, <2>1, <2>2 DEF Proceeds
<1> QED
    BY <1>6, <1>7, <1>8, <1>9 DEF HistoryNext, historyVars

\* A run ends once.
THEOREM SpecEndedOnce == HistorySpec => EndedOnce
<1>1. ASSUME HistoryInv, [HistoryNext]_historyVars
      PROVE  \A r \in Runs : rows[r] # NoOne /\ rows[r].status # "running" => rows'[r] = rows[r]
    BY <1>1, StepWrites
<1> QED
    BY <1>1, SpecHistoryInv, PTL DEF HistorySpec, EndedOnce

-----------------------------------------------------------------------------
\* Refinement of RunLife.
WorkedOn(r) == \E c \in Clients : client[c].run = r /\ client[c].at = "working"

\* A run that is worked on is no other's, and it is recorded as running.
LEMMA WorkedOnce ==
    ASSUME HistoryInv
    PROVE  /\ \A r \in Runs : WorkedOn(r) => rows[r] # NoOne /\ rows[r].status = "running"
           /\ \A c, d \in Clients :
                  client[c].at \in Holding /\ client[d].at = "working" /\ client[c].run = client[d].run
                  => c = d
<1>1. HistoryTypeOK /\ LeaseExact
    BY DEF HistoryInv
<1>2. \A d \in Clients : client[d].at = "working" => client[d].run \in Runs /\ client[d].at \in Holding
    BY DEF HistoryInv, Relies, Holding, Owning
<1>3. ASSUME NEW c \in Clients, NEW d \in Clients,
             client[c].at \in Holding, client[d].at = "working", client[c].run = client[d].run
      PROVE  c = d
    BY <1>1, <1>2, <1>3, LeaseOfRun
<1>4. \A r \in Runs : WorkedOn(r) => rows[r] # NoOne /\ rows[r].status = "running"
    BY DEF WorkedOn, HistoryInv, Relies, Rowed
<1> QED
    BY <1>3, <1>4

\* The life of a run, without its abbreviations.
LEMMA LifeCases ==
    ASSUME NEW r \in Runs
    PROVE  /\ rows[r] = NoOne => LifeOf(r) = "absent"
           /\ rows[r] # NoOne /\ rows[r].status = "running" /\ WorkedOn(r) => LifeOf(r) = "active"
           /\ rows[r] # NoOne /\ rows[r].status = "running" /\ ~ WorkedOn(r) => LifeOf(r) = "abandoned"
           /\ rows[r] # NoOne /\ rows[r].status # "running" /\ ~ WorkedOn(r) => LifeOf(r) = rows[r].status
BY DEF LifeOf, WorkedOn, At

\* The same of the next state.
LEMMA LifeCasesNext ==
    ASSUME NEW r \in Runs
    PROVE  /\ rows'[r] = NoOne => LifeOf(r)' = "absent"
           /\ rows'[r] # NoOne /\ rows'[r].status = "running" /\ WorkedOn(r)' => LifeOf(r)' = "active"
           /\ rows'[r] # NoOne /\ rows'[r].status = "running" /\ ~ WorkedOn(r)' => LifeOf(r)' = "abandoned"
           /\ rows'[r] # NoOne /\ rows'[r].status # "running" /\ ~ WorkedOn(r)' => LifeOf(r)' = rows'[r].status
BY DEF LifeOf, WorkedOn, At

\* A run whose row keeps its status, and whose owner stays or stays away, lives
\* on as it did.
LEMMA LifeStays ==
    ASSUME NEW r \in Runs, WorkedOn(r)' <=> WorkedOn(r),
           \/ rows'[r] = rows[r]
           \/ rows[r] # NoOne /\ rows'[r] # NoOne /\ rows'[r].status = rows[r].status
    PROVE  LifeOf(r)' = LifeOf(r)
BY DEF LifeOf, WorkedOn, At

\* One run changes its life, or none does.
LEMMA LifeMoves ==
    ASSUME NEW r \in Runs, NEW was, NEW is,
           LifeOf(r) = was, LifeOf(r)' = is,
           \A q \in Runs \ {r} : LifeOf(q)' = LifeOf(q)
    PROVE  Life!Become(r, was, is)
BY DEF Life!Become

\* If no run changes its life, the function of their lives is unchanged.
LEMMA LifeStutters ==
    ASSUME \A r \in Runs : LifeOf(r)' = LifeOf(r)
    PROVE  UNCHANGED [r \in Runs |-> LifeOf(r)]
OBVIOUS

\* A caller that is not working, before or after its step, and writes no row.
LEMMA QuietStep ==
    ASSUME HistoryInv, NEW c \in Clients, NEW me,
           client' = [client EXCEPT ![c] = me], rows' = rows,
           client[c].at # "working", me.at # "working"
    PROVE  \A r \in Runs : LifeOf(r)' = LifeOf(r)
<1> SUFFICES ASSUME NEW r \in Runs PROVE LifeOf(r)' = LifeOf(r)
    OBVIOUS
<1>1. client' \in [Clients -> {client'[d] : d \in Clients}] /\ client'[c] = me
      /\ \A d \in Clients \ {c} : client'[d] = client[d]
    BY DEF HistoryInv, HistoryTypeOK
<1>2. WorkedOn(r)' <=> WorkedOn(r)
    BY <1>1 DEF WorkedOn
<1> QED
    BY <1>2, LifeStays

\* A working caller that leaves its run to nobody.
LEMMA OwnerGone ==
    ASSUME HistoryInv, NEW c \in Clients, NEW me, NEW r \in Runs,
           client[c].at = "working", client[c].run = r,
           client' = [client EXCEPT ![c] = me], me.at # "working"
    PROVE  /\ WorkedOn(r) /\ ~ WorkedOn(r)'
           /\ \A q \in Runs \ {r} : WorkedOn(q)' <=> WorkedOn(q)
<1>1. client'[c] = me /\ \A d \in Clients \ {c} : client'[d] = client[d]
    BY DEF HistoryInv, HistoryTypeOK
<1>2. \A d \in Clients \ {c} : client[d].at = "working" => client[d].run # r
    BY WorkedOnce DEF Holding, Owning
<1>3. WorkedOn(r)
    BY DEF WorkedOn
<1>4. ~ WorkedOn(r)'
    BY <1>1, <1>2 DEF WorkedOn
<1>5. \A q \in Runs \ {r} : WorkedOn(q)' <=> WorkedOn(q)
    BY <1>1 DEF WorkedOn
<1> QED
    BY <1>3, <1>4, <1>5

\* A row that ends: End of RunLife by the owner, Interrupt by a recovery.
LEMMA RowEnds ==
    ASSUME HistoryInv, NEW r \in Runs, NEW record \in Records,
           rows' = [rows EXCEPT ![r] = record],
           rows[r] # NoOne, rows[r].status = "running", record.status # "running",
           ~ WorkedOn(r)',
           \A q \in Runs \ {r} : WorkedOn(q)' <=> WorkedOn(q)
    PROVE  Life!Become(r, IF WorkedOn(r) THEN "active" ELSE "abandoned", record.status)
<1>1. rows'[r] = record /\ record # NoOne /\ \A q \in Runs \ {r} : rows'[q] = rows[q]
    BY HistoryAssumption DEF HistoryInv, HistoryTypeOK
<1>2. LifeOf(r) = IF WorkedOn(r) THEN "active" ELSE "abandoned"
    BY LifeCases
<1>3. LifeOf(r)' = record.status
    BY <1>1, LifeCasesNext
<1>4. \A q \in Runs \ {r} : LifeOf(q)' = LifeOf(q)
    BY <1>1, LifeStays
<1> QED
    BY <1>2, <1>3, <1>4, LifeMoves

\* The steps that RunLife does not see.
LEMMA HiddenSteps ==
    ASSUME HistoryInv, NEW c \in Clients, NEW r \in Runs,
           \/ StartLease(c, r) \/ \E op \in {"get", "recover"} : Call(c, r, op)
           \/ /\ client[c].run = r
              /\ \/ StartRaises(c, r) \/ OwnerCloses(c, r) \/ ReadRun(c, r) \/ ReadNodes(c, r)
                 \/ RecoverLease(c, r) \/ RecoverRefused(c, r) \/ RecoverRaises(c, r)
                 \/ RecoverCloses(c, r)
           \/ Answer(c)
           \/ Crash(c) /\ client[c].at # "working"
    PROVE  UNCHANGED [q \in Runs |-> LifeOf(q)]
<1>1. client[c] \in Callers
    BY DEF HistoryInv, HistoryTypeOK, Callers
<1>2. rows' = rows /\ client[c].at # "working"
    BY DEF StartLease, Call, StartRaises, OwnerCloses, ReadRun, ReadNodes, RecoverLease,
           RecoverRefused, RecoverRaises, RecoverCloses, Answer, Crash, At
<1>3. \E me : client' = [client EXCEPT ![c] = me] /\ me.at # "working"
    <2>1. Idle.at # "working"
        BY CallerLeaves
    <2>2. CASE StartLease(c, r)
        <3> DEFINE me == [Idle EXCEPT !.at = "inserting", !.op = "start", !.run = r]
        <3>1. client' = [client EXCEPT ![c] = me]
            BY <2>2 DEF StartLease
        <3>2. me.at # "working"
            BY DEF Idle
        <3> QED
            BY <3>1, <3>2
    <2>3. CASE \E op \in {"get", "recover"} : Call(c, r, op)
        <3>1. PICK op \in {"get", "recover"} : Call(c, r, op)
            BY <2>3
        <3> DEFINE me == [Idle EXCEPT !.at = "status", !.op = op, !.run = r]
        <3>2. client' = [client EXCEPT ![c] = me]
            BY <3>1 DEF Call
        <3>3. me.at # "working"
            BY DEF Idle
        <3> QED
            BY <3>2, <3>3
    <2>4. CASE StartRaises(c, r) \/ OwnerCloses(c, r) \/ Answer(c) \/ Crash(c)
        BY <2>1, <2>4 DEF StartRaises, OwnerCloses, Answer, Crash, Returns
    <2>5. CASE ReadRun(c, r)
        <3> DEFINE me == [client[c] EXCEPT !.at = "nodes", !.seen = Statement("status", r, client[c].seen)]
        <3>1. client' = [client EXCEPT ![c] = me]
            BY <2>5 DEF ReadRun
        <3>2. me.at # "working"
            BY <1>1 DEF Callers
        <3> QED
            BY <3>1, <3>2
    <2>6. CASE ReadNodes(c, r)
        <3> DEFINE seen == Statement("nodes", r, client[c].seen)
                   next == IF client[c].op = "recover" /\ seen.status = "running"
                           THEN "leasing" ELSE "answered"
                   me == [client[c] EXCEPT !.at = next, !.seen = seen]
        <3>1. client' = [client EXCEPT ![c] = me]
            BY <2>6 DEF ReadNodes
        <3>2. next # "working"
            OBVIOUS
        <3> HIDE DEF next
        <3>3. me.at # "working"
            BY <1>1, <3>2 DEF Callers
        <3> QED
            BY <3>1, <3>3
    <2>7. CASE RecoverLease(c, r) \/ RecoverRefused(c, r) \/ RecoverRaises(c, r)
        <3>1. PICK phase \in {"writing", "refused", "raised"} : Goes(c, phase)
            BY <2>7 DEF RecoverLease, RecoverRefused, RecoverRaises
        <3>2. phase \in Phase /\ phase # "working"
            BY DEF Phase, Recovering
        <3> QED
            BY <3>1, <3>2, CallerMoved
    <2>8. CASE RecoverCloses(c, r)
        <3> DEFINE again == [client[c] EXCEPT !.at = "status", !.op = "reread"]
                   me == IF client[c].at = "raised" THEN Idle ELSE again
        <3>1. client' = [client EXCEPT ![c] = me]
            BY <1>1, <2>8 DEF RecoverCloses, At, Callers
        <3>2. me.at # "working"
            BY <1>1, <2>1 DEF Callers
        <3> QED
            BY <3>1, <3>2
    <2> QED
        BY <2>2, <2>3, <2>4, <2>5, <2>6, <2>7, <2>8
<1> QED
    BY <1>2, <1>3, QuietStep, LifeStutters

\* An owner that goes while its run is recorded as running abandons it.
LEMMA OwnerAbandons ==
    ASSUME HistoryInv, NEW c \in Clients, NEW me, client[c].at = "working",
           client' = [client EXCEPT ![c] = me], me.at # "working", rows' = rows
    PROVE  \E r \in Runs : Life!Abandon(r)
<1>1. PICK r \in Runs : client[c].run = r
    BY DEF HistoryInv, Relies
<1>2. /\ WorkedOn(r) /\ ~ WorkedOn(r)'
      /\ \A q \in Runs \ {r} : WorkedOn(q)' <=> WorkedOn(q)
    BY <1>1, OwnerGone
<1>3. rows[r] # NoOne /\ rows[r].status = "running"
    BY <1>2, WorkedOnce
<1>4. LifeOf(r) = "active" /\ LifeOf(r)' = "abandoned"
    BY <1>2, <1>3, LifeCases, LifeCasesNext
<1>5. \A q \in Runs \ {r} : LifeOf(q)' = LifeOf(q)
    BY <1>2, LifeStays
<1> QED
    BY <1>4, <1>5, LifeMoves DEF Life!Abandon

-----------------------------------------------------------------------------
\* Each step of the store is one of RunLife, or is hidden from it.
LEMMA StepLives ==
    ASSUME HistoryInv, [HistoryNext]_historyVars
    PROVE  [Life!LifeNext]_[r \in Runs |-> LifeOf(r)]
<1>1. HistoryTypeOK /\ LeaseExact
    BY DEF HistoryInv
<1>2. CASE UNCHANGED historyVars
    <2>1. \A r \in Runs : LifeOf(r)' = LifeOf(r)
        BY <1>2 DEF historyVars, LifeOf, At
    <2> QED
        BY <2>1, LifeStutters
<1>3. ASSUME NEW c \in Clients, Begins(c)
      PROVE  [Life!LifeNext]_[r \in Runs |-> LifeOf(r)]
    BY <1>3, HiddenSteps DEF Begins
<1>4. ASSUME NEW c \in Clients, Crash(c)
      PROVE  [Life!LifeNext]_[r \in Runs |-> LifeOf(r)]
    <2>1. CASE client[c].at = "working"
        <3>1. \E r \in Runs : Life!Abandon(r)
            BY <1>4, <2>1, CallerLeaves, OwnerAbandons DEF Crash, Returns
        <3> QED
            BY <3>1 DEF Life!LifeNext
    <2>2. CASE client[c].at # "working"
        <3>1. PICK r \in Runs : TRUE
            BY <1>4 DEF HistoryInv, Relies, Crash, At
        <3> QED
            BY <1>4, <2>2, <3>1, HiddenSteps
    <2> QED
        BY <2>1, <2>2
<1>5. ASSUME NEW c \in Clients, NEW r \in Runs, client[c].run = r, Mark(c, r)
      PROVE  [Life!LifeNext]_[q \in Runs |-> LifeOf(q)]
    <2>1. rows[r] \in Records /\ rows[r].status = "running" /\ client' = client
        BY <1>1, <1>5 DEF Mark, At, HistoryInv, Relies, Rowed, HistoryTypeOK
    <2>2. PICK n \in Nodes :
              \/ Write(r, MarkedRunning(rows[r], n))
              \/ \E o \in Outcomes : Write(r, MarkedFinished(rows[r], n, o))
        BY <1>5 DEF Mark, Outcomes
    <2>3. \E record \in Records : rows' = [rows EXCEPT ![r] = record] /\ record.status = "running"
        <3>1. \A o \in Outcomes : /\ MarkedFinished(rows[r], n, o) \in Records
                                  /\ MarkedFinished(rows[r], n, o).status = "running"
            BY <2>1, RecordOperations DEF MarkedFinished, Records
        <3>2. MarkedRunning(rows[r], n) \in Records /\ MarkedRunning(rows[r], n).status = "running"
            BY <2>1, RecordOperations DEF MarkedRunning, Records
        <3> QED
            BY <2>2, <3>1, <3>2 DEF Write
    <2>4. /\ \A q \in Runs : WorkedOn(q)' <=> WorkedOn(q)
          /\ \A q \in Runs \ {r} : rows'[q] = rows[q]
          /\ rows'[r] # NoOne /\ rows'[r].status = "running"
        BY <1>1, <2>1, <2>3, HistoryAssumption DEF WorkedOn, HistoryTypeOK
    <2>5. \A q \in Runs : LifeOf(q)' = LifeOf(q)
        BY <2>1, <2>4, HistoryAssumption, LifeStays
    <2> QED
        BY <2>5, LifeStutters
<1>6. ASSUME NEW c \in Clients, NEW r \in Runs, client[c].run = r, StartInsert(c, r)
      PROVE  Life!Begin(r)
    <2>1. PICK selected \in SUBSET Nodes : rows' = [rows EXCEPT ![r] = Inserted(selected)]
        BY <1>6 DEF StartInsert, Write
    <2>2. client[c].at = "inserting" /\ rows[r] = NoOne /\ Goes(c, "working")
        BY <1>6 DEF StartInsert, At, HistoryInv, Relies
    <2>3. /\ client'[c].at = "working" /\ client'[c].run = r
          /\ \A d \in Clients \ {c} : client'[d] = client[d]
        BY <1>6, <2>2, CallerMoved DEF Phase, Owning
    <2>4. /\ rows'[r] # NoOne /\ rows'[r].status = "running"
          /\ \A q \in Runs \ {r} : rows'[q] = rows[q]
        BY <1>1, <2>1, RecordOperations, HistoryAssumption DEF HistoryTypeOK, Inserted
    <2>5. WorkedOn(r)' /\ \A q \in Runs \ {r} : WorkedOn(q)' <=> WorkedOn(q)
        BY <1>6, <2>2, <2>3 DEF WorkedOn
    <2>6. LifeOf(r) = "absent" /\ LifeOf(r)' = "active"
        BY <2>2, <2>4, <2>5, LifeCases, LifeCasesNext
    <2>7. \A q \in Runs \ {r} : LifeOf(q)' = LifeOf(q)
        BY <2>4, <2>5, LifeStays
    <2> QED
        BY <2>6, <2>7, LifeMoves DEF Life!Begin
<1>7. ASSUME NEW c \in Clients, NEW r \in Runs, client[c].run = r, EndCommits(c, r)
      PROVE  \E status \in Life!Final : Life!End(r, status)
    <2>1. PICK last \in [Nodes -> RowState], status \in RunStatus \ {"running"} :
              rows' = [rows EXCEPT ![r] = Ended(rows[r], last, status)]
        BY <1>7 DEF EndCommits, Write
    <2>2. /\ client[c].at = "working" /\ rows[r] \in Records /\ rows[r].status = "running"
          /\ Goes(c, "ended")
        BY <1>1, <1>7 DEF EndCommits, At, HistoryInv, Relies, Rowed, HistoryTypeOK
    <2>3. PICK me \in Callers : client' = [client EXCEPT ![c] = me] /\ me.at = "ended"
        BY <2>2, CallerMoved DEF Phase, Owning
    <2>4. /\ WorkedOn(r) /\ ~ WorkedOn(r)'
          /\ \A q \in Runs \ {r} : WorkedOn(q)' <=> WorkedOn(q)
        BY <1>7, <2>2, <2>3, OwnerGone
    <2>5. /\ Ended(rows[r], last, status) \in Records
          /\ Ended(rows[r], last, status).status = status
        BY <2>2, RecordOperations DEF Ended, Records
    <2>6. rows[r] # NoOne
        BY <2>2, HistoryAssumption
    <2>7. Life!Become(r, "active", status)
        BY <2>1, <2>2, <2>4, <2>5, <2>6, RowEnds
    <2> QED
        BY <2>7 DEF Life!End, Life!Final
<1>8. ASSUME NEW c \in Clients, NEW r \in Runs, client[c].run = r, EndRaises(c, r)
      PROVE  \E q \in Runs : Life!Abandon(q)
    <2>1. client[c].at = "working" /\ rows' = rows /\ Goes(c, "ended")
        BY <1>8 DEF EndRaises, At
    <2>2. \E me : client' = [client EXCEPT ![c] = me] /\ me.at # "working"
        BY <2>1, CallerMoved DEF Phase, Owning
    <2> QED
        BY <2>1, <2>2, OwnerAbandons
<1>9. ASSUME NEW c \in Clients, NEW r \in Runs, client[c].run = r, RecoverCommits(c, r)
      PROVE  [Life!LifeNext]_[q \in Runs |-> LifeOf(q)]
    <2>1. /\ client[c].at = "writing" /\ rows' = [rows EXCEPT ![r] = Recovered(rows[r])]
          /\ Goes(c, "written")
        BY <1>9 DEF RecoverCommits, At, Write, Update
    <2>2. client'[c].at = "written" /\ \A d \in Clients \ {c} : client'[d] = client[d]
        BY <2>1, CallerMoved DEF Phase, Recovering
    <2>3. client[c].at \in Holding /\ rows[r] \in Records /\ rows[r] # NoOne
        BY <1>1, <1>9, <2>1, HistoryAssumption
           DEF Holding, HistoryInv, Relies, Rowed, Recovering, HistoryTypeOK
    <2>4. ~ WorkedOn(r)
        BY <1>9, <2>1, <2>3, WorkedOnce DEF WorkedOn
    <2>5. \A q \in Runs : WorkedOn(q)' <=> WorkedOn(q)
        BY <2>1, <2>2 DEF WorkedOn
    <2>6. CASE rows[r].status = "running"
        <3>1. /\ Recovered(rows[r]) \in Records
              /\ Recovered(rows[r]).status = "interrupted"
            BY <2>3, <2>6, RecordOperations DEF Recovered, Records
        <3>2. Life!Become(r, "abandoned", "interrupted")
            BY <2>1, <2>3, <2>4, <2>5, <2>6, <3>1, RowEnds
        <3> QED
            BY <3>2 DEF Life!Interrupt, Life!LifeNext
    <2>7. CASE rows[r].status # "running"
        <3>1. \A q \in Runs \ {r} : rows'[q] = rows[q]
            BY <1>1, <2>1 DEF HistoryTypeOK
        <3>2. rows'[r] = rows[r]
            BY <2>3, <2>7, StepWrites
        <3>3. \A q \in Runs : LifeOf(q)' = LifeOf(q)
            BY <2>5, <3>1, <3>2, LifeStays
        <3> QED
            BY <3>3, LifeStutters
    <2> QED
        BY <2>6, <2>7
<1>10. ASSUME NEW c \in Clients, Proceeds(c)
       PROVE  [Life!LifeNext]_[r \in Runs |-> LifeOf(r)]
    <2>1. CASE Answer(c)
        <3>1. PICK r \in Runs : TRUE
            BY <2>1 DEF Answer, HistoryInv, Relies
        <3> QED
            BY <2>1, <3>1, HiddenSteps
    <2>2. ASSUME NEW r \in Runs, client[c].run = r,
                 \/ StartInsert(c, r) \/ EndCommits(c, r) \/ EndRaises(c, r)
          PROVE  Life!LifeNext
        BY <1>6, <1>7, <1>8, <2>2 DEF Life!LifeNext
    <2>3. ASSUME NEW r \in Runs, client[c].run = r,
                 \/ StartRaises(c, r) \/ OwnerCloses(c, r) \/ ReadRun(c, r) \/ ReadNodes(c, r)
                 \/ RecoverLease(c, r) \/ RecoverRefused(c, r) \/ RecoverRaises(c, r)
                 \/ RecoverCloses(c, r)
          PROVE  UNCHANGED [q \in Runs |-> LifeOf(q)]
        BY <2>3, HiddenSteps
    <2> QED
        BY <1>9, <1>10, <2>1, <2>2, <2>3 DEF Proceeds
<1>11. ASSUME NEW c \in Clients, Works(c)
       PROVE  [Life!LifeNext]_[r \in Runs |-> LifeOf(r)]
    BY <1>5, <1>11 DEF Works
<1> QED
    BY <1>2, <1>3, <1>4, <1>10, <1>11 DEF HistoryNext

\* The history lives up to RunLife: only its owner ends a run that is active,
\* and only a run whose owner is gone is interrupted by somebody else.
THEOREM SpecLivesAsPromised == HistorySpec => LivesAsPromised
<1>1. HistoryInit => Life!LifeInit
    <2> SUFFICES ASSUME HistoryInit PROVE \A r \in Runs : LifeOf(r) = "absent"
        BY DEF Life!LifeInit
    <2> QED
        BY DEF HistoryInit, LifeOf
<1> QED
    BY <1>1, StepLives, SpecHistoryInv, PTL DEF HistorySpec, LivesAsPromised, Life!LifeSpec
=============================================================================
