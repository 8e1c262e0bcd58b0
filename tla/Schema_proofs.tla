--------------------------- MODULE Schema_proofs ---------------------------
(***************************************************************************)
(* Opening a store, for any number of processes.  The invariant says what  *)
(* the transaction of an opener holds at each place of the script: a stage *)
(* between the database as it was committed and the complete schema, which *)
(* nobody sees but the one that holds the write lock.                      *)
(***************************************************************************)
EXTENDS Schema, TLAPS

Database(version, tables, columns, rows) ==
    [version |-> version, tables |-> tables, columns |-> columns, rows |-> rows]

\* A database that is migrated, when the script has come to a place; in version 1
\* it had the tables `before`.
Stage(p, before, rows) ==
    CASE p = "runs"    -> Database(0, {}, FALSE, rows)
      [] p = "nodes"   -> Database(0, {"runs"}, FALSE, rows)
      [] p = "v1"      -> Database(0, {"runs", "nodes"}, FALSE, rows)
      [] p = "columns" -> Database(1, before, FALSE, rows)
      [] p = "results" -> Database(1, before, TRUE, rows)
      [] p = "v2"      -> Database(1, before \cup {"results"}, TRUE, rows)
      [] p = "commit"  -> Database(2, before \cup {"results"}, TRUE, rows)

Creating == {"runs", "nodes", "v1"}

\* A transaction that has nothing to do.
Idle(c) == opener[c] = "commit" /\ disk.version = 2 /\ copy[c] = disk

\* One that will come to its end.
Migrating(c) ==
    /\ disk = first /\ Migratable(first)
    /\ opener[c] \in Creating => first.version = 0
    /\ copy[c] = Stage(opener[c], TablesBefore(first), first.rows)

\* One that will clash, at the columns or at the results.
Doomed(c) ==
    /\ disk = first /\ ~ Migratable(first) /\ first.version = 1
    /\ \/ opener[c] = "columns" /\ copy[c] = first
       \/ opener[c] = "results" /\ "results" \in copy[c].tables

InTransaction(c) ==
    /\ lock = c /\ base[c] = disk
    /\ opener[c] = "begun" => copy[c] = disk
    /\ opener[c] # "begun" => Idle(c) \/ Migrating(c) \/ Doomed(c)

\* What is committed: as it was found, or at the last stage.
Settled ==
    \/ disk = first
    \/ /\ Migratable(first)
       /\ \E rows \in BOOLEAN :
              disk = Stage("commit", TablesBefore(first), rows) /\ (first.rows => rows)

SchemaInv ==
    /\ SchemaTypeOK
    /\ first \in Found
    /\ Settled
    /\ \A c \in Openers :
           /\ opener[c] \in Inside => InTransaction(c)
           /\ opener[c] \in Inside \cup {"ready", "opened"} => wal
           /\ opener[c] = "opened" /\ first \in Ours => Complete(disk)
           /\ opener[c] \in {"clash", "refused"} => first \notin Ours

-----------------------------------------------------------------------------
\* The databases that may be found: ours are complete or can be migrated.
LEMMA FoundOurs ==
    ASSUME NEW db \in Ours
    PROVE  /\ db \in Databases /\ Accepted(db)
           /\ db.version = 2 => Complete(db) /\ db.rows
           /\ db.version # 2 => Migratable(db) /\ TablesBefore(db) = {"runs", "nodes"}
           /\ db.version = 0 => ~ db.columns
<1>0. /\ {} \in SUBSET Tables
      /\ {"runs", "nodes"} \in SUBSET Tables /\ {"runs", "nodes", "results"} \in SUBSET Tables
    BY DEF Tables
<1> HIDE DEF Tables
<1>1. CASE db = [version |-> 0, tables |-> {}, columns |-> FALSE, rows |-> FALSE]
    BY <1>0, <1>1 DEF Databases, Accepted, Migratable, TablesBefore
<1>2. CASE db = [version |-> 1, tables |-> {"runs", "nodes"}, columns |-> FALSE, rows |-> TRUE]
    BY <1>0, <1>2 DEF Databases, Accepted, Migratable, TablesBefore
<1>3. CASE db = [version |-> 2, tables |-> {"runs", "nodes", "results"}, columns |-> TRUE, rows |-> TRUE]
    BY <1>0, <1>3 DEF Databases, Accepted, Complete
<1> QED
    BY <1>1, <1>2, <1>3 DEF Ours

LEMMA FoundAreDatabases ==
    ASSUME NEW db \in Found
    PROVE  /\ db \in Databases
           /\ db.version = 0 /\ db.tables = {} => ~ db.columns
           /\ Complete(db) => db.rows
<1>1. CASE db \in Ours
    BY <1>1, FoundOurs DEF Complete
<1>2. CASE db \in Theirs
    BY <1>2 DEF Theirs, Complete
<1>3. CASE db = Future
    BY <1>3 DEF Future, Databases, Tables, Complete
<1> QED
    BY <1>1, <1>2, <1>3 DEF Found

\* A database that can be migrated is at the stage at which the script enters it.
LEMMA EntryStage ==
    ASSUME NEW db \in Found, Migratable(db)
    PROVE  /\ db = Stage(Entry(db.version), TablesBefore(db), db.rows)
           /\ Entry(db.version) = IF db.version = 0 THEN "runs" ELSE "columns"
<1>1. db \in [version : 0 .. 3, tables : SUBSET Tables, columns : BOOLEAN, rows : BOOLEAN]
    BY FoundAreDatabases DEF Databases
<1>2. db = Database(db.version, db.tables, db.columns, db.rows)
    BY <1>1 DEF Database
<1>3. CASE db.version = 0
    <2>1. db.tables = {} /\ db.columns = FALSE
        BY <1>1, <1>3, FoundAreDatabases DEF Migratable
    <2> QED
        BY <1>2, <1>3, <2>1 DEF Stage, Entry
<1>4. CASE db.version # 0
    <2>1. db.version = 1 /\ db.columns = FALSE
        BY <1>1, <1>4 DEF Migratable
    <2> QED
        BY <1>2, <1>4, <2>1 DEF Stage, Entry, TablesBefore
<1> QED
    BY <1>3, <1>4 DEF Migratable

\* What the version 1 of a database that can be migrated has.
LEMMA BeforeResults ==
    ASSUME NEW db \in Found, Migratable(db)
    PROVE  /\ TablesBefore(db) \in SUBSET Tables
           /\ "nodes" \in TablesBefore(db) /\ "results" \notin TablesBefore(db)
           /\ db.version = 0 => TablesBefore(db) = {"runs", "nodes"}
           /\ db.rows \in BOOLEAN
BY FoundAreDatabases DEF Databases, Migratable, TablesBefore, Tables

\* Each statement leads from one stage to the next without a clash.
LEMMA Stages ==
    ASSUME NEW before \in SUBSET Tables, NEW rows \in BOOLEAN, NEW p \in Statements,
           "nodes" \in before, "results" \notin before,
           p \in Creating => before = {"runs", "nodes"}
    PROVE  /\ Does(p, Stage(p, before, rows)) = Stage(Following[p], before, rows)
           /\ p \notin Stage(p, before, rows).tables
           /\ p = "columns" => /\ ~ Stage(p, before, rows).columns
                               /\ "nodes" \in Stage(p, before, rows).tables
           /\ Following[p] \in Creating => p \in Creating
<1>1. CASE p = "runs"
    <2>1. /\ Stage(p, before, rows) = Database(0, {}, FALSE, rows)
          /\ Stage("nodes", before, rows) = Database(0, {"runs"}, FALSE, rows)
        BY <1>1 DEF Stage
    <2>2. Following[p] = "nodes"
        BY <1>1 DEF Following, Statements
    <2>3. Does(p, Database(0, {}, FALSE, rows)) = Database(0, {"runs"}, FALSE, rows)
        BY <1>1 DEF Does, Database
    <2>4. Does(p, Stage(p, before, rows)) = Stage(Following[p], before, rows)
        BY <1>1, <2>1, <2>2, <2>3
    <2>5. /\ p \notin Stage(p, before, rows).tables
          /\ p = "columns" => /\ ~ Stage(p, before, rows).columns
                              /\ "nodes" \in Stage(p, before, rows).tables
        BY <1>1, <2>1, <2>2, <2>3 DEF Database
    <2>6. Following[p] \in Creating => p \in Creating
        BY <1>1, <2>2 DEF Creating
    <2> QED
        BY <2>4, <2>5, <2>6
<1>2. CASE p = "nodes"
    <2>1. /\ Stage(p, before, rows) = Database(0, {"runs"}, FALSE, rows)
          /\ Stage("v1", before, rows) = Database(0, {"runs", "nodes"}, FALSE, rows)
        BY <1>2 DEF Stage
    <2>2. Following[p] = "v1"
        BY <1>2 DEF Following, Statements
    <2>3. {"runs"} \cup {"nodes"} = {"runs", "nodes"}
        OBVIOUS
    <2>4. Does(p, Database(0, {"runs"}, FALSE, rows)) = Database(0, {"runs"} \cup {"nodes"}, FALSE, rows)
        BY <1>2 DEF Does, Database
    <2>5. Does(p, Stage(p, before, rows)) = Stage(Following[p], before, rows)
        BY <1>2, <2>1, <2>2, <2>3, <2>4
    <2>6. /\ p \notin Stage(p, before, rows).tables
          /\ p = "columns" => /\ ~ Stage(p, before, rows).columns
                              /\ "nodes" \in Stage(p, before, rows).tables
        BY <1>2, <2>1, <2>2, <2>3, <2>4 DEF Database
    <2>7. Following[p] \in Creating => p \in Creating
        BY <1>2, <2>2 DEF Creating
    <2> QED
        BY <2>5, <2>6, <2>7
<1>3. CASE p = "v1"
    <2>1. /\ Stage(p, before, rows) = Database(0, before, FALSE, rows)
          /\ Stage("columns", before, rows) = Database(1, before, FALSE, rows)
        BY <1>3 DEF Stage, Creating
    <2>2. Following[p] = "columns"
        BY <1>3 DEF Following, Statements
    <2>3. Does(p, Database(0, before, FALSE, rows)) = Database(1, before, FALSE, rows)
        BY <1>3 DEF Does, Database
    <2>4. "v1" \notin before
        BY DEF Tables
    <2>5. Does(p, Stage(p, before, rows)) = Stage(Following[p], before, rows)
        BY <1>3, <2>1, <2>2, <2>3, <2>4
    <2>6. /\ p \notin Stage(p, before, rows).tables
          /\ p = "columns" => /\ ~ Stage(p, before, rows).columns
                              /\ "nodes" \in Stage(p, before, rows).tables
        BY <1>3, <2>1, <2>2, <2>3, <2>4 DEF Database
    <2>7. Following[p] \in Creating => p \in Creating
        BY <1>3, <2>2 DEF Creating
    <2> QED
        BY <2>5, <2>6, <2>7
<1>4. CASE p = "columns"
    <2>1. /\ Stage(p, before, rows) = Database(1, before, FALSE, rows)
          /\ Stage("results", before, rows) = Database(1, before, TRUE, rows)
        BY <1>4 DEF Stage
    <2>2. Following[p] = "results"
        BY <1>4 DEF Following, Statements
    <2>3. Does(p, Database(1, before, FALSE, rows)) = Database(1, before, TRUE, rows)
        BY <1>4 DEF Does, Database
    <2>4. "columns" \notin before
        BY DEF Tables
    <2>5. Does(p, Stage(p, before, rows)) = Stage(Following[p], before, rows)
        BY <1>4, <2>1, <2>2, <2>3, <2>4
    <2>6. /\ p \notin Stage(p, before, rows).tables
          /\ p = "columns" => /\ ~ Stage(p, before, rows).columns
                              /\ "nodes" \in Stage(p, before, rows).tables
        BY <1>4, <2>1, <2>2, <2>3, <2>4 DEF Database
    <2>7. Following[p] \in Creating => p \in Creating
        BY <1>4, <2>2 DEF Creating
    <2> QED
        BY <2>5, <2>6, <2>7
<1>5. CASE p = "results"
    <2>1. /\ Stage(p, before, rows) = Database(1, before, TRUE, rows)
          /\ Stage("v2", before, rows) = Database(1, before \cup {"results"}, TRUE, rows)
        BY <1>5 DEF Stage
    <2>2. Following[p] = "v2"
        BY <1>5 DEF Following, Statements
    <2>3. Does(p, Database(1, before, TRUE, rows)) = Database(1, before \cup {"results"}, TRUE, rows)
        BY <1>5 DEF Does, Database
    <2>4. Does(p, Stage(p, before, rows)) = Stage(Following[p], before, rows)
        BY <1>5, <2>1, <2>2, <2>3
    <2>5. /\ p \notin Stage(p, before, rows).tables
          /\ p = "columns" => /\ ~ Stage(p, before, rows).columns
                              /\ "nodes" \in Stage(p, before, rows).tables
        BY <1>5, <2>1, <2>2, <2>3 DEF Database
    <2>6. Following[p] \in Creating => p \in Creating
        BY <1>5, <2>2 DEF Creating
    <2> QED
        BY <2>4, <2>5, <2>6
<1>6. CASE p = "v2"
    <2>1. /\ Stage(p, before, rows) = Database(1, before \cup {"results"}, TRUE, rows)
          /\ Stage("commit", before, rows) = Database(2, before \cup {"results"}, TRUE, rows)
        BY <1>6 DEF Stage
    <2>2. Following[p] = "commit"
        BY <1>6 DEF Following, Statements
    <2>3. Does(p, Database(1, before \cup {"results"}, TRUE, rows)) = Database(2, before \cup {"results"}, TRUE, rows)
        BY <1>6 DEF Does, Database
    <2>4. "v2" \notin before \cup {"results"}
        BY DEF Tables
    <2>5. Does(p, Stage(p, before, rows)) = Stage(Following[p], before, rows)
        BY <1>6, <2>1, <2>2, <2>3, <2>4
    <2>6. /\ p \notin Stage(p, before, rows).tables
          /\ p = "columns" => /\ ~ Stage(p, before, rows).columns
                              /\ "nodes" \in Stage(p, before, rows).tables
        BY <1>6, <2>1, <2>2, <2>3, <2>4 DEF Database
    <2>7. Following[p] \in Creating => p \in Creating
        BY <1>6, <2>2 DEF Creating
    <2> QED
        BY <2>5, <2>6, <2>7
<1> QED
    BY <1>1, <1>2, <1>3, <1>4, <1>5, <1>6 DEF Statements

\* Every stage is a database.
LEMMA StageTyped ==
    ASSUME NEW before \in SUBSET Tables, NEW rows \in BOOLEAN, NEW p \in Statements \cup {"commit"}
    PROVE  Stage(p, before, rows) \in Databases
BY DEF Statements, Stage, Database, Databases, Tables

\* The last stage is version 2, with every table of before.
LEMMA LastStage ==
    ASSUME NEW before, NEW rows
    PROVE  /\ Stage("commit", before, rows) = Database(2, before \cup {"results"}, TRUE, rows)
           /\ Stage("commit", before, rows).rows = rows
           /\ Stage("commit", before, rows).version = 2
           /\ before = {"runs", "nodes"} => Complete(Stage("commit", before, rows))
<1>1. Stage("commit", before, rows) = Database(2, before \cup {"results"}, TRUE, rows)
    BY DEF Stage
<1>2. {"runs", "nodes"} \cup {"results"} = {"runs", "nodes", "results"}
    OBVIOUS
<1>3. /\ Database(2, before \cup {"results"}, TRUE, rows).tables = before \cup {"results"}
      /\ Database(2, before \cup {"results"}, TRUE, rows).version = 2
      /\ Database(2, before \cup {"results"}, TRUE, rows).columns
      /\ Database(2, before \cup {"results"}, TRUE, rows).rows = rows
    BY DEF Database
<1> QED
    BY <1>1, <1>2, <1>3 DEF Complete

-----------------------------------------------------------------------------
\* The words for the places.
LEMMA PlacesNamed ==
    /\ {"closed", "connected", "ready", "opened", "refused", "clash", "busy"} \subseteq Places \ Inside
    /\ "begun" \in Inside /\ Statements \cup {"commit"} \subseteq Inside /\ Inside \subseteq Places
    /\ "begun" \notin Statements /\ "commit" \notin Statements /\ Creating \subseteq Statements
    /\ "commit" \notin Creating /\ "columns" \notin Creating /\ "runs" \in Creating
    /\ {"columns", "results"} \subseteq Statements
BY DEF Places, Inside, Statements, Creating

\* The database as it was found, and nobody in a transaction.
LEMMA InitSchemaInv == SchemaInit => SchemaInv
<1> SUFFICES ASSUME SchemaInit PROVE SchemaInv
    OBVIOUS
<1>1. first \in Databases /\ first \in Found /\ disk = first
    BY FoundAreDatabases DEF SchemaInit
<1>2. SchemaTypeOK
    BY <1>1 DEF SchemaInit, SchemaTypeOK, Places
<1>3. \A c \in Openers : opener[c] \notin Inside \cup {"ready", "opened", "clash", "refused"}
    BY DEF SchemaInit, Inside, Statements
<1> QED
    BY <1>1, <1>2, <1>3 DEF SchemaInv, Settled

\* What is committed is of version 2, or as it was found; ours is always accepted
\* and complete as soon as it is of version 2.
LEMMA DiskKnown ==
    ASSUME SchemaInv
    PROVE  /\ disk \in Databases
           /\ disk.version # 2 => disk = first
           /\ first \in Ours => Accepted(disk) /\ (disk.version = 2 => Complete(disk))
           /\ first.rows => disk.rows
<1>1. disk \in Databases /\ first \in Found
    BY DEF SchemaInv, SchemaTypeOK
<1>2. CASE disk = first
    BY <1>1, <1>2, FoundOurs
<1>3. CASE disk # first
    <2>1. PICK rows \in BOOLEAN :
              /\ Migratable(first)
              /\ disk = Stage("commit", TablesBefore(first), rows) /\ (first.rows => rows)
        BY <1>3 DEF SchemaInv, Settled
    <2>2. disk.version = 2 /\ disk.rows = rows
        BY <2>1, LastStage
    <2>3. first \in Ours => Complete(disk)
        <3>1. SUFFICES ASSUME first \in Ours PROVE Complete(disk)
            OBVIOUS
        <3>2. first.version # 2
            BY <2>1 DEF Migratable
        <3>3. TablesBefore(first) = {"runs", "nodes"}
            BY <3>1, <3>2, FoundOurs
        <3> QED
            BY <2>1, <3>3, LastStage
    <2> QED
        BY <1>1, <2>1, <2>2, <2>3 DEF Accepted
<1> QED
    BY <1>2, <1>3

\* A step of one opener that commits nothing and keeps its transaction in order.
LEMMA OpenerMoves ==
    ASSUME SchemaInv, NEW c \in Openers, NEW place \in Places, Move(c, place),
           first' = first, disk' = disk, wal' \in BOOLEAN, wal => wal',
           base' \in [Openers -> Databases],
           copy' \in [Openers -> Databases], lock' \in Openers \cup {NoOne},
           \A d \in Openers \ {c} : base'[d] = base[d] /\ copy'[d] = copy[d],
           \A d \in Openers \ {c} : lock = d => lock' = d,
           place \in Inside => InTransaction(c)',
           place \in Inside \cup {"ready", "opened"} => wal',
           place = "opened" /\ first \in Ours => Complete(disk),
           place \in {"clash", "refused"} => first \notin Ours
    PROVE  SchemaInv'
<1>1. SchemaTypeOK'
    BY DEF SchemaInv, SchemaTypeOK, Move
<1>2. /\ opener'[c] = place
      /\ \A d \in Openers \ {c} : opener'[d] = opener[d]
    BY DEF SchemaInv, SchemaTypeOK, Move
<1>3. ASSUME NEW d \in Openers
      PROVE  /\ opener'[d] \in Inside => InTransaction(d)'
             /\ opener'[d] \in Inside \cup {"ready", "opened"} => wal'
             /\ opener'[d] = "opened" /\ first' \in Ours => Complete(disk')
             /\ opener'[d] \in {"clash", "refused"} => first' \notin Ours
    <2>1. CASE d = c
        BY <1>2, <2>1
    <2>2. CASE d # c
        <3>1. /\ opener'[d] = opener[d] /\ base'[d] = base[d] /\ copy'[d] = copy[d]
              /\ (lock = d => lock' = d)
            BY <1>2, <2>2
        <3>2. /\ opener[d] \in Inside => InTransaction(d)
              /\ opener[d] \in Inside \cup {"ready", "opened"} => wal
              /\ opener[d] = "opened" /\ first \in Ours => Complete(disk)
              /\ opener[d] \in {"clash", "refused"} => first \notin Ours
            BY DEF SchemaInv
        <3>3. opener'[d] \in Inside => InTransaction(d)'
            BY <3>1, <3>2 DEF InTransaction, Idle, Migrating, Doomed
        <3> QED
            BY <3>1, <3>2, <3>3
    <2> QED
        BY <2>1, <2>2
<1>4. Settled' /\ first' \in Found
    BY DEF SchemaInv, Settled
<1> QED
    BY <1>1, <1>3, <1>4 DEF SchemaInv

\* Who leaves gives the lock back and takes nobody else's.
LEMMA LeaveMoves ==
    ASSUME SchemaInv, NEW c \in Openers, NEW place \in Places \ (Inside \cup {"ready", "opened"}),
           Leave(c, place), UNCHANGED <<first, disk, wal, base, copy>>,
           place \in {"clash", "refused"} => first \notin Ours
    PROVE  SchemaInv'
<1>1. /\ Move(c, place) /\ lock' \in Openers \cup {NoOne}
      /\ \A d \in Openers \ {c} : lock = d => lock' = d
    BY DEF SchemaInv, SchemaTypeOK, Leave
<1>2. base' \in [Openers -> Databases] /\ copy' \in [Openers -> Databases] /\ wal' \in BOOLEAN
    BY DEF SchemaInv, SchemaTypeOK
<1> QED
    BY <1>1, <1>2, OpenerMoves

\* Before the transaction there is a connection, the journal, or a wait in vain.
LEMMA OutsideKeeps ==
    ASSUME SchemaInv, NEW c \in Openers,
           Connect(c) \/ Journal(c) \/ JournalFails(c) \/ GiveUp(c)
    PROVE  SchemaInv'
<1>1. /\ base' \in [Openers -> Databases] /\ copy' \in [Openers -> Databases]
      /\ lock' \in Openers \cup {NoOne} /\ wal' \in BOOLEAN
    BY DEF SchemaInv, SchemaTypeOK, Connect, Journal, JournalFails, GiveUp
<1>2. CASE Journal(c)
    <2>1. /\ Move(c, "ready") /\ wal' = TRUE /\ UNCHANGED <<first, disk, lock, base, copy>>
          /\ "ready" \in Places \ Inside
        BY <1>2, PlacesNamed DEF Journal
    <2> QED
        BY <1>1, <2>1, OpenerMoves
<1>3. CASE Connect(c) \/ JournalFails(c) \/ GiveUp(c)
    <2>1. PICK place \in {"connected", "busy"} :
              Move(c, place) /\ UNCHANGED <<first, disk, wal, lock, base, copy>>
        BY <1>3 DEF Connect, JournalFails, GiveUp
    <2>2. place \in Places \ Inside /\ place \notin {"ready", "opened", "clash", "refused"}
        BY <2>1, PlacesNamed
    <2> QED
        BY <1>1, <2>1, <2>2, OpenerMoves
<1> QED
    BY <1>2, <1>3

\* A transaction begins with what is committed, when no other one is open.
LEMMA BeginKeeps == ASSUME SchemaInv, NEW c \in Openers, Begin(c) PROVE SchemaInv'
<1>1. /\ base' \in [Openers -> Databases] /\ copy' \in [Openers -> Databases] /\ lock' \in Openers \cup {NoOne}
      /\ base'[c] = disk /\ copy'[c] = disk /\ lock' = c
      /\ \A d \in Openers \ {c} : base'[d] = base[d] /\ copy'[d] = copy[d]
    BY DEF SchemaInv, SchemaTypeOK, Begin
<1>2. \A d \in Openers : lock # d
    BY SchemaAssumption DEF Begin
<1>3. Move(c, "begun") /\ first' = first /\ disk' = disk /\ wal' = wal
    BY DEF Begin
<1>4. opener'[c] = "begun"
    BY <1>3 DEF Move, SchemaInv, SchemaTypeOK
<1>5. InTransaction(c)'
    BY <1>1, <1>3, <1>4 DEF InTransaction
<1>6. wal' \in BOOLEAN /\ wal'
    BY <1>3 DEF SchemaInv, SchemaTypeOK, Begin
<1> QED
    BY <1>1, <1>2, <1>3, <1>5, <1>6, OpenerMoves, PlacesNamed

\* What is accepted has nothing to be done, or the script starts at its stage, or
\* it is a version 1 that will clash.
LEMMA ReadVersionKeeps == ASSUME SchemaInv, NEW c \in Openers, ReadVersion(c) PROVE SchemaInv'
<1>1. InTransaction(c) /\ opener[c] = "begun" /\ copy[c] = disk /\ wal
    BY PlacesNamed DEF SchemaInv, ReadVersion, InTransaction
<1>2. CASE Accepted(disk)
    <2>1. Move(c, Entry(disk.version)) /\ lock' = lock /\ UNCHANGED <<first, disk, wal, base, copy>>
        BY <1>1, <1>2 DEF ReadVersion
    <2>2. opener'[c] = Entry(disk.version)
        BY <2>1 DEF Move, SchemaInv, SchemaTypeOK
    <2>3. Entry(disk.version) \in {"runs", "columns", "commit"}
        BY DEF Entry
    <2>4. Idle(c)' \/ Migrating(c)' \/ Doomed(c)'
        <3>1. CASE disk.version = 2
            BY <1>1, <2>1, <2>2, <3>1 DEF Idle, Entry
        <3>2. CASE disk.version # 2 /\ Migratable(first)
            <4>1. disk = first /\ first \in Found
                BY <3>2, DiskKnown DEF SchemaInv
            <4>2. copy[c] = Stage(Entry(first.version), TablesBefore(first), first.rows)
                BY <1>1, <3>2, <4>1, EntryStage
            <4>3. Entry(first.version) = IF first.version = 0 THEN "runs" ELSE "columns"
                BY <3>2, <4>1, EntryStage
            <4>4. Entry(first.version) \in Creating => first.version = 0
                BY <4>3, PlacesNamed
            <4>5. Migrating(c)'
                BY <2>1, <2>2, <3>2, <4>1, <4>2, <4>4 DEF Migrating
            <4> QED
                BY <4>5
        <3>3. CASE disk.version # 2 /\ ~ Migratable(first)
            <4>1. disk = first
                BY <3>3, DiskKnown
            <4>2. first.version = 1
                BY <1>2, <3>3, <4>1 DEF Accepted, Migratable
            <4>3. Doomed(c)'
                BY <1>1, <2>1, <2>2, <3>3, <4>1, <4>2 DEF Doomed, Entry
            <4> QED
                BY <4>3
        <3> QED
            BY <3>1, <3>2, <3>3
    <2>5. InTransaction(c)'
        BY <1>1, <2>1, <2>2, <2>3, <2>4 DEF InTransaction
    <2>6. /\ base' \in [Openers -> Databases] /\ copy' \in [Openers -> Databases]
          /\ lock' \in Openers \cup {NoOne} /\ wal' \in BOOLEAN
        BY <2>1 DEF SchemaInv, SchemaTypeOK
    <2>7. Entry(disk.version) \in Places /\ Entry(disk.version) \notin {"opened", "clash", "refused"}
        BY <2>3, PlacesNamed
    <2> QED
        BY <1>1, <2>1, <2>5, <2>6, <2>7, OpenerMoves
<1>3. CASE ~ Accepted(disk)
    <2>1. Leave(c, "refused") /\ UNCHANGED <<first, disk, wal, base, copy>>
        BY <1>1, <1>3 DEF ReadVersion
    <2>2. first \notin Ours
        BY <1>3, DiskKnown
    <2> QED
        BY <2>1, <2>2, LeaveMoves, PlacesNamed
<1> QED
    BY <1>2, <1>3

\* A statement that does not clash changes the transaction of its opener only.
LEMMA StatementMoves ==
    ASSUME SchemaInv, NEW c \in Openers, NEW s \in Statements, Execute(c, s), ~ Clashes(c, s),
           NEW after \in Databases, after = Does(s, copy[c]),
           Migrating(c)' \/ Doomed(c)'
    PROVE  SchemaInv'
<1>1. InTransaction(c) /\ opener[c] = s /\ wal
    BY PlacesNamed DEF SchemaInv, Execute
<1>2. /\ Move(c, Following[s]) /\ lock' = lock /\ UNCHANGED <<first, disk, wal, base>>
      /\ copy' = [copy EXCEPT ![c] = after]
    BY DEF Execute
<1>3. /\ copy' \in [Openers -> Databases]
      /\ \A d \in Openers \ {c} : copy'[d] = copy[d]
      /\ base' \in [Openers -> Databases] /\ lock' \in Openers \cup {NoOne} /\ wal' \in BOOLEAN
    BY <1>2 DEF SchemaInv, SchemaTypeOK
<1>4. Following[s] \in Statements \cup {"commit"}
    BY DEF Statements, Following
<1>5. opener'[c] = Following[s] /\ Following[s] # "begun"
    BY <1>2, <1>4, PlacesNamed DEF Move, SchemaInv, SchemaTypeOK
<1>6. InTransaction(c)'
    BY <1>1, <1>2, <1>5 DEF InTransaction
<1>7. Following[s] \in Places /\ Following[s] \notin {"opened", "clash", "refused"}
    BY <1>4, PlacesNamed
<1> QED
    BY <1>1, <1>2, <1>3, <1>6, <1>7, OpenerMoves

\* A statement leads a migration to its next stage, and one that clashes is not
\* ours.
LEMMA ExecuteKeeps ==
    ASSUME SchemaInv, NEW c \in Openers, NEW s \in Statements, Execute(c, s) PROVE SchemaInv'
<1>1. InTransaction(c) /\ opener[c] = s /\ s # "begun" /\ s # "commit"
    BY PlacesNamed DEF SchemaInv, Execute
<1>2. lock = c /\ base[c] = disk /\ (Migrating(c) \/ Doomed(c)) /\ first \in Found
    BY <1>1 DEF InTransaction, Idle, SchemaInv
<1>3. copy[c] \in Databases
    BY DEF SchemaInv, SchemaTypeOK
<1>4. CASE Migrating(c)
    <2> DEFINE before == TablesBefore(first)
    <2>1. /\ disk = first /\ Migratable(first) /\ (s \in Creating => first.version = 0)
          /\ copy[c] = Stage(s, before, first.rows)
        BY <1>1, <1>4 DEF Migrating
    <2>2. /\ before \in SUBSET Tables /\ first.rows \in BOOLEAN
          /\ "nodes" \in before /\ "results" \notin before
          /\ s \in Creating => before = {"runs", "nodes"}
        BY <1>2, <2>1, BeforeResults
    <2> HIDE DEF before
    <2>3. /\ Does(s, copy[c]) = Stage(Following[s], before, first.rows)
          /\ ~ Clashes(c, s)
          /\ Following[s] \in Creating => s \in Creating
        BY <1>2, <2>1, <2>2, Stages DEF Clashes
    <2>4. Following[s] \in Statements \cup {"commit"}
        BY DEF Statements, Following
    <2>5. Stage(Following[s], before, first.rows) \in Databases
        BY <2>2, <2>4, StageTyped
    <2>6. /\ opener' = [opener EXCEPT ![c] = Following[s]] /\ UNCHANGED <<first, disk>>
          /\ copy' = [copy EXCEPT ![c] = Stage(Following[s], before, first.rows)]
        BY <2>3 DEF Execute, Move
    <2>7. opener'[c] = Following[s] /\ copy'[c] = Stage(Following[s], before, first.rows)
        BY <2>6 DEF SchemaInv, SchemaTypeOK
    <2>8. Migrating(c)'
        BY <2>1, <2>3, <2>6, <2>7 DEF Migrating, before
    <2> QED
        BY <2>3, <2>5, <2>8, StatementMoves
<1>5. CASE Doomed(c) /\ Clashes(c, s)
    <2>1. Leave(c, "clash") /\ UNCHANGED <<first, disk, wal, base, copy>>
        BY <1>5 DEF Execute
    <2>2. first \notin Ours
        BY <1>5, FoundOurs DEF Doomed
    <2> QED
        BY <2>1, <2>2, LeaveMoves, PlacesNamed
<1>6. CASE Doomed(c) /\ ~ Clashes(c, s)
    <2>1. s = "columns" /\ copy[c] = first /\ disk = first /\ ~ Migratable(first) /\ first.version = 1
        BY <1>1, <1>6 DEF Doomed, Clashes
    <2>2. "results" \in first.tables
        BY <1>6, <2>1 DEF Clashes, Migratable
    <2>3. Does(s, copy[c]) = [first EXCEPT !.columns = TRUE]
        BY <2>1 DEF Does
    <2>4. /\ [first EXCEPT !.columns = TRUE] \in Databases
          /\ [first EXCEPT !.columns = TRUE].tables = first.tables
        BY <1>3, <2>1 DEF Databases
    <2>5. Following[s] = "results"
        BY <2>1 DEF Following, Statements
    <2>6. /\ opener' = [opener EXCEPT ![c] = "results"] /\ UNCHANGED <<first, disk>>
          /\ copy' = [copy EXCEPT ![c] = [first EXCEPT !.columns = TRUE]]
        BY <1>6, <2>3, <2>5 DEF Execute, Move
    <2>7. opener'[c] = "results" /\ copy'[c] = [first EXCEPT !.columns = TRUE]
        BY <2>6 DEF SchemaInv, SchemaTypeOK
    <2>8. Doomed(c)'
        BY <2>1, <2>2, <2>4, <2>6, <2>7 DEF Doomed
    <2> QED
        BY <1>6, <2>3, <2>4, <2>8, StatementMoves
<1> QED
    BY <1>2, <1>4, <1>5, <1>6

\* A commit changes nothing or replaces the database as it was found by its last
\* stage; nobody else is in a transaction.
LEMMA CommitKeeps ==
    ASSUME SchemaInv, NEW c \in Openers, Commit(c)
    PROVE  SchemaInv' /\ (disk.rows => disk'.rows)
<1>1. InTransaction(c) /\ opener[c] = "commit" /\ wal
    BY PlacesNamed DEF SchemaInv, Commit
<1>2. lock = c /\ (Idle(c) \/ Migrating(c))
    BY <1>1, PlacesNamed DEF InTransaction, Doomed
<1>3. Move(c, "opened") /\ lock' = NoOne /\ disk' = copy[c] /\ UNCHANGED <<first, wal, base, copy>>
    BY <1>2 DEF Commit, Leave
<1>4. /\ opener'[c] = "opened" /\ \A d \in Openers \ {c} : opener'[d] = opener[d]
      /\ opener' \in [Openers -> Places]
    BY <1>3, PlacesNamed DEF Move, SchemaInv, SchemaTypeOK
<1>5. \A d \in Openers \ {c} : opener[d] \notin Inside
    BY <1>2 DEF SchemaInv, InTransaction
<1>6. SchemaTypeOK' /\ first' \in Found
    BY <1>3, <1>4 DEF SchemaInv, SchemaTypeOK
<1>7. /\ Settled' /\ (disk.rows => disk'.rows)
      /\ disk'.version = 2 /\ (first \in Ours => Complete(disk'))
    <2>1. CASE Idle(c)
        <3>1. disk' = disk /\ disk.version = 2
            BY <1>3, <2>1 DEF Idle
        <3>2. Settled'
            BY <1>3, <3>1 DEF SchemaInv, Settled
        <3> QED
            BY <3>1, <3>2, DiskKnown
    <2>2. CASE Migrating(c)
        <3>1. /\ disk = first /\ Migratable(first) /\ first \in Found
              /\ disk' = Stage("commit", TablesBefore(first), first.rows)
            BY <1>1, <1>3, <2>2 DEF Migrating, SchemaInv
        <3>2. first.rows \in BOOLEAN /\ disk'.rows = first.rows /\ disk'.version = 2
            BY <3>1, BeforeResults, LastStage
        <3>3. first \in Ours => Complete(disk')
            <4>1. SUFFICES ASSUME first \in Ours PROVE Complete(disk')
                OBVIOUS
            <4>2. TablesBefore(first) = {"runs", "nodes"}
                BY <3>1, <4>1, FoundOurs DEF Migratable
            <4> QED
                BY <3>1, <4>2, LastStage
        <3>4. Settled'
            BY <1>3, <3>1, <3>2 DEF Settled
        <3> QED
            BY <3>1, <3>2, <3>3, <3>4
    <2> QED
        BY <1>2, <2>1, <2>2
<1>8. ASSUME NEW d \in Openers
      PROVE  /\ opener'[d] \in Inside => InTransaction(d)'
             /\ opener'[d] \in Inside \cup {"ready", "opened"} => wal'
             /\ opener'[d] = "opened" /\ first' \in Ours => Complete(disk')
             /\ opener'[d] \in {"clash", "refused"} => first' \notin Ours
    <2>1. opener'[d] \notin Inside
        BY <1>4, <1>5, PlacesNamed
    <2>2. opener'[d] \in {"clash", "refused"} => first' \notin Ours
        BY <1>3, <1>4 DEF SchemaInv
    <2> QED
        BY <1>1, <1>3, <1>7, <2>1, <2>2
<1> QED
    BY <1>6, <1>7, <1>8 DEF SchemaInv

\* A run is recorded in the complete schema, outside of every transaction.
LEMMA RecordKeeps ==
    ASSUME SchemaInv, NEW c \in Openers, Record(c)
    PROVE  SchemaInv' /\ disk'.rows
<1>1. lock = NoOne /\ Complete(disk) /\ disk' = [disk EXCEPT !.rows = TRUE]
      /\ UNCHANGED <<first, wal, lock, base, copy, opener>>
    BY DEF Record
<1>2. \A d \in Openers : opener[d] \notin Inside
    BY <1>1, SchemaAssumption DEF SchemaInv, InTransaction
<1>3. disk \in Databases
    BY DEF SchemaInv, SchemaTypeOK
<1>4. disk' \in Databases /\ disk'.rows /\ Complete(disk')
    BY <1>1, <1>3 DEF Databases, Complete
<1>5. SchemaTypeOK'
    BY <1>1, <1>4 DEF SchemaInv, SchemaTypeOK
<1>6. Settled'
    <2>1. CASE disk = first
        <3>1. disk.rows = TRUE
            BY <1>1, <1>3, <2>1, FoundAreDatabases DEF SchemaInv, Databases
        <3>2. disk' = disk
            BY <1>1, <1>3, <3>1 DEF Databases
        <3> QED
            BY <1>1, <2>1, <3>2 DEF Settled
    <2>2. CASE disk # first
        <3>1. PICK rows \in BOOLEAN :
                  Migratable(first) /\ disk = Stage("commit", TablesBefore(first), rows)
            BY <2>2 DEF SchemaInv, Settled
        <3>2. disk = Database(2, TablesBefore(first) \cup {"results"}, TRUE, rows)
            BY <3>1, LastStage
        <3>3. disk' = Database(2, TablesBefore(first) \cup {"results"}, TRUE, TRUE)
            BY <1>1, <3>2 DEF Database
        <3>4. disk' = Stage("commit", TablesBefore(first), TRUE)
            BY <3>3, LastStage
        <3> QED
            BY <1>1, <3>1, <3>4 DEF Settled
    <2> QED
        BY <2>1, <2>2
<1>7. ASSUME NEW d \in Openers
      PROVE  /\ opener'[d] \in Inside => InTransaction(d)'
             /\ opener'[d] \in Inside \cup {"ready", "opened"} => wal'
             /\ opener'[d] = "opened" /\ first' \in Ours => Complete(disk')
             /\ opener'[d] \in {"clash", "refused"} => first' \notin Ours
    BY <1>1, <1>2, <1>4 DEF SchemaInv
<1>8. first' \in Found
    BY <1>1 DEF SchemaInv
<1> QED
    BY <1>4, <1>5, <1>6, <1>7, <1>8 DEF SchemaInv

\* A transaction that is rolled back leaves what is committed.
LEMMA RaiseKeeps == ASSUME SchemaInv, NEW c \in Openers, Raise(c) PROVE SchemaInv'
BY LeaveMoves, PlacesNamed DEF Raise

\* So does one whose process dies.
LEMMA CloseKeeps == ASSUME SchemaInv, NEW c \in Openers, Close(c) PROVE SchemaInv'
BY LeaveMoves, PlacesNamed DEF Close

\* Every step keeps the invariant and the rows.
LEMMA NextSchemaInv == SchemaInv /\ [SchemaNext]_schemaVars => SchemaInv' /\ (disk.rows => disk'.rows)
<1> SUFFICES ASSUME SchemaInv, [SchemaNext]_schemaVars PROVE SchemaInv' /\ (disk.rows => disk'.rows)
    OBVIOUS
<1>1. ASSUME NEW c \in Openers, Connect(c) \/ Journal(c) \/ JournalFails(c) \/ GiveUp(c)
      PROVE  SchemaInv' /\ disk' = disk
    BY <1>1, OutsideKeeps DEF Connect, Journal, JournalFails, GiveUp
<1>2. ASSUME NEW c \in Openers, Begin(c) PROVE SchemaInv' /\ disk' = disk
    BY <1>2, BeginKeeps DEF Begin
<1>3. ASSUME NEW c \in Openers, ReadVersion(c) PROVE SchemaInv' /\ disk' = disk
    BY <1>3, ReadVersionKeeps DEF ReadVersion
<1>4. ASSUME NEW c \in Openers, NEW s \in Statements, Execute(c, s) PROVE SchemaInv' /\ disk' = disk
    BY <1>4, ExecuteKeeps DEF Execute
<1>5. ASSUME NEW c \in Openers, Raise(c) PROVE SchemaInv' /\ disk' = disk
    BY <1>5, RaiseKeeps DEF Raise
<1>6. ASSUME NEW c \in Openers, Close(c) PROVE SchemaInv' /\ disk' = disk
    BY <1>6, CloseKeeps DEF Close
<1>7. CASE UNCHANGED schemaVars
    <2>1. UNCHANGED <<first, disk, wal, lock, base, copy, opener>>
        BY <1>7 DEF schemaVars
    <2>2. \A c \in Openers : InTransaction(c)' = InTransaction(c)
        BY <2>1 DEF InTransaction, Idle, Migrating, Doomed
    <2> QED
        BY <2>1, <2>2 DEF SchemaInv, SchemaTypeOK, Settled
<1> QED
    BY <1>1, <1>2, <1>3, <1>4, <1>5, <1>6, <1>7, CommitKeeps, RecordKeeps DEF SchemaNext

-----------------------------------------------------------------------------
\* The invariant holds of every store and any number of openers.
THEOREM SpecSchemaInv == SchemaSpec => []SchemaInv
BY InitSchemaInv, NextSchemaInv, PTL DEF SchemaSpec

\* Every variable keeps its type.
THEOREM SpecSchemaTypeOK == SchemaSpec => []SchemaTypeOK
<1>1. SchemaInv => SchemaTypeOK
    BY DEF SchemaInv
<1> QED
    BY <1>1, SpecSchemaInv, PTL

\* No process ever finds a half made or half migrated schema: what is committed is
\* the database as it was found or, where the script comes to its end, the same
\* database with every table it had, those of version 2 and its rows.
THEOREM SpecCommittedWhole == SchemaSpec => []CommittedWhole
<1>1. SchemaInv => CommittedWhole
    <2>1. SUFFICES ASSUME SchemaInv, disk # first PROVE CommittedWhole
        BY DEF CommittedWhole
    <2>2. PICK rows \in BOOLEAN :
              /\ Migratable(first)
              /\ disk = Stage("commit", TablesBefore(first), rows) /\ (first.rows => rows)
        BY <2>1 DEF SchemaInv, Settled
    <2>3. disk = Database(2, TablesBefore(first) \cup {"results"}, TRUE, rows)
        BY <2>2, LastStage
    <2>4. Migrated(disk, first)
        BY <2>2, <2>3 DEF Database, Migrated
    <2> QED
        BY <2>2, <2>4 DEF CommittedWhole
<1> QED
    BY <1>1, SpecSchemaInv, PTL

\* None of our databases is refused, at whatever moment it is opened; two
\* processes that create or migrate one store never run into each other; and
\* what they have opened is complete and in WAL mode.
THEOREM SpecOpenersServed == SchemaSpec => []OpenersServed
<1>1. SchemaInv => OpenersServed
    BY DEF SchemaInv, OpenersServed
<1> QED
    BY <1>1, SpecSchemaInv, PTL

\* Runs recorded before a migration are still there after it.
THEOREM SpecRowsSurvive == SchemaSpec => RowsSurvive
<1>1. SchemaInv /\ [SchemaNext]_schemaVars => [disk.rows => disk'.rows]_schemaVars
    BY NextSchemaInv
<1> QED
    BY <1>1, SpecSchemaInv, PTL DEF SchemaSpec, RowsSurvive
=============================================================================
