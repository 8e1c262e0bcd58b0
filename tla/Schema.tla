------------------------------- MODULE Schema -------------------------------
(***************************************************************************)
(* History.__init__ (python/traversal/history.py): several processes open  *)
(* one database file, which may be new, of an older version, complete, of  *)
(* a version not known yet, or somebody else's.  Opening creates what is   *)
(* missing in one write transaction; any process may die in the middle.    *)
(*                                                                         *)
(* What is external is SQLite: one write transaction at a time, a waiter   *)
(* that gives up (timeout=10), a transaction whose snapshot is older than  *)
(* the last commit that cannot write, rollback when its process dies.      *)
(***************************************************************************)
EXTENDS Naturals

CONSTANTS
    Openers,  \* the processes
    NoOne     \* holds the write lock when nobody does

ASSUME SchemaAssumption == NoOne \notin Openers

VARIABLES
    first,    \* the database as it was found
    disk,     \* what is committed
    wal,      \* whether the file is in WAL mode, which no transaction covers
    lock,     \* the opener in a write transaction
    base,     \* what was committed when the transaction began
    copy,     \* the database as the transaction sees it
    opener    \* where each process is in __init__

schemaVars == <<first, disk, wal, lock, base, copy, opener>>

Tables == {"runs", "nodes", "results", "other"}

Databases == [version : 0 .. 3, tables : SUBSET Tables, columns : BOOLEAN, rows : BOOLEAN]

Ours ==
    {[version |-> 0, tables |-> {}, columns |-> FALSE, rows |-> FALSE],
     [version |-> 1, tables |-> {"runs", "nodes"}, columns |-> FALSE, rows |-> TRUE],
     [version |-> 2, tables |-> {"runs", "nodes", "results"}, columns |-> TRUE, rows |-> TRUE]}

\* Another program's, whatever number it uses for its own schema and whatever
\* tables of ours it has a namesake of; the columns are those of its `nodes`.
Theirs ==
    {db \in Databases :
        /\ db.version # 3 /\ "other" \in db.tables /\ ~ db.rows
        /\ db.columns => "nodes" \in db.tables}

Future == [version |-> 3, tables |-> {"runs", "nodes", "results"}, columns |-> TRUE, rows |-> TRUE]

Found == Ours \cup Theirs \cup {Future}

\* The schema of version 2, whatever rows there are.
Complete(db) ==
    db.version = 2 /\ db.tables = {"runs", "nodes", "results"} /\ db.columns

Statements == {"runs", "nodes", "v1", "columns", "results", "v2"}

Inside == {"begun", "commit"} \cup Statements

Places == {"closed", "connected", "ready", "opened", "refused", "clash", "busy"} \cup Inside

SchemaInit ==
    /\ first \in Found /\ disk = first
    /\ wal \in BOOLEAN
    /\ lock = NoOne
    /\ base = [c \in Openers |-> first]
    /\ copy = [c \in Openers |-> first]
    /\ opener = [c \in Openers |-> "closed"]

Move(c, place) == opener' = [opener EXCEPT ![c] = place]

Leave(c, place) ==
    /\ Move(c, place)
    /\ lock' = IF lock = c THEN NoOne ELSE lock

-----------------------------------------------------------------------------
\* _connect; its two pragmas are of the connection.
Connect(c) ==
    /\ opener[c] = "closed"
    /\ Move(c, "connected")
    /\ UNCHANGED <<first, disk, wal, lock, base, copy>>

\* PRAGMA journal_mode=WAL changes the file at once, whoever's it is: no
\* rollback takes it back.
Journal(c) ==
    /\ opener[c] = "connected"
    /\ wal' = TRUE
    /\ Move(c, "ready")
    /\ UNCHANGED <<first, disk, lock, base, copy>>

\* The change of mode needs the file for itself and raises when it is locked.
JournalFails(c) ==
    /\ opener[c] = "connected" /\ ~ wal
    /\ Move(c, "busy")
    /\ UNCHANGED <<first, disk, wal, lock, base, copy>>

\* Mutant: BEGIN, which takes the write lock at the first write.
BeginDeferred(c) ==
    /\ opener[c] = "ready"
    /\ base' = [base EXCEPT ![c] = disk]
    /\ copy' = [copy EXCEPT ![c] = disk]
    /\ Move(c, "begun")
    /\ UNCHANGED <<first, disk, wal, lock>>

\* BEGIN IMMEDIATE.
Begin(c) ==
    /\ opener[c] = "ready" /\ lock = NoOne
    /\ lock' = c
    /\ base' = [base EXCEPT ![c] = disk]
    /\ copy' = [copy EXCEPT ![c] = disk]
    /\ Move(c, "begun")
    /\ UNCHANGED <<first, disk, wal>>

\* BEGIN IMMEDIATE gives up waiting.
GiveUp(c) ==
    /\ opener[c] = "ready" /\ lock # NoOne
    /\ Move(c, "busy")
    /\ UNCHANGED <<first, disk, wal, lock, base, copy>>

Accepted(db) == db.version \in {1, 2} \/ (db.version = 0 /\ db.tables = {})

\* Where the script starts.
Entry(version) == IF version = 0 THEN "runs" ELSE IF version = 1 THEN "columns" ELSE "commit"

ReadVersion(c) ==
    /\ opener[c] = "begun"
    /\ IF Accepted(copy[c]) THEN Move(c, Entry(copy[c].version)) /\ lock' = lock
       ELSE Leave(c, "refused")
    /\ UNCHANGED <<first, disk, wal, base, copy>>

Following ==
    [s \in Statements |->
        CASE s = "runs" -> "nodes"      [] s = "nodes" -> "v1"    [] s = "v1" -> "columns"
          [] s = "columns" -> "results" [] s = "results" -> "v2"  [] s = "v2" -> "commit"]

Does(s, db) ==
    CASE s \in {"runs", "nodes", "results"} -> [db EXCEPT !.tables = @ \cup {s}]
      [] s = "columns" -> [db EXCEPT !.columns = TRUE]
      [] s = "v1" -> [db EXCEPT !.version = 1]
      [] s = "v2" -> [db EXCEPT !.version = 2]

\* CREATE of a table that exists, or ALTER with a column that exists, raises;
\* so does a write of a transaction that another commit has overtaken.
Clashes(c, s) ==
    \/ s \in copy[c].tables
    \/ s = "columns" /\ (copy[c].columns \/ "nodes" \notin copy[c].tables)
    \/ base[c] # disk

\* Mutant: each statement is committed on its own.
ExecuteAutocommit(c, s) ==
    /\ opener[c] = s
    /\ IF Clashes(c, s)
       THEN Leave(c, "clash") /\ UNCHANGED <<copy, disk, base>>
       ELSE /\ Move(c, Following[s])
            /\ disk' = Does(s, copy[c])
            /\ copy' = [copy EXCEPT ![c] = disk']
            /\ base' = [base EXCEPT ![c] = disk']
            /\ lock' = lock
    /\ UNCHANGED <<first, wal>>

Execute(c, s) ==
    /\ opener[c] = s
    /\ IF Clashes(c, s)
       THEN Leave(c, "clash") /\ UNCHANGED copy
       ELSE /\ Move(c, Following[s])
            /\ copy' = [copy EXCEPT ![c] = Does(s, copy[c])]
            /\ lock' = lock
    /\ UNCHANGED <<first, disk, wal, base>>

Commit(c) ==
    /\ opener[c] = "commit"
    /\ disk' = copy[c]
    /\ Leave(c, "opened")
    /\ UNCHANGED <<first, wal, base, copy>>

\* A run is recorded by one who has the store open.
Record(c) ==
    /\ opener[c] = "opened" /\ lock = NoOne /\ Complete(disk)
    /\ disk' = [disk EXCEPT !.rows = TRUE]
    /\ UNCHANGED <<first, wal, lock, base, copy, opener>>

\* A statement, or the commit, raises (a full disk): rollback.
Raise(c) ==
    /\ opener[c] \in Inside
    /\ Leave(c, "busy")
    /\ UNCHANGED <<first, disk, wal, base, copy>>

\* The process dies, or drops the store or its error and may open it again.
Close(c) ==
    /\ opener[c] # "closed"
    /\ Leave(c, "closed")
    /\ UNCHANGED <<first, disk, wal, base, copy>>

SchemaNext ==
    \E c \in Openers :
        \/ Connect(c) \/ Journal(c) \/ JournalFails(c) \/ Begin(c) \/ GiveUp(c) \/ ReadVersion(c) \/ Commit(c)
        \/ Record(c) \/ Raise(c) \/ Close(c)
        \/ \E s \in Statements : Execute(c, s)

SchemaSpec == SchemaInit /\ [][SchemaNext]_schemaVars
-----------------------------------------------------------------------------
SchemaTypeOK ==
    /\ {first, disk} \subseteq Databases
    /\ wal \in BOOLEAN
    /\ lock \in Openers \cup {NoOne}
    /\ base \in [Openers -> Databases] /\ copy \in [Openers -> Databases]
    /\ opener \in [Openers -> Places]

\* What the script can carry to its end: nothing at all, or a version 1 with a
\* table `nodes` to alter and room for `results`.  It asks no more than that, so
\* some databases of others are among them.
Migratable(db) ==
    \/ db.version = 0 /\ db.tables = {}
    \/ db.version = 1 /\ "nodes" \in db.tables /\ "results" \notin db.tables /\ ~ db.columns

\* The tables of version 1.
TablesBefore(db) == IF db.version = 0 THEN {"runs", "nodes"} ELSE db.tables

Migrated(db, from) ==
    /\ db.version = 2 /\ db.columns
    /\ db.tables = TablesBefore(from) \cup {"results"}
    /\ from.rows => db.rows

\* What is committed is the database as it was found or that database after the
\* whole script, every table it had still there, never something in between,
\* however the openers interleave and die; and what cannot be carried to the
\* end is left as it was found, whichever statement it fails at.
CommittedWhole ==
    \/ disk = first
    \/ Migratable(first) /\ Migrated(disk, first)

\* Nobody who opens our store is refused, and no statement runs into what another
\* opener has created: two processes that open a new store together both succeed,
\* or one has waited too long.  Whoever has it open finds every table and column
\* it will write, in WAL mode.
OpenersServed ==
    first \in Ours =>
        \A c \in Openers :
            /\ opener[c] \notin {"clash", "refused"}
            /\ opener[c] = "opened" => Complete(disk) /\ wal

\* Recorded runs survive every opening.
RowsSurvive == [][disk.rows => disk'.rows]_schemaVars
=============================================================================
