--------------------------- MODULE SqliteStorage ---------------------------
(* adapters/storage/sqlite.py: threads of several processes save entities  *)
(* in one file, a connection per call, processes die at any step.  Each    *)
(* process has one adapter instance with its write lock.  SQLite gives one *)
(* write transaction at a time, readers see the committed rows (WAL), and  *)
(* a transaction that is not committed is gone with its process.           *)
EXTENDS Places

CONSTANTS
    Processes, Threads,
    ProcessOf,     \* thread -> the process it runs in
    Projects, Payloads,
    NoOne,
    MaxSaves,      \* bound: saves begun
    MaxCrashes     \* bound: processes lost

ASSUME SqliteAssumption ==
    /\ ProcessOf \in [Threads -> Processes]
    /\ NoOne \notin Threads
    /\ MaxSaves \in Nat /\ MaxCrashes \in Nat

SCHEMA_VERSION == 1

VARIABLES
    version,   \* PRAGMA user_version of the file
    table,     \* does harness_entity exist
    rows,      \* its committed rows
    lastId,    \* its AUTOINCREMENT counter, committed with the rows
    writer,    \* the thread whose write transaction is open
    pending,   \* the rows as that transaction sees them
    init,      \* per process, where its adapter is in _initialise
    lock,      \* per process, the holder of the adapter's _write_lock
    pc,        \* per thread, where its save is
    call,      \* per thread, the entity being saved
    saves, crashes

file == <<version, table>>
data == <<rows, lastId, writer, pending>>
vars == <<file, data, init, lock, pc, call, saves, crashes>>

Calls == [type : {"project", "finding"}, project : Projects, payload : Payloads]
Rows == [row_id : Nat, type : {"project", "finding"}, project : Projects, payload : Payloads]

InitStates == {"down", "readVersion", "sawNone", "sawCurrent", "createTable",
               "setVersion", "open", "refused"}

TypeOK ==
    /\ version \in {0, SCHEMA_VERSION} /\ table \in BOOLEAN
    /\ rows \subseteq Rows /\ pending \subseteq Rows
    /\ lastId \in Nat
    /\ writer \in Threads \cup {NoOne}
    /\ init \in [Processes -> InitStates]
    /\ lock \in [Processes -> Threads \cup {NoOne}]
    /\ pc \in [Threads -> {"idle", "lock", "execute", "insert", "commit"}]
    /\ call \in [Threads -> Calls \cup {NoOne}]
    /\ saves \in Nat /\ crashes \in Nat

Init ==
    /\ version = 0 /\ table = FALSE
    /\ rows = {} /\ lastId = 0 /\ writer = NoOne /\ pending = {}
    /\ init = [p \in Processes |-> "down"]
    /\ lock = [p \in Processes |-> NoOne]
    /\ pc = [t \in Threads |-> "idle"]
    /\ call = [t \in Threads |-> NoOne]
    /\ saves = 0 /\ crashes = 0

(******************************* _initialise ******************************)
(* Four statements, each a transaction of its own: executescript commits   *)
(* before it starts and its DDL commits statement by statement.            *)
ReadVersion(p) ==
    /\ init[p] = "down"
    /\ init' = [init EXCEPT ![p] = IF version = SCHEMA_VERSION THEN "sawCurrent" ELSE "sawNone"]
    /\ UNCHANGED <<file, data, lock, pc, call, saves, crashes>>

ReadTable(p) ==
    /\ init[p] \in {"sawNone", "sawCurrent"}
    /\ init' = [init EXCEPT ![p] = IF init[p] = "sawCurrent" THEN "open"
                                   ELSE IF ~table THEN "createTable" ELSE "refused"]
    /\ UNCHANGED <<file, data, lock, pc, call, saves, crashes>>

CreateTable(p) ==
    /\ init[p] = "createTable" /\ writer = NoOne
    /\ table' = TRUE
    /\ init' = [init EXCEPT ![p] = "setVersion"]
    /\ UNCHANGED <<version, data, lock, pc, call, saves, crashes>>

SetVersion(p) ==
    /\ init[p] = "setVersion" /\ writer = NoOne
    /\ version' = SCHEMA_VERSION
    /\ init' = [init EXCEPT ![p] = "open"]
    /\ UNCHANGED <<table, data, lock, pc, call, saves, crashes>>

\* A statement raises (locked, disk full): what was committed stays.
InitFails(p) ==
    /\ init[p] \in {"sawNone", "sawCurrent", "createTable", "setVersion"}
    /\ init' = [init EXCEPT ![p] = "down"]
    /\ UNCHANGED <<file, data, lock, pc, call, saves, crashes>>

_initialise(p) ==
    ReadVersion(p) \/ ReadTable(p) \/ CreateTable(p) \/ SetVersion(p) \/ InitFails(p)

(************************* _append and _replace ***************************)
BeginSave(t) ==
    /\ init[ProcessOf[t]] = "open" /\ pc[t] = "idle" /\ saves < MaxSaves
    /\ \E c \in Calls : call' = [call EXCEPT ![t] = c]
    /\ pc' = [pc EXCEPT ![t] = "lock"]
    /\ saves' = saves + 1
    /\ UNCHANGED <<file, data, init, lock, crashes>>

AcquireLock(t) ==
    /\ pc[t] = "lock" /\ lock[ProcessOf[t]] = NoOne
    /\ lock' = [lock EXCEPT ![ProcessOf[t]] = t]
    /\ pc' = [pc EXCEPT ![t] = "execute"]
    /\ UNCHANGED <<file, data, init, call, saves, crashes>>

\* Mutant: the lock is not released when the block is left.
Release_keep(t) ==
    /\ lock' = lock
    /\ pc' = [pc EXCEPT ![t] = "idle"]
    /\ call' = [call EXCEPT ![t] = NoOne]

Release(t) ==
    /\ lock' = [lock EXCEPT ![ProcessOf[t]] = NoOne]
    /\ pc' = [pc EXCEPT ![t] = "idle"]
    /\ call' = [call EXCEPT ![t] = NoOne]

\* Mutant: autocommit, the DELETE is a transaction of its own.
Delete_committed(t) ==
    /\ pc[t] = "execute" /\ call[t].type = "project" /\ writer = NoOne
    /\ writer' = t
    /\ rows' = {x \in rows : ~(x.type = "project" /\ x.project = call[t].project)}
    /\ pending' = rows'
    /\ pc' = [pc EXCEPT ![t] = "insert"]
    /\ UNCHANGED <<file, lastId, init, lock, call, saves, crashes>>

\* The first statement opens the transaction: the DELETE of a replace.
Delete(t) ==
    /\ pc[t] = "execute" /\ call[t].type = "project" /\ writer = NoOne
    /\ writer' = t
    /\ pending' = {x \in rows : ~(x.type = "project" /\ x.project = call[t].project)}
    /\ pc' = [pc EXCEPT ![t] = "insert"]
    /\ UNCHANGED <<file, rows, lastId, init, lock, call, saves, crashes>>

NewRow(t) == [row_id |-> lastId + 1, type |-> call[t].type,
              project |-> call[t].project, payload |-> call[t].payload]

Insert(t) ==
    /\ \/ /\ pc[t] = "execute" /\ call[t].type # "project" /\ writer = NoOne
          /\ pending' = rows \cup {NewRow(t)}
       \/ pc[t] = "insert" /\ pending' = pending \cup {NewRow(t)}
    /\ writer' = t
    /\ pc' = [pc EXCEPT ![t] = "commit"]
    /\ UNCHANGED <<file, rows, lastId, init, lock, call, saves, crashes>>

Commit(t) ==
    /\ pc[t] = "commit"
    /\ rows' = pending /\ lastId' = lastId + 1
    /\ writer' = NoOne /\ pending' = {}
    /\ Release(t)
    /\ UNCHANGED <<file, init, saves, crashes>>

(* A statement or the commit raises: locked for longer than the timeout,   *)
(* disk full.  The transaction rolls back, the caller gets a stable code.  *)
SaveFails(t) ==
    /\ pc[t] \in {"execute", "insert", "commit"}
    /\ IF writer = t THEN writer' = NoOne /\ pending' = {} ELSE UNCHANGED <<writer, pending>>
    /\ Release(t)
    /\ UNCHANGED <<file, rows, lastId, init, saves, crashes>>

(******************************** process *********************************)
Crash(p) ==
    /\ init[p] # "down" /\ crashes < MaxCrashes
    /\ crashes' = crashes + 1
    /\ init' = [init EXCEPT ![p] = "down"]
    /\ lock' = [lock EXCEPT ![p] = NoOne]
    /\ pc' = [t \in Threads |-> IF ProcessOf[t] = p THEN "idle" ELSE pc[t]]
    /\ call' = [t \in Threads |-> IF ProcessOf[t] = p THEN NoOne ELSE call[t]]
    /\ IF writer # NoOne /\ ProcessOf[writer] = p
       THEN writer' = NoOne /\ pending' = {}
       ELSE UNCHANGED <<writer, pending>>
    /\ UNCHANGED <<file, rows, lastId, saves>>

SaveStep(t) == AcquireLock(t) \/ Delete(t) \/ Insert(t) \/ Commit(t) \/ SaveFails(t)

Next ==
    \/ \E p \in Processes : _initialise(p) \/ Crash(p)
    \/ \E t \in Threads : BeginSave(t) \/ SaveStep(t)

SafeSpec == Init /\ [][Next]_vars

\* A save that was begun keeps running; waiting for the file ends in a timeout.
Spec == SafeSpec /\ \A t \in Threads : WF_vars(SaveStep(t))

(********************************* reads **********************************)
\* SELECT over the committed rows: a reader never sees an open transaction.
Selected(type, p) == {x \in rows : x.type = type /\ x.project = p}

RowIds(type, p) == {x.row_id : x \in Selected(type, p)}

\* Mutant: ORDER BY row_id DESC on the lists as well.
_list_descending(type, p) ==
    LET ids == RowIds(type, p)
        row(n) == CHOOSE x \in Selected(type, p) :
                      x.row_id = Numbered(ids, Cardinality(ids) + 1 - n)
    IN  [n \in 1 .. Cardinality(ids) |-> row(n).payload]

\* ORDER BY row_id.
_list(type, p) ==
    LET ids == RowIds(type, p)
        row(n) == CHOOSE x \in Selected(type, p) :
                      x.row_id = Numbered(ids, n)
    IN  [n \in 1 .. Cardinality(ids) |-> row(n).payload]

\* ORDER BY row_id DESC LIMIT 1.
_one(type, p) ==
    LET latest == CHOOSE x \in Selected(type, p) :
                      \A y \in Selected(type, p) : y.row_id <= x.row_id
    IN  IF Selected(type, p) = {} THEN NoOne ELSE latest.payload

Memory == INSTANCE EntityStore WITH
    Absent <- NoOne,
    project <- [p \in Projects |-> _one("project", p)],
    list <- [p \in Projects |-> _list("finding", p)]

(****************************** properties ********************************)
HasProject(rs, p) == \E x \in rs : x.type = "project" /\ x.project = p

(* Once saved, a project is there for every read that follows, through     *)
(* replacements that fail or die half way, and there is never a second     *)
(* row of it; committed rows of other entities are never dropped.          *)
NothingSavedIsLost ==
    [][/\ \A p \in Projects : HasProject(rows, p) => HasProject(rows', p)
       /\ \A x \in rows : x.type # "project" => x \in rows']_rows

OneRowPerProject ==
    \A x, y \in rows :
        x.type = "project" /\ y.type = "project" /\ x.project = y.project => x = y

(* The file adapter has the semantics of MemoryStorage: what its reads     *)
(* return only changes by whole saves, whatever threads, processes and     *)
(* crashes do in between.                                                  *)
SameAsMemory == Memory!Spec

(* A save that was begun ends, with the write lock released.               *)
SavesEnd == \A t \in Threads : pc[t] # "idle" ~> pc[t] = "idle"

(************ what the repository says and the code does not do ***********)
(* _initialise refuses a file only when "a newer adapter wrote it, or an   *)
(* older one did before versions existed".  This adapter is the only one   *)
(* here, and a crash of its own makes it refuse the file for good.         *)
OwnFileIsAccepted == \A p \in Processes : init[p] # "refused"
=============================================================================
