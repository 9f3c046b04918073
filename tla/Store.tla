------------------------------- MODULE Store -------------------------------
(***************************************************************************)
(* The SQLite run store: what one use of store.connect() does, statement   *)
(* by statement, while other processes and threads use the same file.      *)
(*                                                                         *)
(* A session opens the file, makes sure the schema is current, runs its    *)
(* body (insert one run, or read the history), commits and closes.  Python *)
(* runs DDL in autocommit and opens a transaction implicitly before an     *)
(* INSERT, so each DDL statement is a step that is durable at once, while  *)
(* an INSERT takes the write lock and shows only at its commit.  A write   *)
(* that finds the lock taken waits, and gives up after the busy timeout;   *)
(* a statement with nothing to do (IF EXISTS, IF NOT EXISTS) needs no      *)
(* lock.  A session may die at any point: SQLite rolls its transaction     *)
(* back, what autocommit made durable stays.                               *)
(*                                                                         *)
(* A session inserts at most one run, so the session names the run.        *)
(***************************************************************************)
EXTENDS Naturals

CONSTANTS
  Sessions,    \* one per connect(): a CLI command, a poll, a UI request
  Nobody,      \* the write lock is free
  Deployments  \* the file that is there at first, and which sessions have it
               \* to themselves while they are open

ASSUME StoreAssumption ==
  /\ Nobody \notin Sessions
  /\ Deployments \subseteq
       [file : {"no_file", "old", "current"}, alone : SUBSET Sessions]

VARIABLES
  alone,   \* the sessions that overlap with no other, in this deployment
  db,      \* the durable database: meta, runs, indexed, rows
  lock,    \* the session with an open write transaction
  pc,      \* the statement each session is about to run, or how it ended
  acked    \* the sessions whose run_uuid was returned to the caller

vars == <<alone, db, lock, pc, acked>>

\* meta: schema_meta is absent, has no version row, or an old or current one.
\* runs: the table is absent, or has the old or the current columns.
Database == [meta : {"absent", "empty", "old", "current"},
             runs : {"absent", "old", "current"},
             indexed : BOOLEAN,
             rows : SUBSET Sessions]

InitialDb(file) ==
  CASE file = "no_file" ->
         [meta |-> "absent", runs |-> "absent", indexed |-> FALSE, rows |-> {}]
    [] file = "old" ->
         [meta |-> "old", runs |-> "old", indexed |-> TRUE, rows |-> {}]
    [] file = "current" ->
         [meta |-> "current", runs |-> "current", indexed |-> TRUE, rows |-> {}]

Migrating == {"drop_runs", "drop_meta", "ddl_meta", "ddl_runs", "ddl_index",
              "insert_version", "commit_version"}
Open   == Migrating \cup {"create_meta", "read_version", "body", "commit_run", "close"}
Failed == {"schema_error", "locked", "io_error"}
Ended  == Failed \cup {"returned", "read", "dead"}

Init ==
  /\ \E d \in Deployments : alone = d.alone /\ db = InitialDb(d.file)
  /\ lock = Nobody
  /\ pc = [s \in Sessions |-> "idle"]
  /\ acked = {}

Goto(s, l) == pc' = [pc EXCEPT ![s] = l]

\* Mutant: no rollback on the exception path.
Raise_without_rollback(s, error) ==
  /\ Goto(s, error)
  /\ UNCHANGED <<alone, db, lock, acked>>

\* The exception path of connect(): roll back, close, re-raise.
Raise(s, error) ==
  /\ Goto(s, error)
  /\ lock' = IF lock = s THEN Nobody ELSE lock
  /\ UNCHANGED <<alone, db, acked>>

\* An autocommitted statement: it writes if it has something to do.
AutoCommit(s, from, to, todo, written) ==
  /\ pc[s] = from
  /\ todo => lock = Nobody
  /\ db' = IF todo THEN written ELSE db
  /\ Goto(s, to)
  /\ UNCHANGED <<alone, lock, acked>>

-----------------------------------------------------------------------------
\* connect() and _ensure_schema()

Connect(s) ==
  /\ pc[s] = "idle"
  /\ \A t \in Sessions : pc[t] \in Open => s \notin alone /\ t \notin alone
  /\ Goto(s, "create_meta")
  /\ UNCHANGED <<alone, db, lock, acked>>

CreateMeta(s) ==
  AutoCommit(s, "create_meta", "read_version",
             db.meta = "absent", [db EXCEPT !.meta = "empty"])

\* Mutant: the version is compared the wrong way, every session migrates.
ReadVersion_always_migrates(s) ==
  /\ pc[s] = "read_version"
  /\ Goto(s, "drop_runs")
  /\ UNCHANGED <<alone, db, lock, acked>>

ReadVersion(s) ==
  /\ pc[s] = "read_version"
  /\ IF db.meta = "absent" THEN Raise(s, "schema_error")
     ELSE /\ Goto(s, IF db.meta = "current" THEN "body" ELSE "drop_runs")
          /\ UNCHANGED <<alone, db, lock, acked>>

DropRuns(s) ==
  AutoCommit(s, "drop_runs", "drop_meta", db.runs # "absent",
             [db EXCEPT !.runs = "absent", !.indexed = FALSE, !.rows = {}])

\* Mutant: schema_meta and its old version row are kept.
DropMeta_skipped(s) ==
  AutoCommit(s, "drop_meta", "ddl_meta", FALSE, db)

DropMeta(s) ==
  AutoCommit(s, "drop_meta", "ddl_meta",
             db.meta # "absent", [db EXCEPT !.meta = "absent"])

DdlMeta(s) ==
  AutoCommit(s, "ddl_meta", "ddl_runs",
             db.meta = "absent", [db EXCEPT !.meta = "empty"])

DdlRuns(s) ==
  AutoCommit(s, "ddl_runs", "ddl_index",
             db.runs = "absent", [db EXCEPT !.runs = "current"])

DdlIndex(s) ==
  /\ pc[s] = "ddl_index"
  /\ IF db.runs = "absent" THEN Raise(s, "schema_error")
     ELSE AutoCommit(s, "ddl_index", "insert_version",
                     ~db.indexed, [db EXCEPT !.indexed = TRUE])

\* The first INSERT opens a transaction.  The version row is a primary key: if
\* another session has put one there, the insert fails.
InsertVersion(s) ==
  /\ pc[s] = "insert_version"
  /\ \/ /\ db.meta = "empty"
        /\ lock = Nobody
        /\ lock' = s
        /\ Goto(s, "commit_version")
        /\ UNCHANGED <<alone, db, acked>>
     \/ /\ db.meta # "empty"
        /\ db.meta # "absent" => lock = Nobody
        /\ Raise(s, "schema_error")

CommitVersion(s) ==
  /\ pc[s] = "commit_version"
  /\ db' = [db EXCEPT !.meta = "current"]
  /\ lock' = Nobody
  /\ Goto(s, "body")
  /\ UNCHANGED <<alone, acked>>

-----------------------------------------------------------------------------
\* The body of the with-block, then connect()'s commit and close

\* Mutant: the insert is committed at once (autocommit).
InsertRun_autocommit(s) ==
  /\ pc[s] = "body" /\ db.runs = "current" /\ lock = Nobody
  /\ db' = [db EXCEPT !.rows = @ \cup {s}]
  /\ Goto(s, "commit_run")
  /\ UNCHANGED <<alone, lock, acked>>

InsertRun(s) ==
  /\ pc[s] = "body"
  /\ \/ /\ db.runs = "current"
        /\ lock = Nobody
        /\ lock' = s
        /\ Goto(s, "commit_run")
        /\ UNCHANGED <<alone, db, acked>>
     \/ /\ db.runs # "current"
        /\ Raise(s, "schema_error")

\* Mutant: the connection is closed without a commit.
CommitRun_forgotten(s) ==
  /\ pc[s] = "commit_run"
  /\ lock' = Nobody
  /\ Goto(s, "close")
  /\ UNCHANGED <<alone, db, acked>>

CommitRun(s) ==
  /\ pc[s] = "commit_run"
  /\ db' = [db EXCEPT !.rows = @ \cup {s}]
  /\ lock' = Nobody
  /\ Goto(s, "close")
  /\ UNCHANGED <<alone, acked>>

\* connect() is left and the caller gets its run_uuid.
Return(s) ==
  /\ pc[s] = "close"
  /\ Goto(s, "returned")
  /\ acked' = acked \cup {s}
  /\ UNCHANGED <<alone, db, lock>>

\* fetch_recent or fetch_run
Fetch(s) ==
  /\ pc[s] = "body"
  /\ IF db.runs = "absent" THEN Raise(s, "schema_error")
     ELSE /\ Goto(s, "read")
          /\ UNCHANGED <<alone, db, lock, acked>>

-----------------------------------------------------------------------------
\* What can go wrong around any statement

\* The statements that take the write lock when they have something to write.
Writing(s) ==
  \/ pc[s] = "create_meta" /\ db.meta = "absent"
  \/ pc[s] = "drop_runs" /\ db.runs # "absent"
  \/ pc[s] = "drop_meta" /\ db.meta # "absent"
  \/ pc[s] = "ddl_meta" /\ db.meta = "absent"
  \/ pc[s] = "ddl_runs" /\ db.runs = "absent"
  \/ pc[s] = "ddl_index" /\ db.runs # "absent" /\ ~db.indexed
  \/ pc[s] = "insert_version" /\ db.meta # "absent"
  \/ pc[s] = "body" /\ db.runs = "current"

\* Mutant: no timeout, the writer waits for as long as it takes.
BusyTimeout_never(s) ==
  /\ Writing(s)
  /\ lock # Nobody
  /\ UNCHANGED vars

\* Another session kept the write lock for longer than the busy timeout.
BusyTimeout(s) ==
  /\ Writing(s)
  /\ lock # Nobody
  /\ Raise(s, "locked")

\* The statement fails for a reason outside the protocol: disk full, I/O error.
Broken(s) ==
  /\ pc[s] \in Open \ {"close"}
  /\ Raise(s, "io_error")

\* The process is killed; SQLite rolls back on the next use of the file.
Crash(s) ==
  /\ pc[s] \in Open
  /\ Goto(s, "dead")
  /\ lock' = IF lock = s THEN Nobody ELSE lock
  /\ UNCHANGED <<alone, db, acked>>

\* The statement the session is at: it ends, or the busy timeout ends it.
Step(s) ==
  \/ CreateMeta(s) \/ ReadVersion(s) \/ DropRuns(s) \/ DropMeta(s)
  \/ DdlMeta(s) \/ DdlRuns(s) \/ DdlIndex(s)
  \/ InsertVersion(s) \/ CommitVersion(s)
  \/ InsertRun(s) \/ CommitRun(s) \/ Return(s) \/ Fetch(s)
  \/ BusyTimeout(s)

Next == \E s \in Sessions : Connect(s) \/ Step(s) \/ Broken(s) \/ Crash(s)

Spec == Init /\ [][Next]_vars

-----------------------------------------------------------------------------
\* Properties

TypeOK ==
  /\ alone \subseteq Sessions
  /\ db \in Database
  /\ lock \in Sessions \cup {Nobody}
  /\ pc \in [Sessions -> Open \cup Ended \cup {"idle"}]
  /\ acked \subseteq Sessions

\* A run whose identifier was handed back is in the history and stays there:
\* "every run is saved locally so you can compare it with the next one"
\* (README.md:32, store/__init__.py:103-118, 207).
AckedDurable == acked \subseteq db.rows

\* connect() hands out a "schema-ensured" connection (store/__init__.py:105):
\* no session fails because a table or the version row is not what it expects.
SchemaEnsured == \A s \in Sessions : pc[s] # "schema_error"

\* Whatever crashes and failures left behind, a session that has the file to
\* itself finds or makes a usable schema (store/__init__.py:85-100, 105).
SoloSessionHeals == \A s \in alone : pc[s] # "schema_error"

\* A session that fails leaves no trace of its run: what was reported as an
\* error is not in the history (rollback, store/__init__.py:114-116).
FailedRunNotStored == \A s \in Sessions : pc[s] \in Failed => s \notin db.rows

\* A session that has ended, in whatever way, blocks nobody: the write lock is
\* held exactly between an INSERT and its commit (store/__init__.py:112-118).
LockHeldByWriter ==
  \A s \in Sessions : lock = s <=> pc[s] \in {"commit_version", "commit_run"}

\* The one damage no session repairs, even alone: a version row that says
\* current beside a runs table that is not (store/__init__.py:88, 96-100).
Unhealable == db.meta = "current" /\ db.runs # "current"
OnlyThatDoesNotHeal == \A s \in alone : pc[s] = "schema_error" => Unhealable

\* Once the schema is current and nobody migrates any more, it stays so however
\* it came about: no later step loses a run, changes the tables or fails over
\* them (store/__init__.py:85-100).
Warm ==
  /\ db.meta = "current" /\ db.runs = "current"
  /\ \A s \in Sessions : pc[s] \notin Migrating
WarmStoreIsSafe ==
  [][Warm => /\ Warm' /\ db.rows \subseteq db.rows'
             /\ \A s \in Sessions :
                  pc'[s] = "schema_error" => pc[s] = "schema_error"]_vars

\* The history is the log its callers were promised: runs are only added, and
\* only a run on record is acknowledged.
PromisedLog == INSTANCE RunLog WITH Runs <- Sessions, log <- db.rows
ImplementsRunLog == PromisedLog!Spec

-----------------------------------------------------------------------------
\* The inductive invariant, for the deployments in which the store keeps its
\* promises: the database is current from the start, or sessions never overlap.

SafeDeployment == \A d \in Deployments : d.file = "current" \/ d.alone = Sessions

\* A session that has the file to itself overlaps with no other.
AloneIsAlone ==
  \A s, t \in Sessions :
     pc[s] \in Open /\ pc[t] \in Open /\ s \in alone => s = t

\* Where sessions may overlap the database was current from the start.
StaysCurrent == alone # Sessions => db.meta = "current"

\* Nobody migrates a current database...
CurrentIsUsable ==
  db.meta = "current" =>
     db.runs = "current" /\ \A s \in Sessions : pc[s] \notin Migrating

\* ... and nobody uses, or relies on, one that is not.
UsedOnlyIfCurrent ==
  db.meta # "current" =>
     /\ db.rows = {}
     /\ \A s \in Sessions : pc[s] \notin {"body", "commit_run", "close"}

\* What a migrating session has achieved by the time it reaches a statement.
Migrated(s) ==
  /\ pc[s] = "read_version" => db.meta # "absent"
  /\ pc[s] \in {"drop_meta", "ddl_meta", "ddl_runs"} => db.runs = "absent"
  /\ pc[s] = "ddl_meta" => db.meta = "absent"
  /\ pc[s] \in {"ddl_runs", "ddl_index", "insert_version", "commit_version"}
       => db.meta = "empty"
  /\ pc[s] \in {"ddl_index", "insert_version", "commit_version"}
       => db.runs = "current"

Achieved ==
  \A s \in Sessions : Migrated(s) /\ (pc[s] = "close" => s \in db.rows)

\* The inductive invariant of the store (StoreProofs): what each session may
\* rely on while it migrates or uses the database (store/__init__.py:85-118).
SchemaInv ==
  /\ TypeOK
  /\ AloneIsAlone
  /\ StaysCurrent
  /\ CurrentIsUsable
  /\ UsedOnlyIfCurrent
  /\ Achieved
  /\ AckedDurable
  /\ SchemaEnsured
=============================================================================
