---------------------------- MODULE StoreProofs ----------------------------
(***************************************************************************)
(* What the store guarantees for any set of sessions, and the web UI over  *)
(* it for any number of requests beside any commands.                      *)
(*                                                                         *)
(* Store: types and the fate of a failed run hold in every deployment;     *)
(* durability, a usable schema and the refinement of RunLog hold in the    *)
(* safe ones, from SchemaInv.  The UI, on any history: its answers agree   *)
(* with the store, and its pages with time.                                *)
(***************************************************************************)
EXTENDS UiServer, OperatorLemmas, SequenceTheorems, TLAPS

-----------------------------------------------------------------------------
\* The store

\* Every label a session can stand at.
USE DEF Migrating, Open, Failed, Ended

\* Every statement leaves the variables in their types.
LEMMA TypeInductive == TypeOK /\ [Next]_vars => TypeOK'
<1> USE StoreAssumption DEF TypeOK, Database
<1> SUFFICES ASSUME TypeOK, [Next]_vars PROVE TypeOK'
  OBVIOUS
<1>1. ASSUME NEW s \in Sessions, Connect(s) PROVE TypeOK'
  BY <1>1 DEF Connect, Goto
<1>2. ASSUME NEW s \in Sessions,
             CreateMeta(s) \/ DropRuns(s) \/ DropMeta(s) \/ DdlMeta(s) \/ DdlRuns(s)
      PROVE TypeOK'
  <2>1. CASE CreateMeta(s) BY <2>1 DEF CreateMeta, AutoCommit, Goto
  <2>2. CASE DropRuns(s)   BY <2>2 DEF DropRuns, AutoCommit, Goto
  <2>3. CASE DropMeta(s)   BY <2>3 DEF DropMeta, AutoCommit, Goto
  <2>4. CASE DdlMeta(s)    BY <2>4 DEF DdlMeta, AutoCommit, Goto
  <2>5. CASE DdlRuns(s)    BY <2>5 DEF DdlRuns, AutoCommit, Goto
  <2>6. QED BY <1>2, <2>1, <2>2, <2>3, <2>4, <2>5
<1>3. ASSUME NEW s \in Sessions, ReadVersion(s) \/ DdlIndex(s) PROVE TypeOK'
  BY <1>3 DEF ReadVersion, DdlIndex, AutoCommit, Raise, Goto
<1>4. ASSUME NEW s \in Sessions, InsertVersion(s) \/ CommitVersion(s) PROVE TypeOK'
  BY <1>4 DEF InsertVersion, CommitVersion, Raise, Goto
<1>5. ASSUME NEW s \in Sessions, InsertRun(s) \/ CommitRun(s) PROVE TypeOK'
  BY <1>5 DEF InsertRun, CommitRun, Raise, Goto
<1>6. ASSUME NEW s \in Sessions, Return(s) \/ Fetch(s) PROVE TypeOK'
  BY <1>6 DEF Return, Fetch, Raise, Goto
<1>7. ASSUME NEW s \in Sessions, BusyTimeout(s) \/ Broken(s) \/ Crash(s) PROVE TypeOK'
  BY <1>7 DEF BusyTimeout, Broken, Crash, Raise, Goto
<1>8. CASE UNCHANGED vars
  BY <1>8 DEF vars
<1>9. QED
  BY <1>1, <1>2, <1>3, <1>4, <1>5, <1>6, <1>7, <1>8 DEF Next, Step

\* Every step keeps the variables in their types (store/__init__.py:85-118).
THEOREM TypeCorrect == Spec => []TypeOK
<1> USE StoreAssumption DEF TypeOK, Database
<1>1. Init => TypeOK
  BY DEF Init, InitialDb
<1>2. TypeOK /\ [Next]_vars => TypeOK'
  BY TypeInductive
<1>3. QED
  BY <1>1, <1>2, PTL DEF Spec

-----------------------------------------------------------------------------
(* A failed run.  A session's row appears in its CommitRun only, after which
   it can only return or be killed. *)

RowOwner == \A s \in Sessions : s \in db.rows => pc[s] \in {"close", "returned", "dead"}

\* Every statement leaves each row with a session that has committed it.
LEMMA RowOwnerInductive == TypeOK /\ RowOwner /\ [Next]_vars => RowOwner'
<1> USE StoreAssumption DEF TypeOK, Database, RowOwner
<1> SUFFICES ASSUME TypeOK, RowOwner, [Next]_vars PROVE RowOwner'
  OBVIOUS
<1>1. ASSUME NEW s \in Sessions, Connect(s) PROVE RowOwner'
  BY <1>1 DEF Connect, Goto
<1>2. ASSUME NEW s \in Sessions,
             CreateMeta(s) \/ DropRuns(s) \/ DropMeta(s) \/ DdlMeta(s) \/ DdlRuns(s)
      PROVE RowOwner'
  <2>1. CASE CreateMeta(s) BY <2>1 DEF CreateMeta, AutoCommit, Goto
  <2>2. CASE DropRuns(s)   BY <2>2 DEF DropRuns, AutoCommit, Goto
  <2>3. CASE DropMeta(s)   BY <2>3 DEF DropMeta, AutoCommit, Goto
  <2>4. CASE DdlMeta(s)    BY <2>4 DEF DdlMeta, AutoCommit, Goto
  <2>5. CASE DdlRuns(s)    BY <2>5 DEF DdlRuns, AutoCommit, Goto
  <2>6. QED BY <1>2, <2>1, <2>2, <2>3, <2>4, <2>5
<1>3. ASSUME NEW s \in Sessions, ReadVersion(s) \/ DdlIndex(s) PROVE RowOwner'
  BY <1>3 DEF ReadVersion, DdlIndex, AutoCommit, Raise, Goto
<1>4. ASSUME NEW s \in Sessions, InsertVersion(s) \/ CommitVersion(s) PROVE RowOwner'
  BY <1>4 DEF InsertVersion, CommitVersion, Raise, Goto
<1>5. ASSUME NEW s \in Sessions, InsertRun(s) \/ CommitRun(s) PROVE RowOwner'
  BY <1>5 DEF InsertRun, CommitRun, Raise, Goto
<1>6. ASSUME NEW s \in Sessions, Return(s) \/ Fetch(s) PROVE RowOwner'
  BY <1>6 DEF Return, Fetch, Raise, Goto
<1>7. ASSUME NEW s \in Sessions, BusyTimeout(s) \/ Broken(s) \/ Crash(s) PROVE RowOwner'
  BY <1>7 DEF BusyTimeout, Broken, Crash, Writing, Raise, Goto
<1>8. CASE UNCHANGED vars
  BY <1>8 DEF vars
<1>9. QED
  BY <1>1, <1>2, <1>3, <1>4, <1>5, <1>6, <1>7, <1>8 DEF Next, Step

\* What was reported as an error is not in the history, in any deployment and
\* whatever the other sessions do (rollback, store/__init__.py:114-116).
THEOREM FailureLeavesNoTrace == Spec => []FailedRunNotStored
<1> USE StoreAssumption DEF TypeOK, Database, RowOwner
<1>1. Init => RowOwner
  BY DEF Init, InitialDb
<1>2. TypeOK /\ RowOwner /\ [Next]_vars => RowOwner'
  BY RowOwnerInductive
<1>3. RowOwner => FailedRunNotStored
  BY DEF FailedRunNotStored
<1>4. QED
  BY <1>1, <1>2, <1>3, TypeCorrect, PTL DEF Spec

-----------------------------------------------------------------------------
(* The write lock is taken by the two INSERTs only, and every way out of a
   session that holds it gives it back. *)

\* Every statement takes or gives back the lock with its transaction.
LEMMA LockInductive == TypeOK /\ LockHeldByWriter /\ [Next]_vars => LockHeldByWriter'
<1> USE StoreAssumption DEF TypeOK, Database, LockHeldByWriter
<1> SUFFICES ASSUME TypeOK, LockHeldByWriter, [Next]_vars PROVE LockHeldByWriter'
  OBVIOUS
<1>1. ASSUME NEW s \in Sessions, Connect(s) PROVE LockHeldByWriter'
  BY <1>1 DEF Connect, Goto
<1>2. ASSUME NEW s \in Sessions,
             CreateMeta(s) \/ DropRuns(s) \/ DropMeta(s) \/ DdlMeta(s) \/ DdlRuns(s)
      PROVE LockHeldByWriter'
  <2>1. CASE CreateMeta(s) BY <2>1 DEF CreateMeta, AutoCommit, Goto
  <2>2. CASE DropRuns(s)   BY <2>2 DEF DropRuns, AutoCommit, Goto
  <2>3. CASE DropMeta(s)   BY <2>3 DEF DropMeta, AutoCommit, Goto
  <2>4. CASE DdlMeta(s)    BY <2>4 DEF DdlMeta, AutoCommit, Goto
  <2>5. CASE DdlRuns(s)    BY <2>5 DEF DdlRuns, AutoCommit, Goto
  <2>6. QED BY <1>2, <2>1, <2>2, <2>3, <2>4, <2>5
<1>3. ASSUME NEW s \in Sessions, ReadVersion(s) \/ DdlIndex(s)
      PROVE LockHeldByWriter'
  BY <1>3 DEF ReadVersion, DdlIndex, AutoCommit, Raise, Goto
<1>4. ASSUME NEW s \in Sessions, InsertVersion(s) \/ CommitVersion(s)
      PROVE LockHeldByWriter'
  BY <1>4 DEF InsertVersion, CommitVersion, Raise, Goto
<1>5. ASSUME NEW s \in Sessions, InsertRun(s) \/ CommitRun(s) PROVE LockHeldByWriter'
  BY <1>5 DEF InsertRun, CommitRun, Raise, Goto
<1>6. ASSUME NEW s \in Sessions, Return(s) \/ Fetch(s) PROVE LockHeldByWriter'
  BY <1>6 DEF Return, Fetch, Raise, Goto
<1>7. ASSUME NEW s \in Sessions, BusyTimeout(s) \/ Broken(s) \/ Crash(s)
      PROVE LockHeldByWriter'
  BY <1>7 DEF BusyTimeout, Broken, Crash, Writing, Raise, Goto
<1>8. CASE UNCHANGED vars
  BY <1>8 DEF vars
<1>9. QED
  BY <1>1, <1>2, <1>3, <1>4, <1>5, <1>6, <1>7, <1>8 DEF Next, Step

\* A session that has ended blocks nobody, in any deployment, however it ended
\* (store/__init__.py:112-118).
THEOREM LockIsReleased == Spec => []LockHeldByWriter
<1> USE StoreAssumption DEF TypeOK, Database, LockHeldByWriter
<1>1. Init => LockHeldByWriter
  BY DEF Init
<1>2. TypeOK /\ LockHeldByWriter /\ [Next]_vars => LockHeldByWriter'
  BY LockInductive
<1>3. QED
  BY <1>1, <1>2, TypeCorrect, PTL DEF Spec

-----------------------------------------------------------------------------
(* The safe deployments. *)

\* While the database is not current, at most one session is open: in a safe
\* deployment it is then one of the sessions that have the file to themselves.
LEMMA MigratesAlone ==
  ASSUME SchemaInv, db.meta # "current",
         NEW s \in Sessions, NEW t \in Sessions, pc[s] \in Open, pc[t] \in Open
  PROVE  s = t
BY DEF SchemaInv, AloneIsAlone, StaysCurrent

\* No step takes the store out of the invariant.
LEMMA SchemaInvInductive ==
  ASSUME SchemaInv, [Next]_vars, TypeOK'
  PROVE  SchemaInv'
<1> USE StoreAssumption, MigratesAlone
    DEF SchemaInv, TypeOK, Database, AloneIsAlone, StaysCurrent, CurrentIsUsable,
        UsedOnlyIfCurrent, Achieved, Migrated, AckedDurable, SchemaEnsured
<1>1. ASSUME NEW s \in Sessions, Connect(s) PROVE SchemaInv'
  BY <1>1 DEF Connect, Goto
<1>2. ASSUME NEW s \in Sessions, CreateMeta(s) PROVE SchemaInv'
  BY <1>2 DEF CreateMeta, AutoCommit, Goto
<1>3. ASSUME NEW s \in Sessions, ReadVersion(s) PROVE SchemaInv'
  BY <1>3 DEF ReadVersion, Raise, Goto
<1>4. ASSUME NEW s \in Sessions, DropRuns(s) PROVE SchemaInv'
  BY <1>4 DEF DropRuns, AutoCommit, Goto
<1>5. ASSUME NEW s \in Sessions, DropMeta(s) PROVE SchemaInv'
  BY <1>5 DEF DropMeta, AutoCommit, Goto
<1>6. ASSUME NEW s \in Sessions, DdlMeta(s) PROVE SchemaInv'
  BY <1>6 DEF DdlMeta, AutoCommit, Goto
<1>7. ASSUME NEW s \in Sessions, DdlRuns(s) PROVE SchemaInv'
  BY <1>7 DEF DdlRuns, AutoCommit, Goto
<1>8. ASSUME NEW s \in Sessions, DdlIndex(s) PROVE SchemaInv'
  BY <1>8 DEF DdlIndex, AutoCommit, Raise, Goto
<1>9. ASSUME NEW s \in Sessions, InsertVersion(s) PROVE SchemaInv'
  BY <1>9 DEF InsertVersion, Raise, Goto
<1>10. ASSUME NEW s \in Sessions, CommitVersion(s) PROVE SchemaInv'
  BY <1>10 DEF CommitVersion, Goto
<1>11. ASSUME NEW s \in Sessions, InsertRun(s) PROVE SchemaInv'
  BY <1>11 DEF InsertRun, Raise, Goto
<1>12. ASSUME NEW s \in Sessions, CommitRun(s) PROVE SchemaInv'
  BY <1>12 DEF CommitRun, Goto
<1>13. ASSUME NEW s \in Sessions, Return(s) PROVE SchemaInv'
  BY <1>13 DEF Return, Goto
<1>14. ASSUME NEW s \in Sessions, Fetch(s) PROVE SchemaInv'
  BY <1>14 DEF Fetch, Raise, Goto
<1>15. ASSUME NEW s \in Sessions, BusyTimeout(s) \/ Broken(s) PROVE SchemaInv'
  BY <1>15 DEF BusyTimeout, Broken, Writing, Raise, Goto
<1>16. ASSUME NEW s \in Sessions, Crash(s) PROVE SchemaInv'
  BY <1>16 DEF Crash, Goto
<1>17. CASE UNCHANGED vars
  BY <1>17 DEF vars
<1>18. QED
  BY <1>1, <1>2, <1>3, <1>4, <1>5, <1>6, <1>7, <1>8, <1>9, <1>10, <1>11,
     <1>12, <1>13, <1>14, <1>15, <1>16, <1>17 DEF Next, Step

\* In a safe deployment every session can rely on what it has achieved so far
\* in _ensure_schema and on the schema while it uses it (store/__init__.py:85-118).
THEOREM SchemaInvHolds == ASSUME SafeDeployment PROVE Spec => []SchemaInv
<1>1. Init => SchemaInv
  <2> SUFFICES ASSUME Init PROVE SchemaInv
    OBVIOUS
  <2>1. PICK d \in Deployments : alone = d.alone /\ db = InitialDb(d.file)
    BY DEF Init
  <2>2. d.file = "current" \/ d.alone = Sessions
    BY DEF SafeDeployment
  <2>3. d.file \in {"no_file", "old", "current"} /\ d.alone \subseteq Sessions
    BY StoreAssumption
  <2>4. db \in Database /\ db.rows = {} /\ (db.meta = "current" <=> d.file = "current")
          /\ (db.runs = "current" <=> d.file = "current")
    BY <2>1, <2>3 DEF InitialDb, Database
  <2>5. QED
    BY <2>1, <2>2, <2>3, <2>4
       DEF Init, SchemaInv, TypeOK, AloneIsAlone, StaysCurrent, CurrentIsUsable,
           UsedOnlyIfCurrent, Achieved, Migrated, AckedDurable, SchemaEnsured
<1>2. SchemaInv /\ [Next]_vars /\ TypeOK' => SchemaInv'
  BY SchemaInvInductive
<1>3. QED
  BY <1>1, <1>2, TypeCorrect, PTL DEF Spec

\* A run whose identifier the caller holds is in the history
\* (README.md:32, store/__init__.py:103-118, 207).
THEOREM Durability == ASSUME SafeDeployment PROVE Spec => []AckedDurable
<1>1. SchemaInv => AckedDurable
  BY DEF SchemaInv
<1>2. QED
  BY <1>1, SchemaInvHolds, PTL

\* No session trips over the schema (store/__init__.py:85-105).
THEOREM SchemaIsEnsured == ASSUME SafeDeployment PROVE Spec => []SchemaEnsured
<1>1. SchemaInv => SchemaEnsured
  BY DEF SchemaInv
<1>2. QED
  BY <1>1, SchemaInvHolds, PTL

-----------------------------------------------------------------------------
(* The refinement of RunLog. *)

\* A step of the store records a run, acknowledges one, or changes nothing the
\* callers of the history were promised.
LEMMA StepRefines ==
  ASSUME SchemaInv, [Next]_vars
  PROVE  [PromisedLog!Next]_<<db.rows, acked>>
<1> USE StoreAssumption
    DEF SchemaInv, TypeOK, Database, CurrentIsUsable, UsedOnlyIfCurrent, Achieved
<1>1. ASSUME NEW s \in Sessions, CommitRun(s)
      PROVE  PromisedLog!Record(s) \/ UNCHANGED <<db.rows, acked>>
  BY <1>1 DEF CommitRun, Goto, PromisedLog!Record
<1>2. ASSUME NEW s \in Sessions, Return(s) PROVE PromisedLog!Acknowledge(s)
  BY <1>2 DEF Return, Goto, PromisedLog!Acknowledge
<1>3. ASSUME NEW s \in Sessions, DropRuns(s) PROVE UNCHANGED <<db.rows, acked>>
  BY <1>3 DEF DropRuns, AutoCommit
<1>4. ASSUME NEW s \in Sessions,
             CreateMeta(s) \/ DropMeta(s) \/ DdlMeta(s) \/ DdlRuns(s) \/ DdlIndex(s)
      PROVE  UNCHANGED <<db.rows, acked>>
  BY <1>4 DEF CreateMeta, DropMeta, DdlMeta, DdlRuns, DdlIndex, AutoCommit, Raise
<1>5. ASSUME NEW s \in Sessions,
             Connect(s) \/ ReadVersion(s) \/ InsertVersion(s) \/ CommitVersion(s)
      PROVE  UNCHANGED <<db.rows, acked>>
  BY <1>5 DEF Connect, ReadVersion, InsertVersion, CommitVersion, Raise
<1>6. ASSUME NEW s \in Sessions,
             InsertRun(s) \/ Fetch(s) \/ BusyTimeout(s) \/ Broken(s) \/ Crash(s)
      PROVE  UNCHANGED <<db.rows, acked>>
  BY <1>6 DEF InsertRun, Fetch, BusyTimeout, Broken, Crash, Raise
<1>7. CASE UNCHANGED vars
  BY <1>7 DEF vars
<1>8. QED
  BY <1>1, <1>2, <1>3, <1>4, <1>5, <1>6, <1>7 DEF Next, Step, PromisedLog!Next

\* The store implements the log its callers rely on (store/__init__.py:103-219).
THEOREM StoreImplementsRunLog == ASSUME SafeDeployment PROVE Spec => ImplementsRunLog
<1>1. Init => PromisedLog!Init
  BY StoreAssumption DEF Init, InitialDb, PromisedLog!Init
<1>2. SchemaInv /\ [Next]_vars => [PromisedLog!Next]_<<db.rows, acked>>
  BY StepRefines
<1>3. QED
  BY <1>1, <1>2, SchemaInvHolds, PTL DEF Spec, ImplementsRunLog, PromisedLog!Spec

-----------------------------------------------------------------------------
(* Every deployment: a file of any age, sessions that overlap or not. *)

\* In any deployment, on whatever file: what a session that overlaps with no
\* other may rely on, and what has stopped one that tripped over the schema.
AloneInv ==
  /\ TypeOK
  /\ AloneIsAlone
  /\ \A s \in alone :
       /\ Migrated(s)
       /\ pc[s] \in {"body", "commit_run"} => db.meta = "current"
       /\ pc[s] = "schema_error" =>
            Unhealable /\ \A t \in Sessions : pc[t] \notin Migrating

\* Each statement of a session that is alone finds what the one before it left,
\* and each statement of another finds it neither open nor to be disturbed.
LEMMA AloneInvInductive ==
  ASSUME AloneInv, [Next]_vars, TypeOK'
  PROVE  AloneInv'
<1> USE StoreAssumption
    DEF AloneInv, TypeOK, Database, AloneIsAlone, Migrated, Unhealable
<1>1. ASSUME NEW s \in Sessions, Connect(s) PROVE AloneInv'
  BY <1>1 DEF Connect, Goto
<1>2. ASSUME NEW s \in Sessions, CreateMeta(s) PROVE AloneInv'
  BY <1>2 DEF CreateMeta, AutoCommit, Goto
<1>3. ASSUME NEW s \in Sessions, ReadVersion(s) PROVE AloneInv'
  BY <1>3 DEF ReadVersion, Raise, Goto
<1>4. ASSUME NEW s \in Sessions, DropRuns(s) PROVE AloneInv'
  BY <1>4 DEF DropRuns, AutoCommit, Goto
<1>5. ASSUME NEW s \in Sessions, DropMeta(s) PROVE AloneInv'
  BY <1>5 DEF DropMeta, AutoCommit, Goto
<1>6. ASSUME NEW s \in Sessions, DdlMeta(s) PROVE AloneInv'
  BY <1>6 DEF DdlMeta, AutoCommit, Goto
<1>7. ASSUME NEW s \in Sessions, DdlRuns(s) PROVE AloneInv'
  BY <1>7 DEF DdlRuns, AutoCommit, Goto
<1>8. ASSUME NEW s \in Sessions, DdlIndex(s) PROVE AloneInv'
  BY <1>8 DEF DdlIndex, AutoCommit, Raise, Goto
<1>9. ASSUME NEW s \in Sessions, InsertVersion(s) PROVE AloneInv'
  BY <1>9 DEF InsertVersion, Raise, Goto
<1>10. ASSUME NEW s \in Sessions, CommitVersion(s) PROVE AloneInv'
  BY <1>10 DEF CommitVersion, Goto
<1>11. ASSUME NEW s \in Sessions, InsertRun(s) PROVE AloneInv'
  BY <1>11 DEF InsertRun, Raise, Goto
<1>12. ASSUME NEW s \in Sessions, CommitRun(s) PROVE AloneInv'
  BY <1>12 DEF CommitRun, Goto
<1>13. ASSUME NEW s \in Sessions, Return(s) PROVE AloneInv'
  BY <1>13 DEF Return, Goto
<1>14. ASSUME NEW s \in Sessions, Fetch(s) PROVE AloneInv'
  BY <1>14 DEF Fetch, Raise, Goto
<1>15. ASSUME NEW s \in Sessions, BusyTimeout(s) \/ Broken(s) PROVE AloneInv'
  BY <1>15 DEF BusyTimeout, Broken, Writing, Raise, Goto
<1>16. ASSUME NEW s \in Sessions, Crash(s) PROVE AloneInv'
  BY <1>16 DEF Crash, Goto
<1>17. CASE UNCHANGED vars
  BY <1>17 DEF vars
<1>18. QED
  BY <1>1, <1>2, <1>3, <1>4, <1>5, <1>6, <1>7, <1>8, <1>9, <1>10, <1>11,
     <1>12, <1>13, <1>14, <1>15, <1>16, <1>17 DEF Next, Step

\* Whatever the file was and whatever earlier sessions and crashes made of it, a
\* session that has it to itself migrates it or uses it; it trips over the schema
\* only where the version row says current and the runs table is not
\* (store/__init__.py:85-100).
THEOREM SoloHealsAllElse == Spec => []OnlyThatDoesNotHeal
<1>1. Init => AloneInv
  <2> SUFFICES ASSUME Init PROVE AloneInv
    OBVIOUS
  <2>1. TypeOK
    BY StoreAssumption DEF Init, InitialDb, TypeOK, Database
  <2>2. QED
    BY <2>1 DEF Init, AloneInv, AloneIsAlone, Migrated, TypeOK
<1>2. AloneInv /\ [Next]_vars /\ TypeOK' => AloneInv'
  BY AloneInvInductive
<1>3. AloneInv => OnlyThatDoesNotHeal
  BY DEF AloneInv, OnlyThatDoesNotHeal
<1>4. QED
  BY <1>1, <1>2, <1>3, TypeCorrect, PTL DEF Spec

\* No statement migrates a store that is warm, or fails over its tables.
LEMMA WarmStep ==
  ASSUME TypeOK, Warm, [Next]_vars
  PROVE  /\ Warm' /\ db.rows \subseteq db.rows'
         /\ \A s \in Sessions : pc'[s] = "schema_error" => pc[s] = "schema_error"
<1> USE StoreAssumption DEF TypeOK, Database, Warm
<1> DEFINE Safe == /\ Warm' /\ db.rows \subseteq db.rows'
                   /\ \A s \in Sessions :
                        pc'[s] = "schema_error" => pc[s] = "schema_error"
<1>1. ASSUME NEW s \in Sessions, Connect(s) PROVE Safe
  BY <1>1 DEF Connect, Goto
<1>2. ASSUME NEW s \in Sessions, CreateMeta(s) PROVE Safe
  BY <1>2 DEF CreateMeta, AutoCommit, Goto
<1>3. ASSUME NEW s \in Sessions, ReadVersion(s) PROVE Safe
  BY <1>3 DEF ReadVersion, Raise, Goto
<1>4. ASSUME NEW s \in Sessions, DropRuns(s) PROVE Safe
  BY <1>4 DEF DropRuns, AutoCommit, Goto
<1>5. ASSUME NEW s \in Sessions, DropMeta(s) PROVE Safe
  BY <1>5 DEF DropMeta, AutoCommit, Goto
<1>6. ASSUME NEW s \in Sessions, DdlMeta(s) PROVE Safe
  BY <1>6 DEF DdlMeta, AutoCommit, Goto
<1>7. ASSUME NEW s \in Sessions, DdlRuns(s) PROVE Safe
  BY <1>7 DEF DdlRuns, AutoCommit, Goto
<1>8. ASSUME NEW s \in Sessions, DdlIndex(s) PROVE Safe
  BY <1>8 DEF DdlIndex, AutoCommit, Raise, Goto
<1>9. ASSUME NEW s \in Sessions, InsertVersion(s) PROVE Safe
  BY <1>9 DEF InsertVersion, Raise, Goto
<1>10. ASSUME NEW s \in Sessions, CommitVersion(s) PROVE Safe
  BY <1>10 DEF CommitVersion, Goto
<1>11. ASSUME NEW s \in Sessions, InsertRun(s) PROVE Safe
  BY <1>11 DEF InsertRun, Raise, Goto
<1>12. ASSUME NEW s \in Sessions, CommitRun(s) PROVE Safe
  BY <1>12 DEF CommitRun, Goto
<1>13. ASSUME NEW s \in Sessions, Return(s) PROVE Safe
  BY <1>13 DEF Return, Goto
<1>14. ASSUME NEW s \in Sessions, Fetch(s) PROVE Safe
  BY <1>14 DEF Fetch, Raise, Goto
<1>15. ASSUME NEW s \in Sessions, BusyTimeout(s) \/ Broken(s) PROVE Safe
  BY <1>15 DEF BusyTimeout, Broken, Writing, Raise, Goto
<1>16. ASSUME NEW s \in Sessions, Crash(s) PROVE Safe
  BY <1>16 DEF Crash, Goto
<1>17. CASE UNCHANGED vars
  BY <1>17 DEF vars
<1>18. QED
  BY <1>1, <1>2, <1>3, <1>4, <1>5, <1>6, <1>7, <1>8, <1>9, <1>10, <1>11,
     <1>12, <1>13, <1>14, <1>15, <1>16, <1>17 DEF Next, Step

\* A store that has become current, in any deployment, is from then on as safe as
\* one that was current from the start (store/__init__.py:85-118).
THEOREM WarmIsForGood == Spec => WarmStoreIsSafe
<1>1. TypeOK /\ [Next]_vars =>
        [Warm => /\ Warm' /\ db.rows \subseteq db.rows'
                 /\ \A s \in Sessions :
                      pc'[s] = "schema_error" => pc[s] = "schema_error"]_vars
  BY WarmStep
<1>2. QED
  BY <1>1, TypeCorrect, PTL DEF Spec, WarmStoreIsSafe

HIDE DEF Migrating, Open, Failed, Ended

-----------------------------------------------------------------------------
\* The web UI: its inductive invariant

\* What the store keeps under the UI, where one session's step is the store's
\* and the end of the server is the end of several.
StoreKept ==
  /\ TypeOK /\ RowOwner /\ LockHeldByWriter
  /\ IsFiniteSet(db.rows)
  /\ ~cold => SchemaInv /\ db.meta = "current"

Asked ==
  [method : {"GET"}, path : {"not sent", "/", "/nowhere", "/run"},
   run : Sessions \cup {Nobody}]
    \cup Forms

Statuses == {"none", "waiting", "200", "400", "403", "404", "500", "dropped"}

UiTypeOK ==
  /\ cold \in BOOLEAN /\ clock \in Nat
  /\ stamps \in [Sessions -> Nat] /\ id \in [Sessions -> Nat]
  /\ since \in [Sessions -> SUBSET Sessions]
  /\ request \in [Requests -> Asked]
  /\ answer \in [Requests -> [status : Statuses, runs : Seq(Sessions)]]

\* How far the handler of a request has come with it.
Handled ==
  \A r \in Requests :
    /\ answer[r].status = "none" => pc[r] = "idle"
    /\ pc[r] = "idle" => answer[r].runs = <<>>
    /\ (pc[r] \in {"commit_run", "close", "returned"} \/ r \in db.rows) => Accepted(request[r])
    /\ pc[r] = "read" => ~Accepted(request[r])
    /\ answer[r].status \in {"400", "403", "404", "500"} => pc[r] \in {"idle", "read"}

\* The rows are numbered in the order of their commits.
Numbered ==
  /\ \A s \in db.rows : id[s] \in 1..Cardinality(db.rows)
  /\ \A s, t \in db.rows : id[s] = id[t] => s = t

\* What was acknowledged before a run began is older than it.
Aged ==
  /\ \A s \in Sessions :
       /\ stamps[s] <= clock
       /\ since[s] \subseteq acked
       /\ (pc[s] = "idle" \/ cold) => since[s] = {}
       /\ s \in acked <=> pc[s] = "returned"
  /\ \A b \in Sessions : \A a \in since[b] :
       /\ (b \in db.rows \/ pc[b] \in {"body", "commit_run"}) => stamps[a] <= stamps[b]
       /\ b \in db.rows => id[a] < id[b]

\* What an answer says of the history, from the time its rows are taken.
Truthful ==
  ~cold => \A r \in Requests :
    /\ Named(r) \subseteq db.rows
    /\ request[r].path = "/run" => request[r].run \in db.rows \cup {Nobody}
    /\ request[r].path = "/run" /\ pc[r] = "read" /\ request[r].run # Nobody
         /\ answer[r].status = "waiting" => answer[r].runs = <<request[r].run>>

\* A history page, from the time its rows are taken.
PageInOrder(r) ==
  LET page == answer[r].runs IN
  \A i \in 1..Len(page) : \A b \in since[r] :
     page[i] \in since[b] => \E j \in 1..(i - 1) : page[j] = b

UiInv ==
  /\ StoreKept /\ UiTypeOK /\ Handled /\ Numbered /\ Aged /\ Truthful
  /\ KnownRunIsFound
  /\ \A r \in Requests : request[r].path = "/" /\ ~cold => PageInOrder(r)

-----------------------------------------------------------------------------
\* What a session does, to those who watch the history

SessionStep(s) == Connect(s) \/ Step(s) \/ Broken(s) \/ Crash(s)

\* How a session got to a place, and what that meant for rows and promises.
Effect(s) ==
  /\ pc' = [pc EXCEPT ![s] = pc'[s]]
  /\ pc[s] \in Open \cup {"idle"} /\ pc'[s] # "idle"
  /\ pc[s] = "idle" => pc'[s] = "create_meta"
  /\ pc'[s] = "body" => pc[s] \in {"read_version", "commit_version"}
  /\ pc'[s] \in {"commit_run", "read"} => pc[s] = "body"
  /\ pc'[s] = "close" => pc[s] = "commit_run" /\ db'.rows = db.rows \cup {s}
  /\ pc'[s] = "returned" => pc[s] = "close"
  /\ pc'[s] # "close" =>
       db'.rows = db.rows \/ (db'.rows = {} /\ pc[s] = "drop_runs")
  /\ acked' = IF pc'[s] = "returned" THEN acked \cup {s} ELSE acked

\* Every step of a session has this effect (store/__init__.py:85-219).
LEMMA SessionEffect ==
  ASSUME TypeOK, NEW s \in Sessions, SessionStep(s)
  PROVE  Effect(s)
<1> USE StoreAssumption DEF TypeOK, Database, Effect, Open, Migrating, Failed, Ended
<1>1. CASE Connect(s) BY <1>1 DEF Connect, Goto
<1>2. CASE CreateMeta(s) BY <1>2 DEF CreateMeta, AutoCommit, Goto
<1>3. CASE ReadVersion(s) BY <1>3 DEF ReadVersion, Raise, Goto
<1>4. CASE DropRuns(s) BY <1>4 DEF DropRuns, AutoCommit, Goto
<1>5. CASE DropMeta(s) BY <1>5 DEF DropMeta, AutoCommit, Goto
<1>6. CASE DdlMeta(s) BY <1>6 DEF DdlMeta, AutoCommit, Goto
<1>7. CASE DdlRuns(s) BY <1>7 DEF DdlRuns, AutoCommit, Goto
<1>8. CASE DdlIndex(s) BY <1>8 DEF DdlIndex, AutoCommit, Raise, Goto
<1>9. CASE InsertVersion(s) BY <1>9 DEF InsertVersion, Raise, Goto
<1>10. CASE CommitVersion(s) BY <1>10 DEF CommitVersion, Goto
<1>11. CASE InsertRun(s) BY <1>11 DEF InsertRun, Raise, Goto
<1>12. CASE CommitRun(s) BY <1>12 DEF CommitRun, Goto
<1>13. CASE Return(s) BY <1>13 DEF Return, Goto
<1>14. CASE Fetch(s) BY <1>14 DEF Fetch, Raise, Goto
<1>15. CASE BusyTimeout(s) \/ Broken(s) BY <1>15 DEF BusyTimeout, Broken, Writing, Raise, Goto
<1>16. CASE Crash(s) BY <1>16 DEF Crash, Goto
<1>17. QED
  BY <1>1, <1>2, <1>3, <1>4, <1>5, <1>6, <1>7, <1>8, <1>9, <1>10, <1>11,
     <1>12, <1>13, <1>14, <1>15, <1>16 DEF SessionStep, Step

\* On a current database nothing is migrated, and it stays current.
LEMMA CurrentStays ==
  ASSUME SchemaInv, db.meta = "current", NEW s \in Sessions, SessionStep(s)
  PROVE  db'.meta = "current" /\ pc[s] # "drop_runs"
<1> USE DEF SchemaInv, TypeOK, Database, CurrentIsUsable, Migrating
<1>1. pc[s] \notin Migrating
  OBVIOUS
<1>2. CASE CreateMeta(s) BY <1>2 DEF CreateMeta, AutoCommit
<1>3. CASE Connect(s) \/ ReadVersion(s) \/ Broken(s) \/ Crash(s) \/ BusyTimeout(s)
  BY <1>3, <1>1 DEF Connect, ReadVersion, Broken, Crash, BusyTimeout, Raise
<1>4. CASE InsertRun(s) \/ CommitRun(s) \/ Return(s) \/ Fetch(s)
  BY <1>4, <1>1 DEF InsertRun, CommitRun, Return, Fetch, Raise
<1>5. CASE \/ DropRuns(s) \/ DropMeta(s) \/ DdlMeta(s) \/ DdlRuns(s) \/ DdlIndex(s)
           \/ InsertVersion(s) \/ CommitVersion(s)
  BY <1>5, <1>1 DEF DropRuns, DropMeta, DdlMeta, DdlRuns, DdlIndex, InsertVersion,
                    CommitVersion, AutoCommit, Raise
<1>6. QED
  BY <1>1, <1>2, <1>3, <1>4, <1>5 DEF SessionStep, Step

\* Whatever a session does, the store keeps what it guarantees.
LEMMA SessionKeepsStore ==
  ASSUME StoreKept, NEW s \in Sessions, SessionStep(s), cold' = cold
  PROVE  StoreKept'
<1>1. [Next]_vars
  BY DEF Next, SessionStep
<1>2. TypeOK' /\ RowOwner' /\ LockHeldByWriter'
  BY <1>1, TypeInductive, RowOwnerInductive, LockInductive DEF StoreKept
<1>3. IsFiniteSet(db'.rows)
  <2>1. Effect(s) /\ IsFiniteSet(db.rows)
    BY SessionEffect DEF StoreKept
  <2>2. db'.rows = db.rows \/ db'.rows = {} \/ db'.rows = db.rows \cup {s}
    BY <2>1 DEF Effect
  <2>3. IsFiniteSet({}) /\ IsFiniteSet(db.rows \cup {s})
    BY <2>1, FS_EmptySet, FS_AddElement
  <2>4. QED
    BY <2>1, <2>2, <2>3
<1>4. ASSUME ~cold' PROVE SchemaInv' /\ db'.meta = "current"
  <2>1. SchemaInv /\ db.meta = "current"
    BY <1>4 DEF StoreKept
  <2>2. QED
    BY <1>1, <1>2, <2>1, SchemaInvInductive, CurrentStays
<1>5. QED
  BY <1>2, <1>3, <1>4 DEF StoreKept

\* Nor does it lose it when the server goes and takes its sessions with it.
LEMMA StopKeepsStore ==
  ASSUME StoreKept, Stop
  PROVE  StoreKept'
<1>1. /\ UNCHANGED <<alone, db, acked, cold>>
      /\ pc' = [s \in Sessions |-> IF s \in Requests /\ pc[s] \in Open THEN "dead" ELSE pc[s]]
      /\ lock' = IF lock \in Requests THEN Nobody ELSE lock
  BY DEF Stop
<1>2. \A s \in Sessions : pc'[s] = pc[s] \/ (pc'[s] = "dead" /\ s \in Requests /\ pc[s] \in Open)
  BY <1>1
<1>3. Requests \subseteq Sessions /\ Nobody \notin Sessions
  BY UiAssumption, StoreAssumption
<1> USE DEF Open, Migrating, Failed, Ended
<1>4. TypeOK'
  BY <1>1, <1>3 DEF StoreKept, TypeOK
<1>5. RowOwner'
  BY <1>1, <1>2 DEF StoreKept, RowOwner
<1>6. LockHeldByWriter'
  BY <1>1, <1>3 DEF StoreKept, LockHeldByWriter, TypeOK
<1>7. IsFiniteSet(db.rows)'
  BY <1>1 DEF StoreKept
<1>8. ASSUME ~cold' PROVE SchemaInv' /\ db'.meta = "current"
  <2>1. SchemaInv /\ db.meta = "current"
    BY <1>1, <1>8 DEF StoreKept
  <2>2. AloneIsAlone'
    BY <1>1, <1>2, <2>1 DEF SchemaInv, AloneIsAlone
  <2>3. QED
    BY <1>1, <1>2, <1>4, <2>1, <2>2
       DEF SchemaInv, StaysCurrent, CurrentIsUsable, UsedOnlyIfCurrent,
           Achieved, Migrated, AckedDurable, SchemaEnsured
<1>9. QED
  BY <1>4, <1>5, <1>6, <1>7, <1>8 DEF StoreKept

\* A row gets the next number.
LEMMA SessionNumbers ==
  ASSUME StoreKept, UiTypeOK, Numbered, NEW s \in Sessions, SessionStep(s), Stamp(s)
  PROVE  /\ Numbered'
         /\ \A t \in Sessions : t # s => id'[t] = id[t]
         /\ pc'[s] = "close" =>
              \A t \in db.rows : t # s /\ id'[t] < id'[s]
<1>1. Effect(s) /\ Cardinality(db.rows) \in Nat /\ RowOwner /\ db.rows \subseteq Sessions
  BY SessionEffect, FS_CardinalityType DEF StoreKept, TypeOK, Database
<1>2. id' = IF s \in db'.rows \ db.rows
            THEN [id EXCEPT ![s] = Cardinality(db'.rows)] ELSE id
  BY DEF Stamp
<1>3. CASE pc'[s] = "close"
  <2>1. s \notin db.rows /\ db'.rows = db.rows \cup {s}
    BY <1>1, <1>3 DEF Effect, RowOwner
  <2>2. Cardinality(db'.rows) = Cardinality(db.rows) + 1
    BY <2>1, FS_AddElement DEF StoreKept
  <2>3. id' = [id EXCEPT ![s] = Cardinality(db.rows) + 1]
    BY <1>2, <2>1, <2>2
  <2>4. QED
    BY <1>1, <2>1, <2>2, <2>3 DEF Numbered, UiTypeOK
<1>4. CASE pc'[s] # "close"
  <2>1. db'.rows = db.rows \/ db'.rows = {}
    BY <1>1, <1>4 DEF Effect
  <2>2. id' = id
    BY <1>2, <2>1
  <2>3. QED
    BY <1>4, <2>1, <2>2 DEF Numbered
<1>5. QED
  BY <1>3, <1>4

\* On a current database runs are only added, and what is acknowledged is there.
LEMMA HistoryGrows ==
  ASSUME StoreKept, ~cold, NEW s \in Sessions, SessionStep(s)
  PROVE  /\ db.rows \subseteq db'.rows /\ acked \subseteq db.rows
         /\ pc'[s] # "close" => db'.rows = db.rows
  BY SessionEffect, CurrentStays DEF StoreKept, SchemaInv, AckedDurable, Effect

\* What a session has seen acknowledged stays older than its run.
LEMMA SessionAges ==
  ASSUME StoreKept, UiTypeOK, Numbered, Aged, NEW s \in Sessions, SessionStep(s), Stamp(s)
  PROVE  Aged'
<1> USE DEF Open, Migrating
<1>1. Effect(s) /\ RowOwner /\ StoreKept'
  BY SessionEffect, SessionKeepsStore DEF StoreKept, Stamp
<1>2. /\ stamps' = IF pc'[s] = "body" /\ pc[s] # "body"
                   THEN [stamps EXCEPT ![s] = clock] ELSE stamps
      /\ since' = IF pc[s] = "idle" /\ ~cold THEN [since EXCEPT ![s] = acked] ELSE since
      /\ clock' = clock /\ cold' = cold
  BY DEF Stamp
<1>3. \A t \in Sessions \ {s} :
        pc'[t] = pc[t] /\ stamps'[t] = stamps[t] /\ since'[t] = since[t] /\ id'[t] = id[t]
  BY <1>1, <1>2, SessionNumbers DEF StoreKept, TypeOK, UiTypeOK, Effect
<1>4. /\ stamps'[s] = IF pc'[s] = "body" /\ pc[s] # "body" THEN clock ELSE stamps[s]
      /\ since'[s] = IF pc[s] = "idle" /\ ~cold THEN acked ELSE since[s]
  BY <1>2 DEF UiTypeOK
<1>5. s \notin acked /\ acked \subseteq acked' /\ acked \subseteq Sessions
  <2>1. pc[s] # "returned"
    BY <1>1 DEF Effect
  <2>2. QED
    BY <1>1, <2>1 DEF Effect, Aged, StoreKept, TypeOK
<1>6. ASSUME NEW t \in Sessions
      PROVE  /\ stamps'[t] <= clock'
             /\ since'[t] \subseteq acked'
             /\ (pc'[t] = "idle" \/ cold') => since'[t] = {}
             /\ t \in acked' <=> pc'[t] = "returned"
  <2>1. CASE t = s
    BY <1>1, <1>2, <1>4, <1>5, <2>1 DEF Aged, Effect, UiTypeOK
  <2>2. CASE t # s
    BY <1>1, <1>2, <1>3, <1>5, <2>2 DEF Aged, Effect
  <2>3. QED
    BY <2>1, <2>2
<1>7. ASSUME NEW b \in Sessions, NEW a \in since'[b]
      PROVE  /\ (b \in db'.rows \/ pc'[b] \in {"body", "commit_run"}) => stamps'[a] <= stamps'[b]
             /\ b \in db'.rows => id'[a] < id'[b]
  <2>1. ~cold
    BY <1>2, <1>6, <1>7
  <2>2. db'.rows = db.rows \/ (pc'[s] = "close" /\ db'.rows = db.rows \cup {s})
    BY <1>1, <2>1, HistoryGrows DEF Effect
  <2>3. CASE b = s /\ pc[s] = "idle"
    <3>1. pc'[s] = "create_meta" /\ s \notin db.rows
      BY <1>1, <2>3 DEF Effect, RowOwner
    <3>2. QED
      BY <2>2, <2>3, <3>1
  <2>4. CASE ~(b = s /\ pc[s] = "idle")
    <3>1. a \in since[b]
      BY <1>3, <1>4, <2>4
    <3>2. a \in acked /\ a \in Sessions /\ a # s /\ a \in db.rows
      BY <1>5, <2>1, <3>1, HistoryGrows DEF Aged
    <3>3. stamps'[a] = stamps[a] /\ id'[a] = id[a] /\ stamps[a] <= clock
      BY <1>3, <3>2 DEF Aged
    <3>4. CASE b # s
      <4>1. pc'[b] = pc[b] /\ stamps'[b] = stamps[b] /\ id'[b] = id[b]
            /\ (b \in db'.rows <=> b \in db.rows)
        BY <1>3, <2>2, <3>4
      <4>2. QED
        BY <3>1, <3>3, <4>1 DEF Aged
    <3>5. CASE b = s
      <4>1. b \in db'.rows => id'[a] < id'[b]
        <5>1. CASE pc'[s] = "close"
          BY <3>2, <3>5, <5>1, SessionNumbers
        <5>2. CASE pc'[s] # "close"
          <6>1. db'.rows = db.rows
            BY <2>2, <5>2
          <6>2. id' = id
            BY <6>1 DEF Stamp
          <6>3. QED
            BY <3>1, <6>1, <6>2 DEF Aged
        <5>3. QED
          BY <5>1, <5>2
      <4>2. ASSUME b \in db'.rows \/ pc'[b] \in {"body", "commit_run"}
            PROVE  stamps'[a] <= stamps'[b]
        <5>1. CASE pc'[s] = "body" /\ pc[s] # "body"
          BY <1>4, <3>3, <3>5, <5>1
        <5>2. CASE ~(pc'[s] = "body" /\ pc[s] # "body")
          <6>1. b \in db.rows \/ pc[b] \in {"body", "commit_run"}
            BY <1>1, <2>2, <3>5, <4>2, <5>2 DEF Effect
          <6>2. QED
            BY <1>4, <3>1, <3>3, <3>5, <5>2, <6>1 DEF Aged
        <5>3. QED
          BY <5>1, <5>2
      <4>3. QED
        BY <4>1, <4>2
    <3>6. QED
      BY <3>4, <3>5
  <2>5. QED
    BY <2>3, <2>4
<1>8. QED
  BY <1>6, <1>7 DEF Aged

-----------------------------------------------------------------------------
\* The history page

\* The first k of a sequence.
LEMMA FirstOnes ==
  ASSUME NEW S, NEW all \in Seq(S), NEW k \in Nat, 1 <= k, k <= Len(all)
  PROVE  /\ SubSeq(all, 1, k) \in Seq(S) /\ Len(SubSeq(all, 1, k)) = k
         /\ \A i \in 1..k : SubSeq(all, 1, k)[i] = all[i]
<1>1. SubSeq(all, 1, k) \in Seq(S)
  OBVIOUS
<1>2. Len(SubSeq(all, 1, k)) = k
  OBVIOUS
<1>3. ASSUME NEW i \in 1..k PROVE SubSeq(all, 1, k)[i] = all[i]
  OBVIOUS
<1>4. QED
  BY <1>1, <1>2, <1>3

\* The rows that a page shows are on record, and no row is left out that is newer
\* than one that is shown.
LEMMA RecentIsNewest ==
  ASSUME StoreKept, UiTypeOK, Numbered
  PROVE  /\ Recent \in Seq(Sessions)
         /\ \A i \in 1..Len(Recent) : Recent[i] \in db.rows
         /\ \A i \in 1..Len(Recent) : \A b \in db.rows :
              Newer(b, Recent[i]) => \E j \in 1..(i - 1) : Recent[j] = b
<1> DEFINE order == {pair \in db.rows \X db.rows : Newer(pair[1], pair[2])}
           n == Cardinality(db.rows)
           all == Ranked(db.rows, order)
<1>1. /\ n \in Nat /\ IsFiniteSet(db.rows) /\ db.rows \subseteq Sessions
      /\ \A s \in db.rows : stamps[s] \in Nat /\ id[s] \in Nat
      /\ MaxHistory \in Nat
  BY FS_CardinalityType, UiAssumption DEF StoreKept, TypeOK, Database, UiTypeOK
<1>2. \A a, b \in db.rows : <<a, b>> \in order <=> Newer(a, b)
  OBVIOUS
<1>3. StrictOrder(db.rows, order)
  <2>1. \A a, b \in db.rows : a # b => id[a] # id[b]
    BY DEF Numbered
  <2> HIDE DEF order
  <2>2. QED
    BY <1>1, <1>2, <2>1 DEF StrictOrder, Newer
<1> HIDE DEF order
<1>4. /\ all \in [1..n -> db.rows]
      /\ \A x \in db.rows : \E k \in 1..n : all[k] = x
      /\ \A i, j \in 1..n : i < j => Newer(all[i], all[j])
  <2>1. /\ all \in [1..n -> db.rows]
        /\ \A x \in db.rows : \E k \in 1..n : all[k] = x
        /\ \A i, j \in 1..n : i < j => <<all[i], all[j]>> \in order
    BY <1>1, <1>3, RankedSorts
  <2> HIDE DEF n, all
  <2>2. QED
    BY <1>2, <2>1
<1> HIDE DEF n, all
<1>5. all \in Seq(db.rows) /\ Len(all) = n
  BY <1>1, <1>4
<1>6. PICK m \in 0..n : /\ Recent \in Seq(db.rows) /\ Len(Recent) = m
                        /\ \A i \in 1..m : Recent[i] = all[i]
  <2>1. Recent = IF n > MaxHistory THEN SubSeq(all, 1, MaxHistory) ELSE all
    BY <1>5 DEF Recent, all, order
  <2>2. CASE n > MaxHistory
    <3>1. /\ SubSeq(all, 1, MaxHistory) \in Seq(db.rows)
          /\ Len(SubSeq(all, 1, MaxHistory)) = MaxHistory
          /\ \A i \in 1..MaxHistory : SubSeq(all, 1, MaxHistory)[i] = all[i]
      <4>1. /\ MaxHistory \in Nat /\ 1 <= MaxHistory /\ MaxHistory <= Len(all)
            /\ all \in Seq(db.rows)
        BY <1>1, <1>5, <2>2, UiAssumption
      <4>2. QED
        BY <4>1, FirstOnes, Zenon
    <3>2. QED
      BY <1>1, <2>1, <2>2, <3>1
  <2>3. CASE ~(n > MaxHistory)
    BY <1>1, <1>5, <2>1, <2>3
  <2>4. QED
    BY <2>2, <2>3
<1>7. \A i \in 1..Len(Recent) : Recent[i] \in db.rows
  BY <1>6
<1>8. Recent \in Seq(Sessions)
  BY <1>1, <1>6
<1>9. ASSUME NEW i \in 1..Len(Recent), NEW b \in db.rows, Newer(b, Recent[i])
      PROVE  \E j \in 1..(i - 1) : Recent[j] = b
  <2>1. PICK k \in 1..n : all[k] = b
    BY <1>4
  <2>2. i \in 1..n /\ Recent[i] = all[i] /\ all[i] \in db.rows
    <3>1. i \in 1..m /\ m \in 0..n /\ i \in 1..n
      BY <1>1, <1>6
    <3>2. QED
      BY <1>4, <1>6, <3>1
  <2>3. ~(i < k) /\ i # k
    <3>1. ~Newer(all[i], b)
      BY <1>1, <1>9, <2>2 DEF Newer
    <3>2. i # k
      BY <1>1, <1>9, <2>1, <2>2 DEF Newer
    <3>3. QED
      BY <1>4, <2>1, <2>2, <3>1, <3>2
  <2>4. k \in 1..(i - 1) /\ Recent[k] = b
    BY <1>6, <2>1, <2>2, <2>3
  <2>5. QED
    BY <2>4
<1>10. QED
  BY <1>7, <1>8, <1>9

-----------------------------------------------------------------------------
\* The steps of a session, be it a request's or a command's

\* What a handler adds to a step of its session in the store.
Serves(s) ==
  /\ UNCHANGED request
  /\ s \in Requests =>
       /\ answer[s].status = "waiting"
       /\ pc'[s] = "read" => ~Accepted(request[s])
       /\ pc'[s] = "commit_run" => Accepted(request[s])
  /\ IF s \in Requests /\ pc'[s] = "read"
     THEN Reply(s, "waiting", IF request[s].path = "/" THEN Recent
                              ELSE IF request[s].run \in db.rows
                                   THEN <<request[s].run>> ELSE <<>>)
     ELSE UNCHANGED answer

\* Each step of an open session is such a step.
LEMMA StepsOfSessions ==
  ASSUME TypeOK,
         \/ \E r \in Requests : OpenStore(r) \/ StoreStep(r) \/ StoreBreaks(r)
         \/ \E s \in Sessions \ Requests : Command(s)
  PROVE  \E s \in Sessions : SessionStep(s) /\ Stamp(s) /\ Serves(s)
<1>1. ASSUME NEW r \in Requests, OpenStore(r) \/ StoreBreaks(r)
      PROVE  SessionStep(r) /\ Stamp(r) /\ Serves(r)
  <2>1. /\ r \in Sessions /\ SessionStep(r) /\ Stamp(r)
        /\ Pending(r) /\ UNCHANGED <<request, answer>>
    BY <1>1, UiAssumption DEF OpenStore, StoreBreaks, SessionStep
  <2>2. pc'[r] \in {"create_meta", "io_error"}
    BY <1>1, <2>1 DEF OpenStore, StoreBreaks, Connect, Broken, Raise, Goto, TypeOK
  <2>3. QED
    BY <2>1, <2>2 DEF Serves, Pending
<1>2. ASSUME NEW r \in Requests, StoreStep(r)
      PROVE  SessionStep(r) /\ Stamp(r) /\ Serves(r)
  BY <1>2 DEF StoreStep, SessionStep, Serves, Pending
<1>3. ASSUME NEW s \in Sessions \ Requests, Command(s)
      PROVE  SessionStep(s) /\ Stamp(s) /\ Serves(s)
  BY <1>3 DEF Command, SessionStep, Serves
<1>4. QED
  BY <1>1, <1>2, <1>3, UiAssumption

\* The answers of a step: only the session's own can change, and then it has read.
LEMMA ServedAnswers ==
  ASSUME UiTypeOK, NEW s \in Sessions, Serves(s)
  PROVE  /\ \A r \in Requests : answer'[r].status = answer[r].status
         /\ \A r \in Requests : r # s \/ pc'[s] # "read" => answer'[r] = answer[r]
         /\ s \in Requests /\ pc'[s] = "read" =>
              answer'[s].runs = IF request[s].path = "/" THEN Recent
                                ELSE IF request[s].run \in db.rows
                                     THEN <<request[s].run>> ELSE <<>>
         /\ request' = request
  BY DEF UiTypeOK, Serves, Reply

\* The types.
LEMMA SessionTyped ==
  ASSUME StoreKept, UiTypeOK, Numbered, NEW s \in Sessions,
         SessionStep(s), Stamp(s), Serves(s)
  PROVE  UiTypeOK'
<1>1. StoreKept' /\ Cardinality(db'.rows) \in Nat
  BY SessionKeepsStore, FS_CardinalityType DEF Stamp, StoreKept
<1>2. /\ cold' \in BOOLEAN /\ clock' \in Nat
      /\ stamps' \in [Sessions -> Nat] /\ id' \in [Sessions -> Nat]
      /\ since' \in [Sessions -> SUBSET Sessions]
  BY <1>1 DEF UiTypeOK, Stamp, StoreKept, TypeOK
<1>3. request' \in [Requests -> Asked]
  BY DEF UiTypeOK, Serves
<1>4. answer' \in [Requests -> [status : Statuses, runs : Seq(Sessions)]]
  <2>1. Recent \in Seq(Sessions) /\ <<>> \in Seq(Sessions)
    BY RecentIsNewest
  <2>2. \A run \in db.rows : <<run>> \in Seq(Sessions)
    BY DEF StoreKept, TypeOK, Database
  <2>3. PICK runs \in Seq(Sessions) :
          answer' = answer
          \/ (s \in Requests
              /\ answer' = [answer EXCEPT ![s] = [status |-> "waiting", runs |-> runs]])
    BY <2>1, <2>2 DEF Serves, Reply
  <2>4. "waiting" \in Statuses
    BY DEF Statuses
  <2>5. [status |-> "waiting", runs |-> runs] \in [status : Statuses, runs : Seq(Sessions)]
    BY <2>4
  <2>6. QED
    BY <2>3, <2>5, Zenon DEF UiTypeOK
<1>5. QED
  BY <1>2, <1>3, <1>4 DEF UiTypeOK

\* The stage of the handler.
LEMMA SessionHandled ==
  ASSUME StoreKept, UiTypeOK, Handled, NEW s \in Sessions,
         SessionStep(s), Stamp(s), Serves(s)
  PROVE  Handled'
<1>1. Effect(s) /\ pc \in [Sessions -> Open \cup Ended \cup {"idle"}]
  BY SessionEffect DEF StoreKept, TypeOK
<1>2. \A r \in Requests : Accepted(request[r])' <=> Accepted(request[r])
  BY DEF Serves
<1>3. SUFFICES ASSUME NEW r \in Requests
      PROVE  /\ answer'[r].status = "none" => pc'[r] = "idle"
             /\ pc'[r] = "idle" => answer'[r].runs = <<>>
             /\ (pc'[r] \in {"commit_run", "close", "returned"} \/ r \in db'.rows)
                  => Accepted(request[r])
             /\ pc'[r] = "read" => ~Accepted(request[r])
             /\ answer'[r].status \in {"400", "403", "404", "500"} => pc'[r] \in {"idle", "read"}
  BY <1>2 DEF Handled, Serves
<1>4. CASE r = s
  <2>1. answer'[r].status = "waiting" /\ pc'[r] # "idle"
    BY <1>1, <1>3, <1>4, ServedAnswers DEF Effect, Serves
  <2>2. /\ pc'[r] = "read" => ~Accepted(request[r])
        /\ pc'[r] = "commit_run" => Accepted(request[r])
    BY <1>4 DEF Serves
  <2>3. pc[r] \in {"commit_run", "close", "returned"} \/ r \in db.rows => Accepted(request[r])
    BY DEF Handled
  <2>4. /\ pc'[r] = "close" => pc[r] = "commit_run"
        /\ pc'[r] = "returned" => pc[r] = "close"
        /\ r \in db'.rows => r \in db.rows \/ pc'[r] = "close"
    BY <1>1, <1>4 DEF Effect
  <2>5. QED
    BY <2>1, <2>2, <2>3, <2>4
<1>5. CASE r # s
  <2>1. pc'[r] = pc[r] /\ answer'[r] = answer[r] /\ (r \in db'.rows => r \in db.rows)
    BY <1>1, <1>3, <1>5, UiAssumption, ServedAnswers DEF Effect
  <2>2. QED
    BY <2>1 DEF Handled
<1>6. QED
  BY <1>4, <1>5

\* What the answers say of the history goes on being so.
LEMMA SessionTruthful ==
  ASSUME StoreKept, UiTypeOK, Numbered, Handled, Truthful, NEW s \in Sessions,
         SessionStep(s), Stamp(s), Serves(s)
  PROVE  Truthful'
<1>1. SUFFICES ASSUME ~cold, NEW r \in Requests
      PROVE  /\ Named(r)' \subseteq db'.rows
             /\ request[r].path = "/run" => request[r].run \in db'.rows \cup {Nobody}
             /\ request[r].path = "/run" /\ pc'[r] = "read" /\ request[r].run # Nobody
                  /\ answer'[r].status = "waiting" => answer'[r].runs = <<request[r].run>>
  BY DEF Truthful, Stamp, Serves
<1>2. /\ db.rows \subseteq db'.rows
      /\ pc'[s] # "close" => db'.rows = db.rows
  BY <1>1, HistoryGrows
<1>3. /\ Named(r) \subseteq db.rows
      /\ request[r].path = "/run" => request[r].run \in db.rows \cup {Nobody}
  BY <1>1 DEF Truthful
<1>4. CASE r = s /\ pc'[s] = "read"
  <2>1. answer'[r].runs = IF request[r].path = "/" THEN Recent
                          ELSE IF request[r].run \in db.rows THEN <<request[r].run>> ELSE <<>>
    BY <1>4, ServedAnswers
  <2>2. Named(r)' \subseteq db.rows
    <3>1. CASE request[r].path = "/"
      <4>1. answer'[r].runs = Recent /\ Recent \in Seq(Sessions)
            /\ \A i \in 1..Len(Recent) : Recent[i] \in db.rows
        BY <2>1, <3>1, RecentIsNewest
      <4> HIDE DEF Recent
      <4>2. QED
        BY <4>1 DEF Named
    <3>2. CASE request[r].path # "/" /\ request[r].run \in db.rows
      BY <2>1, <3>2 DEF Named
    <3>3. CASE request[r].path # "/" /\ request[r].run \notin db.rows
      BY <2>1, <3>3 DEF Named
    <3>4. QED
      BY <3>1, <3>2, <3>3
  <2>3. QED
    BY <1>2, <1>3, <2>1, <2>2
<1>5. CASE ~(r = s /\ pc'[s] = "read")
  <2>1. answer'[r] = answer[r] /\ (pc'[r] = "read" => pc[r] = "read")
    <3>1. answer'[r] = answer[r]
      BY <1>1, <1>5, ServedAnswers
    <3>2. Effect(s) /\ r \in Sessions
      BY <1>1, SessionEffect, UiAssumption DEF StoreKept
    <3>3. QED
      BY <1>5, <3>1, <3>2 DEF Effect, StoreKept, TypeOK
  <2>2. Named(r)' = Named(r)
    BY <2>1 DEF Named
  <2>3. QED
    BY <1>1, <1>2, <1>3, <2>1, <2>2 DEF Truthful
<1>6. QED
  BY <1>4, <1>5

\* A page that is taken has what is newer above what is older, and what a page
\* leaves to be compared does not change later.
LEMMA SessionOrders ==
  ASSUME UiInv, NEW s \in Sessions, SessionStep(s), Stamp(s), Serves(s),
         NEW r \in Requests, request[r].path = "/", ~cold
  PROVE  PageInOrder(r)'
<1> USE DEF Open, Migrating
<1>1. /\ StoreKept /\ UiTypeOK /\ Handled /\ Numbered /\ Aged
      /\ PageInOrder(r) /\ Effect(s) /\ r \in Sessions /\ acked \subseteq db.rows
  BY SessionEffect, HistoryGrows, UiAssumption DEF UiInv, StoreKept
<1>2. \A t \in Sessions : pc[t] # "idle" => since'[t] = since[t]
  BY <1>1 DEF Stamp, UiTypeOK
<1>3. CASE pc[r] = "idle"
  <2>1. answer[r].runs = <<>> /\ pc'[r] # "read"
    BY <1>1, <1>3 DEF Handled, Effect, StoreKept, TypeOK
  <2>2. answer'[r].runs = <<>>
    BY <1>1, <2>1, ServedAnswers
  <2>3. QED
    BY <2>2 DEF PageInOrder
<1>4. CASE pc[r] # "idle"
  <2>1. since'[r] = since[r] /\ since[r] \subseteq acked /\ acked \subseteq Sessions
        /\ \A b \in since[r] : since'[b] = since[b]
    BY <1>1, <1>2, <1>4 DEF Aged, StoreKept, TypeOK
  <2>2. CASE ~(r = s /\ pc'[s] = "read")
    <3>1. answer'[r] = answer[r]
      BY <1>1, <2>2, ServedAnswers
    <3>2. QED
      BY <1>1, <2>1, <3>1 DEF PageInOrder
  <2>3. CASE r = s /\ pc'[s] = "read"
    <3>1. answer'[r].runs = Recent
      BY <1>1, <2>3, ServedAnswers
    <3>2. ASSUME NEW i \in 1..Len(Recent), NEW b \in since[r], Recent[i] \in since[b]
          PROVE  \E j \in 1..(i - 1) : Recent[j] = b
      <4>1. Recent[i] \in db.rows /\ b \in db.rows
        BY <1>1, <2>1, RecentIsNewest
      <4>2. b \in Sessions /\ Recent[i] \in Sessions
        BY <1>1, <4>1 DEF StoreKept, TypeOK, Database
      <4> HIDE DEF Recent
      <4>3. stamps[Recent[i]] <= stamps[b] /\ id[Recent[i]] < id[b]
        BY <1>1, <3>2, <4>1, <4>2 DEF Aged
      <4>4. Newer(b, Recent[i])
        BY <1>1, <4>2, <4>3 DEF Newer, UiTypeOK
      <4>5. QED
        BY <1>1, <4>1, <4>4, RecentIsNewest
    <3>3. QED
      BY <2>1, <3>1, <3>2 DEF PageInOrder
  <2>4. QED
    BY <2>2, <2>3
<1>5. QED
  BY <1>3, <1>4

\* So a session keeps all of it.
LEMMA SessionKeepsInv ==
  ASSUME UiInv, NEW s \in Sessions, SessionStep(s), Stamp(s), Serves(s)
  PROVE  UiInv'
<1>1. cold' = cold /\ request' = request
  BY DEF Stamp, Serves
<1>2. StoreKept' /\ UiTypeOK' /\ Handled' /\ Numbered' /\ Aged' /\ Truthful'
  BY <1>1, SessionKeepsStore, SessionTyped, SessionHandled, SessionNumbers, SessionAges,
     SessionTruthful DEF UiInv
<1>3. KnownRunIsFound'
  BY <1>1, ServedAnswers DEF UiInv, KnownRunIsFound
<1>4. \A r \in Requests : request'[r].path = "/" /\ ~cold' => PageInOrder(r)'
  BY <1>1, SessionOrders
<1>5. QED
  BY <1>2, <1>3, <1>4 DEF UiInv

-----------------------------------------------------------------------------
\* The steps that leave the store alone

\* Time and answers change nothing the store or the order of the runs rests on.
LEMMA QuietSteps ==
  ASSUME UiInv, UNCHANGED <<vars, stamps, id, since, cold>>,
         clock' \in Nat, clock <= clock'
  PROVE  StoreKept' /\ Numbered' /\ Aged'
<1>1. UNCHANGED <<alone, db, lock, pc, acked>>
  BY DEF vars
<1>2. StoreKept'
  <2>1. TypeOK' /\ RowOwner' /\ LockHeldByWriter'
    BY <1>1 DEF UiInv, StoreKept, TypeOK, RowOwner, LockHeldByWriter
  <2>2. SchemaInv => SchemaInv'
    BY <1>1 DEF SchemaInv, TypeOK, AloneIsAlone, StaysCurrent, CurrentIsUsable,
                UsedOnlyIfCurrent, Achieved, Migrated, AckedDurable, SchemaEnsured
  <2>3. QED
    BY <1>1, <2>1, <2>2 DEF UiInv, StoreKept
<1>3. Numbered'
  BY <1>1 DEF UiInv, Numbered
<1>4. Aged'
  <2>1. \A s \in Sessions : stamps[s] <= clock'
    BY DEF UiInv, Aged, UiTypeOK
  <2>2. QED
    BY <1>1, <2>1 DEF UiInv, Aged
<1>5. QED
  BY <1>2, <1>3, <1>4

\* An answer to a request that waits for one.
LEMMA ReplyKeepsInv ==
  ASSUME UiInv, NEW r \in Requests, Pending(r),
         UNCHANGED <<vars, request, clock, stamps, id, since, cold>>,
         NEW status \in Statuses \ {"none", "waiting"}, NEW runs, Reply(r, status, runs),
         runs = <<>> \/ (pc[r] # "idle" /\ runs = answer[r].runs)
           \/ (pc[r] = "returned" /\ runs = <<r>> /\ Accepted(request[r])),
         status \in {"400", "403", "404", "500"} => pc[r] \in {"idle", "read"},
         status = "404" /\ request[r].path = "/run" /\ ~cold => request[r].run = Nobody
  PROVE  UiInv'
<1>1. StoreKept' /\ Numbered' /\ Aged'
  <2>1. clock' \in Nat /\ clock <= clock'
    BY DEF UiInv, UiTypeOK
  <2>2. QED
    BY <2>1, QuietSteps
<1>2. UNCHANGED <<alone, db, lock, pc, acked, request, clock, stamps, id, since, cold>>
  BY DEF vars
<1>3. r \in Sessions /\ answer[r].runs \in Seq(Sessions) /\ runs \in Seq(Sessions)
  <2>1. r \in Sessions /\ answer[r].runs \in Seq(Sessions)
    BY UiAssumption DEF UiInv, UiTypeOK
  <2>2. <<>> \in Seq(Sessions) /\ <<r>> \in Seq(Sessions)
    BY <2>1
  <2>3. QED
    BY <2>1, <2>2, Zenon
<1>4. /\ answer' = [answer EXCEPT ![r] = [status |-> status, runs |-> runs]]
      /\ answer'[r].status = status /\ answer'[r].runs = runs
      /\ \A q \in Requests : q # r => answer'[q] = answer[q]
  BY DEF Reply, UiInv, UiTypeOK
<1>5. UiTypeOK'
  <2>1. [status |-> status, runs |-> runs] \in [status : Statuses, runs : Seq(Sessions)]
    BY <1>3
  <2>2. answer' \in [Requests -> [status : Statuses, runs : Seq(Sessions)]]
    BY <1>4, <2>1, Zenon DEF UiInv, UiTypeOK
  <2>3. QED
    BY <1>2, <2>2 DEF UiInv, UiTypeOK
<1>6. Handled'
  <2>1. \A q \in Requests : Accepted(request[q])' <=> Accepted(request[q])
    BY <1>2
  <2>2. QED
    BY <1>2, <1>4, <2>1 DEF UiInv, Handled
<1>7. ASSUME ~cold
      PROVE  /\ Truthful'
             /\ \A q \in Requests : request[q].path = "/" => PageInOrder(q)'
  <2>1. acked \subseteq db.rows /\ (pc[r] = "returned" => r \in acked)
    BY <1>3, <1>7 DEF UiInv, StoreKept, SchemaInv, AckedDurable, Aged
  <2>2. Named(r)' \subseteq db.rows
    <3>1. CASE runs = <<>>
      BY <1>4, <3>1 DEF Named
    <3>2. CASE runs = answer[r].runs
      BY <1>4, <1>7, <3>2 DEF UiInv, Truthful, Named
    <3>3. CASE pc[r] = "returned" /\ runs = <<r>>
      BY <1>4, <2>1, <3>3 DEF Named
    <3>4. QED
      BY <3>1, <3>2, <3>3
  <2>3. \A q \in Requests : q # r => Named(q)' = Named(q)
    BY <1>4 DEF Named
  <2>4. Truthful'
    BY <1>2, <1>4, <2>2, <2>3 DEF UiInv, Truthful
  <2>5. ASSUME request[r].path = "/" PROVE PageInOrder(r)'
    <3>1. ~Accepted(request[r])
      BY <2>5 DEF Accepted
    <3>2. CASE runs = <<>>
      BY <1>4, <3>2 DEF PageInOrder
    <3>3. CASE runs = answer[r].runs
      BY <1>2, <1>4, <1>7, <2>5, <3>3 DEF UiInv, PageInOrder
    <3>4. QED
      BY <3>1, <3>2, <3>3
  <2>6. ASSUME NEW q \in Requests, q # r, request[q].path = "/" PROVE PageInOrder(q)'
    BY <1>2, <1>4, <1>7, <2>6 DEF UiInv, PageInOrder
  <2>7. QED
    BY <2>4, <2>5, <2>6
<1>8. KnownRunIsFound'
  BY <1>2, <1>4 DEF UiInv, KnownRunIsFound
<1>9. Truthful'
  BY <1>2, <1>7 DEF Truthful
<1>10. QED
  BY <1>1, <1>2, <1>5, <1>6, <1>7, <1>8, <1>9 DEF UiInv

\* The handlers' answers.
LEMMA AnswersKeepInv ==
  ASSUME UiInv, NEW r \in Requests,
         AnswerAtOnce(r) \/ CollectFails(r) \/ Fail(r) \/ Respond(r)
  PROVE  UiInv'
<1>1. /\ Pending(r) /\ UNCHANGED <<vars, request, clock, stamps, id, since, cold>>
      /\ answer[r].status = "waiting"
  BY DEF AnswerAtOnce, CollectFails, Fail, Respond, Pending
<1>2. CASE AnswerAtOnce(r)
  <2> DEFINE status == IF Forbidden(request[r]) THEN "403"
                       ELSE IF Missing(request[r]) THEN "404"
                       ELSE IF Rejected(request[r]) THEN "400" ELSE "200"
  <2>1. pc[r] = "idle" /\ Reply(r, status, <<>>)
    BY <1>2 DEF AnswerAtOnce
  <2>2. status \in Statuses \ {"none", "waiting"}
    BY DEF Statuses
  <2>3. status = "404" => request[r].path # "/run"
    BY DEF Missing
  <2> HIDE DEF status
  <2>4. QED
    BY <1>1, <2>1, <2>2, <2>3, ReplyKeepsInv
<1>3. CASE CollectFails(r)
  <2>1. PICK status \in {"500", "dropped"} : Reply(r, status, <<>>)
    BY <1>3 DEF CollectFails
  <2>2. status \in Statuses \ {"none", "waiting"} /\ pc[r] = "idle"
    BY <1>3 DEF Statuses, CollectFails
  <2>3. QED
    BY <1>1, <2>1, <2>2, ReplyKeepsInv
<1>4. ASSUME Reply(r, "dropped", <<>>) PROVE UiInv'
  <2>1. "dropped" \in Statuses \ {"none", "waiting"}
    BY DEF Statuses
  <2>2. QED
    BY <1>1, <1>4, <2>1, ReplyKeepsInv
<1>5. CASE Fail(r)
  BY <1>4, <1>5 DEF Fail
<1>6. CASE Respond(r)
  <2>1. "200" \in Statuses \ {"none", "waiting"} /\ "404" \in Statuses \ {"none", "waiting"}
    BY DEF Statuses
  <2>2. /\ pc[r] \in {"returned", "read"}
        /\ pc[r] = "returned" => Accepted(request[r])
        /\ pc[r] = "read" => ~Accepted(request[r])
    BY <1>6 DEF Respond, UiInv, Handled
  <2>3. CASE Reply(r, "dropped", <<>>)
    BY <1>4, <2>3
  <2>4. CASE Accepted(request[r]) /\ Reply(r, "200", <<r>>)
    BY <1>1, <2>1, <2>2, <2>4, ReplyKeepsInv
  <2>5. CASE /\ ~Accepted(request[r])
             /\ request[r].path = "/run" /\ answer[r].runs = <<>>
             /\ Reply(r, "404", answer[r].runs)
    <3>1. pc[r] = "read" /\ <<request[r].run>> # <<>>
      BY <2>2, <2>5
    <3>2. ~cold => request[r].run = Nobody
      BY <1>1, <2>5, <3>1 DEF UiInv, Truthful
    <3>3. QED
      BY <1>1, <2>1, <2>5, <3>1, <3>2, ReplyKeepsInv
  <2>6. CASE ~Accepted(request[r]) /\ Reply(r, "200", answer[r].runs)
    BY <1>1, <2>1, <2>2, <2>6, ReplyKeepsInv
  <2>7. QED
    BY <1>6, <2>3, <2>4, <2>5, <2>6 DEF Respond
<1>7. QED
  BY <1>2, <1>3, <1>5, <1>6

\* A new request asks for what can be asked for, a link that was shown included.
LEMMA SendKeepsInv ==
  ASSUME UiInv, NEW r \in Requests, Send(r)
  PROVE  UiInv'
<1>1. /\ UNCHANGED <<vars, clock, stamps, id, since, cold>>
      /\ answer[r].status = "none" /\ pc[r] = "idle"
  BY DEF Send, UiInv, Handled
<1>2. UNCHANGED <<alone, db, lock, pc, acked, clock, stamps, id, since, cold>>
  BY <1>1 DEF vars
<1>3. PICK ask \in Asks : request' = [request EXCEPT ![r] = ask]
  BY DEF Send
<1>4. /\ answer' = [answer EXCEPT ![r] = [status |-> "waiting", runs |-> <<>>]]
      /\ answer'[r].status = "waiting" /\ answer'[r].runs = <<>>
      /\ request'[r] = ask
      /\ \A q \in Requests : q # r => answer'[q] = answer[q] /\ request'[q] = request[q]
  BY <1>3 DEF Send, Reply, UiInv, UiTypeOK
<1>5. StoreKept' /\ Numbered' /\ Aged'
  <2>1. clock' \in Nat /\ clock <= clock'
    BY <1>2 DEF UiInv, UiTypeOK
  <2>2. QED
    BY <1>1, <2>1, QuietSteps
<1>6. Known \subseteq Sessions /\ (~cold => Known \subseteq db.rows)
  <2>1. \A q \in Requests : Named(q) \subseteq Sessions
    BY DEF Named, UiInv, UiTypeOK
  <2>2. ~cold => \A q \in Requests : Named(q) \subseteq db.rows
    BY DEF UiInv, Truthful
  <2>3. QED
    BY <2>1, <2>2 DEF Known
<1>7. ask \in Asked /\ (ask.path = "/run" => ask.run \in Known \cup {Nobody})
  <2>1. CASE ask \in {Page(path, Nobody) : path \in {"/", "/nowhere"}}
    <3>1. PICK path \in {"/", "/nowhere"} : ask = Page(path, Nobody)
      BY <2>1
    <3>2. ask.path # "/run"
      BY <3>1 DEF Page
    <3>3. ask \in Asked
      BY <3>1 DEF Page, Asked
    <3>4. QED
      BY <3>2, <3>3
  <2>2. CASE ask \in {Page("/run", run) : run \in Known \cup {Nobody}}
    <3>1. PICK run \in Known \cup {Nobody} : ask = Page("/run", run)
      BY <2>2
    <3>2. ask.run = run
      BY <3>1 DEF Page
    <3>3. run \in Sessions \cup {Nobody}
      BY <1>6
    <3>4. ask \in Asked
      BY <3>1, <3>3 DEF Page, Asked
    <3>5. QED
      BY <3>2, <3>4
  <2>3. CASE ask \in Forms
    <3>1. PICK path \in {"/diagnose", "/api/diagnose", "/nowhere"},
               foreign \in BOOLEAN, valid \in BOOLEAN : ask = Form(path, foreign, valid)
      BY <2>3, FormsAssumption
    <3>2. ask.path # "/run"
      BY <3>1 DEF Form
    <3>3. ask \in Asked
      BY <2>3 DEF Asked
    <3>4. QED
      BY <3>2, <3>3
  <2>4. QED
    BY <2>1, <2>2, <2>3 DEF Asks
<1>8. UiTypeOK'
  <2>1. [status |-> "waiting", runs |-> <<>>] \in [status : Statuses, runs : Seq(Sessions)]
    BY DEF Statuses
  <2>2. answer' \in [Requests -> [status : Statuses, runs : Seq(Sessions)]]
    BY <1>4, <2>1, Zenon DEF UiInv, UiTypeOK
  <2>3. request' \in [Requests -> Asked]
    BY <1>3, <1>7 DEF UiInv, UiTypeOK
  <2>4. QED
    BY <1>2, <2>2, <2>3 DEF UiInv, UiTypeOK
<1>9. r \notin db.rows
  BY <1>1, UiAssumption DEF UiInv, StoreKept, RowOwner
<1>10. Handled'
  <2>1. \A q \in Requests : q # r => (Accepted(request[q])' <=> Accepted(request[q]))
    BY <1>4 DEF Accepted, Forbidden, Rejected
  <2>2. QED
    BY <1>1, <1>2, <1>4, <1>9, <2>1 DEF UiInv, Handled
<1>11. Truthful'
  <2>1. Named(r)' = {} /\ \A q \in Requests : q # r => Named(q)' = Named(q)
    BY <1>4 DEF Named
  <2>2. QED
    BY <1>1, <1>2, <1>4, <1>6, <1>7, <2>1 DEF UiInv, Truthful
<1>12. KnownRunIsFound'
  BY <1>2, <1>4 DEF UiInv, KnownRunIsFound
<1>13. ASSUME NEW q \in Requests, request'[q].path = "/", ~cold PROVE PageInOrder(q)'
  <2>1. CASE q = r
    BY <1>4, <2>1 DEF PageInOrder
  <2>2. CASE q # r
    BY <1>2, <1>4, <1>13, <2>2 DEF UiInv, PageInOrder
  <2>3. QED
    BY <2>1, <2>2
<1>14. QED
  BY <1>2, <1>5, <1>8, <1>10, <1>11, <1>12, <1>13 DEF UiInv

\* The server goes: whoever waits for an answer gets none.
LEMMA StopKeepsInv == UiInv /\ Stop => UiInv'
<1> SUFFICES ASSUME UiInv, Stop PROVE UiInv'
  OBVIOUS
<1>1. /\ UNCHANGED <<db, acked, request, clock, stamps, id, since, cold>>
      /\ pc' = [s \in Sessions |-> IF s \in Requests /\ pc[s] \in Open THEN "dead" ELSE pc[s]]
      /\ answer' = [r \in Requests |-> IF Pending(r) THEN [status |-> "dropped", runs |-> <<>>]
                                                     ELSE answer[r]]
  BY DEF Stop
<1>2. StoreKept'
  BY StopKeepsStore DEF UiInv
<1>3. \A s \in Sessions : pc'[s] = pc[s] \/ (pc'[s] = "dead" /\ pc[s] \in Open)
  BY <1>1
<1>4. ASSUME NEW r \in Requests
      PROVE  \/ answer'[r] = answer[r]
             \/ answer'[r].status = "dropped" /\ answer'[r].runs = <<>>
  BY <1>1
<1>5. UiTypeOK'
  <2>1. [status |-> "dropped", runs |-> <<>>] \in [status : Statuses, runs : Seq(Sessions)]
    BY DEF Statuses
  <2>2. answer' \in [Requests -> [status : Statuses, runs : Seq(Sessions)]]
    BY <1>1, <2>1 DEF UiInv, UiTypeOK
  <2>3. QED
    BY <1>1, <2>2 DEF UiInv, UiTypeOK
<1>6. Handled'
  <2>1. \A r \in Requests : Accepted(request[r])' <=> Accepted(request[r])
    BY <1>1
  <2>2. QED
    BY <1>1, <1>3, <1>4, <2>1, UiAssumption DEF UiInv, Handled, Open, Migrating
<1>7. Numbered'
  BY <1>1 DEF UiInv, Numbered
<1>8. Aged'
  BY <1>1, <1>3 DEF UiInv, Aged, Open, Migrating
<1>9. Truthful'
  <2>1. \A r \in Requests : Named(r)' \subseteq Named(r)
    BY <1>4 DEF Named
  <2>2. QED
    BY <1>1, <1>3, <1>4, <2>1, UiAssumption DEF UiInv, Truthful
<1>10. KnownRunIsFound'
  BY <1>1, <1>4 DEF UiInv, KnownRunIsFound
<1>11. ASSUME NEW r \in Requests, request[r].path = "/", ~cold PROVE PageInOrder(r)'
  BY <1>1, <1>4, <1>11 DEF UiInv, PageInOrder
<1>12. QED
  BY <1>1, <1>2, <1>5, <1>6, <1>7, <1>8, <1>9, <1>10, <1>11 DEF UiInv

\* So does time that passes, or nothing.
LEMMA TickKeepsInv == UiInv /\ (Tick \/ UNCHANGED <<vars, uiVars>>) => UiInv'
<1> SUFFICES ASSUME UiInv, Tick \/ UNCHANGED <<vars, uiVars>> PROVE UiInv'
  OBVIOUS
<1>1. /\ UNCHANGED <<vars, request, answer, stamps, id, since, cold>>
      /\ clock' \in Nat /\ clock <= clock'
  BY DEF Tick, uiVars, UiInv, UiTypeOK
<1>2. UNCHANGED <<alone, db, lock, pc, acked, request, answer, stamps, id, since, cold>>
  BY <1>1 DEF vars
<1>3. StoreKept' /\ Numbered' /\ Aged'
  BY <1>1, QuietSteps
<1>4. UiTypeOK'
  BY <1>1, <1>2 DEF UiInv, UiTypeOK
<1>5. Handled' /\ Truthful' /\ KnownRunIsFound'
  <2>1. \A r \in Requests : (Accepted(request[r])' <=> Accepted(request[r])) /\ Named(r)' = Named(r)
    BY <1>2 DEF Named
  <2>2. QED
    BY <1>2, <2>1 DEF UiInv, Handled, Truthful, KnownRunIsFound
<1>6. \A r \in Requests : request'[r].path = "/" /\ ~cold' => PageInOrder(r)'
  BY <1>2 DEF UiInv, PageInOrder
<1>7. QED
  BY <1>3, <1>4, <1>5, <1>6 DEF UiInv

\* Before the first request.
LEMMA UiInvInit == UiInit => UiInv
<1> SUFFICES ASSUME UiInit PROVE UiInv
  OBVIOUS
<1>1. /\ Init /\ cold = (db.meta # "current")
      /\ request = [r \in Requests |-> Page("not sent", Nobody)]
      /\ answer = [r \in Requests |-> [status |-> "none", runs |-> <<>>]]
      /\ clock = IF cold THEN MaxClock ELSE 0
      /\ stamps = [s \in Sessions |-> 0] /\ id = [s \in Sessions |-> 0]
      /\ since = [s \in Sessions |-> {}]
  BY DEF UiInit
<1>2. PICK d \in Deployments : alone = d.alone /\ db = InitialDb(d.file)
  BY <1>1 DEF Init
<1>3. /\ d.file \in {"no_file", "old", "current"} /\ alone \subseteq Sessions
      /\ lock = Nobody /\ pc = [s \in Sessions |-> "idle"] /\ acked = {}
  BY <1>1, <1>2, StoreAssumption DEF Init
<1>4. db \in Database /\ db.rows = {} /\ (db.meta = "current" => db.runs = "current")
  BY <1>2, <1>3 DEF InitialDb, Database
<1>5. StoreKept
  <2>1. TypeOK /\ RowOwner /\ LockHeldByWriter
    BY <1>3, <1>4, StoreAssumption DEF TypeOK, RowOwner, LockHeldByWriter
  <2>2. IsFiniteSet(db.rows)
    BY <1>4, FS_EmptySet
  <2>3. db.meta = "current" => SchemaInv
    BY <1>3, <1>4, <2>1
       DEF SchemaInv, AloneIsAlone, StaysCurrent, CurrentIsUsable, UsedOnlyIfCurrent,
           Achieved, Migrated, AckedDurable, SchemaEnsured, Open, Migrating
  <2>4. QED
    BY <1>1, <2>1, <2>2, <2>3 DEF StoreKept
<1>6. UiTypeOK
  <2>1. Page("not sent", Nobody) \in Asked
    BY DEF Page, Asked
  <2>2. [status |-> "none", runs |-> <<>>] \in [status : Statuses, runs : Seq(Sessions)]
    BY DEF Statuses
  <2>3. /\ request \in [Requests -> Asked]
        /\ answer \in [Requests -> [status : Statuses, runs : Seq(Sessions)]]
    BY <1>1, <2>1, <2>2
  <2>4. cold \in BOOLEAN /\ clock \in Nat
    BY <1>1, UiAssumption
  <2>5. QED
    BY <1>1, <2>3, <2>4 DEF UiTypeOK
<1>7. \A r \in Requests : /\ request[r].path = "not sent"
                          /\ answer[r].status = "none" /\ answer[r].runs = <<>>
  BY <1>1 DEF Page
<1>8. Handled
  BY <1>3, <1>4, <1>7, UiAssumption DEF Handled
<1>9. Numbered /\ Aged
  <2>1. \A s \in Sessions : stamps[s] <= clock /\ since[s] = {} /\ pc[s] = "idle"
    <3>1. \A s \in Sessions : stamps[s] = 0 /\ since[s] = {} /\ pc[s] = "idle"
      BY <1>1, <1>3
    <3>2. 0 <= clock
      BY <1>6 DEF UiTypeOK
    <3>3. QED
      BY <3>1, <3>2, Zenon
  <2>2. QED
    BY <1>3, <1>4, <2>1 DEF Numbered, Aged
<1>10. Truthful /\ KnownRunIsFound
  <2>1. \A r \in Requests : Named(r) = {}
    <3>1. ASSUME NEW r \in Requests PROVE Named(r) = {}
      <4>1. answer[r].runs = <<>>
        BY <1>7
      <4>2. DOMAIN <<>> = {}
        OBVIOUS
      <4>3. QED
        BY <4>1, <4>2 DEF Named
    <3>2. QED
      BY <3>1
  <2>2. \A r \in Requests : request[r].path # "/run" /\ answer[r].status # "404"
    BY <1>7
  <2>3. QED
    BY <2>1, <2>2 DEF Truthful, KnownRunIsFound
<1>11. QED
  BY <1>5, <1>6, <1>7, <1>8, <1>9, <1>10 DEF UiInv

\* No step of the UI, of a command or of the clock breaks the invariant.
LEMMA UiInvInductive == UiInv /\ [UiNext]_<<vars, uiVars>> => UiInv'
<1> SUFFICES ASSUME UiInv, [UiNext]_<<vars, uiVars>> PROVE UiInv'
  OBVIOUS
<1>1. CASE \/ \E r \in Requests : OpenStore(r) \/ StoreStep(r) \/ StoreBreaks(r)
           \/ \E s \in Sessions \ Requests : Command(s)
  <2>1. TypeOK
    BY DEF UiInv, StoreKept
  <2>2. QED
    BY <1>1, <2>1, StepsOfSessions, SessionKeepsInv
<1>2. ASSUME NEW r \in Requests,
             AnswerAtOnce(r) \/ CollectFails(r) \/ Fail(r) \/ Respond(r)
      PROVE  UiInv'
  BY <1>2, AnswersKeepInv
<1>3. ASSUME NEW r \in Requests, Send(r) PROVE UiInv'
  BY <1>3, SendKeepsInv
<1>4. CASE Stop
  BY <1>4, StopKeepsInv
<1>5. CASE Tick \/ UNCHANGED <<vars, uiVars>>
  BY <1>5, TickKeepsInv
<1>6. QED
  BY <1>1, <1>2, <1>3, <1>4, <1>5 DEF UiNext, Handle

\* The invariant of the UI holds with any requests beside any commands
\* (server.py:68-165, store/__init__.py:85-219).
THEOREM UiInvHolds == UiSpec => []UiInv
<1>1. UiSpec => UiInit /\ [][UiNext]_<<vars, uiVars>>
  BY PTL DEF UiSpec
<1>2. QED
  BY <1>1, UiInvInit, UiInvInductive, PTL

\* No link the UI has shown leads nowhere (server.py:89-112, 153-161,
\* templates.py:399-411).
THEOREM LinksLead == UiSpec => []KnownRunIsFound
<1>1. UiInv => KnownRunIsFound
  BY DEF UiInv
<1>2. QED
  BY <1>1, UiInvHolds, PTL

\* Every history page is newest first, and cut where it is oldest, whatever was
\* stored while it was made (store/__init__.py:210-213, server.py:84-87).
THEOREM PagesAreInOrder == UiSpec => []HistoryNewestFirst
<1>1. UiInv => HistoryNewestFirst
  BY DEF UiInv, HistoryNewestFirst, PageInOrder
<1>2. QED
  BY <1>1, UiInvHolds, PTL

\* What a browser is told and what the store keeps agree
\* (server.py:68-82, 137-161).
THEOREM AnswersAgree == UiSpec => []AnswerMatchesRecord
<1>1. ASSUME UiInv, NEW r \in Requests
      PROVE  /\ answer[r].status = "200" /\ ~cold => Named(r) \subseteq db.rows
             /\ answer[r].status \in {"400", "403", "404", "500"} => r \notin db.rows
             /\ r \in db.rows => Accepted(request[r]) /\ ~request[r].foreign
  <2>1. r \in Sessions
    BY UiAssumption
  <2>2. ~cold => Named(r) \subseteq db.rows
    BY <1>1 DEF UiInv, Truthful
  <2>3. answer[r].status \in {"400", "403", "404", "500"} => r \notin db.rows
    BY <1>1, <2>1 DEF UiInv, StoreKept, RowOwner, Handled
  <2>4. ASSUME r \in db.rows PROVE Accepted(request[r]) /\ ~request[r].foreign
    <3>1. Accepted(request[r]) /\ request[r] \in Asked
      BY <1>1, <2>4 DEF UiInv, Handled, UiTypeOK
    <3>2. request[r] \in Forms
      BY <3>1 DEF Accepted, Asked
    <3>3. request[r].method = "POST"
      <4>1. PICK path \in {"/diagnose", "/api/diagnose", "/nowhere"},
                 foreign \in BOOLEAN, valid \in BOOLEAN :
                   request[r] = Form(path, foreign, valid)
        BY <3>2, FormsAssumption
      <4>2. QED
        BY <4>1 DEF Form
    <3>4. QED
      BY <3>1, <3>3 DEF Accepted, Forbidden
  <2>5. QED
    BY <2>2, <2>3, <2>4
<1>2. UiInv => AnswerMatchesRecord
  BY <1>1 DEF AnswerMatchesRecord
<1>3. QED
  BY <1>2, UiInvHolds, PTL

\* No step of the UI or beside it disturbs a store that is warm.
LEMMA WarmUiStep ==
  ASSUME UiInv, Warm, [UiNext]_<<vars, uiVars>>
  PROVE  /\ Warm' /\ db.rows \subseteq db.rows'
         /\ \A s \in Sessions : pc'[s] = "schema_error" => pc[s] = "schema_error"
<1> DEFINE Safe == /\ Warm' /\ db.rows \subseteq db.rows'
                   /\ \A s \in Sessions :
                        pc'[s] = "schema_error" => pc[s] = "schema_error"
<1>1. TypeOK
  BY DEF UiInv, StoreKept
<1>2. CASE \/ \E r \in Requests : OpenStore(r) \/ StoreStep(r) \/ StoreBreaks(r)
           \/ \E s \in Sessions \ Requests : Command(s)
  <2>1. \E s \in Sessions : SessionStep(s)
    BY <1>1, <1>2, StepsOfSessions
  <2>2. [Next]_vars
    BY <2>1 DEF Next, SessionStep
  <2>3. QED
    BY <1>1, <2>2, WarmStep
<1>3. CASE Stop
  <2>1. UNCHANGED db /\ \A s \in Sessions : pc'[s] = pc[s] \/ pc'[s] = "dead"
    BY <1>3 DEF Stop
  <2>2. QED
    BY <2>1 DEF Warm, Migrating
<1>4. CASE UNCHANGED vars
  BY <1>4 DEF vars, Warm
<1>5. ASSUME NEW r \in Requests,
             Send(r) \/ AnswerAtOnce(r) \/ CollectFails(r) \/ Fail(r) \/ Respond(r)
      PROVE  UNCHANGED vars
  BY <1>5 DEF Send, AnswerAtOnce, CollectFails, Fail, Respond
<1>6. Tick \/ UNCHANGED <<vars, uiVars>> => UNCHANGED vars
  BY DEF Tick, vars
<1>7. QED
  BY <1>2, <1>3, <1>4, <1>5, <1>6 DEF UiNext, Handle

\* Once the requests that raced to create or migrate the file are through and it is
\* current, pages and commands are safe from that race for good, whatever Ctrl-C
\* cuts off (store/__init__.py:85-118, server.py:151-165).
THEOREM UiWarmIsForGood == UiSpec => WarmStoreIsSafe
<1>1. UiInv /\ [UiNext]_<<vars, uiVars>> =>
        [Warm => /\ Warm' /\ db.rows \subseteq db.rows'
                 /\ \A s \in Sessions :
                      pc'[s] = "schema_error" => pc[s] = "schema_error"]_vars
  BY WarmUiStep
<1>2. UiSpec => UiInit /\ [][UiNext]_<<vars, uiVars>>
  BY PTL DEF UiSpec
<1>3. QED
  BY <1>1, <1>2, UiInvHolds, PTL DEF WarmStoreIsSafe

\* Under the UI, where one signal ends several sessions at once, the store still
\* releases its lock and keeps no run that was reported as an error
\* (store/__init__.py:112-118, server.py:164-165).
THEOREM UiKeepsStore == UiSpec => [](TypeOK /\ LockHeldByWriter /\ FailedRunNotStored)
<1>1. UiInv => TypeOK /\ LockHeldByWriter /\ FailedRunNotStored
  BY DEF UiInv, StoreKept, RowOwner, FailedRunNotStored, Failed
<1>2. QED
  BY <1>1, UiInvHolds, PTL

\* Nor does the end of the server: it leaves the file alone, and of a session that
\* it cuts off nothing is claimed.
LEMMA AloneUiStep ==
  ASSUME AloneInv, TypeOK', [UiNext]_<<vars, uiVars>>
  PROVE  AloneInv'
<1>1. TypeOK
  BY DEF AloneInv
<1>2. CASE \/ \E r \in Requests : OpenStore(r) \/ StoreStep(r) \/ StoreBreaks(r)
           \/ \E s \in Sessions \ Requests : Command(s)
  <2>1. \E s \in Sessions : SessionStep(s)
    BY <1>1, <1>2, StepsOfSessions
  <2>2. [Next]_vars
    BY <2>1 DEF Next, SessionStep
  <2>3. QED
    BY <2>2, AloneInvInductive
<1>3. CASE Stop
  <2>1. /\ UNCHANGED <<alone, db>>
        /\ \A s \in Sessions : pc'[s] = pc[s] \/ pc'[s] = "dead"
    BY <1>3 DEF Stop
  <2>2. alone \subseteq Sessions
    BY <1>1 DEF TypeOK
  <2>3. AloneIsAlone'
    BY <2>1, <2>2 DEF AloneInv, AloneIsAlone, Open, Migrating
  <2>4. ASSUME NEW s \in alone
        PROVE  /\ Migrated(s)'
               /\ pc'[s] \in {"body", "commit_run"} => db'.meta = "current"
               /\ pc'[s] = "schema_error" =>
                    Unhealable' /\ \A t \in Sessions : pc'[t] \notin Migrating
    BY <2>1, <2>2, <2>4 DEF AloneInv, Migrated, Unhealable, Migrating
  <2>5. QED
    BY <2>1, <2>3, <2>4 DEF AloneInv
<1>4. ASSUME NEW r \in Requests,
             Send(r) \/ AnswerAtOnce(r) \/ CollectFails(r) \/ Fail(r) \/ Respond(r)
      PROVE  UNCHANGED vars
  BY <1>4 DEF Send, AnswerAtOnce, CollectFails, Fail, Respond
<1>5. Tick \/ UNCHANGED <<vars, uiVars>> => UNCHANGED vars
  BY DEF Tick
<1>6. CASE UNCHANGED vars
  BY <1>6, AloneInvInductive
<1>7. QED
  BY <1>2, <1>3, <1>4, <1>5, <1>6 DEF UiNext, Handle

\* However the requests race to create or migrate the file and whatever cuts them off:
\* a command or request that has the file to itself finds a usable schema or makes
\* one, but where the version row says current and the runs table is not
\* (store/__init__.py:85-100, server.py:151-165).
THEOREM UiSoloHealsAllElse == UiSpec => []OnlyThatDoesNotHeal
<1>1. UiInit => AloneInv
  <2> SUFFICES ASSUME UiInit PROVE AloneInv
    OBVIOUS
  <2>1. TypeOK /\ Init
    BY UiInvInit DEF UiInit, UiInv, StoreKept
  <2>2. QED
    BY <2>1 DEF Init, AloneInv, AloneIsAlone, Migrated, TypeOK, Open, Migrating
<1>2. UiInv => TypeOK
  BY DEF UiInv, StoreKept
<1>3. AloneInv /\ TypeOK' /\ [UiNext]_<<vars, uiVars>> => AloneInv'
  BY AloneUiStep
<1>4. AloneInv => OnlyThatDoesNotHeal
  BY DEF AloneInv, OnlyThatDoesNotHeal
<1>5. UiSpec => UiInit /\ [][UiNext]_<<vars, uiVars>>
  BY PTL DEF UiSpec
<1>6. QED
  BY <1>1, <1>2, <1>3, <1>4, <1>5, UiInvHolds, PTL
=============================================================================
