------------------------------- MODULE RunLog -------------------------------
(***************************************************************************)
(* What the run history promises its callers: a run is recorded at most    *)
(* once and then stays, and only a recorded run is acknowledged with its   *)
(* identifier.  How the database is laid out, created, migrated and locked *)
(* does not show here.                                                     *)
(***************************************************************************)
CONSTANT Runs

VARIABLES
  log,    \* the runs on record
  acked   \* the runs whose identifier was handed back to the caller

Init == log = {} /\ acked = {}

Record(r) ==
  /\ r \notin log
  /\ log' = log \cup {r}
  /\ UNCHANGED acked

Acknowledge(r) ==
  /\ r \in log
  /\ acked' = acked \cup {r}
  /\ UNCHANGED log

Next == \E r \in Runs : Record(r) \/ Acknowledge(r)

Spec == Init /\ [][Next]_<<log, acked>>
=============================================================================
