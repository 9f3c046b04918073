----------------------------- MODULE ControlPool -----------------------------
(***************************************************************************)
(* collect_control_hosts as it runs: the caller submits one job per host   *)
(* to a thread pool with a thread per host, takes the finished futures in  *)
(* the order as_completed yields them, and leaves the pool's with-block,   *)
(* which waits for every job, before it sorts the results back into the    *)
(* configured order.  A job whose command cannot be started re-raises in   *)
(* the caller, who then takes no further result.  A Ctrl-C may reach the   *)
(* caller wherever it waits.                                               *)
(***************************************************************************)
EXTENDS Probes, SequencesExt, Ranking

CONSTANTS
  Pings,            \* what a ping may see
  Pending,          \* no outcome yet
  NoTool,           \* the ping command could not be started
  MaxInterrupts     \* bound on Ctrl-C

ASSUME PoolAssumption ==
  /\ \A p \in Pings : p.timed_out \in BOOLEAN /\ p.loss_pct \in Percent
  /\ Pending \notin Pings /\ NoTool \notin Pings /\ Pending # NoTool
  /\ MaxInterrupts \in Nat

VARIABLES
  pc,            \* the caller
  submitted,     \* how many jobs have been handed to the pool
  job,           \* each position's job: "none", "running", "done"
  outcome,       \* what it saw, or that the command could not be started
  collected,     \* the positions whose result the caller took, in that order
  interrupts,    \* Ctrl-C so far
  controls       \* the slice returned

vars == <<pc, submitted, job, outcome, collected, interrupts, controls>>

Positions == 1..Len(control_hosts)
NoControls == [results |-> <<>>, all_ok |-> FALSE]

Init ==
  /\ pc = "idle"
  /\ submitted = 0
  /\ job = [i \in Positions |-> "none"]
  /\ outcome = [i \in Positions |-> Pending]
  /\ collected = <<>>
  /\ interrupts = 0
  /\ controls = NoControls

Enter ==
  /\ pc = "idle"
  /\ pc' = "submitting"
  /\ UNCHANGED <<submitted, job, outcome, collected, interrupts, controls>>

\* pool.submit for the next host; the thread may run at once.
Submit ==
  /\ pc = "submitting"
  /\ submitted' = submitted + 1
  /\ job' = [job EXCEPT ![submitted + 1] = "running"]
  /\ pc' = IF submitted + 1 = Len(control_hosts) THEN "collecting" ELSE pc
  /\ UNCHANGED <<outcome, collected, interrupts, controls>>

\* A job ends: its ping answers or times out, or it could not be started.
Finish(i) ==
  /\ job[i] = "running"
  /\ \E o \in Pings \cup {NoTool} : outcome' = [outcome EXCEPT ![i] = o]
  /\ job' = [job EXCEPT ![i] = "done"]
  /\ UNCHANGED <<pc, submitted, collected, interrupts, controls>>

\* Mutant: a result is looked at but not kept.
Collect_forgets(i) ==
  /\ pc = "collecting"
  /\ job[i] = "done" /\ i \notin ToSet(collected)
  /\ UNCHANGED vars

\* as_completed yields a finished future; future.result() returns or re-raises.
Collect(i) ==
  /\ pc = "collecting"
  /\ job[i] = "done" /\ i \notin ToSet(collected)
  /\ IF outcome[i] = NoTool
     THEN pc' = "raising" /\ UNCHANGED collected
     ELSE /\ collected' = Append(collected, i)
          /\ pc' = IF Len(collected') = Len(control_hosts) THEN "leaving" ELSE pc
  /\ UNCHANGED <<submitted, job, outcome, interrupts, controls>>

\* pool.__exit__: shutdown(wait=True), then the exception goes on, if any.
AllDone == \A i \in Positions : job[i] # "running"

\* Mutant: shutdown(wait=False).
LeaveRaising_at_once ==
  /\ pc = "raising"
  /\ pc' = "raised"
  /\ UNCHANGED <<submitted, job, outcome, collected, interrupts, controls>>

LeaveRaising ==
  /\ pc = "raising" /\ AllDone
  /\ pc' = "raised"
  /\ UNCHANGED <<submitted, job, outcome, collected, interrupts, controls>>

\* Mutant: no sort.
Sorted_not(taken) == taken

\* results.sort: Python's sort is stable, so the results of a host that is
\* configured twice stay in completion order.
Sorted(taken) ==
  LET Key(p) == FirstIndex(control_hosts[taken[p]])
      Before(p, q) == Key(p) < Key(q) \/ (Key(p) = Key(q) /\ p < q)
      before == {e \in (1..Len(taken)) \X (1..Len(taken)) : Before(e[1], e[2])}
      order == Ranked(1..Len(taken), before)
  IN  [k \in 1..Len(taken) |-> taken[order[k]]]

LeaveReturning ==
  /\ pc = "leaving" /\ AllDone
  /\ LET sorted == Sorted(collected)
     IN  controls' = control_hosts_slice(
           [k \in DOMAIN sorted |->
              probe_one(control_hosts[sorted[k]], outcome[sorted[k]])])
  /\ pc' = "returned"
  /\ UNCHANGED <<submitted, job, outcome, collected, interrupts>>

\* Ctrl-C while submitting or collecting unwinds into the with-block's wait;
\* a second one breaks that wait and leaves the threads behind.
Interrupt ==
  /\ interrupts < MaxInterrupts
  /\ pc \in {"submitting", "collecting", "leaving", "raising"}
  /\ interrupts' = interrupts + 1
  /\ pc' = IF pc \in {"submitting", "collecting"} THEN "raising" ELSE "raised"
  /\ UNCHANGED <<submitted, job, outcome, collected, controls>>

Caller == Enter \/ Submit \/ (\E i \in Positions : Collect(i))
            \/ LeaveRaising \/ LeaveReturning

Ended == pc \in {"returned", "raised"} /\ AllDone /\ UNCHANGED vars

Next == Caller \/ Interrupt \/ (\E i \in Positions : Finish(i)) \/ Ended

\* The caller's thread is scheduled, and every ping ends: the runner gives each
\* subprocess a timeout.
Fairness == WF_vars(Caller) /\ \A i \in Positions : WF_vars(Finish(i))

Spec == Init /\ [][Next]_vars /\ Fairness

-----------------------------------------------------------------------------
\* Properties

\* The types; the jobs started are the first ones of the configured order.
TypeOK ==
  /\ pc \in {"idle", "submitting", "collecting", "leaving", "raising",
             "returned", "raised"}
  /\ submitted \in 0..Len(control_hosts)
  /\ job \in [Positions -> {"none", "running", "done"}]
  /\ outcome \in [Positions -> Pings \cup {Pending, NoTool}]
  /\ interrupts \in 0..MaxInterrupts
  /\ \A i \in Positions : job[i] = "none" <=> i > submitted

\* The check never ends while one of its pings still runs, whether it returns
\* or fails: only a Ctrl-C on top of a failure, or a second Ctrl-C, can break
\* the wait of the with-block (control_hosts.py:64-67).
NoPingLeftBehind ==
  /\ TypeOK
  /\ pc = "returned" => AllDone
  /\ pc = "raised" /\ ~AllDone =>
       interrupts >= 2 \/ (interrupts = 1 /\ \E i \in Positions : outcome[i] = NoTool)

\* The quorum is taken over every host's own measurement, no matter in which
\* order the pings finished, no failed job is counted as an answer, and the
\* results stand in configured order (control_hosts.py:66-71).
QuorumOverAll ==
  pc = "returned" =>
    /\ \A i \in Positions : outcome[i] \in Pings
    /\ controls.all_ok <=>
         Cardinality({i \in Positions :
           probe_one(control_hosts[i], outcome[i]).reachable}) >= control_quorum
    /\ \A i, j \in Positions :
         i < j => FirstIndex(controls.results[i].host)
                    <= FirstIndex(controls.results[j].host)

\* Every check that begins ends: the timeout of each ping bounds the wait.
CheckEnds == pc = "submitting" ~> pc \in {"returned", "raised"}

\* The pool implements the abstract check (control_hosts.py:63-71): the order in
\* which the threads are started and finish, and the caller's collecting and
\* waiting, show only through the result.
Abstract == INSTANCE ControlCheck WITH
  phase <- CASE interrupts > 0 -> "interrupted"
             [] interrupts = 0 /\ pc = "idle" -> "idle"
             [] interrupts = 0 /\ pc \in {"returned", "raised"} -> pc
             [] OTHER -> "pinging",
  measured <- outcome

AbstractNext ==
  \/ Abstract!Begin \/ Abstract!Return \/ Abstract!Fail \/ Abstract!Interrupted
  \/ \E i \in Positions, o \in Pings \cup {NoTool} : Abstract!Measure(i, o)

ImplementsControlCheck ==
  Abstract!ControlInit /\ [][AbstractNext]_(Abstract!controlVars)
=============================================================================
