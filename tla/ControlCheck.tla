---------------------------- MODULE ControlCheck ----------------------------
(***************************************************************************)
(* What the control-host check promises: every configured host is pinged   *)
(* once, each ping on its own; the check returns when all have answered,   *)
(* with one result per configured host, hosts in configured order, or fails *)
(* because a ping could not be run at all.  Only a Ctrl-C ends it earlier. *)
(* Threads do not show here.                                               *)
(***************************************************************************)
EXTENDS Probes

CONSTANTS
  Pending,     \* no outcome yet
  NoTool       \* the ping command could not be started

VARIABLES
  phase,       \* "idle", "pinging", "returned", "raised", "interrupted"
  measured,    \* what the ping of each position saw
  controls     \* the slice handed to the caller

controlVars == <<phase, measured, controls>>

Positions == 1..Len(control_hosts)

NoControls == [results |-> <<>>, all_ok |-> FALSE]

Arrangements ==
  {f \in [Positions -> Positions] :
     /\ \A i, j \in Positions : f[i] = f[j] => i = j
     /\ \A i, j \in Positions :
          i < j => FirstIndex(control_hosts[f[i]]) <= FirstIndex(control_hosts[f[j]])}

\* The results stand in configured order; those of a host that is configured
\* twice stand together, in either order.
Results(outcomes, f) ==
  [i \in Positions |-> probe_one(control_hosts[f[i]], outcomes[f[i]])]

ControlInit ==
  /\ phase = "idle"
  /\ measured = [i \in Positions |-> Pending]
  /\ controls = NoControls

Begin ==
  /\ phase = "idle"
  /\ phase' = "pinging"
  /\ UNCHANGED <<measured, controls>>

\* A ping that was started ends, even if nobody waits for it any more.
Measure(i, outcome) ==
  /\ phase \in {"pinging", "interrupted"}
  /\ measured[i] = Pending
  /\ measured' = [measured EXCEPT ![i] = outcome]
  /\ UNCHANGED <<phase, controls>>

Settled == \A i \in Positions : measured[i] # Pending
SomeFailed == \E i \in Positions : measured[i] = NoTool

Return ==
  /\ phase = "pinging" /\ Settled /\ ~SomeFailed
  /\ \E f \in Arrangements : controls' = control_hosts_slice(Results(measured, f))
  /\ phase' = "returned"
  /\ UNCHANGED measured

Fail ==
  /\ phase = "pinging" /\ Settled /\ SomeFailed
  /\ phase' = "raised"
  /\ UNCHANGED <<measured, controls>>

Interrupted ==
  /\ phase = "pinging"
  /\ phase' = "interrupted"
  /\ UNCHANGED <<measured, controls>>
=============================================================================
