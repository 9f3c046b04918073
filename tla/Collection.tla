----------------------------- MODULE Collection -----------------------------
(***************************************************************************)
(* One call of collect_signals: the collectors run one after another, the  *)
(* control hosts in parallel, and the network may change between any two   *)
(* probes.  At the end the slices are folded into one snapshot, which is   *)
(* all the engine sees.                                                    *)
(*                                                                         *)
(* Any subprocess may fail to start (the command is not installed, or the  *)
(* system is out of processes): that exception ends the run.               *)
(***************************************************************************)
EXTENDS Network

CONSTANTS
  Jobs,          \* what may be asked for: target and flags
  Pending, NoTool,
  MaxTroubles    \* bound on the faults at the start of a run plus the changes
                 \* of the network during it

ASSUME CollectionAssumption ==
  /\ Jobs \subseteq [method : {"http", "tcp", "ping"}, is_literal : BOOLEAN,
                     skip_path : BOOLEAN, skip_captive : BOOLEAN]
  /\ MaxTroubles \in Nat

VARIABLES
  job,                          \* target and flags of this run
  pc,                           \* the collector to run next, or how it ended
  result,                       \* the slices so far
  phase, measured, controls,    \* the control-host check
  faults,                       \* what is wrong with the network now
  ever, always,                 \* ... at some time in this run, at all times
  troubles                      \* counted against MaxTroubles

controlVars    == <<phase, measured, controls>>
networkVars    == <<faults, ever, always, troubles>>
collectionVars == <<job, pc, result, phase, measured, controls,
                    faults, ever, always, troubles>>

ControlHosts == INSTANCE ControlCheck

Unmeasured == [gateway |-> [reachable |-> FALSE, gateway_ip |-> FALSE],
               ipv6_route |-> [present |-> FALSE],
               dns |-> [ok |-> FALSE],
               ip |-> [ok |-> FALSE, loss_pct |-> 100],
               controls |-> ControlHosts!NoControls,
               target |-> [ok |-> FALSE],
               captive |-> [portal_detected |-> FALSE]]

CollectionInit ==
  /\ job \in Jobs
  /\ pc = "gateway"
  /\ result = Unmeasured
  /\ ControlHosts!ControlInit
  /\ faults \in {f \in SUBSET Faults : Cardinality(f) <= MaxTroubles}
  /\ ever = faults /\ always = faults
  /\ troubles = Cardinality(faults)

-----------------------------------------------------------------------------
\* The collectors, in the order of collect_signals

Measured(slice, value, next) ==
  /\ result' = [result EXCEPT ![slice] = value]
  /\ pc' = next
  /\ UNCHANGED <<job, networkVars>>

\* collect_gateway: the route command ...
GatewayRoute ==
  /\ pc = "gateway"
  /\ LET route == RouteSeen(faults)
     IN  IF route = "found"
         THEN /\ pc' = "gateway_ping"
              /\ UNCHANGED <<job, result, networkVars>>
         ELSE Measured("gateway", collect_gateway(route, TimedOut), "ipv6_route")
  /\ UNCHANGED controlVars

\* ... and, seconds later, four pings to the gateway it named, if it named one.
GatewayPing ==
  /\ pc = "gateway_ping"
  /\ \E ping \in GatewayPings(faults) :
       Measured("gateway", collect_gateway("found", ping), "dns")
  /\ UNCHANGED controlVars

Ipv6Route ==
  /\ pc = "ipv6_route"
  /\ Measured("ipv6_route",
              collect_ipv6_route(result.gateway, Route6Seen(faults)), "dns")
  /\ UNCHANGED controlVars

Dns ==
  /\ pc = "dns"
  /\ \E resolves \in Resolutions(faults) :
       Measured("dns", collect_dns(job.is_literal, resolves), "ip")
  /\ UNCHANGED controlVars

IpConnectivity ==
  /\ pc = "ip"
  /\ \E ping \in RemotePings(canary_ip, 10, faults) :
       Measured("ip", collect_ip_connectivity(ping), "controls")
  /\ UNCHANGED controlVars

ControlHostsBegin ==
  /\ pc = "controls"
  /\ ControlHosts!Begin
  /\ UNCHANGED <<job, pc, result, networkVars>>

\* One of the parallel pings ends: it saw the network as it is at that moment.
ControlHostPing ==
  /\ pc = "controls"
  /\ \E i \in ControlHosts!Positions :
       \E outcome \in RemotePings(control_hosts[i], 10, faults) \cup {NoTool} :
         ControlHosts!Measure(i, outcome)
  /\ UNCHANGED <<job, pc, result, networkVars>>

\* Mutant: the slice from before the check is kept.
ControlHostsReturn_stale ==
  /\ pc = "controls"
  /\ ControlHosts!Return
  /\ Measured("controls", controls, "target")

ControlHostsReturn ==
  /\ pc = "controls"
  /\ ControlHosts!Return
  /\ Measured("controls", controls', "target")

ControlHostsFail ==
  /\ pc = "controls"
  /\ ControlHosts!Fail
  /\ pc' = "raised"
  /\ UNCHANGED <<job, result, networkVars>>

Target ==
  /\ pc = "target"
  /\ \E answer \in TargetAnswers(job.method, job.is_literal, faults) :
       Measured("target", collect_target_service(job.method, answer), "captive")
  /\ UNCHANGED controlVars

\* Skipped by flag or by configuration: nothing is detected.
Captive ==
  /\ pc = "captive"
  /\ \E answer \in IF job.skip_captive \/ ~captive_check_enabled
                   THEN {"disabled"} ELSE CaptiveAnswers(faults) :
       Measured("captive", collect_captive_portal(answer),
                IF job.skip_path THEN "collected" ELSE "path")
  /\ UNCHANGED controlVars

\* The traceroutes only decorate the report; no signal depends on them.
Path ==
  /\ pc = "path"
  /\ pc' = "collected"
  /\ UNCHANGED <<job, result, controlVars, networkVars>>

RunsCommand ==
  {"gateway", "gateway_ping", "ipv6_route", "ip", "path"}
    \cup IF job.method = "ping" THEN {"target"} ELSE {}

CannotStart ==
  /\ pc \in RunsCommand
  /\ pc' = "raised"
  /\ UNCHANGED <<job, result, controlVars, networkVars>>

Collect ==
  \/ GatewayRoute \/ GatewayPing \/ Ipv6Route \/ Dns \/ IpConnectivity
  \/ ControlHostsBegin \/ ControlHostPing \/ ControlHostsReturn \/ ControlHostsFail
  \/ Target \/ Captive \/ Path

-----------------------------------------------------------------------------
\* The network: one fault appears or goes away while the run is under way.

Change ==
  /\ pc \notin {"collected", "raised"}
  /\ troubles < MaxTroubles
  /\ \E f \in Faults :
       faults' = IF f \in faults THEN faults \ {f} ELSE faults \cup {f}
  /\ ever' = ever \cup faults'
  /\ always' = always \cap faults'
  /\ troubles' = troubles + 1
  /\ UNCHANGED <<job, pc, result, controlVars>>

Finished == pc \in {"collected", "raised"} /\ UNCHANGED collectionVars

CollectionNext == Collect \/ CannotStart \/ Change

\* Every probe has a time limit, so the collectors keep going.
CollectionSpec ==
  /\ CollectionInit
  /\ [][CollectionNext \/ Finished]_collectionVars
  /\ WF_collectionVars(Collect)

snapshot == snapshot_of(result)
verdict  == diagnose(snapshot)

-----------------------------------------------------------------------------
\* Properties

\* The types; from the target on, the slice on record is the one the control-host
\* check returned.
TypeOK ==
  /\ job \in Jobs
  /\ pc \in RunsCommand \cup {"dns", "controls", "target", "captive",
                             "collected", "raised"}
  /\ phase \in {"idle", "pinging", "returned", "raised"}
  /\ always \subseteq faults /\ faults \subseteq ever /\ ever \subseteq Faults
  /\ troubles \in 0..MaxTroubles
  /\ pc \in {"target", "captive", "path", "collected"} =>
       phase = "returned" /\ result.controls = controls
  /\ pc = "collected" => snapshot \in SignalSnapshot

Collected == pc = "collected"

\* However the network changes between the probes, a run yields a snapshot the
\* engine's analysis covers: no contradictory signals (orchestrator.py:95-108).
SnapshotIsProducible == Collected => Producible(snapshot)

PortalNotLookedFor == job.skip_captive \/ ~captive_check_enabled

\* A name that does not resolve counts as a destination that loses everything
\* (control_hosts.py:29-36), so two of them look like a fault of the ISP.
Destination(i) == IF i = 0 THEN canary_ip ELSE control_hosts[i]
NamesLookLossy ==
  \E i, j \in 0..Len(control_hosts) :
    i # j /\ Destination(i) \in names /\ Destination(j) \in names

\* A firewall that drops every ping is taken for a dead router although the
\* documentation promises "inconclusive": no run is said to name it.
Nameable == Faults \ {"icmp_blocked"}

\* What a run reports of a network in which exactly f was wrong from beginning
\* to end.
Expected(f) ==
  CASE f = "no_route"       -> {"local-device"}
    [] f = "v6_only"        -> {"ipv6-only"}
    [] f = "route_hangs"    -> {"healthy"}
    [] f = "router_dead"    -> {"router-gateway"}
    [] f = "router_mute"    -> {"healthy"}
    [] f = "wan_dead"       -> {"wan-gateway", "isp-upstream"}
    [] f = "upstream_lossy" -> {"isp-upstream"}
    [] f = "resolver_dead"  ->
         IF ~job.is_literal THEN {IF canary_ip \in names THEN "wan-gateway" ELSE "dns"}
         ELSE {"healthy", "inconclusive"} \cup IF NamesLookLossy THEN {"isp-upstream"} ELSE {}
    [] f = "canary_dead"    -> IF \E i \in ControlHosts!Positions :
                                    control_hosts[i] = canary_ip
                               THEN {"isp-upstream"} ELSE {"inconclusive"}
    [] f = "target_dead"    -> {"remote-service"}
    [] f = "portal"         -> IF PortalNotLookedFor
                               THEN {"healthy", "remote-service", "isp-upstream",
                                     "inconclusive"}
                               ELSE {"captive-portal"}

\* A single steady fault is named for what it is, unless it is a firewall against
\* pings, and a network without one is called healthy, whichever way the uncertain
\* probes went: collectors, normalizer and decision table together.
SteadyFaultIsNamed ==
  Collected /\ ever = always =>
    /\ ever = {} => verdict.boundary = "healthy"
    /\ \A f \in Nameable : ever = {f} => verdict.boundary \in Expected(f)

\* What may be the cause of a verdict.
Outage == {"no_route", "v6_only", "router_dead", "wan_dead"}

\* Loss is charged to the path only when the gateway itself answered.
LossUnseen == ~result.gateway.reachable

Causes(boundary) ==
  CASE boundary = "ipv6-only"      -> {"v6_only"}
    [] boundary = "local-device"   -> {"no_route", "v6_only", "route_hangs"}
    [] boundary = "router-gateway" -> {"router_dead", "router_mute", "icmp_blocked"}
    [] boundary = "captive-portal" -> {"portal"}
    [] boundary = "wan-gateway"    -> {"wan_dead", "resolver_dead"}
    [] boundary = "dns"            -> {"resolver_dead"}
    [] boundary = "isp-upstream"   ->
         {"wan_dead", "upstream_lossy", "canary_dead", "portal"}
           \cup IF NamesLookLossy THEN {"resolver_dead"} ELSE {}
    [] boundary = "remote-service" ->
         {"target_dead", "portal"}
           \cup IF LossUnseen THEN {"upstream_lossy"} ELSE {}
    [] boundary = "inconclusive"   -> Faults

\* What a boundary may be blamed for that comes or goes between the probes of a
\* run, so that its snapshot mixes before and after: a route that is lost between
\* the route command and the gateway ping looks like a router that fell silent.
Misleading(boundary) ==
  CASE boundary = "router-gateway" -> {"no_route", "v6_only"}
    [] boundary \in {"wan-gateway", "dns", "isp-upstream", "remote-service"} ->
         Outage \cup {"resolver_dead", "upstream_lossy", "icmp_blocked"}
    [] OTHER -> {}

\* No boundary is blamed unless something was wrong that lies there or hides it,
\* in whatever combination the faults come, or something came or went under way
\* that misleads the run; the device and a portal are never blamed for that.
BlameHasACause ==
  Collected /\ verdict.boundary # "healthy" =>
    \/ ever \cap Causes(verdict.boundary) # {}
    \/ (ever \ always) \cap Misleading(verdict.boundary) # {}

\* A run that calls the network healthy hides no fault that was there from
\* its beginning to its end, except those its probes are known not to see: a
\* router that ignores pings, a failing route command, loss behind either, a
\* dead resolver when the target is an address, a portal not looked for, or a
\* portal that an outage kept the last probe from seeing, a service in whose
\* place a portal answered.
Unseen == {"router_mute", "route_hangs"}
            \cup (IF job.is_literal THEN {"resolver_dead"} ELSE {})
            \cup (IF PortalNotLookedFor THEN {"portal"} ELSE {})
            \cup (IF LossUnseen THEN {"upstream_lossy"} ELSE {})
            \cup (IF job.method = "http" /\ "portal" \in ever THEN {"target_dead"} ELSE {})
            \cup (IF (ever \ always) \cap Outage # {} THEN {"portal"} ELSE {})

HealthyHidesNothing ==
  Collected /\ verdict.boundary = "healthy" => always \subseteq Unseen

\* normalizer.py:153-156: the loss signal "requires at least two independent
\* destinations, so one dead remote host cannot alone produce an ISP verdict".
OneDeadHostIsNotAnIspFault ==
  Collected /\ ever = {"canary_dead"} => verdict.boundary # "isp-upstream"

\* engine.py:193, 200: a healthy verdict says that the path was "probed (gateway,
\* DNS, IP, controls, target, no path loss)" and all is "reachable with no path loss".
HealthyMeansNoLossMeasured ==
  Collected /\ verdict.boundary = "healthy" =>
    result.ip.loss_pct <= remote_loss_pct
=============================================================================
