------------------------------ MODULE Verdict ------------------------------
(***************************************************************************)
(* The engine at work: the verdicts of successive runs on one machine.     *)
(* Poll replaces the snapshot by any snapshot a run can produce and        *)
(* classifies it, so that a step relates any two of them; Consult folds    *)
(* the answer of the external vantage into the verdict, once per run.      *)
(***************************************************************************)
EXTENDS Engine

VARIABLES
  snapshot,    \* the signals of the latest run
  diagnosis,   \* its verdict, refined or not
  refined      \* has this run's verdict been through refine?

vars == <<snapshot, diagnosis, refined>>

Init ==
  /\ snapshot \in Snapshots
  /\ diagnosis = diagnose(snapshot)
  /\ refined = FALSE

\* Bound to s, the new snapshot is evaluated once where it stands for another state.
Poll ==
  /\ snapshot' \in Snapshots
  /\ \E s \in {snapshot'} : diagnosis' = diagnose(s)
  /\ refined' = FALSE

Consult ==
  /\ ~refined
  /\ \E vantage \in VantageSlice : diagnosis' = refine(diagnosis, vantage)
  /\ refined' = TRUE
  /\ UNCHANGED snapshot

Next == Poll \/ Consult

Spec == Init /\ [][Next]_vars

-----------------------------------------------------------------------------
\* Properties

Claims ==
  {"no_v4_route", "v6_route", "gateway_answers", "gateway_reachable", "gateway_silent",
   "forwarding", "external_failed", "portal_intercepts", "canary_works", "canary_failed",
   "dns_works", "dns_failed", "controls_work", "target_works", "target_failed",
   "two_destinations_lossy", "no_loss",
   "down_for_everyone", "reachable_elsewhere", "wider_outage_possible"}

\* The types: every snapshot finds a row, its verdict is in the vocabulary and
\* its confidence stays between a coin toss and 99 whatever a vantage says.
TypeOK ==
  /\ snapshot \in Snapshots
  /\ diagnosis \in [boundary : BOUNDARIES, confidence : 50..99, claims : SUBSET Claims]
  /\ refined \in BOOLEAN

\* What a claim says of the signals.
ClaimFollows(claim, s) ==
  CASE claim = "gateway_answers"        -> s.gateway_reachable
    [] claim = "gateway_reachable"      -> s.gateway_reachable
    [] claim = "gateway_silent"         -> ~s.gateway_reachable
    [] claim = "forwarding"             -> gateway_functional(s)
    [] claim = "external_failed"        -> ~s.ip_connectivity_ok /\ ~s.control_hosts_ok
    [] claim = "no_v4_route"            -> ~s.default_route_present
    [] claim = "v6_route"               -> s.ipv6_default_route_present
    [] claim = "portal_intercepts"      -> s.captive_portal_detected
    [] claim = "canary_works"           -> s.ip_connectivity_ok
    [] claim = "canary_failed"          -> ~s.ip_connectivity_ok
    [] claim = "dns_works"              -> s.dns_ok
    [] claim = "dns_failed"             -> ~s.dns_ok
    [] claim = "controls_work"          -> s.control_hosts_ok
    [] claim = "target_works"           -> s.target_service_ok
    [] claim = "target_failed"          -> ~s.target_service_ok
    [] claim = "two_destinations_lossy" -> s.packet_loss_multiple_targets
    [] claim = "no_loss"                -> ~s.packet_loss_after_hop1
    [] OTHER -> TRUE

\* The one claim that goes beyond the signals: three rows call the gateway
\* reachable whatever the ping said (engine.py:101, 117, 200).
Overstates(claim, s) ==
  claim = "gateway_reachable" /\ ~s.gateway_reachable /\ gateway_functional(s)

\* A report says of the signals what they are, in every row and after refinement,
\* with one exception: behind a gateway that forwards but answers no ping it may
\* call the gateway reachable, and then it also says that the gateway forwards
\* (rule builders, engine.py:29-212).
ClaimsFollowSignals ==
  /\ TypeOK
  /\ \A claim \in diagnosis.claims :
       \/ ClaimFollows(claim, snapshot)
       \/ Overstates(claim, snapshot) /\ "forwarding" \in diagnosis.claims

\* A captive portal fakes the green signals, so no row that keys on them may
\* win once it is detected behind a gateway that forwards (engine.py:262-266).
PortalIsDecisive ==
  snapshot.captive_portal_detected /\ gateway_functional(snapshot)
    => diagnosis.boundary = "captive-portal"

\* IPv6 presence and the v4 route are don't-cares while v4 traffic flows: runs
\* that differ in nothing else reach the same verdict (engine.py:250-254).
SameBut(s, t, fields) ==
  \A field \in (DOMAIN s) \ fields : s[field] = t[field]

RoutesIrrelevantWhenForwarding ==
  [][SameBut(snapshot, snapshot', {"ipv6_default_route_present", "default_route_present"})
       /\ gateway_functional(snapshot)
     => diagnosis'.boundary = diagnosis.boundary]_vars

\* An unanswered gateway ping does not, on its own, accuse the LAN boundary:
\* while an external host is reached the verdict is the one an answering
\* gateway would get (models.py:36-44, engine.py:240-248).
SilentGatewayAccusesNobody ==
  [][SameBut(snapshot, snapshot', {"gateway_reachable"})
       /\ (snapshot.ip_connectivity_ok \/ snapshot.control_hosts_ok)
     => diagnosis'.boundary = diagnosis.boundary]_vars

\* How far from the user a boundary lies.
Distance(boundary) ==
  CASE boundary \in {"ipv6-only", "local-device"} -> 0
    [] boundary = "router-gateway" -> 1
    [] boundary = "captive-portal" -> 2
    [] boundary = "wan-gateway"    -> 3
    [] boundary = "dns"            -> 4
    [] boundary = "isp-upstream"   -> 5
    [] boundary = "remote-service" -> 6
    [] boundary = "healthy"        -> 7
    [] boundary = "inconclusive"   -> 8

\* Nothing got worse from s to t.
FaultSignals == {"captive_portal_detected", "packet_loss_after_hop1",
                 "packet_loss_multiple_targets"}
NoWorse(s, t) ==
  /\ \A field \in FaultSignals : t[field] => s[field]
  /\ \A field \in (DOMAIN s) \ (FaultSignals \cup {"ipv6_default_route_present"}) :
        s[field] => t[field]

\* Repairing things never moves the blame towards the user, and never spoils a
\* healthy verdict: the order of the rows (engine.py:236-238) is monotone.
RepairMovesBlameOutward ==
  [][NoWorse(snapshot, snapshot')
     => \/ Distance(diagnosis'.boundary) >= Distance(diagnosis.boundary)
              /\ (diagnosis.boundary = "healthy" => diagnosis'.boundary = "healthy")
        \/ diagnosis.boundary = "inconclusive"]_vars

\* A vantage only nudges: the boundary stays, no claim is withdrawn, a verdict
\* that blames anything nearer than the ISP, or nothing, is untouched, and confidence falls only when a target
\* reported down turns out to be reachable from elsewhere (engine.py:316-326).
VantageOnlyNudges ==
  [][refined' /\ ~refined =>
       /\ diagnosis'.boundary = diagnosis.boundary
       /\ diagnosis.claims \subseteq diagnosis'.claims
       /\ Distance(diagnosis.boundary) \notin 5..6 => diagnosis' = diagnosis
       /\ diagnosis'.confidence < diagnosis.confidence
            => /\ diagnosis.boundary = "remote-service"
               /\ "reachable_elsewhere" \in diagnosis'.claims]_vars
=============================================================================
