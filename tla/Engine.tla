------------------------------- MODULE Engine -------------------------------
(***************************************************************************)
(* The classification engine: the ten signals of one run, the ordered      *)
(* decision table that turns them into a diagnosis, and the advisory       *)
(* refinement an external vantage may apply afterwards.                    *)
(*                                                                         *)
(* Everything here is a pure function of a snapshot.  Confidences are      *)
(* percentages (0.97 is 97).  A diagnosis carries the set of claims its    *)
(* evidence lines and its summary make, one token per claim: wording and   *)
(* remediation text are left out.                                          *)
(***************************************************************************)
EXTENDS Integers, Sequences

SignalSnapshot ==
  [gateway_reachable : BOOLEAN, dns_ok : BOOLEAN, ip_connectivity_ok : BOOLEAN,
   control_hosts_ok : BOOLEAN, target_service_ok : BOOLEAN,
   default_route_present : BOOLEAN, packet_loss_after_hop1 : BOOLEAN,
   packet_loss_multiple_targets : BOOLEAN, captive_portal_detected : BOOLEAN,
   ipv6_default_route_present : BOOLEAN]

\* Mutant: the raw ping, as the gateway rows once had it.
gateway_answered(s) == s.gateway_reachable

\* The derived signal the gateway rows key on, instead of the raw ping.
gateway_functional(s) ==
  s.gateway_reachable \/ s.ip_connectivity_ok \/ s.control_hosts_ok

\* getattr(signals, field), the derived property included
Attr(s, field) ==
  IF field = "gateway_functional" THEN gateway_functional(s) ELSE s[field]

\* What the collectors and the normalizer can produce.  A gateway answers only
\* if there is one, the IPv6 check runs only if there is none, loss is charged
\* beyond hop 1 only if the gateway answered, and many lossy targets are some.
Producible(s) ==
  /\ s.gateway_reachable => s.default_route_present
  /\ s.ipv6_default_route_present => ~s.default_route_present
  /\ s.packet_loss_after_hop1 => s.gateway_reachable
  /\ s.packet_loss_multiple_targets => s.packet_loss_after_hop1

Snapshots == {s \in SignalSnapshot : Producible(s)}

-----------------------------------------------------------------------------
\* The builders: what a selected row reports.

Diagnosis(boundary, confidence, claims) ==
  [boundary |-> boundary, confidence |-> confidence, claims |-> claims]

\* Mutant: claims an answer whether or not there was one.
gateway_evidence_ping(s) == "gateway_answers"

\* The gateway line of the rows that judge the gateway healthy: an answered
\* ping, or else forwarding proven by an external host.
gateway_evidence(s) ==
  IF s.gateway_reachable THEN "gateway_answers" ELSE "forwarding"

ipv6_only == Diagnosis("ipv6-only", 70, {"no_v4_route", "v6_route"})

local_device == Diagnosis("local-device", 97, {"no_v4_route"})

router_gateway ==
  Diagnosis("router-gateway", 99, {"gateway_silent", "external_failed"})

\* "gateway_reachable" is a fixed sentence of this row and of two more: the ping
\* is not asked.
captive_portal ==
  Diagnosis("captive-portal", 97, {"gateway_reachable", "forwarding", "portal_intercepts"})

wan_gateway(s) ==
  Diagnosis("wan-gateway", 94,
            {"gateway_reachable", gateway_evidence(s), "canary_failed", "dns_failed"})

dns(s) ==
  Diagnosis("dns", 96, {gateway_evidence(s), "canary_works", "dns_failed"})

isp_upstream(s) ==
  Diagnosis("isp-upstream", 93,
            {gateway_evidence(s), "dns_works", "gateway_answers",
             "two_destinations_lossy"})

remote_service ==
  Diagnosis("remote-service", 95, {"controls_work", "target_failed"})

healthy(s) ==
  Diagnosis("healthy", 90,
            {"gateway_reachable", gateway_evidence(s), "dns_works", "canary_works",
             "controls_work", "target_works", "no_loss"})

\* The catch-all repeats the raw signals and claims nothing beyond them.
inconclusive == Diagnosis("inconclusive", 50, {})

-----------------------------------------------------------------------------
\* The decision table, in evaluation order: the fields a row names and the
\* values they must have.

Row(boundary, match) == [boundary |-> boundary, match |-> match]

\* Mutant: the routes are looked at before asking whether traffic flows.
LAN_RULES_by_route ==
  << Row("ipv6-only",
         [default_route_present |-> FALSE, ipv6_default_route_present |-> TRUE]),
     Row("local-device", [default_route_present |-> FALSE]),
     Row("router-gateway", [gateway_functional |-> FALSE]) >>

LAN_RULES ==
  << Row("ipv6-only",
         [gateway_functional |-> FALSE, default_route_present |-> FALSE,
          ipv6_default_route_present |-> TRUE]),
     Row("local-device",
         [gateway_functional |-> FALSE, default_route_present |-> FALSE]),
     Row("router-gateway", [gateway_functional |-> FALSE]) >>

PORTAL_RULES ==
  << Row("captive-portal",
         [gateway_functional |-> TRUE, captive_portal_detected |-> TRUE]) >>

WAN_RULES ==
  << Row("wan-gateway",
         [gateway_functional |-> TRUE, ip_connectivity_ok |-> FALSE,
          dns_ok |-> FALSE]),
     Row("dns", [ip_connectivity_ok |-> TRUE, dns_ok |-> FALSE]) >>

UPSTREAM_RULES ==
  << Row("isp-upstream",
         [gateway_functional |-> TRUE, dns_ok |-> TRUE,
          packet_loss_after_hop1 |-> TRUE, packet_loss_multiple_targets |-> TRUE]) >>

SERVICE_RULES ==
  << Row("remote-service",
         [gateway_functional |-> TRUE, dns_ok |-> TRUE,
          control_hosts_ok |-> TRUE, target_service_ok |-> FALSE]) >>

VERDICT_RULES ==
  << Row("healthy",
         [gateway_functional |-> TRUE, dns_ok |-> TRUE, ip_connectivity_ok |-> TRUE,
          control_hosts_ok |-> TRUE, target_service_ok |-> TRUE,
          packet_loss_after_hop1 |-> FALSE, packet_loss_multiple_targets |-> FALSE]),
     Row("inconclusive", [field \in {} |-> TRUE]) >>

\* Mutant: the portal is looked at after the signals it fakes.
RULES_portal_late ==
  LAN_RULES \o WAN_RULES \o UPSTREAM_RULES \o SERVICE_RULES \o PORTAL_RULES
    \o VERDICT_RULES

\* Mutant: the service before the path to it.
RULES_service_first ==
  LAN_RULES \o PORTAL_RULES \o WAN_RULES \o SERVICE_RULES \o UPSTREAM_RULES
    \o VERDICT_RULES

RULES ==
  LAN_RULES \o PORTAL_RULES \o WAN_RULES \o UPSTREAM_RULES \o SERVICE_RULES
    \o VERDICT_RULES

BOUNDARIES == {RULES[i].boundary : i \in DOMAIN RULES}

\* A row fires when every field it names has the value it names.
matches(rule, s) ==
  \A field \in DOMAIN rule.match : Attr(s, field) = rule.match[field]

build(boundary, s) ==
  CASE boundary = "ipv6-only"      -> ipv6_only
    [] boundary = "local-device"   -> local_device
    [] boundary = "router-gateway" -> router_gateway
    [] boundary = "captive-portal" -> captive_portal
    [] boundary = "wan-gateway"    -> wan_gateway(s)
    [] boundary = "dns"            -> dns(s)
    [] boundary = "isp-upstream"   -> isp_upstream(s)
    [] boundary = "remote-service" -> remote_service
    [] boundary = "healthy"        -> healthy(s)
    [] boundary = "inconclusive"   -> inconclusive

\* Rows are tried top to bottom; the first that matches wins.
diagnose(s) ==
  LET winner == CHOOSE i \in DOMAIN RULES :
                   /\ matches(RULES[i], s)
                   /\ \A j \in 1..(i - 1) : ~matches(RULES[j], s)
  IN  build(RULES[winner].boundary, s)

-----------------------------------------------------------------------------
\* The external vantage: consulted or not, and what it answered.

Unconsulted == [consulted |-> FALSE, target_reachable_externally |-> FALSE]

VantageSlice ==
  {Unconsulted} \cup
  {[consulted |-> TRUE, target_reachable_externally |-> r] : r \in BOOLEAN}

\* Mutant: every verdict is refined.
VANTAGE_REFINABLE_all == BOUNDARIES

VANTAGE_REFINABLE == {"isp-upstream", "remote-service"}

AtMost(hi, x)  == IF x > hi THEN hi ELSE x
AtLeast(lo, x) == IF x < lo THEN lo ELSE x

\* The confidence and the claim a definite vantage answer leaves behind.
Refined(boundary, reachable, confidence) ==
  CASE boundary = "remote-service" /\ ~reachable ->
         [confidence |-> AtMost(99, confidence + 3), claim |-> "down_for_everyone"]
    [] boundary = "remote-service" /\ reachable ->
         [confidence |-> AtLeast(50, confidence - 15), claim |-> "reachable_elsewhere"]
    [] boundary # "remote-service" /\ reachable ->
         [confidence |-> AtMost(99, confidence + 4), claim |-> "reachable_elsewhere"]
    [] boundary # "remote-service" /\ ~reachable ->
         [confidence |-> confidence, claim |-> "wider_outage_possible"]

\* Mutant: a vantage that reaches the target overrules the verdict.
refine_flips(d, vantage) ==
  IF vantage.consulted /\ vantage.target_reachable_externally
       /\ d.boundary \in VANTAGE_REFINABLE
  THEN [d EXCEPT !.boundary = "healthy"] ELSE d

refine(d, vantage) ==
  IF vantage.consulted /\ d.boundary \in VANTAGE_REFINABLE
  THEN LET r == Refined(d.boundary, vantage.target_reachable_externally, d.confidence)
       IN  [d EXCEPT !.confidence = r.confidence, !.claims = @ \cup {r.claim}]
  ELSE d

\* The band a report leads with.
confidence_band(confidence) ==
  CASE confidence >= 97 -> "High"
    [] confidence >= 90 /\ confidence < 97 -> "Moderate"
    [] OTHER -> "Low"
=============================================================================
