------------------------------- MODULE Probes -------------------------------
(***************************************************************************)
(* What each collector concludes from what its probe saw, and how one run's *)
(* slices become the engine's snapshot.                                     *)
(*                                                                          *)
(* A probe's raw output is abstracted to what the collectors distinguish: a *)
(* ping timed out, could not be parsed, or reported how many echoes came    *)
(* back; a route command failed, or found a default route or not; a fetch   *)
(* returned a class of HTTP status or nothing.                              *)
(***************************************************************************)
EXTENDS Engine, FiniteSets

CONSTANTS
  control_hosts,          \* sequence of hosts, duplicates allowed
  control_quorum,
  canary_ip,
  gateway_min_replies,
  ip_loss_pct, control_loss_pct, remote_loss_pct,
  captive_check_enabled   \* is captive_check_url non-empty?

Percent == 0..100

\* What _validate lets through: a configuration that breaks one of these stops
\* the program before any probe (only the fields the collectors read).
ValidConfig ==
  /\ control_hosts \in Seq(STRING)
  /\ control_quorum \in Nat /\ control_quorum >= 1
  /\ control_quorum <= Len(control_hosts)
  /\ gateway_min_replies \in Nat /\ gateway_min_replies >= 1
  /\ {ip_loss_pct, control_loss_pct, remote_loss_pct} \subseteq Percent
  /\ captive_check_enabled \in BOOLEAN

ASSUME ConfigAssumption == ValidConfig

-----------------------------------------------------------------------------
\* Ping: runner and parser

Ping(timed_out, parsed, sent, received, loss_pct) ==
  [timed_out |-> timed_out, parsed |-> parsed, sent |-> sent,
   received |-> received, loss_pct |-> loss_pct]

\* A statistics line; the loss is the one the line implies, 0 off zero probes.
Echoes(sent, received) ==
  Ping(FALSE, TRUE, sent, received,
       IF sent = 0 THEN 0 ELSE (100 * (sent - received)) \div sent)

\* No statistics line in the output: the fail-toward-fault fallback.
Unparsed == Ping(FALSE, FALSE, 0, 0, 100)

\* The subprocess was killed: there is no output to parse, and every collector
\* reports the host as lost without calling the parser.
TimedOut == Ping(TRUE, FALSE, 0, 0, 100)

-----------------------------------------------------------------------------
\* The collectors

\* Mutant: a gateway that does not answer is reported as none.
collect_gateway_forgets(route, ping) ==
  LET answered == route = "found" /\ ~ping.timed_out
                    /\ ping.received >= gateway_min_replies
  IN  [reachable |-> answered, gateway_ip |-> answered]

collect_gateway(route, ping) ==
  [reachable |-> /\ route = "found"
                 /\ ~ping.timed_out /\ ping.parsed
                 /\ ping.received >= gateway_min_replies,
   gateway_ip |-> route = "found"]

\* Asked only when no IPv4 gateway was found.
collect_ipv6_route(gateway, route6) ==
  [present |-> ~gateway.gateway_ip /\ route6 = "found"]

\* An IP literal is not looked up.
collect_dns(is_literal, resolves) == [ok |-> is_literal \/ resolves]

\* Shared by canary, control hosts and a pinged target: zero probes prove nothing.
Answered(ping, loss_pct_threshold) ==
  ~ping.timed_out /\ ping.sent > 0 /\ ping.loss_pct < loss_pct_threshold

collect_ip_connectivity(ping) ==
  [ok |-> ping.parsed /\ Answered(ping, ip_loss_pct), loss_pct |-> ping.loss_pct]

probe_one(host, ping) ==
  [host |-> host, reachable |-> Answered(ping, control_loss_pct),
   loss_pct |-> ping.loss_pct]

\* The key results are sorted by: where the host first occurs.
FirstIndex(host) ==
  CHOOSE i \in DOMAIN control_hosts :
    control_hosts[i] = host /\ \A j \in 1..(i - 1) : control_hosts[j] # host

\* Mutant: more than a quorum is asked for.
control_hosts_slice_strict(results) ==
  [results |-> results,
   all_ok |-> Cardinality({i \in DOMAIN results : results[i].reachable})
                > control_quorum]

\* all_ok asks for a quorum of reachable results.
control_hosts_slice(results) ==
  [results |-> results,
   all_ok |-> Cardinality({i \in DOMAIN results : results[i].reachable})
                >= control_quorum]

\* Mutant: any HTTP answer counts as up.
collect_target_service_any(method, answer) ==
  [ok |-> CASE method = "http" -> answer # "no_answer"
            [] method = "tcp"  -> answer = "connected"
            [] method = "ping" -> answer.received > 0]

\* A web target is judged by its status, another port by the TCP handshake, a
\* bare host by ping.
collect_target_service(method, answer) ==
  [ok |-> CASE method = "http" -> answer \in {"2xx", "3xx", "4xx"}
            [] method = "tcp"  -> answer = "connected"
            [] method = "ping" -> answer.parsed /\ Answered(answer, ip_loss_pct)]

\* Mutant: whatever is not the empty 204 is a portal.
collect_captive_portal_closed(answer) ==
  [portal_detected |-> answer \notin {"204", "disabled"}]

\* Only an answer that is not the empty 204 and not an error is a portal.
collect_captive_portal(answer) ==
  [portal_detected |-> answer \in {"2xx_body", "3xx"}]

-----------------------------------------------------------------------------
\* Normalizer and orchestrator

\* Destinations whose loss exceeds the threshold: position 0 is the canary.
LossyDestinations(canary_loss_pct, control_losses) ==
  {i \in 0..Len(control_losses) :
     (IF i = 0 THEN canary_loss_pct ELSE control_losses[i]) > remote_loss_pct}

\* Mutant: loss is charged to the path whether or not the gateway answers.
normalize_from_pings_ungated(gateway_reachable, canary_loss_pct, control_losses) ==
  LET lossy == LossyDestinations(canary_loss_pct, control_losses)
  IN  [packet_loss_after_hop1 |-> lossy # {},
       packet_loss_multiple_targets |-> Cardinality(lossy) >= 2]

normalize_from_pings(gateway_reachable, canary_loss_pct, control_losses) ==
  LET lossy == LossyDestinations(canary_loss_pct, control_losses)
      after_hop1 == gateway_reachable /\ lossy # {}
  IN  [packet_loss_after_hop1 |-> after_hop1,
       packet_loss_multiple_targets |-> after_hop1 /\ Cardinality(lossy) >= 2]

\* r: the slices of one run.
snapshot_of(r) ==
  LET loss == normalize_from_pings(
                r.gateway.reachable, r.ip.loss_pct,
                [i \in DOMAIN r.controls.results |-> r.controls.results[i].loss_pct])
  IN  [gateway_reachable |-> r.gateway.reachable,
       dns_ok |-> r.dns.ok,
       ip_connectivity_ok |-> r.ip.ok,
       control_hosts_ok |-> r.controls.all_ok,
       target_service_ok |-> r.target.ok,
       default_route_present |-> r.gateway.gateway_ip,
       packet_loss_after_hop1 |-> loss.packet_loss_after_hop1,
       packet_loss_multiple_targets |-> loss.packet_loss_multiple_targets,
       captive_portal_detected |-> r.captive.portal_detected,
       ipv6_default_route_present |-> r.ipv6_route.present]
=============================================================================
