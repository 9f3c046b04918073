------------------------------ MODULE Network ------------------------------
(***************************************************************************)
(* The world the probes look at, which is no part of the program: a set of *)
(* faults somewhere between the device and the service, and what each      *)
(* probe can see under them.  A probe that may go either way yields a set  *)
(* of outcomes.                                                            *)
(***************************************************************************)
EXTENDS Probes

CONSTANT names     \* the hosts that are names, which ping must resolve first

ASSUME NetworkAssumption == names \subseteq STRING

Faults ==
  {"no_route",         \* no IPv4 default route
   "v6_only",          \* the same, but IPv6 works
   "route_hangs",      \* the route command fails, traffic flows
   "router_dead",      \* the router neither answers nor forwards
   "router_mute",      \* the router forwards but does not answer pings
   "icmp_blocked",     \* a firewall drops every ping
   "wan_dead",         \* the router answers, nothing beyond it does
   "upstream_lossy",   \* packets are lost beyond the router, on every path
   "resolver_dead",    \* names do not resolve
   "canary_dead",      \* one public host is down: the canary
   "target_dead",      \* the service is down
   "portal"}           \* HTTP is intercepted, pings may be filtered

Routed(faults)   == faults \cap {"no_route", "v6_only"} = {}
Forwards(faults) == Routed(faults) /\ "router_dead" \notin faults
Internet(faults) == Forwards(faults) /\ "wan_dead" \notin faults

RouteSeen(faults) ==
  IF "route_hangs" \in faults THEN "failed"
  ELSE IF Routed(faults) THEN "found" ELSE "none"

Route6Seen(faults) ==
  IF "v6_only" \in faults THEN "found"
  ELSE IF "route_hangs" \in faults THEN "failed" ELSE "none"

NoAnswer(n) == {Echoes(n, 0), TimedOut}

\* n echo requests to a host that is up.  Loss is three echoes in ten or six:
\* below and above the reachability threshold.  A portal may filter pings.
Carried(n, faults) ==
  (IF "icmp_blocked" \in faults THEN NoAnswer(n)
   ELSE IF "upstream_lossy" \in faults
   THEN {Echoes(n, (7 * n) \div 10), Echoes(n, (4 * n) \div 10)}
   ELSE {Echoes(n, n)})
  \cup (IF "portal" \in faults THEN {Echoes(n, 0)} ELSE {})

\* A gateway whose route is gone may still be a neighbour.
GatewayPings(faults) ==
  IF faults \cap {"router_dead", "router_mute", "icmp_blocked"} # {} THEN NoAnswer(4)
  ELSE {Echoes(4, 4)} \cup IF Routed(faults) THEN {} ELSE NoAnswer(4)

\* A resolver in the LAN may answer from its cache while the WAN is down, and
\* one reached over IPv6 while IPv4 is.
Resolutions(faults) ==
  IF "resolver_dead" \in faults THEN {FALSE}
  ELSE IF "v6_only" \in faults \/ (Forwards(faults) /\ ~Internet(faults))
       THEN BOOLEAN
  ELSE {Forwards(faults)}

\* n echo requests to a host out in the Internet.
RemotePings(host, n, faults) ==
  IF host \in names /\ Resolutions(faults) = {FALSE} THEN {Unparsed}
  ELSE IF ~Internet(faults) \/ (host = canary_ip /\ "canary_dead" \in faults)
       THEN NoAnswer(n)
  ELSE Carried(n, faults)

\* The target: a service reached by name or, if is_literal, by address.
TargetAnswers(method, is_literal, faults) ==
  LET reached == /\ Internet(faults)
                 /\ is_literal \/ Resolutions(faults) # {FALSE}
  IN  CASE method = "http" ->
             IF ~reached THEN {"no_answer"}
             ELSE IF "portal" \in faults THEN {"2xx", "3xx", "no_answer"}
             ELSE IF "target_dead" \in faults THEN {"5xx", "no_answer"}
             ELSE {"2xx"}
        [] method = "tcp" ->
             IF reached /\ "target_dead" \notin faults THEN {"connected"}
             ELSE {"refused"}
        [] method = "ping" ->
             IF ~reached \/ "target_dead" \in faults THEN NoAnswer(4)
             ELSE Carried(4, faults)

CaptiveAnswers(faults) ==
  IF Forwards(faults) /\ "portal" \in faults THEN {"2xx_body", "3xx"}
  ELSE IF Internet(faults) /\ Resolutions(faults) # {FALSE} THEN {"204"}
  ELSE {"no_answer"}
=============================================================================
