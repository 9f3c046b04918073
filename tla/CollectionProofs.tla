-------------------------- MODULE CollectionProofs --------------------------
(***************************************************************************)
(* What Collection guarantees for every configuration, every set of jobs   *)
(* and every number of faults and changes: its slices keep their types, the *)
(* engine is never handed a snapshot whose signals contradict each other,  *)
(* and its verdict names what was wrong, blames nothing without a cause    *)
(* and hides nothing that its probes can see.                              *)
(***************************************************************************)
EXTENDS Collection, OperatorLemmas

(* The signals agree. *)

Slices == {"gateway", "ipv6_route", "dns", "ip", "controls", "target", "captive"}

\* The slices that the network signals come from agree with one another: only a
\* gateway that was found can have answered, and the IPv6 check, which comes
\* after the gateway's, finds a route only where that one found none.
SlicesAgree ==
  /\ result = [slice \in Slices |-> result[slice]]
  /\ result.gateway.reachable => result.gateway.gateway_ip
  /\ result.ipv6_route.present => ~result.gateway.gateway_ip
  /\ pc \in {"gateway", "gateway_ping"} => ~result.ipv6_route.present

\* Every snapshot of slices that agree is producible: the two loss signals
\* depend on the gateway's answer and on each other (normalizer.py:166-170).
LEMMA SnapshotOfAgreeing == SlicesAgree => Producible(snapshot)
BY DEF SlicesAgree, Producible, snapshot, snapshot_of, normalize_from_pings

\* No collector, no failure and no change of the network makes the slices
\* disagree (orchestrator.py:48-64).
LEMMA SlicesAgreeInductive ==
  ASSUME SlicesAgree, [CollectionNext \/ Finished]_collectionVars
  PROVE  SlicesAgree'
<1> USE DEF SlicesAgree, Slices
<1>1. CASE GatewayRoute
  BY <1>1 DEF GatewayRoute, Measured, collect_gateway
<1>1a. CASE GatewayPing
  <2>1. PICK ping \in GatewayPings(faults) :
          Measured("gateway", collect_gateway("found", ping), "dns")
    BY <1>1a DEF GatewayPing
  <2> DEFINE slice == collect_gateway("found", ping)
  <2>2. slice.reachable => slice.gateway_ip
    BY DEF collect_gateway
  <2>3. result' = [result EXCEPT !["gateway"] = slice] /\ pc' = "dns"
    BY <2>1 DEF Measured
  <2>4. ~result.ipv6_route.present
    BY <1>1a DEF GatewayPing
  <2> HIDE DEF slice
  <2>5. QED
    BY <2>2, <2>3, <2>4
<1>2. CASE Ipv6Route
  BY <1>2 DEF Ipv6Route, Measured, collect_ipv6_route
<1>3. CASE Dns
  BY <1>3 DEF Dns, Measured
<1>4. CASE IpConnectivity
  BY <1>4 DEF IpConnectivity, Measured
<1>5. CASE ControlHostsBegin \/ ControlHostPing \/ ControlHostsFail
  BY <1>5 DEF ControlHostsBegin, ControlHostPing, ControlHostsFail
<1>6. CASE ControlHostsReturn
  BY <1>6 DEF ControlHostsReturn, Measured
<1>7. CASE Target
  BY <1>7 DEF Target, Measured
<1>8. CASE Captive
  BY <1>8 DEF Captive, Measured
<1>9. CASE Path \/ CannotStart
  BY <1>9 DEF Path, CannotStart
<1>10. CASE Change
  BY <1>10 DEF Change
<1>11. CASE Finished \/ UNCHANGED collectionVars
  BY <1>11 DEF Finished, collectionVars
<1>12. QED
  BY <1>1, <1>1a, <1>2, <1>3, <1>4, <1>5, <1>6, <1>7, <1>8, <1>9, <1>10, <1>11
     DEF CollectionNext, Collect

\* However the network changes between the probes of a run, its snapshot is one
\* the engine's analysis covers (orchestrator.py:95-108).
THEOREM CollectionIsProducible == CollectionSpec => []SnapshotIsProducible
<1>1. CollectionInit => SlicesAgree
  BY DEF CollectionInit, SlicesAgree, Slices, Unmeasured
<1>2. SlicesAgree /\ [CollectionNext \/ Finished]_collectionVars => SlicesAgree'
  BY SlicesAgreeInductive
<1>3. SlicesAgree => SnapshotIsProducible
  BY SnapshotOfAgreeing DEF SnapshotIsProducible
<1>4. QED
  BY <1>1, <1>2, <1>3, PTL DEF CollectionSpec

-----------------------------------------------------------------------------
(* The types. *)

\* There are as many faults as there are, and no more.
LEMMA FaultsAreFinite == IsFiniteSet(Faults)
<1> DEFINE list == <<"no_route", "v6_only", "route_hangs", "router_dead", "router_mute",
                     "icmp_blocked", "wan_dead", "upstream_lossy", "resolver_dead",
                     "canary_dead", "target_dead", "portal">>
<1>1. list \in Seq(Faults)
  BY DEF Faults
<1>2. \A f \in Faults : \E n \in 1..Len(list) : list[n] = f
  BY DEF Faults
<1>3. QED
  BY <1>1, <1>2 DEF IsFiniteSet

\* Every slice says yes or no.
SlicesTyped ==
  /\ result = [slice \in Slices |-> result[slice]]
  /\ result.gateway \in [reachable : BOOLEAN, gateway_ip : BOOLEAN]
  /\ result.ipv6_route.present \in BOOLEAN
  /\ result.dns.ok \in BOOLEAN
  /\ result.ip.ok \in BOOLEAN
  /\ result.controls.all_ok \in BOOLEAN
  /\ result.target.ok \in BOOLEAN
  /\ result.captive.portal_detected \in BOOLEAN
  /\ controls.all_ok \in BOOLEAN

\* Such slices make a snapshot of ten signals (orchestrator.py:95-108).
LEMMA SnapshotIsTyped == SlicesTyped => snapshot \in SignalSnapshot
BY DEF SlicesTyped, snapshot, snapshot_of, normalize_from_pings, SignalSnapshot

\* The type invariant of a collection.
CollectionTyped == TypeOK /\ SlicesTyped

\* The slices a run starts from are typed.
LEMMA CollectionTypedInit == CollectionInit => CollectionTyped
<1> SUFFICES ASSUME CollectionInit PROVE CollectionTyped
  OBVIOUS
<1>1. troubles \in 0..MaxTroubles
  BY FaultsAreFinite, FS_Subset, FS_CardinalityType, CollectionAssumption
     DEF CollectionInit
<1>2. SlicesTyped
  BY DEF CollectionInit, SlicesTyped, Slices, Unmeasured,
         ControlHosts!ControlInit, ControlHosts!NoControls
<1>3. TypeOK
  BY <1>1 DEF CollectionInit, TypeOK, RunsCommand, ControlHosts!ControlInit
<1>4. QED
  BY <1>2, <1>3 DEF CollectionTyped

\* No collector leaves the types (orchestrator.py:36-108).
LEMMA CollectionTypedInductive ==
  ASSUME CollectionTyped, [CollectionNext \/ Finished]_collectionVars
  PROVE  CollectionTyped'
<1> USE CollectionAssumption DEF CollectionTyped, networkVars, controlVars
<1>1. SlicesTyped'
  <2> USE DEF SlicesTyped, Slices
  <2>1. CASE GatewayRoute
    <3>1. /\ UNCHANGED controls
          /\ \/ UNCHANGED result
             \/ result' = [result EXCEPT !["gateway"] =
                             collect_gateway(RouteSeen(faults), TimedOut)]
      BY <2>1 DEF GatewayRoute, Measured
    <3>2. collect_gateway(RouteSeen(faults), TimedOut)
            \in [reachable : BOOLEAN, gateway_ip : BOOLEAN]
      BY DEF collect_gateway
    <3>3. QED
      BY <3>1, <3>2
  <2>1a. CASE GatewayPing
    <3>1. PICK ping \in GatewayPings(faults) :
            Measured("gateway", collect_gateway("found", ping), "dns")
      BY <2>1a DEF GatewayPing
    <3> DEFINE slice == collect_gateway("found", ping)
    <3>2. slice \in [reachable : BOOLEAN, gateway_ip : BOOLEAN]
      BY DEF collect_gateway
    <3>3. result' = [result EXCEPT !["gateway"] = slice] /\ UNCHANGED controls
      BY <2>1a, <3>1 DEF GatewayPing, Measured
    <3> HIDE DEF slice
    <3>4. QED
      BY <3>2, <3>3
  <2>2. CASE Ipv6Route
    BY <2>2 DEF Ipv6Route, Measured, collect_ipv6_route
  <2>3. CASE Dns
    <3>1. PICK resolves : result' = [result EXCEPT !["dns"] =
                                       collect_dns(job.is_literal, resolves)]
      BY <2>3 DEF Dns, Measured
    <3>2. collect_dns(job.is_literal, resolves).ok \in BOOLEAN
      BY DEF collect_dns
    <3>3. QED
      BY <2>3, <3>1, <3>2 DEF Dns
  <2>4. CASE IpConnectivity
    <3>1. PICK ping : result' = [result EXCEPT !["ip"] = collect_ip_connectivity(ping)]
      BY <2>4 DEF IpConnectivity, Measured
    <3>2. collect_ip_connectivity(ping).ok \in BOOLEAN
      BY DEF collect_ip_connectivity
    <3>3. QED
      BY <2>4, <3>1, <3>2 DEF IpConnectivity
  <2>5. CASE ControlHostsBegin \/ ControlHostPing \/ ControlHostsFail
    BY <2>5 DEF ControlHostsBegin, ControlHostPing, ControlHostsFail,
                ControlHosts!Begin, ControlHosts!Measure, ControlHosts!Fail
  <2>6. CASE ControlHostsReturn
    <3>1. controls'.all_ok \in BOOLEAN
      BY <2>6 DEF ControlHostsReturn, ControlHosts!Return, ControlHosts!control_hosts_slice
    <3>2. result' = [result EXCEPT !["controls"] = controls']
      BY <2>6 DEF ControlHostsReturn, Measured
    <3>3. QED
      BY <3>1, <3>2
  <2>7. CASE Target
    <3>1. PICK answer : result' = [result EXCEPT !["target"] =
                                     collect_target_service(job.method, answer)]
      BY <2>7 DEF Target, Measured
    <3>2. job.method \in {"http", "tcp", "ping"}
      BY DEF TypeOK
    <3>3. collect_target_service(job.method, answer).ok \in BOOLEAN
      <4>1. CASE job.method = "http"
        BY <4>1 DEF collect_target_service
      <4>2. CASE job.method = "tcp"
        BY <4>2 DEF collect_target_service
      <4>3. CASE job.method = "ping"
        BY <4>3 DEF collect_target_service
      <4>4. QED
        BY <3>2, <4>1, <4>2, <4>3
    <3>4. QED
      BY <2>7, <3>1, <3>3 DEF Target
  <2>8. CASE Captive
    <3>1. PICK answer : result' = [result EXCEPT !["captive"] = collect_captive_portal(answer)]
      BY <2>8 DEF Captive, Measured
    <3>2. collect_captive_portal(answer).portal_detected \in BOOLEAN
      BY DEF collect_captive_portal
    <3>3. QED
      BY <2>8, <3>1, <3>2 DEF Captive
  <2>9. CASE Path \/ CannotStart \/ Change \/ Finished \/ UNCHANGED collectionVars
    BY <2>9 DEF Path, CannotStart, Change, Finished, collectionVars
  <2>10. QED
    BY <2>1, <2>1a, <2>2, <2>3, <2>4, <2>5, <2>6, <2>7, <2>8, <2>9
       DEF CollectionNext, Collect
<1>2. snapshot' \in SignalSnapshot
  BY <1>1 DEF SlicesTyped, snapshot, snapshot_of, normalize_from_pings, SignalSnapshot
<1>3. TypeOK'
  <2> USE <1>2 DEF TypeOK, RunsCommand
  <2>1. CASE GatewayRoute \/ GatewayPing \/ Ipv6Route
    BY <2>1 DEF GatewayRoute, GatewayPing, Ipv6Route, Measured
  <2>2. CASE Dns \/ IpConnectivity
    BY <2>2 DEF Dns, IpConnectivity, Measured
  <2>3. CASE ControlHostsBegin \/ ControlHostPing \/ ControlHostsFail
    BY <2>3 DEF ControlHostsBegin, ControlHostPing, ControlHostsFail,
                ControlHosts!Begin, ControlHosts!Measure, ControlHosts!Fail
  <2>4. CASE ControlHostsReturn
    <3>1. result'.controls = controls'
      BY <2>4 DEF ControlHostsReturn, Measured, SlicesTyped, Slices
    <3>2. QED
      BY <2>4, <3>1 DEF ControlHostsReturn, Measured, ControlHosts!Return
  <2>5. CASE Target
    <3>1. result'.controls = result.controls
      BY <2>5 DEF Target, Measured, SlicesTyped, Slices
    <3>2. QED
      BY <2>5, <3>1 DEF Target, Measured
  <2>6. CASE Captive
    <3>1. result'.controls = result.controls
      BY <2>6 DEF Captive, Measured, SlicesTyped, Slices
    <3>2. QED
      BY <2>6, <3>1 DEF Captive, Measured
  <2>7. CASE Path \/ CannotStart
    BY <2>7 DEF Path, CannotStart
  <2>8. CASE Change
    BY <2>8 DEF Change
  <2>9. CASE Finished \/ UNCHANGED collectionVars
    BY <2>9 DEF Finished, collectionVars
  <2>10. QED
    BY <2>1, <2>2, <2>3, <2>4, <2>5, <2>6, <2>7, <2>8, <2>9 DEF CollectionNext, Collect
<1>4. QED
  BY <1>1, <1>3

\* The variables of a collection keep their types, and from the target on the
\* slice on record is the one the control-host check returned
\* (orchestrator.py:36-108).
THEOREM CollectionTypeCorrect == CollectionSpec => []TypeOK
<1>1. CollectionTyped => TypeOK
  BY DEF CollectionTyped
<1>2. QED
  BY <1>1, CollectionTypedInit, CollectionTypedInductive, PTL DEF CollectionSpec

-----------------------------------------------------------------------------
(* What a collection knows of the network. *)

\* The states the network may have been in during this run: what was wrong at all
\* times was wrong, and what was wrong had been at some time.
Nets == {net \in SUBSET Faults : always \subseteq net /\ net \subseteq ever}

\* The collectors that are through (orchestrator.py:48-76).
PastCaptive  == pc \in {"path", "collected"}
PastTarget   == pc = "captive" \/ PastCaptive
PastControls == pc = "target" \/ PastTarget
PastIp       == pc = "controls" \/ PastControls
PastDns      == pc = "ip" \/ PastIp
PastRoute6   == pc = "dns" \/ PastDns
PastGateway  == pc = "ipv6_route" \/ PastRoute6

\* Each slice is what its probe could see of one such state, each its own; the
\* gateway's is about two, that of the route command and the later one of the ping.
RouteWasSeen == \E net \in Nets : RouteSeen(net) = "found"
GatewaySaw ==
  \E before, after \in Nets : \E ping \in GatewayPings(after) :
    result.gateway = collect_gateway(RouteSeen(before), ping)
Route6Saw ==
  ~result.gateway.gateway_ip =>
    \E net \in Nets : result.ipv6_route = collect_ipv6_route(result.gateway, Route6Seen(net))
DnsSaw ==
  \E net \in Nets : \E resolves \in Resolutions(net) :
    result.dns = collect_dns(job.is_literal, resolves)
IpSaw ==
  \E net \in Nets : \E ping \in RemotePings(canary_ip, 10, net) :
    result.ip = collect_ip_connectivity(ping)
TargetSaw ==
  \E net \in Nets : \E answer \in TargetAnswers(job.method, job.is_literal, net) :
    result.target = collect_target_service(job.method, answer)
CaptiveSaw ==
  \E net \in Nets :
    \E answer \in IF job.skip_captive \/ ~captive_check_enabled
                  THEN {"disabled"} ELSE CaptiveAnswers(net) :
      result.captive = collect_captive_portal(answer)

\* So does each ping of a control host; the results are about all of them.
PingSaw(i) ==
  \/ measured[i] \in {Pending, NoTool}
  \/ \E net \in Nets : measured[i] \in RemotePings(control_hosts[i], 10, net)
ControlsSaw ==
  /\ DOMAIN measured = ControlHosts!Positions
  /\ \A i \in ControlHosts!Positions : PingSaw(i)
  /\ phase = "returned" =>
       /\ ControlHosts!Settled /\ ~ControlHosts!SomeFailed
       /\ \E f \in ControlHosts!Arrangements :
            controls = ControlHosts!control_hosts_slice(ControlHosts!Results(measured, f))

Observed ==
  /\ pc = "gateway_ping" => RouteWasSeen
  /\ PastGateway => GatewaySaw
  /\ PastRoute6  => Route6Saw
  /\ PastDns     => DnsSaw
  /\ PastIp      => IpSaw
  /\ ControlsSaw
  /\ PastTarget  => TargetSaw
  /\ PastCaptive => CaptiveSaw

\* At the start nothing has been seen.
LEMMA ObservedInit == CollectionInit => Observed
BY DEF CollectionInit, Observed, PastGateway, PastRoute6, PastDns, PastIp, PastControls,
       PastTarget, PastCaptive, ControlsSaw, PingSaw, ControlHosts!ControlInit

\* The network of the moment is one of them, and none is ever ruled out.
LEMMA NetsGrow ==
  ASSUME TypeOK, [CollectionNext \/ Finished]_collectionVars
  PROVE  faults \in Nets /\ Nets \subseteq Nets'
<1>1. faults \in Nets
  BY DEF TypeOK, Nets
<1>2. always' \subseteq always /\ ever \subseteq ever'
  BY DEF CollectionNext, Collect, GatewayRoute, GatewayPing, Ipv6Route, Dns,
         IpConnectivity, ControlHostsBegin, ControlHostPing, ControlHostsReturn, ControlHostsFail, Target, Captive, Path,
         Measured, CannotStart, Change, Finished, collectionVars, networkVars
<1>3. QED
  BY <1>1, <1>2 DEF Nets

\* A step that takes no measurement takes nothing back.
LEMMA SlicesStay ==
  ASSUME Observed, Nets \subseteq Nets', UNCHANGED <<job, result>>
  PROVE  /\ pc = "gateway_ping" => RouteWasSeen'
         /\ PastGateway => GatewaySaw'
         /\ PastRoute6 => Route6Saw'
         /\ PastDns => DnsSaw'
         /\ PastIp => IpSaw'
         /\ PastTarget => TargetSaw'
         /\ PastCaptive => CaptiveSaw'
BY DEF Observed, RouteWasSeen, GatewaySaw, Route6Saw, DnsSaw, IpSaw, TargetSaw, CaptiveSaw

\* One that measures keeps the other slices.
LEMMA OthersStay ==
  ASSUME Observed, SlicesTyped, NEW slice \in Slices, NEW value, NEW next,
         Measured(slice, value, next)
  PROVE  /\ result'[slice] = value /\ pc' = next /\ Nets' = Nets
         /\ slice # "gateway" /\ PastGateway => GatewaySaw'
         /\ slice \notin {"gateway", "ipv6_route"} /\ PastRoute6 => Route6Saw'
         /\ slice # "dns" /\ PastDns => DnsSaw'
         /\ slice # "ip" /\ PastIp => IpSaw'
         /\ slice # "target" /\ PastTarget => TargetSaw'
         /\ slice # "captive" /\ PastCaptive => CaptiveSaw'
<1>1. /\ result'[slice] = value /\ pc' = next /\ UNCHANGED <<job, always, ever>>
      /\ \A other \in Slices \ {slice} : result'[other] = result[other]
  BY DEF Measured, SlicesTyped, networkVars
<1>2. Nets' = Nets
  BY <1>1 DEF Nets
<1>3. slice # "gateway" /\ PastGateway => GatewaySaw'
  BY <1>1, <1>2 DEF Observed, GatewaySaw, Slices
<1>4. slice \notin {"gateway", "ipv6_route"} /\ PastRoute6 => Route6Saw'
  BY <1>1, <1>2 DEF Observed, Route6Saw, Slices
<1>5. slice # "dns" /\ PastDns => DnsSaw'
  BY <1>1, <1>2 DEF Observed, DnsSaw, Slices
<1>6. slice # "ip" /\ PastIp => IpSaw'
  BY <1>1, <1>2 DEF Observed, IpSaw, Slices
<1>7. slice # "target" /\ PastTarget => TargetSaw'
  BY <1>1, <1>2 DEF Observed, TargetSaw, Slices
<1>8. slice # "captive" /\ PastCaptive => CaptiveSaw'
  BY <1>1, <1>2 DEF Observed, CaptiveSaw, Slices
<1>9. QED
  BY <1>1, <1>2, <1>3, <1>4, <1>5, <1>6, <1>7, <1>8

\* The check of the control hosts is untouched by the other collectors.
LEMMA ControlsStay ==
  ASSUME ControlsSaw, Nets \subseteq Nets', UNCHANGED controlVars
  PROVE  ControlsSaw'
<1>1. \A i \in ControlHosts!Positions : PingSaw(i)'
  BY DEF ControlsSaw, PingSaw, controlVars
<1>2. QED
  BY <1>1 DEF ControlsSaw, controlVars, ControlHosts!Settled, ControlHosts!SomeFailed

\* Every step leaves every slice the account of one state of the network, and the
\* gateway's of two (gateway.py:27-58, orchestrator.py:48-76, control_hosts.py:46-74).
LEMMA ObservedInductive ==
  ASSUME CollectionTyped, Observed, [CollectionNext \/ Finished]_collectionVars
  PROVE  Observed'
<1>0. faults \in Nets /\ Nets \subseteq Nets' /\ SlicesTyped /\ ControlsSaw
  BY NetsGrow DEF CollectionTyped, Observed
<1> USE <1>0 DEF PastGateway, PastRoute6, PastDns, PastIp, PastControls, PastTarget, PastCaptive
<1>1. CASE GatewayRoute
  <2>1. ControlsSaw'
    BY <1>1, ControlsStay DEF GatewayRoute
  <2>2. CASE RouteSeen(faults) = "found"
    <3>1. pc' = "gateway_ping" /\ RouteWasSeen'
      BY <1>1, <2>2 DEF GatewayRoute, RouteWasSeen
    <3>2. QED
      BY <2>1, <3>1 DEF Observed
  <2>3. CASE RouteSeen(faults) # "found"
    <3>1. Measured("gateway", collect_gateway(RouteSeen(faults), TimedOut), "ipv6_route")
      BY <1>1, <2>3 DEF GatewayRoute
    <3>2. /\ result'.gateway = collect_gateway(RouteSeen(faults), TimedOut)
          /\ Nets' = Nets /\ pc' = "ipv6_route"
      BY <3>1, OthersStay DEF Slices
    <3>3. PICK ping : ping \in GatewayPings(faults)
      BY DEF GatewayPings, NoAnswer
    <3>4. collect_gateway(RouteSeen(faults), TimedOut)
            = collect_gateway(RouteSeen(faults), ping)
      BY <2>3 DEF collect_gateway
    <3>5. GatewaySaw'
      BY <3>2, <3>3, <3>4 DEF GatewaySaw
    <3>6. QED
      BY <2>1, <3>2, <3>5 DEF Observed
  <2>4. QED
    BY <2>2, <2>3
<1>1a. CASE GatewayPing
  <2>1. PICK ping \in GatewayPings(faults) :
          Measured("gateway", collect_gateway("found", ping), "dns")
    BY <1>1a DEF GatewayPing
  <2>2. result'.gateway = collect_gateway("found", ping) /\ Nets' = Nets /\ pc' = "dns"
    BY <2>1, OthersStay DEF Slices
  <2>3. GatewaySaw'
    BY <1>1a, <2>2 DEF GatewayPing, Observed, RouteWasSeen, GatewaySaw
  <2>4. Route6Saw'
    <3>1. collect_gateway("found", ping).gateway_ip
      BY DEF collect_gateway
    <3>2. QED
      BY <2>2, <3>1 DEF Route6Saw
  <2>5. ControlsSaw'
    BY <1>1a, ControlsStay DEF GatewayPing
  <2>6. QED
    BY <2>2, <2>3, <2>4, <2>5 DEF Observed
<1>2. CASE Ipv6Route
  <2> DEFINE slice == collect_ipv6_route(result.gateway, Route6Seen(faults))
  <2>1. Measured("ipv6_route", slice, "dns") /\ pc = "ipv6_route"
    BY <1>2 DEF Ipv6Route
  <2>2. result'.ipv6_route = slice /\ pc' = "dns" /\ Nets' = Nets /\ GatewaySaw'
    BY <2>1, OthersStay DEF Slices
  <2>3. result'.gateway = result.gateway
    BY <2>1 DEF Measured, SlicesTyped, Slices
  <2>4. Route6Saw'
    BY <2>2, <2>3 DEF Route6Saw
  <2>5. ControlsSaw'
    BY <1>2, ControlsStay DEF Ipv6Route
  <2>6. QED
    BY <2>2, <2>4, <2>5 DEF Observed
<1>3. CASE Dns
  <2>1. PICK resolves \in Resolutions(faults) :
          Measured("dns", collect_dns(job.is_literal, resolves), "ip")
    BY <1>3 DEF Dns
  <2>2. /\ result'.dns = collect_dns(job.is_literal, resolves) /\ pc' = "ip" /\ Nets' = Nets
        /\ GatewaySaw' /\ Route6Saw'
    BY <1>3, <2>1, OthersStay DEF Slices, Dns
  <2>3. DnsSaw'
    BY <2>1, <2>2 DEF DnsSaw, Measured
  <2>4. ControlsSaw'
    BY <1>3, ControlsStay DEF Dns
  <2>5. QED
    BY <2>2, <2>3, <2>4 DEF Observed
<1>4. CASE IpConnectivity
  <2>1. PICK ping \in RemotePings(canary_ip, 10, faults) :
          Measured("ip", collect_ip_connectivity(ping), "controls")
    BY <1>4 DEF IpConnectivity
  <2>2. /\ result'.ip = collect_ip_connectivity(ping) /\ pc' = "controls" /\ Nets' = Nets
        /\ GatewaySaw' /\ Route6Saw' /\ DnsSaw'
    BY <1>4, <2>1, OthersStay DEF Slices, IpConnectivity
  <2>3. IpSaw'
    BY <2>1, <2>2 DEF IpSaw
  <2>4. ControlsSaw'
    BY <1>4, ControlsStay DEF IpConnectivity
  <2>5. QED
    BY <2>2, <2>3, <2>4 DEF Observed
<1>5. CASE ControlHostsBegin
  <2>1. ControlsSaw'
    <3>1. \A i \in ControlHosts!Positions : PingSaw(i)'
      BY <1>5 DEF ControlsSaw, PingSaw, ControlHostsBegin, ControlHosts!Begin
    <3>2. QED
      BY <1>5, <3>1 DEF ControlsSaw, ControlHostsBegin, ControlHosts!Begin
  <2>2. QED
    BY <1>5, <2>1, SlicesStay DEF ControlHostsBegin, Observed
<1>6. CASE ControlHostPing
  <2>1. PICK i \in ControlHosts!Positions :
          \E outcome \in RemotePings(control_hosts[i], 10, faults) \cup {NoTool} :
            ControlHosts!Measure(i, outcome)
    BY <1>6 DEF ControlHostPing
  <2>2. PICK outcome \in RemotePings(control_hosts[i], 10, faults) \cup {NoTool} :
          ControlHosts!Measure(i, outcome)
    BY <2>1
  <2>3. /\ phase # "returned" /\ phase' = phase
        /\ measured' = [measured EXCEPT ![i] = outcome]
    BY <2>2 DEF ControlHosts!Measure
  <2>4. \A j \in ControlHosts!Positions : PingSaw(j)'
    BY <2>2, <2>3 DEF ControlsSaw, PingSaw
  <2>5. ControlsSaw'
    BY <2>3, <2>4 DEF ControlsSaw
  <2>6. QED
    BY <1>6, <2>5, SlicesStay DEF ControlHostPing, Observed
<1>7. CASE ControlHostsReturn
  <2>1. Measured("controls", controls', "target") /\ pc = "controls" /\ ControlHosts!Return
    BY <1>7 DEF ControlHostsReturn
  <2>2. /\ pc' = "target" /\ Nets' = Nets
        /\ GatewaySaw' /\ Route6Saw' /\ DnsSaw' /\ IpSaw'
    BY <2>1, OthersStay DEF Slices
  <2>3. \A i \in ControlHosts!Positions : PingSaw(i)'
    BY <2>1, <2>2 DEF ControlsSaw, PingSaw, ControlHosts!Return
  <2>4. /\ measured' = measured /\ ControlHosts!Settled /\ ~ControlHosts!SomeFailed
        /\ \E f \in ControlHosts!Arrangements :
             controls' = ControlHosts!control_hosts_slice(ControlHosts!Results(measured, f))
    <3>1. measured' = measured /\ ControlHosts!Settled /\ ~ControlHosts!SomeFailed
      BY <2>1 DEF ControlHosts!Return
    <3>2. \E f \in ControlHosts!Arrangements :
            controls' = ControlHosts!control_hosts_slice(ControlHosts!Results(measured, f))
      BY <2>1 DEF ControlHosts!Return
    <3>3. QED
      BY <3>1, <3>2
  <2>5. ControlHosts!Settled' /\ ~ControlHosts!SomeFailed'
    BY <2>4 DEF ControlHosts!Settled, ControlHosts!SomeFailed
  <2>6. ControlsSaw'
    BY <2>3, <2>4, <2>5 DEF ControlsSaw
  <2>7. QED
    BY <2>2, <2>6 DEF Observed
<1>8. CASE Target
  <2>1. PICK answer \in TargetAnswers(job.method, job.is_literal, faults) :
          Measured("target", collect_target_service(job.method, answer), "captive")
    BY <1>8 DEF Target
  <2>2. /\ result'.target = collect_target_service(job.method, answer)
        /\ pc' = "captive" /\ Nets' = Nets
        /\ GatewaySaw' /\ Route6Saw' /\ DnsSaw' /\ IpSaw'
    BY <1>8, <2>1, OthersStay DEF Slices, Target
  <2>3. TargetSaw'
    BY <2>1, <2>2 DEF TargetSaw, Measured
  <2>4. ControlsSaw'
    BY <1>8, ControlsStay DEF Target
  <2>5. QED
    BY <2>2, <2>3, <2>4 DEF Observed
<1>9. CASE Captive
  <2>1. PICK answer \in IF job.skip_captive \/ ~captive_check_enabled
                        THEN {"disabled"} ELSE CaptiveAnswers(faults) :
          Measured("captive", collect_captive_portal(answer),
                   IF job.skip_path THEN "collected" ELSE "path")
    BY <1>9 DEF Captive
  <2>2. /\ result'.captive = collect_captive_portal(answer)
        /\ pc' \in {"path", "collected"} /\ Nets' = Nets
        /\ GatewaySaw' /\ Route6Saw' /\ DnsSaw' /\ IpSaw' /\ TargetSaw'
    BY <1>9, <2>1, OthersStay DEF Slices, Captive
  <2>3. CaptiveSaw'
    BY <2>1, <2>2 DEF CaptiveSaw, Measured
  <2>4. ControlsSaw'
    BY <1>9, ControlsStay DEF Captive
  <2>5. QED
    BY <2>2, <2>3, <2>4 DEF Observed
<1>10. CASE Path
  BY <1>10, SlicesStay, ControlsStay DEF Path, Observed
<1>11. CASE ControlHostsFail
  <2>1. UNCHANGED <<measured, controls>> /\ phase' = "raised" /\ pc' = "raised"
    BY <1>11 DEF ControlHostsFail, ControlHosts!Fail
  <2>2. \A i \in ControlHosts!Positions : PingSaw(i)'
    BY <2>1 DEF ControlsSaw, PingSaw
  <2>3. QED
    BY <2>1, <2>2 DEF ControlsSaw, Observed
<1>12. CASE CannotStart
  BY <1>12, ControlsStay DEF CannotStart, Observed
<1>13. CASE Change
  BY <1>13, SlicesStay, ControlsStay DEF Change, Observed
<1>14. CASE Finished \/ UNCHANGED collectionVars
  BY <1>14, SlicesStay, ControlsStay DEF Finished, collectionVars, controlVars, Observed
<1>15. QED
  BY <1>1, <1>1a, <1>2, <1>3, <1>4, <1>5, <1>6, <1>7, <1>8, <1>9, <1>10, <1>11, <1>12,
     <1>13, <1>14 DEF CollectionNext, Collect

-----------------------------------------------------------------------------
(* What each slice tells of the network. *)

Unresolved(host, net) == host \in names /\ Resolutions(net) = {FALSE}
IsDeadCanary(host, net) == host = canary_ip /\ "canary_dead" \in net

\* What a share of lost echoes says of the state in which they were lost.
LossTells(host, net, pct) ==
  /\ pct \in {0, 30, 60, 100}
  /\ pct < 100 => /\ Internet(net) /\ "icmp_blocked" \notin net
                  /\ ~IsDeadCanary(host, net) /\ ~Unresolved(host, net)
  /\ pct < 30 => "upstream_lossy" \notin net
  /\ pct > 0 => \/ ~Internet(net) \/ IsDeadCanary(host, net) \/ Unresolved(host, net)
                \/ "icmp_blocked" \in net \/ "upstream_lossy" \in net \/ "portal" \in net

\* A ping to a host out in the Internet loses all, six, three or none of ten echoes.
LEMMA RemotePing ==
  ASSUME NEW net \in SUBSET Faults, NEW host, NEW ping \in RemotePings(host, 10, net)
  PROVE  /\ LossTells(host, net, ping.loss_pct)
         /\ ping.loss_pct < 100 => ping.parsed /\ ~ping.timed_out /\ ping.sent > 0
<1>1. /\ Unparsed.loss_pct = 100 /\ TimedOut.loss_pct = 100
      /\ Echoes(10, 0).loss_pct = 100
      /\ Echoes(10, 4).loss_pct = 60 /\ Echoes(10, 7).loss_pct = 30
      /\ Echoes(10, 10).loss_pct = 0
  BY DEF Unparsed, TimedOut, Echoes, Ping
<1>2. \A n \in {0, 4, 7, 10} : /\ Echoes(10, n).parsed /\ ~Echoes(10, n).timed_out
                               /\ Echoes(10, n).sent > 0
  BY DEF Echoes, Ping
<1>3. (7 * 10) \div 10 = 7 /\ (4 * 10) \div 10 = 4
  OBVIOUS
<1>4. CASE Unresolved(host, net)
  BY <1>1, <1>4 DEF RemotePings, Unresolved, LossTells
<1>5. CASE ~Unresolved(host, net) /\ (~Internet(net) \/ IsDeadCanary(host, net))
  <2>1. ping \in {Echoes(10, 0), TimedOut}
    BY <1>5 DEF RemotePings, NoAnswer, Unresolved, IsDeadCanary
  <2>2. QED
    BY <1>1, <1>5, <2>1 DEF LossTells
<1>6. CASE ~Unresolved(host, net) /\ Internet(net) /\ ~IsDeadCanary(host, net)
  <2>1. ping \in Carried(10, net)
    BY <1>6 DEF RemotePings, Unresolved, IsDeadCanary
  <2>2. CASE "icmp_blocked" \in net
    <3>1. ping \in {Echoes(10, 0), TimedOut}
      BY <2>1, <2>2 DEF Carried, NoAnswer
    <3>2. QED
      BY <1>1, <2>2, <3>1 DEF LossTells
  <2>3. CASE "icmp_blocked" \notin net /\ "upstream_lossy" \in net
    <3>1. ping \in {Echoes(10, 7), Echoes(10, 4), Echoes(10, 0)}
      BY <1>3, <2>1, <2>3 DEF Carried
    <3>2. QED
      BY <1>1, <1>2, <1>6, <2>3, <3>1 DEF LossTells
  <2>4. CASE "icmp_blocked" \notin net /\ "upstream_lossy" \notin net
    <3>1. \/ ping = Echoes(10, 10)
          \/ ping = Echoes(10, 0) /\ "portal" \in net
      BY <2>1, <2>4 DEF Carried
    <3>2. QED
      BY <1>1, <1>2, <1>6, <2>4, <3>1 DEF LossTells
  <2>5. QED
    BY <2>2, <2>3, <2>4
<1>7. QED
  BY <1>4, <1>5, <1>6

\* Thresholds that can tell an answer from none: four echoes from the gateway are
\* enough, a ping without loss is one, and loss of three echoes in ten is loss.
Discerning ==
  /\ gateway_min_replies <= 4
  /\ ip_loss_pct > 0 /\ control_loss_pct > 0
  /\ remote_loss_pct < 30

\* What keeps a gateway that has a route to it from answering pings.
Silencing == {"router_dead", "router_mute", "icmp_blocked"}

\* The route command tells of the route before, the ping of what came after: a
\* gateway that answers is there and lets pings through, and one that was named and
\* keeps silent does not, or is not routed to any more (gateway.py:27-58).
LEMMA GatewayTells ==
  ASSUME GatewaySaw
  PROVE  \E before, after \in Nets :
           /\ result.gateway.gateway_ip <=> Routed(before) /\ "route_hangs" \notin before
           /\ result.gateway.reachable => result.gateway.gateway_ip
           /\ result.gateway.reachable => after \cap Silencing = {}
           /\ Discerning /\ result.gateway.gateway_ip /\ ~result.gateway.reachable =>
                after \cap Silencing # {} \/ ~Routed(after)
<1>1. PICK before, after \in Nets : \E ping \in GatewayPings(after) :
        result.gateway = collect_gateway(RouteSeen(before), ping)
  BY DEF GatewaySaw
<1>2. PICK ping \in GatewayPings(after) :
        result.gateway = collect_gateway(RouteSeen(before), ping)
  BY <1>1
<1> DEFINE enough == ping.received >= gateway_min_replies
<1>3. /\ result.gateway.gateway_ip = (RouteSeen(before) = "found")
      /\ result.gateway.reachable = (/\ RouteSeen(before) = "found"
                                     /\ ~ping.timed_out /\ ping.parsed /\ enough)
  BY <1>2 DEF collect_gateway
<1>4. RouteSeen(before) = "found" <=> Routed(before) /\ "route_hangs" \notin before
  BY DEF RouteSeen
<1>5. gateway_min_replies \in Nat /\ gateway_min_replies >= 1
  BY ConfigAssumption DEF ValidConfig
<1>6. CASE after \cap Silencing # {}
  <2>1. ping.received = 0
    BY <1>6 DEF GatewayPings, Silencing, NoAnswer, Echoes, TimedOut, Ping
  <2>2. ~enough
    BY <1>5, <2>1
  <2> HIDE DEF enough
  <2>3. QED
    BY <1>3, <1>4, <1>6, <2>2
<1>7. CASE after \cap Silencing = {} /\ Routed(after)
  <2>1. ping.received = 4 /\ ~ping.timed_out /\ ping.parsed
    BY <1>7 DEF GatewayPings, Silencing, Echoes, Ping
  <2>2. Discerning => enough
    BY <1>5, <2>1 DEF Discerning
  <2> HIDE DEF enough
  <2>3. QED
    BY <1>3, <1>4, <1>7, <2>1, <2>2
<1>8. CASE after \cap Silencing = {} /\ ~Routed(after)
  <2> HIDE DEF enough
  <2>1. QED
    BY <1>3, <1>4, <1>8
<1>9. QED
  BY <1>6, <1>7, <1>8

\* The IPv6 route is looked for where there is no gateway (ipv6_route.py:22-45).
LEMMA Route6Tells ==
  ASSUME Route6Saw, ~result.gateway.gateway_ip
  PROVE  \E net \in Nets : result.ipv6_route.present <=> "v6_only" \in net
<1>1. PICK net \in Nets :
        result.ipv6_route = collect_ipv6_route(result.gateway, Route6Seen(net))
  BY DEF Route6Saw
<1>2. result.ipv6_route.present = (~result.gateway.gateway_ip /\ Route6Seen(net) = "found")
  BY <1>1 DEF collect_ipv6_route
<1>3. Route6Seen(net) = "found" <=> "v6_only" \in net
  BY DEF Route6Seen
<1>4. QED
  BY <1>2, <1>3

\* A name resolves while a resolver is reached, and an address needs none
\* (dns.py:8-22).
LEMMA DnsTells ==
  ASSUME DnsSaw
  PROVE  \E net \in Nets :
           /\ job.is_literal => result.dns.ok
           /\ result.dns.ok /\ ~job.is_literal =>
                "resolver_dead" \notin net /\ ("v6_only" \in net \/ Forwards(net))
           /\ ~result.dns.ok => "resolver_dead" \in net \/ ~Internet(net)
<1>1. PICK net \in Nets : \E resolves \in Resolutions(net) :
        result.dns = collect_dns(job.is_literal, resolves)
  BY DEF DnsSaw
<1>2. PICK resolves \in Resolutions(net) :
        result.dns = collect_dns(job.is_literal, resolves)
  BY <1>1
<1>3. result.dns.ok = (job.is_literal \/ resolves)
  BY <1>2 DEF collect_dns
<1>4. /\ resolves => "resolver_dead" \notin net /\ ("v6_only" \in net \/ Forwards(net))
      /\ ~resolves => "resolver_dead" \in net \/ ~Internet(net)
  BY DEF Resolutions, Internet, Forwards, Routed
<1>5. QED
  BY <1>3, <1>4

\* Resolution fails only where the resolver is dead or out of reach, and always
\* where it is dead.
LEMMA ResolutionTells ==
  ASSUME NEW net
  PROVE  /\ Resolutions(net) = {FALSE} => "resolver_dead" \in net \/ ~Forwards(net)
         /\ "resolver_dead" \in net => Resolutions(net) = {FALSE}
         /\ Internet(net) /\ Resolutions(net) = {FALSE} => "resolver_dead" \in net
BY DEF Resolutions, Internet, Forwards, Routed

\* The canary answered a share of its echoes (ip_connectivity.py:13-40).
LEMMA IpTells ==
  ASSUME IpSaw
  PROVE  \E net \in Nets :
           /\ LossTells(canary_ip, net, result.ip.loss_pct)
           /\ result.ip.ok => result.ip.loss_pct < 100
           /\ Discerning /\ result.ip.loss_pct = 0 => result.ip.ok
<1>1. PICK net \in Nets : \E ping \in RemotePings(canary_ip, 10, net) :
        result.ip = collect_ip_connectivity(ping)
  BY DEF IpSaw
<1>2. PICK ping \in RemotePings(canary_ip, 10, net) :
        result.ip = collect_ip_connectivity(ping)
  BY <1>1
<1>3. /\ LossTells(canary_ip, net, ping.loss_pct)
      /\ ping.loss_pct < 100 => ping.parsed /\ ~ping.timed_out /\ ping.sent > 0
  BY RemotePing DEF Nets
<1>4. ip_loss_pct \in 0..100
  BY ConfigAssumption DEF ValidConfig, Percent
<1>5. /\ result.ip.loss_pct = ping.loss_pct
      /\ result.ip.ok = (ping.parsed /\ Answered(ping, ip_loss_pct))
  BY <1>2 DEF collect_ip_connectivity
<1>6. /\ Answered(ping, ip_loss_pct) => ping.loss_pct < 100
      /\ Discerning /\ ping.loss_pct = 0 => ping.parsed /\ Answered(ping, ip_loss_pct)
  BY <1>3, <1>4 DEF Answered, LossTells, Discerning
<1>7. QED
  BY <1>3, <1>5, <1>6

\* Some answer of the target's means that it was reached, and a portal may have
\* given it (target_service.py:17-81).
LEMMA TargetTells ==
  ASSUME TargetSaw, TypeOK
  PROVE  \E net \in Nets :
           /\ result.target.ok =>
                /\ Internet(net)
                /\ job.is_literal \/ "resolver_dead" \notin net
                /\ "target_dead" \notin net \/ (job.method = "http" /\ "portal" \in net)
           /\ Discerning /\ ~result.target.ok =>
                \/ ~Internet(net)
                \/ ~job.is_literal /\ "resolver_dead" \in net
                \/ "target_dead" \in net \/ "portal" \in net
                \/ job.method = "ping" /\ ("icmp_blocked" \in net \/ "upstream_lossy" \in net)
<1>1. PICK net \in Nets : \E answer \in TargetAnswers(job.method, job.is_literal, net) :
        result.target = collect_target_service(job.method, answer)
  BY DEF TargetSaw
<1>2. PICK answer \in TargetAnswers(job.method, job.is_literal, net) :
        result.target = collect_target_service(job.method, answer)
  BY <1>1
<1> DEFINE reached == Internet(net) /\ (job.is_literal \/ Resolutions(net) # {FALSE})
<1>3. reached <=> Internet(net) /\ (job.is_literal \/ "resolver_dead" \notin net)
  BY ResolutionTells
<1>4. job.method \in {"http", "tcp", "ping"}
  BY CollectionAssumption DEF TypeOK
<1>5. CASE job.method = "http"
  <2>1. result.target.ok = (answer \in {"2xx", "3xx", "4xx"})
    BY <1>2, <1>5 DEF collect_target_service
  <2>2. /\ ~reached => answer = "no_answer"
        /\ reached /\ "portal" \notin net /\ "target_dead" \in net =>
             answer \in {"5xx", "no_answer"}
        /\ reached /\ "portal" \notin net /\ "target_dead" \notin net => answer = "2xx"
    BY <1>5 DEF TargetAnswers
  <2> HIDE DEF reached
  <2>3. QED
    BY <1>3, <1>5, <2>1, <2>2
<1>6. CASE job.method = "tcp"
  <2>1. result.target.ok = (answer = "connected")
    BY <1>2, <1>6 DEF collect_target_service
  <2>2. answer = IF reached /\ "target_dead" \notin net THEN "connected" ELSE "refused"
    BY <1>6 DEF TargetAnswers
  <2>3. QED
    BY <1>3, <1>6, <2>1, <2>2
<1>7. CASE job.method = "ping"
  <2>1. result.target.ok = (answer.parsed /\ Answered(answer, ip_loss_pct))
    BY <1>2, <1>7 DEF collect_target_service
  <2>2. ip_loss_pct \in 0..100
    BY ConfigAssumption DEF ValidConfig, Percent
  <2>3. Echoes(4, 0).loss_pct = 100 /\ TimedOut.timed_out
    BY DEF Echoes, TimedOut, Ping
  <2>4. CASE ~reached \/ "target_dead" \in net
    <3>1. answer \in {Echoes(4, 0), TimedOut}
      BY <1>7, <2>4 DEF TargetAnswers, NoAnswer
    <3>2. ~Answered(answer, ip_loss_pct)
      BY <2>2, <2>3, <3>1 DEF Answered
    <3>3. ~result.target.ok
      BY <2>1, <3>2
    <3>4. QED
      BY <1>3, <2>4, <3>3
  <2>5. CASE reached /\ "target_dead" \notin net /\
             ("icmp_blocked" \in net \/ "upstream_lossy" \in net \/ "portal" \in net)
    BY <1>3, <1>7, <2>5
  <2>6. CASE reached /\ net \cap {"target_dead", "icmp_blocked", "upstream_lossy", "portal"} = {}
    <3>1. answer = Echoes(4, 4)
      BY <1>7, <2>6 DEF TargetAnswers, Carried
    <3>2. Echoes(4, 4).loss_pct = 0 /\ Echoes(4, 4).parsed /\ ~Echoes(4, 4).timed_out
            /\ Echoes(4, 4).sent = 4
      BY DEF Echoes, Ping
    <3>3. Discerning => answer.parsed /\ Answered(answer, ip_loss_pct)
      BY <2>2, <3>1, <3>2 DEF Answered, Discerning
    <3>4. Discerning => result.target.ok
      BY <2>1, <3>3
    <3>5. QED
      BY <1>3, <2>6, <3>4
  <2>7. QED
    BY <2>4, <2>5, <2>6
<1>8. QED
  BY <1>4, <1>5, <1>6, <1>7

\* A portal is found where it intercepts, if it is looked for
\* (captive_portal.py:34-80).
LEMMA CaptiveTells ==
  ASSUME CaptiveSaw
  PROVE  \E net \in Nets :
           /\ result.captive.portal_detected => "portal" \in net
           /\ "portal" \in net /\ Forwards(net) /\ ~PortalNotLookedFor =>
                result.captive.portal_detected
           /\ PortalNotLookedFor => ~result.captive.portal_detected
<1>1. PICK net \in Nets :
        \E answer \in IF job.skip_captive \/ ~captive_check_enabled
                      THEN {"disabled"} ELSE CaptiveAnswers(net) :
          result.captive = collect_captive_portal(answer)
  BY DEF CaptiveSaw
<1>2. PICK answer \in IF job.skip_captive \/ ~captive_check_enabled
                      THEN {"disabled"} ELSE CaptiveAnswers(net) :
        result.captive = collect_captive_portal(answer)
  BY <1>1
<1>3. result.captive.portal_detected = (answer \in {"2xx_body", "3xx"})
  BY <1>2 DEF collect_captive_portal
<1>4. /\ answer \in {"2xx_body", "3xx"} => "portal" \in net
      /\ "portal" \in net /\ Forwards(net) /\ ~PortalNotLookedFor =>
           answer \in {"2xx_body", "3xx"}
      /\ PortalNotLookedFor => answer = "disabled"
  BY <1>2 DEF CaptiveAnswers, PortalNotLookedFor
<1>5. QED
  BY <1>3, <1>4

-----------------------------------------------------------------------------
(* From the destinations to the loss signals and the quorum. *)

Hosts == Len(control_hosts)

\* What was lost on the way to a destination.
LossOf(d) == IF d = 0 THEN result.ip.loss_pct ELSE measured[d].loss_pct

\* A valid configuration names at least as many control hosts as its quorum
\* (config.py:66-72).
LEMMA HostsAreMany ==
  /\ Hosts \in Nat /\ Hosts >= 1 /\ ControlHosts!Positions = 1..Hosts
  /\ control_quorum \in 1..Hosts /\ remote_loss_pct \in 0..100 /\ control_loss_pct \in 0..100
<1>1. control_hosts \in Seq(STRING)
  BY ConfigAssumption DEF ValidConfig
<1>2. Hosts \in Nat
  BY <1>1, LenProperties DEF Hosts
<1>3. QED
  BY <1>2, ConfigAssumption DEF Hosts, ValidConfig, Percent, ControlHosts!Positions

\* An arrangement leaves no host out and counts none twice.
LEMMA ArrangementIsOnto ==
  ASSUME NEW f \in ControlHosts!Arrangements
  PROVE  /\ f \in [1..Hosts -> 1..Hosts]
         /\ \A i, j \in 1..Hosts : f[i] = f[j] => i = j
         /\ \A j \in 1..Hosts : \E i \in 1..Hosts : f[i] = j
<1>1. f \in [1..Hosts -> 1..Hosts] /\ \A i, j \in 1..Hosts : f[i] = f[j] => i = j
  BY HostsAreMany DEF ControlHosts!Arrangements
<1>2. f \in Injection(1..Hosts, 1..Hosts)
  BY <1>1 DEF Injection, IsInjective
<1>3. IsFiniteSet(1..Hosts)
  BY HostsAreMany, FS_Interval
<1>4. f \in Surjection(1..Hosts, 1..Hosts)
  BY <1>2, <1>3, FS_Injection
<1>5. QED
  BY <1>1, <1>4 DEF Surjection

\* In a run that is through, every destination has been pinged, in some state of
\* the network each.
LEMMA DestinationTells ==
  ASSUME TypeOK, Observed, Collected, NEW d \in 0..Hosts
  PROVE  /\ \E net \in Nets : LossTells(Destination(d), net, LossOf(d))
         /\ d > 0 /\ LossOf(d) < 100 => /\ measured[d].parsed /\ ~measured[d].timed_out
                                        /\ measured[d].sent > 0
<1>1. IpSaw /\ ControlsSaw /\ phase = "returned"
  BY DEF Collected, Observed, TypeOK, PastIp, PastControls, PastTarget, PastCaptive
<1>2. CASE d = 0
  BY <1>1, <1>2, IpTells DEF Destination, LossOf
<1>3. CASE d # 0
  <2>1. d \in ControlHosts!Positions
    BY <1>3, HostsAreMany
  <2>2. PICK net \in Nets : measured[d] \in RemotePings(control_hosts[d], 10, net)
    BY <1>1, <2>1 DEF ControlsSaw, PingSaw, ControlHosts!Settled, ControlHosts!SomeFailed
  <2>3. /\ LossTells(control_hosts[d], net, measured[d].loss_pct)
        /\ measured[d].loss_pct < 100 => /\ measured[d].parsed /\ ~measured[d].timed_out
                                         /\ measured[d].sent > 0
    BY <2>2, RemotePing DEF Nets
  <2>4. QED
    BY <1>3, <2>3 DEF Destination, LossOf
<1>4. QED
  BY <1>2, <1>3

\* The results on record, in the order of some arrangement.
ResultsOf(f) == ControlHosts!Results(measured, f)

\* There is one result per host, with what its ping lost (control_hosts.py:46-74).
LEMMA ResultsOnRecord ==
  ASSUME TypeOK, Observed, Collected
  PROVE  \E f \in ControlHosts!Arrangements :
           /\ result.controls.results = ResultsOf(f)
           /\ DOMAIN ResultsOf(f) = 1..Hosts
           /\ \A i \in 1..Hosts :
                /\ ResultsOf(f)[i].loss_pct = LossOf(f[i])
                /\ ResultsOf(f)[i].reachable = Answered(measured[f[i]], control_loss_pct)
           /\ result.controls.all_ok =
                (Cardinality({i \in 1..Hosts : ResultsOf(f)[i].reachable}) >= control_quorum)
<1>1. ControlsSaw /\ phase = "returned" /\ result.controls = controls
  BY DEF Collected, Observed, TypeOK, PastIp, PastControls, PastTarget, PastCaptive
<1>2. PICK f \in ControlHosts!Arrangements :
        controls = ControlHosts!control_hosts_slice(ResultsOf(f))
  BY <1>1 DEF ControlsSaw, ResultsOf
<1>3. DOMAIN ResultsOf(f) = 1..Hosts
  BY HostsAreMany DEF ResultsOf, ControlHosts!Results
<1>4. ASSUME NEW i \in 1..Hosts
      PROVE  /\ ResultsOf(f)[i].loss_pct = LossOf(f[i])
             /\ ResultsOf(f)[i].reachable = Answered(measured[f[i]], control_loss_pct)
  <2>1. f[i] \in 1..Hosts /\ f[i] # 0
    <3>1. f \in [1..Hosts -> 1..Hosts]
      BY ArrangementIsOnto
    <3>2. f[i] \in 1..Hosts
      BY <3>1
    <3>3. QED
      BY <3>2, HostsAreMany
  <2>2. ResultsOf(f)[i] = ControlHosts!probe_one(control_hosts[f[i]], measured[f[i]])
    BY HostsAreMany DEF ResultsOf, ControlHosts!Results
  <2>3. ControlHosts!Answered(measured[f[i]], control_loss_pct)
          = Answered(measured[f[i]], control_loss_pct)
    BY DEF Answered, ControlHosts!Answered
  <2>4. QED
    BY <2>1, <2>2, <2>3 DEF ControlHosts!probe_one, LossOf
<1>5. /\ result.controls.results = ResultsOf(f)
      /\ result.controls.all_ok =
           (Cardinality({i \in DOMAIN ResultsOf(f) : ResultsOf(f)[i].reachable})
              >= control_quorum)
  <2> DEFINE enough == Cardinality({i \in DOMAIN ResultsOf(f) : ResultsOf(f)[i].reachable})
                         >= control_quorum
  <2>1. result.controls = [results |-> ResultsOf(f), all_ok |-> enough]
    <3>1. ControlHosts!control_hosts_slice(ResultsOf(f))
            = [results |-> ResultsOf(f), all_ok |-> enough]
      BY Zenon DEF ControlHosts!control_hosts_slice, Cardinality, ControlHosts!Cardinality
    <3>2. QED
      BY <1>1, <1>2, <3>1, Zenon
  <2> HIDE DEF enough
  <2>2. result.controls.results = ResultsOf(f) /\ result.controls.all_ok = enough
    BY <2>1
  <2>3. QED
    BY <2>2 DEF enough
<1>6. QED
  BY <1>3, <1>4, <1>5

\* The quorum is not reached without an answer, and is reached by all answers
\* without a loss (control_hosts.py:46-74).
LEMMA ControlsTell ==
  ASSUME TypeOK, Observed, Collected
  PROVE  /\ result.controls.all_ok => \E d \in 1..Hosts : LossOf(d) < 100
         /\ Discerning /\ (\A d \in 1..Hosts : LossOf(d) = 0) => result.controls.all_ok
<1>1. PICK f \in ControlHosts!Arrangements :
           /\ result.controls.results = ResultsOf(f)
           /\ DOMAIN ResultsOf(f) = 1..Hosts
           /\ \A i \in 1..Hosts :
                /\ ResultsOf(f)[i].loss_pct = LossOf(f[i])
                /\ ResultsOf(f)[i].reachable = Answered(measured[f[i]], control_loss_pct)
           /\ result.controls.all_ok =
                (Cardinality({i \in 1..Hosts : ResultsOf(f)[i].reachable}) >= control_quorum)
  BY ResultsOnRecord
<1> DEFINE R == {i \in 1..Hosts : ResultsOf(f)[i].reachable}
<1>2. f \in [1..Hosts -> 1..Hosts]
  BY ArrangementIsOnto
<1>3. ASSUME R # {} PROVE \E d \in 1..Hosts : LossOf(d) < 100
  <2>1. PICK i \in 1..Hosts : Answered(measured[f[i]], control_loss_pct)
    BY <1>1, <1>3
  <2>2. f[i] \in 1..Hosts /\ f[i] # 0
    BY <1>2, HostsAreMany
  <2>3. PICK net \in Nets : LossTells(Destination(f[i]), net, LossOf(f[i]))
    BY <2>2, DestinationTells, HostsAreMany
  <2>4. LossOf(f[i]) < 100
    BY <2>1, <2>2, <2>3, HostsAreMany DEF Answered, LossOf, LossTells
  <2>5. QED
    BY <2>2, <2>4
<1>4. ASSUME R = {} PROVE ~result.controls.all_ok
  <2>1. Cardinality(R) = 0
    BY <1>4, FS_EmptySet
  <2>2. ~(Cardinality(R) >= control_quorum)
    BY <2>1, HostsAreMany
  <2>3. QED
    BY <1>1, <2>2
<1>5. ASSUME Discerning, \A d \in 1..Hosts : LossOf(d) = 0 PROVE result.controls.all_ok
  <2>1. \A i \in 1..Hosts : Answered(measured[f[i]], control_loss_pct)
    <3> SUFFICES ASSUME NEW i \in 1..Hosts PROVE Answered(measured[f[i]], control_loss_pct)
      OBVIOUS
    <3>1. f[i] \in 0..Hosts /\ f[i] > 0 /\ LossOf(f[i]) = 0
      BY <1>2, <1>5, HostsAreMany
    <3>2. ~measured[f[i]].timed_out /\ measured[f[i]].sent > 0
      BY <3>1, DestinationTells
    <3>3. measured[f[i]].loss_pct < control_loss_pct
      BY <1>5, <3>1, HostsAreMany DEF LossOf, Discerning
    <3>4. QED
      BY <3>2, <3>3 DEF Answered
  <2>2. R = 1..Hosts
    BY <1>1, <2>1
  <2>3. Cardinality(R) = Hosts
    <3>1. 1 \in Int /\ Hosts \in Int /\ ~(1 > Hosts) /\ Hosts - 1 + 1 = Hosts
      BY HostsAreMany
    <3>2. Cardinality(1..Hosts) = Hosts
      BY <3>1, FS_Interval
    <3>3. QED
      BY <2>2, <3>2
  <2>4. Cardinality(R) >= control_quorum
    BY <2>3, HostsAreMany
  <2>5. QED
    BY <1>1, <2>4
<1>6. QED
  BY <1>3, <1>4, <1>5

\* Loss counts where the gateway answered: on the way to one destination, or to
\* two (normalizer.py:153-170).
LEMMA LossSignals ==
  ASSUME TypeOK, SlicesTyped, Observed, Collected
  PROVE  /\ snapshot.packet_loss_after_hop1 <=>
              result.gateway.reachable /\ \E d \in 0..Hosts : LossOf(d) > remote_loss_pct
         /\ snapshot.packet_loss_multiple_targets <=>
              /\ result.gateway.reachable
              /\ \E d, e \in 0..Hosts : /\ d # e
                                        /\ LossOf(d) > remote_loss_pct
                                        /\ LossOf(e) > remote_loss_pct
<1>1. PICK f \in ControlHosts!Arrangements :
           /\ result.controls.results = ResultsOf(f)
           /\ DOMAIN ResultsOf(f) = 1..Hosts
           /\ \A i \in 1..Hosts : ResultsOf(f)[i].loss_pct = LossOf(f[i])
  BY ResultsOnRecord
<1> DEFINE losses == [i \in DOMAIN result.controls.results |->
                        result.controls.results[i].loss_pct]
           to(i) == IF i = 0 THEN 0 ELSE f[i]
           lossy == {i \in 0..Hosts : LossOf(to(i)) > remote_loss_pct}
<1>2. /\ f \in [1..Hosts -> 1..Hosts]
      /\ \A i, j \in 1..Hosts : f[i] = f[j] => i = j
      /\ \A j \in 1..Hosts : \E i \in 1..Hosts : f[i] = j
  BY ArrangementIsOnto
<1>3. \A d \in 0..Hosts : LossOf(d) \in 0..100
  BY DestinationTells DEF LossTells
<1>4. losses \in [1..Hosts -> 0..100] /\ \A i \in 1..Hosts : losses[i] = LossOf(f[i])
  <2>1. losses = [i \in 1..Hosts |-> LossOf(f[i])]
    BY <1>1
  <2>2. \A i \in 1..Hosts : f[i] \in 0..Hosts
    <3>1. 1..Hosts \subseteq 0..Hosts
      BY HostsAreMany
    <3>2. QED
      BY <1>2, <3>1
  <2>3. \A i \in 1..Hosts : LossOf(f[i]) \in 0..100
    BY <1>3, <2>2
  <2> HIDE DEF losses
  <2>4. QED
    BY <2>1, <2>3
<1>5. Len(losses) = Hosts
  <2> HIDE DEF losses
  <2>1. losses \in Seq(0..100)
    BY <1>4, HostsAreMany
  <2>2. DOMAIN losses = 1..Hosts /\ DOMAIN losses = 1..Len(losses) /\ Len(losses) \in Nat
    BY <1>4, <2>1, LenProperties
  <2>3. QED
    BY <2>2, HostsAreMany
<1>6. LossyDestinations(result.ip.loss_pct, losses) = lossy
  <2> HIDE DEF losses
  <2>1. QED
    BY <1>4, <1>5, HostsAreMany DEF LossyDestinations, LossOf
<1>7. /\ snapshot.packet_loss_after_hop1 = (result.gateway.reachable /\ lossy # {})
      /\ snapshot.packet_loss_multiple_targets =
           (result.gateway.reachable /\ lossy # {} /\ Cardinality(lossy) >= 2)
  <2> HIDE DEF lossy
  <2>1. QED
    BY <1>6 DEF snapshot, snapshot_of, normalize_from_pings
<1>0. /\ \A i \in 0..Hosts : i = 0 \/ i \in 1..Hosts
      /\ \A i \in 1..Hosts : f[i] \in 0..Hosts /\ f[i] # 0
      /\ 0 \in 0..Hosts
  <2>1. 1..Hosts \subseteq 0..Hosts \ {0} /\ 0..Hosts \subseteq {0} \cup 1..Hosts /\ 0 \in 0..Hosts
    BY HostsAreMany
  <2>2. \A i \in 1..Hosts : f[i] \in 1..Hosts
    BY <1>2
  <2>3. QED
    BY <2>1, <2>2
<1>8. \A i \in 0..Hosts : to(i) \in 0..Hosts
  BY <1>0
<1>9. \A d \in 0..Hosts : \E i \in 0..Hosts : to(i) = d
  <2> SUFFICES ASSUME NEW d \in 0..Hosts PROVE \E i \in 0..Hosts : to(i) = d
    OBVIOUS
  <2>1. CASE d = 0
    BY <2>1, HostsAreMany
  <2>2. CASE d # 0
    <3>1. PICK i \in 1..Hosts : f[i] = d
      BY <1>2, <2>2, HostsAreMany
    <3>2. i \in 0..Hosts /\ to(i) = d
      BY <3>1, HostsAreMany
    <3>3. QED
      BY <3>2
  <2>3. QED
    BY <2>1, <2>2
<1>10. \A i, j \in 0..Hosts : i # j => to(i) # to(j)
  BY <1>0, <1>2
<1>11. lossy # {} <=> \E d \in 0..Hosts : LossOf(d) > remote_loss_pct
  <2> HIDE DEF to
  <2>1. QED
    BY <1>8, <1>9
<1>12. (\E i, j \in lossy : i # j) <=>
         \E d, e \in 0..Hosts : /\ d # e
                                /\ LossOf(d) > remote_loss_pct
                                /\ LossOf(e) > remote_loss_pct
  <2> HIDE DEF to
  <2>1. QED
    BY <1>8, <1>9, <1>10
<1>13. Cardinality(lossy) >= 2 <=> \E i, j \in lossy : i # j
  <2>1. IsFiniteSet(0..Hosts) /\ lossy \subseteq 0..Hosts
    BY HostsAreMany, FS_Interval
  <2>2. IsFiniteSet(lossy)
    BY <2>1, FS_Subset
  <2> HIDE DEF lossy
  <2>3. CASE lossy = {}
    BY <2>3, FS_EmptySet
  <2>4. ASSUME NEW i \in lossy
        PROVE  Cardinality(lossy) >= 2 <=> \E j \in lossy : j # i
    <3>1. /\ IsFiniteSet(lossy \ {i}) /\ Cardinality(lossy \ {i}) \in Nat
          /\ Cardinality(lossy) = Cardinality(lossy \ {i}) + 1
      <4>1. IsFiniteSet(lossy \ {i}) /\ Cardinality(lossy \ {i}) = Cardinality(lossy) - 1
        BY <2>2, <2>4, FS_RemoveElement
      <4>2. Cardinality(lossy \ {i}) \in Nat /\ Cardinality(lossy) \in Nat
        BY <2>2, <4>1, FS_CardinalityType
      <4>3. QED
        BY <4>1, <4>2
    <3>2. Cardinality(lossy \ {i}) = 0 <=> lossy \ {i} = {}
      BY <3>1, FS_EmptySet
    <3>3. Cardinality(lossy) >= 2 <=> Cardinality(lossy \ {i}) # 0
      BY <3>1
    <3>4. QED
      BY <3>2, <3>3
  <2>5. QED
    BY <2>3, <2>4
<1>14. QED
  <2> HIDE DEF lossy
  <2>1. (\E i, j \in lossy : i # j) => lossy # {}
    OBVIOUS
  <2>2. QED
    BY <1>7, <1>11, <1>12, <1>13, <2>1

-----------------------------------------------------------------------------
(* What a verdict says of the network. *)

\* The invariant of a collection: its types, the agreement of its signals, and
\* what its probes have seen.
CollectionKnown == CollectionTyped /\ SlicesAgree /\ Observed

\* In a run that is through, every probe has had its look.
LEMMA AllProbed ==
  ASSUME CollectionKnown, Collected
  PROVE  /\ TypeOK /\ SlicesTyped /\ SlicesAgree /\ Observed
         /\ GatewaySaw /\ Route6Saw /\ DnsSaw /\ IpSaw /\ TargetSaw /\ CaptiveSaw
BY DEF CollectionKnown, CollectionTyped, Observed, Collected, PastGateway, PastRoute6,
       PastDns, PastIp, PastControls, PastTarget, PastCaptive

\* The verdict by the slices (engine.py:235-326, orchestrator.py:95-108).
LEMMA VerdictBySlices ==
  ASSUME CollectionKnown, Collected
  PROVE  verdict.boundary =
           IF ~(result.gateway.reachable \/ result.ip.ok \/ result.controls.all_ok)
           THEN IF result.gateway.gateway_ip THEN "router-gateway"
                ELSE IF result.ipv6_route.present THEN "ipv6-only" ELSE "local-device"
           ELSE IF result.captive.portal_detected THEN "captive-portal"
           ELSE IF ~result.dns.ok THEN IF result.ip.ok THEN "dns" ELSE "wan-gateway"
           ELSE IF snapshot.packet_loss_multiple_targets THEN "isp-upstream"
           ELSE IF result.controls.all_ok /\ ~result.target.ok THEN "remote-service"
           ELSE IF /\ result.ip.ok /\ result.controls.all_ok /\ result.target.ok
                   /\ ~snapshot.packet_loss_after_hop1
                THEN "healthy" ELSE "inconclusive"
<1>1. snapshot \in SignalSnapshot /\ Producible(snapshot)
  BY AllProbed, SnapshotIsTyped, SnapshotOfAgreeing
<1>2. verdict.boundary = Decision(snapshot)
  BY <1>1, TableDecides DEF verdict
<1>3. /\ snapshot.gateway_reachable = result.gateway.reachable
      /\ snapshot.dns_ok = result.dns.ok
      /\ snapshot.ip_connectivity_ok = result.ip.ok
      /\ snapshot.control_hosts_ok = result.controls.all_ok
      /\ snapshot.target_service_ok = result.target.ok
      /\ snapshot.default_route_present = result.gateway.gateway_ip
      /\ snapshot.captive_portal_detected = result.captive.portal_detected
      /\ snapshot.ipv6_default_route_present = result.ipv6_route.present
  BY DEF snapshot, snapshot_of
<1>4. snapshot.packet_loss_multiple_targets => snapshot.packet_loss_after_hop1
  BY <1>1 DEF Producible
<1>5. QED
  BY <1>1, <1>2, <1>3, <1>4 DEF Decision, gateway_functional, SignalSnapshot

\* A network that carried an answer had no outage.
LEMMA AnswersTell ==
  ASSUME CollectionKnown, Collected
  PROVE  /\ result.gateway.reachable =>
              always \cap {"no_route", "v6_only", "router_dead", "router_mute",
                           "icmp_blocked"} = {}
         /\ result.ip.ok \/ result.controls.all_ok =>
              always \cap (Outage \cup {"icmp_blocked"}) = {}
         /\ result.ip.ok => "canary_dead" \notin always
<1>1. result.gateway.reachable =>
        \E before, after \in Nets : Routed(before) /\ after \cap Silencing = {}
  BY AllProbed, GatewayTells
<1>2. result.ip.ok => LossOf(0) < 100
  BY AllProbed, IpTells DEF LossOf
<1>3. result.controls.all_ok => \E d \in 1..Hosts : LossOf(d) < 100
  BY AllProbed, ControlsTell
<1>4. \A d \in 0..Hosts : LossOf(d) < 100 =>
        \E net \in Nets : /\ Internet(net) /\ "icmp_blocked" \notin net
                          /\ ~IsDeadCanary(Destination(d), net)
  BY AllProbed, DestinationTells DEF LossTells
<1>5. 0 \in 0..Hosts /\ 1..Hosts \subseteq 0..Hosts
  BY HostsAreMany
<1>6. \A net : Internet(net) => net \cap Outage = {}
  BY DEF Internet, Forwards, Routed, Outage
<1>7. \A net \in Nets : always \subseteq net
  BY DEF Nets
<1>8. result.ip.ok \/ result.controls.all_ok =>
        always \cap (Outage \cup {"icmp_blocked"}) = {}
  <2>1. result.ip.ok \/ result.controls.all_ok =>
          \E net \in Nets : Internet(net) /\ "icmp_blocked" \notin net
    BY <1>2, <1>3, <1>4, <1>5
  <2>2. QED
    BY <1>6, <1>7, <2>1
<1>9. result.ip.ok => "canary_dead" \notin always
  BY <1>2, <1>4, <1>5, <1>7 DEF IsDeadCanary, Destination
<1>10. QED
  BY <1>1, <1>7, <1>8, <1>9 DEF Routed, Silencing

\* A run that says healthy hides nothing, whatever it may say (engine.py:183-202).
LEMMA HealthyTells ==
  ASSUME CollectionKnown, remote_loss_pct < 30
  PROVE  HealthyHidesNothing
<1> SUFFICES ASSUME Collected, verdict.boundary = "healthy", NEW f \in always
             PROVE  f \in Unseen
  BY DEF HealthyHidesNothing
<1>1. /\ ~result.captive.portal_detected /\ result.dns.ok
      /\ result.ip.ok /\ result.controls.all_ok /\ result.target.ok
      /\ ~snapshot.packet_loss_after_hop1
  BY VerdictBySlices
<1>2. f \in Faults /\ f \in ever
  BY AllProbed DEF TypeOK
<1>3. always \cap (Outage \cup {"icmp_blocked", "canary_dead"}) = {}
  BY <1>1, AnswersTell
<1>4. \A net \in Nets : f \in net /\ net \subseteq ever
  BY DEF Nets
<1>5. CASE f = "upstream_lossy"
  <2>1. 0 \in 0..Hosts /\ remote_loss_pct \in 0..100
    BY HostsAreMany
  <2>2. LossOf(0) >= 30
    <3>1. PICK net \in Nets : LossTells(Destination(0), net, LossOf(0))
      BY <2>1, AllProbed, DestinationTells
    <3>2. QED
      BY <1>4, <1>5, <3>1 DEF LossTells
  <2>3. LossOf(0) > remote_loss_pct
    <3>1. LossOf(0) \in {0, 30, 60, 100}
      BY <2>1, AllProbed, DestinationTells DEF LossTells
    <3>2. QED
      BY <2>1, <2>2, <3>1
  <2>4. LossUnseen
    BY <1>1, <2>1, <2>3, AllProbed, LossSignals DEF LossUnseen
  <2>5. QED
    BY <1>5, <2>4 DEF Unseen
<1>6. CASE f = "resolver_dead"
  BY <1>1, <1>4, <1>6, AllProbed, DnsTells DEF Unseen
<1>7. CASE f = "target_dead"
  BY <1>1, <1>4, <1>7, AllProbed, TargetTells DEF Unseen
<1>8. CASE f = "portal" /\ ~PortalNotLookedFor
  <2>1. PICK net \in Nets : ~Forwards(net)
    BY <1>1, <1>4, <1>8, AllProbed, CaptiveTells
  <2>2. (ever \ always) \cap Outage # {}
    BY <1>3, <1>4, <2>1 DEF Forwards, Routed, Outage
  <2>3. QED
    BY <1>8, <2>2 DEF Unseen
<1>9. CASE f \in {"router_mute", "route_hangs"} \/ (f = "portal" /\ PortalNotLookedFor)
  BY <1>9 DEF Unseen
<1>10. QED
  BY <1>2, <1>3, <1>5, <1>6, <1>7, <1>8, <1>9 DEF Faults, Outage

\* Faults that come or go between two probes can be blamed on something else.
Mixed == (ever \ always) \cap (Outage \cup {"resolver_dead", "upstream_lossy",
                                            "icmp_blocked"}) # {}

\* A network in which nothing was ever wrong is healthy.
LEMMA FaultlessIsHealthy ==
  ASSUME CollectionKnown, Collected, Discerning, ever = {}
  PROVE  verdict.boundary = "healthy"
<1>1. \A net \in Nets : net = {}
  BY DEF Nets
<1>2. \A net \in Nets : Internet(net) /\ Routed(net) /\ Resolutions(net) # {FALSE}
  BY <1>1, ResolutionTells DEF Internet, Forwards, Routed
<1>3. \A d \in 0..Hosts : LossOf(d) = 0
  <2> SUFFICES ASSUME NEW d \in 0..Hosts PROVE LossOf(d) = 0
    OBVIOUS
  <2>1. PICK net \in Nets : LossTells(Destination(d), net, LossOf(d))
    BY AllProbed, DestinationTells
  <2>2. ~(LossOf(d) > 0)
    BY <1>1, <1>2, <2>1 DEF LossTells, IsDeadCanary, Unresolved
  <2>3. LossOf(d) \in {0, 30, 60, 100}
    BY <2>1 DEF LossTells
  <2>4. QED
    BY <2>2, <2>3
<1>4. 0 \in 0..Hosts /\ 1..Hosts \subseteq 0..Hosts /\ remote_loss_pct \in 0..100
  BY HostsAreMany
<1>5. result.ip.ok /\ result.controls.all_ok
  BY <1>3, <1>4, AllProbed, IpTells, ControlsTell DEF LossOf
<1>6. ~snapshot.packet_loss_after_hop1
  <2>1. \A d \in 0..Hosts : ~(LossOf(d) > remote_loss_pct)
    BY <1>3, <1>4
  <2>2. QED
    BY <2>1, AllProbed, LossSignals
<1>7. ~snapshot.packet_loss_multiple_targets
  BY <1>6, AllProbed, SnapshotOfAgreeing DEF Producible
<1>8. result.dns.ok
  BY <1>1, <1>2, AllProbed, DnsTells
<1>9. ~result.captive.portal_detected
  BY <1>1, AllProbed, CaptiveTells
<1>10. result.target.ok
  BY <1>1, <1>2, AllProbed, TargetTells
<1>11. QED
  BY <1>5, <1>6, <1>7, <1>8, <1>9, <1>10, VerdictBySlices

\* Whatever loses to a destination was wrong on the way to it.
LEMMA LossHasACause ==
  ASSUME CollectionKnown, Collected, NEW d \in 0..Hosts, LossOf(d) > remote_loss_pct
  PROVE  \/ ever \cap (Outage \cup {"canary_dead", "icmp_blocked", "upstream_lossy",
                                    "portal"}) # {}
         \/ Destination(d) \in names /\ "resolver_dead" \in ever
<1>1. PICK net \in Nets : LossTells(Destination(d), net, LossOf(d))
  BY AllProbed, DestinationTells
<1>2. LossOf(d) > 0
  BY <1>1, HostsAreMany DEF LossTells
<1>3. net \subseteq ever
  BY DEF Nets
<1>4. CASE ~Internet(net)
  BY <1>3, <1>4 DEF Internet, Forwards, Routed, Outage
<1>5. CASE Internet(net) /\ Unresolved(Destination(d), net)
  BY <1>3, <1>5, ResolutionTells DEF Unresolved
<1>6. CASE IsDeadCanary(Destination(d), net)
  BY <1>3, <1>6 DEF IsDeadCanary
<1>7. CASE net \cap {"icmp_blocked", "upstream_lossy", "portal"} # {}
  BY <1>3, <1>7
<1>8. QED
  BY <1>1, <1>2, <1>4, <1>5, <1>6, <1>7 DEF LossTells

\* Loss on the path that lasts shows to all destinations.
LEMMA LastingLossShows ==
  ASSUME CollectionKnown, Collected, Discerning, result.gateway.reachable,
         "upstream_lossy" \in always
  PROVE  snapshot.packet_loss_multiple_targets
<1>1. remote_loss_pct \in 0..100 /\ 0 \in 0..Hosts /\ 1 \in 0..Hosts
  BY HostsAreMany
<1>2. ASSUME NEW d \in 0..Hosts PROVE LossOf(d) > remote_loss_pct
  <2>1. PICK net \in Nets : LossTells(Destination(d), net, LossOf(d))
    BY AllProbed, DestinationTells
  <2>2. "upstream_lossy" \in net
    BY DEF Nets
  <2>3. LossOf(d) \in {30, 60, 100}
    BY <2>1, <2>2 DEF LossTells
  <2>4. QED
    BY <1>1, <2>3 DEF Discerning
<1>3. QED
  BY <1>1, <1>2, AllProbed, LossSignals

\* Every verdict has a cause among the faults there were (engine.py:235-312).
LEMMA BlameTells ==
  ASSUME CollectionKnown, Discerning
  PROVE  BlameHasACause
<1> DEFINE b == verdict.boundary
<1> SUFFICES ASSUME Collected, b # "healthy"
             PROVE  \/ ever \cap Causes(b) # {}
                    \/ Mixed /\ b \in {"wan-gateway", "dns", "isp-upstream", "remote-service"}
                    \/ /\ (ever \ always) \cap {"no_route", "v6_only"} # {}
                       /\ b = "router-gateway"
  BY DEF BlameHasACause, Misleading, Mixed
<1>1. always \subseteq ever /\ ever \subseteq Faults /\ \A net \in Nets : net \subseteq ever
  BY AllProbed DEF TypeOK, Nets
<1>2. \A net : ~Internet(net) => net \cap Outage # {}
  BY DEF Internet, Forwards, Routed, Outage
<1>3. /\ result.gateway.reachable =>
           always \cap {"no_route", "v6_only", "router_dead", "icmp_blocked"} = {}
      /\ result.ip.ok \/ result.controls.all_ok =>
           always \cap (Outage \cup {"icmp_blocked"}) = {}
  BY AnswersTell
<1>4. CASE b = "ipv6-only"
  <2>1. result.ipv6_route.present /\ ~result.gateway.gateway_ip
    BY <1>4, VerdictBySlices
  <2>2. "v6_only" \in ever
    BY <1>1, <2>1, AllProbed, Route6Tells
  <2>3. QED
    BY <1>4, <2>2 DEF Causes
<1>5. CASE b = "local-device"
  <2>1. ~result.gateway.gateway_ip
    BY <1>5, VerdictBySlices
  <2>2. \E net \in Nets : ~(Routed(net) /\ "route_hangs" \notin net)
    BY <2>1, AllProbed, GatewayTells
  <2>3. ever \cap {"no_route", "v6_only", "route_hangs"} # {}
    BY <1>1, <2>2 DEF Routed
  <2>4. QED
    BY <1>5, <2>3 DEF Causes
<1>6. CASE b = "router-gateway"
  <2>1. result.gateway.gateway_ip /\ ~result.gateway.reachable
    BY <1>6, VerdictBySlices
  <2>2. PICK before, after \in Nets :
          /\ Routed(before)
          /\ after \cap Silencing # {} \/ ~Routed(after)
    BY <2>1, AllProbed, GatewayTells
  <2>3. CASE after \cap Silencing # {}
    BY <1>1, <1>6, <2>3 DEF Causes, Silencing
  <2>4. CASE ~Routed(after)
    BY <1>1, <1>6, <2>2, <2>4 DEF Routed, Nets
  <2>5. QED
    BY <2>2, <2>3, <2>4
<1>7. CASE b = "captive-portal"
  <2>1. result.captive.portal_detected
    BY <1>7, VerdictBySlices
  <2>2. "portal" \in ever
    BY <1>1, <2>1, AllProbed, CaptiveTells
  <2>3. QED
    BY <1>7, <2>2 DEF Causes
<1>8. CASE b \in {"wan-gateway", "dns"}
  <2>1. /\ ~result.dns.ok
        /\ result.gateway.reachable \/ result.ip.ok \/ result.controls.all_ok
        /\ b = "dns" => result.ip.ok
    BY <1>8, VerdictBySlices
  <2>2. PICK net \in Nets : "resolver_dead" \in net \/ net \cap Outage # {}
    BY <1>2, <2>1, AllProbed, DnsTells
  <2>3. CASE "resolver_dead" \in net
    BY <1>1, <1>8, <2>3 DEF Causes
  <2>4. CASE "wan_dead" \in net /\ b = "wan-gateway"
    BY <1>1, <2>4 DEF Causes
  <2>5. CASE \/ net \cap (Outage \ {"wan_dead"}) # {}
             \/ "wan_dead" \in net /\ b = "dns"
    BY <1>1, <1>3, <1>8, <2>1, <2>5 DEF Outage, Mixed
  <2>6. QED
    BY <1>8, <2>2, <2>3, <2>4, <2>5
<1>9. CASE b = "isp-upstream"
  <2>1. snapshot.packet_loss_multiple_targets
    BY <1>9, VerdictBySlices
  <2>2. PICK d, e \in 0..Hosts : /\ result.gateway.reachable /\ d # e
                                 /\ LossOf(d) > remote_loss_pct
                                 /\ LossOf(e) > remote_loss_pct
    BY <2>1, AllProbed, LossSignals
  <2>3. CASE ever \cap {"wan_dead", "upstream_lossy", "canary_dead", "portal"} # {}
    BY <1>9, <2>3 DEF Causes
  <2>4. CASE ever \cap {"no_route", "v6_only", "router_dead", "icmp_blocked"} # {}
    BY <1>3, <1>9, <2>2, <2>4 DEF Outage, Mixed
  <2>5. CASE /\ Destination(d) \in names /\ Destination(e) \in names
             /\ "resolver_dead" \in ever
    <3>1. NamesLookLossy
      BY <2>2, <2>5 DEF NamesLookLossy, Hosts
    <3>2. QED
      BY <1>9, <2>5, <3>1 DEF Causes
  <2>6. QED
    BY <2>2, <2>3, <2>4, <2>5, LossHasACause DEF Outage
<1>10. CASE b = "remote-service"
  <2>1. result.dns.ok /\ result.controls.all_ok /\ ~result.target.ok
          /\ ~snapshot.packet_loss_multiple_targets
    BY <1>10, VerdictBySlices
  <2>2. PICK net \in Nets :
          \/ net \cap Outage # {}
          \/ ~job.is_literal /\ "resolver_dead" \in net
          \/ "target_dead" \in net \/ "portal" \in net
          \/ "icmp_blocked" \in net \/ "upstream_lossy" \in net
    BY <1>2, <2>1, AllProbed, TargetTells
  <2>3. CASE net \cap (Outage \cup {"icmp_blocked"}) # {}
    BY <1>1, <1>3, <1>10, <2>1, <2>3 DEF Mixed
  <2>4. CASE ~job.is_literal /\ "resolver_dead" \in net
    <3>1. \E other \in Nets : "resolver_dead" \notin other
      BY <2>1, <2>4, AllProbed, DnsTells
    <3>2. "resolver_dead" \notin always
      BY <3>1 DEF Nets
    <3>3. QED
      BY <1>1, <1>10, <2>4, <3>2 DEF Mixed
  <2>5. CASE "target_dead" \in net \/ "portal" \in net
    BY <1>1, <1>10, <2>5 DEF Causes
  <2>6. CASE "upstream_lossy" \in net
    <3>1. CASE LossUnseen
      BY <1>1, <1>10, <2>6, <3>1 DEF Causes
    <3>2. CASE ~LossUnseen
      <4>1. "upstream_lossy" \notin always
        BY <2>1, <3>2, LastingLossShows DEF LossUnseen
      <4>2. QED
        BY <1>1, <1>10, <2>6, <4>1 DEF Mixed
    <3>3. QED
      BY <3>1, <3>2
  <2>7. QED
    BY <2>2, <2>3, <2>4, <2>5, <2>6
<1>11. CASE b = "inconclusive"
  BY <1>1, <1>11, FaultlessIsHealthy DEF Causes
<1>12. QED
  BY <1>4, <1>5, <1>6, <1>7, <1>8, <1>9, <1>10, <1>11, VerdictBySlices

\* What the probes make of one fault that lasts.
LEMMA SteadyLoss ==
  ASSUME CollectionKnown, Collected, Discerning, NEW f \in Faults, ever = {f}, always = {f},
         NEW d \in 0..Hosts
  PROVE  /\ LossOf(d) \in {0, 30, 60, 100}
         /\ f \in Outage \cup {"icmp_blocked"} => LossOf(d) = 100
         /\ f = "upstream_lossy" => LossOf(d) > remote_loss_pct
         /\ f = "canary_dead" => LossOf(d) = IF Destination(d) = canary_ip THEN 100 ELSE 0
         /\ f = "resolver_dead" => LossOf(d) = IF Destination(d) \in names THEN 100 ELSE 0
         /\ f \in {"route_hangs", "router_mute", "target_dead"} => LossOf(d) = 0
<1>1. \A net \in Nets : net = {f}
  BY DEF Nets
<1>2. LossTells(Destination(d), {f}, LossOf(d))
  BY <1>1, AllProbed, DestinationTells
<1>3. /\ Internet({f}) <=> f \notin Outage
      /\ Resolutions({f}) = {FALSE} /\ f \notin Outage => f = "resolver_dead"
      /\ f = "resolver_dead" => Resolutions({f}) = {FALSE}
  BY ResolutionTells DEF Internet, Forwards, Routed, Outage
<1>4. LossOf(d) \in {0, 30, 60, 100}
  BY <1>2 DEF LossTells
<1>5. /\ LossOf(d) < 100 <=> LossOf(d) # 100
      /\ LossOf(d) > 0 <=> LossOf(d) # 0
      /\ Discerning /\ ~(LossOf(d) < 30) => LossOf(d) > remote_loss_pct
  <2>1. remote_loss_pct \in 0..100
    BY HostsAreMany
  <2>2. QED
    BY <1>4, <2>1 DEF Discerning
<1>6. f \in Outage \cup {"icmp_blocked"} => LossOf(d) = 100
  BY <1>2, <1>3, <1>5 DEF LossTells
<1>7. f = "upstream_lossy" => LossOf(d) > remote_loss_pct
  BY <1>2, <1>5 DEF LossTells
<1>8. f = "canary_dead" => LossOf(d) = IF Destination(d) = canary_ip THEN 100 ELSE 0
  BY <1>2, <1>3, <1>5 DEF LossTells, IsDeadCanary, Unresolved, Outage
<1>9. f = "resolver_dead" => LossOf(d) = IF Destination(d) \in names THEN 100 ELSE 0
  BY <1>2, <1>3, <1>5 DEF LossTells, IsDeadCanary, Unresolved, Outage
<1>10. f \in {"route_hangs", "router_mute", "target_dead"} => LossOf(d) = 0
  BY <1>2, <1>3, <1>5 DEF LossTells, IsDeadCanary, Unresolved, Outage
<1>11. QED
  BY <1>4, <1>6, <1>7, <1>8, <1>9, <1>10

\* ... and what the probes other than the loss measurements make of it.
LEMMA SteadyProbes ==
  ASSUME CollectionKnown, Collected, Discerning, NEW f \in Faults, ever = {f}, always = {f}
  PROVE  /\ result.gateway.gateway_ip <=> f \notin {"no_route", "v6_only", "route_hangs"}
         /\ result.gateway.reachable <=>
              f \notin {"no_route", "v6_only", "route_hangs", "router_dead", "router_mute",
                        "icmp_blocked"}
         /\ ~result.gateway.gateway_ip => (result.ipv6_route.present <=> f = "v6_only")
         /\ f \notin Outage \cup {"resolver_dead"} => result.dns.ok
         /\ f = "resolver_dead" => (result.dns.ok <=> job.is_literal)
         /\ f = "target_dead" => ~result.target.ok
         /\ result.captive.portal_detected <=> f = "portal" /\ ~PortalNotLookedFor
         /\ \/ f \in {"router_mute", "route_hangs", "canary_dead"}
            \/ f = "resolver_dead" /\ job.is_literal
            => result.target.ok
<1>1. \A net \in Nets : net = {f}
  BY DEF Nets
<1>2. /\ Internet({f}) <=> f \notin Outage
      /\ Routed({f}) <=> f \notin {"no_route", "v6_only"}
      /\ Forwards({f}) <=> f \notin {"no_route", "v6_only", "router_dead"}
  BY DEF Internet, Forwards, Routed, Outage
<1>3. /\ result.gateway.gateway_ip <=> f \notin {"no_route", "v6_only", "route_hangs"}
      /\ result.gateway.reachable <=>
           f \notin {"no_route", "v6_only", "route_hangs", "router_dead", "router_mute",
                     "icmp_blocked"}
  BY <1>1, <1>2, AllProbed, GatewayTells DEF Silencing
<1>4. ~result.gateway.gateway_ip => (result.ipv6_route.present <=> f = "v6_only")
  BY <1>1, AllProbed, Route6Tells
<1>5. /\ f \notin Outage \cup {"resolver_dead"} => result.dns.ok
      /\ f = "resolver_dead" => (result.dns.ok <=> job.is_literal)
  BY <1>1, <1>2, AllProbed, DnsTells DEF Outage
<1>6. result.captive.portal_detected <=> f = "portal" /\ ~PortalNotLookedFor
  BY <1>1, <1>2, AllProbed, CaptiveTells
<1>7. /\ f = "target_dead" => ~result.target.ok
      /\ \/ f \in {"router_mute", "route_hangs", "canary_dead"}
         \/ f = "resolver_dead" /\ job.is_literal
         => result.target.ok
  BY <1>1, <1>2, AllProbed, TargetTells DEF Outage
<1>8. QED
  BY <1>3, <1>4, <1>5, <1>6, <1>7

\* Answers follow the losses where they are all or nothing.
LEMMA SteadyAnswers ==
  ASSUME CollectionKnown, Collected, Discerning
  PROVE  /\ LossOf(0) = 0 => result.ip.ok
         /\ LossOf(0) = 100 => ~result.ip.ok
         /\ (\A d \in 0..Hosts : LossOf(d) = 0) =>
              /\ result.controls.all_ok
              /\ ~snapshot.packet_loss_after_hop1 /\ ~snapshot.packet_loss_multiple_targets
         /\ (\A d \in 0..Hosts : LossOf(d) = 100) => ~result.controls.all_ok
         /\ ~result.gateway.reachable =>
              ~snapshot.packet_loss_after_hop1 /\ ~snapshot.packet_loss_multiple_targets
         /\ result.gateway.reachable =>
              (snapshot.packet_loss_multiple_targets <=>
                 \E d, e \in 0..Hosts : /\ d # e /\ LossOf(d) > remote_loss_pct
                                        /\ LossOf(e) > remote_loss_pct)
<1>1. 0 \in 0..Hosts /\ 1..Hosts \subseteq 0..Hosts /\ remote_loss_pct \in 0..100
  BY HostsAreMany
<1>2. LossOf(0) = 0 => result.ip.ok
  BY AllProbed, IpTells DEF LossOf
<1>3. LossOf(0) = 100 => ~result.ip.ok
  <2>1. result.ip.ok => LossOf(0) < 100
    BY AllProbed, IpTells DEF LossOf
  <2>2. LossOf(0) = 100 => ~(LossOf(0) < 100)
    OBVIOUS
  <2>3. QED
    BY <2>1, <2>2
<1>4. (\A d \in 0..Hosts : LossOf(d) = 0) => result.controls.all_ok
  BY <1>1, AllProbed, ControlsTell
<1>5. (\A d \in 0..Hosts : LossOf(d) = 0) =>
        ~snapshot.packet_loss_after_hop1 /\ ~snapshot.packet_loss_multiple_targets
  <2>1. (\A d \in 0..Hosts : LossOf(d) = 0) =>
          \A d \in 0..Hosts : ~(LossOf(d) > remote_loss_pct)
    BY <1>1
  <2>2. QED
    BY <2>1, AllProbed, LossSignals
<1>6. (\A d \in 0..Hosts : LossOf(d) = 100) => ~result.controls.all_ok
  <2>1. (\A d \in 0..Hosts : LossOf(d) = 100) => \A d \in 1..Hosts : ~(LossOf(d) < 100)
    BY <1>1
  <2>2. QED
    BY <2>1, AllProbed, ControlsTell
<1>7. QED
  BY <1>2, <1>3, <1>4, <1>5, <1>6, AllProbed, LossSignals

\* One fault that lasts is named for what it is, but for a firewall against pings
\* (engine.py:235-312).
LEMMA SteadyFaultTells ==
  ASSUME CollectionKnown, Discerning
  PROVE  SteadyFaultIsNamed
<1> SUFFICES ASSUME Collected, NEW f \in Nameable, ever = {f}, always = {f}
             PROVE  verdict.boundary \in Expected(f)
  BY FaultlessIsHealthy DEF SteadyFaultIsNamed
<1> USE DEF Nameable
<1>0. 0 \in 0..Hosts /\ 1 \in 0..Hosts /\ 0 # 1 /\ remote_loss_pct < 100 /\ ~(0 > remote_loss_pct)
        /\ 1..Hosts \subseteq 0..Hosts /\ 100 > remote_loss_pct /\ ~(\E i \in 1..Hosts : i = 0)
  BY HostsAreMany DEF Discerning
<1>1. CASE f \in {"no_route", "v6_only", "router_dead"}
  <2>1. \A d \in 0..Hosts : LossOf(d) = 100
    BY <1>1, SteadyLoss DEF Outage
  <2>2. ~result.ip.ok /\ ~result.controls.all_ok
    BY <1>0, <2>1, SteadyAnswers
  <2>3. verdict.boundary = CASE f = "no_route" -> "local-device"
                             [] f = "v6_only" -> "ipv6-only"
                             [] f = "router_dead" -> "router-gateway"
    BY <1>1, <2>2, SteadyProbes, VerdictBySlices
  <2>4. QED
    BY <1>1, <2>3 DEF Expected
<1>2. CASE f \in {"route_hangs", "router_mute", "target_dead"}
  <2>1. \A d \in 0..Hosts : LossOf(d) = 0
    BY <1>2, SteadyLoss
  <2>2. /\ result.ip.ok /\ result.controls.all_ok
        /\ ~snapshot.packet_loss_after_hop1 /\ ~snapshot.packet_loss_multiple_targets
    BY <1>0, <2>1, SteadyAnswers
  <2>3. result.dns.ok /\ ~result.captive.portal_detected
          /\ (result.target.ok <=> f # "target_dead")
    BY <1>2, SteadyProbes DEF Outage
  <2>4. verdict.boundary = IF f = "target_dead" THEN "remote-service" ELSE "healthy"
    BY <2>2, <2>3, VerdictBySlices
  <2>5. QED
    BY <1>2, <2>4 DEF Expected
<1>3. CASE f \in {"wan_dead", "upstream_lossy"}
  <2>1. \A d \in 0..Hosts : LossOf(d) > remote_loss_pct /\ (f = "wan_dead" => LossOf(d) = 100)
    BY <1>0, <1>3, SteadyLoss DEF Outage
  <2>2. result.gateway.reachable /\ ~result.captive.portal_detected
          /\ (f = "upstream_lossy" => result.dns.ok)
    BY <1>3, SteadyProbes DEF Outage
  <2>3. snapshot.packet_loss_multiple_targets
    BY <1>0, <2>1, <2>2, SteadyAnswers
  <2>4. f = "wan_dead" => ~result.ip.ok
    BY <1>0, <2>1, SteadyAnswers
  <2>5. verdict.boundary = IF result.dns.ok THEN "isp-upstream" ELSE "wan-gateway"
    BY <1>3, <2>2, <2>3, <2>4, VerdictBySlices
  <2>6. QED
    BY <1>3, <2>2, <2>5 DEF Expected
<1>4. CASE f = "resolver_dead"
  <2>1. \A d \in 0..Hosts : LossOf(d) = IF Destination(d) \in names THEN 100 ELSE 0
    BY <1>4, SteadyLoss
  <2>2. /\ result.gateway.reachable /\ ~result.captive.portal_detected
        /\ result.dns.ok <=> job.is_literal
        /\ job.is_literal => result.target.ok
    BY <1>4, SteadyProbes
  <2>3. result.ip.ok <=> canary_ip \notin names
    <3>1. LossOf(0) = IF canary_ip \in names THEN 100 ELSE 0
      BY <1>0, <2>1 DEF Destination
    <3>2. QED
      BY <3>1, SteadyAnswers
  <2>4. snapshot.packet_loss_multiple_targets => NamesLookLossy
    BY <1>0, <2>1, <2>2, SteadyAnswers DEF NamesLookLossy, Hosts
  <2>5. ~job.is_literal =>
          verdict.boundary = IF canary_ip \in names THEN "wan-gateway" ELSE "dns"
    BY <2>2, <2>3, VerdictBySlices
  <2>6. job.is_literal =>
          \/ verdict.boundary \in {"healthy", "inconclusive"}
          \/ verdict.boundary = "isp-upstream" /\ NamesLookLossy
    BY <2>2, <2>4, VerdictBySlices
  <2>7. QED
    BY <1>4, <2>5, <2>6 DEF Expected
<1>5. CASE f = "canary_dead"
  <2>1. \A d \in 0..Hosts : LossOf(d) = IF Destination(d) = canary_ip THEN 100 ELSE 0
    BY <1>5, SteadyLoss
  <2>2. /\ result.gateway.reachable /\ ~result.captive.portal_detected
        /\ result.dns.ok /\ result.target.ok
    BY <1>5, SteadyProbes DEF Outage
  <2>3. LossOf(0) = 100 /\ ~result.ip.ok
    BY <1>0, <2>1, SteadyAnswers DEF Destination
  <2>4. snapshot.packet_loss_multiple_targets <=>
          \E i \in ControlHosts!Positions : control_hosts[i] = canary_ip
    <3>1. ASSUME NEW i \in ControlHosts!Positions, control_hosts[i] = canary_ip
          PROVE  snapshot.packet_loss_multiple_targets
      <4>1. i \in 0..Hosts /\ i # 0
        BY <1>0, HostsAreMany
      <4>2. LossOf(i) = 100
        BY <2>1, <3>1, <4>1 DEF Destination
      <4>3. QED
        BY <1>0, <2>2, <2>3, <4>1, <4>2, SteadyAnswers
    <3>2. ASSUME snapshot.packet_loss_multiple_targets
          PROVE  \E i \in ControlHosts!Positions : control_hosts[i] = canary_ip
      <4>1. PICK d, e \in 0..Hosts : /\ d # e /\ LossOf(d) > remote_loss_pct
                                     /\ LossOf(e) > remote_loss_pct
        BY <2>2, <3>2, SteadyAnswers
      <4>2. PICK i \in {d, e} : i # 0
        BY <4>1
      <4>3. i \in ControlHosts!Positions
        BY <4>2, HostsAreMany
      <4>4. Destination(i) = canary_ip
        BY <1>0, <2>1, <4>1, <4>2
      <4>5. QED
        BY <4>2, <4>3, <4>4 DEF Destination
    <3>3. QED
      BY <3>1, <3>2
  <2>5. verdict.boundary = IF snapshot.packet_loss_multiple_targets
                           THEN "isp-upstream" ELSE "inconclusive"
    BY <2>2, <2>3, VerdictBySlices
  <2>6. QED
    BY <1>5, <2>4, <2>5 DEF Expected
<1>6. CASE f = "portal"
  <2>1. /\ result.gateway.reachable /\ result.dns.ok
        /\ result.captive.portal_detected <=> ~PortalNotLookedFor
    BY <1>6, SteadyProbes DEF Outage
  <2>2. verdict.boundary \in
          IF PortalNotLookedFor
          THEN {"healthy", "remote-service", "isp-upstream", "inconclusive"}
          ELSE {"captive-portal"}
    BY <2>1, VerdictBySlices
  <2>3. QED
    BY <1>6, <2>2 DEF Expected
<1>7. QED
  BY <1>1, <1>2, <1>3, <1>4, <1>5, <1>6 DEF Faults

\* A run starts with it.
LEMMA CollectionKnownInit == CollectionInit => CollectionKnown
<1>1. CollectionInit => SlicesAgree
  BY DEF CollectionInit, SlicesAgree, Slices, Unmeasured
<1>2. QED
  BY <1>1, CollectionTypedInit, ObservedInit DEF CollectionKnown

\* Every step keeps it.
LEMMA CollectionKnownInductive ==
  ASSUME CollectionKnown, [CollectionNext \/ Finished]_collectionVars
  PROVE  CollectionKnown'
BY CollectionTypedInductive, SlicesAgreeInductive, ObservedInductive DEF CollectionKnown

\* Every slice of a run is typed, agrees with the others and is the account of
\* one state the network was in; the gateway's, of the state that the route command
\* saw and the one that the ping saw (gateway.py:27-58, orchestrator.py:36-108).
THEOREM CollectionIsKnown == CollectionSpec => []CollectionKnown
BY CollectionKnownInit, CollectionKnownInductive, PTL DEF CollectionSpec

\* With a loss threshold that three lost echoes in ten exceed, a run that calls the
\* network healthy hides no lasting fault that its probes can see
\* (engine.py:183-202, normalizer.py:153-170).
THEOREM HealthyRunsHideNothing ==
  ASSUME remote_loss_pct < 30
  PROVE  CollectionSpec => []HealthyHidesNothing
<1>1. CollectionKnown => HealthyHidesNothing
  BY HealthyTells
<1>2. QED
  BY <1>1, CollectionIsKnown, PTL

\* With thresholds that tell an answer from none, no boundary is blamed unless a
\* fault was there that lies in it or hides it, or one came or went under way that
\* misleads the run: the gateway only between its route command and its ping
\* (engine.py:235-312, gateway.py:27-58).
THEOREM BlameIsCaused ==
  ASSUME Discerning
  PROVE  CollectionSpec => []BlameHasACause
<1>1. CollectionKnown => BlameHasACause
  BY BlameTells
<1>2. QED
  BY <1>1, CollectionIsKnown, PTL

\* With such thresholds one fault that lasts from the first probe to the last is
\* named for what it is, a firewall against pings apart, and a network without one
\* is called healthy
\* (engine.py:235-312).
THEOREM SteadyFaultsAreNamed ==
  ASSUME Discerning
  PROVE  CollectionSpec => []SteadyFaultIsNamed
<1>1. CollectionKnown => SteadyFaultIsNamed
  BY SteadyFaultTells
<1>2. QED
  BY <1>1, CollectionIsKnown, PTL
=============================================================================
