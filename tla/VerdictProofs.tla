---------------------------- MODULE VerdictProofs ----------------------------
(***************************************************************************)
(* What the decision table guarantees of every verdict, of any two         *)
(* verdicts, and of what a vantage may make of one.  The chain of          *)
(* questions the table amounts to (OperatorLemmas) carries all of it.      *)
(***************************************************************************)
EXTENDS Verdict, OperatorLemmas

Fields ==
  {"gateway_reachable", "dns_ok", "ip_connectivity_ok", "control_hosts_ok",
   "target_service_ok", "default_route_present", "packet_loss_after_hop1",
   "packet_loss_multiple_targets", "captive_portal_detected",
   "ipv6_default_route_present"}

VantageClaims == {"down_for_everyone", "reachable_elsewhere", "wider_outage_possible"}

\* A verdict belongs to its snapshot: a vantage moved its confidence and added a
\* claim of its own at most.
VerdictInv ==
  /\ TypeOK
  /\ diagnosis.boundary = diagnose(snapshot).boundary
  /\ diagnose(snapshot).claims \subseteq diagnosis.claims
  /\ diagnosis.claims \subseteq diagnose(snapshot).claims \cup VantageClaims
  /\ ~refined => diagnosis = diagnose(snapshot)

-----------------------------------------------------------------------------
\* One verdict

\* A snapshot has ten signals, each there or not.
LEMMA SnapshotFields ==
  ASSUME NEW s \in Snapshots
  PROVE  /\ s \in SignalSnapshot /\ DOMAIN s = Fields
         /\ \A field \in Fields : s[field] \in BOOLEAN
         /\ Producible(s)
BY DEF Snapshots, SignalSnapshot, Fields

\* What the rows report is in the vocabulary (rule builders, engine.py:29-232).
LEMMA ReportsAreTyped ==
  ASSUME NEW b \in TenBoundaries, NEW s
  PROVE  build(b, s) \in [boundary : {b}, confidence : 50..99, claims : SUBSET Claims]
<1>1. gateway_evidence(s) \in Claims
  BY DEF gateway_evidence, Claims
<1>2. QED
  BY <1>1 DEF TenBoundaries, build, Diagnosis, ipv6_only, local_device, router_gateway,
     captive_portal, wan_gateway, dns, isp_upstream, remote_service, healthy,
     inconclusive, Claims

LEMMA DecisionIsBoundary ==
  ASSUME NEW s
  PROVE  Decision(s) \in TenBoundaries
BY DEF Decision, TenBoundaries

\* A verdict is of the right type, before any vantage.
LEMMA VerdictsAreTyped ==
  ASSUME NEW s \in Snapshots
  PROVE  diagnose(s) \in [boundary : BOUNDARIES, confidence : 50..99, claims : SUBSET Claims]
<1>1. diagnose(s) = build(Decision(s), s) /\ diagnose(s).boundary \in BOUNDARIES
  BY SnapshotFields, TableDecides, VerdictIsBoundary
<1>2. build(Decision(s), s)
        \in [boundary : {Decision(s)}, confidence : 50..99, claims : SUBSET Claims]
  BY ReportsAreTyped, DecisionIsBoundary
<1>3. QED
  BY <1>1, <1>2

\* Every claim of every row follows from the signals by which the row was chosen,
\* but for the fixed sentence that calls a silent gateway reachable, which stands
\* beside the claim that the gateway forwards (engine.py:29-232).
LEMMA RowsClaimTruly ==
  ASSUME NEW s \in Snapshots, NEW claim \in diagnose(s).claims
  PROVE  \/ ClaimFollows(claim, s)
         \/ Overstates(claim, s) /\ "forwarding" \in diagnose(s).claims
<1>1. /\ s.gateway_reachable \in BOOLEAN /\ s.dns_ok \in BOOLEAN
      /\ s.ip_connectivity_ok \in BOOLEAN /\ s.control_hosts_ok \in BOOLEAN
      /\ s.target_service_ok \in BOOLEAN /\ s.default_route_present \in BOOLEAN
      /\ s.packet_loss_after_hop1 \in BOOLEAN /\ s.packet_loss_multiple_targets \in BOOLEAN
      /\ s.captive_portal_detected \in BOOLEAN /\ s.ipv6_default_route_present \in BOOLEAN
  BY SnapshotFields DEF Fields
<1>2. /\ s.packet_loss_after_hop1 => s.gateway_reachable
      /\ s.packet_loss_multiple_targets => s.packet_loss_after_hop1
  BY SnapshotFields DEF Producible
<1>3. claim \in build(Decision(s), s).claims /\ diagnose(s) = build(Decision(s), s)
  BY SnapshotFields, TableDecides
<1>4. claim = gateway_evidence(s) /\ gateway_functional(s) => ClaimFollows(claim, s)
  BY <1>1 DEF gateway_evidence, ClaimFollows
<1>a. ASSUME claim = "gateway_reachable", gateway_functional(s),
             gateway_evidence(s) \in diagnose(s).claims \/ "forwarding" \in diagnose(s).claims
      PROVE  \/ ClaimFollows(claim, s)
             \/ Overstates(claim, s) /\ "forwarding" \in diagnose(s).claims
  BY <1>a, <1>1 DEF ClaimFollows, Overstates, gateway_evidence
<1>5. CASE Decision(s) = "ipv6-only"
  <2>1. claim \in {"no_v4_route", "v6_route"}
    BY <1>3, <1>5 DEF build, ipv6_only, Diagnosis
  <2>2. QED
    BY <1>1, <1>5, <2>1 DEF Decision, ClaimFollows
<1>6. CASE Decision(s) = "local-device"
  <2>1. claim = "no_v4_route"
    BY <1>3, <1>6 DEF build, local_device, Diagnosis
  <2>2. QED
    BY <1>1, <1>6, <2>1 DEF Decision, ClaimFollows
<1>7. CASE Decision(s) = "router-gateway"
  <2>1. claim \in {"gateway_silent", "external_failed"}
    BY <1>3, <1>7 DEF build, router_gateway, Diagnosis
  <2>2. QED
    BY <1>1, <1>7, <2>1 DEF Decision, ClaimFollows, gateway_functional
<1>8. CASE Decision(s) = "captive-portal"
  <2>1. /\ claim \in {"gateway_reachable", "forwarding", "portal_intercepts"}
        /\ "forwarding" \in diagnose(s).claims
    BY <1>3, <1>8 DEF build, captive_portal, Diagnosis
  <2>2. gateway_functional(s) /\ s.captive_portal_detected
    BY <1>1, <1>8 DEF Decision
  <2>3. QED
    BY <1>a, <2>1, <2>2 DEF ClaimFollows
<1>9. CASE Decision(s) = "wan-gateway"
  <2>1. /\ claim \in {"gateway_reachable", gateway_evidence(s), "canary_failed", "dns_failed"}
        /\ gateway_evidence(s) \in diagnose(s).claims
    BY <1>3, <1>9 DEF build, wan_gateway, Diagnosis
  <2>2. gateway_functional(s) /\ ~s.dns_ok /\ ~s.ip_connectivity_ok
    BY <1>1, <1>9 DEF Decision
  <2>3. QED
    BY <1>a, <1>4, <2>1, <2>2 DEF ClaimFollows
<1>10. CASE Decision(s) = "dns"
  <2>1. claim \in {gateway_evidence(s), "canary_works", "dns_failed"}
    BY <1>3, <1>10 DEF build, dns, Diagnosis
  <2>2. gateway_functional(s) /\ ~s.dns_ok /\ s.ip_connectivity_ok
    BY <1>1, <1>10 DEF Decision
  <2>3. QED
    BY <1>4, <2>1, <2>2 DEF ClaimFollows
<1>11. CASE Decision(s) = "isp-upstream"
  <2>1. claim \in {gateway_evidence(s), "dns_works", "gateway_answers",
                   "two_destinations_lossy"}
    BY <1>3, <1>11 DEF build, isp_upstream, Diagnosis
  <2>2. /\ gateway_functional(s) /\ s.dns_ok /\ s.packet_loss_multiple_targets
        /\ s.gateway_reachable
    BY <1>1, <1>2, <1>11 DEF Decision
  <2>3. QED
    BY <1>4, <2>1, <2>2 DEF ClaimFollows
<1>12. CASE Decision(s) = "remote-service"
  <2>1. claim \in {"controls_work", "target_failed"}
    BY <1>3, <1>12 DEF build, remote_service, Diagnosis
  <2>2. QED
    BY <1>1, <1>12, <2>1 DEF Decision, ClaimFollows
<1>13. CASE Decision(s) = "healthy"
  <2>1. /\ claim \in {"gateway_reachable", gateway_evidence(s), "dns_works", "canary_works",
                      "controls_work", "target_works", "no_loss"}
        /\ gateway_evidence(s) \in diagnose(s).claims
    BY <1>3, <1>13 DEF build, healthy, Diagnosis
  <2>2. /\ gateway_functional(s) /\ s.dns_ok /\ s.ip_connectivity_ok
        /\ s.control_hosts_ok /\ s.target_service_ok /\ ~s.packet_loss_after_hop1
    BY <1>1, <1>13 DEF Decision
  <2>3. QED
    BY <1>a, <1>4, <2>1, <2>2 DEF ClaimFollows
<1>14. CASE Decision(s) = "inconclusive"
  BY <1>3, <1>14 DEF build, inconclusive, Diagnosis
<1>15. QED
  BY DecisionIsBoundary, <1>5, <1>6, <1>7, <1>8, <1>9, <1>10, <1>11, <1>12, <1>13, <1>14
     DEF TenBoundaries

\* A vantage adds one claim of its own, and keeps the confidence within its bounds
\* (engine.py:329-371).
LEMMA RefinementIsTyped ==
  ASSUME NEW d \in [boundary : BOUNDARIES, confidence : 50..99, claims : SUBSET Claims],
         NEW vantage \in VantageSlice
  PROVE  /\ refine(d, vantage)
              \in [boundary : BOUNDARIES, confidence : 50..99, claims : SUBSET Claims]
         /\ refine(d, vantage).boundary = d.boundary
         /\ d.claims \subseteq refine(d, vantage).claims
         /\ refine(d, vantage).claims \subseteq d.claims \cup VantageClaims
         /\ d.boundary \notin VANTAGE_REFINABLE => refine(d, vantage) = d
         /\ refine(d, vantage).confidence < d.confidence =>
              /\ d.boundary = "remote-service"
              /\ "reachable_elsewhere" \in refine(d, vantage).claims
<1> DEFINE r == Refined(d.boundary, vantage.target_reachable_externally, d.confidence)
<1>1. vantage.consulted \in BOOLEAN /\ vantage.target_reachable_externally \in BOOLEAN
  <2>1. CASE vantage = Unconsulted
    BY <2>1 DEF Unconsulted
  <2>2. CASE vantage # Unconsulted
    <3>1. PICK known \in BOOLEAN :
            vantage = [consulted |-> TRUE, target_reachable_externally |-> known]
      BY <2>2 DEF VantageSlice
    <3>2. QED
      BY <3>1
  <2>3. QED
    BY <2>1, <2>2
<1>2. /\ r.confidence \in 50..99 /\ r.claim \in VantageClaims
      /\ r.confidence < d.confidence =>
           d.boundary = "remote-service" /\ r.claim = "reachable_elsewhere"
  BY <1>1 DEF Refined, AtMost, AtLeast, VantageClaims
<1> HIDE DEF r
<1>3. VantageClaims \subseteq Claims
  BY DEF VantageClaims, Claims
<1>4. CASE ~(vantage.consulted /\ d.boundary \in VANTAGE_REFINABLE)
  <2>1. refine(d, vantage) = d
    BY <1>4 DEF refine
  <2>2. QED
    BY <2>1
<1>5. CASE vantage.consulted /\ d.boundary \in VANTAGE_REFINABLE
  <2>1. refine(d, vantage) = [d EXCEPT !.confidence = r.confidence, !.claims = @ \cup {r.claim}]
    BY <1>5 DEF refine, r
  <2>2. QED
    BY <1>2, <1>3, <1>5, <2>1
<1>6. QED
  BY <1>4, <1>5

-----------------------------------------------------------------------------
\* The verdict and its snapshot

LEMMA VerdictInvInit == Init => VerdictInv
<1> SUFFICES ASSUME Init PROVE VerdictInv
  OBVIOUS
<1>1. diagnosis \in [boundary : BOUNDARIES, confidence : 50..99, claims : SUBSET Claims]
  BY VerdictsAreTyped DEF Init
<1>2. QED
  BY <1>1 DEF Init, VerdictInv, TypeOK

LEMMA VerdictInvInductive == VerdictInv /\ [Next]_vars => VerdictInv'
<1> SUFFICES ASSUME VerdictInv, [Next]_vars PROVE VerdictInv'
  OBVIOUS
<1>1. CASE Poll
  <2>1. diagnosis' \in [boundary : BOUNDARIES, confidence : 50..99, claims : SUBSET Claims]
    BY <1>1, VerdictsAreTyped DEF Poll
  <2>2. QED
    BY <1>1, <2>1 DEF Poll, VerdictInv, TypeOK
<1>2. CASE Consult
  <2>1. PICK vantage \in VantageSlice : diagnosis' = refine(diagnosis, vantage)
    BY <1>2 DEF Consult
  <2>2. diagnosis = diagnose(snapshot) /\ snapshot' = snapshot /\ refined' = TRUE
    BY <1>2 DEF Consult, VerdictInv
  <2>3. /\ diagnosis' \in [boundary : BOUNDARIES, confidence : 50..99, claims : SUBSET Claims]
        /\ diagnosis'.boundary = diagnosis.boundary
        /\ diagnosis.claims \subseteq diagnosis'.claims
        /\ diagnosis'.claims \subseteq diagnosis.claims \cup VantageClaims
    BY <2>1, RefinementIsTyped DEF VerdictInv, TypeOK
  <2>4. QED
    BY <2>2, <2>3 DEF VerdictInv, TypeOK
<1>3. CASE UNCHANGED vars
  BY <1>3 DEF vars, VerdictInv, TypeOK
<1>4. QED
  BY <1>1, <1>2, <1>3 DEF Next

\* Every verdict is typed and belongs to its snapshot, refined or not.
THEOREM VerdictInvHolds == Spec => []VerdictInv
<1>1. QED
  BY VerdictInvInit, VerdictInvInductive, PTL DEF Spec

\* What a verdict claims is true of the signals it was made of, in every row and
\* after refinement, but for the sentence that calls a silent gateway reachable,
\* and that one stands only beside the claim that the gateway forwards
\* (rule builders, engine.py:29-212).
THEOREM ClaimsAreTrue == Spec => []ClaimsFollowSignals
<1>1. ASSUME VerdictInv PROVE ClaimsFollowSignals
  <2>0. diagnose(snapshot).claims \subseteq diagnosis.claims
    BY <1>1 DEF VerdictInv
  <2>1. ASSUME NEW claim \in diagnosis.claims
        PROVE  \/ ClaimFollows(claim, snapshot)
               \/ Overstates(claim, snapshot) /\ "forwarding" \in diagnosis.claims
    <3>1. CASE claim \in VantageClaims
      BY <3>1 DEF VantageClaims, ClaimFollows
    <3>2. CASE claim \in diagnose(snapshot).claims
      BY <1>1, <2>0, <3>2, RowsClaimTruly DEF VerdictInv, TypeOK
    <3>3. QED
      BY <1>1, <2>1, <3>1, <3>2 DEF VerdictInv
  <2>2. QED
    BY <1>1, <2>1 DEF ClaimsFollowSignals, VerdictInv
<1>2. QED
  BY <1>1, VerdictInvHolds, PTL

\* The verdict is where the chain of questions leads.
LEMMA BoundaryIsDecided ==
  VerdictInv => /\ snapshot \in Snapshots
                /\ diagnosis.boundary = Decision(snapshot)
BY SnapshotFields, TableDecides DEF VerdictInv, TypeOK

\* No row that keys on green signals wins once a portal that fakes them is seen
\* (engine.py:262-266).
THEOREM PortalDecides == Spec => []PortalIsDecisive
<1>1. ASSUME VerdictInv PROVE PortalIsDecisive
  <2>1. snapshot \in Snapshots /\ diagnosis.boundary = Decision(snapshot)
    BY <1>1, BoundaryIsDecided
  <2>2. QED
    BY <2>1 DEF PortalIsDecisive, Decision
<1>2. QED
  BY <1>1, VerdictInvHolds, PTL

-----------------------------------------------------------------------------
\* Two verdicts

\* Snapshots that agree but for some fields agree on each of the others.
LEMMA TheRestIsSame ==
  ASSUME NEW s \in Snapshots, NEW t \in Snapshots, NEW fields, SameBut(s, t, fields)
  PROVE  \A field \in Fields \ fields : s[field] = t[field]
BY SnapshotFields DEF SameBut

\* While traffic flows, routes do not count (engine.py:250-254).
THEOREM RoutesDoNotCount == Spec => RoutesIrrelevantWhenForwarding
<1> DEFINE routes == {"ipv6_default_route_present", "default_route_present"}
           Claim == SameBut(snapshot, snapshot', routes) /\ gateway_functional(snapshot)
                      => diagnosis'.boundary = diagnosis.boundary
<1>1. ASSUME VerdictInv, VerdictInv' PROVE Claim
  <2>1. /\ snapshot \in Snapshots /\ snapshot' \in Snapshots
        /\ diagnosis.boundary = Decision(snapshot)
        /\ diagnosis'.boundary = Decision(snapshot')
    BY <1>1, SnapshotFields, TableDecides DEF VerdictInv, TypeOK
  <2>2. SUFFICES ASSUME SameBut(snapshot, snapshot', routes), gateway_functional(snapshot)
                 PROVE  Decision(snapshot') = Decision(snapshot)
    BY <2>1
  <2>3. \A field \in Fields \ routes : snapshot[field] = snapshot'[field]
    BY <2>1, <2>2, TheRestIsSame
  <2>4. QED
    BY <2>2, <2>3 DEF Fields, Decision, gateway_functional
<1>2. QED
  BY <1>1, VerdictInvHolds, VerdictInvInductive, PTL DEF Spec, RoutesIrrelevantWhenForwarding

\* An unanswered ping accuses no boundary while an external host is reached
\* (models.py:36-44, engine.py:240-248).
THEOREM SilenceAccusesNobody == Spec => SilentGatewayAccusesNobody
<1> DEFINE Claim == SameBut(snapshot, snapshot', {"gateway_reachable"})
                      /\ (snapshot.ip_connectivity_ok \/ snapshot.control_hosts_ok)
                      => diagnosis'.boundary = diagnosis.boundary
<1>1. ASSUME VerdictInv, VerdictInv' PROVE Claim
  <2>1. /\ snapshot \in Snapshots /\ snapshot' \in Snapshots
        /\ diagnosis.boundary = Decision(snapshot)
        /\ diagnosis'.boundary = Decision(snapshot')
    BY <1>1, SnapshotFields, TableDecides DEF VerdictInv, TypeOK
  <2>2. SUFFICES ASSUME SameBut(snapshot, snapshot', {"gateway_reachable"}),
                        snapshot.ip_connectivity_ok \/ snapshot.control_hosts_ok
                 PROVE  Decision(snapshot') = Decision(snapshot)
    BY <2>1
  <2>3. \A field \in Fields \ {"gateway_reachable"} : snapshot[field] = snapshot'[field]
    BY <2>1, <2>2, TheRestIsSame
  <2>4. QED
    BY <2>2, <2>3 DEF Fields, Decision, gateway_functional
<1>2. QED
  BY <1>1, VerdictInvHolds, VerdictInvInductive, PTL DEF Spec, SilentGatewayAccusesNobody

\* How far out the chain of questions leads, in the order in which it asks.
LEMMA DecisionDistance ==
  ASSUME NEW s
  PROVE  Distance(Decision(s)) =
           IF ~gateway_functional(s) THEN IF s.default_route_present THEN 1 ELSE 0
           ELSE IF s.captive_portal_detected THEN 2
           ELSE IF ~s.dns_ok THEN IF s.ip_connectivity_ok THEN 4 ELSE 3
           ELSE IF s.packet_loss_after_hop1 /\ s.packet_loss_multiple_targets THEN 5
           ELSE IF s.control_hosts_ok /\ ~s.target_service_ok THEN 6
           ELSE IF Decision(s) = "healthy" THEN 7 ELSE 8
BY DEF Decision, Distance

\* What got no worse from one snapshot to another, field by field.
LEMMA NoWorseFields ==
  ASSUME NEW s \in Snapshots, NEW t \in Snapshots, NoWorse(s, t)
  PROVE  /\ s.gateway_reachable => t.gateway_reachable
         /\ s.dns_ok => t.dns_ok
         /\ s.ip_connectivity_ok => t.ip_connectivity_ok
         /\ s.control_hosts_ok => t.control_hosts_ok
         /\ s.target_service_ok => t.target_service_ok
         /\ s.default_route_present => t.default_route_present
         /\ t.packet_loss_after_hop1 => s.packet_loss_after_hop1
         /\ t.packet_loss_multiple_targets => s.packet_loss_multiple_targets
         /\ t.captive_portal_detected => s.captive_portal_detected
BY SnapshotFields DEF NoWorse, FaultSignals, Fields

\* The order of the rows is monotone: repairs move the blame away from the user, and
\* leave a healthy verdict healthy (engine.py:236-238).
THEOREM RepairsLeadOutward == Spec => RepairMovesBlameOutward
<1> DEFINE Claim ==
      NoWorse(snapshot, snapshot')
        => \/ Distance(diagnosis'.boundary) >= Distance(diagnosis.boundary)
                 /\ (diagnosis.boundary = "healthy" => diagnosis'.boundary = "healthy")
           \/ diagnosis.boundary = "inconclusive"
<1>1. ASSUME VerdictInv, VerdictInv' PROVE Claim
  <2>1. /\ snapshot \in Snapshots /\ snapshot' \in Snapshots
        /\ diagnosis.boundary = Decision(snapshot)
        /\ diagnosis'.boundary = Decision(snapshot')
    BY <1>1, SnapshotFields, TableDecides DEF VerdictInv, TypeOK
  <2>2. ASSUME NEW s \in Snapshots, NEW t \in Snapshots, NoWorse(s, t),
               Decision(s) # "inconclusive"
        PROVE  /\ Distance(Decision(t)) >= Distance(Decision(s))
               /\ Decision(s) = "healthy" => Decision(t) = "healthy"
    <3>1. /\ s.packet_loss_after_hop1 => s.gateway_reachable
          /\ s.packet_loss_multiple_targets => s.packet_loss_after_hop1
          /\ t.packet_loss_multiple_targets => t.packet_loss_after_hop1
      BY SnapshotFields DEF Producible
    <3>2. Decision(s) = "healthy" => Decision(t) = "healthy"
      BY <2>2, <3>1, NoWorseFields DEF Decision, gateway_functional
    <3>3. QED
      BY <2>2, <3>1, <3>2, NoWorseFields, DecisionDistance, SnapshotFields
         DEF Decision, gateway_functional, Fields
  <2>3. QED
    BY <2>1, <2>2
<1>2. QED
  BY <1>1, VerdictInvHolds, VerdictInvInductive, PTL DEF Spec, RepairMovesBlameOutward

-----------------------------------------------------------------------------
\* A verdict and a vantage

\* A vantage only nudges (engine.py:329-371).
THEOREM VantageNudges == Spec => VantageOnlyNudges
<1> DEFINE Claim ==
      refined' /\ ~refined =>
        /\ diagnosis'.boundary = diagnosis.boundary
        /\ diagnosis.claims \subseteq diagnosis'.claims
        /\ Distance(diagnosis.boundary) \notin 5..6 => diagnosis' = diagnosis
        /\ diagnosis'.confidence < diagnosis.confidence
             => /\ diagnosis.boundary = "remote-service"
                /\ "reachable_elsewhere" \in diagnosis'.claims
<1>1. ASSUME VerdictInv, [Next]_vars PROVE Claim
  <2>1. SUFFICES ASSUME refined', ~refined PROVE Claim
    OBVIOUS
  <2>2. PICK vantage \in VantageSlice : diagnosis' = refine(diagnosis, vantage)
    BY <1>1, <2>1 DEF Next, vars, Poll, Consult
  <2>3. diagnosis.boundary \in VANTAGE_REFINABLE => Distance(diagnosis.boundary) \in 5..6
    BY DEF VANTAGE_REFINABLE, Distance
  <2>4. QED
    BY <1>1, <2>2, <2>3, RefinementIsTyped DEF VerdictInv, TypeOK
<1>2. QED
  BY <1>1, VerdictInvHolds, PTL DEF Spec, VantageOnlyNudges
=============================================================================
