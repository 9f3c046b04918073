--------------------------- MODULE OperatorLemmas ---------------------------
(***************************************************************************)
(* What the pure operators of the models yield, whatever they are applied  *)
(* to: Ranked sorts, and the engine's table decides every snapshot, as the  *)
(* chain of questions it is read as does, and is only nudged afterwards.   *)
(***************************************************************************)
EXTENDS Engine, Ranking, FiniteSetTheorems, SequenceTheorems, WellFoundedInduction,
        TLAPS

(* Ranked lists every element once, each after those before it. *)

StrictOrder(S, before) ==
  /\ \A x \in S : <<x, x>> \notin before
  /\ \A x, y \in S : x # y => <<x, y>> \in before \/ <<y, x>> \in before
  /\ \A x, y, z \in S : <<x, y>> \in before /\ <<y, z>> \in before => <<x, z>> \in before

\* What has fewer elements before it has a lower rank, and ranks are places.
LEMMA RankGrows ==
  ASSUME NEW S, IsFiniteSet(S), NEW before, StrictOrder(S, before), NEW x \in S
  PROVE  /\ Rank(x, S, before) \in 1..Cardinality(S)
         /\ \A y \in S : <<x, y>> \in before => Rank(x, S, before) < Rank(y, S, before)
<1> DEFINE Below(z) == {w \in S : <<w, z>> \in before}
<1>1. \A z \in S : /\ Below(z) \subseteq S
                   /\ z \notin Below(z)
                   /\ Rank(z, S, before) = Cardinality(Below(z)) + 1
  BY DEF StrictOrder, Rank
<1>2. ASSUME NEW y \in S, <<x, y>> \in before
      PROVE  Below(x) \subseteq Below(y) /\ x \in Below(y)
  BY <1>2 DEF StrictOrder
<1> HIDE DEF Below
<1>3. \A T \in SUBSET S : IsFiniteSet(T) /\ Cardinality(T) \in Nat
  BY FS_Subset, FS_CardinalityType
<1>4. ASSUME NEW T \in SUBSET S, NEW U \in SUBSET T, U # T
      PROVE  Cardinality(U) < Cardinality(T)
  <2>1. IsFiniteSet(T) /\ Cardinality(T) \in Nat /\ Cardinality(U) \in Nat
    BY <1>3
  <2>2. Cardinality(U) <= Cardinality(T) /\ Cardinality(T) # Cardinality(U)
    BY <1>4, <2>1, FS_Subset
  <2>3. QED
    BY <2>1, <2>2
<1>5. Rank(x, S, before) \in 1..Cardinality(S)
  <2>1. Below(x) \in SUBSET S /\ Below(x) # S
    BY <1>1
  <2>2. Cardinality(Below(x)) < Cardinality(S)
    BY <1>4, <2>1
  <2>3. QED
    BY <1>1, <1>3, <2>1, <2>2
<1>6. ASSUME NEW y \in S, <<x, y>> \in before
      PROVE  Rank(x, S, before) < Rank(y, S, before)
  <2>1. Below(y) \in SUBSET S /\ Below(x) \in SUBSET Below(y) /\ Below(x) # Below(y)
    BY <1>1, <1>2, <1>6
  <2>2. Cardinality(Below(x)) < Cardinality(Below(y))
    BY <1>4, <2>1
  <2>3. QED
    BY <1>1, <1>3, <2>1, <2>2
<1>7. QED
  BY <1>5, <1>6

\* Whatever is sorted, every element is listed, and in order.
THEOREM RankedSorts ==
  ASSUME NEW S, IsFiniteSet(S), NEW before, StrictOrder(S, before)
  PROVE  /\ Ranked(S, before) \in [1..Cardinality(S) -> S]
         /\ \A x \in S : \E k \in 1..Cardinality(S) : Ranked(S, before)[k] = x
         /\ \A i, j \in 1..Cardinality(S) :
              i < j => <<Ranked(S, before)[i], Ranked(S, before)[j]>> \in before
<1> DEFINE n == Cardinality(S)
           rank == [x \in S |-> Rank(x, S, before)]
           list == Ranked(S, before)
<1>1. n \in Nat /\ IsFiniteSet(1..n) /\ Cardinality(1..n) = n
  BY FS_CardinalityType, FS_Interval
<1>2. /\ rank \in [S -> 1..n]
      /\ \A x, y \in S : <<x, y>> \in before => rank[x] < rank[y]
  BY RankGrows
<1>3. \A x, y \in S : rank[x] = rank[y] => x = y
  <2> HIDE DEF rank, n
  <2>1. \A x \in S : rank[x] \in Int
    BY <1>1, <1>2
  <2>2. ASSUME NEW x \in S, NEW y \in S, x # y PROVE rank[x] # rank[y]
    <3>1. <<x, y>> \in before \/ <<y, x>> \in before
      BY <2>2 DEF StrictOrder
    <3>2. rank[x] < rank[y] \/ rank[y] < rank[x]
      BY <1>2, <3>1
    <3>3. QED
      BY <2>1, <3>2
  <2>3. QED
    BY <2>2
<1>4. \A k \in 1..n : \E x \in S : rank[x] = k
  <2> HIDE DEF rank, n
  <2>1. rank \in Injection(S, 1..n)
    BY <1>2, <1>3 DEF Injection, IsInjective
  <2>2. rank \in Surjection(S, 1..n)
    BY <1>1, <2>1, FS_Injection DEF n
  <2>3. QED
    BY <2>2 DEF Surjection
<1>5. list \in [1..n -> S] /\ \A k \in 1..n : rank[list[k]] = k
  BY <1>4 DEF Ranked
<1>6. \A x \in S : rank[x] \in 1..n /\ list[rank[x]] = x
  <2> HIDE DEF rank, list, n
  <2>1. QED
    BY <1>2, <1>3, <1>5
<1>7. ASSUME NEW i \in 1..n, NEW j \in 1..n, i < j
      PROVE  <<list[i], list[j]>> \in before
  <2> HIDE DEF rank, list, n
  <2>1. list[i] \in S /\ list[j] \in S /\ rank[list[i]] = i /\ rank[list[j]] = j
    BY <1>5
  <2>2. list[i] # list[j] /\ <<list[j], list[i]>> \notin before
    BY <1>1, <1>2, <1>7, <2>1
  <2>3. QED
    BY <2>1, <2>2 DEF StrictOrder
<1>8. QED
  BY <1>5, <1>6, <1>7

\* Every set of numbers that is not empty has a least one.
LEMMA LeastNatural ==
  ASSUME NEW T \in SUBSET Nat, T # {}
  PROVE  \E m \in T : \A k \in T : m <= k
<1>1. \E m \in T : \A k \in T : <<k, m>> \notin OpToRel(<, Nat)
  BY NatLessThanWellFounded, WFMin
<1>2. \A k, m \in Nat : k < m => <<k, m>> \in OpToRel(<, Nat)
  BY DEF OpToRel
<1>3. PICK m \in T : \A k \in T : <<k, m>> \notin OpToRel(<, Nat)
  BY <1>1
<1>4. ASSUME NEW k \in T PROVE m <= k
  <2>1. m \in Nat /\ k \in Nat /\ ~(k < m)
    BY <1>2, <1>3
  <2>2. QED
    BY <2>1
<1>5. QED
  BY <1>4

-----------------------------------------------------------------------------
(* The decision table: ten rows, and what they decide together. *)

\* The ten rows, top to bottom (engine.py:235-312).
LEMMA TenRows ==
  /\ Len(RULES) = 10 /\ DOMAIN RULES = 1..10
  /\ RULES[1] = LAN_RULES[1] /\ RULES[2] = LAN_RULES[2] /\ RULES[3] = LAN_RULES[3]
  /\ RULES[4] = PORTAL_RULES[1]
  /\ RULES[5] = WAN_RULES[1] /\ RULES[6] = WAN_RULES[2]
  /\ RULES[7] = UPSTREAM_RULES[1] /\ RULES[8] = SERVICE_RULES[1]
  /\ RULES[9] = VERDICT_RULES[1] /\ RULES[10] = VERDICT_RULES[2]
<1>1. /\ LAN_RULES = <<LAN_RULES[1], LAN_RULES[2], LAN_RULES[3]>>
      /\ PORTAL_RULES = <<PORTAL_RULES[1]>>
      /\ WAN_RULES = <<WAN_RULES[1], WAN_RULES[2]>>
      /\ UPSTREAM_RULES = <<UPSTREAM_RULES[1]>>
      /\ SERVICE_RULES = <<SERVICE_RULES[1]>>
      /\ VERDICT_RULES = <<VERDICT_RULES[1], VERDICT_RULES[2]>>
  BY DEF LAN_RULES, PORTAL_RULES, WAN_RULES, UPSTREAM_RULES, SERVICE_RULES, VERDICT_RULES
<1>3. RULES = <<LAN_RULES[1], LAN_RULES[2], LAN_RULES[3]>> \o <<PORTAL_RULES[1]>>
                \o <<WAN_RULES[1], WAN_RULES[2]>> \o <<UPSTREAM_RULES[1]>>
                \o <<SERVICE_RULES[1]>> \o <<VERDICT_RULES[1], VERDICT_RULES[2]>>
  BY <1>1, Zenon DEF RULES
<1>4. Len(RULES) = 10
  BY <1>3
<1>5. RULES[1] = LAN_RULES[1] /\ RULES[2] = LAN_RULES[2] /\ RULES[3] = LAN_RULES[3]
  BY <1>3
<1>6. RULES[4] = PORTAL_RULES[1] /\ RULES[5] = WAN_RULES[1]
  BY <1>3
<1>7. RULES[6] = WAN_RULES[2]
  BY <1>3
<1>8. RULES[7] = UPSTREAM_RULES[1]
  <2> DEFINE to6  == <<LAN_RULES[1], LAN_RULES[2], LAN_RULES[3]>> \o <<PORTAL_RULES[1]>>
                       \o <<WAN_RULES[1], WAN_RULES[2]>>
             row7 == <<UPSTREAM_RULES[1]>>
             row8 == <<SERVICE_RULES[1]>>
             last == <<VERDICT_RULES[1], VERDICT_RULES[2]>>
             S    == {LAN_RULES[1], LAN_RULES[2], LAN_RULES[3], PORTAL_RULES[1],
                      WAN_RULES[1], WAN_RULES[2], UPSTREAM_RULES[1], SERVICE_RULES[1],
                      VERDICT_RULES[1], VERDICT_RULES[2]}
  <2>1. to6 \in Seq(S) /\ Len(to6) = 6
    <3>1. to6 \in Seq(S)
      OBVIOUS
    <3>2. Len(to6) = 6
      OBVIOUS
    <3>3. QED
      BY <3>1, <3>2
  <2>2. row7 \in Seq(S) /\ row8 \in Seq(S) /\ last \in Seq(S)
    OBVIOUS
  <2>3. Len(row7) = 1 /\ Len(row8) = 1 /\ Len(last) = 2 /\ row7[1] = UPSTREAM_RULES[1]
    OBVIOUS
  <2>4. RULES = to6 \o row7 \o row8 \o last
    BY <1>3
  <2> HIDE DEF to6, row7, row8, last, S
  <2>5. to6 \o row7 \in Seq(S) /\ Len(to6 \o row7) = 7 /\ (to6 \o row7)[7] = row7[1]
    <3>1. /\ to6 \o row7 \in Seq(S) /\ Len(to6 \o row7) = Len(to6) + Len(row7)
          /\ \A i \in 1..(Len(to6) + Len(row7)) :
               (to6 \o row7)[i] = IF i <= Len(to6) THEN to6[i] ELSE row7[i - Len(to6)]
      BY <2>1, <2>2, ConcatProperties
    <3>2. 7 \in 1..(Len(to6) + Len(row7)) /\ ~(7 <= Len(to6)) /\ 7 - Len(to6) = 1
      BY <2>1, <2>3
    <3>3. (to6 \o row7)[7] = row7[7 - Len(to6)]
      BY <3>1, <3>2
    <3>4. QED
      BY <2>1, <2>3, <3>1, <3>2, <3>3
  <2>6. /\ to6 \o row7 \o row8 \in Seq(S) /\ Len(to6 \o row7 \o row8) = 8
        /\ (to6 \o row7 \o row8)[7] = (to6 \o row7)[7]
    BY <2>2, <2>3, <2>5, ConcatProperties
  <2>7. (to6 \o row7 \o row8 \o last)[7] = (to6 \o row7 \o row8)[7]
    BY <2>2, <2>3, <2>6, ConcatProperties
  <2>8. QED
    BY <2>3, <2>4, <2>5, <2>6, <2>7
<1>9. RULES[8] = SERVICE_RULES[1]
  BY <1>3
<1>10. RULES[9] = VERDICT_RULES[1] /\ RULES[10] = VERDICT_RULES[2]
  BY <1>3
<1>11. RULES \in Seq({LAN_RULES[1], LAN_RULES[2], LAN_RULES[3], PORTAL_RULES[1],
                      WAN_RULES[1], WAN_RULES[2], UPSTREAM_RULES[1],
                      SERVICE_RULES[1], VERDICT_RULES[1], VERDICT_RULES[2]})
  BY <1>3
<1>12. QED
  BY <1>4, <1>5, <1>6, <1>7, <1>8, <1>9, <1>10, <1>11

\* What each row blames, and what it asks of a snapshot.
RowNames ==
  <<"ipv6-only", "local-device", "router-gateway", "captive-portal", "wan-gateway", "dns",
    "isp-upstream", "remote-service", "healthy", "inconclusive">>

RowAsks(i, s) ==
  CASE i = 1  -> /\ ~gateway_functional(s) /\ ~s.default_route_present
                 /\ s.ipv6_default_route_present
    [] i = 2  -> ~gateway_functional(s) /\ ~s.default_route_present
    [] i = 3  -> ~gateway_functional(s)
    [] i = 4  -> gateway_functional(s) /\ s.captive_portal_detected
    [] i = 5  -> gateway_functional(s) /\ ~s.ip_connectivity_ok /\ ~s.dns_ok
    [] i = 6  -> s.ip_connectivity_ok /\ ~s.dns_ok
    [] i = 7  -> /\ gateway_functional(s) /\ s.dns_ok
                 /\ s.packet_loss_after_hop1 /\ s.packet_loss_multiple_targets
    [] i = 8  -> /\ gateway_functional(s) /\ s.dns_ok
                 /\ s.control_hosts_ok /\ ~s.target_service_ok
    [] i = 9  -> /\ gateway_functional(s) /\ s.dns_ok /\ s.ip_connectivity_ok
                 /\ s.control_hosts_ok /\ s.target_service_ok
                 /\ ~s.packet_loss_after_hop1 /\ ~s.packet_loss_multiple_targets
    [] i = 10 -> TRUE

\* The fields of each row, read as a condition (engine.py:235-312).
LEMMA RowsAsk ==
  ASSUME NEW s \in SignalSnapshot, NEW i \in 1..10
  PROVE  /\ matches(RULES[i], s) <=> RowAsks(i, s)
         /\ RULES[i].boundary = RowNames[i]
<1> DEFINE gf == gateway_functional(s)
<1>1. /\ gf \in BOOLEAN /\ s.default_route_present \in BOOLEAN
      /\ s.ipv6_default_route_present \in BOOLEAN /\ s.captive_portal_detected \in BOOLEAN
      /\ s.ip_connectivity_ok \in BOOLEAN /\ s.dns_ok \in BOOLEAN
      /\ s.control_hosts_ok \in BOOLEAN /\ s.target_service_ok \in BOOLEAN
      /\ s.packet_loss_after_hop1 \in BOOLEAN /\ s.packet_loss_multiple_targets \in BOOLEAN
  BY DEF SignalSnapshot, gateway_functional
<1>2. /\ Attr(s, "gateway_functional") = gf
      /\ Attr(s, "default_route_present") = s.default_route_present
      /\ Attr(s, "ipv6_default_route_present") = s.ipv6_default_route_present
      /\ Attr(s, "captive_portal_detected") = s.captive_portal_detected
      /\ Attr(s, "ip_connectivity_ok") = s.ip_connectivity_ok
      /\ Attr(s, "dns_ok") = s.dns_ok
      /\ Attr(s, "control_hosts_ok") = s.control_hosts_ok
      /\ Attr(s, "target_service_ok") = s.target_service_ok
      /\ Attr(s, "packet_loss_after_hop1") = s.packet_loss_after_hop1
      /\ Attr(s, "packet_loss_multiple_targets") = s.packet_loss_multiple_targets
  BY DEF Attr
<1> HIDE DEF gf
<1>3. CASE i = 1
  <2> DEFINE match == [gateway_functional |-> FALSE, default_route_present |-> FALSE,
                    ipv6_default_route_present |-> TRUE]
  <2>1. RULES[1].match = match /\ RULES[1].boundary = RowNames[1]
    <3>1. RULES[1] = Row("ipv6-only", match)
      BY TenRows DEF LAN_RULES
    <3>2. RowNames[1] = "ipv6-only"
      BY DEF RowNames
    <3> HIDE DEF match
    <3>3. QED
      BY <3>1, <3>2 DEF Row
  <2>2. DOMAIN match = {"gateway_functional", "default_route_present",
                           "ipv6_default_route_present"}
    OBVIOUS
  <2>3. /\ match["gateway_functional"] = FALSE
        /\ match["default_route_present"] = FALSE
        /\ match["ipv6_default_route_present"] = TRUE
    OBVIOUS
  <2> HIDE DEF match
  <2>4. matches(RULES[1], s) <=>
          /\ Attr(s, "gateway_functional") = FALSE
          /\ Attr(s, "default_route_present") = FALSE
          /\ Attr(s, "ipv6_default_route_present") = TRUE
    BY <2>1, <2>2, <2>3 DEF matches
  <2>5. QED
    BY <1>1, <1>2, <1>3, <2>1, <2>4 DEF RowAsks, gf
<1>4. CASE i = 2
  <2> DEFINE match == [gateway_functional |-> FALSE, default_route_present |-> FALSE]
  <2>1. RULES[2].match = match /\ RULES[2].boundary = RowNames[2]
    <3>1. RULES[2] = Row("local-device", match)
      BY TenRows DEF LAN_RULES
    <3>2. RowNames[2] = "local-device"
      BY DEF RowNames
    <3> HIDE DEF match
    <3>3. QED
      BY <3>1, <3>2 DEF Row
  <2>2. DOMAIN match = {"gateway_functional", "default_route_present"}
    OBVIOUS
  <2>3. /\ match["gateway_functional"] = FALSE
        /\ match["default_route_present"] = FALSE
    OBVIOUS
  <2> HIDE DEF match
  <2>4. matches(RULES[2], s) <=>
          /\ Attr(s, "gateway_functional") = FALSE
          /\ Attr(s, "default_route_present") = FALSE
    BY <2>1, <2>2, <2>3 DEF matches
  <2>5. QED
    BY <1>1, <1>2, <1>4, <2>1, <2>4 DEF RowAsks, gf
<1>5. CASE i = 3
  <2> DEFINE match == [gateway_functional |-> FALSE]
  <2>1. RULES[3].match = match /\ RULES[3].boundary = RowNames[3]
    <3>1. RULES[3] = Row("router-gateway", match)
      BY TenRows DEF LAN_RULES
    <3>2. RowNames[3] = "router-gateway"
      BY DEF RowNames
    <3> HIDE DEF match
    <3>3. QED
      BY <3>1, <3>2 DEF Row
  <2>2. DOMAIN match = {"gateway_functional"}
    OBVIOUS
  <2>3. /\ match["gateway_functional"] = FALSE
    OBVIOUS
  <2> HIDE DEF match
  <2>4. matches(RULES[3], s) <=>
          /\ Attr(s, "gateway_functional") = FALSE
    BY <2>1, <2>2, <2>3 DEF matches
  <2>5. QED
    BY <1>1, <1>2, <1>5, <2>1, <2>4 DEF RowAsks, gf
<1>6. CASE i = 4
  <2> DEFINE match == [gateway_functional |-> TRUE, captive_portal_detected |-> TRUE]
  <2>1. RULES[4].match = match /\ RULES[4].boundary = RowNames[4]
    <3>1. RULES[4] = Row("captive-portal", match)
      BY TenRows DEF PORTAL_RULES
    <3>2. RowNames[4] = "captive-portal"
      BY DEF RowNames
    <3> HIDE DEF match
    <3>3. QED
      BY <3>1, <3>2 DEF Row
  <2>2. DOMAIN match = {"gateway_functional", "captive_portal_detected"}
    OBVIOUS
  <2>3. /\ match["gateway_functional"] = TRUE
        /\ match["captive_portal_detected"] = TRUE
    OBVIOUS
  <2> HIDE DEF match
  <2>4. matches(RULES[4], s) <=>
          /\ Attr(s, "gateway_functional") = TRUE
          /\ Attr(s, "captive_portal_detected") = TRUE
    BY <2>1, <2>2, <2>3 DEF matches
  <2>5. QED
    BY <1>1, <1>2, <1>6, <2>1, <2>4 DEF RowAsks, gf
<1>7. CASE i = 5
  <2> DEFINE match == [gateway_functional |-> TRUE, ip_connectivity_ok |-> FALSE, dns_ok |->
                    FALSE]
  <2>1. RULES[5].match = match /\ RULES[5].boundary = RowNames[5]
    <3>1. RULES[5] = Row("wan-gateway", match)
      BY TenRows DEF WAN_RULES
    <3>2. RowNames[5] = "wan-gateway"
      BY DEF RowNames
    <3> HIDE DEF match
    <3>3. QED
      BY <3>1, <3>2 DEF Row
  <2>2. DOMAIN match = {"gateway_functional", "ip_connectivity_ok", "dns_ok"}
    OBVIOUS
  <2>3. /\ match["gateway_functional"] = TRUE
        /\ match["ip_connectivity_ok"] = FALSE
        /\ match["dns_ok"] = FALSE
    OBVIOUS
  <2> HIDE DEF match
  <2>4. matches(RULES[5], s) <=>
          /\ Attr(s, "gateway_functional") = TRUE
          /\ Attr(s, "ip_connectivity_ok") = FALSE
          /\ Attr(s, "dns_ok") = FALSE
    BY <2>1, <2>2, <2>3 DEF matches
  <2>5. QED
    BY <1>1, <1>2, <1>7, <2>1, <2>4 DEF RowAsks, gf
<1>8. CASE i = 6
  <2> DEFINE match == [ip_connectivity_ok |-> TRUE, dns_ok |-> FALSE]
  <2>1. RULES[6].match = match /\ RULES[6].boundary = RowNames[6]
    <3>1. RULES[6] = Row("dns", match)
      BY TenRows DEF WAN_RULES
    <3>2. RowNames[6] = "dns"
      BY DEF RowNames
    <3> HIDE DEF match
    <3>3. QED
      BY <3>1, <3>2 DEF Row
  <2>2. DOMAIN match = {"ip_connectivity_ok", "dns_ok"}
    OBVIOUS
  <2>3. /\ match["ip_connectivity_ok"] = TRUE
        /\ match["dns_ok"] = FALSE
    OBVIOUS
  <2> HIDE DEF match
  <2>4. matches(RULES[6], s) <=>
          /\ Attr(s, "ip_connectivity_ok") = TRUE
          /\ Attr(s, "dns_ok") = FALSE
    BY <2>1, <2>2, <2>3 DEF matches
  <2>5. QED
    BY <1>1, <1>2, <1>8, <2>1, <2>4 DEF RowAsks, gf
<1>9. CASE i = 7
  <2> DEFINE match == [gateway_functional |-> TRUE, dns_ok |-> TRUE, packet_loss_after_hop1 |->
                    TRUE, packet_loss_multiple_targets |-> TRUE]
  <2>1. RULES[7].match = match /\ RULES[7].boundary = RowNames[7]
    <3>1. RULES[7] = Row("isp-upstream", match)
      BY TenRows DEF UPSTREAM_RULES
    <3>2. RowNames[7] = "isp-upstream"
      BY DEF RowNames
    <3> HIDE DEF match
    <3>3. QED
      BY <3>1, <3>2 DEF Row
  <2>2. DOMAIN match = {"gateway_functional", "dns_ok", "packet_loss_after_hop1",
                           "packet_loss_multiple_targets"}
    OBVIOUS
  <2>3. /\ match["gateway_functional"] = TRUE
        /\ match["dns_ok"] = TRUE
        /\ match["packet_loss_after_hop1"] = TRUE
        /\ match["packet_loss_multiple_targets"] = TRUE
    OBVIOUS
  <2> HIDE DEF match
  <2>4. matches(RULES[7], s) <=>
          /\ Attr(s, "gateway_functional") = TRUE
          /\ Attr(s, "dns_ok") = TRUE
          /\ Attr(s, "packet_loss_after_hop1") = TRUE
          /\ Attr(s, "packet_loss_multiple_targets") = TRUE
    BY <2>1, <2>2, <2>3 DEF matches
  <2>5. QED
    BY <1>1, <1>2, <1>9, <2>1, <2>4 DEF RowAsks, gf
<1>10. CASE i = 8
  <2> DEFINE match == [gateway_functional |-> TRUE, dns_ok |-> TRUE, control_hosts_ok |-> TRUE,
                    target_service_ok |-> FALSE]
  <2>1. RULES[8].match = match /\ RULES[8].boundary = RowNames[8]
    <3>1. RULES[8] = Row("remote-service", match)
      BY TenRows DEF SERVICE_RULES
    <3>2. RowNames[8] = "remote-service"
      BY DEF RowNames
    <3> HIDE DEF match
    <3>3. QED
      BY <3>1, <3>2 DEF Row
  <2>2. DOMAIN match = {"gateway_functional", "dns_ok", "control_hosts_ok", "target_service_ok"}
    OBVIOUS
  <2>3. /\ match["gateway_functional"] = TRUE
        /\ match["dns_ok"] = TRUE
        /\ match["control_hosts_ok"] = TRUE
        /\ match["target_service_ok"] = FALSE
    OBVIOUS
  <2> HIDE DEF match
  <2>4. matches(RULES[8], s) <=>
          /\ Attr(s, "gateway_functional") = TRUE
          /\ Attr(s, "dns_ok") = TRUE
          /\ Attr(s, "control_hosts_ok") = TRUE
          /\ Attr(s, "target_service_ok") = FALSE
    BY <2>1, <2>2, <2>3 DEF matches
  <2>5. QED
    BY <1>1, <1>2, <1>10, <2>1, <2>4 DEF RowAsks, gf
<1>11. CASE i = 9
  <2> DEFINE match == [gateway_functional |-> TRUE, dns_ok |-> TRUE, ip_connectivity_ok |->
                    TRUE, control_hosts_ok |-> TRUE, target_service_ok
                    |-> TRUE, packet_loss_after_hop1 |-> FALSE,
                    packet_loss_multiple_targets |-> FALSE]
  <2>1. RULES[9].match = match /\ RULES[9].boundary = RowNames[9]
    <3>1. RULES[9] = Row("healthy", match)
      BY TenRows DEF VERDICT_RULES
    <3>2. RowNames[9] = "healthy"
      BY DEF RowNames
    <3> HIDE DEF match
    <3>3. QED
      BY <3>1, <3>2 DEF Row
  <2>2. DOMAIN match = {"gateway_functional", "dns_ok", "ip_connectivity_ok",
                           "control_hosts_ok", "target_service_ok",
                           "packet_loss_after_hop1",
                           "packet_loss_multiple_targets"}
    OBVIOUS
  <2>3. /\ match["gateway_functional"] = TRUE
        /\ match["dns_ok"] = TRUE
        /\ match["ip_connectivity_ok"] = TRUE
        /\ match["control_hosts_ok"] = TRUE
        /\ match["target_service_ok"] = TRUE
        /\ match["packet_loss_after_hop1"] = FALSE
        /\ match["packet_loss_multiple_targets"] = FALSE
    OBVIOUS
  <2> HIDE DEF match
  <2>4. matches(RULES[9], s) <=>
          /\ Attr(s, "gateway_functional") = TRUE
          /\ Attr(s, "dns_ok") = TRUE
          /\ Attr(s, "ip_connectivity_ok") = TRUE
          /\ Attr(s, "control_hosts_ok") = TRUE
          /\ Attr(s, "target_service_ok") = TRUE
          /\ Attr(s, "packet_loss_after_hop1") = FALSE
          /\ Attr(s, "packet_loss_multiple_targets") = FALSE
    BY <2>1, <2>2, <2>3 DEF matches
  <2>5. QED
    BY <1>1, <1>2, <1>11, <2>1, <2>4 DEF RowAsks, gf
<1>12. CASE i = 10
  <2>1. RULES[10].match = [field \in {} |-> TRUE] /\ RULES[10].boundary = RowNames[10]
    BY TenRows DEF VERDICT_RULES, Row, RowNames
  <2>2. QED
    BY <1>12, <2>1 DEF RowAsks, matches
<1>13. QED
  BY <1>3, <1>4, <1>5, <1>6, <1>7, <1>8, <1>9, <1>10, <1>11, <1>12

\* The table read as a chain of questions.
Decision(s) ==
  IF ~gateway_functional(s)
  THEN IF s.default_route_present THEN "router-gateway"
       ELSE IF s.ipv6_default_route_present THEN "ipv6-only" ELSE "local-device"
  ELSE IF s.captive_portal_detected THEN "captive-portal"
  ELSE IF ~s.dns_ok THEN IF s.ip_connectivity_ok THEN "dns" ELSE "wan-gateway"
  ELSE IF s.packet_loss_after_hop1 /\ s.packet_loss_multiple_targets THEN "isp-upstream"
  ELSE IF s.control_hosts_ok /\ ~s.target_service_ok THEN "remote-service"
  ELSE IF /\ s.ip_connectivity_ok /\ s.control_hosts_ok /\ s.target_service_ok
          /\ ~s.packet_loss_after_hop1 /\ ~s.packet_loss_multiple_targets
       THEN "healthy" ELSE "inconclusive"

\* What a row builds blames what the row names (engine.py:29-232).
LEMMA RowsBlame ==
  ASSUME NEW s, NEW i \in 1..10
  PROVE  build(RowNames[i], s).boundary = RowNames[i]
BY DEF RowNames, build, ipv6_only, local_device, router_gateway, captive_portal,
       wan_gateway, dns, isp_upstream, remote_service, healthy, inconclusive, Diagnosis

\* The first row that fires is the winner (engine.py:316-326).
LEMMA FirstWins ==
  ASSUME NEW s \in SignalSnapshot, NEW i \in 1..10,
         RowAsks(i, s), \A j \in 1..(i - 1) : ~RowAsks(j, s)
  PROVE  /\ diagnose(s) = build(RowNames[i], s)
         /\ diagnose(s).boundary = RowNames[i]
<1> DEFINE First(k) == /\ matches(RULES[k], s)
                       /\ \A j \in 1..(k - 1) : ~matches(RULES[j], s)
           winner == CHOOSE k \in DOMAIN RULES : First(k)
<1>1. DOMAIN RULES = 1..10
  BY TenRows
<1>2. First(i)
  BY RowsAsk
<1>3. ASSUME NEW k \in 1..10, First(k) PROVE k = i
  <2>1. ~(k < i) /\ ~(i < k)
    BY <1>2, <1>3
  <2>2. QED
    BY <2>1
<1>4. winner = i
  BY <1>1, <1>2, <1>3
<1>5. diagnose(s) = build(RULES[winner].boundary, s)
  BY DEF diagnose
<1>6. QED
  <2>1. RULES[i].boundary = RowNames[i] /\ build(RowNames[i], s).boundary = RowNames[i]
    BY RowsAsk, RowsBlame
  <2>2. QED
    BY <1>4, <1>5, <2>1

\* The table decides as the chain does, and reports what the row it stops at builds
\* (engine.py:316-326).
THEOREM TableDecides ==
  ASSUME NEW s \in SignalSnapshot
  PROVE  /\ diagnose(s) = build(Decision(s), s)
         /\ diagnose(s).boundary = Decision(s)
<1>1. PICK i \in 1..10 : RowAsks(i, s) /\ \A j \in 1..(i - 1) : ~RowAsks(j, s)
  <2>1. RowAsks(10, s)
    BY DEF RowAsks
  <2>2. QED
    BY <2>1, SMT
<1>2. diagnose(s) = build(RowNames[i], s) /\ diagnose(s).boundary = RowNames[i]
  BY <1>1, FirstWins
<1>3. RowNames[i] = Decision(s)
  <2>1. \A j \in 1..9 : j < i => ~RowAsks(j, s)
    BY <1>1
  <2>2. /\ 1 < i => ~RowAsks(1, s)
        /\ 2 < i => ~RowAsks(2, s)
        /\ 3 < i => ~RowAsks(3, s)
        /\ 4 < i => ~RowAsks(4, s)
        /\ 5 < i => ~RowAsks(5, s)
        /\ 6 < i => ~RowAsks(6, s)
        /\ 7 < i => ~RowAsks(7, s)
        /\ 8 < i => ~RowAsks(8, s)
        /\ 9 < i => ~RowAsks(9, s)
    BY <2>1
  <2>3. Decision(s) =
          IF RowAsks(1, s) THEN "ipv6-only" ELSE IF RowAsks(2, s) THEN "local-device"
          ELSE IF RowAsks(3, s) THEN "router-gateway" ELSE IF RowAsks(4, s) THEN "captive-portal"
          ELSE IF RowAsks(5, s) THEN "wan-gateway" ELSE IF RowAsks(6, s) THEN "dns"
          ELSE IF RowAsks(7, s) THEN "isp-upstream" ELSE IF RowAsks(8, s) THEN "remote-service"
          ELSE IF RowAsks(9, s) THEN "healthy" ELSE "inconclusive"
    BY DEF RowAsks, Decision
  <2>4. CASE i = 1
    <3>1. RowNames[1] = "ipv6-only"
      BY DEF RowNames
    <3>2. QED
      BY <1>1, <2>2, <2>3, <2>4, <3>1
  <2>5. CASE i = 2
    <3>1. RowNames[2] = "local-device"
      BY DEF RowNames
    <3>2. QED
      BY <1>1, <2>2, <2>3, <2>5, <3>1
  <2>6. CASE i = 3
    <3>1. RowNames[3] = "router-gateway"
      BY DEF RowNames
    <3>2. QED
      BY <1>1, <2>2, <2>3, <2>6, <3>1
  <2>7. CASE i = 4
    <3>1. RowNames[4] = "captive-portal"
      BY DEF RowNames
    <3>2. QED
      BY <1>1, <2>2, <2>3, <2>7, <3>1
  <2>8. CASE i = 5
    <3>1. RowNames[5] = "wan-gateway"
      BY DEF RowNames
    <3>2. QED
      BY <1>1, <2>2, <2>3, <2>8, <3>1
  <2>9. CASE i = 6
    <3>1. RowNames[6] = "dns"
      BY DEF RowNames
    <3>2. QED
      BY <1>1, <2>2, <2>3, <2>9, <3>1
  <2>10. CASE i = 7
    <3>1. RowNames[7] = "isp-upstream"
      BY DEF RowNames
    <3>2. QED
      BY <1>1, <2>2, <2>3, <2>10, <3>1
  <2>11. CASE i = 8
    <3>1. RowNames[8] = "remote-service"
      BY DEF RowNames
    <3>2. QED
      BY <1>1, <2>2, <2>3, <2>11, <3>1
  <2>12. CASE i = 9
    <3>1. RowNames[9] = "healthy"
      BY DEF RowNames
    <3>2. QED
      BY <1>1, <2>2, <2>3, <2>12, <3>1
  <2>13. CASE i = 10
    <3>1. RowNames[10] = "inconclusive"
      BY DEF RowNames
    <3>2. QED
      BY <1>1, <2>2, <2>3, <2>13, <3>1
  <2>14. QED
    BY <2>4, <2>5, <2>6, <2>7, <2>8, <2>9, <2>10, <2>11, <2>12, <2>13
<1>4. QED
  BY <1>2, <1>3

(* The decision table always has an answer. *)

TenBoundaries ==
  {"ipv6-only", "local-device", "router-gateway", "captive-portal", "wan-gateway",
   "dns", "isp-upstream", "remote-service", "healthy", "inconclusive"}

\* The last row of the table asks for nothing (engine.py:285-311).
LEMMA TableIsTotal ==
  /\ \A i \in DOMAIN RULES : RULES[i].boundary \in TenBoundaries
  /\ Len(RULES) \in Nat /\ DOMAIN RULES = 1..Len(RULES)
  /\ \A s : \E i \in DOMAIN RULES : matches(RULES[i], s)
<1>1. \A i \in 1..10 : RULES[i].boundary \in TenBoundaries
  <2>1. \A i \in 1..10 : i \in {1, 2, 3, 4, 5, 6, 7, 8, 9, 10}
    OBVIOUS
  <2>2. \A i \in {1, 2, 3, 4, 5, 6, 7, 8, 9, 10} : RULES[i].boundary \in TenBoundaries
    BY TenRows DEF LAN_RULES, PORTAL_RULES, WAN_RULES, UPSTREAM_RULES, SERVICE_RULES,
                   VERDICT_RULES, Row, TenBoundaries
  <2>3. QED
    BY <2>1, <2>2
<1>2. \A s : matches(RULES[10], s)
  BY TenRows DEF VERDICT_RULES, Row, matches
<1>3. QED
  BY <1>1, <1>2, TenRows

\* Every snapshot gets a verdict of the vocabulary (engine.py:316-326).
LEMMA VerdictIsBoundary ==
  /\ \A s : LET d == diagnose(s)
            IN  /\ d.boundary \in BOUNDARIES
                /\ d = Diagnosis(d.boundary, d.confidence, d.claims)
  /\ "none" \notin BOUNDARIES
<1> DEFINE Matching(s) == {i \in DOMAIN RULES : matches(RULES[i], s)}
           First(s, i) == /\ i \in DOMAIN RULES
                          /\ matches(RULES[i], s)
                          /\ \A j \in 1..(i - 1) : ~matches(RULES[j], s)
<1>1. ASSUME NEW s PROVE \E i : First(s, i)
  <2>1. PICK i \in Matching(s) : \A j \in Matching(s) : i <= j
    BY TableIsTotal, LeastNatural, Matching(s) \in SUBSET Nat
  <2>2. \A j \in 1..(i - 1) : j \in DOMAIN RULES /\ ~(i <= j)
    BY TableIsTotal
  <2>3. QED
    BY <2>1, <2>2
<1>2. ASSUME NEW s
      PROVE  /\ diagnose(s).boundary \in BOUNDARIES
             /\ diagnose(s) = Diagnosis(diagnose(s).boundary, diagnose(s).confidence,
                                        diagnose(s).claims)
  <2> DEFINE winner == CHOOSE i \in DOMAIN RULES :
                         /\ matches(RULES[i], s)
                         /\ \A j \in 1..(i - 1) : ~matches(RULES[j], s)
  <2>1. winner \in DOMAIN RULES
    BY <1>1
  <2>2. diagnose(s) = build(RULES[winner].boundary, s)
    BY DEF diagnose
  <2> HIDE DEF winner
  <2>3. ASSUME NEW b \in TenBoundaries
        PROVE  \E c, k : build(b, s) = Diagnosis(b, c, k)
    BY DEF TenBoundaries, build, ipv6_only, local_device, router_gateway,
           captive_portal, wan_gateway, dns, isp_upstream, remote_service, healthy,
           inconclusive
  <2>4. PICK c, k : diagnose(s) = Diagnosis(RULES[winner].boundary, c, k)
    BY <2>1, <2>2, <2>3, TableIsTotal
  <2>5. QED
    BY <2>1, <2>4 DEF BOUNDARIES, Diagnosis
<1>3. "none" \notin BOUNDARIES
  BY TableIsTotal DEF BOUNDARIES, TenBoundaries
<1>4. QED
  BY <1>2, <1>3

\* Refinement keeps the boundary, withdraws no claim, and moves the confidence only
\* after an answer to a question it can settle (engine.py:318-356).
LEMMA RefineOnlyNudges ==
  ASSUME NEW d, d = Diagnosis(d.boundary, d.confidence, d.claims), NEW answer
  PROVE  /\ refine(d, answer).boundary = d.boundary
         /\ d.claims \subseteq refine(d, answer).claims
         /\ refine(d, answer).confidence # d.confidence =>
              answer.consulted /\ d.boundary \in VANTAGE_REFINABLE
BY DEF Diagnosis, refine
=============================================================================
