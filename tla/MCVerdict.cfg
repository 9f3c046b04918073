SPECIFICATION Spec
INVARIANTS
  ClaimsFollowSignals
  PortalIsDecisive
PROPERTIES
  RoutesIrrelevantWhenForwarding
  SilentGatewayAccusesNobody
  RepairMovesBlameOutward
  VantageOnlyNudges
