SPECIFICATION Spec
CONSTANTS
  control_hosts <- MCHosts
  control_quorum = 3
  canary_ip = "h1"
  gateway_min_replies = 2
  ip_loss_pct = 50
  control_loss_pct = 50
  remote_loss_pct = 20
  captive_check_enabled = TRUE
  Pings <- MCPings
  Pending = Pending
  NoTool = NoTool
  MaxInterrupts = 2
INVARIANTS
  QuorumOverAll
  NoPingLeftBehind
PROPERTIES
  ImplementsControlCheck
  CheckEnds
