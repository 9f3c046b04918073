SPECIFICATION Spec
CONSTANTS
  control_hosts <- MCHosts
  control_quorum = 2
  canary_ip = "1.1.1.1"
  gateway_min_replies = 2
  ip_loss_pct = 50
  control_loss_pct = 50
  remote_loss_pct = 20
  captive_check_enabled = TRUE
  names <- MCNames
  Jobs <- MCJobs
  Pending = Pending
  NoTool = NoTool
  NoTarget = NoTarget
  CommandLines <- MCLines
  Flags <- MCFlags
  Files <- MCSoundFiles
  MaxTroubles = 1
PROPERTIES
  VantageFailsOpen
