SPECIFICATION Spec
CONSTANTS
  MaxHops = 5
  Losses <- MCLosses
  path_loss_pct = 20
  Runs <- MCRuns
  Escalations <- MCEscalations
  Captures <- MCCaptures
INVARIANT ScrubKeepsDestination
