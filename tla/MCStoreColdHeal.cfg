SPECIFICATION Spec
CONSTANTS
  s1 = s1
  s2 = s2
  s3 = s3
  Sessions = {s1, s2, s3}
  Nobody = Nobody
  Deployments <- MCColdThenAlone
INVARIANTS
  SoloSessionHeals
\* Every session may have ended.
CHECK_DEADLOCK FALSE
