SPECIFICATION Spec
CONSTANTS
  s1 = s1
  s2 = s2
  s3 = s3
  Sessions = {s1, s2, s3, s4}
  Nobody = Nobody
  Deployments <- MCSafe
SYMMETRY SessionSymmetry
INVARIANTS
  SchemaInv
PROPERTIES
  ImplementsRunLog
\* Every session may have ended.
CHECK_DEADLOCK FALSE
