SPECIFICATION Spec
CONSTANTS
  Requests = {r1, r2, r3}
  Confirms = {c1}
  Faulty = {r3, c1}
  Descriptors <- OnlySqlRead
  Environment = "production"
  Assurance = "A1"
  DryRunConfigured = TRUE
  TTL = 1
  MaxTime = 1
  None = None
SYMMETRY Symmetric
CHECK_DEADLOCK FALSE
 
INVARIANT PersonIsNeeded
INVARIANT RestsOnEvidence
