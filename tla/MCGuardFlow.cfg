SPECIFICATION Spec
CONSTANTS
  BaseTrust = 80
  Requests = {r1, r2}
  Sessions = {s1}
  NoSession = NoSession
  Used <- Tried
  PenaltyAfter = 2
  QuarantineAfter = 2
  AgentQuarantineAfter = 2
  VerifierSet = TRUE
  MaxServed = 3
  MaxFaults = 1
  MaxTime = 1
SYMMETRY Symmetric
CHECK_DEADLOCK FALSE
INVARIANT ReleasedIsEarned
INVARIANT HistoryBinds
