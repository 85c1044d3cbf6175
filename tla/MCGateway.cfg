SPECIFICATION GatewaySpec
CONSTANTS
  Callers = {c1, c2}
  Keys = {k1, k2}
  Limits = {1, 2}
  Minute = 2
  Ttl = 2
  NegTtl = 1
  MaxCached = 1
  MaxKeys = 1
  MaxTime = 3
  MaxChanges = 1
  PdpBatches <- BatchesSent
  Limit = 3
  MaxCalls = 3
  MaxRefills = 1
  MaxDocs = 2
  Wait = 3
  PollEvery = 2
  Confirms = {"c1", "c2"}
  TokenKeys = {"k1", "k2", "x"}
  MadeUp = {"x"}
  CacheTime = 3
  RefetchTime = 1
  FetchTime = 2
SYMMETRY Symmetry
INVARIANT AccessIsCurrent
INVARIANT ReleasedIsClean
 
 
INVARIANT ChatIsReleased
INVARIANT PermitsAreAsked
INVARIANT HooksWait
INVARIANT KeysAreFresh
\* Requests end.
CHECK_DEADLOCK FALSE
