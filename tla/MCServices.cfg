SPECIFICATION ServicesSpec
CONSTANTS
  Handlers = {h1, h2}
  None = None
  Keys = {"k1"}
  Agents = {"a1"}
  MaxRequests = 4
  CatalogFailures = 1
  Editors = {"e1"}
  Redactions = {"r1", "r2"}
  Ttl = 2
  FetchTime = 1
  MaxVersions = 2
SYMMETRY Symmetry
INVARIANT CatalogIsCurrent
INVARIANT MemoryIsGuarded
INVARIANT ProjectIsRecent
INVARIANT TrainedOnDecisions
\* Requests, self-tests and exports end, and the bounds are used up.
CHECK_DEADLOCK FALSE
