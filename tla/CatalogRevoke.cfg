SPECIFICATION Spec
CONSTANTS
  Handlers = {h1, h2}
  Keys = {k1}
  Agents = {a1}
  None = None
  MaxRequests = 3
  MaxFailures = 0
INVARIANT RevokedIsGone
CHECK_DEADLOCK FALSE
