SPECIFICATION Spec
CONSTANTS
  Contents = {"a", "b", "bad"}
  Empty = "a"
  Bad = {"bad"}
  MaxPublished = 3
  MaxFaults = 1
  MaxCrashes = 1
PROPERTY Converges
CHECK_DEADLOCK FALSE
INVARIANT KeepsServing
