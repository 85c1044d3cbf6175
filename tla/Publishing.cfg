SPECIFICATION Spec
CONSTANTS
  Writers = {w1, w2, w3}
  Deciders = {d1, d2}
  Keys = {k1, k2}
  Docs = {x, y}
  Protected = TRUE
  MaxEdits = 1
  None = None
SYMMETRY Symmetric
CHECK_DEADLOCK FALSE
INVARIANT TwoPersonRule
INVARIANT LiveAsDecided
