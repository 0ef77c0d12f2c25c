SPECIFICATION Spec
CONSTANTS
  d = d
  h = h
  g = g
  m = m
  r = r
  a = a
  b = b
  c1 = c1
  c2 = c2
  Works = {d}
  Keys = {a, b}
  Bodies = {"x", "y"}
  Clients = {c1, c2}
  Kind <- MCKind
  Scope <- MCScope
  NoData <- MCNoData
  Accepts <- MCAccepts
SYMMETRY Symmetry
INVARIANTS TypeOK WorkSafe
PROPERTIES WorkSteps DatedRoundMayAcquire
