SPECIFICATION Spec
CONSTANTS
  d = d
  h = h
  g = g
  m = m
  r = r
  a = a
  b = b
  c1 = c1
  c2 = c2
  Works = {h, g, r, m}
  Keys = {a}
  Bodies = {"x"}
  Clients = {c1, c2}
  Kind <- MCKind
  Scope <- MCScope
  NoData <- MCNoData
  Accepts <- MCAccepts
SYMMETRY PairSymmetry
ACTION_CONSTRAINT TwoAtATime
INVARIANTS LineSound
PROPERTIES PairSteps
