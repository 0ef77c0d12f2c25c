SPECIFICATION LiveSpec
CONSTANTS
  d = d
  h = h
  g = g
  m = m
  r = r
  a = a
  b = b
  c1 = c1
  c2 = c2
  Works = {d, h, r}
  Keys = {a}
  Bodies = {"x"}
  Clients = {c1}
  Kind <- MCKind
  Scope <- MCScope
  NoData <- MCNoData
  Accepts <- MCAccepts
PROPERTY WorkSettles
