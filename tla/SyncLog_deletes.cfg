SPECIFICATION Spec
CONSTANTS
  s1 = s1
  s2 = s2
  c1 = c1
  c2 = c2
  o1 = o1
  o2 = o2
  o3 = o3
  x1 = x1
  r1 = r1
  r2 = r2
  NoOp = NoOp
  Slot <- TwoSlots
  Client = {c1}
  SyncOp = {o1, o2, o3}
  RestOp = {x1}
  Resource = {r1}
  IncomingOp <- DeleteOps
  PageLimit = 2
SYMMETRY Symmetry
INVARIANTS LogIsGapFree RowsAreLogged AcceptedIsLogged
PROPERTIES NoLostUpdate
