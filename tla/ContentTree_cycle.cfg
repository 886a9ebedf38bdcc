CONSTANTS
  c1 = c1  c2 = c2  f1 = f1  f2 = f2  f3 = f3  r1 = r1
  Slot = {s1, s2}
  Collection = {c1}
  Folder = {f1, f2}
  Request = {}
  None = None  Keep = Keep
  Command <- FoldersOnly
  IdOrder <- Ids
  ReuseIds = FALSE
  MaxVersion = 2
  WalkLimit = 3
SYMMETRY Symmetry
SPECIFICATION Spec
INVARIANTS NoCycles
