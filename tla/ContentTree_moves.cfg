CONSTANTS
  c1 = c1  c2 = c2  f1 = f1  f2 = f2  f3 = f3  r1 = r1
  Slot = {s1, s2}
  Collection = {c1, c2}
  Folder = {f1, f2}
  Request = {r1}
  None = None  Keep = Keep
  Command <- MovesAndFolderDeletes
  IdOrder <- Ids
  ReuseIds = FALSE
  MaxVersion = 2
  WalkLimit = 3
SYMMETRY Symmetry
SPECIFICATION Spec
INVARIANT InItsFoldersCollection
