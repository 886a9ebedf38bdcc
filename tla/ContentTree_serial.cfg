CONSTANTS
  c1 = c1  c2 = c2  f1 = f1  f2 = f2  f3 = f3  r1 = r1
  Slot = {s1}
  Collection = {c1, c2}
  Folder = {f1, f2, f3}
  Request = {r1}
  None = None  Keep = Keep
  Command <- AllCommands
  IdOrder <- Ids
  ReuseIds = TRUE
  MaxVersion = 2
  WalkLimit = 3
SYMMETRY Symmetry
SPECIFICATION Spec
INVARIANTS TypeOK NoCycles EveryDeleteHasTombstone LastEntryIsTheRow OrphansOnlyInPassing
