SPECIFICATION Spec
CONSTANTS
  Folder = {1, 2}
  Request = {3}
  Global = {4}
  Change <- FlatChanges
  Declared = FALSE
  PageLimit = 1
  MaxVersion = 2
  MaxLog = 4
INVARIANT SnapshotConverges
PROPERTIES ReplicaMovesForward
