SPECIFICATION Spec
CONSTANTS
  HostSlot = {h1, h2}
  HostName = {"team.shared", "a.example"}
  SharedName = {"team.shared"}
  MaxBinding = 3
  VarSlot = {v1, v2}
  VarId = {i1, i2}
  Key = {k1, k2}
  Text = {"a"}
  Scope = {"environment_variable", "collection_variable", "global_variable", "collection_version"}
  NoKey = NoKey
  Budget = 12
  HostCost = 3
  RowCost = 4
  MaxVersion = 2
SYMMETRY Symmetry
INVARIANTS ActiveWasProven HostModeFollows SecretsAreSealed
PROPERTIES PushKeepsValue
CHECK_DEADLOCK FALSE
