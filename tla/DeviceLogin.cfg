SPECIFICATION Spec
CONSTANTS
  s1 = s1  s2 = s2  ann = ann  bob = bob
  Slot = {s1, s2}
  User = {ann, bob}
  Flow = {1}
  Token = {1, 2, 3}
  None = None
SYMMETRY Symmetry
INVARIANTS TypeOK IssuedOnce OneLivePerLogin TokensFollowApprover
PROPERTIES ExchangedWhole
