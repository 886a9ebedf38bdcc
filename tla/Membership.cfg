SPECIFICATION Spec
CONSTANTS
  s1 = s1  s2 = s2  owner = owner  ann = ann  bob = bob
  Slot = {s1, s2}
  User = {owner, ann}
  Owner = owner
  Invite = {1, 2}
  JoinRequest = {1}
  Legacy = {1}
  DefaultRole = "viewer"
  None = None
  Command <- Commands
  MaxVersion = 3
SYMMETRY Symmetry
INVARIANTS TypeOK OwnerStays GrantedPeopleJoined
PROPERTIES DecisionsAreFinal JoinsAreGranted NoLostRoleChange
