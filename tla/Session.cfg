SPECIFICATION Spec
CONSTANTS
  SuperAdmin = root
  Admin = {ana}
  Person = {}
  Newcomer = {bob}
  Browser = {{t1, t2}, {t3}}
  None = None
  MaxCalls = 4
  MaxOpen = 2
SYMMETRY Symmetry
INVARIANTS ActsAsShown SessionsAreCurrent
PROPERTIES OfferedIsAllowed
CHECK_DEADLOCK FALSE
