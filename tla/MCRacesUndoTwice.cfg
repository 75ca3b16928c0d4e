SPECIFICATION Spec
CONSTANTS
  Sessions = {s1, s2}
  s1 = s1
  s2 = s2
  Kinds = {"close", "undo"}
  Zones = {"home"}
  MaxDay = 6
  MaxRows = 4
  MaxRequests = 3
SYMMETRY SessionSymmetry
INVARIANT
  AlwaysOneOpen
CHECK_DEADLOCK FALSE
