SPECIFICATION Spec
CONSTANTS
  Sessions = {s1, s2, s3}
  s1 = s1
  s2 = s2
  s3 = s3
  Kinds = {"close", "undo", "edit", "zone"}
  Zones = {"home", "west"}
  MaxDay = 8
  MaxRows = 5
  MaxRequests = 4
SYMMETRY SessionSymmetry
INVARIANT
  DeadlockNeedsUndo
CHECK_DEADLOCK FALSE
