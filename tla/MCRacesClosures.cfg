\* Completions, skips and timezone changes of one chore at once.
SPECIFICATION FairSpec
CONSTANTS
  Sessions = {s1, s2, s3}
  s1 = s1
  s2 = s2
  s3 = s3
  Kinds = {"close", "zone"}
  Zones = {"home", "west"}
  MaxDay = 8
  MaxRows = 5
  MaxRequests = 4
INVARIANT
  EachSuccessIsOneClosure
PROPERTIES
  ImplementsChain
  RequestsFinish
CHECK_DEADLOCK FALSE
