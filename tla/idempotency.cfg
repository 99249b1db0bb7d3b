SPECIFICATION Spec
CONSTANTS
  p1 = p1
  p2 = p2
  p3 = p3
  s1 = s1
  s2 = s2
  redis = redis
  Proc <- ThreeRequests
  Session <- TwoSessions
  Effects = 2
  Depth = 2
  Faults = 1
INVARIANTS
  TypeOK
  HandlersExclude
  OneEffect
PROPERTIES
  LockIsFreed
