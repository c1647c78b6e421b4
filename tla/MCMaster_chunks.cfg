SPECIFICATION Spec
CONSTANTS
  a = a
  b = b
  s = s
  t = t
  Name = {a, b}
  Path <- FlatPaths
  Factor = {1}
  Version = {1, 2}
  Size = {0}
  Server = {}
  MaxHandle = 3
  MaxChunks = 2
  MaxDepth = 2
  MaxFaults = 1
  Served = {1}
  Placement = 2
INVARIANTS
  TypeOK
  LiveConsistent
  
  RecoveryFaithful
PROPERTIES
  AcceptedRequestsReplay
  
  CopyOnWriteIsolation
SYMMETRY NameSymmetry
