SPECIFICATION Spec
CONSTANTS
  a = a
  b = b
  s = s
  t = t
  Name = {a, b}
  Path <- TreePaths
  Factor = {1}
  Version = {1}
  Size = {0}
  Server = {}
  MaxHandle = 3
  MaxChunks = 2
  MaxDepth = 2
  MaxFaults = 1
  Served = {1}
  Placement = 2
INVARIANTS
  LiveConsistent
  
  RecoveryFaithful
PROPERTIES
  AcceptedRequestsReplay
