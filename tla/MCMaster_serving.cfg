SPECIFICATION Spec
CONSTANTS
  a = a
  b = b
  s = s
  t = t
  Name = {a, b}
  Path <- FlatPaths
  Factor = {1}
  Version = {1}
  Size = {0}
  Server = {s, t}
  MaxHandle = 3
  MaxChunks = 1
  MaxDepth = 2
  MaxFaults = 0
  Served = {1}
  Placement = 2
INVARIANTS
  ReplicaListsSound
PROPERTIES
  
  SnapshotRevokesLeases
  DeadChunksForgotten
  CopyServedLikeSource
SYMMETRY ServerSymmetry
