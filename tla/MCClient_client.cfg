SPECIFICATION Spec
CONSTANTS
  c1 = c1
  c2 = c2
  s1 = s1
  s2 = s2
  Client = {c1, c2}
  Server = {s1, s2}
  ChunkSize = 2
  MaxTries = 2
  MaxOps = 3
  MaxHandle = 3
  MaxFiles = 2
  MaxFaults = 1
  Ranges <- Spans
SYMMETRY Symmetry
INVARIANTS
  TypeOK
  AppendsWhereSaid
  
  
CHECK_DEADLOCK FALSE
