SPECIFICATION Spec
CONSTANTS
  r1 = r1
  r2 = r2
  r3 = r3
  a = a
  b = b
  x = x
  y = y
  Nothing = Nothing
  Padding = Padding
  Replicas <- ThreeReplicas
  Leader = {r1}
  Caller = {x, y}
  Data = {a}
  Length <- One
  ChunkSize = 4
  Start = 2
  Offset = {0}
  Fault = {"request", "reply", "disk"}
  MaxFaults = 1
  MaxRestarts = 1
  MaxId = 3
INVARIANTS
  TypeOK
  MutationOrder
  AcknowledgedEverywhere
SYMMETRY Callers
CHECK_DEADLOCK FALSE
