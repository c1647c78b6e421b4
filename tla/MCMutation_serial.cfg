SPECIFICATION FairSpec
CONSTANTS
  r1 = r1
  r2 = r2
  r3 = r3
  a = a
  b = b
  x = x
  y = y
  Nothing = Nothing
  Padding = Padding
  Replicas <- TwoReplicas
  Leader = {r1}
  Caller = {x}
  Data = {a, b}
  Length <- ShortAndLong
  ChunkSize = 8
  Start = 5
  Offset = {}
  Fault = {"request", "reply", "disk"}
  MaxFaults = 2
  MaxRestarts = 2
  MaxId = 5
INVARIANTS
  AcknowledgedReadable
  OutstandingRetained

  
\* MaxId stops a replica whose identifiers have run ahead of what it applied.
CHECK_DEADLOCK FALSE
