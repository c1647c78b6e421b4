SPECIFICATION Spec
CONSTANTS
  a = a
  b = b
  Zero = Zero
  Byte = {a, b}
  BlockSize = 2
  ChunkSize = 4
  MaxLength = 3
  Holes = FALSE
  Fault = {"write", "persist", "remove", "unsum"}
  MaxFaults = 1
INVARIANTS
  TypeOK
  DamageContained
  RestartChangesNothing
SYMMETRY Bytes
