SPECIFICATION Spec
CONSTANTS
  MaxOp = 5
  MaxFaults = 3
INVARIANTS TypeOK CheckpointsAgree
PROPERTY RestartsKeepTheTables
