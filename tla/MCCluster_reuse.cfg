SPECIFICATION Spec
CONSTANTS
  Server = {1, 2}
  Attached = {}
  PolicyFactor = 2
  FileFactor = {2}
  MaxHandle = 1
  MaxGeneration = 3
  MaxVersion = 1
  Written = {1}
  MaxBeats = 1
  MaxRestarts = 2
  Job = {}
INVARIANTS
  OwnDataOnly

  
