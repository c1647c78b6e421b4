SPECIFICATION Spec
CONSTANTS
  Server = {1, 2}
  Attached = {}
  PolicyFactor = 1
  FileFactor = {1}
  MaxHandle = 2
  MaxGeneration = 1
  MaxVersion = 1
  Written = {}
  MaxBeats = 1
  MaxRestarts = 0
  Job = {"move"}
INVARIANTS
  AllocatedChunksExist
PROPERTIES
  ReplacedBeforeDropped
