SPECIFICATION FairSpec
CONSTANTS
  Server = {1, 2}
  Attached = {}
  PolicyFactor = 2
  FileFactor = {2}
  MaxHandle = 1
  MaxGeneration = 1
  MaxVersion = 2
  MaxBeats = 1
  Written = {1}
  MaxRestarts = 1
  Job = {"recover"}
INVARIANTS
  TypeOK
  AllocatedChunksExist
  LocationsServable
PROPERTIES
  CopiesComeBack
