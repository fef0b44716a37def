SPECIFICATION MCSpec
CONSTANTS
  Containers = {"c1", "c2"}
  Images = {"i1", "i2"}
  Tags = {"app:latest"}
  Volumes = {"data"}
  Networks = {"web", "bridge"}
  Builtin = {"bridge"}
  NoImage = "no image"
  NoTag = "no tag"
  Ref <- MCRef
  Mounts <- MCMounts
  Attached <- MCAttached
  NetName <- MCNetName
  Anonymous = {"data"}
  Digested = {"i1"}
  Undated = {}
  MaxUserSteps = 1
  CommandLines <- MCCommandLines
  Faults = {"list", "inspect", "answer", "output", "kill", "cancel"}
INVARIANTS
  TypeOK VolumeGate KeepSinceHolds InterruptSpares FailedMeansIntact OneRunConverges ExitTellsTruth
PROPERTIES
  RunEnds
