SPECIFICATION BusySpec
CONSTANTS
  Containers = {"c1", "c2"}
  Images = {"i1", "i2"}
  Tags = {"app:latest", "app:1.0"}
  Volumes = {"data"}
  Networks = {"web", "bridge"}
  Builtin = {"bridge"}
  NoImage = "no image"
  NoTag = "no tag"
  Ref <- MCRef
  Mounts <- MCMounts
  Attached <- MCAttached
  NetName <- MCNetName
  Anonymous = {"data"}
  Digested = {"i1"}
  Undated = {}
  MaxUserSteps = 0
  CommandLines <- MCBusyLines
  Faults = {}
INVARIANT RemovedMeansGone
