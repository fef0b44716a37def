SPECIFICATION MCSpec
CONSTANTS
  Containers = {"c1", "c2"}
  Images = {"i1", "i2"}
  Tags = {"app:latest"}
  Volumes = {"data"}
  Networks = {"web", "web2", "bridge"}
  Builtin = {"bridge"}
  NoImage = "no image"
  NoTag = "no tag"
  Ref <- MCRef
  Mounts <- MCMounts
  Attached <- MCAttached
  NetName <- MCNetName
  Anonymous = {"data"}
  Digested = {}
  Undated = {}
  MaxUserSteps = 1
  Config <- MCConfig
  ImageUser <- MCImageUser
  Size <- MCSize
  TagWord <- MCTagWord
  SocketNames = {"docker.sock", "my-docker.sock"}
  PenaltyUnit = 27720
  Invocations <- MCInvocations
  Faults = {"list", "inspect", "output", "cancel"}
INVARIANTS
  TypeOK UnusedIsUnused CleanupAgrees SummaryAgrees OneExposureOnce EveryFixCounts
  ScreensLoseNothing SuppressionsTakeEffect ExitMeans
PROPERTIES
  ScanEnds
