CONSTANTS
  a1 = a1  a2 = a2  b = b  s = s  u = u
  tA = tA  tB = tB  tS = tS  tU = tU
  Foreign = Foreign
  NoPause = NoPause
  Op <- AllOps
  Target <- AllTargets
  TargetOf <- TargetMap
  TableOf <- TableMap
  IndexOp = {a1, a2, b}
  Resumable = {a1, a2}
  Stoppable = {s}
  Chunked = {s}
  Intent = {b}
  Manifest <- TwoManifests
  Plans <- ShortPlans
  Continue = {1}
  OptIn = {2}
  Windowed = {}
  Faults = {"crash", "drain", "probe", "loss", "foreign"}
  MaxFaults = 3
SPECIFICATION FairSpec
PROPERTIES
  PauseDestroyedOnlyByOwner
  EveryManifestConcludes
