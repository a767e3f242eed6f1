CONSTANTS
  a1 = a1  a2 = a2  b = b  s = s  u = u
  tA = tA  tB = tB  tS = tS  tU = tU
  Foreign = Foreign
  NoPause = NoPause
  Op <- AllOps
  Target <- AllTargets
  TargetOf <- TargetMap
  TableOf <- TableMap
  IndexOp = {a1, a2, b}
  Resumable = {a1, a2}
  Stoppable = {s}
  Chunked = {s}
  Intent = {b}
  Manifest <- OneManifest
  Plans <- LongPlans
  Continue = {1}
  OptIn = {1}
  Windowed = {1}
  Faults = {"crash", "drain", "window", "probe", "loss", "repin", "edit", "withdraw", "foreign"}
  MaxFaults = 3
SPECIFICATION Spec
INVARIANTS
  SuccessIsEarned
  PartialAccountsForAll
  NoDoubleExecution
PROPERTIES
  ProgressKept
  KeepsPromise
