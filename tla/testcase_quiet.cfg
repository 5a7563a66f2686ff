SPECIFICATION Spec
CONSTANTS
  t1 = t1  t2 = t2  r1 = r1  r2 = r2  f1 = f1  m1 = m1  p1 = p1  p2 = p2
  proxy = proxy
  Tests = {t1, t2}
  Sidecars = {proxy}
  Detached = {}
  SharedCtr = SharedCtr
  ReusedCtr = ReusedCtr
  None = None
  RyukEnabled = FALSE
  Resources = {r1, r2}
  Fixtures = {f1}
  Messages = {m1}
  Prefixes = {p1, p2}
  UniquePrefixes = TRUE
  OptionSets <- MCOwn
  ArtifactDirSet = TRUE
  Faults = {}
INVARIANTS ExitLeavesNoContainer
PROPERTIES CleanupKeepsVerdict
